CONSTANTS
  Names = {n1, n2}
  Requests = {r1}
  Keyed = {}
  Foreign = {}
  Receivers = {c1}
  QueueBound = 2
  DlqMax = 1
  MaxCalls = 1
  MaxTries = 2
  MaxResends = 0
  Scenarios <- Documented
  None = None
SPECIFICATION Spec
SYMMETRY Symmetry
PROPERTIES
  MailOnlyToKnown
  RenameLeavesNoMail
  DurableNeverPopped
CHECK_DEADLOCK FALSE
