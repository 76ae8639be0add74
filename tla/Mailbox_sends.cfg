CONSTANTS
  Names = {n1}
  Requests = {r1, r2}
  Keyed = {r1}
  Foreign = {}
  Receivers = {c1}
  QueueBound = 1
  DlqMax = 1
  MaxCalls = 2
  MaxTries = 2
  MaxResends = 1
  Scenarios <- Repeating
  None = None
SPECIFICATION FairSpec
PROPERTIES
  SendEnds
