CONSTANTS
  Names = {n1, n2}
  Requests = {r1, r2}
  Keyed = {r1}
  Foreign = {g1}
  Receivers = {c1}
  QueueBound = 1
  DlqMax = 1
  MaxCalls = 2
  MaxTries = 2
  MaxResends = 1
  Scenarios <- MCScenarios
  None = None
SPECIFICATION Spec
SYMMETRY Symmetry
INVARIANTS
  Conservation
  RetriesAreSafe
  ClosedNeverParked
PROPERTIES
  RenameMovesTheMail
