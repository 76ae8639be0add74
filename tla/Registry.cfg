CONSTANTS
  Clients = {c1, c2}
  Names = {n1, n2}
  Sessions = {s1, s2, s3}
  Stamps = {v1, v2}
  Scenarios <- MCScenarios
  None = None
SPECIFICATION Spec
SYMMETRY Symmetry
INVARIANTS
  UndoIsExact
  PresenceIsKept
PROPERTIES
  NoResurrection
  AdoptionIsExclusive
