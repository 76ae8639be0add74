CONSTANTS
  Calls = {k1, k2}
  Sessions = {s1, s2}
  NoSession = NoSession
  Handoffs = {h1, h2}
  NoHandoff = NoHandoff
  MaxLease = 1
  Attempts = 2
  MaxTime = 1
SPECIFICATION Spec
PROPERTIES HandoffReachesSuccessor
