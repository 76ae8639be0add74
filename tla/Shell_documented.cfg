CONSTANTS
  s1 = s1
  s2 = s2
  r1 = r1
  r2 = r2
  None = None
  Shells = {s1, s2}
  Legacy = {}
  Runtimes = {r1}
  Scenarios <- FailingSends
SPECIFICATION Spec
INVARIANTS ClosedServesNobody RetiredIsUnbound
PROPERTY AddressNeverGivenUp
CHECK_DEADLOCK FALSE
