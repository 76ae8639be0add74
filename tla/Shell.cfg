CONSTANTS
  s1 = s1
  s2 = s2
  r1 = r1
  r2 = r2
  None = None
  Shells = {s1, s2}
  Legacy = {l1}
  Runtimes = {r1, r2}
  Scenarios <- MCScenarios
SPECIFICATION Spec
INVARIANTS BoundRuntimeKeepsMailbox ClosedMeansRetired
PROPERTIES ReplyAddressKept
CHECK_DEADLOCK FALSE
