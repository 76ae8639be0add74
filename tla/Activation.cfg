CONSTANTS
  Dispatchers = {d1, d2}
  Msgs = {m1, m2}
  Maximum = 2
  MaxRecords = 2
  Disturbances <- MCScenarios
  Nil = Nil
  Crashed = Crashed
SPECIFICATION DispatcherSpec
SYMMETRY Symmetry
INVARIANTS
  SubmittedOncePerRecord
PROPERTIES
  DoubtIsKept
