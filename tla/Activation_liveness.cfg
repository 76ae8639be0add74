CONSTANTS
  Dispatchers = {d1}
  Msgs = {m1, m2}
  Maximum = 1
  MaxRecords = 2
  Disturbances <- Undisturbed
  Nil = Nil
  Crashed = Crashed
SPECIFICATION FairDispatcherSpec
PROPERTIES
  WorkIsActivated
