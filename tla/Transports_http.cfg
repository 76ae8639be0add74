CONSTANTS
  Front = "http"
  Ids = {i1, i2, i3}
  MaxSessions = 2
  MaxOpen = 2
SPECIFICATION FairSpec
INVARIANTS TypeOK ClientsBounded
PROPERTIES ReapSparesOpen IdleIsClosed
CHECK_DEADLOCK FALSE
