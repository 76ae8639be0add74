CONSTANTS
  Managed = FALSE
  MaxInbox = 2
  MaxFaults = 1
SPECIFICATION FairSpec
PROPERTIES ExitEnds
CHECK_DEADLOCK FALSE
