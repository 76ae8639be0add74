CONSTANTS
  Requests = {r1, r2}
  MaxConns = 1
SPECIFICATION FairSpec
PROPERTIES
  EveryRequestSettles
CHECK_DEADLOCK FALSE
