CONSTANTS
  w1 = w1
  w2 = w2
  p1 = p1
  Wrappers = {w1, w2}
  Plain = {p1}
  None = None
  Mode <- Mixed
  Scenarios <- MCScenarios
SPECIFICATION FairSpec
INVARIANTS OneRuntimePerName ClaimCoversSession ExitZeroIsClean
PROPERTIES DestructionSparesOthers SignalEnds
