CONSTANTS
  m1 = m1
  c1 = c1
  c2 = c2
  c3 = c3
  s1 = s1
  s2 = s2
  NoSession = NoSession
  Msgs = {m1}
  Legacy = {}
  ClaimIds = {c1, c2, c3}
  Sessions = {s1, s2}
  QueueBound = 2
  MaxBatch = 2
  MaxTtl = 1
  Budget = 2
  RecoverCap = 1
  DlqMax = 1
  CounterTtl = 4
  Ceilings = {1}
  MaxDamage = 0
  MaxLost = 0
  MaxTime = 7
SPECIFICATION Spec
SYMMETRY Symmetry
INVARIANTS
  DeadLetterAfterCap
  CeilingCountsLiveClaims
