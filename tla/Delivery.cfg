CONSTANTS
  m1 = m1
  m2 = m2
  c1 = c1
  c2 = c2
  s1 = s1
  s2 = s2
  NoSession = NoSession
  Msgs = {m1, m2}
  Legacy = {}
  ClaimIds = {c1, c2}
  Sessions = {s1, s2}
  QueueBound = 2
  MaxBatch = 2
  MaxTtl = 1
  Budget = 2
  RecoverCap = 1
  DlqMax = 1
  CounterTtl = 3
  Ceilings = {0}
  MaxDamage = 1
  MaxLost = 1
  MaxTime = 4
SPECIFICATION Spec
SYMMETRY Symmetry
PROPERTIES
  DeliversAtLeastOnce
