CONSTANTS
  m1 = m1
  m2 = m2
  c1 = c1
  c2 = c2
  s1 = s1
  s2 = s2
  NoSession = NoSession
  Msgs = {m1, m2}
  Legacy = {m2}
  ClaimIds = {c1, c2}
  Sessions = {s1, s2}
  QueueBound = 2
  MaxBatch = 2
  MaxTtl = 2
  Budget = 2
  RecoverCap = 1
  DlqMax = 1
  CounterTtl = 1
  Ceilings = {0, 1}
  MaxDamage = 1
  MaxLost = 1
  MaxTime = 3
SPECIFICATION Spec
SYMMETRY Symmetry
INVARIANTS
  RenewalsAreBounded
  ConcurrencyCeiling
  OnlyLastHolderAcks
  StoredOnce
  FirstDeliveryInOrder
  PoisonIsQuarantined
PROPERTIES
  LeaseHonoured
