CONSTANTS
  Calls = {k1, k2}
  Pids = {p1, p2}
  LeaseIds = {l1, l2}
  None = None
  LeasesExpire = TRUE
SPECIFICATION Spec
SYMMETRY Symmetry
INVARIANTS
  OneLaunchPerLease
  EvidenceIsOwn
  NeverCoalescesWithDead
  PolicyChangeHonoured
PROPERTIES
  ReconcileSparesReplacement
