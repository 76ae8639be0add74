CONSTANTS
  Calls = {k1, k2}
  Pids = {p1, p2}
  LeaseIds = {l1, l2}
  None = None
  LeasesExpire = FALSE
SPECIFICATION Spec
SYMMETRY Symmetry
PROPERTIES
  SingleLaunch
