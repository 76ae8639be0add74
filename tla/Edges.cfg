CONSTANTS
  Ids = {i1, i2, i3}
  MaxSessions = 2
  MaxOpen = 2
  MaxInbox = 2
  MaxFaults = 1
  MaxConns = 2
  Hosts = {h1, h2}
  Dirs = {d1}
  Entries = {e1, e2}
  ToolCalls = {t1}
  Requests = {r1, r2}
  Registrations = {c1, c2, c3}
  Sessions = {s1, s2}
  Launches = {l1}
  None = None
SPECIFICATION Spec
SYMMETRY Symmetry
INVARIANTS FrontsLetGo NoBackendOrphaned
PROPERTIES ReapSparesOpen NoticeIsTimely RequestsAreAnswered OwnerIsKept
CHECK_DEADLOCK FALSE
