CONSTANTS
  Calls = {k1, k2}
  Sessions = {s1, s2}
  NoSession = NoSession
  Handoffs = {h1}
  NoHandoff = NoHandoff
  MaxLease = 1
  Attempts = 2
  MaxTime = 3
SPECIFICATION Spec
INVARIANTS RecordAdmitted
PROPERTIES FollowsLifecycle ForfeitsOnlyLapsed CallsReturn
