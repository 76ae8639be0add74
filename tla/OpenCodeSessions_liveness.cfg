CONSTANTS
  Hosts = {h1}
  Dirs = {d1}
  Entries = {e1, e2}
  Calls = {c1}
  Faulty = {"server", "dispatcher"}
  None = None
SPECIFICATION FairSpec
PROPERTIES DisposalEnds CallsSettle
