SPECIFICATION LockSpec
CONSTANTS
  Procs = {p1, p2, p3}
  p1 = p1
  h1 = h1
  h2 = h2
  Hosts = {h1, h2}
  hostOf <- OneHost
  NoLock = NoLock
INVARIANT MutualExclusion
CHECK_DEADLOCK FALSE
