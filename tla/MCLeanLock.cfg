SPECIFICATION LockFairSpec
CONSTANTS
  Procs = {p1, p2, p3, p4}
  p1 = p1
  h1 = h1
  h2 = h2
  Hosts = {h1, h2}
  hostOf <- TwoHosts
  NoLock = NoLock
INVARIANTS ExclusiveUnlessMisfire
PROPERTIES LiveLockStays DeadLockIsCleared
CHECK_DEADLOCK FALSE
