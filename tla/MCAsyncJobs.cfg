SPECIFICATION FairSpec
CONSTANTS
  u1 = u1
  u2 = u2
  Units = {u1, u2}
  Mixes <- MCMixes
  MEMBERS = 2
  MAX_JOBS = 4
  MAX_GENERATION = 5
INVARIANTS CountIsOwed AnsweredOnce
PROPERTIES ReportsBeforeZero ShutdownReachesZero
CHECK_DEADLOCK FALSE
