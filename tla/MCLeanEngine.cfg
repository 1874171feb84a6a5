SPECIFICATION FairSpec
CONSTANTS
  MAX_BUILD_ATTEMPTS = 2
  MAX_STEPS = 11
  MAX_CRASHES = 1
  FLAGS = {TRUE}
  NoRun = NoRun
INVARIANTS RecordAndWorldAgree UnfinishedRunResumes
PROPERTIES MergeIsEarned ResultIsFinal ImplementsWalk DriveEnds
