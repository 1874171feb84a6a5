SPECIFICATION FairSpec
CONSTANTS
  N = 3
  Workers = {w1, w2}
  NoOne = NoOne
  Graphs <- AllGraphs
  Clashes <- AllClashes
INVARIANTS DependenciesMergeFirst ClashesNeverOverlap OneRunnerPerGroup NothingGoesMissing
PROPERTIES KeepsQueueContract QueueEnds
CHECK_DEADLOCK FALSE
