SPECIFICATION Spec
CONSTANTS
  Procs = {p1, p2, p3}
  FILES = 7
SYMMETRY Symmetry
INVARIANTS ExclusiveUnlessLost
PROPERTIES LosersRemoveNothing 
CHECK_DEADLOCK FALSE
