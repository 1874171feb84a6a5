SPECIFICATION FairSpec
CONSTANTS
  Procs = {p1, p2, p3, p4}
  p1 = p1
  n1 = n1
  n2 = n2
  Spaces = {n1, n2}
  spaceOf <- TwoSpaces
  NoFile = NoFile
  CAP = 1
  MAX_STOPS = 1
INVARIANTS CapHoldsInOrder OneReaperPerSlot
PROPERTIES LiveSlotsStay AloneGetsIn
CHECK_DEADLOCK FALSE
