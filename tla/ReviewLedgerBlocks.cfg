SPECIFICATION FairSpec
CONSTANTS
  Writers = {w0, w1}
  First = w0
  Nobody = Nobody
  Removable = FALSE
PROPERTIES CallsReturn
CHECK_DEADLOCK FALSE
