SPECIFICATION FairSpec
CONSTANTS
  Writers = {w0, w1, w2}
  First = w0
  Nobody = Nobody
  Removable = TRUE
INVARIANTS OneWriterInside ReviewsDoNotVanish RoundCountsReviews
PROPERTIES CallsReturn
CHECK_DEADLOCK FALSE
