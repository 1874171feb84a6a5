-------------------------- MODULE MCLensModelSlots --------------------------
(* LensModelSlots for TLC: four lenses, three of them on one model. *)
EXTENDS LensModelSlots

CONSTANTS l1, m1, m2

OneElsewhere == [l \in Lenses |-> IF l = l1 THEN m2 ELSE m1]
=============================================================================
