----------------------------- MODULE MCLeanWalk -----------------------------
(* LeanWalk for TLC: the walk is finite by itself, no bound is added. *)
EXTENDS LeanWalk
=============================================================================
