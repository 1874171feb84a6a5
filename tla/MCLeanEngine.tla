---------------------------- MODULE MCLeanEngine ----------------------------
(* LeanEngine for TLC: two build rounds for the code's three, eleven loop turns for *)
(* its hundred, one crash; LeanEngineProofs has every other value.                 *)
EXTENDS LeanEngine
=============================================================================
