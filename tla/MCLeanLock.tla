----------------------------- MODULE MCLeanLock -----------------------------
(* LeanLock for TLC: three or four identities, on one host or on two. *)
EXTENDS LeanLock

CONSTANTS p1, h1, h2

OneHost  == [p \in Procs |-> h1]
TwoHosts == [p \in Procs |-> IF p = p1 THEN h2 ELSE h1]
=============================================================================
