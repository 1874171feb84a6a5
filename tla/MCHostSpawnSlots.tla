-------------------------- MODULE MCHostSpawnSlots --------------------------
(* HostSpawnSlots for TLC: one process in another pid namespace than the rest. *)
EXTENDS HostSpawnSlots

CONSTANTS p1, n1, n2

TwoSpaces == [p \in Procs |-> IF p = p1 THEN n2 ELSE n1]
=============================================================================
