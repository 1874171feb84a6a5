-------------------------- MODULE MCIntegrationLock --------------------------
(* IntegrationLock for TLC: three processes, any number of calls each. *)
EXTENDS IntegrationLock, TLC

Symmetry == Permutations(Procs)
=============================================================================
