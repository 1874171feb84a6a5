-------------------------- MODULE MCSpawnSemaphore --------------------------
(* SpawnSemaphore for TLC: enough callers to fill the cap, queue and barge. *)
EXTENDS SpawnSemaphore
=============================================================================
