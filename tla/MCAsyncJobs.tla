----------------------------- MODULE MCAsyncJobs -----------------------------
(* AsyncJobs for TLC: two units, in five mixes that hold every kind.           *)
EXTENDS AsyncJobs, TLC

CONSTANTS u1, u2

MCMixes == {(u1 :> "batch") @@ (u2 :> kind) : kind \in Kinds}
             \union {(u1 :> "single") @@ (u2 :> "report")}
=============================================================================
