---------------------------- MODULE MCReviewLedger ----------------------------
(* ReviewLedger for TLC. *)
EXTENDS ReviewLedger
=============================================================================
