----------------------------- MODULE MCWorkQueue -----------------------------
(* WorkQueue for TLC: every order the groups can declare, every collision. *)
EXTENDS WorkQueue

AllGraphs == {d \in [Groups -> SUBSET Groups] : \A g \in Groups : g \notin d[g]}
AllClashes == SUBSET {p \in SUBSET Groups : Cardinality(p) = 2}
=============================================================================
