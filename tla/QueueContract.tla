---------------------------- MODULE QueueContract ----------------------------
(***************************************************************************)
(* What the work queue promises of the groups of one invocation: a group   *)
(* is run at most once, after everything it depends on has merged and      *)
(* beside no group that touches its paths; it gets one outcome and keeps   *)
(* it; and a group is parked unrun only for a reason that is true.         *)
(***************************************************************************)
EXTENDS Naturals

CONSTANT N

Groups == 1..N

VARIABLES deps,       \* [Groups -> set of groups]: the declared order
          clash,      \* pairs {g, h} predicted to touch the same paths
          status,     \* [Groups -> "waiting", "running" or an outcome]
          halted

vars == <<deps, clash, status, halted>>

Ends    == {"merged", "parked", "not-started", "halted"}
Unrun   == {"cyclic", "orphaned", "capped", "stranded"}
Statuses == {"waiting", "running"} \cup Ends \cup Unrun

At(s) == {g \in Groups : status[g] = s}

\* No order exists for these: each waits for another of them.
Stuck == UNION {S \in SUBSET Groups : \A g \in S : deps[g] \cap S # {}}

Init == /\ deps \in [Groups -> SUBSET Groups]
        /\ clash \subseteq SUBSET Groups
        /\ status = [g \in Groups |-> IF g \in Stuck THEN "cyclic" ELSE "waiting"]
        /\ halted = FALSE

Ready(g) == deps[g] \subseteq At("merged") /\ \A h \in At("running") : {g, h} \notin clash

Becomes(g, from, to) == status[g] = from /\ status' = [status EXCEPT ![g] = to]

Start(g) == /\ ~halted /\ Ready(g)
            /\ Becomes(g, "waiting", "running")
            /\ UNCHANGED <<deps, clash, halted>>

End(g, outcome) == /\ Becomes(g, "running", outcome)
                   /\ halted' = (halted \/ outcome = "halted")
                   /\ UNCHANGED <<deps, clash>>

Orphan(g) == /\ ~halted
             /\ \E d \in deps[g] : status[d] \notin {"waiting", "running", "merged"}
             /\ Becomes(g, "waiting", "orphaned")
             /\ UNCHANGED <<deps, clash, halted>>

CapOut(g) == /\ ~halted /\ ~Ready(g)
             /\ Becomes(g, "waiting", "capped")
             /\ UNCHANGED <<deps, clash, halted>>

\* The queue is over: only a halt leaves a group behind.
Strand(S) == /\ halted /\ At("running") = {}
             /\ S \subseteq At("waiting")
             /\ status' = [g \in Groups |-> IF g \in S THEN "stranded" ELSE status[g]]
             /\ UNCHANGED <<deps, clash, halted>>

Next == \/ \E g \in Groups : \/ Start(g) \/ Orphan(g) \/ CapOut(g)
                             \/ \E outcome \in Ends : End(g, outcome)
        \/ \E S \in SUBSET Groups : Strand(S)

Spec == Init /\ [][Next]_vars
=============================================================================
