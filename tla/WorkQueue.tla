------------------------------ MODULE WorkQueue ------------------------------
(***************************************************************************)
(* The queue behind /work with several issues (work-queue.ts, its worker,  *)
(* outcome and scheduler modules).  Groups are numbered in dispatch order. *)
(* The workers share one state object and one event loop: what a worker    *)
(* does between two awaits is one step, except that a pass over the wait   *)
(* list is cut into its tests, during which the worker keeps the loop      *)
(* (turn).  Continuations that are ready may run in any order.             *)
(*                                                                         *)
(* settled, resolved and the entry of a group are written together by both *)
(* writers, so resolved is not a variable of its own; a group in flight is *)
(* one that is owned and has no entry.  With the ordering gate off every   *)
(* deps[g] is empty.  Groups with no issues cannot come from groupIssues,  *)
(* and no group waits for itself: planOrderingEdges drops such an edge.    *)
(***************************************************************************)
EXTENDS Naturals, FiniteSets

CONSTANTS N,
          Workers,
          NoOne,      \* nobody holds the event loop
          Graphs,     \* the declared orders to consider
          Clashes     \* the predicted collisions to consider: sets of pairs

Groups == 1..N

ASSUME QueueAssumption ==
  /\ N \in Nat
  /\ Workers # {} /\ NoOne \notin Workers
  /\ Graphs \subseteq {d \in [Groups -> SUBSET Groups] : \A g \in Groups : g \notin d[g]}
  /\ Clashes \subseteq SUBSET SUBSET Groups

VARIABLES deps, clash,
          cursor,     \* the scan position, shared
          halted,
          entry,      \* [Groups -> outcome or "none"]
          settled,    \* groups that hold nothing back any more
          deferred,   \* the wait list; its order is that of the numbers
          owners,     \* groups somebody has taken
          waiters,    \* workers whose sleep a wake() ends
          pc, job,    \* [Workers -> ...]; job is 0 for none
          draining,   \* workers past the scan
          rest,       \* [Workers -> what is left of this pass's snapshot]
          turn,
          over        \* runWorkQueue has written its summary

vars == <<deps, clash, cursor, halted, entry, settled, deferred, owners,
          waiters, pc, job, draining, rest, turn, over>>

graph == <<deps, clash>>

PCs == {"scan", "runs", "reads", "pass", "test", "asleep", "leaving", "left"}
Outcomes == {"none", "merged", "parked", "not-started", "halted",
             "cyclic", "orphaned", "capped", "stranded"}

TypeOK ==
  /\ deps \in [Groups -> SUBSET Groups] /\ clash \in SUBSET SUBSET Groups
  /\ cursor \in 1..(N + 1)
  /\ halted \in BOOLEAN /\ over \in BOOLEAN
  /\ entry \in [Groups -> Outcomes]
  /\ settled \subseteq Groups /\ deferred \subseteq Groups /\ owners \subseteq Groups
  /\ waiters \subseteq Workers /\ draining \subseteq Workers
  /\ pc \in [Workers -> PCs]
  /\ job \in [Workers -> Groups \cup {0}]
  /\ rest \in [Workers -> SUBSET Groups]
  /\ turn \in Workers \cup {NoOne}

-----------------------------------------------------------------------------
(* findCyclicGroups and the pre-pass of runWorkQueue *)

\* Kahn's algorithm: the groups settled after n rounds of in-degrees reaching zero.
Rounds(d) ==
  LET after[n \in 0..N] ==
        IF n = 0 THEN {} ELSE {g \in Groups : d[g] \subseteq after[n - 1]}
  IN  after

Cyclic(d) == Groups \ Rounds(d)[N]

Init ==
  /\ deps \in Graphs /\ clash \in Clashes
  /\ cursor = 1 /\ halted = FALSE /\ over = FALSE
  /\ entry = [g \in Groups |-> IF g \in Cyclic(deps) THEN "cyclic" ELSE "none"]
  /\ settled = Cyclic(deps) /\ owners = Cyclic(deps)
  /\ deferred = {} /\ waiters = {} /\ draining = {}
  /\ pc = [w \in Workers |-> "scan"]
  /\ job = [w \in Workers |-> 0]
  /\ rest = [w \in Workers |-> {}]
  /\ turn = NoOne

-----------------------------------------------------------------------------
(* blockReasonFor *)

Merged == {g \in Groups : entry[g] = "merged"}

\* Bug... are seeded faults, each used by a mutant of PROJECT.json and nowhere else.
BugHeld == {g \in owners : \E w \in Workers : job[w] = g /\ pc[w] = "runs"}

\* inFlight and pending: taken, and no outcome yet.
Held == {g \in owners : entry[g] = "none"}

Unmerged(g) == deps[g] \ Merged

\* A dependency that settled without merging never satisfies its edge.
Orphaned(g) == Unmerged(g) \cap settled # {}

BugBlocked(g) == \/ {d \in Unmerged(g) : d < g} # {}
                 \/ \E h \in Held \ {g} : {g, h} \in clash

Blocked(g) == \/ Unmerged(g) # {}
              \/ \E h \in Held \ {g} : {g, h} \in clash

-----------------------------------------------------------------------------
(* The worker *)

\* w runs if the loop is free, and keeps it or not.
Has(w, at, to, keep) ==
  /\ turn \in {NoOne, w} /\ pc[w] = at
  /\ pc' = [pc EXCEPT ![w] = to]
  /\ turn' = IF keep THEN w ELSE NoOne

BugTake(w, g) == /\ job' = [job EXCEPT ![w] = g]
                 /\ UNCHANGED owners

Take(w, g) == /\ owners' = owners \cup {g}
              /\ job' = [job EXCEPT ![w] = g]

\* What one scan sees: groups neither taken nor waiting, from the cursor on.
Seen == {g \in cursor..N : g \notin owners \cup deferred}

\* scanQueue up to its await: everything blocked before the first claimable group
\* goes to the wait list, and the claimed group stays under the cursor.
Claim(w) ==
  /\ ~halted
  /\ Has(w, "scan", "runs", FALSE)
  /\ \E g \in Seen : /\ ~Blocked(g)
                     /\ \A h \in Seen : h < g => Blocked(h)
                     /\ Take(w, g)
                     /\ deferred' = deferred \cup {h \in Seen : h < g}
                     /\ cursor' = g
  /\ UNCHANGED <<graph, halted, entry, settled, waiters, draining, rest, over>>

\* The cursor reaches the end: what is left is blocked, and waits.
ScanOut(w) ==
  /\ ~halted /\ \A g \in Seen : Blocked(g)
  /\ Has(w, "scan", "pass", TRUE)
  /\ deferred' = deferred \cup Seen
  /\ cursor' = N + 1
  /\ draining' = draining \cup {w}
  /\ UNCHANGED <<graph, halted, entry, settled, owners, waiters, job, rest, over>>

StillWaiting == \/ cursor <= N
                \/ deferred \ owners # {}
                \/ owners \ settled # {}

Retire(w) ==
  /\ \E at \in {"scan", "pass", "test"} : Has(w, at, "leaving", FALSE)
  /\ \/ halted
     \/ pc[w] = "pass" /\ ~StillWaiting
     \/ pc[w] = "test" /\ rest[w] = {} /\ ~StillWaiting
  /\ rest' = [rest EXCEPT ![w] = {}]
  /\ UNCHANGED <<graph, cursor, halted, entry, settled, deferred, owners, waiters,
                 job, draining, over>>

\* abandonWaiters: everybody's, without waking anyone.
Leave(w) ==
  /\ Has(w, "leaving", "left", FALSE)
  /\ waiters' = {}
  /\ UNCHANGED <<graph, cursor, halted, entry, settled, deferred, owners, job,
                 draining, rest, over>>

-----------------------------------------------------------------------------
(* drainDeferred *)

Pass(w) ==
  /\ ~halted /\ StillWaiting
  /\ Has(w, "pass", "test", TRUE)
  /\ rest' = [rest EXCEPT ![w] = deferred]
  /\ UNCHANGED <<graph, cursor, halted, entry, settled, deferred, owners, waiters,
                 job, draining, over>>

\* The snapshot is tested from its end, each group against the live state.
Testing(w, g) ==
  /\ ~halted
  /\ g \in rest[w] /\ \A h \in rest[w] : h <= g
  /\ rest' = [rest EXCEPT ![w] = @ \ {g}]
  /\ UNCHANGED <<graph, cursor, halted, draining, over>>

Waits(g) == g \in deferred \ owners

Skip(w, g) ==
  /\ Testing(w, g)
  /\ Has(w, "test", "test", TRUE)
  /\ ~Waits(g) \/ (Blocked(g) /\ ~Orphaned(g))
  /\ UNCHANGED <<entry, settled, deferred, owners, waiters, job>>

\* claimDeferred, after the revive of a group that has an entry.
ClaimDeferred(w, g) ==
  /\ Testing(w, g)
  /\ Waits(g) /\ ~Blocked(g)
  /\ Has(w, "test", "runs", FALSE)
  /\ Take(w, g)
  /\ entry' = [entry EXCEPT ![g] = "none"]
  /\ settled' = settled \ {g}
  /\ deferred' = IF entry[g] = "none" THEN deferred ELSE deferred \ {g}
  /\ UNCHANGED waiters

BugQueuePark(S, why) ==
  /\ entry' = [g \in Groups |-> IF g \in S /\ entry[g] = "none" THEN why ELSE entry[g]]
  /\ UNCHANGED settled

\* recordQueuePark, for a group that has no entry yet.
QueuePark(S, why) ==
  /\ entry' = [g \in Groups |-> IF g \in S /\ entry[g] = "none" THEN why ELSE entry[g]]
  /\ settled' = settled \cup S

BugParkOrphan(w, g) ==
  /\ Testing(w, g)
  /\ Waits(g) /\ Orphaned(g)
  /\ Has(w, "test", "test", TRUE)
  /\ deferred' = deferred \ {g}
  /\ UNCHANGED <<entry, settled, owners, waiters, job>>

ParkOrphan(w, g) ==
  /\ Testing(w, g)
  /\ Waits(g) /\ Orphaned(g)
  /\ Has(w, "test", "test", TRUE)
  /\ QueuePark({g}, "orphaned")
  /\ deferred' = deferred \ {g}
  /\ UNCHANGED <<owners, waiters, job>>

\* wake(): every registered waiter starts a pass of its own.
WakeAnd(w, at, to, keep) ==
  /\ turn \in {NoOne, w} /\ pc[w] = at
  /\ turn' = IF keep THEN w ELSE NoOne
  /\ pc' = [v \in Workers |-> IF v = w THEN to ELSE IF v \in waiters THEN "pass" ELSE pc[v]]
  /\ waiters' = {}

\* capOutWait: the wait has outlived its bound.
CapOut(w, g) ==
  /\ Testing(w, g)
  /\ Waits(g) /\ Blocked(g) /\ ~Orphaned(g)
  /\ WakeAnd(w, "test", "test", TRUE)
  /\ QueuePark({g}, "capped")
  /\ deferred' = deferred \ {g}
  /\ UNCHANGED <<owners, job>>

Sleep(w) ==
  /\ rest[w] = {} /\ StillWaiting /\ ~halted
  /\ Has(w, "test", "asleep", FALSE)
  /\ waiters' = waiters \cup {w}
  /\ UNCHANGED <<graph, cursor, halted, entry, settled, deferred, owners, job,
                 draining, rest, over>>

\* The safety-net timer of sleep.
Poll(w) ==
  /\ Has(w, "asleep", "pass", FALSE)
  /\ waiters' = waiters \ {w}
  /\ UNCHANGED <<graph, cursor, halted, entry, settled, deferred, owners, job,
                 draining, rest, over>>

-----------------------------------------------------------------------------
(* The run of a group and its outcome *)

\* The entry, then finishGroup, then back to the loop the claim came from.
Finish(w, at, outcome) ==
  LET g == job[w] IN
  /\ WakeAnd(w, at, IF w \in draining THEN "test" ELSE "scan", FALSE)
  /\ entry' = [entry EXCEPT ![g] = outcome]
  /\ settled' = settled \cup {g}
  /\ deferred' = deferred \ {g}
  /\ job' = [job EXCEPT ![w] = 0]
  /\ UNCHANGED <<graph, cursor, owners, draining, rest, over>>

\* The driver threw: nobody knows in what state it left the repository.
Crash(w) == Finish(w, "runs", "halted") /\ halted' = TRUE

\* The driver refused before running anything.
Refuse(w) == Finish(w, "runs", "not-started") /\ UNCHANGED halted

BugReturned(w) ==
  /\ Has(w, "runs", "reads", FALSE)
  /\ settled' = settled \cup {job[w]}
  /\ UNCHANGED <<graph, cursor, halted, entry, deferred, owners, waiters, job,
                 draining, rest, over>>

\* runGroup returned; its state file is being read.
Returned(w) ==
  /\ Has(w, "runs", "reads", FALSE)
  /\ UNCHANGED <<graph, cursor, halted, entry, settled, deferred, owners, waiters, job,
                 draining, rest, over>>

Judge(w) ==
  \/ \E outcome \in {"merged", "parked"} : Finish(w, "reads", outcome) /\ UNCHANGED halted
  \/ Finish(w, "reads", "halted") /\ halted' = TRUE

-----------------------------------------------------------------------------
(* The end of runWorkQueue *)

\* sweepStranded: what was waiting when the workers left.
Summarise ==
  /\ \A w \in Workers : pc[w] = "left"
  /\ ~over /\ over' = TRUE
  /\ QueuePark({g \in deferred : entry[g] = "none" /\ g \notin settled}, "stranded")
  /\ UNCHANGED <<graph, cursor, halted, deferred, owners, waiters, pc, job, draining,
                 rest, turn>>

\* finish: of several halts the operator is told the first only.
Halts  == {g \in Groups : entry[g] = "halted"}
Listed == {g \in Groups : entry[g] # "none" /\ (g \in Halts => \A h \in Halts : g <= h)}
NotStarted == Groups \ settled

Step(w) == \/ Claim(w) \/ ScanOut(w) \/ Retire(w) \/ Leave(w) \/ Pass(w) \/ Sleep(w)
           \/ Crash(w) \/ Refuse(w) \/ Returned(w) \/ Judge(w)
           \/ \E g \in Groups : Skip(w, g) \/ ClaimDeferred(w, g) \/ ParkOrphan(w, g) \/ CapOut(w, g)

Next == Summarise \/ \E w \in Workers : Step(w) \/ Poll(w)

Spec == Init /\ [][Next]_vars

\* The event loop runs every continuation that stays ready, whoever takes turns before
\* it; every cycle ends; the poll timers of sleep fire.
FairSpec == /\ Spec /\ WF_vars(Summarise)
            /\ \A w \in Workers : SF_vars(Step(w)) /\ SF_vars(Poll(w))

-----------------------------------------------------------------------------
(* Properties *)

\* A group that runs or has merged was ordered after its dependencies: all have merged,
\* wherever in the list they stand (work-queue-scheduler.ts:125).
DependenciesMergeFirst ==
  \A g \in Held \cup Merged : deps[g] \subseteq Merged

\* Two groups predicted to touch the same paths are never both between their claim and
\* their outcome, the read of the state file included (work-queue-scheduler.ts:168).
ClashesNeverOverlap ==
  \A v, w \in Workers : v # w => {job[v], job[w]} \notin clash

\* One dispatch per group, not one per awake worker: a group that somebody has taken and
\* that has no outcome is run by exactly one worker (work-queue-worker.ts:418).
OneRunnerPerGroup ==
  \A g \in Groups : Cardinality({w \in Workers : job[w] = g}) = (IF g \in Held THEN 1 ELSE 0)

\* When the summary is written every group is in it once: with an outcome, or as never
\* started, and that only after a halt and only if the queue neither took it nor held it
\* back; further halts share the first one's line (work-queue.ts:373-424).
NothingGoesMissing ==
  over => /\ Listed \cup NotStarted \cup Halts = Groups
          /\ Listed \cap NotStarted = {}
          /\ NotStarted # {} => halted
          /\ NotStarted \cap (owners \cup deferred) = {}

Contract == INSTANCE QueueContract WITH
  status <- [g \in Groups |-> IF entry[g] # "none" THEN entry[g]
                              ELSE IF g \in owners THEN "running" ELSE "waiting"]

\* The queue does what QueueContract promises: one run per group, one outcome, given
\* once, in order, and parks only for the reason they give.
KeepsQueueContract == Contract!Spec

\* The queue ends, whatever fails, parks or waits: no worker waits for a group whose turn
\* it is blocking (work-queue-worker.ts:32-39), even if no wait ever reaches its cap.
QueueEnds == <>over
=============================================================================
