--------------------------- MODULE WorkQueueProofs ---------------------------
(***************************************************************************)
(* Proofs about WorkQueue, for any number of groups and workers, any       *)
(* declared order and any predicted collisions.                            *)
(***************************************************************************)
EXTENDS WorkQueue, FiniteSetTheorems, WellFoundedInduction, TLAPS

\* A worker has a group exactly while it runs it, and no two have the same.
JobsAreHeld ==
  /\ \A w \in Workers : /\ job[w] # 0 <=> pc[w] \in {"runs", "reads"}
                        /\ job[w] # 0 => job[w] \in Held
  /\ \A v, w \in Workers : job[v] = job[w] /\ job[v] # 0 => v = w
  /\ \A g \in Held : \E w \in Workers : job[w] = g

\* A group holds nothing back exactly when it has an outcome.
SettledHaveEntries == settled = {g \in Groups : entry[g] # "none"}

\* What the scan has passed is taken, waits or is settled; what it has not, and what
\* waits, has no outcome unless somebody took it.
ScanForgetsNothing ==
  /\ \A g \in Groups : g < cursor => g \in owners \cup deferred \cup settled
  /\ \A g \in deferred : g < cursor
  /\ \A g \in Groups \ owners : g >= cursor \/ (g \in deferred /\ ~over) => entry[g] = "none"

\* Workers leave when the queue has halted or nothing waits, and nobody wakes them again.
LeaversAreDone ==
  /\ \A w \in waiters : pc[w] = "asleep"
  /\ \A w \in Workers : pc[w] \in {"leaving", "left"} => halted \/ ~StillWaiting
  /\ over => /\ \A w \in Workers : pc[w] = "left"
             /\ deferred \subseteq settled

\* DependenciesMergeFirst and ClashesNeverOverlap hold because a claim is made over the
\* groups really held (JobsAreHeld) and an outcome is never taken back, for which what
\* waits must have none (ScanForgetsNothing).
IInv == /\ TypeOK /\ JobsAreHeld /\ SettledHaveEntries /\ ScanForgetsNothing
        /\ LeaversAreDone /\ DependenciesMergeFirst /\ ClashesNeverOverlap

Parts == /\ deps' \in [Groups -> SUBSET Groups] /\ clash' \in SUBSET SUBSET Groups
         /\ rest' \in [Workers -> SUBSET Groups] /\ turn' \in Workers \cup {NoOne}
         /\ draining' \subseteq Workers /\ waiters' \subseteq Workers
         /\ pc' \in [Workers -> PCs]

\* Steps that move a worker and leave every group as it was keep the invariant when
\* they neither start nor end a run, register only sleepers, and leave only when done.
LEMMA Moves ==
  ASSUME IInv, Parts,
         UNCHANGED <<graph, cursor, halted, entry, settled, deferred, owners, job, over>>,
         \A v \in Workers : pc'[v] \in {"runs", "reads"} <=> pc[v] \in {"runs", "reads"},
         \A v \in waiters' : pc'[v] = "asleep",
         \A v \in Workers : pc'[v] \in {"leaving", "left"} =>
           pc[v] \in {"leaving", "left"} \/ halted \/ ~StillWaiting,
         \A v \in Workers : pc[v] = "left" => pc'[v] = "left"
  PROVE  IInv'
<1> USE DEF IInv, graph
<1>0. Held' = Held /\ Merged' = Merged /\ StillWaiting' = StillWaiting
  BY DEF Held, Merged, StillWaiting
<1>1. TypeOK'
  BY DEF TypeOK, Parts
<1>2. JobsAreHeld'
  BY <1>0 DEF JobsAreHeld
<1>3. SettledHaveEntries'
  BY DEF SettledHaveEntries
<1>4. ScanForgetsNothing'
  BY DEF ScanForgetsNothing
<1>5. LeaversAreDone'
  BY <1>0 DEF LeaversAreDone
<1>6. DependenciesMergeFirst' /\ ClashesNeverOverlap'
  BY <1>0 DEF DependenciesMergeFirst, ClashesNeverOverlap
<1> QED
  BY <1>1, <1>2, <1>3, <1>4, <1>5, <1>6

\* A worker that takes a group nobody has, whose dependencies have merged and whose paths
\* nobody touches, keeps the exclusions (scanQueue, claimDeferred).
LEMMA Taking ==
  ASSUME IInv, NEW w \in Workers, NEW g \in Groups \ owners, Take(w, g), ~Blocked(g),
         entry[g] = "none", job[w] = 0, UNCHANGED <<graph, entry>>,
         pc'[w] = "runs", \A v \in Workers \ {w} : pc'[v] = pc[v]
  PROVE  JobsAreHeld' /\ DependenciesMergeFirst' /\ ClashesNeverOverlap'
<1> USE DEF IInv, graph, Take
<1>0. Held' = Held \cup {g} /\ Merged' = Merged /\ g \notin Held /\ g # 0
  BY DEF Held, Merged, TypeOK, Groups
<1>1. job' \in [Workers -> Groups \cup {0}] /\ job'[w] = g /\ \A v \in Workers \ {w} : job'[v] = job[v]
  BY DEF TypeOK
<1>2. JobsAreHeld'
  <2>1. \A v \in Workers : /\ job'[v] # 0 <=> pc'[v] \in {"runs", "reads"}
                           /\ job'[v] # 0 => job'[v] \in Held'
    BY <1>0, <1>1 DEF JobsAreHeld
  <2>2. \A u, v \in Workers : job'[u] = job'[v] /\ job'[u] # 0 => u = v
    BY <1>0, <1>1 DEF JobsAreHeld
  <2>3. \A h \in Held' : \E v \in Workers : job'[v] = h
    <3>1. SUFFICES ASSUME NEW h \in Held, h # g PROVE \E v \in Workers : job'[v] = h
      BY <1>0, <1>1
    <3>2. PICK v \in Workers : job[v] = h
      BY DEF JobsAreHeld
    <3>3. v # w
      BY <1>0, <3>2 DEF Held, Groups, TypeOK
    <3> QED
      BY <1>1, <3>2, <3>3
  <2> QED
    BY <2>1, <2>2, <2>3 DEF JobsAreHeld
<1>3. DependenciesMergeFirst'
  BY <1>0 DEF DependenciesMergeFirst, Blocked, Unmerged
<1>4. ClashesNeverOverlap'
  <2>1. ASSUME NEW v \in Workers \ {w} PROVE {job[v], g} \notin clash /\ {g, job[v]} \notin clash
    <3>0. {job[v], g} = {g, job[v]}
      OBVIOUS
    <3>1. CASE job[v] = 0
      BY <3>1, <3>0 DEF TypeOK, Groups
    <3>2. CASE job[v] # 0
      BY <3>0, <3>2, <1>0 DEF JobsAreHeld, Blocked
    <3> QED
      BY <3>1, <3>2
  <2> QED
    BY <2>1, <1>1 DEF ClashesNeverOverlap
<1> QED
  BY <1>2, <1>3, <1>4

\* Parking groups that wait gives them an outcome and leaves every run alone
\* (recordQueuePark).
LEMMA Parking ==
  ASSUME IInv, NEW S \in SUBSET (Groups \ owners), NEW why \in Outcomes \ {"none", "merged"},
         QueuePark(S, why), \A g \in S : entry[g] = "none",
         UNCHANGED <<graph, owners, job>>,
         \A v \in Workers : pc'[v] \in {"runs", "reads"} <=> pc[v] \in {"runs", "reads"}
  PROVE  /\ JobsAreHeld' /\ SettledHaveEntries'
         /\ DependenciesMergeFirst' /\ ClashesNeverOverlap'
         /\ entry' \in [Groups -> Outcomes] /\ settled' = settled \cup S
         /\ \A g \in Groups : entry'[g] = IF g \in S THEN why ELSE entry[g]
<1> USE DEF IInv, graph, QueuePark
<1>0. /\ \A g \in Groups : entry'[g] = IF g \in S THEN why ELSE entry[g]
      /\ entry' \in [Groups -> Outcomes]
  BY DEF TypeOK
<1>1. Held' = Held /\ Merged' = Merged
  BY <1>0 DEF Held, Merged, TypeOK
<1>2. JobsAreHeld'
  BY <1>1 DEF JobsAreHeld
<1>3. SettledHaveEntries'
  BY <1>0 DEF SettledHaveEntries, TypeOK
<1>4. DependenciesMergeFirst' /\ ClashesNeverOverlap'
  BY <1>1 DEF DependenciesMergeFirst, ClashesNeverOverlap
<1> QED
  BY <1>0, <1>2, <1>3, <1>4

\* The end of a run gives its group an outcome and keeps the invariant
\* (finishGroup, recordCrash, classify).
LEMMA Finishing ==
  ASSUME IInv, NEW w \in Workers, NEW at \in {"runs", "reads"},
         NEW outcome \in Outcomes \ {"none"}, Finish(w, at, outcome),
         halted' \in BOOLEAN, halted => halted'
  PROVE  IInv'
<1> DEFINE g == job[w]
<1> USE DEF IInv, graph, Finish, WakeAnd
<1>0. /\ g \in Held /\ g \in Groups /\ g \in owners /\ entry[g] = "none"
      /\ \A v \in Workers \ {w} : job[v] # g
      /\ pc[w] = at /\ w \notin waiters
  BY DEF JobsAreHeld, Held, LeaversAreDone, TypeOK
<1>1. /\ entry' \in [Groups -> Outcomes] /\ entry'[g] = outcome
      /\ \A h \in Groups \ {g} : entry'[h] = entry[h]
      /\ job' \in [Workers -> Groups \cup {0}] /\ job'[w] = 0
      /\ \A v \in Workers \ {w} : job'[v] = job[v]
  BY <1>0 DEF TypeOK
<1>2. /\ pc'[w] \in {"test", "scan"}
      /\ \A v \in Workers \ {w} : pc'[v] = IF v \in waiters THEN "pass" ELSE pc[v]
      /\ pc' \in [Workers -> PCs]
  BY DEF TypeOK, PCs
<1>3. Held' = Held \ {g} /\ Merged \subseteq Merged' /\ Merged' \subseteq Merged \cup {g}
  BY <1>0, <1>1 DEF Held, Merged, TypeOK
<1>4. TypeOK'
  BY <1>0, <1>1, <1>2 DEF TypeOK
<1>5. JobsAreHeld'
  <2>1. \A v \in Workers : /\ job'[v] # 0 <=> pc'[v] \in {"runs", "reads"}
                           /\ job'[v] # 0 => job'[v] \in Held'
    BY <1>0, <1>1, <1>2, <1>3 DEF JobsAreHeld, LeaversAreDone
  <2>2. \A u, v \in Workers : job'[u] = job'[v] /\ job'[u] # 0 => u = v
    BY <1>1 DEF JobsAreHeld
  <2>3. \A h \in Held' : \E v \in Workers : job'[v] = h
    BY <1>1, <1>3 DEF JobsAreHeld
  <2> QED
    BY <2>1, <2>2, <2>3 DEF JobsAreHeld
<1>6. SettledHaveEntries'
  BY <1>0, <1>1 DEF SettledHaveEntries
<1>7. ScanForgetsNothing'
  BY <1>0, <1>1 DEF ScanForgetsNothing
<1>8. LeaversAreDone'
  <2>1. ~StillWaiting => ~StillWaiting'
    BY <1>0 DEF StillWaiting
  <2>2. ~over
    BY <1>0 DEF LeaversAreDone
  <2> QED
    BY <2>1, <2>2, <1>2 DEF LeaversAreDone
<1>9. DependenciesMergeFirst'
  BY <1>0, <1>3 DEF DependenciesMergeFirst
<1>10. ClashesNeverOverlap'
  <2>1. ASSUME NEW h \in Groups \cup {0} PROVE {0, h} \notin clash /\ {h, 0} \notin clash
    BY QueueAssumption DEF TypeOK, Groups
  <2> QED
    BY <2>1, <1>1 DEF ClashesNeverOverlap
<1> QED
  BY <1>4, <1>5, <1>6, <1>7, <1>8, <1>9, <1>10

\* The initial states satisfy the invariant: the groups of a cycle are settled and taken.
LEMMA InitIInv == Init => IInv
<1> SUFFICES ASSUME Init PROVE IInv
  OBVIOUS
<1> USE QueueAssumption DEF Init, Cyclic
<1>0. /\ entry \in [Groups -> Outcomes]
      /\ \A g \in Groups : entry[g] = IF g \in Cyclic(deps) THEN "cyclic" ELSE "none"
      /\ Cyclic(deps) \subseteq Groups /\ Held = {} /\ Merged = {}
  BY DEF Outcomes, Held, Merged
<1>1. TypeOK
  <2>1. 1 \in 1..(N + 1) /\ "scan" \in PCs
    BY DEF PCs
  <2> QED
    BY <1>0, <2>1 DEF TypeOK
<1>2. JobsAreHeld
  BY <1>0 DEF JobsAreHeld
<1>3. SettledHaveEntries
  BY <1>0 DEF SettledHaveEntries
<1>4. ScanForgetsNothing
  BY <1>0 DEF ScanForgetsNothing, Groups
<1>5. LeaversAreDone
  BY DEF LeaversAreDone
<1>6. DependenciesMergeFirst
  BY <1>0 DEF DependenciesMergeFirst
<1>7. ClashesNeverOverlap
  BY DEF ClashesNeverOverlap, Groups
<1> QED
  BY <1>1, <1>2, <1>3, <1>4, <1>5, <1>6, <1>7 DEF IInv

\* A scan sees groups only.
LEMMA SeenAreGroups == TypeOK => Seen \subseteq Groups
BY QueueAssumption DEF TypeOK, Seen, Groups

\* A worker that takes a group off the scan keeps the invariant.
LEMMA Claims ==
  ASSUME IInv, NEW w \in Workers, Claim(w)
  PROVE  IInv'
<1> USE QueueAssumption DEF IInv, Claim, Has, graph
<1>1. PICK g \in Seen : /\ ~Blocked(g) /\ Take(w, g)
                        /\ deferred' = deferred \cup {h \in Seen : h < g}
                        /\ cursor' = g
  OBVIOUS
<1>2. g \in Groups \ owners /\ g >= cursor /\ g \in Nat /\ cursor \in Nat
  BY DEF Seen, Groups, TypeOK
<1>3. entry[g] = "none" /\ job[w] = 0
  BY <1>2 DEF ScanForgetsNothing, JobsAreHeld
<1>4. pc'[w] = "runs" /\ \A v \in Workers \ {w} : pc'[v] = pc[v]
  BY DEF TypeOK
<1>5. JobsAreHeld' /\ DependenciesMergeFirst' /\ ClashesNeverOverlap'
  BY <1>1, <1>2, <1>3, <1>4, Taking
<1>6. TypeOK'
  <2>1. cursor' \in 1..(N + 1) /\ deferred' \subseteq Groups
    <3>1. g \in 1..(N + 1)
      BY <1>2 DEF Groups
    <3>2. Seen \subseteq Groups /\ deferred \subseteq Groups
      BY SeenAreGroups DEF TypeOK
    <3> QED
      BY <1>1, <3>1, <3>2
  <2>2. pc' \in [Workers -> PCs] /\ job' \in [Workers -> Groups \cup {0}]
    BY <1>1, <1>2 DEF TypeOK, PCs, Take
  <2> QED
    BY <1>1, <1>2, <2>1, <2>2 DEF TypeOK, Take
<1>7. SettledHaveEntries'
  BY DEF SettledHaveEntries
<1>8. ScanForgetsNothing'
  BY <1>1, <1>2 DEF ScanForgetsNothing, Seen, Take, Groups, TypeOK
<1>9. LeaversAreDone'
  <2>1. ~over /\ StillWaiting
    BY <1>2 DEF LeaversAreDone, StillWaiting, Groups
  <2> QED
    BY <1>4, <2>1 DEF LeaversAreDone
<1> QED
  BY <1>5, <1>6, <1>7, <1>8, <1>9

\* So does the scan that claims nothing.
LEMMA ScansOut ==
  ASSUME IInv, NEW w \in Workers, ScanOut(w)
  PROVE  IInv'
<1> USE QueueAssumption DEF IInv, ScanOut, Has, graph
<1>1. pc'[w] = "pass" /\ pc[w] = "scan" /\ \A v \in Workers \ {w} : pc'[v] = pc[v]
  BY DEF TypeOK
<1>2. Held' = Held /\ Merged' = Merged
  BY DEF Held, Merged
<1>3. TypeOK'
  <2>1. N + 1 \in 1..(N + 1) /\ deferred' \subseteq Groups /\ draining' \subseteq Workers
    BY SeenAreGroups DEF TypeOK
  <2>2. pc' \in [Workers -> PCs] /\ turn' \in Workers
    BY DEF TypeOK, PCs
  <2> QED
    BY <2>1, <2>2 DEF TypeOK
<1>4. JobsAreHeld'
  BY <1>1, <1>2 DEF JobsAreHeld
<1>5. SettledHaveEntries'
  BY DEF SettledHaveEntries
<1>6. ScanForgetsNothing'
  BY DEF ScanForgetsNothing, Seen, Groups, TypeOK
<1>7. LeaversAreDone'
  <2>1. ~over
    BY <1>1 DEF LeaversAreDone
  <2>2. ~StillWaiting => ~StillWaiting'
    BY DEF StillWaiting, Seen, Groups, TypeOK
  <2> QED
    BY <1>1, <2>1, <2>2 DEF LeaversAreDone
<1>8. DependenciesMergeFirst' /\ ClashesNeverOverlap'
  BY <1>2 DEF DependenciesMergeFirst, ClashesNeverOverlap
<1> QED
  BY <1>3, <1>4, <1>5, <1>6, <1>7, <1>8

\* So does one that takes a group off the wait list: it has no outcome to lose.
LEMMA DeferredClaims ==
  ASSUME IInv, NEW w \in Workers, NEW g \in Groups, ClaimDeferred(w, g)
  PROVE  IInv'
<1> USE DEF IInv, ClaimDeferred, Testing, Waits, Has, graph
<1>0. pc[w] = "test" /\ pc'[w] = "runs" /\ \A v \in Workers \ {w} : pc'[v] = pc[v]
  BY DEF TypeOK
<1>1. ~over /\ job[w] = 0
  BY <1>0 DEF LeaversAreDone, JobsAreHeld
<1>2. entry[g] = "none" /\ g \notin settled /\ g \notin owners
  BY <1>1 DEF ScanForgetsNothing, SettledHaveEntries
<1>3. entry' = entry /\ settled' = settled /\ deferred' = deferred
  BY <1>2 DEF TypeOK
<1>4. JobsAreHeld' /\ DependenciesMergeFirst' /\ ClashesNeverOverlap'
  BY <1>0, <1>1, <1>2, <1>3, Taking
<1>5. TypeOK'
  <2>1. pc' \in [Workers -> PCs] /\ job' \in [Workers -> Groups \cup {0}]
    BY DEF TypeOK, PCs, Take
  <2>2. rest' \in [Workers -> SUBSET Groups] /\ turn' = NoOne
    BY DEF TypeOK
  <2> QED
    BY <1>3, <2>1, <2>2 DEF TypeOK, Take
<1>6. SettledHaveEntries'
  BY <1>3 DEF SettledHaveEntries
<1>7. ScanForgetsNothing'
  BY <1>3 DEF ScanForgetsNothing, Take
<1>8. LeaversAreDone'
  <2>1. StillWaiting
    BY <1>2 DEF StillWaiting
  <2> QED
    BY <1>0, <1>1, <2>1 DEF LeaversAreDone
<1> QED
  BY <1>4, <1>5, <1>6, <1>7, <1>8

\* A worker that goes on testing disturbs nobody; if it wakes, only sleepers.
LEMMA Staying ==
  ASSUME TypeOK, LeaversAreDone, NEW w \in Workers, Has(w, "test", "test", TRUE),
         waiters' = waiters
  PROVE  /\ pc[w] = "test" /\ pc'[w] = "test" /\ waiters' \subseteq waiters
         /\ \A v \in Workers \ {w} : pc'[v] = pc[v] \/ (pc[v] = "asleep" /\ pc'[v] = "pass")
         /\ \A v \in waiters' : pc'[v] = pc[v]
         /\ pc' \in [Workers -> PCs]
BY DEF Has, TypeOK, PCs

\* The same of a worker that woke the sleepers before it goes on.
LEMMA Waking ==
  ASSUME TypeOK, LeaversAreDone, NEW w \in Workers, WakeAnd(w, "test", "test", TRUE)
  PROVE  /\ pc[w] = "test" /\ pc'[w] = "test" /\ waiters' \subseteq waiters
         /\ \A v \in Workers \ {w} : pc'[v] = pc[v] \/ (pc[v] = "asleep" /\ pc'[v] = "pass")
         /\ \A v \in waiters' : pc'[v] = pc[v]
         /\ pc' \in [Workers -> PCs]
BY DEF WakeAnd, TypeOK, PCs, LeaversAreDone

\* So do the two parks of the wait list.
LEMMA Parks ==
  ASSUME IInv, NEW w \in Workers, NEW g \in Groups, ParkOrphan(w, g) \/ CapOut(w, g)
  PROVE  IInv'
<1> USE DEF IInv
<1>a. /\ ~halted /\ g \in deferred /\ g \notin owners /\ deferred' = deferred \ {g}
      /\ UNCHANGED <<graph, cursor, halted, draining, over, owners, job>>
      /\ \E why \in {"orphaned", "capped"} : QueuePark({g}, why)
  BY DEF ParkOrphan, CapOut, Testing, Waits
<1>0. /\ pc[w] = "test" /\ pc'[w] = "test" /\ waiters' \subseteq waiters
      /\ \A v \in Workers \ {w} : pc'[v] = pc[v] \/ (pc[v] = "asleep" /\ pc'[v] = "pass")
      /\ \A v \in waiters' : pc'[v] = pc[v]
      /\ pc' \in [Workers -> PCs]
  <2>1. CASE ParkOrphan(w, g)
    BY <2>1, Staying DEF ParkOrphan
  <2>2. CASE CapOut(w, g)
    BY <2>2, Waking DEF CapOut
  <2> QED
    BY <2>1, <2>2
<1>1. ~over
  BY <1>0 DEF LeaversAreDone
<1>2. entry[g] = "none" /\ {g} \in SUBSET (Groups \ owners)
  BY <1>a, <1>1 DEF ScanForgetsNothing
<1>3. PICK why \in {"orphaned", "capped"} : QueuePark({g}, why)
  BY <1>a
<1>4. /\ JobsAreHeld' /\ SettledHaveEntries'
      /\ DependenciesMergeFirst' /\ ClashesNeverOverlap'
      /\ entry' \in [Groups -> Outcomes] /\ settled' = settled \cup {g}
      /\ \A h \in Groups : entry'[h] = IF h \in {g} THEN why ELSE entry[h]
  <2>1. why \in Outcomes \ {"none", "merged"}
    BY DEF Outcomes
  <2>2. \A v \in Workers : pc'[v] \in {"runs", "reads"} <=> pc[v] \in {"runs", "reads"}
    BY <1>0
  <2>3. UNCHANGED <<graph, owners, job>>
    BY <1>a
  <2>4. \A h \in {g} : entry[h] = "none"
    BY <1>2
  <2> QED
    BY <1>2, <1>3, <2>1, <2>2, <2>3, <2>4, Parking
<1>5. TypeOK'
  <2>1. rest' \in [Workers -> SUBSET Groups] /\ turn' = w
    BY DEF ParkOrphan, CapOut, Testing, TypeOK, Has, WakeAnd
  <2> QED
    BY <1>a, <1>0, <1>4, <2>1 DEF TypeOK, graph
<1>6. ScanForgetsNothing'
  BY <1>a, <1>4 DEF ScanForgetsNothing, TypeOK, Groups
<1>7. LeaversAreDone'
  <2>1. StillWaiting
    BY <1>a DEF StillWaiting
  <2> QED
    BY <1>a, <1>0, <1>1, <2>1 DEF LeaversAreDone
<1> QED
  BY <1>4, <1>5, <1>6, <1>7

\* So does the sweep at the end.
LEMMA Summaries ==
  ASSUME IInv, Summarise
  PROVE  IInv'
<1> USE DEF IInv, Summarise, graph
<1> DEFINE S == {g \in deferred : entry[g] = "none" /\ g \notin settled}
<1>1. Held = {}
  <2>1. \A v \in Workers : job[v] = 0
    BY DEF JobsAreHeld
  <2>2. \A g \in Held : g # 0
    BY DEF Held, TypeOK, Groups
  <2> QED
    BY <2>1, <2>2 DEF JobsAreHeld
<1>2. S \in SUBSET (Groups \ owners)
  BY <1>1 DEF Held, TypeOK
<1>3. /\ JobsAreHeld' /\ SettledHaveEntries'
      /\ DependenciesMergeFirst' /\ ClashesNeverOverlap'
      /\ entry' \in [Groups -> Outcomes] /\ settled' = settled \cup S
      /\ \A h \in Groups : entry'[h] = IF h \in S THEN "stranded" ELSE entry[h]
  <2>1. "stranded" \in Outcomes \ {"none", "merged"}
    BY DEF Outcomes
  <2> HIDE DEF S
  <2>2. QueuePark(S, "stranded") /\ \A g \in S : entry[g] = "none"
    BY DEF S
  <2> QED
    BY <1>2, <2>1, <2>2, Parking
<1>4. TypeOK'
  BY <1>3 DEF TypeOK
<1>5. ScanForgetsNothing'
  BY <1>3 DEF ScanForgetsNothing, TypeOK, Groups
<1>6. LeaversAreDone'
  <2>1. ~StillWaiting => ~StillWaiting'
    BY <1>3 DEF StillWaiting
  <2>2. deferred' \subseteq settled'
    BY <1>3 DEF SettledHaveEntries, TypeOK
  <2> QED
    BY <2>1, <2>2 DEF LeaversAreDone
<1> QED
  BY <1>3, <1>4, <1>5, <1>6

\* A worker's own moves keep the invariant.
LEMMA Movements ==
  ASSUME IInv, NEW w \in Workers,
         \/ Retire(w) \/ Leave(w) \/ Pass(w) \/ Sleep(w) \/ Poll(w) \/ Returned(w)
         \/ \E g \in Groups : Skip(w, g)
  PROVE  IInv'
<1> USE DEF IInv
<1>0. /\ pc \in [Workers -> PCs] /\ rest \in [Workers -> SUBSET Groups]
      /\ waiters \subseteq Workers /\ \A v \in waiters : pc[v] = "asleep"
      /\ deps \in [Groups -> SUBSET Groups] /\ clash \in SUBSET SUBSET Groups
      /\ turn \in Workers \cup {NoOne} /\ draining \subseteq Workers
      /\ deferred \subseteq Groups
  BY DEF TypeOK, LeaversAreDone
<1> HIDE DEF IInv
<1>1. CASE Retire(w)
  <2> USE <1>0, <1>1 DEF Retire, Has, graph, PCs
  <2>1. Parts
    BY DEF Parts
  <2>2. UNCHANGED <<graph, cursor, halted, entry, settled, deferred, owners, job, over>>
    OBVIOUS
  <2>3. /\ \A v \in Workers : pc'[v] \in {"runs", "reads"} <=> pc[v] \in {"runs", "reads"}
        /\ \A v \in waiters' : pc'[v] = "asleep"
    OBVIOUS
  <2>4. /\ \A v \in Workers : pc'[v] \in {"leaving", "left"} =>
             pc[v] \in {"leaving", "left"} \/ halted \/ ~StillWaiting
        /\ \A v \in Workers : pc[v] = "left" => pc'[v] = "left"
    OBVIOUS
  <2> QED
    BY <2>1, <2>2, <2>3, <2>4, Moves
<1>2. CASE Leave(w)
  <2> USE <1>0, <1>2 DEF Leave, Has, graph, PCs
  <2>1. Parts
    BY DEF Parts
  <2>2. UNCHANGED <<graph, cursor, halted, entry, settled, deferred, owners, job, over>>
    OBVIOUS
  <2>3. /\ \A v \in Workers : pc'[v] \in {"runs", "reads"} <=> pc[v] \in {"runs", "reads"}
        /\ \A v \in waiters' : pc'[v] = "asleep"
    OBVIOUS
  <2>4. /\ \A v \in Workers : pc'[v] \in {"leaving", "left"} =>
             pc[v] \in {"leaving", "left"} \/ halted \/ ~StillWaiting
        /\ \A v \in Workers : pc[v] = "left" => pc'[v] = "left"
    OBVIOUS
  <2> QED
    BY <2>1, <2>2, <2>3, <2>4, Moves
<1>3. CASE Pass(w)
  <2> USE <1>0, <1>3 DEF Pass, Has, graph, PCs
  <2>1. Parts
    BY DEF Parts
  <2>2. UNCHANGED <<graph, cursor, halted, entry, settled, deferred, owners, job, over>>
    OBVIOUS
  <2>3. /\ \A v \in Workers : pc'[v] \in {"runs", "reads"} <=> pc[v] \in {"runs", "reads"}
        /\ \A v \in waiters' : pc'[v] = "asleep"
    OBVIOUS
  <2>4. /\ \A v \in Workers : pc'[v] \in {"leaving", "left"} =>
             pc[v] \in {"leaving", "left"} \/ halted \/ ~StillWaiting
        /\ \A v \in Workers : pc[v] = "left" => pc'[v] = "left"
    OBVIOUS
  <2> QED
    BY <2>1, <2>2, <2>3, <2>4, Moves
<1>4. CASE \E g \in Groups : Skip(w, g)
  <2> USE <1>0, <1>4 DEF Skip, Testing, Has, graph, PCs
  <2>1. Parts
    BY DEF Parts
  <2>2. UNCHANGED <<graph, cursor, halted, entry, settled, deferred, owners, job, over>>
    OBVIOUS
  <2>3. /\ \A v \in Workers : pc'[v] \in {"runs", "reads"} <=> pc[v] \in {"runs", "reads"}
        /\ \A v \in waiters' : pc'[v] = "asleep"
    OBVIOUS
  <2>4. /\ \A v \in Workers : pc'[v] \in {"leaving", "left"} =>
             pc[v] \in {"leaving", "left"} \/ halted \/ ~StillWaiting
        /\ \A v \in Workers : pc[v] = "left" => pc'[v] = "left"
    OBVIOUS
  <2> QED
    BY <2>1, <2>2, <2>3, <2>4, Moves
<1>5. CASE Sleep(w)
  <2> USE <1>0, <1>5 DEF Sleep, Has, graph, PCs
  <2>1. Parts
    BY DEF Parts
  <2>2. UNCHANGED <<graph, cursor, halted, entry, settled, deferred, owners, job, over>>
    OBVIOUS
  <2>3. /\ \A v \in Workers : pc'[v] \in {"runs", "reads"} <=> pc[v] \in {"runs", "reads"}
        /\ \A v \in waiters' : pc'[v] = "asleep"
    OBVIOUS
  <2>4. /\ \A v \in Workers : pc'[v] \in {"leaving", "left"} =>
             pc[v] \in {"leaving", "left"} \/ halted \/ ~StillWaiting
        /\ \A v \in Workers : pc[v] = "left" => pc'[v] = "left"
    OBVIOUS
  <2> QED
    BY <2>1, <2>2, <2>3, <2>4, Moves
<1>6. CASE Poll(w)
  <2> USE <1>0, <1>6 DEF Poll, Has, graph, PCs
  <2>1. Parts
    BY DEF Parts
  <2>2. UNCHANGED <<graph, cursor, halted, entry, settled, deferred, owners, job, over>>
    OBVIOUS
  <2>3. /\ \A v \in Workers : pc'[v] \in {"runs", "reads"} <=> pc[v] \in {"runs", "reads"}
        /\ \A v \in waiters' : pc'[v] = "asleep"
    OBVIOUS
  <2>4. /\ \A v \in Workers : pc'[v] \in {"leaving", "left"} =>
             pc[v] \in {"leaving", "left"} \/ halted \/ ~StillWaiting
        /\ \A v \in Workers : pc[v] = "left" => pc'[v] = "left"
    OBVIOUS
  <2> QED
    BY <2>1, <2>2, <2>3, <2>4, Moves
<1>7. CASE Returned(w)
  <2> USE <1>0, <1>7 DEF Returned, Has, graph, PCs
  <2>1. Parts
    BY DEF Parts
  <2>2. UNCHANGED <<graph, cursor, halted, entry, settled, deferred, owners, job, over>>
    OBVIOUS
  <2>3. /\ \A v \in Workers : pc'[v] \in {"runs", "reads"} <=> pc[v] \in {"runs", "reads"}
        /\ \A v \in waiters' : pc'[v] = "asleep"
    OBVIOUS
  <2>4. /\ \A v \in Workers : pc'[v] \in {"leaving", "left"} =>
             pc[v] \in {"leaving", "left"} \/ halted \/ ~StillWaiting
        /\ \A v \in Workers : pc[v] = "left" => pc'[v] = "left"
    OBVIOUS
  <2> QED
    BY <2>1, <2>2, <2>3, <2>4, Moves
<1> QED
  BY <1>1, <1>2, <1>3, <1>4, <1>5, <1>6, <1>7

\* Every step keeps the invariant.
LEMMA StepIInv == IInv /\ [Next]_vars => IInv'
<1> SUFFICES ASSUME IInv, [Next]_vars PROVE IInv'
  OBVIOUS
<1>0. CASE UNCHANGED vars
  BY <1>0 DEF vars, graph, IInv, TypeOK, JobsAreHeld, SettledHaveEntries, ScanForgetsNothing,
         LeaversAreDone, DependenciesMergeFirst, ClashesNeverOverlap, Held, Merged, StillWaiting
<1>1. CASE Summarise
  BY <1>1, Summaries
<1>2. ASSUME NEW w \in Workers, Step(w) \/ Poll(w) PROVE IInv'
  <2>1. CASE Claim(w)
    BY <2>1, Claims
  <2>2. CASE ScanOut(w)
    BY <2>2, ScansOut
  <2>3. CASE \E g \in Groups : ClaimDeferred(w, g)
    BY <2>3, DeferredClaims
  <2>4. CASE \E g \in Groups : ParkOrphan(w, g) \/ CapOut(w, g)
    BY <2>4, Parks
  <2>5. CASE Crash(w) \/ Refuse(w) \/ Judge(w)
    <3>1. /\ {"halted", "not-started", "merged", "parked"} \subseteq Outcomes \ {"none"}
          /\ halted \in BOOLEAN
      BY DEF Outcomes, IInv, TypeOK
    <3>2. PICK at \in {"runs", "reads"}, outcome \in Outcomes \ {"none"} :
            Finish(w, at, outcome) /\ halted' \in BOOLEAN /\ (halted => halted')
      BY <2>5, <3>1 DEF Crash, Refuse, Judge
    <3> QED
      BY <3>2, Finishing
  <2> QED
    BY <1>2, <2>1, <2>2, <2>3, <2>4, <2>5, Movements DEF Step
<1> QED
  BY <1>0, <1>1, <1>2 DEF Next

\* The invariant holds in every reachable state.
THEOREM Invariance == Spec => []IInv
BY InitIInv, StepIInv, PTL DEF Spec

\* Every reachable state of the queue is well typed.
THEOREM Typing == Spec => []TypeOK
<1>1. IInv => TypeOK
  BY DEF IInv
<1> QED
  BY <1>1, Invariance, PTL

\* A group that runs or has merged came after everything it depends on, for any number of
\* groups and workers and any declared order (work-queue-scheduler.ts:125).
THEOREM OrderKept == Spec => []DependenciesMergeFirst
<1>1. IInv => DependenciesMergeFirst
  BY DEF IInv
<1> QED
  BY <1>1, Invariance, PTL

\* Groups predicted to touch the same paths never overlap (work-queue-scheduler.ts:168).
THEOREM NoOverlap == Spec => []ClashesNeverOverlap
<1>1. IInv => ClashesNeverOverlap
  BY DEF IInv
<1> QED
  BY <1>1, Invariance, PTL

\* A group somebody has taken and not finished is run by one worker (work-queue-worker.ts:418).
THEOREM OneRunner == Spec => []OneRunnerPerGroup
<1>1. IInv => OneRunnerPerGroup
  <2> SUFFICES ASSUME IInv, NEW g \in Groups
               PROVE  Cardinality({w \in Workers : job[w] = g}) = IF g \in Held THEN 1 ELSE 0
    BY DEF OneRunnerPerGroup
  <2>0. g # 0
    BY DEF Groups
  <2>1. CASE g \in Held
    <3>1. PICK w \in Workers : job[w] = g
      BY <2>1 DEF IInv, JobsAreHeld
    <3>2. {v \in Workers : job[v] = g} = {w}
      BY <2>0, <3>1 DEF IInv, JobsAreHeld
    <3> QED
      BY <2>1, <3>2, FS_Singleton
  <2>2. CASE g \notin Held
    <3>1. {v \in Workers : job[v] = g} = {}
      BY <2>0, <2>2 DEF IInv, JobsAreHeld
    <3> QED
      BY <2>2, <3>1, FS_EmptySet
  <2> QED
    BY <2>1, <2>2
<1> QED
  BY <1>1, Invariance, PTL

\* When the summary is written nothing is missing from it and nothing is in it twice
\* (work-queue.ts:373-424).
THEOREM NothingLost == Spec => []NothingGoesMissing
<1>1. IInv => NothingGoesMissing
  <2> SUFFICES ASSUME IInv, over PROVE NothingGoesMissing
    BY DEF NothingGoesMissing
  <2> USE DEF IInv
  <2>0. Held = {}
    <3>1. \A v \in Workers : job[v] = 0
      BY DEF JobsAreHeld, LeaversAreDone
    <3>2. \A g \in Held : g # 0
      BY DEF Held, TypeOK, Groups
    <3> QED
      BY <3>1, <3>2 DEF JobsAreHeld
  <2>1. Listed \cup NotStarted \cup Halts = Groups /\ Listed \cap NotStarted = {}
    <3>1. \A g \in Groups : g \in settled <=> entry[g] # "none"
      BY DEF SettledHaveEntries
    <3>2. \A g \in Listed : entry[g] # "none"
      BY DEF Listed
    <3>3. \A g \in Groups : entry[g] # "none" => g \in Listed \/ g \in Halts
      BY DEF Listed, Halts
    <3>4. Listed \subseteq Groups /\ Halts \subseteq Groups /\ NotStarted = Groups \ settled
      BY DEF Listed, Halts, NotStarted
    <3> QED
      BY <3>1, <3>2, <3>3, <3>4
  <2>2. NotStarted # {} => halted
    <3> SUFFICES ASSUME NEW g \in Groups \ settled, ~halted PROVE FALSE
      BY DEF NotStarted
    <3>1. PICK w \in Workers : pc[w] = "left"
      BY QueueAssumption DEF LeaversAreDone
    <3>2. ~StillWaiting
      BY <3>1 DEF LeaversAreDone
    <3>3. g < cursor
      BY <3>2, QueueAssumption DEF StillWaiting, TypeOK, Groups
    <3> QED
      BY <3>2, <3>3 DEF StillWaiting, ScanForgetsNothing
  <2>3. NotStarted \cap (owners \cup deferred) = {}
    BY <2>0 DEF NotStarted, Held, LeaversAreDone, SettledHaveEntries
  <2> QED
    BY <2>1, <2>2, <2>3 DEF NothingGoesMissing
<1> QED
  BY <1>1, Invariance, PTL

-----------------------------------------------------------------------------
(* The refinement *)

\* What the contract sees of the groups.
Status == [g \in Groups |-> IF entry[g] # "none" THEN entry[g]
                            ELSE IF g \in owners THEN "running" ELSE "waiting"]

\* The contract's merged and running groups are the queue's.
LEMMA SameGroups ==
  ASSUME IInv
  PROVE  /\ {g \in Groups : Status[g] = "merged"} = Merged
         /\ {g \in Groups : Status[g] = "running"} = Held
         /\ \A g \in Groups : Status[g] = "waiting" <=> entry[g] = "none" /\ g \notin owners
BY DEF IInv, TypeOK, Status, Merged, Held, Outcomes

\* A group taken when it is not blocked may start.
LEMMA StartsAreReady ==
  ASSUME IInv, NEW w \in Workers, NEW g \in Groups, ~halted,
         g \notin owners, entry[g] = "none", ~Blocked(g), Take(w, g),
         UNCHANGED <<graph, halted, entry>>
  PROVE  Contract!Start(g)
<1>1. Contract!At("merged") = Merged /\ Contract!At("running") = Held
  BY SameGroups DEF Contract!At, Contract!Groups, Groups, Status
<1>2. Contract!Ready(g)
  BY <1>1 DEF Contract!Ready, Blocked, Unmerged, Held
<1>3. Contract!Becomes(g, "waiting", "running")
  BY DEF Contract!Becomes, Contract!Groups, Take, IInv, TypeOK
<1> QED
  BY <1>2, <1>3 DEF Contract!Start, graph

\* The end of a run is an End.
LEMMA RunsEnd ==
  ASSUME IInv, NEW w \in Workers, NEW at \in {"runs", "reads"},
         NEW outcome \in {"merged", "parked", "not-started", "halted"},
         Finish(w, at, outcome), halted' = (halted \/ outcome = "halted")
  PROVE  Contract!End(job[w], outcome) /\ job[w] \in Groups
<1> DEFINE g == job[w]
<1>1. /\ pc[w] = at /\ entry' = [entry EXCEPT ![g] = outcome]
      /\ UNCHANGED <<deps, clash, owners>>
  BY DEF Finish, WakeAnd, graph
<1>2. g \in Groups /\ g \in owners /\ entry[g] = "none"
  BY <1>1 DEF IInv, JobsAreHeld, Held, TypeOK
<1>3. Contract!Becomes(g, "running", outcome)
  BY <1>1, <1>2 DEF Contract!Becomes, Contract!Groups, IInv, TypeOK
<1> QED
  BY <1>1, <1>2, <1>3 DEF Contract!End

\* Parking a group that waits changes what the contract sees of it, and of no other.
LEMMA ParksSeen ==
  ASSUME IInv, NEW S \in SUBSET (Groups \ owners), NEW why \in Outcomes \ {"none", "merged"},
         QueuePark(S, why), \A g \in S : entry[g] = "none", UNCHANGED owners
  PROVE  Status' = [g \in Groups |-> IF g \in S THEN why ELSE Status[g]]
BY DEF QueuePark, Status, IInv, TypeOK

\* A wait that is parked, is parked for a reason that is true.
LEMMA ParksAreTrue ==
  ASSUME IInv, NEW w \in Workers, NEW g \in Groups
  PROVE  /\ ParkOrphan(w, g) => Contract!Orphan(g)
         /\ CapOut(w, g) => Contract!CapOut(g)
<1> SUFFICES ASSUME ParkOrphan(w, g) \/ CapOut(w, g)
             PROVE  /\ ParkOrphan(w, g) => Contract!Orphan(g)
                    /\ CapOut(w, g) => Contract!CapOut(g)
  OBVIOUS
<1>1. /\ ~halted /\ g \in deferred /\ g \notin owners
      /\ UNCHANGED <<deps, clash, halted, owners>> /\ pc[w] = "test"
  BY DEF ParkOrphan, CapOut, Testing, Waits, graph, Has, WakeAnd
<1>2. entry[g] = "none" /\ {g} \in SUBSET (Groups \ owners)
  BY <1>1 DEF IInv, LeaversAreDone, ScanForgetsNothing
<1>3. Status[g] = "waiting"
  BY <1>1, <1>2 DEF Status
<1>4. ASSUME NEW why \in {"orphaned", "capped"}, QueuePark({g}, why)
      PROVE  Contract!Becomes(g, "waiting", why)
  <2>0. why \in Outcomes \ {"none", "merged"}
    BY DEF Outcomes
  <2>1. Status' = [h \in Groups |-> IF h \in {g} THEN why ELSE Status[h]]
    BY <1>1, <1>2, <1>4, <2>0, ParksSeen
  <2>2. Status' = [Status EXCEPT ![g] = why]
    BY <2>1 DEF Status
  <2> QED
    BY <1>3, <2>2 DEF Contract!Becomes, Contract!Groups, Groups, Status
<1>5. ASSUME ParkOrphan(w, g) PROVE Contract!Orphan(g)
  <2>1. PICK d \in deps[g] : d \notin Merged /\ d \in settled
    BY <1>5 DEF ParkOrphan, Orphaned, Unmerged
  <2>2. d \in Groups /\ entry[d] \notin {"none", "merged", "waiting", "running"}
    BY <2>1 DEF IInv, TypeOK, SettledHaveEntries, Merged, Outcomes
  <2>3. Status[d] \notin {"waiting", "running", "merged"}
    BY <2>2 DEF Status
  <2>4. Contract!Becomes(g, "waiting", "orphaned")
    BY <1>4, <1>5 DEF ParkOrphan
  <2> QED
    BY <1>1, <2>1, <2>3, <2>4 DEF Contract!Orphan, Status, Groups, Contract!Groups
<1>6. ASSUME CapOut(w, g) PROVE Contract!CapOut(g)
  <2>1. Contract!At("merged") = Merged /\ Contract!At("running") = Held
    BY SameGroups DEF Contract!At, Contract!Groups, Groups, Status
  <2>2. ~Contract!Ready(g)
    BY <1>6, <2>1 DEF Contract!Ready, CapOut, Blocked, Unmerged
  <2>3. Contract!Becomes(g, "waiting", "capped")
    BY <1>4, <1>6 DEF CapOut
  <2> QED
    BY <1>1, <2>2, <2>3 DEF Contract!CapOut
<1> QED
  BY <1>5, <1>6

\* The sweep at the end strands what a halt left waiting.
LEMMA SweepStrands ==
  ASSUME IInv, Summarise
  PROVE  [Contract!Next]_(Contract!vars)
<1> DEFINE S == {g \in deferred : entry[g] = "none" /\ g \notin settled}
<1>1. /\ \A w \in Workers : pc[w] = "left"
      /\ UNCHANGED <<deps, clash, halted, owners>> /\ QueuePark(S, "stranded")
  BY DEF Summarise, graph
<1> HIDE DEF S
<1>2. Held = {}
  <2>1. \A v \in Workers : job[v] = 0
    BY <1>1 DEF IInv, JobsAreHeld
  <2>2. \A g \in Held : g # 0
    BY DEF IInv, Held, TypeOK, Groups
  <2> QED
    BY <2>1, <2>2 DEF IInv, JobsAreHeld
<1>3. S \in SUBSET (Groups \ owners) /\ S \subseteq deferred /\ \A g \in S : entry[g] = "none"
  BY <1>2 DEF S, Held, IInv, TypeOK
<1>4. Status' = [g \in Groups |-> IF g \in S THEN "stranded" ELSE Status[g]]
  BY <1>1, <1>3, ParksSeen DEF Outcomes
<1>5. CASE halted
  <2>1. S \subseteq Contract!At("waiting") /\ Contract!At("running") = {}
    BY <1>2, <1>3, SameGroups DEF Contract!At, Contract!Groups, Groups, Status
  <2>2. Contract!Strand(S)
    BY <1>1, <1>4, <1>5, <2>1 DEF Contract!Strand, Contract!Groups, Groups, Status
  <2>3. S \in SUBSET Contract!Groups
    BY <1>3 DEF Contract!Groups, Groups
  <2>4. \E T \in SUBSET Contract!Groups : Contract!Strand(T)
    BY <2>2, <2>3 DEF Contract!Strand
  <2> QED
    BY <2>4 DEF Contract!Next
<1>6. CASE ~halted
  <2>1. deferred \subseteq owners
    BY <1>1, <1>6, QueueAssumption DEF IInv, LeaversAreDone, StillWaiting
  <2>2. Status' = Status
    BY <1>3, <1>4, <2>1 DEF Status
  <2> QED
    BY <1>1, <2>2 DEF Contract!vars, Status
<1> QED
  BY <1>5, <1>6

\* Every step of the queue is a step of the contract, or none.
LEMMA StepKeepsContract == IInv /\ [Next]_vars => [Contract!Next]_(Contract!vars)
<1> SUFFICES ASSUME IInv, [Next]_vars PROVE [Contract!Next]_(Contract!vars)
  OBVIOUS
<1>0. ASSUME UNCHANGED <<deps, clash, halted, entry, owners>> PROVE UNCHANGED Contract!vars
  BY <1>0 DEF Contract!vars
<1>1. CASE UNCHANGED vars
  BY <1>0, <1>1 DEF vars, graph
<1>2. CASE Summarise
  BY <1>2, SweepStrands
<1>3. ASSUME NEW w \in Workers, Step(w) \/ Poll(w) PROVE [Contract!Next]_(Contract!vars)
  <2>0. Contract!Groups = Groups /\ Contract!Ends = {"merged", "parked", "not-started", "halted"}
    BY DEF Contract!Groups, Groups, Contract!Ends
  <2>1. CASE Claim(w)
    <3>1. PICK g \in Seen : ~Blocked(g) /\ Take(w, g)
      BY <2>1 DEF Claim
    <3>2. g \in Groups /\ g \notin owners /\ entry[g] = "none"
      BY SeenAreGroups DEF IInv, ScanForgetsNothing, Seen
    <3>3. Contract!Start(g)
      BY <2>1, <3>1, <3>2, StartsAreReady DEF Claim
    <3> QED
      BY <2>0, <3>2, <3>3 DEF Contract!Next
  <2>2. ASSUME NEW g \in Groups, ClaimDeferred(w, g) PROVE Contract!Next
    <3>1. /\ g \notin owners /\ ~Blocked(g) /\ Take(w, g) /\ ~halted
          /\ g \in deferred /\ pc[w] = "test" /\ entry' = [entry EXCEPT ![g] = "none"]
          /\ UNCHANGED <<graph, halted>>
      BY <2>2 DEF ClaimDeferred, Testing, Waits, Has
    <3>2. entry[g] = "none" /\ entry' = entry
      BY <3>1 DEF IInv, LeaversAreDone, ScanForgetsNothing, TypeOK
    <3>3. Contract!Start(g)
      BY <3>1, <3>2, StartsAreReady
    <3> QED
      BY <2>0, <3>3 DEF Contract!Next
  <2>3. ASSUME NEW g \in Groups, ParkOrphan(w, g) \/ CapOut(w, g) PROVE Contract!Next
    BY <2>0, <2>3, ParksAreTrue DEF Contract!Next
  <2>4. CASE Crash(w) \/ Refuse(w) \/ Judge(w)
    <3>1. PICK at \in {"runs", "reads"}, outcome \in {"merged", "parked", "not-started", "halted"} :
            Finish(w, at, outcome) /\ halted' = (halted \/ outcome = "halted")
      BY <2>4 DEF Crash, Refuse, Judge, IInv, TypeOK
    <3>2. Contract!End(job[w], outcome) /\ job[w] \in Groups
      BY <3>1, RunsEnd
    <3> QED
      BY <2>0, <3>2 DEF Contract!Next, Contract!End
  <2>5. CASE ScanOut(w) \/ Retire(w) \/ Leave(w) \/ Pass(w) \/ Sleep(w) \/ Poll(w)
    BY <1>0, <2>5 DEF ScanOut, Retire, Leave, Pass, Sleep, Poll, graph
  <2>6. CASE Returned(w) \/ \E g \in Groups : Skip(w, g)
    BY <1>0, <2>6 DEF Returned, Skip, Testing, graph
  <2> QED
    BY <1>3, <2>1, <2>2, <2>3, <2>4, <2>5, <2>6 DEF Step
<1> QED
  BY <1>1, <1>2, <1>3 DEF Next

-----------------------------------------------------------------------------
(* Kahn's algorithm finds exactly the groups no order exists for.  Rounds is a *)
(* recursive function: what it computes of every graph follows by induction on *)
(* the round, from the least counterexample.                                   *)

\* A set of numbers has a least one: the initial segments of its members are finite
\* sets, and strict inclusion of finite sets is well founded.
LEMMA LeastNumber ==
  ASSUME NEW B \in SUBSET Nat, B # {}
  PROVE  \E m \in B : \A n \in B : m <= n
<1> DEFINE T == { 0..n : n \in B }
<1>1. IsWellFoundedOn(StrictSubsetOrdering(Nat), FiniteSubsetsOf(Nat))
  BY FS_StrictSubsetOrderingWellFounded
<1>2. ASSUME NEW n \in B PROVE 0..n \in FiniteSubsetsOf(Nat)
  <2>1. IsFiniteSet(0..n) /\ 0..n \in SUBSET Nat
    BY FS_Interval
  <2> QED
    BY <2>1 DEF FiniteSubsetsOf
<1>3. T \subseteq FiniteSubsetsOf(Nat)
  BY <1>2
<1>4. T # {}
  OBVIOUS
<1>5. \E x \in T : \A y \in T : <<y, x>> \notin StrictSubsetOrdering(Nat)
  <2> HIDE DEF T
  <2> QED
    BY <1>1, <1>3, <1>4, WFMin
<1>6. PICK m \in B : \A y \in T : <<y, 0..m>> \notin StrictSubsetOrdering(Nat)
  BY <1>5
<1>7. ASSUME NEW n \in B PROVE m <= n
  <2>1. <<0..n, 0..m>> \notin StrictSubsetOrdering(Nat)
    BY <1>6
  <2>2. SUFFICES ASSUME n < m PROVE FALSE
    OBVIOUS
  <2>3. 0..n \subseteq 0..m /\ m \in 0..m /\ m \notin 0..n
    BY <2>2
  <2>4. 0..n \in SUBSET Nat /\ 0..m \in SUBSET Nat /\ 0..n # 0..m
    BY <2>3
  <2> QED
    BY <2>1, <2>3, <2>4 DEF StrictSubsetOrdering
<1> QED
  BY <1>7

\* So what holds at 0 and steps up holds up to n: the set of its indices is 0..n.
LEMMA Induction ==
  ASSUME NEW n \in Nat, NEW S, 0 \in S, \A i \in 0..n-1 : i \in S => i + 1 \in S
  PROVE  0..n \subseteq S
<1> SUFFICES ASSUME NEW k \in 0..n, k \notin S PROVE FALSE
  OBVIOUS
<1> DEFINE B == { i \in 0..n : i \notin S }
<1>1. B \in SUBSET Nat /\ k \in B
  OBVIOUS
<1>2. PICK m \in B : \A i \in B : m <= i
  <2> HIDE DEF B
  <2> QED
    BY <1>1, LeastNumber
<1>3. m # 0 /\ m - 1 \in 0..n-1 /\ m - 1 \notin B
  BY <1>2
<1> QED
  BY <1>2, <1>3

\* The rounds unfold as they are written.
LEMMA RoundsUnfold ==
  ASSUME NEW d
  PROVE  Rounds(d) = [ n \in 0..N |->
           IF n = 0 THEN {} ELSE {g \in Groups : d[g] \subseteq Rounds(d)[n - 1]} ]
<1> DEFINE E == {}
           R(x) == {g \in Groups : d[g] \subseteq x}
           G(f, k) == f = [ i \in 0..k |-> IF i = 0 THEN E ELSE R(f[i - 1]) ]
           S == { k \in 0..N : \E f : G(f, k) }
<1>1. Rounds(d) = CHOOSE f : G(f, N)
  BY DEF Rounds
<1> HIDE DEF E, R
<1>2. N \in Nat
  BY QueueAssumption
<1>3. 0 \in S
  <2>1. G([ i \in 0..0 |-> E ], 0)
    OBVIOUS
  <2> HIDE DEF G
  <2> QED
    BY <2>1, <1>2
<1>4. ASSUME NEW k \in 0..N-1, k \in S PROVE k + 1 \in S
  <2>1. PICK f : G(f, k)
    BY <1>4
  <2> DEFINE g == [ i \in 0..k+1 |-> IF i = 0 THEN E ELSE R(f[i - 1]) ]
  <2>2. \A i \in 0..k : g[i] = f[i]
    BY <2>1, <1>2
  <2>3. \A i \in 0..k+1 : i # 0 => f[i - 1] = g[i - 1]
    <3> HIDE DEF g
    <3> QED
      BY <2>2, <1>2
  <2>4. G(g, k + 1)
    BY <2>3, <1>2
  <2> HIDE DEF G, g
  <2> QED
    BY <2>4, <1>2
<1>5. N \in S
  <2> HIDE DEF S
  <2>1. \A i \in 0..N-1 : i \in S => i + 1 \in S
    BY <1>4
  <2>2. 0..N \subseteq S
    BY <1>3, <2>1, <1>2, Induction
  <2> QED
    BY <2>2, <1>2
<1>6. G(Rounds(d), N)
  <2>1. PICK f : G(f, N)
    BY <1>5
  <2> HIDE DEF G
  <2> QED
    BY <2>1, <1>1
<1> QED
  BY <1>6 DEF E, R

\* No round reaches a set whose members all wait for one of them.
LEMMA StuckStay ==
  ASSUME NEW d, NEW X \in SUBSET Groups, \A g \in X : d[g] \cap X # {}
  PROVE  Rounds(d)[N] \cap X = {}
<1> DEFINE S == { n \in 0..N : Rounds(d)[n] \cap X = {} }
<1>1. N \in Nat
  BY QueueAssumption
<1>2. 0 \in S
  BY <1>1, RoundsUnfold
<1>3. ASSUME NEW n \in 0..N-1, n \in S PROVE n + 1 \in S
  <2>1. Rounds(d)[n + 1] = {g \in Groups : d[g] \subseteq Rounds(d)[n]}
    BY <1>1, RoundsUnfold
  <2> QED
    BY <1>1, <1>3, <2>1
<1> HIDE DEF S
<1>4. 0..N \subseteq S
  BY <1>1, <1>2, <1>3, Induction
<1> QED
  BY <1>1, <1>4 DEF S

\* After N rounds nothing is left to settle: until then every round settles another.
LEMMA RoundsEnd ==
  ASSUME NEW d
  PROVE  {g \in Groups : d[g] \subseteq Rounds(d)[N]} = Rounds(d)[N]
<1> DEFINE F(X) == {g \in Groups : d[g] \subseteq X}
           A(n) == Rounds(d)[n]
           S == { n \in 0..N : /\ A(n) \subseteq F(A(n))
                               /\ F(A(n)) = A(n) \/ Cardinality(F(A(n))) >= n + 1 }
<1>1. N \in Nat
  BY QueueAssumption
<1>2. A(0) = {} /\ \A n \in 0..N-1 : A(n + 1) = F(A(n))
  BY <1>1, RoundsUnfold
<1>3. ASSUME NEW X
      PROVE  /\ IsFiniteSet(F(X)) /\ Cardinality(F(X)) \in Nat /\ Cardinality(F(X)) <= N
             /\ \A Y \in SUBSET F(X) : Y # F(X) => Cardinality(Y) < Cardinality(F(X))
  <2>1. IsFiniteSet(Groups) /\ Cardinality(Groups) = N
    BY <1>1, FS_Interval DEF Groups
  <2>2. F(X) \in SUBSET Groups
    OBVIOUS
  <2> HIDE DEF F
  <2>3. IsFiniteSet(F(X)) /\ Cardinality(F(X)) <= N
    BY <2>1, <2>2, FS_Subset
  <2> QED
    BY <2>3, FS_CardinalityType, FS_Subset
<1>4. \A X, Y : X \subseteq Y => F(X) \subseteq F(Y)
  OBVIOUS
<1> HIDE DEF F, A
<1>5. 0 \in S
  <2>1. CASE F(A(0)) = {}
    BY <1>1, <1>2, <2>1
  <2>2. CASE F(A(0)) # {}
    <3>1. Cardinality(F(A(0))) > Cardinality({}) /\ Cardinality({}) = 0
      BY <1>3, <2>2, FS_EmptySet
    <3> QED
      BY <1>1, <1>2, <1>3, <3>1
  <2> QED
    BY <2>1, <2>2
<1>6. ASSUME NEW n \in 0..N-1, n \in S PROVE n + 1 \in S
  <2>1. A(n + 1) = F(A(n)) /\ A(n) \subseteq F(A(n))
        /\ (F(A(n)) = A(n) \/ Cardinality(F(A(n))) >= n + 1)
    BY <1>2, <1>6
  <2>2. A(n + 1) \subseteq F(A(n + 1))
    BY <1>4, <2>1
  <2>3. CASE F(A(n)) = A(n)
    BY <1>1, <2>1, <2>2, <2>3
  <2>4. CASE F(A(n + 1)) # A(n + 1) /\ Cardinality(F(A(n))) >= n + 1
    <3>1. Cardinality(A(n + 1)) < Cardinality(F(A(n + 1)))
      BY <1>3, <2>2, <2>4
    <3>2. Cardinality(A(n + 1)) >= n + 1 /\ Cardinality(A(n + 1)) \in Nat
          /\ Cardinality(F(A(n + 1))) \in Nat
      BY <1>3, <2>1, <2>4
    <3>3. Cardinality(F(A(n + 1))) >= (n + 1) + 1
      BY <3>1, <3>2
    <3> QED
      BY <1>1, <2>2, <3>3
  <2>5. CASE F(A(n + 1)) = A(n + 1)
    BY <1>1, <2>2, <2>5
  <2> QED
    BY <2>1, <2>3, <2>4, <2>5
<1> HIDE DEF S
<1>7. 0..N \subseteq S
  BY <1>1, <1>5, <1>6, Induction
<1>8. F(A(N)) = A(N) \/ Cardinality(F(A(N))) >= N + 1
  BY <1>1, <1>7 DEF S
<1>9. F(A(N)) = A(N)
  BY <1>1, <1>3, <1>8
<1> QED
  BY <1>9 DEF F, A

\* The groups left over are the ones no order exists for.
LEMMA KahnFindsTheStuck ==
  ASSUME deps \in [Groups -> SUBSET Groups]
  PROVE  Cyclic(deps) = Contract!Stuck
<1>1. Contract!Groups = Groups
  BY DEF Contract!Groups, Groups
<1>2. ASSUME NEW g \in Contract!Stuck PROVE g \in Cyclic(deps)
  <2>1. PICK X \in SUBSET Groups : (\A h \in X : deps[h] \cap X # {}) /\ g \in X
    BY <1>1, <1>2 DEF Contract!Stuck
  <2> QED
    BY <2>1, StuckStay DEF Cyclic
<1>3. ASSUME NEW g \in Cyclic(deps) PROVE g \in Contract!Stuck
  <2> DEFINE X == Cyclic(deps)
  <2>1. ASSUME NEW h \in X PROVE deps[h] \cap X # {}
    <3>1. h \in Groups /\ h \notin Rounds(deps)[N] /\ deps[h] \subseteq Groups
      BY <2>1 DEF Cyclic
    <3>2. ~(deps[h] \subseteq Rounds(deps)[N])
      BY <3>1, RoundsEnd
    <3> QED
      BY <3>1, <3>2 DEF Cyclic
  <2>2. X \in SUBSET Groups
    BY DEF Cyclic
  <2> HIDE DEF X
  <2>3. X \subseteq Contract!Stuck
    BY <1>1, <2>1, <2>2 DEF Contract!Stuck
  <2> QED
    BY <1>3, <2>3 DEF X
<1> QED
  BY <1>2, <1>3

\* The queue keeps its contract: whatever the declared order and the predicted collisions,
\* the groups on a cycle are parked first (findCyclicGroups, work-queue-deps.ts), and every
\* other is run at most once, in order, apart from what it clashes with.
THEOREM ContractKept == Spec => KeepsQueueContract
<1>1. Init => Contract!Init
  <2> SUFFICES ASSUME Init PROVE Contract!Init
    OBVIOUS
  <2>1. /\ deps \in [Groups -> SUBSET Groups] /\ clash \in SUBSET SUBSET Groups
        /\ ~halted /\ halted = FALSE /\ owners = Cyclic(deps)
        /\ entry = [g \in Groups |-> IF g \in Cyclic(deps) THEN "cyclic" ELSE "none"]
    BY QueueAssumption DEF Init
  <2>2. Cyclic(deps) = Contract!Stuck /\ Contract!Groups = Groups
    BY <2>1, KahnFindsTheStuck DEF Contract!Groups, Groups
  <2>3. [g \in Groups |-> IF entry[g] # "none" THEN entry[g]
                          ELSE IF g \in owners THEN "running" ELSE "waiting"]
          = [g \in Groups |-> IF g \in Contract!Stuck THEN "cyclic" ELSE "waiting"]
    BY <2>1, <2>2
  <2> QED
    BY <2>1, <2>2, <2>3 DEF Contract!Init
<1> QED
  BY <1>1, StepKeepsContract, Invariance, PTL DEF Spec, KeepsQueueContract, Contract!Spec
=============================================================================
