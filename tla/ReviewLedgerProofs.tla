------------------------- MODULE ReviewLedgerProofs -------------------------
(***************************************************************************)
(* Proofs about ReviewLedger, for any number of calls, whatever the ledger *)
(* held and whether or not files can be unlinked: its lock lets one call   *)
(* in, what the newest row of a sequence is and what recording does to it, *)
(* and from both that no review is lost and that rounds count reviews.     *)
(***************************************************************************)
EXTENDS ReviewLedger, FiniteSetTheorems, SequenceTheorems, WellFoundedInduction, TLAPS

-----------------------------------------------------------------------------
(* The lock *)

PCs == {"idle", "publish", "release", "unlink", "done", "dead"} \cup Waiting \cup Inside

Typed == pc \in [Writers -> PCs] /\ locked \subseteq Writers

\* Who took the lock is past its acquisition.
LockedArePast == \A w \in locked : pc[w] \in Inside \cup {"release", "unlink"}

\* Until somebody is robbed, whoever wrote its token, or is about to, is the one whose file
\* stands at the path.
HoldersStandThere ==
  "robbed" \notin slips =>
    \A w \in Writers : pc[w] = "publish" \/ (w \in locked /\ pc[w] \in Inside) => lock.by = w

IInv == Typed /\ LockedArePast /\ HoldersStandThere

\* The initial state satisfies the invariant.
LEMMA InitIInv == Init => IInv
<1> SUFFICES ASSUME Init PROVE IInv
  OBVIOUS
<1>1. /\ pc = [w \in Writers |-> IF w = First THEN "dead" ELSE "idle"] /\ locked = {}
  BY DEF Init
<1> QED
  BY <1>1 DEF IInv, Typed, PCs, LockedArePast, HoldersStandThere

\* A call's steps that neither take the lock nor remove it.
LEMMA Moves ==
  ASSUME IInv, NEW w \in Writers, NEW from \in PCs, NEW to \in PCs \ {"publish"},
         Goto(w, from, to), lock'.by = lock.by, slips \subseteq slips',
         \/ locked' = locked \ {w}
         \/ /\ locked' = locked
            /\ from \in Inside \cup {"release", "unlink"} <=> to \in Inside \cup {"release", "unlink"}
            /\ to \in Inside => from \in Inside
         \/ locked' = locked /\ from \in Waiting \cup {"publish", "idle"}
  PROVE  IInv'
<1> USE DEF IInv, Goto
<1>0. /\ pc' \in [Writers -> PCs] /\ pc'[w] = to /\ pc[w] = from
      /\ \A v \in Writers \ {w} : pc'[v] = pc[v]
  BY DEF Typed
<1>1. Typed'
  BY <1>0 DEF Typed
<1>2. LockedArePast'
  BY <1>0 DEF LockedArePast, Typed, Waiting, Inside
<1>3. HoldersStandThere'
  BY <1>0 DEF HoldersStandThere, LockedArePast, Waiting, Inside
<1> QED
  BY <1>1, <1>2, <1>3

\* A removal takes nobody's file unnoticed.
LEMMA Removals ==
  ASSUME IInv, NEW w \in Writers, NEW others, Unlinked(w, others), locked' \subseteq locked,
         \/ Goto(w, "sweep", "create") /\ others = Writers /\ locked' = locked
         \/ Goto(w, "unlink", "done") /\ others = Writers \ {w} /\ locked' = locked \ {w}
  PROVE  IInv'
<1> USE DEF IInv, Goto
<1>0. /\ pc' \in [Writers -> PCs] /\ pc[w] \in {"sweep", "unlink"}
      /\ pc'[w] = IF pc[w] = "sweep" THEN "create" ELSE "done"
      /\ pc[w] = "sweep" => locked' = locked
      /\ pc[w] = "unlink" => locked' = locked \ {w}
      /\ \A v \in Writers \ {w} : pc'[v] = pc[v]
  BY DEF Typed, PCs, Waiting
<1>1. Typed'
  BY <1>0 DEF Typed
<1>2. LockedArePast'
  BY <1>0 DEF LockedArePast, Typed, Inside
<1>3. HoldersStandThere'
  <2> SUFFICES ASSUME "robbed" \notin slips', NEW v \in Writers,
                      pc'[v] = "publish" \/ (v \in locked' /\ pc'[v] \in Inside)
               PROVE  lock'.by = v
    BY DEF HoldersStandThere
  <2>1. v # w /\ pc[v] \in {"publish"} \cup Inside /\ v \in others
    BY <1>0 DEF Inside
  <2>2. "robbed" \notin slips /\ lock.by = v
    BY <1>0, <2>1 DEF Unlinked, HoldersStandThere
  <2>3. ~Removable
    BY <2>1, <2>2 DEF Unlinked
  <2> QED
    BY <2>2, <2>3 DEF Unlinked
<1> QED
  BY <1>1, <1>2, <1>3

\* A create finds the path free, so nobody stands there but those who were robbed.
LEMMA Takings ==
  ASSUME IInv, NEW w \in Writers, Create(w) \/ Publish(w)
  PROVE  IInv'
<1> USE DEF IInv, Goto, rows
<1>1. CASE Create(w)
  <2>0. /\ pc' \in [Writers -> PCs] /\ pc'[w] = "publish" /\ pc[w] = "create"
        /\ \A v \in Writers \ {w} : pc'[v] = pc[v]
        /\ lock'.by = w /\ lock.by = Nobody /\ UNCHANGED <<locked, slips>>
    BY <1>1 DEF Create, Typed, PCs, AtPath
  <2>1. Typed' /\ LockedArePast'
    BY <2>0 DEF Typed, LockedArePast, Inside
  <2>2. HoldersStandThere'
    BY <2>0, LedgerAssumption DEF HoldersStandThere, Inside
  <2> QED
    BY <2>1, <2>2
<1>2. CASE Publish(w)
  <2>0. /\ pc' \in [Writers -> PCs] /\ pc'[w] = "read" /\ pc[w] = "publish"
        /\ \A v \in Writers \ {w} : pc'[v] = pc[v]
        /\ lock'.by = lock.by /\ locked' = locked \cup {w} /\ slips' = slips
    BY <1>2 DEF Publish, Typed, PCs, Inside
  <2>1. Typed' /\ LockedArePast'
    BY <2>0 DEF Typed, LockedArePast, Inside
  <2>2. HoldersStandThere'
    BY <2>0 DEF HoldersStandThere
  <2> QED
    BY <2>1, <2>2
<1> QED
  BY <1>1, <1>2

\* Every step keeps the invariant.
LEMMA StepIInv == IInv /\ [Next]_vars => IInv'
<1> SUFFICES ASSUME IInv, [Next]_vars PROVE IInv'
  OBVIOUS
<1>0. CASE UNCHANGED <<pc, lock, locked, slips>>
  BY <1>0 DEF IInv, Typed, LockedArePast, HoldersStandThere
<1>1. CASE Age \/ \E w \in Writers \ {First} : Deadline(w)
  <2>1. UNCHANGED <<pc, locked, slips>> /\ lock'.by = lock.by
    <3>1. CASE Age
      BY <3>1 DEF Age, rows
    <3>2. CASE \E w \in Writers \ {First} : Deadline(w)
      BY <3>2 DEF Deadline, rows
    <3> QED
      BY <1>1, <3>1, <3>2
  <2> QED
    BY <2>1 DEF IInv, Typed, LockedArePast, HoldersStandThere
<1>2. ASSUME NEW w \in Writers, Create(w) \/ Publish(w) PROVE IInv'
  BY <1>2, Takings
<1>3. ASSUME NEW w \in Writers, Sweep(w) \/ Unlink(w) PROVE IInv'
  BY <1>3, Removals DEF Sweep, Unlink, Forget
<1>4. ASSUME NEW w \in Writers, NEW from \in Waiting \cup {"publish"}, Degrade(w, from) PROVE IInv'
  BY <1>4, Moves DEF Degrade, PCs, Inside, Waiting
<1>5. ASSUME NEW w \in Writers, NEW from \in Waiting, GiveWay(w, from) PROVE IInv'
  <2>1. CASE Degrade(w, from)
    BY <1>4, <2>1
  <2>2. CASE Goto(w, from, "create") /\ UNCHANGED <<lock, locked, slips>>
    BY <2>2, Moves DEF PCs, Waiting
  <2> QED
    BY <1>5, <2>1, <2>2 DEF GiveWay
<1>6. ASSUME NEW w \in Writers, Vanished(w) \/ Spare(w) \/ Unavailable(w) PROVE IInv'
  BY <1>4, <1>5, <1>6 DEF Vanished, Spare, Unavailable, Waiting
<1>7. ASSUME NEW w \in Writers, Start(w) \/ Taken(w) \/ Exists(w) \/ Condemn(w) PROVE IInv'
  BY <1>7, Moves DEF Start, Taken, Exists, Condemn, PCs, Waiting, Inside
<1>8. ASSUME NEW w \in Writers,
             Read(w) \/ ReadFails(w) \/ RenameFails(w) \/ Reread(w) \/ RereadFails(w)
      PROVE  IInv'
  BY <1>8, Moves DEF Read, ReadFails, RenameFails, Reread, RereadFails, PCs, Inside
<1>9. ASSUME NEW w \in Writers, Rename(w) \/ WriteFails(w) \/ Release(w) PROVE IInv'
  BY <1>9, Moves DEF Rename, WriteFails, Release, PCs, Inside
<1>10. ASSUME NEW w \in Writers, ReleaseNothing(w) PROVE IInv'
  BY <1>10, Moves DEF ReleaseNothing, Forget, PCs
<1>11. ASSUME NEW w \in Writers, Crash(w) PROVE IInv'
  BY <1>11, Moves DEF Crash, Forget, Goto, PCs, IInv, Typed
<1> QED
  BY <1>0, <1>1, <1>2, <1>3, <1>6, <1>7, <1>8, <1>9, <1>10, <1>11 DEF Next, Step, Fault, vars

\* The invariant holds in every reachable state.
LEMMA Invariance == Spec => []IInv
BY InitIInv, StepIInv, PTL DEF Spec

\* Two calls that took the lock are inside together only after one was robbed of it, for any
\* number of calls (review-ledger-lock.ts:89-212).
THEOREM OneInside == Spec => []OneWriterInside
<1>1. IInv => OneWriterInside
  BY DEF IInv, Typed, HoldersStandThere, OneWriterInside
<1> QED
  BY <1>1, Invariance, PTL

-----------------------------------------------------------------------------
(* The newest row *)

Row == [at : Nat, round : Nat, streak : Nat]

\* What a sequence with one more row, or of one row, holds.
LEMMA RowsOf ==
  /\ \A r : ToSet(<<r>>) = {r}
  /\ ToSet(<<>>) = {}
  /\ \A r \in Row : <<r>> \in Seq(Row)
  /\ <<>> \in Seq(Row)
  /\ \A s \in Seq(Row), r \in Row : Append(s, r) \in Seq(Row) /\ Append(s, r) # <<>>
  /\ \A s \in Seq(Row) : ToSet(s) = {} <=> s = <<>>
<1>1. \A r : ToSet(<<r>>) = {r}
  BY DEF ToSet
<1>2. ToSet(<<>>) = {}
  BY DEF ToSet
<1>3. \A s \in Seq(Row), r \in Row : Append(s, r) \in Seq(Row) /\ Append(s, r) # <<>>
  BY AppendProperties
<1>4. \A s \in Seq(Row) : ToSet(s) = {} <=> s = <<>>
  <2> SUFFICES ASSUME NEW s \in Seq(Row) PROVE ToSet(s) = {} <=> s = <<>>
    OBVIOUS
  <2>1. CASE s = <<>>
    BY <1>2, <2>1
  <2>2. CASE s # <<>>
    <3>1. Len(s) \in Nat /\ DOMAIN s = 1..Len(s) /\ Len(s) # 0
      BY <2>2, LenProperties, EmptySeq
    <3>2. 1 \in DOMAIN s
      BY <3>1
    <3>3. s[1] \in ToSet(s)
      BY <3>2 DEF ToSet
    <3> QED
      BY <2>2, <3>3
  <2> QED
    BY <2>1, <2>2
<1> QED
  BY <1>1, <1>2, <1>3, <1>4

\* The rows of a sequence are rows, and an added one is one more.
LEMMA RowsAdd ==
  ASSUME NEW s \in Seq(Row)
  PROVE  /\ ToSet(s) \subseteq Row
         /\ \A r \in Row : ToSet(Append(s, r)) = ToSet(s) \cup {r}
<1>1. DOMAIN s = 1..Len(s) /\ Len(s) \in Nat /\ \A i \in 1..Len(s) : s[i] \in Row
  BY LenProperties, ElementOfSeq
<1>2. ToSet(s) \subseteq Row
  BY <1>1 DEF ToSet
<1>3. ASSUME NEW r \in Row PROVE ToSet(Append(s, r)) = ToSet(s) \cup {r}
  <2> DEFINE t == Append(s, r)
  <2>1. /\ t \in Seq(Row) /\ Len(t) = Len(s) + 1 /\ t[Len(s) + 1] = r
        /\ \A i \in 1..Len(s) : t[i] = s[i]
    BY AppendProperties
  <2>2. DOMAIN t = 1..(Len(s) + 1)
    BY <2>1, LenProperties
  <2> HIDE DEF t
  <2>3. ToSet(s) = { s[i] : i \in 1..Len(s) }
    BY <1>1 DEF ToSet
  <2>4. ToSet(t) = { t[i] : i \in 1..(Len(s) + 1) }
    BY <2>2 DEF ToSet
  <2> QED
    BY <1>1, <2>1, <2>3, <2>4 DEF t
<1> QED
  BY <1>2, <1>3

\* A ledger with a row has a newest one: the sets of the rows that are newer than a row are
\* finite, and one of them has no smaller one (review-ledger-read.ts:106-113).
LEMMA NewestRow ==
  ASSUME NEW s \in Seq(Row), s # <<>>
  PROVE  \E i \in DOMAIN s : IsNewest(s, i)
<1> DEFINE D == 1..Len(s)
           Newer(j, i) == s[j].at > s[i].at \/ (s[j].at = s[i].at /\ j > i)
           Over(i) == { j \in D : Newer(j, i) }
           T == { Over(i) : i \in D }
<1>1. /\ DOMAIN s = D /\ Len(s) \in Nat /\ D # {}
      /\ \A i \in D : s[i].at \in Nat /\ i \in Nat
  <2>1. DOMAIN s = D /\ Len(s) \in Nat /\ Len(s) # 0
    BY LenProperties, EmptySeq
  <2>2. \A i \in D : s[i] \in Row
    BY ElementOfSeq
  <2> QED
    BY <2>1, <2>2 DEF Row
<1>2. IsWellFoundedOn(StrictSubsetOrdering(Nat), FiniteSubsetsOf(Nat))
  BY FS_StrictSubsetOrderingWellFounded
<1>3. T \subseteq FiniteSubsetsOf(Nat) /\ T # {}
  <2>1. IsFiniteSet(D) /\ D \subseteq Nat
    BY <1>1, FS_Interval
  <2>2. \A i \in D : IsFiniteSet(Over(i)) /\ Over(i) \subseteq Nat
    BY <2>1, FS_Subset
  <2> QED
    BY <1>1, <2>2 DEF FiniteSubsetsOf
<1>4. \E x \in T : \A y \in T : <<y, x>> \notin StrictSubsetOrdering(Nat)
  <2> HIDE DEF T
  <2> QED
    BY <1>2, <1>3, WFMin
<1>5. PICK i \in D : \A j \in D : <<Over(j), Over(i)>> \notin StrictSubsetOrdering(Nat)
  BY <1>4
<1>6. Over(i) = {}
  <2> SUFFICES ASSUME NEW j \in Over(i) PROVE FALSE
    OBVIOUS
  <2>1. j \in D /\ Newer(j, i) /\ j \notin Over(j)
    BY <1>1
  <2>2. \A k \in Over(j) : k \in Over(i)
    BY <1>1, <2>1
  <2>3. Over(j) \subseteq Over(i) /\ Over(j) # Over(i) /\ Over(i) \in SUBSET Nat
    BY <1>1, <2>1, <2>2
  <2> QED
    BY <1>5, <2>1, <2>3 DEF StrictSubsetOrdering
<1>7. ASSUME NEW j \in D
      PROVE  s[j].at < s[i].at \/ (s[j].at = s[i].at /\ j <= i)
  <2>1. ~Newer(j, i)
    BY <1>6
  <2>2. s[j].at \in Nat /\ s[i].at \in Nat /\ j \in Nat /\ i \in Nat
    BY <1>1
  <2> QED
    BY <2>1, <2>2
<1> QED
  BY <1>1, <1>7 DEF IsNewest

\* latestEntry: nothing of nothing, and of rows one of them that none is newer than.
LEMMA LatestRow ==
  ASSUME NEW s \in Seq(Row)
  PROVE  /\ latestEntry(s) \in Seq(Row)
         /\ s = <<>> => latestEntry(s) = <<>>
         /\ s # <<>> => \E r \in ToSet(s) : /\ latestEntry(s) = <<r>>
                                           /\ \A x \in ToSet(s) : x.at <= r.at
<1>1. CASE s = <<>>
  BY <1>1, RowsOf DEF latestEntry
<1>2. CASE s # <<>>
  <2> DEFINE i == CHOOSE i \in DOMAIN s : IsNewest(s, i)
  <2>1. i \in DOMAIN s /\ IsNewest(s, i)
    BY <1>2, NewestRow
  <2>2. latestEntry(s) = <<s[i]>>
    BY <1>2 DEF latestEntry
  <2> HIDE DEF i
  <2>3. s[i] \in ToSet(s) /\ ToSet(s) \subseteq Row
    BY <2>1, RowsAdd DEF ToSet
  <2>4. \A x \in ToSet(s) : x.at <= s[i].at
    <3> SUFFICES ASSUME NEW j \in DOMAIN s PROVE s[j].at <= s[i].at
      BY DEF ToSet
    <3>0. s[j] \in ToSet(s)
      BY DEF ToSet
    <3>1. s[j].at \in Nat /\ s[i].at \in Nat
      BY <2>3, <3>0 DEF Row
    <3> QED
      BY <2>1, <3>1 DEF IsNewest
  <2>5. <<s[i]>> \in Seq(Row)
    BY <2>3, RowsOf
  <2> QED
    BY <1>2, <2>2, <2>3, <2>4, <2>5
<1> QED
  BY <1>1, <1>2

\* The newest of one row is that row; of rows and a newer one, the newer one.
LEMMA LatestOfNewer ==
  /\ \A r \in Row : latestEntry(<<r>>) = <<r>>
  /\ \A s \in Seq(Row) : latestEntry(latestEntry(s)) = latestEntry(s)
  /\ \A s \in Seq(Row), x \in Row :
       (\A r \in ToSet(s) : r.at < x.at) => latestEntry(Append(s, x)) = <<x>>
<1>1. ASSUME NEW r \in Row PROVE latestEntry(<<r>>) = <<r>>
  <2> DEFINE s == <<r>>
  <2>1. s \in Seq(Row) /\ s # <<>> /\ ToSet(s) = {r}
    BY RowsOf
  <2> HIDE DEF s
  <2>2. latestEntry(s) = <<r>>
    BY <2>1, LatestRow
  <2> QED
    BY <2>2 DEF s
<1>2. ASSUME NEW s \in Seq(Row) PROVE latestEntry(latestEntry(s)) = latestEntry(s)
  <2>1. CASE s = <<>>
    BY <2>1, LatestRow
  <2>2. CASE s # <<>>
    BY <1>1, <2>2, LatestRow, RowsAdd
  <2> QED
    BY <2>1, <2>2
<1>3. ASSUME NEW s \in Seq(Row), NEW x \in Row, \A r \in ToSet(s) : r.at < x.at
      PROVE  latestEntry(Append(s, x)) = <<x>>
  <2> DEFINE t == Append(s, x)
  <2>1. t \in Seq(Row) /\ t # <<>> /\ ToSet(t) = ToSet(s) \cup {x} /\ ToSet(s) \subseteq Row
    BY RowsOf, RowsAdd
  <2> HIDE DEF t
  <2>2. PICK r \in ToSet(t) : latestEntry(t) = <<r>> /\ \A y \in ToSet(t) : y.at <= r.at
    BY <2>1, LatestRow
  <2>3. r = x
    BY <1>3, <2>1, <2>2 DEF Row
  <2> QED
    BY <2>2, <2>3 DEF t
<1> QED
  BY <1>1, <1>2, <1>3

-----------------------------------------------------------------------------
(* What one recording does to a ledger *)

Files == [Kinds -> Seq(Row)]

\* A call that knows what it records.
Ready(w) ==
  /\ w \in Writers /\ work[w] \in Works /\ at[w] \in Nat /\ copied[w] \in Seq(Row)
  /\ work[w] = "carry" => copied[w] # <<>>

\* The first row of a sequence of rows is a row.
LEMMA FirstRow == \A s \in Seq(Row) : s # <<>> => s[1] \in Row
<1> SUFFICES ASSUME NEW s \in Seq(Row), s # <<>> PROVE s[1] \in Row
  OBVIOUS
<1>1. Len(s) \in Nat /\ Len(s) # 0
  BY LenProperties, EmptySeq
<1>2. 1 \in 1..Len(s)
  BY <1>1
<1> QED
  BY <1>2, ElementOfSeq

\* The new row carries the call's time, and is the same whether it is built on all rows or
\* on the newest only.
LEMMA BumpRow ==
  ASSUME NEW w, Ready(w), NEW s \in Seq(Row)
  PROVE  /\ bumpLensRound(w, s) \in Row /\ bumpLensRound(w, s).at = at[w]
         /\ bumpLensRound(w, latestEntry(s)) = bumpLensRound(w, s)
<1> DEFINE prev == latestEntry(s)
<1>1. prev \in Seq(Row) /\ (prev # <<>> => prev[1] \in Row)
  BY LatestRow, FirstRow
<1>2. work[w] = "carry" => copied[w][1] \in Row
  BY FirstRow DEF Ready
<1>3. latestEntry(prev) = prev
  BY LatestOfNewer
<1>4. work[w] \in Works /\ at[w] \in Nat
  BY DEF Ready
<1> HIDE DEF prev
<1>5. bumpLensRound(w, s) =
        CASE work[w] = "adversarial" -> [at |-> at[w], round |-> 0, streak |-> 0]
          [] work[w] = "carry" -> [at |-> at[w], round |-> copied[w][1].round, streak |-> 0]
          [] work[w] = "completed" ->
               [at |-> at[w], round |-> IF prev = <<>> THEN 1 ELSE prev[1].round + 1, streak |-> 0]
          [] work[w] = "incomplete" ->
               [at |-> at[w], round |-> IF prev = <<>> THEN 1 ELSE prev[1].round,
                streak |-> IF prev = <<>> THEN 1 ELSE prev[1].streak + 1]
  BY DEF bumpLensRound, prev
<1>6. bumpLensRound(w, s) \in Row /\ bumpLensRound(w, s).at = at[w]
  <2>1. CASE work[w] = "adversarial"
    BY <1>4, <1>5, <2>1 DEF Row
  <2>2. CASE work[w] = "carry"
    BY <1>2, <1>4, <1>5, <2>2 DEF Row
  <2>3. CASE work[w] = "completed"
    BY <1>1, <1>4, <1>5, <2>3 DEF Row
  <2>4. CASE work[w] = "incomplete"
    BY <1>1, <1>4, <1>5, <2>4 DEF Row
  <2> QED
    BY <1>4, <2>1, <2>2, <2>3, <2>4 DEF Works
<1>7. bumpLensRound(w, latestEntry(s)) = bumpLensRound(w, s)
  BY <1>3 DEF bumpLensRound, prev
<1> QED
  BY <1>6, <1>7

\* g is f with the row of call w recorded: no row of f is lost to an older one, the call's
\* own row is not either, the other kind is left alone, and a call later than all rows
\* leaves its row the newest.
Recorded(f, g, w) ==
  /\ g \in Files
  /\ \A k \in Kinds : \A r \in ToSet(g[k]) : r \in ToSet(f[k]) \/ (k = KindOf(w) /\ r.at = at[w])
  /\ \A k \in Kinds : \A r \in ToSet(f[k]) : \E x \in ToSet(g[k]) : r.at <= x.at
  /\ \E x \in ToSet(g[KindOf(w)]) : at[w] <= x.at
  /\ \A k \in Kinds \ {KindOf(w)} : latestEntry(g[k]) = latestEntry(f[k])
  /\ (\A r \in ToSet(f[KindOf(w)]) : r.at < at[w]) =>
       latestEntry(g[KindOf(w)]) = <<bumpLensRound(w, f[KindOf(w)])>>

\* The happy path records the row.
LEMMA AppendedRecords ==
  ASSUME NEW w, Ready(w), NEW f \in Files
  PROVE  Recorded(f, Appended(w, f), w)
<1> DEFINE K == KindOf(w)
           g == Appended(w, f)
           b == bumpLensRound(w, f[K])
<1>1. K \in Kinds /\ f \in [Kinds -> Seq(Row)]
  BY DEF KindOf, Kinds, Files
<1>2. b \in Row /\ b.at = at[w] /\ bumpLensRound(w, latestEntry(f[K])) = b /\ at[w] \in Nat
  BY <1>1, BumpRow DEF Ready
<1>3. \A k \in Kinds : latestEntry(f[k]) \in Seq(Row)
  BY <1>1, LatestRow
<1>4. g = [k \in Kinds |-> IF k = K THEN Append(latestEntry(f[K]), b) ELSE latestEntry(f[k])]
  BY <1>1, <1>2 DEF Appended, With, dedupeLatest
<1> HIDE DEF g, K, b
<1>5. /\ g[K] = Append(latestEntry(f[K]), b)
      /\ \A k \in Kinds \ {K} : g[k] = latestEntry(f[k])
  BY <1>1, <1>4
<1>6. g \in Files
  BY <1>2, <1>3, <1>4, RowsOf DEF Files
<1>7. \A k \in Kinds : /\ ToSet(latestEntry(f[k])) \subseteq ToSet(f[k])
                       /\ ToSet(f[k]) \subseteq Row
                       /\ \A r \in ToSet(f[k]) : \E x \in ToSet(latestEntry(f[k])) : r.at <= x.at
  <2> SUFFICES ASSUME NEW k \in Kinds
               PROVE  /\ ToSet(latestEntry(f[k])) \subseteq ToSet(f[k])
                      /\ ToSet(f[k]) \subseteq Row
                      /\ \A r \in ToSet(f[k]) : \E x \in ToSet(latestEntry(f[k])) : r.at <= x.at
    OBVIOUS
  <2> DEFINE s == f[k]
  <2>0. s \in Seq(Row)
    BY <1>1
  <2> HIDE DEF s
  <2>1. ToSet(s) \subseteq Row
    BY <2>0, RowsAdd
  <2>2. /\ ToSet(latestEntry(s)) \subseteq ToSet(s)
        /\ \A r \in ToSet(s) : \E x \in ToSet(latestEntry(s)) : r.at <= x.at
    <3>1. CASE s = <<>>
      BY <2>0, <3>1, LatestRow, RowsOf
    <3>2. CASE s # <<>>
      BY <2>0, <3>2, LatestRow, RowsOf
    <3> QED
      BY <3>1, <3>2
  <2> QED
    BY <2>1, <2>2 DEF s
<1>8. ToSet(g[K]) = ToSet(latestEntry(f[K])) \cup {b}
  BY <1>1, <1>2, <1>3, <1>5, RowsAdd
<1>9. \A k \in Kinds : \A r \in ToSet(g[k]) : r \in ToSet(f[k]) \/ (k = K /\ r.at = at[w])
  BY <1>1, <1>2, <1>5, <1>7, <1>8
<1>10. \A k \in Kinds : \A r \in ToSet(f[k]) : \E x \in ToSet(g[k]) : r.at <= x.at
  BY <1>5, <1>7, <1>8
<1>11. \E x \in ToSet(g[K]) : at[w] <= x.at
  BY <1>2, <1>8
<1>12. \A k \in Kinds \ {K} : latestEntry(g[k]) = latestEntry(f[k])
  BY <1>1, <1>5, LatestOfNewer
<1>13. ASSUME \A r \in ToSet(f[K]) : r.at < at[w] PROVE latestEntry(g[K]) = <<b>>
  <2>1. \A r \in ToSet(latestEntry(f[K])) : r.at < b.at
    BY <1>1, <1>2, <1>7, <1>13
  <2> QED
    BY <1>1, <1>2, <1>3, <1>5, <2>1, LatestOfNewer
<1> QED
  BY <1>6, <1>9, <1>10, <1>11, <1>12, <1>13 DEF Recorded, g, K, b

\* So does the fallback.
LEMMA MergeRecords ==
  ASSUME NEW w, Ready(w), NEW f \in Files
  PROVE  Recorded(f, mergeAfterRace(w, f), w)
<1> DEFINE K == KindOf(w)
           g == mergeAfterRace(w, f)
           b == bumpLensRound(w, f[K])
           h == Append(f[K], b)
<1>1. K \in Kinds /\ f \in [Kinds -> Seq(Row)]
  BY DEF KindOf, Kinds, Files
<1>2. b \in Row /\ b.at = at[w] /\ at[w] \in Nat
  BY <1>1, BumpRow DEF Ready
<1>3. g = [k \in Kinds |-> latestEntry(IF k = K THEN h ELSE f[k])]
  BY <1>1 DEF mergeAfterRace, With, dedupeLatest
<1>4. /\ h \in Seq(Row) /\ h # <<>>
      /\ ToSet(h) = ToSet(f[K]) \cup {b} /\ ToSet(f[K]) \subseteq Row
  BY <1>1, <1>2, RowsOf, RowsAdd
<1>5. (\A r \in ToSet(f[K]) : r.at < b.at) => latestEntry(h) = <<b>>
  BY <1>1, <1>2, LatestOfNewer
<1> HIDE DEF g, K, b, h
<1>6. g[K] = latestEntry(h) /\ \A k \in Kinds \ {K} : g[k] = latestEntry(f[k])
  BY <1>1, <1>3
<1>7. g \in Files
  BY <1>1, <1>3, <1>4, LatestRow DEF Files
<1>8. PICK x \in ToSet(h) : latestEntry(h) = <<x>> /\ \A r \in ToSet(h) : r.at <= x.at
  BY <1>4, LatestRow
<1>9. ToSet(g[K]) = {x}
  BY <1>6, <1>8, RowsOf
<1>10. ASSUME NEW k \in Kinds \ {K}
       PROVE  /\ ToSet(g[k]) \subseteq ToSet(f[k])
              /\ \A r \in ToSet(f[k]) : \E y \in ToSet(g[k]) : r.at <= y.at
  <2> DEFINE s == f[k]
  <2>0. s \in Seq(Row) /\ g[k] = latestEntry(s)
    BY <1>1, <1>6
  <2> HIDE DEF s
  <2>1. CASE s = <<>>
    BY <2>0, <2>1, LatestRow, RowsOf DEF s
  <2>2. CASE s # <<>>
    BY <2>0, <2>2, LatestRow, RowsOf DEF s
  <2> QED
    BY <2>1, <2>2
<1>11. \A k \in Kinds : \A r \in ToSet(g[k]) : r \in ToSet(f[k]) \/ (k = K /\ r.at = at[w])
  BY <1>2, <1>4, <1>8, <1>9, <1>10
<1>12. \A k \in Kinds : \A r \in ToSet(f[k]) : \E y \in ToSet(g[k]) : r.at <= y.at
  BY <1>4, <1>8, <1>9, <1>10
<1>13. \E y \in ToSet(g[K]) : at[w] <= y.at
  BY <1>2, <1>4, <1>8, <1>9
<1>14. \A k \in Kinds \ {K} : latestEntry(g[k]) = latestEntry(f[k])
  BY <1>1, <1>6, LatestOfNewer
<1>15. ASSUME \A r \in ToSet(f[K]) : r.at < at[w] PROVE latestEntry(g[K]) = <<b>>
  BY <1>2, <1>4, <1>5, <1>6, <1>15, LatestOfNewer
<1> QED
  BY <1>7, <1>11, <1>12, <1>13, <1>14, <1>15 DEF Recorded, g, K, b

-----------------------------------------------------------------------------
(* What the rows say: the inductive invariant, in named parts *)

RowsTyped ==
  /\ work \in [Writers -> Works] /\ at \in [Writers -> Nat] /\ clock \in Nat
  /\ copied \in [Writers -> Seq(Row)]
  /\ ledger \in [Kinds -> Seq(Row)] /\ tmp \in [Writers -> [Kinds -> Seq(Row)]]
  /\ wrote \in SUBSET Writers /\ IsFiniteSet(wrote)

\* A call that is on its way has not recorded yet, has a time of its own, and a carry the row
\* it repeats.
Underway == Waiting \cup {"publish"} \cup Inside

OneTimeEach ==
  /\ \A w \in Writers : /\ at[w] <= clock
                        /\ pc[w] \in Underway => w \notin wrote /\ at[w] > 0
                        /\ pc[w] \in Underway /\ work[w] = "carry" => copied[w] # <<>>
                        /\ pc[w] = "idle" => w \notin wrote
  /\ \A v, w \in Writers : at[v] = at[w] /\ at[v] > 0 => v = w

\* With every writer locked and unrobbed and every read whole, a writer is about to rename in
\* what it would still make of the ledger as it is, and a carry finds rows to repeat; and the
\* rows are those of the recorded reviews, none of which is newer than all rows.
InTurn == slips \subseteq {"overtaken"}

WritersAreCurrent ==
  InTurn => \A w \in Writers :
    /\ pc[w] \in Inside => w \in locked
    /\ pc[w] = "rename" => tmp[w] = Appended(w, ledger)
    /\ pc[w] = "again" => tmp[w] = mergeAfterRace(w, ledger)
    /\ pc[w] \in Underway /\ work[w] = "carry" => ledger["lens"] # <<>>

RowsAreReviews ==
  InTurn => /\ \A k \in Kinds : \A r \in ToSet(ledger[k]) :
                 \E w \in wrote : KindOf(w) = k /\ r.at = at[w]
            /\ \A w \in wrote : \E r \in ToSet(ledger[KindOf(w)]) : at[w] <= r.at

LedgerIInv == /\ IInv /\ RowsTyped /\ OneTimeEach /\ WritersAreCurrent /\ RowsAreReviews
              /\ RoundCountsReviews

\* A call on its way knows what it records.
LEMMA UnderwayReady ==
  ASSUME RowsTyped, OneTimeEach, NEW w \in Writers, pc[w] \in Underway
  PROVE  Ready(w)
BY DEF RowsTyped, OneTimeEach, Ready

\* Initially there is no row, or that of the first call.
LEMMA InitLedger == Init => LedgerIInv
<1> SUFFICES ASSUME Init PROVE LedgerIInv
  OBVIOUS
<1>0. /\ work \in [Writers -> Works] /\ work[First] = "completed" /\ First \in Writers
      /\ at = [w \in Writers |-> 0] /\ copied = [w \in Writers |-> <<>>] /\ clock = 0
      /\ pc = [w \in Writers |-> IF w = First THEN "dead" ELSE "idle"]
      /\ tmp = [w \in Writers |-> Empty] /\ slips = {}
  BY LedgerAssumption DEF Init
<1> DEFINE one == [at |-> 0, round |-> 1, streak |-> 0]
<1>1. \/ wrote = {} /\ ledger = Empty
      \/ wrote = {First} /\ ledger = [Empty EXCEPT !["lens"] = <<one>>]
  BY DEF Init
<1>2. one \in Row /\ one.at = 0 /\ one.round = 1
  BY DEF Row
<1> HIDE DEF one
<1>3. Empty \in Files /\ \A k \in Kinds : Empty[k] = <<>> /\ ToSet(Empty[k]) = {}
  BY RowsOf DEF Empty, Files
<1>4. KindOf(First) = "lens" /\ "lens" \in Kinds
  BY <1>0 DEF KindOf, Kinds
<1>5. /\ ledger \in Files /\ wrote \in SUBSET {First} /\ IsFiniteSet(wrote)
      /\ \A k \in Kinds : \A r \in ToSet(ledger[k]) : wrote = {First} /\ k = "lens" /\ r = one
      /\ wrote # {} => one \in ToSet(ledger["lens"]) /\ ledger["lens"] = <<one>>
  <2>1. CASE wrote = {} /\ ledger = Empty
    BY <1>3, <2>1, FS_EmptySet
  <2>2. CASE wrote = {First} /\ ledger = [Empty EXCEPT !["lens"] = <<one>>]
    <3>1. /\ ledger["lens"] = <<one>> /\ ToSet(<<one>>) = {one} /\ <<one>> \in Seq(Row)
          /\ \A k \in Kinds \ {"lens"} : ledger[k] = Empty[k]
      BY <1>2, <1>3, <1>4, <2>2, RowsOf DEF Files
    <3>2. ledger \in Files
      BY <1>3, <1>4, <2>2, <3>1 DEF Files
    <3>3. IsFiniteSet({First})
      BY FS_Singleton
    <3> QED
      BY <1>3, <2>2, <3>1, <3>2, <3>3
  <2> QED
    BY <1>1, <2>1, <2>2
<1>6. RowsTyped
  BY <1>0, <1>3, <1>5, RowsOf DEF RowsTyped, Files
<1>7. OneTimeEach
  BY <1>0, <1>5 DEF OneTimeEach, Underway, Waiting, Inside
<1>8. WritersAreCurrent
  BY <1>0 DEF WritersAreCurrent, Underway, Waiting, Inside
<1>9. RowsAreReviews
  <2>1. \A k \in Kinds : \A r \in ToSet(ledger[k]) : \E w \in wrote : KindOf(w) = k /\ r.at = at[w]
    BY <1>0, <1>2, <1>4, <1>5
  <2>2. ASSUME NEW w \in wrote PROVE \E r \in ToSet(ledger[KindOf(w)]) : at[w] <= r.at
    <3>1. w = First /\ one \in ToSet(ledger["lens"]) /\ at[w] = 0
      BY <1>0, <1>5
    <3> QED
      BY <1>2, <1>4, <3>1
  <2> QED
    BY <2>1, <2>2 DEF RowsAreReviews
<1>10. RoundCountsReviews
  <2>1. CASE wrote = {}
    <3>1. ledger["lens"] = <<>>
      BY <1>1, <1>3, <1>4, <2>1
    <3> QED
      BY <3>1, RowsOf, LatestRow DEF RoundCountsReviews
  <2>2. CASE wrote # {}
    <3>1. latestEntry(ledger["lens"]) = <<one>> /\ ToSet(<<one>>) = {one}
      BY <1>2, <1>5, <2>2, LatestOfNewer, RowsOf
    <3>2. {w \in wrote : work[w] = "completed"} = {First}
      BY <1>0, <1>5, <2>2
    <3>3. Cardinality({First}) = 1
      BY FS_Singleton
    <3>4. \A r \in ToSet(latestEntry(ledger["lens"])) : r.round \in 1..(1 + 1)
      BY <1>2, <3>1
    <3> QED
      BY <3>2, <3>3, <3>4 DEF RoundCountsReviews
  <2> QED
    BY <2>1, <2>2
<1> QED
  BY <1>6, <1>7, <1>8, <1>9, <1>10, InitIInv DEF LedgerIInv

\* What a call would make of the ledger depends on what it knows and on the ledger alone.
LEMMA SameOffer ==
  ASSUME NEW w \in Writers, work' = work, at'[w] = at[w], copied'[w] = copied[w], ledger' = ledger
  PROVE  /\ Appended(w, ledger)' = Appended(w, ledger)
         /\ mergeAfterRace(w, ledger)' = mergeAfterRace(w, ledger)
<1>1. \A s : bumpLensRound(w, s)' = bumpLensRound(w, s)
  BY DEF bumpLensRound
<1>2. KindOf(w)' = KindOf(w)
  BY DEF KindOf
<1>3. \A f, g : With(w, f, g)' = With(w, f, g)
  BY <1>1, <1>2 DEF With
<1> QED
  BY <1>3 DEF Appended, mergeAfterRace

\* Rows, reviews and rounds stay while nothing is recorded.
LEMMA NothingRecorded ==
  ASSUME RowsTyped, RowsAreReviews, RoundCountsReviews, UNCHANGED <<work, ledger, wrote>>,
         slips \subseteq slips', \A w \in wrote : at'[w] = at[w]
  PROVE  RowsAreReviews' /\ RoundCountsReviews'
<1>1. (InTurn' => InTurn) /\ (slips' = {} => slips = {})
  BY DEF InTurn
<1>2. \A w : KindOf(w)' = KindOf(w)
  BY DEF KindOf
<1>3. RowsAreReviews'
  BY <1>1, <1>2 DEF RowsAreReviews, RowsTyped
<1>4. RoundCountsReviews'
  BY <1>1 DEF RoundCountsReviews
<1> QED
  BY <1>3, <1>4

\* Steps of a call that leave the rows alone.
LEMMA Walks ==
  ASSUME LedgerIInv, IInv', NEW w \in Writers, NEW from \in PCs, NEW to \in PCs,
         Goto(w, from, to), UNCHANGED rows, slips \subseteq slips', locked \subseteq locked',
         to \in Inside => w \in locked' \/ ~InTurn',
         to \notin {"rename", "again", "idle"}, to \in Underway => from \in Underway
  PROVE  LedgerIInv'
<1>0. /\ pc' \in [Writers -> PCs] /\ pc[w] = from /\ pc'[w] = to
      /\ \A v \in Writers \ {w} : pc'[v] = pc[v]
  BY DEF LedgerIInv, IInv, Typed, Goto
<1>1. RowsTyped'
  BY DEF LedgerIInv, RowsTyped, rows
<1>2. OneTimeEach'
  BY <1>0 DEF LedgerIInv, OneTimeEach, rows
<1>3. WritersAreCurrent'
  <2> SUFFICES ASSUME InTurn', NEW v \in Writers
               PROVE  /\ pc'[v] \in Inside => v \in locked'
                      /\ pc'[v] = "rename" => tmp'[v] = Appended(v, ledger)'
                      /\ pc'[v] = "again" => tmp'[v] = mergeAfterRace(v, ledger)'
                      /\ pc'[v] \in Underway /\ work'[v] = "carry" => ledger'["lens"] # <<>>
    BY DEF WritersAreCurrent
  <2>1. InTurn
    BY DEF InTurn
  <2>2. /\ Appended(v, ledger)' = Appended(v, ledger)
        /\ mergeAfterRace(v, ledger)' = mergeAfterRace(v, ledger)
    BY SameOffer DEF rows
  <2> QED
    BY <1>0, <2>1, <2>2 DEF LedgerIInv, WritersAreCurrent, rows
<1>4. RowsAreReviews' /\ RoundCountsReviews'
  BY NothingRecorded DEF LedgerIInv, rows
<1> QED
  BY <1>1, <1>2, <1>3, <1>4 DEF LedgerIInv

\* A call begins with a time of its own.
LEMMA Begins ==
  ASSUME LedgerIInv, IInv', NEW w \in Writers, Start(w)
  PROVE  LedgerIInv'
<1>0. /\ pc' \in [Writers -> PCs] /\ pc[w] = "idle" /\ pc'[w] = "create" /\ w \notin wrote
      /\ \A v \in Writers \ {w} : pc'[v] = pc[v]
      /\ UNCHANGED <<work, lock, locked, late, ledger, tmp, wrote, slips>>
      /\ clock \in Nat /\ clock' = clock + 1 /\ at' = [at EXCEPT ![w] = clock + 1]
      /\ at \in [Writers -> Nat] /\ ledger["lens"] \in Seq(Row)
  BY DEF LedgerIInv, IInv, Typed, Goto, Start, OneTimeEach, RowsTyped, Kinds
<1> DEFINE c == IF work[w] = "carry" THEN latestEntry(ledger["lens"]) ELSE <<>>
<1>1. /\ c \in Seq(Row)
      /\ work[w] = "carry" => ledger["lens"] # <<>> /\ c # <<>>
  <2>1. work[w] = "carry" => ledger["lens"] # <<>>
    BY DEF Start
  <2>2. latestEntry(ledger["lens"]) \in Seq(Row) /\ <<>> \in Seq(Row)
    BY <1>0, LatestRow, RowsOf
  <2>3. ledger["lens"] # <<>> => latestEntry(ledger["lens"]) # <<>>
    <3> SUFFICES ASSUME ledger["lens"] # <<>> PROVE latestEntry(ledger["lens"]) # <<>>
      OBVIOUS
    <3>1. PICK r \in ToSet(ledger["lens"]) : latestEntry(ledger["lens"]) = <<r>>
      BY <1>0, LatestRow
    <3> QED
      BY <3>1
  <2> QED
    BY <2>1, <2>2, <2>3
<1>2. copied' = [copied EXCEPT ![w] = c] /\ copied \in [Writers -> Seq(Row)]
  BY DEF Start, LedgerIInv, RowsTyped
<1> HIDE DEF c
<1>3. /\ copied' \in [Writers -> Seq(Row)] /\ copied'[w] = c
      /\ \A v \in Writers \ {w} : copied'[v] = copied[v] /\ at'[v] = at[v]
      /\ at' \in [Writers -> Nat] /\ at'[w] = clock + 1
  BY <1>0, <1>1, <1>2
<1>4. RowsTyped'
  BY <1>0, <1>3 DEF LedgerIInv, RowsTyped
<1>5. OneTimeEach'
  <2>1. \A v \in Writers \ {w} : at'[v] <= clock /\ at'[v] \in Nat
    BY <1>0, <1>3 DEF LedgerIInv, OneTimeEach
  <2>2. \A u, v \in Writers : at'[u] = at'[v] /\ at'[u] > 0 => u = v
    BY <1>0, <1>3, <2>1 DEF LedgerIInv, OneTimeEach
  <2>3. ASSUME NEW v \in Writers
        PROVE  /\ at'[v] <= clock'
               /\ pc'[v] \in Underway => v \notin wrote' /\ at'[v] > 0
               /\ pc'[v] \in Underway /\ work'[v] = "carry" => copied'[v] # <<>>
               /\ pc'[v] = "idle" => v \notin wrote'
    <3>1. CASE v = w
      BY <1>0, <1>1, <1>3, <3>1
    <3>2. CASE v # w
      <4>1. at'[v] <= clock' /\ at'[v] = at[v] /\ copied'[v] = copied[v] /\ pc'[v] = pc[v]
        BY <1>0, <1>3, <2>1, <3>2
      <4>2. /\ pc[v] \in Underway => v \notin wrote /\ at[v] > 0
            /\ pc[v] \in Underway /\ work[v] = "carry" => copied[v] # <<>>
            /\ pc[v] = "idle" => v \notin wrote
        BY DEF LedgerIInv, OneTimeEach
      <4> QED
        BY <1>0, <4>1, <4>2
    <3> QED
      BY <3>1, <3>2
  <2> QED
    BY <2>2, <2>3 DEF OneTimeEach
<1>6. WritersAreCurrent'
  <2> SUFFICES ASSUME InTurn', NEW v \in Writers
               PROVE  /\ pc'[v] \in Inside => v \in locked'
                      /\ pc'[v] = "rename" => tmp'[v] = Appended(v, ledger)'
                      /\ pc'[v] = "again" => tmp'[v] = mergeAfterRace(v, ledger)'
                      /\ pc'[v] \in Underway /\ work'[v] = "carry" => ledger'["lens"] # <<>>
    BY DEF WritersAreCurrent
  <2>1. CASE v = w
    BY <1>0, <1>1, <2>1 DEF Inside
  <2>2. CASE v # w
    <3>1. /\ Appended(v, ledger)' = Appended(v, ledger)
          /\ mergeAfterRace(v, ledger)' = mergeAfterRace(v, ledger)
      BY <1>0, <1>3, <2>2, SameOffer
    <3> QED
      BY <1>0, <2>2, <3>1 DEF LedgerIInv, WritersAreCurrent, InTurn
  <2> QED
    BY <2>1, <2>2
<1>7. RowsAreReviews' /\ RoundCountsReviews'
  BY <1>0, <1>3, NothingRecorded DEF LedgerIInv, RowsTyped
<1> QED
  BY <1>4, <1>5, <1>6, <1>7 DEF LedgerIInv

\* A read makes the file to rename in.
LEMMA Reads ==
  ASSUME LedgerIInv, IInv', NEW w \in Writers,
         Read(w) \/ ReadFails(w) \/ Reread(w) \/ RereadFails(w)
  PROVE  LedgerIInv'
<1> DEFINE f == tmp'[w]
<1>0. /\ pc' \in [Writers -> PCs] /\ pc[w] \in Inside /\ pc'[w] \in Inside
      /\ \A v \in Writers \ {w} : pc'[v] = pc[v] /\ tmp'[v] = tmp[v]
      /\ UNCHANGED <<work, at, copied, lock, locked, late, ledger, clock, wrote>>
      /\ slips \subseteq slips' /\ ledger \in Files /\ tmp \in [Writers -> Files]
      /\ InTurn' => (Read(w) /\ pc'[w] = "rename") \/ (Reread(w) /\ pc'[w] = "again")
  <2>1. ledger \in Files /\ tmp \in [Writers -> Files] /\ pc \in [Writers -> PCs]
    BY DEF LedgerIInv, RowsTyped, Files, IInv, Typed
  <2>2. CASE Read(w)
    BY <2>1, <2>2 DEF Read, Goto, PCs, Inside
  <2>3. CASE ReadFails(w)
    BY <2>1, <2>3 DEF ReadFails, Goto, PCs, Inside, InTurn
  <2>4. CASE Reread(w)
    BY <2>1, <2>4 DEF Reread, Goto, PCs, Inside
  <2>5. CASE RereadFails(w)
    BY <2>1, <2>5 DEF RereadFails, Goto, PCs, Inside, InTurn
  <2> QED
    BY <2>2, <2>3, <2>4, <2>5
<1>1. Ready(w)
  BY <1>0, UnderwayReady DEF LedgerIInv, Underway
<1>2. f \in Files /\ tmp' = [tmp EXCEPT ![w] = f]
  <2>0. Empty \in Files
    BY RowsOf DEF Empty, Files
  <2>1. /\ Appended(w, ledger) \in Files /\ mergeAfterRace(w, ledger) \in Files
        /\ Appended(w, Empty) \in Files /\ mergeAfterRace(w, Empty) \in Files
    BY <1>0, <1>1, <2>0, AppendedRecords, MergeRecords DEF Recorded
  <2> QED
    BY <1>0, <2>1 DEF Read, ReadFails, Reread, RereadFails
<1>3. /\ pc'[w] = "rename" /\ InTurn' => f = Appended(w, ledger)
      /\ pc'[w] = "again" /\ InTurn' => f = mergeAfterRace(w, ledger)
  BY <1>0 DEF Read, Reread
<1> HIDE DEF f
<1>4. RowsTyped'
  BY <1>0, <1>2 DEF LedgerIInv, RowsTyped, Files
<1>5. OneTimeEach'
  BY <1>0 DEF LedgerIInv, OneTimeEach, Underway, Inside
<1>6. WritersAreCurrent'
  <2> SUFFICES ASSUME InTurn', NEW v \in Writers
               PROVE  /\ pc'[v] \in Inside => v \in locked'
                      /\ pc'[v] = "rename" => tmp'[v] = Appended(v, ledger)'
                      /\ pc'[v] = "again" => tmp'[v] = mergeAfterRace(v, ledger)'
                      /\ pc'[v] \in Underway /\ work'[v] = "carry" => ledger'["lens"] # <<>>
    BY DEF WritersAreCurrent
  <2>1. InTurn
    BY <1>0 DEF InTurn
  <2>2. /\ Appended(v, ledger)' = Appended(v, ledger)
        /\ mergeAfterRace(v, ledger)' = mergeAfterRace(v, ledger)
    BY <1>0, SameOffer
  <2>3. CASE v = w
    BY <1>0, <1>3, <2>1, <2>2, <2>3 DEF LedgerIInv, WritersAreCurrent, Underway, f
  <2>4. CASE v # w
    BY <1>0, <2>1, <2>2, <2>4 DEF LedgerIInv, WritersAreCurrent
  <2> QED
    BY <2>3, <2>4
<1>7. RowsAreReviews' /\ RoundCountsReviews'
  BY <1>0, NothingRecorded DEF LedgerIInv
<1> QED
  BY <1>4, <1>5, <1>6, <1>7 DEF LedgerIInv

\* A call that is over forgets what it knew.
LEMMA Leaves ==
  ASSUME LedgerIInv, IInv', NEW w \in Writers,
         \/ WriteFails(w) \/ ReleaseNothing(w) \/ Unlink(w) \/ Crash(w)
  PROVE  LedgerIInv'
<1>0. /\ pc' \in [Writers -> PCs] /\ pc'[w] \in {"release", "done", "dead"}
      /\ \A v \in Writers \ {w} : pc'[v] = pc[v]
      /\ UNCHANGED <<work, ledger, clock, wrote>> /\ slips \subseteq slips'
      /\ locked \ {w} \subseteq locked'
      /\ copied' \in {copied, [copied EXCEPT ![w] = <<>>]}
      /\ tmp' = [tmp EXCEPT ![w] = Empty]
      /\ at' \in {at, IF w \in wrote THEN at ELSE [at EXCEPT ![w] = 0]}
  <2>1. pc \in [Writers -> PCs]
    BY DEF LedgerIInv, IInv, Typed
  <2>2. CASE WriteFails(w)
    BY <2>1, <2>2 DEF WriteFails, Goto, PCs
  <2>3. CASE ReleaseNothing(w)
    BY <2>1, <2>3 DEF ReleaseNothing, Forget, Goto, PCs
  <2>4. CASE Unlink(w)
    BY <2>1, <2>4 DEF Unlink, Unlinked, Forget, Goto, PCs
  <2>5. CASE Crash(w)
    BY <2>1, <2>5 DEF Crash, Forget, PCs
  <2> QED
    BY <2>2, <2>3, <2>4, <2>5
<1>1. /\ at \in [Writers -> Nat] /\ at' \in [Writers -> Nat]
      /\ at'[w] = at[w] \/ (at'[w] = 0 /\ w \notin wrote)
      /\ copied' \in [Writers -> Seq(Row)] /\ tmp' \in [Writers -> Files]
      /\ \A v \in Writers \ {w} : /\ at'[v] = at[v] /\ copied'[v] = copied[v]
                                  /\ tmp'[v] = tmp[v]
  <2>1. /\ at \in [Writers -> Nat] /\ copied \in [Writers -> Seq(Row)]
        /\ tmp \in [Writers -> Files] /\ Empty \in Files /\ <<>> \in Seq(Row)
    BY RowsOf DEF LedgerIInv, RowsTyped, Files, Empty
  <2>2. /\ at' \in [Writers -> Nat] /\ (at'[w] = at[w] \/ (at'[w] = 0 /\ w \notin wrote))
        /\ \A v \in Writers \ {w} : at'[v] = at[v]
    <3>1. CASE at' = at
      BY <2>1, <3>1
    <3>2. CASE w \notin wrote /\ at' = [at EXCEPT ![w] = 0]
      BY <2>1, <3>2
    <3> QED
      BY <1>0, <3>1, <3>2
  <2>3. /\ copied' \in [Writers -> Seq(Row)] /\ \A v \in Writers \ {w} : copied'[v] = copied[v]
    BY <1>0, <2>1
  <2>4. /\ tmp' \in [Writers -> Files] /\ \A v \in Writers \ {w} : tmp'[v] = tmp[v]
    BY <1>0, <2>1
  <2> QED
    BY <2>1, <2>2, <2>3, <2>4
<1>2. RowsTyped'
  BY <1>0, <1>1 DEF LedgerIInv, RowsTyped, Files
<1>3. OneTimeEach'
  <2>1. pc'[w] \notin Underway /\ pc'[w] # "idle"
    BY <1>0 DEF Underway, Waiting, Inside
  <2>2. clock \in Nat /\ clock' = clock
    BY <1>0 DEF LedgerIInv, RowsTyped
  <2>3. \A v \in Writers : at[v] \in Nat /\ at[v] <= clock
    BY <1>1 DEF LedgerIInv, OneTimeEach
  <2>4. \A u, v \in Writers : at'[u] = at'[v] /\ at'[u] > 0 => u = v
    BY <1>1, <2>3 DEF LedgerIInv, OneTimeEach
  <2>5. ASSUME NEW v \in Writers
        PROVE  /\ at'[v] <= clock'
               /\ pc'[v] \in Underway => v \notin wrote' /\ at'[v] > 0
               /\ pc'[v] \in Underway /\ work'[v] = "carry" => copied'[v] # <<>>
               /\ pc'[v] = "idle" => v \notin wrote'
    <3>1. at'[v] <= clock'
      <4>1. at'[v] = at[v] \/ at'[v] = 0
        BY <1>1
      <4> QED
        BY <2>2, <2>3, <4>1
    <3>2. CASE v = w
      BY <2>1, <3>1, <3>2
    <3>3. CASE v # w
      <4>1. at'[v] = at[v] /\ copied'[v] = copied[v] /\ pc'[v] = pc[v]
        BY <1>0, <1>1, <3>3
      <4>2. /\ pc[v] \in Underway => v \notin wrote /\ at[v] > 0
            /\ pc[v] \in Underway /\ work[v] = "carry" => copied[v] # <<>>
            /\ pc[v] = "idle" => v \notin wrote
        BY DEF LedgerIInv, OneTimeEach
      <4> QED
        BY <1>0, <3>1, <4>1, <4>2
    <3> QED
      BY <3>2, <3>3
  <2> QED
    BY <2>4, <2>5 DEF OneTimeEach
<1>4. WritersAreCurrent'
  <2> SUFFICES ASSUME InTurn', NEW v \in Writers
               PROVE  /\ pc'[v] \in Inside => v \in locked'
                      /\ pc'[v] = "rename" => tmp'[v] = Appended(v, ledger)'
                      /\ pc'[v] = "again" => tmp'[v] = mergeAfterRace(v, ledger)'
                      /\ pc'[v] \in Underway /\ work'[v] = "carry" => ledger'["lens"] # <<>>
    BY DEF WritersAreCurrent
  <2>1. CASE v = w
    BY <1>0, <2>1 DEF Underway, Waiting, Inside
  <2>2. CASE v # w
    <3>1. /\ Appended(v, ledger)' = Appended(v, ledger)
          /\ mergeAfterRace(v, ledger)' = mergeAfterRace(v, ledger)
      BY <1>0, <1>1, <2>2, SameOffer
    <3>2. InTurn
      BY <1>0 DEF InTurn
    <3> QED
      BY <1>0, <1>1, <2>2, <3>1, <3>2 DEF LedgerIInv, WritersAreCurrent
  <2> QED
    BY <2>1, <2>2
<1>5. RowsAreReviews' /\ RoundCountsReviews'
  <2>1. \A v \in wrote : at'[v] = at[v]
    BY <1>1 DEF LedgerIInv, RowsTyped
  <2> QED
    BY <1>0, <2>1, NothingRecorded DEF LedgerIInv
<1> QED
  BY <1>2, <1>3, <1>4, <1>5 DEF LedgerIInv

\* Whoever is about to rename is the only one to be, and its file is the ledger with its row.
LEMMA OneRecords ==
  ASSUME LedgerIInv, InTurn, NEW w \in Writers, pc[w] \in {"rename", "again"}
  PROVE  /\ Recorded(ledger, tmp[w], w)
         /\ \A v \in Writers \ {w} : pc[v] \notin Inside
<1>1. Ready(w) /\ ledger \in Files
  BY UnderwayReady DEF LedgerIInv, RowsTyped, Files, Underway, Inside
<1>2. tmp[w] = Appended(w, ledger) \/ tmp[w] = mergeAfterRace(w, ledger)
  BY DEF LedgerIInv, WritersAreCurrent
<1>3. Recorded(ledger, tmp[w], w)
  BY <1>1, <1>2, AppendedRecords, MergeRecords
<1>4. ASSUME NEW v \in Writers, pc[v] \in Inside PROVE v = w
  <2>1. v \in locked /\ w \in locked /\ pc[w] \in Inside
    BY <1>4 DEF LedgerIInv, WritersAreCurrent, Inside
  <2>2. lock.by = v /\ lock.by = w
    BY <1>4, <2>1 DEF LedgerIInv, IInv, HoldersStandThere, InTurn
  <2> QED
    BY <2>2
<1> QED
  BY <1>3, <1>4

\* A call that is not overtaken is later than all rows of its kind, and a carry repeats the
\* newest of them.
LEMMA NotOvertaken ==
  ASSUME LedgerIInv, InTurn, NEW w \in Writers, pc[w] \in Underway, ~Overtaken(w)
  PROVE  /\ \A r \in ToSet(ledger[KindOf(w)]) : r.at < at[w]
         /\ work[w] = "carry" => copied[w] = latestEntry(ledger["lens"]) /\ ledger["lens"] # <<>>
<1> DEFINE s == ledger[KindOf(w)]
<1>1. /\ KindOf(w) \in Kinds /\ s \in Seq(Row) /\ ToSet(s) \subseteq Row
      /\ at[w] \in Nat /\ at[w] > 0 /\ w \notin wrote /\ wrote \subseteq Writers
  <2>1. KindOf(w) \in Kinds
    BY DEF KindOf, Kinds
  <2>2. s \in Seq(Row)
    BY <2>1 DEF LedgerIInv, RowsTyped
  <2> QED
    BY <2>1, <2>2, RowsAdd DEF LedgerIInv, RowsTyped, OneTimeEach
<1>2. ASSUME NEW r \in ToSet(s) PROVE r.at < at[w]
  <2>0. s # <<>>
    BY <1>2, RowsOf
  <2>1. PICK x \in ToSet(s) : latestEntry(s) = <<x>> /\ \A y \in ToSet(s) : y.at <= x.at
    BY <1>1, <2>0, LatestRow
  <2>2. x \in ToSet(latestEntry(s))
    BY <2>1, RowsOf
  <2>3. ~(at[w] < x.at)
    BY <2>2 DEF Overtaken
  <2>4. PICK v \in wrote : KindOf(v) = KindOf(w) /\ x.at = at[v]
    BY <1>1, <2>1 DEF LedgerIInv, RowsAreReviews
  <2>5. at[v] # at[w]
    BY <1>1, <2>4 DEF LedgerIInv, OneTimeEach
  <2>6. r.at \in Nat /\ x.at \in Nat /\ r.at <= x.at
    BY <1>1, <2>1 DEF Row
  <2> QED
    BY <1>1, <2>3, <2>4, <2>5, <2>6
<1>3. ASSUME work[w] = "carry"
      PROVE  copied[w] = latestEntry(ledger["lens"]) /\ ledger["lens"] # <<>>
  <2>1. s = ledger["lens"] /\ s # <<>>
    BY <1>3 DEF KindOf, LedgerIInv, WritersAreCurrent
  <2>2. PICK x \in ToSet(s) : latestEntry(s) = <<x>>
    BY <1>1, <2>1, LatestRow
  <2>3. x \in ToSet(latestEntry(s))
    BY <2>2, RowsOf
  <2>4. copied[w] = <<x>>
    BY <1>3, <2>3 DEF Overtaken
  <2> QED
    BY <2>1, <2>2, <2>4
<1> QED
  BY <1>2, <1>3

\* The round of the row that a call records in turn counts the completed reviews still.
LEMMA RoundMovesOn ==
  ASSUME LedgerIInv, slips = {}, NEW w \in Writers, pc[w] \in {"rename", "again"}, ~Overtaken(w)
  PROVE  LET done == Cardinality({v \in wrote \cup {w} : work[v] = "completed"})
         IN  \A r \in ToSet(latestEntry(tmp[w]["lens"])) : r.round \in done..(done + 1)
<1> DEFINE D == {v \in wrote : work[v] = "completed"}
           E == {v \in wrote \cup {w} : work[v] = "completed"}
           s == ledger["lens"]
           t == latestEntry(tmp[w]["lens"])
           n == Cardinality(D)
<1>0. /\ InTurn /\ pc[w] \in Underway /\ s \in Seq(Row) /\ w \notin wrote
      /\ work[w] \in Works /\ work \in [Writers -> Works] /\ Recorded(ledger, tmp[w], w)
      /\ wrote \subseteq Writers /\ IsFiniteSet(wrote)
  BY OneRecords DEF InTurn, Underway, Inside, LedgerIInv, RowsTyped, OneTimeEach, Kinds
<1>1. IsFiniteSet(D) /\ n \in Nat /\ (work[w] # "completed" => E = D)
  <2>1. IsFiniteSet(D)
    BY <1>0, FS_Subset
  <2> QED
    BY <1>0, <2>1, FS_CardinalityType
<1>2. work[w] = "completed" => Cardinality(E) = n + 1
  <2> SUFFICES ASSUME work[w] = "completed" PROVE Cardinality(E) = n + 1
    OBVIOUS
  <2>1. E = D \cup {w} /\ w \notin D
    BY <1>0
  <2> HIDE DEF D, E
  <2> QED
    BY <1>1, <2>1, FS_AddElement
<1>3. \A r \in ToSet(latestEntry(s)) : r.round \in n..(n + 1)
  BY DEF LedgerIInv, RoundCountsReviews
<1>4. s = <<>> => n = 0
  <2> SUFFICES ASSUME s = <<>>, NEW v \in D PROVE FALSE
    BY FS_EmptySet
  <2>1. KindOf(v) = "lens"
    BY <1>0 DEF KindOf
  <2>2. \E r \in ToSet(ledger[KindOf(v)]) : at[v] <= r.at
    BY <1>0 DEF LedgerIInv, RowsAreReviews
  <2> QED
    BY <2>1, <2>2, RowsOf
<1>5. s # <<>> => \E r \in Row : latestEntry(s) = <<r>> /\ r.round \in n..(n + 1)
  <2> SUFFICES ASSUME s # <<>> PROVE \E r \in Row : latestEntry(s) = <<r>> /\ r.round \in n..(n + 1)
    OBVIOUS
  <2>1. PICK r \in ToSet(s) : latestEntry(s) = <<r>>
    BY <1>0, LatestRow
  <2>2. r \in Row /\ r \in ToSet(latestEntry(s))
    BY <1>0, <2>1, RowsAdd, RowsOf
  <2> QED
    BY <1>3, <2>1, <2>2
<1>6. CASE work[w] = "adversarial"
  <2>1. t = latestEntry(s) /\ E = D
    BY <1>0, <1>1, <1>6 DEF Recorded, KindOf, Kinds
  <2> HIDE DEF t, s, D, E, n
  <2>2. \A r \in ToSet(t) : r.round \in n..(n + 1)
    BY <1>3, <2>1
  <2> QED
    BY <2>1, <2>2 DEF n, t, E
<1>7. CASE work[w] # "adversarial"
  <2> DEFINE b == bumpLensRound(w, s)
  <2>0. KindOf(w) = "lens"
    BY <1>7 DEF KindOf
  <2>1. t = <<b>> /\ ToSet(t) = {b}
    <3>1. \A r \in ToSet(s) : r.at < at[w]
      BY <1>0, <2>0, NotOvertaken
    <3>2. t = <<b>>
      BY <1>0, <2>0, <3>1 DEF Recorded
    <3> QED
      BY <3>2, RowsOf
  <2>2. work[w] = "carry" => copied[w] = latestEntry(s) /\ s # <<>>
    BY <1>0, NotOvertaken
  <2>3. latestEntry(s) = <<>> <=> s = <<>>
    <3>1. s = <<>> => latestEntry(s) = <<>>
      BY <1>0, LatestRow
    <3>2. ASSUME s # <<>> PROVE latestEntry(s) # <<>>
      <4>1. PICK r : latestEntry(s) = <<r>>
        BY <1>5, <3>2
      <4> QED
        BY <4>1
    <3> QED
      BY <3>1, <3>2
  <2>4. b.round \in Cardinality(E)..(Cardinality(E) + 1)
    <3>1. CASE work[w] = "carry"
      <4>1. b.round = copied[w][1].round
        BY <3>1 DEF bumpLensRound
      <4> HIDE DEF b, s, D, E, n
      <4> QED
        BY <1>1, <1>5, <2>2, <3>1, <4>1 DEF n
    <3>2. CASE work[w] = "completed"
      <4>1. b.round = IF latestEntry(s) = <<>> THEN 1 ELSE latestEntry(s)[1].round + 1
        BY <3>2 DEF bumpLensRound
      <4> HIDE DEF b, s, D, E, n
      <4>2. CASE s = <<>>
        BY <1>2, <1>4, <2>3, <3>2, <4>1, <4>2
      <4>3. CASE s # <<>>
        <5>1. PICK r \in Row : latestEntry(s) = <<r>> /\ r.round \in n..(n + 1)
          BY <1>5, <4>3
        <5>2. b.round = r.round + 1
          BY <2>3, <4>1, <4>3, <5>1
        <5> QED
          BY <1>1, <1>2, <3>2, <5>1, <5>2
      <4> QED
        BY <4>2, <4>3
    <3>3. CASE work[w] = "incomplete"
      <4>1. b.round = IF latestEntry(s) = <<>> THEN 1 ELSE latestEntry(s)[1].round
        BY <3>3 DEF bumpLensRound
      <4> HIDE DEF b, s, D, E, n
      <4>0. Cardinality(E) = n
        BY <1>1, <3>3 DEF n
      <4>2. CASE s = <<>>
        BY <1>4, <2>3, <4>0, <4>1, <4>2
      <4>3. CASE s # <<>>
        <5>1. PICK r \in Row : latestEntry(s) = <<r>> /\ r.round \in n..(n + 1)
          BY <1>5, <4>3
        <5>2. b.round = r.round
          BY <2>3, <4>1, <4>3, <5>1
        <5> QED
          BY <4>0, <5>1, <5>2
      <4> QED
        BY <4>2, <4>3
    <3> QED
      BY <1>0, <1>7, <3>1, <3>2, <3>3 DEF Works
  <2> HIDE DEF b, t, E
  <2>5. \A r \in ToSet(t) : r.round \in Cardinality(E)..(Cardinality(E) + 1)
    BY <2>1, <2>4
  <2> QED
    BY <2>5 DEF t, E
<1> QED
  BY <1>6, <1>7

\* The rename that takes: its call has recorded its review.
LEMMA Records ==
  ASSUME LedgerIInv, IInv', NEW w \in Writers, Rename(w)
  PROVE  LedgerIInv'
<1>0. /\ pc' \in [Writers -> PCs] /\ pc[w] \in {"rename", "again"} /\ pc'[w] = "release"
      /\ \A v \in Writers \ {w} : pc'[v] = pc[v]
      /\ ledger' = tmp[w] /\ wrote' = wrote \cup {w} /\ tmp' = [tmp EXCEPT ![w] = Empty]
      /\ UNCHANGED <<work, at, copied, lock, locked, late, clock>>
      /\ (InTurn' => InTurn) /\ (slips' = {} => slips = {} /\ ~Overtaken(w))
      /\ tmp \in [Writers -> Files] /\ Empty \in Files
  BY RowsOf DEF LedgerIInv, RowsTyped, IInv, Typed, Goto, Rename, InTurn, Files, Empty, PCs
<1>1. /\ tmp' \in [Writers -> Files] /\ ledger' \in Files
      /\ \A v \in Writers \ {w} : tmp'[v] = tmp[v]
  BY <1>0
<1>2. \A v : KindOf(v)' = KindOf(v)
  BY <1>0 DEF KindOf
<1>3. RowsTyped'
  <2>1. IsFiniteSet(wrote')
    BY <1>0, FS_AddElement DEF LedgerIInv, RowsTyped
  <2> QED
    BY <1>0, <1>1, <2>1 DEF LedgerIInv, RowsTyped, Files
<1>4. OneTimeEach'
  <2>1. pc'[w] \notin Underway /\ pc'[w] # "idle"
    BY <1>0 DEF Underway, Waiting, Inside
  <2> QED
    BY <1>0, <2>1 DEF LedgerIInv, OneTimeEach
<1>5. WritersAreCurrent'
  <2> SUFFICES ASSUME InTurn', NEW v \in Writers
               PROVE  /\ pc'[v] \in Inside => v \in locked'
                      /\ pc'[v] = "rename" => tmp'[v] = Appended(v, ledger)'
                      /\ pc'[v] = "again" => tmp'[v] = mergeAfterRace(v, ledger)'
                      /\ pc'[v] \in Underway /\ work'[v] = "carry" => ledger'["lens"] # <<>>
    BY DEF WritersAreCurrent
  <2>0. InTurn
    BY <1>0
  <2>1. pc'[v] \notin Inside
    BY <1>0, <2>0, OneRecords DEF Inside
  <2>2. ASSUME pc'[v] \in Underway, work'[v] = "carry" PROVE ledger'["lens"] # <<>>
    <3>1. pc[v] \in Underway /\ work[v] = "carry"
      BY <1>0, <2>2 DEF Underway, Waiting, Inside
    <3>2. ledger["lens"] # <<>> /\ ledger["lens"] \in Seq(Row) /\ "lens" \in Kinds
      BY <2>0, <3>1 DEF LedgerIInv, WritersAreCurrent, RowsTyped, Kinds
    <3>3. ToSet(ledger["lens"]) # {}
      BY <3>2, RowsOf
    <3>4. Recorded(ledger, tmp[w], w)
      BY <1>0, <2>0, OneRecords
    <3>5. ToSet(tmp[w]["lens"]) # {}
      BY <3>2, <3>3, <3>4 DEF Recorded
    <3> QED
      BY <1>0, <3>5, RowsOf
  <2> QED
    BY <2>1, <2>2 DEF Inside
<1>6. RowsAreReviews'
  <2> SUFFICES ASSUME InTurn
               PROVE  /\ \A k \in Kinds : \A r \in ToSet(tmp[w][k]) :
                           \E v \in wrote \cup {w} : KindOf(v) = k /\ r.at = at[v]
                      /\ \A v \in wrote \cup {w} : \E r \in ToSet(tmp[w][KindOf(v)]) : at[v] <= r.at
    BY <1>0, <1>2 DEF RowsAreReviews
  <2>1. Recorded(ledger, tmp[w], w)
    BY <1>0, OneRecords
  <2>2. ASSUME NEW k \in Kinds, NEW r \in ToSet(tmp[w][k])
        PROVE  \E v \in wrote \cup {w} : KindOf(v) = k /\ r.at = at[v]
    BY <2>1 DEF Recorded, LedgerIInv, RowsAreReviews
  <2>3. ASSUME NEW v \in wrote PROVE \E r \in ToSet(tmp[w][KindOf(v)]) : at[v] <= r.at
    <3>0. KindOf(v) \in Kinds
      BY DEF KindOf, Kinds
    <3>1. PICK r \in ToSet(ledger[KindOf(v)]) : at[v] <= r.at
      BY DEF LedgerIInv, RowsAreReviews
    <3>2. PICK x \in ToSet(tmp[w][KindOf(v)]) : r.at <= x.at
      BY <2>1, <3>0 DEF Recorded
    <3>3. tmp[w][KindOf(v)] \in Seq(Row) /\ ledger[KindOf(v)] \in Seq(Row) /\ at[v] \in Nat
      BY <2>1, <3>0 DEF Recorded, Files, LedgerIInv, RowsTyped
    <3>4. r.at \in Nat /\ x.at \in Nat
      BY <3>3, RowsAdd DEF Row
    <3> QED
      BY <3>1, <3>2, <3>3, <3>4
  <2>4. \E r \in ToSet(tmp[w][KindOf(w)]) : at[w] <= r.at
    BY <2>1 DEF Recorded
  <2> QED
    BY <2>2, <2>3, <2>4
<1>7. RoundCountsReviews'
  <2> SUFFICES ASSUME slips' = {}
               PROVE  LET done == Cardinality({v \in wrote \cup {w} : work[v] = "completed"})
                      IN  \A r \in ToSet(latestEntry(tmp[w]["lens"])) : r.round \in done..(done + 1)
    BY <1>0 DEF RoundCountsReviews
  <2> QED
    BY <1>0, RoundMovesOn
<1> QED
  BY <1>3, <1>4, <1>5, <1>6, <1>7 DEF LedgerIInv

\* Steps that change the age of the lock file or the waiters past their time, or nothing.
LEMMA NothingMoves ==
  ASSUME LedgerIInv, IInv', UNCHANGED <<rows, pc, locked, slips>>
  PROVE  LedgerIInv'
<1>0. /\ UNCHANGED <<work, at, copied, ledger, tmp, clock, wrote>>
      /\ UNCHANGED <<pc, locked, slips>>
  BY DEF rows
<1>1. RowsTyped' /\ OneTimeEach'
  BY <1>0 DEF LedgerIInv, RowsTyped, OneTimeEach
<1>2. WritersAreCurrent'
  <2>1. \A v \in Writers : /\ Appended(v, ledger)' = Appended(v, ledger)
                           /\ mergeAfterRace(v, ledger)' = mergeAfterRace(v, ledger)
    BY <1>0, SameOffer
  <2>2. InTurn' => InTurn
    BY <1>0 DEF InTurn
  <2> QED
    BY <1>0, <2>1, <2>2 DEF LedgerIInv, WritersAreCurrent
<1>3. RowsAreReviews' /\ RoundCountsReviews'
  BY <1>0, NothingRecorded DEF LedgerIInv
<1> QED
  BY <1>1, <1>2, <1>3 DEF LedgerIInv

\* Every step keeps the invariant.
LEMMA StepLedger == LedgerIInv /\ [Next]_vars => LedgerIInv'
<1> SUFFICES ASSUME LedgerIInv, [Next]_vars PROVE LedgerIInv'
  OBVIOUS
<1>0. IInv'
  BY StepIInv DEF LedgerIInv
<1>1. CASE UNCHANGED vars
  <2>1. UNCHANGED <<rows, pc, locked, slips>>
    BY <1>1 DEF vars, rows
  <2> QED
    BY <1>0, <2>1, NothingMoves
<1>2. CASE Age \/ \E w \in Writers \ {First} : Deadline(w)
  <2>1. UNCHANGED <<rows, pc, locked, slips>>
    BY <1>2 DEF Age, Deadline, rows
  <2> QED
    BY <1>0, <2>1, NothingMoves
<1>3. ASSUME NEW w \in Writers, Start(w) PROVE LedgerIInv'
  BY <1>0, <1>3, Begins
<1>4. ASSUME NEW w \in Writers, Read(w) \/ ReadFails(w) \/ Reread(w) \/ RereadFails(w)
      PROVE  LedgerIInv'
  BY <1>0, <1>4, Reads
<1>5. ASSUME NEW w \in Writers, Rename(w) PROVE LedgerIInv'
  BY <1>0, <1>5, Records
<1>6. ASSUME NEW w \in Writers, WriteFails(w) \/ ReleaseNothing(w) \/ Unlink(w) \/ Crash(w)
      PROVE  LedgerIInv'
  BY <1>0, <1>6, Leaves
<1>7. ASSUME NEW w \in Writers, NEW from \in Waiting \cup {"publish"}, Degrade(w, from)
      PROVE  LedgerIInv'
  <2>1. /\ from \in PCs /\ "read" \in PCs /\ from \in Underway
        /\ Goto(w, from, "read") /\ UNCHANGED rows /\ slips \subseteq slips' /\ locked' = locked
        /\ ~InTurn'
    BY <1>7 DEF Degrade, PCs, Underway, Inside, InTurn
  <2> QED
    BY <1>0, <2>1, Walks
<1>8. ASSUME NEW w \in Writers, NEW from \in Waiting, GiveWay(w, from) PROVE LedgerIInv'
  <2>1. CASE Degrade(w, from)
    BY <1>7, <2>1
  <2>2. CASE Goto(w, from, "create") /\ UNCHANGED <<rows, lock, locked, late, slips>>
    <3>1. /\ from \in PCs /\ "create" \in PCs /\ from \in Underway /\ "create" \notin Inside
      BY DEF PCs, Underway, Waiting, Inside
    <3> QED
      BY <1>0, <2>2, <3>1, Walks
  <2> QED
    BY <1>8, <2>1, <2>2 DEF GiveWay
<1>9. ASSUME NEW w \in Writers, Vanished(w) \/ Spare(w) \/ Unavailable(w) PROVE LedgerIInv'
  BY <1>7, <1>8, <1>9 DEF Vanished, Spare, Unavailable, Waiting
<1>10. ASSUME NEW w \in Writers, Create(w) \/ Taken(w) \/ Exists(w) \/ Condemn(w) \/ Release(w)
       PROVE  LedgerIInv'
  <2>1. \E from, to \in PCs : /\ Goto(w, from, to) /\ to \notin {"rename", "again", "idle"}
                              /\ to \notin Inside /\ (to \in Underway => from \in Underway)
    BY <1>10 DEF Create, Taken, Exists, Condemn, Release, PCs, Underway, Waiting, Inside
  <2>2. UNCHANGED rows /\ slips' = slips /\ locked' = locked
    BY <1>10 DEF Create, Taken, Exists, Condemn, Release
  <2> QED
    BY <1>0, <2>1, <2>2, Walks
<1>11. ASSUME NEW w \in Writers, Sweep(w) PROVE LedgerIInv'
  <2>1. /\ "sweep" \in PCs /\ "create" \in PCs /\ "create" \notin Inside /\ "sweep" \in Underway
        /\ Goto(w, "sweep", "create") /\ UNCHANGED rows /\ slips \subseteq slips' /\ locked' = locked
    BY <1>11 DEF Sweep, Unlinked, PCs, Underway, Waiting, Inside
  <2> QED
    BY <1>0, <2>1, Walks
<1>12. ASSUME NEW w \in Writers, Publish(w) PROVE LedgerIInv'
  <2>1. /\ "publish" \in PCs /\ "read" \in PCs /\ "publish" \in Underway
        /\ Goto(w, "publish", "read") /\ UNCHANGED rows /\ slips' = slips
        /\ w \in locked' /\ locked \subseteq locked'
    BY <1>12 DEF Publish, PCs, Underway, Inside
  <2> QED
    BY <1>0, <2>1, Walks
<1>13. ASSUME NEW w \in Writers, RenameFails(w) PROVE LedgerIInv'
  <2>1. /\ "rename" \in PCs /\ "reread" \in PCs /\ "rename" \in Underway
        /\ Goto(w, "rename", "reread") /\ UNCHANGED rows /\ slips' = slips /\ locked' = locked
    BY <1>13 DEF RenameFails, PCs, Underway, Inside
  <2>2. w \in locked' \/ ~InTurn'
    BY <2>1 DEF LedgerIInv, WritersAreCurrent, Goto, Inside, InTurn
  <2> QED
    BY <1>0, <2>1, <2>2, Walks
<1>14. CASE Age \/ \E w \in Writers \ {First} : Start(w) \/ Step(w) \/ Fault(w) \/ Deadline(w)
  BY <1>2, <1>3, <1>4, <1>5, <1>6, <1>9, <1>10, <1>11, <1>12, <1>13, <1>14 DEF Step, Fault
<1> QED
  BY <1>1, <1>14 DEF Next

\* The invariant holds in every reachable state.
LEMMA LedgerInvariance == Spec => []LedgerIInv
BY InitLedger, StepLedger, PTL DEF Spec

\* A recorded review stays: no reader of the ledger finds a newest row older than it, in
\* whatever order the calls got in, as long as every writer had the lock, nobody was robbed of
\* it and every read was whole (review-ledger.ts:34-38).
THEOREM ReviewsStay == Spec => []ReviewsDoNotVanish
<1>1. LedgerIInv => ReviewsDoNotVanish
  <2> SUFFICES ASSUME LedgerIInv, InTurn, NEW w \in wrote
               PROVE  \E r \in ToSet(latestEntry(ledger[KindOf(w)])) : r.at >= at[w]
    BY DEF ReviewsDoNotVanish, InTurn
  <2> DEFINE s == ledger[KindOf(w)]
  <2>1. s \in Seq(Row) /\ ToSet(s) \subseteq Row /\ at[w] \in Nat
    <3>1. KindOf(w) \in Kinds
      BY DEF KindOf, Kinds
    <3>2. s \in Seq(Row) /\ at[w] \in Nat
      BY <3>1 DEF LedgerIInv, RowsTyped
    <3> QED
      BY <3>2, RowsAdd
  <2>2. PICK r \in ToSet(s) : at[w] <= r.at
    BY DEF LedgerIInv, RowsAreReviews
  <2>3. s # <<>>
    BY <2>2, RowsOf
  <2>4. PICK x \in ToSet(s) : latestEntry(s) = <<x>> /\ \A y \in ToSet(s) : y.at <= x.at
    BY <2>1, <2>3, LatestRow
  <2>5. x \in ToSet(latestEntry(s))
    BY <2>4, RowsOf
  <2>6. r.at \in Nat /\ x.at \in Nat /\ r.at <= x.at
    BY <2>1, <2>2, <2>4 DEF Row
  <2>7. x.at >= at[w]
    BY <2>1, <2>2, <2>6
  <2> QED
    BY <2>5, <2>7
<1> QED
  BY <1>1, LedgerInvariance, PTL

\* The round of the newest lens row counts the completed reviews, and one more at most, while
\* the calls get in in the order of their times (review-ledger-round.ts:16-44).
THEOREM RoundsCount == Spec => []RoundCountsReviews
<1>1. LedgerIInv => RoundCountsReviews
  BY DEF LedgerIInv
<1> QED
  BY <1>1, LedgerInvariance, PTL
=============================================================================
