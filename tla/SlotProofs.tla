------------------------------ MODULE SlotProofs ------------------------------
(***************************************************************************)
(* Proofs about the three bounds on child processes: SpawnSemaphore, for   *)
(* any cap and any callers; LensModelSlots, for any lenses and models and  *)
(* any two caps; HostSpawnSlots, for any cap and any processes in any pid  *)
(* namespaces, stopped any number of times.                                *)
(***************************************************************************)
EXTENDS FiniteSetTheorems, SequenceTheorems, TLAPS, HostSpawnSlots, SpawnSemaphore, LensModelSlots

-----------------------------------------------------------------------------
(* Lines: who stands in a sequence, and before whom *)

Distinct(s) == \A i, j \in DOMAIN s : s[i] = s[j] => i = j

Before(s, a, c) == \E i, j \in DOMAIN s : i < j /\ s[i] = a /\ s[j] = c

\* Who stands in a line is one of those it is a line of.
LEMMA LineMembers ==
  ASSUME NEW S, NEW s \in Seq(S)
  PROVE  /\ ToSet(s) \subseteq S
         /\ s = <<>> <=> ToSet(s) = {}
         /\ \A x : x \in ToSet(s) <=> \E i \in 1..Len(s) : s[i] = x
<1>1. DOMAIN s = 1..Len(s) /\ Len(s) \in Nat /\ \A i \in 1..Len(s) : s[i] \in S
  BY LenProperties, ElementOfSeq
<1>2. \A x : x \in ToSet(s) <=> \E i \in 1..Len(s) : s[i] = x
  BY <1>1 DEF ToSet
<1>3. ToSet(s) \subseteq S
  BY <1>1, <1>2
<1>4. s = <<>> <=> Len(s) = 0
  BY EmptySeq
<1>5. ASSUME Len(s) # 0 PROVE ToSet(s) # {}
  <2>1. 1 \in 1..Len(s)
    BY <1>1, <1>5
  <2> QED
    BY <1>2, <2>1
<1> QED
  BY <1>1, <1>2, <1>3, <1>4, <1>5

\* A line of one.
LEMMA LineOfOne ==
  ASSUME NEW x
  PROVE  /\ ToSet(<<x>>) = {x} /\ Distinct(<<x>>)
         /\ \A a, c : ~Before(<<x>>, a, c)
BY DEF ToSet, Distinct, Before

\* An empty line.
LEMMA EmptyLine ==
  ToSet(<<>>) = {} /\ Distinct(<<>>) /\ \A a, c : ~Before(<<>>, a, c)
BY DEF ToSet, Distinct, Before

\* One line behind another: who stands in it, and before whom.
LEMMA LineBehindLine ==
  ASSUME NEW S, NEW s \in Seq(S), NEW t \in Seq(S)
  PROVE  /\ ToSet(s \o t) = ToSet(s) \cup ToSet(t)
         /\ \A a, c : Before(s \o t, a, c) <=>
              \/ Before(s, a, c)
              \/ a \in ToSet(s) /\ c \in ToSet(t)
              \/ Before(t, a, c)
<1> DEFINE u == s \o t
           m == Len(s)
           n == Len(t)
<1>1. /\ u \in Seq(S) /\ Len(u) = m + n /\ m \in Nat /\ n \in Nat
      /\ DOMAIN s = 1..m /\ DOMAIN t = 1..n /\ DOMAIN u = 1..(m + n)
      /\ \A i \in 1..m : u[i] = s[i]
      /\ \A i \in 1..n : u[m + i] = t[i]
  BY ConcatProperties, LenProperties
<1>2. \A i \in 1..(m + n) : i \in 1..m \/ \E k \in 1..n : i = m + k
  <2> TAKE i \in 1..(m + n)
  <2>1. CASE i > m
    <3>1. i - m \in 1..n /\ i = m + (i - m)
      BY <1>1, <2>1
    <3> QED
      BY <3>1
  <2> QED
    BY <1>1, <2>1
<1>3. ToSet(u) = ToSet(s) \cup ToSet(t)
  <2>3. \A x : x \in ToSet(u) <=> \E i \in 1..Len(u) : u[i] = x
    <3> HIDE DEF u
    <3> QED
      BY <1>1, LineMembers
  <2>0. /\ \A x : x \in ToSet(u) <=> \E i \in 1..(m + n) : u[i] = x
        /\ \A x : x \in ToSet(s) <=> \E i \in 1..m : s[i] = x
        /\ \A x : x \in ToSet(t) <=> \E i \in 1..n : t[i] = x
    BY <1>1, <2>3, LineMembers
  <2> HIDE DEF u, m, n
  <2>1. ASSUME NEW x \in ToSet(u) PROVE x \in ToSet(s) \cup ToSet(t)
    <3>1. PICK i \in 1..(m + n) : u[i] = x
      BY <2>0, <2>1
    <3>2. CASE i \in 1..m
      BY <1>1, <2>0, <3>1, <3>2
    <3>3. CASE \E k \in 1..n : i = m + k
      <4>1. PICK k \in 1..n : i = m + k
        BY <3>3
      <4>2. t[k] = x
        BY <1>1, <3>1, <4>1
      <4> QED
        BY <2>0, <4>2
    <3> QED
      BY <1>2, <3>2, <3>3
  <2>2. ASSUME NEW x \in ToSet(s) \cup ToSet(t) PROVE x \in ToSet(u)
    <3>1. \A i \in 1..m : i \in 1..(m + n)
      BY <1>1
    <3>2. \A i \in 1..n : m + i \in 1..(m + n)
      BY <1>1
    <3> QED
      BY <1>1, <2>0, <2>2, <3>1, <3>2
  <2> QED
    BY <2>1, <2>2
<1>4. ASSUME NEW a, NEW c, Before(u, a, c)
      PROVE  Before(s, a, c) \/ (a \in ToSet(s) /\ c \in ToSet(t)) \/ Before(t, a, c)
  <2> HIDE DEF u, m, n
  <2>1. PICK i, j \in 1..(m + n) : i < j /\ u[i] = a /\ u[j] = c
    BY <1>1, <1>4 DEF Before
  <2>2. CASE i \in 1..m /\ j \in 1..m
    BY <1>1, <2>1, <2>2 DEF Before
  <2>3. CASE i \in 1..m /\ j \notin 1..m
    BY <1>1, <1>2, <2>1, <2>3 DEF ToSet
  <2>4. CASE i \notin 1..m
    <3>1. PICK k \in 1..n : i = m + k
      BY <1>2, <2>4
    <3>2. j \notin 1..m
      BY <1>1, <2>1, <2>4
    <3>3. PICK l \in 1..n : j = m + l
      BY <1>2, <3>2
    <3>4. k < l /\ t[k] = a /\ t[l] = c
      BY <1>1, <2>1, <3>1, <3>3
    <3> QED
      BY <1>1, <3>4 DEF Before
  <2> QED
    BY <2>2, <2>3, <2>4
<1>5. ASSUME NEW a, NEW c, Before(s, a, c) \/ (a \in ToSet(s) /\ c \in ToSet(t)) \/ Before(t, a, c)
      PROVE  Before(u, a, c)
  <2> HIDE DEF u, m, n
  <2>1. CASE Before(s, a, c)
    BY <1>1, <2>1 DEF Before
  <2>2. CASE a \in ToSet(s) /\ c \in ToSet(t)
    <3>1. PICK i \in 1..m, k \in 1..n : s[i] = a /\ t[k] = c
      BY <1>1, <2>2 DEF ToSet
    <3>2. i \in 1..(m + n) /\ m + k \in 1..(m + n) /\ i < m + k
      BY <1>1
    <3> QED
      BY <1>1, <3>1, <3>2 DEF Before
  <2>3. CASE Before(t, a, c)
    <3>1. PICK i, k \in 1..n : i < k /\ t[i] = a /\ t[k] = c
      BY <1>1, <2>3 DEF Before
    <3>2. m + i \in 1..(m + n) /\ m + k \in 1..(m + n) /\ m + i < m + k
      BY <1>1, <3>1
    <3> QED
      BY <1>1, <3>1, <3>2 DEF Before
  <2> QED
    BY <1>5, <2>1, <2>2, <2>3
<1> QED
  BY <1>3, <1>4, <1>5

\* Nobody stands twice in two lines that share nobody.
LEMMA DistinctBehind ==
  ASSUME NEW S, NEW s \in Seq(S), NEW t \in Seq(S)
  PROVE  Distinct(s \o t) <=> Distinct(s) /\ Distinct(t) /\ ToSet(s) \cap ToSet(t) = {}
<1>1. \A q \in Seq(S) : Distinct(q) <=> \A a : ~Before(q, a, a)
  <2> TAKE q \in Seq(S)
  <2>1. DOMAIN q = 1..Len(q) /\ Len(q) \in Nat
    BY LenProperties
  <2>2. ASSUME Distinct(q), NEW a PROVE ~Before(q, a, a)
    BY <2>1, <2>2 DEF Distinct, Before
  <2>3. ASSUME \A a : ~Before(q, a, a), NEW i \in 1..Len(q), NEW j \in 1..Len(q), q[i] = q[j]
        PROVE  i = j
    <3>1. ~(i < j) /\ ~(j < i)
      BY <2>1, <2>3 DEF Before
    <3> QED
      BY <2>1, <3>1
  <2> QED
    BY <2>1, <2>2, <2>3 DEF Distinct
<1>2. s \o t \in Seq(S)
  BY ConcatProperties
<1>3. /\ Distinct(s) <=> \A a : ~Before(s, a, a)
      /\ Distinct(t) <=> \A a : ~Before(t, a, a)
      /\ Distinct(s \o t) <=> \A a : ~Before(s \o t, a, a)
  BY <1>1, <1>2
<1>4. \A a : Before(s \o t, a, a) <=>
               Before(s, a, a) \/ (a \in ToSet(s) /\ a \in ToSet(t)) \/ Before(t, a, a)
  BY LineBehindLine
<1> QED
  BY <1>3, <1>4

\* A line is its head and its tail.
LEMMA HeadAndTail ==
  ASSUME NEW S, NEW s \in Seq(S), s # <<>>
  PROVE  /\ Head(s) \in S /\ Tail(s) \in Seq(S) /\ <<Head(s)>> \in Seq(S)
         /\ s = <<Head(s)>> \o Tail(s)
OBVIOUS

\* The head of a line before another one leaves the rest as they stand.
LEMMA HeadLeaves ==
  ASSUME NEW S, NEW s \in Seq(S), NEW t \in Seq(S), s # <<>>, NEW a, NEW c,
         Before(s \o t, a, c)
  PROVE  a = Head(s) \/ Before(Tail(s) \o t, a, c)
<1> DEFINE h == <<Head(s)>>
           u == Tail(s)
<1>1. h \in Seq(S) /\ u \in Seq(S) /\ s = h \o u
  BY HeadAndTail
<1>2. ToSet(h) = {Head(s)} /\ ~Before(h, a, c)
  BY LineOfOne
<1> HIDE DEF h, u
<1>3. (h \o u) \o t = h \o (u \o t) /\ u \o t \in Seq(S)
  BY SMTT(30), <1>1, ConcatAssociative, ConcatProperties
<1>4. Before(h \o (u \o t), a, c)
  BY <1>1, <1>3
<1>5. \/ Before(h, a, c)
      \/ a \in ToSet(h) /\ c \in ToSet(u \o t)
      \/ Before(u \o t, a, c)
  BY <1>1, <1>3, <1>4, LineBehindLine
<1> QED
  BY <1>2, <1>5 DEF u

\* The end of a line is behind the line.
LEMMA AppendIsBehind ==
  ASSUME NEW S, NEW s \in Seq(S), NEW x \in S
  PROVE  /\ Append(s, x) \in Seq(S) /\ <<x>> \in Seq(S)
         /\ Append(s, x) = s \o <<x>>
OBVIOUS

-----------------------------------------------------------------------------
(* SpawnSemaphore *)

\* The inductive invariant.  A caller stands in one place, once; the counter is the number of
\* children in flight.
Placed ==
  /\ Distinct(turn) /\ Distinct(waiting)
  /\ ToSet(turn) \cap ToSet(waiting) = {}
  /\ running \cap (ToSet(turn) \cup ToSet(waiting)) = {}

Counted == active = Cardinality(running)

SemaphoreIInv == SemaphoreTypeOK /\ Placed /\ Counted /\ CeilingUnlessBarged

\* Callers can be counted.
LEMMA CallersAreFinite ==
  ASSUME NEW C \in SUBSET Callers
  PROVE  /\ IsFiniteSet(C) /\ Cardinality(C) \in Nat
         /\ Cardinality(C) = 0 <=> C = {}
         /\ \A c \in Callers \ C : Cardinality(C \cup {c}) = Cardinality(C) + 1
         /\ \A c \in C : Cardinality(C \ {c}) = Cardinality(C) - 1
<1>1. IsFiniteSet(C)
  BY CapAssumption, FS_Subset
<1>2. Cardinality(C) = 0 <=> C = {}
  BY <1>1, FS_EmptySet
<1>3. \A c \in Callers \ C : Cardinality(C \cup {c}) = Cardinality(C) + 1
  BY <1>1, FS_AddElement
<1>4. \A c \in C : Cardinality(C \ {c}) = Cardinality(C) - 1
  BY <1>1, FS_RemoveElement
<1> QED
  BY <1>1, <1>2, <1>3, <1>4, FS_CardinalityType

\* Nobody is in the line in the initial state.
LEMMA SemaphoreInitially == SemaphoreInit => SemaphoreIInv
<1> SUFFICES ASSUME SemaphoreInit PROVE SemaphoreIInv
  OBVIOUS
<1>1. barged \in BOOLEAN
  BY Zenon DEF SemaphoreInit
<1>2. SemaphoreTypeOK
  BY <1>1, EmptyLine DEF SemaphoreInit, SemaphoreTypeOK
<1>3. Placed
  BY EmptyLine DEF SemaphoreInit, Placed
<1>4. Cardinality({}) = 0 /\ Woken = {}
  BY EmptyLine, FS_EmptySet DEF SemaphoreInit, Woken
<1>5. Counted /\ CeilingUnlessBarged
  BY <1>4, CapAssumption DEF SemaphoreInit, Counted, CeilingUnlessBarged
<1> QED
  BY <1>2, <1>3, <1>5 DEF SemaphoreIInv

\* A call under the cap takes a slot; past the ceiling only if a woken waiter is still to come
\* (spawn-semaphore.ts:84-97).
LEMMA EnterKeeps ==
  ASSUME SemaphoreIInv, NEW c \in Callers, Enter(c)
  PROVE  SemaphoreIInv'
<1> USE DEF SemaphoreIInv
<1>1. /\ c \notin running /\ c \notin ToSet(waiting) /\ c \notin ToSet(turn)
      /\ active < SPAWN_CAP /\ active' = active + 1
      /\ running' = running \cup {c} /\ barged' = (barged \/ Woken # {})
      /\ UNCHANGED <<waiting, turn, returning>>
  BY DEF Enter, Outside
<1>2. barged' \in BOOLEAN
  BY <1>1, Zenon DEF SemaphoreTypeOK
<1>3. SemaphoreTypeOK'
  BY <1>1, <1>2 DEF SemaphoreTypeOK
<1>4. Placed'
  BY <1>1 DEF Placed
<1>5. Counted'
  BY <1>1, CallersAreFinite DEF Counted, SemaphoreTypeOK
<1>6. CeilingUnlessBarged'
  <2> SUFFICES ASSUME ~barged' PROVE active' + Cardinality(Woken)' <= SPAWN_CAP
    BY DEF CeilingUnlessBarged
  <2>1. Woken = {} /\ Woken' = Woken
    BY <1>1 DEF Woken
  <2>2. Cardinality({}) = 0
    BY FS_EmptySet
  <2> QED
    BY <1>1, <2>1, <2>2, CapAssumption DEF SemaphoreTypeOK
<1> QED
  BY <1>3, <1>4, <1>5, <1>6

\* A call at the cap goes to the end of the line (spawn-semaphore.ts:84-94).
LEMMA QueueKeeps ==
  ASSUME SemaphoreIInv, NEW c \in Callers, Queue(c)
  PROVE  /\ SemaphoreIInv'
         /\ turn \o waiting \in Seq(Callers) /\ waiting' = waiting \o <<c>>
         /\ InLine' = InLine \cup {c} /\ ToSet(turn \o waiting) = ToSet(turn) \cup ToSet(waiting)
<1> USE DEF SemaphoreIInv
<1>1. /\ c \notin running /\ c \notin ToSet(waiting) /\ c \notin ToSet(turn)
      /\ waiting' = Append(waiting, c)
      /\ UNCHANGED <<active, turn, returning, running, barged>>
  BY DEF Queue, Outside
<1>2. waiting \in Seq(Callers) /\ turn \in Seq(Callers)
  BY DEF SemaphoreTypeOK
<1>3. waiting' \in Seq(Callers) /\ waiting' = waiting \o <<c>> /\ <<c>> \in Seq(Callers)
  BY <1>1, <1>2, AppendIsBehind
<1>4. ToSet(waiting') = ToSet(waiting) \cup {c} /\ Distinct(waiting')
  <2> DEFINE v == <<c>>
  <2>1. ToSet(v) = {c} /\ Distinct(v)
    BY LineOfOne
  <2>2. v \in Seq(Callers) /\ waiting' = waiting \o v /\ Distinct(waiting)
    BY <1>3 DEF Placed
  <2> HIDE DEF v
  <2>3. ToSet(waiting \o v) = ToSet(waiting) \cup ToSet(v)
    BY <1>2, <2>2, LineBehindLine
  <2>4. Distinct(waiting \o v)
    BY <1>1, <1>2, <2>1, <2>2, DistinctBehind
  <2> QED
    BY <2>1, <2>2, <2>3, <2>4
<1>5. SemaphoreTypeOK'
  BY <1>1, <1>3 DEF SemaphoreTypeOK
<1>6. Placed'
  BY <1>1, <1>4 DEF Placed
<1>7. Counted' /\ CeilingUnlessBarged'
  BY <1>1 DEF Counted, CeilingUnlessBarged, Woken
<1>8. InLine' = InLine \cup {c}
  BY <1>1, <1>4 DEF InLine, Woken
<1> QED
  BY <1>2, <1>3, <1>5, <1>6, <1>7, <1>8, ConcatProperties, LineBehindLine

\* The continuation of a waiter, or of a caller that returns, is taken off the front
\* (spawn-semaphore.ts:93-106).
LEMMA TurnTaken ==
  ASSUME SemaphoreIInv, turn # <<>>, turn' = Tail(turn)
  PROVE  /\ turn \in Seq(Callers) /\ waiting \in Seq(Callers)
         /\ Head(turn) \in Callers /\ turn' \in Seq(Callers) /\ <<Head(turn)>> \in Seq(Callers)
         /\ turn = <<Head(turn)>> \o turn'
         /\ ToSet(turn) = {Head(turn)} \cup ToSet(turn') /\ Head(turn) \notin ToSet(turn')
         /\ Distinct(turn')
         /\ Head(turn) \notin ToSet(waiting) /\ Head(turn) \notin running
<1>1. turn \in Seq(Callers) /\ waiting \in Seq(Callers)
  BY DEF SemaphoreIInv, SemaphoreTypeOK
<1>2. /\ Head(turn) \in Callers /\ turn' \in Seq(Callers) /\ <<Head(turn)>> \in Seq(Callers)
      /\ turn = <<Head(turn)>> \o turn'
  BY <1>1, HeadAndTail
<1>3. ToSet(<<Head(turn)>>) = {Head(turn)}
  BY LineOfOne
<1>4. /\ ToSet(turn) = {Head(turn)} \cup ToSet(turn')
      /\ Distinct(turn') /\ Head(turn) \notin ToSet(turn')
  <2> DEFINE v == <<Head(turn)>>
  <2>1. v \in Seq(Callers) /\ ToSet(v) = {Head(turn)} /\ turn = v \o turn' /\ Distinct(turn)
    BY <1>2, <1>3 DEF SemaphoreIInv, Placed
  <2> HIDE DEF v
  <2>2. ToSet(v \o turn') = ToSet(v) \cup ToSet(turn')
    BY <1>2, <2>1, LineBehindLine
  <2>3. Distinct(v \o turn')
    BY <2>1
  <2>4. Distinct(turn') /\ ToSet(v) \cap ToSet(turn') = {}
    BY <1>2, <2>1, <2>3, DistinctBehind
  <2> QED
    BY <2>1, <2>2, <2>4
<1> QED
  BY <1>1, <1>2, <1>4 DEF SemaphoreIInv, Placed

\* A woken waiter takes the slot it was promised.
LEMMA ResumeKeeps ==
  ASSUME SemaphoreIInv, Resume
  PROVE  SemaphoreIInv' /\ InLine' = InLine \ {Head(turn)}
<1> USE DEF SemaphoreIInv
<1> DEFINE h == Head(turn)
<1>1. /\ turn # <<>> /\ h \notin returning
      /\ active' = active + 1 /\ running' = running \cup {h} /\ turn' = Tail(turn)
      /\ UNCHANGED <<waiting, returning, barged>>
  BY DEF Resume
<1>2. /\ h \in Callers /\ turn' \in Seq(Callers) /\ Distinct(turn')
      /\ ToSet(turn) = {h} \cup ToSet(turn') /\ h \notin ToSet(turn')
      /\ h \notin ToSet(waiting) /\ h \notin running
  BY <1>1, TurnTaken
<1> HIDE DEF h
<1>3. SemaphoreTypeOK'
  BY <1>1, <1>2 DEF SemaphoreTypeOK
<1>4. Placed'
  BY <1>1, <1>2 DEF Placed
<1>5. Counted'
  BY <1>1, <1>2, CallersAreFinite DEF Counted, SemaphoreTypeOK
<1>6. Woken' = Woken \ {h} /\ h \in Woken /\ Woken \in SUBSET Callers
  BY <1>1, <1>2, LineMembers DEF Woken, SemaphoreTypeOK
<1>7. CeilingUnlessBarged'
  <2>1. Cardinality(Woken') = Cardinality(Woken) - 1 /\ Cardinality(Woken) \in Nat
    BY <1>6, CallersAreFinite
  <2> QED
    BY <1>1, <2>1, CapAssumption DEF CeilingUnlessBarged, SemaphoreTypeOK
<1>8. InLine' = InLine \ {h}
  BY <1>1, <1>2, <1>6 DEF InLine
<1> QED
  BY <1>3, <1>4, <1>5, <1>7, <1>8 DEF h

\* A returning caller leaves the others where they are.
LEMMA ReturnKeeps ==
  ASSUME SemaphoreIInv, Return
  PROVE  SemaphoreIInv' /\ InLine' = InLine /\ Head(turn) \notin InLine
<1> USE DEF SemaphoreIInv
<1> DEFINE h == Head(turn)
<1>1. /\ turn # <<>> /\ h \in returning /\ turn' = Tail(turn) /\ returning' = returning \ {h}
      /\ UNCHANGED <<active, waiting, running, barged>>
  BY DEF Return
<1>2. /\ h \in Callers /\ turn' \in Seq(Callers) /\ Distinct(turn')
      /\ ToSet(turn) = {h} \cup ToSet(turn') /\ h \notin ToSet(turn')
      /\ h \notin ToSet(waiting) /\ h \notin running
  BY <1>1, TurnTaken
<1> HIDE DEF h
<1>3. SemaphoreTypeOK'
  BY <1>1, <1>2 DEF SemaphoreTypeOK
<1>4. Placed'
  BY <1>1, <1>2 DEF Placed
<1>5. Woken' = Woken
  BY <1>1, <1>2 DEF Woken
<1>6. Counted' /\ CeilingUnlessBarged'
  BY <1>1, <1>5 DEF Counted, CeilingUnlessBarged
<1>7. InLine' = InLine /\ h \notin InLine
  BY <1>1, <1>2, <1>5 DEF InLine, Woken
<1> QED
  BY <1>3, <1>4, <1>6, <1>7 DEF h

\* A child settled with nobody waiting: its slot is free (spawn-semaphore.ts:98-106).
LEMMA SettleKeeps ==
  ASSUME SemaphoreIInv, NEW c \in Callers, Settle(c)
  PROVE  /\ SemaphoreIInv' /\ InLine' = InLine
         /\ turn' = turn \o <<c>> /\ waiting' = <<>> /\ waiting = <<>>
         /\ turn \in Seq(Callers) /\ <<c>> \in Seq(Callers)
<1> USE DEF SemaphoreIInv
<1>1. /\ c \in running /\ running' = running \ {c} /\ active' = active - 1
      /\ returning' = returning \cup {c} /\ barged' = barged
      /\ waiting = <<>> /\ waiting' = <<>> /\ turn' = Append(turn, c)
  BY DEF Settle, Freed
<1>2. /\ turn \in Seq(Callers) /\ turn' \in Seq(Callers) /\ <<c>> \in Seq(Callers)
      /\ turn' = turn \o <<c>> /\ c \notin ToSet(turn)
  BY <1>1, AppendIsBehind DEF SemaphoreTypeOK, Placed
<1>3. ToSet(<<c>>) = {c} /\ Distinct(<<c>>)
  BY LineOfOne
<1>4. ToSet(turn') = ToSet(turn) \cup {c} /\ Distinct(turn')
  <2> DEFINE v == <<c>>
  <2>1. v \in Seq(Callers) /\ Distinct(v) /\ ToSet(v) = {c} /\ turn' = turn \o v /\ Distinct(turn)
    BY <1>2, <1>3 DEF Placed
  <2> HIDE DEF v
  <2>2. ToSet(turn \o v) = ToSet(turn) \cup ToSet(v)
    BY <1>2, <2>1, LineBehindLine
  <2>3. Distinct(turn \o v)
    BY <1>2, <2>1, DistinctBehind
  <2> QED
    BY <2>1, <2>2, <2>3
<1>5. Cardinality(running') = active' /\ active' \in Nat
  <2>1. Cardinality(running) \in Nat /\ Cardinality(running) # 0
    BY <1>1, CallersAreFinite DEF SemaphoreTypeOK
  <2> QED
    BY <1>1, <2>1, CallersAreFinite DEF SemaphoreTypeOK, Counted
<1>6. SemaphoreTypeOK'
  BY <1>1, <1>2, <1>4, <1>5, EmptyLine DEF SemaphoreTypeOK
<1>7. Placed'
  BY <1>1, <1>2, <1>4, EmptyLine DEF Placed
<1>8. Woken' = Woken
  BY <1>1, <1>2, <1>4 DEF Woken
<1>9. Counted' /\ CeilingUnlessBarged'
  <2>1. Cardinality(Woken) \in Nat
    BY <1>2, LineMembers, CallersAreFinite DEF Woken
  <2> QED
    BY <1>1, <1>5, <1>8, <2>1, CapAssumption DEF Counted, CeilingUnlessBarged, SemaphoreTypeOK
<1> QED
  BY <1>1, <1>2, <1>6, <1>7, <1>8, <1>9 DEF InLine

\* A child settled with somebody waiting: the first of the line goes on into the slot given
\* back (spawn-semaphore.ts:98-106).
LEMMA SettleAndWakeKeeps ==
  ASSUME SemaphoreIInv, NEW c \in Callers, SettleAndWake(c)
  PROVE  /\ SemaphoreIInv' /\ InLine' = InLine
         /\ \E w \in Callers : /\ waiting = <<w>> \o waiting' /\ turn' = (turn \o <<w>>) \o <<c>>
                               /\ <<w>> \in Seq(Callers)
         /\ turn \in Seq(Callers) /\ <<c>> \in Seq(Callers) /\ waiting' \in Seq(Callers)
<1> USE DEF SemaphoreIInv
<1> DEFINE w == Head(waiting)
<1>1. /\ c \in running /\ running' = running \ {c} /\ active' = active - 1
      /\ returning' = returning \cup {c} /\ barged' = barged
      /\ waiting # <<>> /\ waiting' = Tail(waiting) /\ turn' = turn \o <<w, c>>
  BY DEF SettleAndWake, Freed
<1>2. turn \in Seq(Callers) /\ waiting \in Seq(Callers) /\ c \notin ToSet(turn) /\ c \notin ToSet(waiting)
  BY <1>1 DEF SemaphoreTypeOK, Placed
<1>3. /\ w \in Callers /\ waiting' \in Seq(Callers) /\ <<w>> \in Seq(Callers)
      /\ waiting = <<w>> \o waiting'
  BY <1>1, <1>2, HeadAndTail
<1> HIDE DEF w
<1>4. /\ <<c>> \in Seq(Callers) /\ <<w, c>> = <<w>> \o <<c>>
      /\ turn \o <<w>> \in Seq(Callers)
  BY <1>2, <1>3, ConcatProperties
<1>5. turn' = (turn \o <<w>>) \o <<c>> /\ turn' \in Seq(Callers)
  BY <1>1, <1>2, <1>3, <1>4, ConcatAssociative, ConcatProperties
<1>6. /\ ToSet(<<c>>) = {c} /\ Distinct(<<c>>)
      /\ ToSet(<<w>>) = {w} /\ Distinct(<<w>>)
  BY LineOfOne
<1>7. /\ ToSet(waiting) = {w} \cup ToSet(waiting')
      /\ Distinct(waiting') /\ w \notin ToSet(waiting')
  <2> DEFINE v == <<w>>
  <2>1. v \in Seq(Callers) /\ ToSet(v) = {w} /\ waiting = v \o waiting' /\ Distinct(waiting)
    BY <1>3, <1>6 DEF Placed
  <2> HIDE DEF v
  <2>2. ToSet(v \o waiting') = ToSet(v) \cup ToSet(waiting')
    BY <1>3, <2>1, LineBehindLine
  <2>3. Distinct(waiting') /\ ToSet(v) \cap ToSet(waiting') = {}
    <3>1. Distinct(v \o waiting')
      BY <2>1
    <3> QED
      BY <1>3, <2>1, <3>1, DistinctBehind
  <2> QED
    BY <2>1, <2>2, <2>3
<1>8. w \notin ToSet(turn) /\ w # c /\ w \notin running
  BY <1>2, <1>7 DEF Placed
<1>9. ToSet(turn \o <<w>>) = ToSet(turn) \cup {w} /\ Distinct(turn \o <<w>>)
  <2> DEFINE v == <<w>>
  <2>1. v \in Seq(Callers) /\ Distinct(v) /\ ToSet(v) = {w} /\ Distinct(turn)
    BY <1>3, <1>6 DEF Placed
  <2> HIDE DEF v
  <2>2. ToSet(turn \o v) = ToSet(turn) \cup ToSet(v)
    BY <1>2, <2>1, LineBehindLine
  <2>3. Distinct(turn \o v)
    BY <1>2, <1>8, <2>1, DistinctBehind
  <2> QED
    BY <2>1, <2>2, <2>3 DEF v
<1>10. ToSet(turn') = ToSet(turn) \cup {w, c} /\ Distinct(turn')
  <2> DEFINE u == turn \o <<w>>
             v == <<c>>
  <2>1. u \in Seq(Callers) /\ v \in Seq(Callers) /\ Distinct(u) /\ Distinct(v)
        /\ ToSet(u) = ToSet(turn) \cup {w} /\ ToSet(v) = {c} /\ turn' = u \o v
    BY <1>4, <1>5, <1>6, <1>9
  <2> HIDE DEF u, v
  <2>2. ToSet(u \o v) = ToSet(u) \cup ToSet(v)
    BY <2>1, LineBehindLine
  <2>3. Distinct(u \o v)
    BY <1>2, <1>8, <2>1, DistinctBehind
  <2> QED
    BY <2>1, <2>2, <2>3
<1>11. Cardinality(running') = active' /\ active' \in Nat
  <2>1. Cardinality(running) \in Nat /\ Cardinality(running) # 0
    BY <1>1, CallersAreFinite DEF SemaphoreTypeOK
  <2> QED
    BY SMTT(30), <1>1, <2>1, CallersAreFinite DEF SemaphoreTypeOK, Counted
<1>12. SemaphoreTypeOK'
  BY <1>1, <1>3, <1>5, <1>10, <1>11 DEF SemaphoreTypeOK
<1>13. Placed'
  BY <1>1, <1>2, <1>7, <1>8, <1>10 DEF Placed
<1>14. Woken' = Woken \cup {w} /\ w \notin Woken /\ Woken \in SUBSET Callers
  <2>1. ToSet(turn) \subseteq Callers
    BY <1>2, LineMembers
  <2>2. w \notin returning /\ c \notin Woken
    BY <1>2, <1>8 DEF Woken, SemaphoreTypeOK
  <2> QED
    BY <1>1, <1>8, <1>10, <2>1, <2>2 DEF Woken
<1>15. Counted' /\ CeilingUnlessBarged'
  <2>1. Cardinality(Woken) \in Nat /\ Cardinality(Woken') = Cardinality(Woken) + 1
    BY <1>3, <1>14, CallersAreFinite
  <2> QED
    BY <1>1, <1>11, <2>1, CapAssumption DEF Counted, CeilingUnlessBarged, SemaphoreTypeOK
<1>16. InLine' = InLine
  BY <1>7, <1>14 DEF InLine
<1> QED
  BY <1>2, <1>3, <1>4, <1>5, <1>12, <1>13, <1>15, <1>16

\* Every step keeps the invariant.
LEMMA SemaphoreNextIInv == SemaphoreIInv /\ [SemaphoreNext]_semaphoreVars => SemaphoreIInv'
<1> SUFFICES ASSUME SemaphoreIInv, [SemaphoreNext]_semaphoreVars PROVE SemaphoreIInv'
  OBVIOUS
<1>1. CASE UNCHANGED semaphoreVars
  BY <1>1 DEF semaphoreVars, SemaphoreIInv, SemaphoreTypeOK, Placed, Counted,
              CeilingUnlessBarged, Woken
<1> QED
  BY <1>1, EnterKeeps, QueueKeeps, ResumeKeeps, ReturnKeeps, SettleKeeps, SettleAndWakeKeeps
  DEF SemaphoreNext

\* The invariant holds throughout.
LEMMA SemaphoreInvariance == SemaphoreSpec => []SemaphoreIInv
BY SemaphoreInitially, SemaphoreNextIInv, PTL DEF SemaphoreSpec

\* The semaphore's states are well typed; the counter never goes below zero.
THEOREM SemaphoreTyping == SemaphoreSpec => []SemaphoreTypeOK
<1>1. SemaphoreIInv => SemaphoreTypeOK
  BY DEF SemaphoreIInv
<1> QED
  BY <1>1, SemaphoreInvariance, PTL

\* The per-process ceiling holds, the slots already promised counted in, until a caller comes
\* between a release and the continuation it queued (spawn-semaphore.ts:81-106).
THEOREM SemaphoreCeiling == SemaphoreSpec => []CeilingUnlessBarged
<1>1. SemaphoreIInv => CeilingUnlessBarged
  BY DEF SemaphoreIInv
<1> QED
  BY <1>1, SemaphoreInvariance, PTL

\* Who is in the line, one before the other.
LEMMA AheadIs ==
  \A a, c : <<a, c>> \in Ahead <=> a \in InLine /\ c \in InLine /\ Before(turn \o waiting, a, c)
BY DEF Ahead, Before

\* Waiters go on in the order they came, whoever enters, returns or settles in between: who
\* stands behind another does not leave first, and who comes stands behind all
\* (spawn-semaphore.ts:93-105).
THEOREM SemaphoreOrder == SemaphoreSpec => FirstComeFirstServed
<1> DEFINE Order == /\ \A p \in Ahead : p \in Ahead' \/ p[1] \notin InLine'
                    /\ \A a, c \in InLine' : c \notin InLine /\ a # c => <<a, c>> \in Ahead'
<1>0. ASSUME \A a, c : <<a, c>> \in Ahead => <<a, c>> \in Ahead' \/ a \notin InLine',
             \A a, c \in InLine' : c \notin InLine /\ a # c => <<a, c>> \in Ahead'
      PROVE  Order
  <2>1. \A p \in Ahead : p = <<p[1], p[2]>>
    BY DEF Ahead
  <2> QED
    BY <1>0, <2>1
<1>1. \A a, c : <<a, c>> \in Ahead' <=>
                  a \in InLine' /\ c \in InLine' /\ Before(turn' \o waiting', a, c)
  BY DEF Ahead, Before
<1>2. ASSUME SemaphoreIInv, [SemaphoreNext]_semaphoreVars PROVE [Order]_semaphoreVars
  <2> SUFFICES ASSUME SemaphoreNext PROVE Order
    BY <1>2
  <2> HIDE DEF Order
  <2>1. turn \in Seq(Callers) /\ waiting \in Seq(Callers)
    BY <1>2 DEF SemaphoreIInv, SemaphoreTypeOK
  <2>2. CASE Resume
    <3>1. InLine' = InLine \ {Head(turn)} /\ turn # <<>> /\ turn' = Tail(turn) /\ waiting' = waiting
      BY <1>2, <2>2, ResumeKeeps DEF Resume
    <3>2. /\ turn = <<Head(turn)>> \o turn' /\ <<Head(turn)>> \in Seq(Callers)
          /\ turn' \in Seq(Callers) /\ Head(turn) \notin ToSet(turn') /\ Head(turn) \notin ToSet(waiting)
      BY <1>2, <3>1, TurnTaken
    <3>3. \A a, c : Before(turn \o waiting, a, c) =>
                      a = Head(turn) \/ Before(turn' \o waiting, a, c)
      BY <2>1, <3>1, HeadLeaves
    <3>4. ToSet(turn' \o waiting) = ToSet(turn') \cup ToSet(waiting)
      BY <2>1, <3>2, LineBehindLine
    <3>5. \A a, c : Before(turn' \o waiting, a, c) => c \in ToSet(turn' \o waiting)
      BY DEF Before, ToSet
    <3>6. \A a, c : <<a, c>> \in Ahead => <<a, c>> \in Ahead' \/ a \notin InLine'
      BY <1>1, <3>1, <3>2, <3>3, <3>4, <3>5, AheadIs
    <3> QED
      BY <1>0, <3>1, <3>6
  <2>3. CASE Return
    <3>1. /\ InLine' = InLine /\ Head(turn) \notin InLine
          /\ turn # <<>> /\ turn' = Tail(turn) /\ waiting' = waiting
      BY <1>2, <2>3, ReturnKeeps DEF Return
    <3>2. turn = <<Head(turn)>> \o turn' /\ <<Head(turn)>> \in Seq(Callers) /\ turn' \in Seq(Callers)
      BY <1>2, <3>1, TurnTaken
    <3>3. \A a, c : Before(turn \o waiting, a, c) =>
                      a = Head(turn) \/ Before(turn' \o waiting, a, c)
      BY <2>1, <3>1, HeadLeaves
    <3>4. \A a, c : <<a, c>> \in Ahead => <<a, c>> \in Ahead'
      BY <1>1, <3>1, <3>3, AheadIs
    <3> QED
      BY <1>0, <3>1, <3>4
  <2>4. ASSUME NEW c \in Callers, Enter(c) PROVE Order
    <3>1. UNCHANGED <<waiting, turn, returning>> /\ InLine' = InLine
      BY <2>4 DEF Enter, InLine, Woken
    <3> QED
      BY <1>0, <1>1, <3>1, AheadIs
  <2>5. ASSUME NEW x \in Callers, Queue(x) PROVE Order
    <3>1. /\ turn \o waiting \in Seq(Callers) /\ waiting' = waiting \o <<x>> /\ turn' = turn
          /\ InLine' = InLine \cup {x} /\ ToSet(turn \o waiting) = ToSet(turn) \cup ToSet(waiting)
      BY <1>2, <2>5, QueueKeeps DEF Queue
    <3>2. <<x>> \in Seq(Callers)
      BY AppendIsBehind, <2>1
    <3>3. turn' \o waiting' = (turn \o waiting) \o <<x>>
      BY <2>1, <3>1, <3>2, ConcatAssociative
    <3>4. ToSet(<<x>>) = {x}
      BY LineOfOne
    <3>5. \A a, c : Before((turn \o waiting) \o <<x>>, a, c) <=>
                      \/ Before(turn \o waiting, a, c)
                      \/ a \in ToSet(turn \o waiting) /\ c \in ToSet(<<x>>)
                      \/ Before(<<x>>, a, c)
      BY <3>1, <3>2, LineBehindLine
    <3>6. \A a, c : <<a, c>> \in Ahead => <<a, c>> \in Ahead'
      BY <1>1, <3>1, <3>3, <3>5, AheadIs
    <3>7. \A a, c \in InLine' : c \notin InLine /\ a # c => <<a, c>> \in Ahead'
      <4>1. InLine \subseteq ToSet(turn \o waiting)
        BY <3>1 DEF InLine, Woken
      <4> QED
        BY <1>1, <3>1, <3>3, <3>4, <3>5, <4>1
    <3> QED
      BY <1>0, <3>6, <3>7
  <2>6. ASSUME NEW x \in Callers, Settle(x) PROVE Order
    <3>1. /\ InLine' = InLine /\ turn' = turn \o <<x>> /\ waiting' = <<>> /\ waiting = <<>>
          /\ <<x>> \in Seq(Callers)
      BY <1>2, <2>6, SettleKeeps
    <3>2. turn \o waiting = turn /\ turn' \o waiting' = turn \o <<x>>
      BY <2>1, <3>1, ConcatEmptySeq, ConcatProperties
    <3>3. \A a, c : Before(turn, a, c) => Before(turn \o <<x>>, a, c)
      BY <2>1, <3>1, LineBehindLine
    <3>4. \A a, c : <<a, c>> \in Ahead => <<a, c>> \in Ahead'
      BY <1>1, <3>1, <3>2, <3>3, AheadIs
    <3> QED
      BY <1>0, <3>1, <3>4
  <2>7. ASSUME NEW x \in Callers, SettleAndWake(x) PROVE Order
    <3>1. InLine' = InLine /\ <<x>> \in Seq(Callers) /\ waiting' \in Seq(Callers)
      BY <1>2, <2>7, SettleAndWakeKeeps
    <3>2. PICK w \in Callers : /\ waiting = <<w>> \o waiting' /\ turn' = (turn \o <<w>>) \o <<x>>
                               /\ <<w>> \in Seq(Callers)
      BY <1>2, <2>7, SettleAndWakeKeeps
    <3>3. turn \o <<w>> \in Seq(Callers) /\ <<x>> \o waiting' \in Seq(Callers)
      BY <2>1, <3>1, <3>2, ConcatProperties
    <3>4. /\ turn \o waiting = (turn \o <<w>>) \o waiting'
          /\ turn' \o waiting' = (turn \o <<w>>) \o (<<x>> \o waiting')
      BY SMTT(30), <2>1, <3>1, <3>2, <3>3, ConcatAssociative
    <3>5. \A a, c : Before((turn \o <<w>>) \o waiting', a, c) =>
                      Before((turn \o <<w>>) \o (<<x>> \o waiting'), a, c)
      <4>1. \A a, c : Before((turn \o <<w>>) \o waiting', a, c) <=>
                        \/ Before(turn \o <<w>>, a, c)
                        \/ a \in ToSet(turn \o <<w>>) /\ c \in ToSet(waiting')
                        \/ Before(waiting', a, c)
        BY <3>1, <3>3, LineBehindLine
      <4>2. \A a, c : Before((turn \o <<w>>) \o (<<x>> \o waiting'), a, c) <=>
                        \/ Before(turn \o <<w>>, a, c)
                        \/ a \in ToSet(turn \o <<w>>) /\ c \in ToSet(<<x>> \o waiting')
                        \/ Before(<<x>> \o waiting', a, c)
        BY <3>3, LineBehindLine
      <4>3. /\ ToSet(<<x>> \o waiting') = ToSet(<<x>>) \cup ToSet(waiting')
            /\ \A a, c : Before(waiting', a, c) => Before(<<x>> \o waiting', a, c)
        <5> DEFINE y == <<x>>
        <5>1. y \in Seq(Callers) /\ waiting' \in Seq(Callers)
          BY <3>1
        <5> HIDE DEF y
        <5>2. /\ ToSet(y \o waiting') = ToSet(y) \cup ToSet(waiting')
              /\ \A a, c : Before(waiting', a, c) => Before(y \o waiting', a, c)
          BY <5>1, LineBehindLine
        <5> QED
          BY <5>2 DEF y
      <4> QED
        BY <4>1, <4>2, <4>3
    <3>6. \A a, c : <<a, c>> \in Ahead => <<a, c>> \in Ahead'
      BY <1>1, <3>1, <3>4, <3>5, AheadIs
    <3> QED
      BY <1>0, <3>1, <3>6
  <2> QED
    BY <2>2, <2>3, <2>4, <2>5, <2>6, <2>7 DEF SemaphoreNext
<1>3. SemaphoreIInv /\ [SemaphoreNext]_semaphoreVars => [Order]_semaphoreVars
  BY <1>2
<1> QED
  BY <1>3, SemaphoreInvariance, PTL DEF SemaphoreSpec, FirstComeFirstServed

-----------------------------------------------------------------------------
(* LensModelSlots *)

\* The inductive invariant.  A lens stands in the line of the key it waits for and in no other;
\* it holds the slots of the keys it has passed, all of them unless it was aborted; and every
\* pool is within its cap, and full when somebody waits for it.
Awaits(l, where, k) == \/ where = "queuedHost" /\ k = HostKey
                       \/ where = "queuedModel" /\ k = modelOf[l]

Passed(l, where) ==
  { k \in {HostKey, modelOf[l]} :
      /\ Cap(k) # 0
      /\ IF k = HostKey THEN where \notin {"idle", "queuedHost"}
         ELSE where \in {"pastModel", "running"} }

Stands(l, where, held, gone) ==
  /\ where \in {"queuedHost", "queuedModel"} => ~gone
  /\ held \subseteq Passed(l, where)
  /\ ~gone => held = Passed(l, where)

Filled(k, q, in, n) ==
  /\ Distinct(q) /\ IsFiniteSet(in) /\ n = Cardinality(in) /\ n <= Cap(k)
  /\ q # <<>> => Cap(k) # 0 /\ n = Cap(k)

InLines == \A l \in Lenses, k \in Keys : l \in ToSet(queue[k]) <=> Awaits(l, stage[l], k)

Standing == \A l \in Lenses : Stands(l, stage[l], holds[l], aborted[l])

PoolsFilled == \A k \in Keys : Filled(k, queue[k], Inside(k), taken[k])

LensIInv == LensTypeOK /\ InLines /\ Standing /\ PoolsFilled

\* Caps are numbers, and the host's key is no model's.
LEMMA KeysAndCaps ==
  /\ \A k \in Keys : Cap(k) \in Nat
  /\ \A l \in Lenses : HostKey \in Keys /\ modelOf[l] \in Keys /\ modelOf[l] # HostKey
BY SlotsAssumption DEF Cap, Keys

\* A pool with a slot left and nobody waiting takes one more in (lens-model-slots.ts:87-89).
LEMMA PoolEnters ==
  ASSUME NEW k \in Keys, NEW q, NEW in, NEW n \in Nat, Filled(k, q, in, n),
         NEW x, x \notin in, n < Cap(k)
  PROVE  Filled(k, q, in \cup {x}, n + 1) /\ q = <<>> /\ Cardinality(in) < Cap(k)
<1>1. IsFiniteSet(in \cup {x}) /\ Cardinality(in \cup {x}) = Cardinality(in) + 1
  BY FS_AddElement DEF Filled
<1> QED
  BY <1>1, KeysAndCaps DEF Filled

\* A full pool gets one more in its line (lens-model-slots.ts:65-89).
LEMMA PoolQueues ==
  ASSUME NEW k \in Keys, NEW q \in Seq(Lenses), NEW in, NEW n \in Nat, Filled(k, q, in, n),
         NEW x \in Lenses, x \notin ToSet(q), n >= Cap(k), Cap(k) # 0
  PROVE  /\ Filled(k, Append(q, x), in, n) /\ Cardinality(in) = Cap(k)
         /\ ToSet(Append(q, x)) = ToSet(q) \cup {x}
         /\ Append(q, x) \in Seq(Lenses)
<1> DEFINE v == <<x>>
<1>1. v \in Seq(Lenses) /\ Append(q, x) = q \o v /\ Append(q, x) \in Seq(Lenses)
  BY AppendIsBehind
<1>2. ToSet(v) = {x} /\ Distinct(v)
  BY LineOfOne
<1> HIDE DEF v
<1>3. ToSet(q \o v) = ToSet(q) \cup ToSet(v)
  BY <1>1, LineBehindLine
<1>4. Distinct(q \o v)
  BY <1>1, <1>2, DistinctBehind DEF Filled
<1> QED
  BY <1>1, <1>2, <1>3, <1>4, KeysAndCaps DEF Filled

\* A slot nobody waits for is given back (lens-model-slots.ts:93-96).
LEMMA PoolIsLeft ==
  ASSUME NEW k \in Keys, NEW q, NEW in, NEW n \in Nat, Filled(k, q, in, n),
         NEW x \in in, q = <<>>
  PROVE  Filled(k, q, in \ {x}, n - 1) /\ n - 1 \in Nat
<1>1. IsFiniteSet(in \ {x}) /\ Cardinality(in \ {x}) = Cardinality(in) - 1
  BY FS_RemoveElement DEF Filled
<1>2. Cardinality(in \ {x}) \in Nat
  BY <1>1, FS_CardinalityType
<1> QED
  BY <1>1, <1>2, KeysAndCaps DEF Filled

\* A slot somebody waits for goes to the head of the line (lens-model-slots.ts:90-92).
LEMMA PoolHandsOver ==
  ASSUME NEW k \in Keys, NEW q \in Seq(Lenses), NEW in, NEW n \in Nat, Filled(k, q, in, n),
         NEW x \in in, q # <<>>, Head(q) \notin in
  PROVE  /\ Filled(k, Tail(q), (in \ {x}) \cup {Head(q)}, n)
         /\ Tail(q) \in Seq(Lenses) /\ Head(q) \in ToSet(q)
         /\ ToSet(Tail(q)) = ToSet(q) \ {Head(q)}
<1> DEFINE h == Head(q)
           u == Tail(q)
           v == <<Head(q)>>
<1>1. v \in Seq(Lenses) /\ u \in Seq(Lenses) /\ q = v \o u
  BY HeadAndTail
<1>2. ToSet(v) = {h}
  BY LineOfOne
<1>3. h \notin in
  OBVIOUS
<1> HIDE DEF h, u, v
<1>4. ToSet(v \o u) = ToSet(v) \cup ToSet(u)
  BY <1>1, LineBehindLine
<1>5. Distinct(v \o u)
  BY <1>1 DEF Filled
<1>6. Distinct(u) /\ ToSet(v) \cap ToSet(u) = {}
  BY <1>1, <1>5, DistinctBehind
<1>7. IsFiniteSet(in \ {x}) /\ Cardinality(in \ {x}) = Cardinality(in) - 1
  BY FS_RemoveElement DEF Filled
<1>8. /\ IsFiniteSet((in \ {x}) \cup {h})
      /\ Cardinality((in \ {x}) \cup {h}) = Cardinality(in \ {x}) + 1
  BY <1>3, <1>7, FS_AddElement
<1>9. Filled(k, u, (in \ {x}) \cup {h}, n)
  BY <1>6, <1>7, <1>8, KeysAndCaps DEF Filled
<1> QED
  BY <1>1, <1>2, <1>4, <1>6, <1>9 DEF h, u

\* A line without one of those who stood in it.
LEMMA LineWithout ==
  ASSUME NEW S, NEW s \in Seq(S), Distinct(s), NEW i \in DOMAIN s
  PROVE  /\ RemoveAt(s, i) \in Seq(S) /\ Distinct(RemoveAt(s, i))
         /\ ToSet(RemoveAt(s, i)) = ToSet(s) \ {s[i]}
<1> DEFINE n == Len(s)
           a == SubSeq(s, 1, i - 1)
           x == <<s[i]>>
           b == SubSeq(s, i + 1, n)
<1>1. DOMAIN s = 1..n /\ n \in Nat /\ i \in 1..n /\ s[i] \in S
  BY LenProperties, ElementOfSeq
<1>2. a \in Seq(S) /\ b \in Seq(S) /\ x \in Seq(S)
  <2>1. \A j \in 1..(i - 1) : s[j] \in S
    BY <1>1, ElementOfSeq
  <2>2. \A j \in (i + 1)..n : s[j] \in S
    BY <1>1, ElementOfSeq
  <2>3. a \in Seq(S)
    BY <1>1, <2>1, SubSeqProperties
  <2>4. b \in Seq(S)
    BY <1>1, <2>2, SubSeqProperties
  <2> QED
    BY <1>1, <2>3, <2>4
<1>3. s = (a \o x) \o b
  <2>0. 1 \in 1..n /\ i \in 1..Len(s) /\ 1 \in 1..(n + 1) /\ i \in (1 - 1)..n /\ n \in i..n
    BY <1>1
  <2>1. SubSeq(s, 1, i) = a \o x
    <3> HIDE DEF n
    <3>1. 1 \in 1..Len(s) /\ i \in 1..Len(s)
      BY <2>0 DEF n
    <3> QED
      BY <3>1, SubSeqRecursiveSecond
  <2>2. SubSeq(s, 1, i) \o SubSeq(s, i + 1, n) = SubSeq(s, 1, n)
    BY <2>0, ConcatAdjacentSubSeq
  <2>3. SubSeq(s, 1, n) = s
    BY SubSeqFull
  <2> QED
    BY <2>1, <2>2, <2>3
<1>4. RemoveAt(s, i) = a \o b
  BY DEF RemoveAt
<1>5. ToSet(x) = {s[i]}
  BY LineOfOne
<1> HIDE DEF a, x, b
<1>6. a \o x \in Seq(S) /\ a \o b \in Seq(S)
  BY <1>2, ConcatProperties
<1>7. /\ ToSet((a \o x) \o b) = ToSet(a \o x) \cup ToSet(b)
      /\ ToSet(a \o x) = ToSet(a) \cup ToSet(x)
      /\ ToSet(a \o b) = ToSet(a) \cup ToSet(b)
  <2>1. \A t, u \in Seq(S) : ToSet(t \o u) = ToSet(t) \cup ToSet(u)
    BY LineBehindLine
  <2> QED
    BY <1>2, <1>6, <2>1
<1>8. Distinct((a \o x) \o b)
  BY <1>3
<1>9. Distinct(a \o x) /\ Distinct(b) /\ ToSet(a \o x) \cap ToSet(b) = {}
  BY <1>2, <1>6, <1>8, DistinctBehind
<1>10. Distinct(a) /\ ToSet(a) \cap ToSet(x) = {}
  BY <1>2, <1>9, DistinctBehind
<1>11. Distinct(a \o b)
  BY <1>2, <1>7, <1>9, <1>10, DistinctBehind
<1> QED
  BY <1>3, <1>4, <1>5, <1>6, <1>7, <1>9, <1>10, <1>11

\* SlotPool sees the sizes and the lines of the pools (lens-model-slots.ts:46-50) as they are.
LEMMA PoolsCountAlike ==
  \A S : HostAndModels!Cardinality(S) = Cardinality(S) /\ HostAndModels!ToSet(S) = ToSet(S)
BY DEF HostAndModels!Cardinality, Cardinality, HostAndModels!ToSet, ToSet

\* One step of the pool of a key, or none.
PoolMoves(k) == HostAndModels!Step(k) \/ HostAndModels!Rest(k)

\* The initial state satisfies the invariant, and the pools are empty.
LEMMA LensInitially == LensInit => LensIInv /\ HostAndModels!Init
<1> SUFFICES ASSUME LensInit PROVE LensIInv /\ HostAndModels!Init
  OBVIOUS
<1>1. aborted \in [Lenses -> BOOLEAN]
  BY Zenon DEF LensInit
<1>2. \A k \in Keys : <<>> \in Seq(Lenses) /\ queue[k] = <<>> /\ Inside(k) = {}
  BY DEF LensInit, Inside
<1>3. LensTypeOK
  BY <1>1, <1>2 DEF LensInit, LensTypeOK, Stages
<1>4. InLines
  BY <1>2, EmptyLine DEF LensInit, InLines, Awaits
<1>5. Standing
  BY DEF LensInit, Standing, Stands, Passed
<1>6. PoolsFilled
  <2>1. Distinct(<<>>)
    BY EmptyLine
  <2>2. IsFiniteSet({}) /\ Cardinality({}) = 0
    BY FS_EmptySet
  <2>3. \A k \in Keys : Filled(k, <<>>, {}, 0)
    BY <2>1, <2>2, KeysAndCaps DEF Filled
  <2>4. \A k \in Keys : taken[k] = 0
    BY DEF LensInit
  <2> QED
    BY <1>2, <2>3, <2>4 DEF PoolsFilled
<1>7. HostAndModels!Init
  BY <1>2 DEF HostAndModels!Init, LensInit
<1> QED
  BY <1>3, <1>4, <1>5, <1>6, <1>7 DEF LensIInv

\* Where a lens that asks for a slot stands: outside the pool and its line.
AsksFor(l, k, past, queued) ==
  \/ /\ k = HostKey /\ stage[l] = "idle" /\ past = "pastHost" /\ queued = "queuedHost"
  \/ /\ k = modelOf[l] /\ stage[l] = "pastHost" /\ past = "pastModel" /\ queued = "queuedModel"

\* takeSlot, up to its await or its return (lens-model-slots.ts:59-98).
LEMMA TakeSlotKeeps ==
  ASSUME LensIInv, NEW l \in Lenses, NEW k \in Keys, NEW past, NEW queued,
         AsksFor(l, k, past, queued), TakeSlot(l, k, past, queued), aborted' = aborted
  PROVE  LensIInv' /\ \A j \in Keys : PoolMoves(j)
<1>1. /\ LensTypeOK /\ InLines /\ Standing /\ PoolsFilled
      /\ past \in Stages /\ queued \in Stages
  BY DEF LensIInv, AsksFor, Stages
<1>2. /\ k \notin Passed(l, stage[l]) /\ Passed(l, queued) = Passed(l, stage[l])
      /\ Passed(l, past) = IF Cap(k) = 0 THEN Passed(l, stage[l]) ELSE Passed(l, stage[l]) \cup {k}
      /\ \A j \in Keys : /\ ~Awaits(l, stage[l], j) /\ ~Awaits(l, past, j)
                         /\ Awaits(l, queued, j) <=> j = k
      /\ past \notin {"queuedHost", "queuedModel"}
  BY KeysAndCaps DEF AsksFor, Passed, Awaits
<1>3. k \notin holds[l] /\ l \notin Inside(k)
  BY <1>1, <1>2 DEF Standing, Stands, Inside
<1>4. \A j \in Keys : l \notin ToSet(queue[j])
  BY <1>1, <1>2 DEF InLines
<1>5. Stands(l, stage[l], holds[l], aborted[l]) /\ Filled(k, queue[k], Inside(k), taken[k])
  BY <1>1 DEF Standing, PoolsFilled
<1>6. taken[k] \in Nat /\ queue[k] \in Seq(Lenses) /\ holds[l] \in SUBSET Keys
  BY <1>1 DEF LensTypeOK
<1>7. CASE /\ Cap(k) = 0 \/ (taken[k] >= Cap(k) /\ aborted[l])
           /\ stage' = [stage EXCEPT ![l] = past] /\ UNCHANGED <<taken, queue, holds>>
  <2>1. LensTypeOK'
    BY <1>1, <1>7 DEF LensTypeOK
  <2>2. InLines'
    BY <1>1, <1>2, <1>4, <1>7 DEF InLines, LensTypeOK
  <2>3. Stands(l, past, holds[l], aborted[l])
    BY <1>2, <1>5, <1>7 DEF Stands
  <2>4. Standing'
    BY <1>1, <1>7, <2>3 DEF Standing, LensTypeOK
  <2>5. \A j \in Keys : Inside(j)' = Inside(j)
    BY <1>7 DEF Inside
  <2>6. PoolsFilled'
    BY <1>1, <1>7, <2>5 DEF PoolsFilled
  <2>7. \A j \in Keys : PoolMoves(j)
    BY <1>7, <2>5 DEF PoolMoves, HostAndModels!Rest
  <2> QED
    BY <2>1, <2>2, <2>4, <2>6, <2>7 DEF LensIInv
<1>8. CASE /\ Cap(k) # 0 /\ taken[k] < Cap(k)
           /\ taken' = [taken EXCEPT ![k] = @ + 1] /\ holds' = [holds EXCEPT ![l] = @ \cup {k}]
           /\ stage' = [stage EXCEPT ![l] = past] /\ UNCHANGED queue
  <2>1. LensTypeOK'
    BY <1>1, <1>8 DEF LensTypeOK
  <2>2. InLines'
    BY <1>1, <1>2, <1>4, <1>8 DEF InLines, LensTypeOK
  <2>3. Stands(l, past, holds[l] \cup {k}, aborted[l])
    BY <1>2, <1>5, <1>8 DEF Stands
  <2>4. Standing'
    BY <1>1, <1>8, <2>3 DEF Standing, LensTypeOK
  <2>5. /\ Inside(k)' = Inside(k) \cup {l} /\ taken'[k] = taken[k] + 1
        /\ \A j \in Keys \ {k} : Inside(j)' = Inside(j) /\ taken'[j] = taken[j]
    BY <1>1, <1>8 DEF Inside, LensTypeOK
  <2>6. /\ Filled(k, queue[k], Inside(k) \cup {l}, taken[k] + 1)
        /\ queue[k] = <<>> /\ Cardinality(Inside(k)) < Cap(k)
    <3> DEFINE in == Inside(k)
               n == taken[k]
    <3>1. n \in Nat /\ Filled(k, queue[k], in, n) /\ l \notin in /\ n < Cap(k)
      BY <1>3, <1>5, <1>6, <1>8
    <3> HIDE DEF in, n
    <3>2. Filled(k, queue[k], in \cup {l}, n + 1) /\ queue[k] = <<>> /\ Cardinality(in) < Cap(k)
      BY <3>1, PoolEnters
    <3> QED
      BY <3>2 DEF in, n
  <2>7. PoolsFilled'
    BY <1>1, <1>8, <2>5, <2>6 DEF PoolsFilled
  <2>8. HostAndModels!Enter(k, l)
    <3>1. [j \in Keys |-> Inside(j)][k] = Inside(k) /\ [j \in Keys |-> Inside(j)]'[k] = Inside(k)'
      OBVIOUS
    <3> QED
      BY <1>3, <1>8, <2>5, <2>6, <3>1, PoolsCountAlike DEF HostAndModels!Enter
  <2>9. \A j \in Keys : PoolMoves(j)
    BY <1>8, <2>5, <2>8 DEF PoolMoves, HostAndModels!Rest, HostAndModels!Step
  <2> QED
    BY <2>1, <2>2, <2>4, <2>7, <2>9 DEF LensIInv
<1>9. CASE /\ Cap(k) # 0 /\ taken[k] >= Cap(k) /\ ~aborted[l]
           /\ queue' = [queue EXCEPT ![k] = Append(@, l)]
           /\ stage' = [stage EXCEPT ![l] = queued] /\ UNCHANGED <<taken, holds>>
  <2>0. /\ Filled(k, Append(queue[k], l), Inside(k), taken[k]) /\ Cardinality(Inside(k)) = Cap(k)
        /\ ToSet(Append(queue[k], l)) = ToSet(queue[k]) \cup {l}
        /\ Append(queue[k], l) \in Seq(Lenses)
    BY <1>4, <1>5, <1>6, <1>9, PoolQueues
  <2>1. /\ queue'[k] = Append(queue[k], l)
        /\ \A j \in Keys \ {k} : queue'[j] = queue[j]
    BY <1>1, <1>9 DEF LensTypeOK
  <2>2. LensTypeOK'
    BY <1>1, <1>9, <2>0 DEF LensTypeOK
  <2>3. InLines'
    BY <1>1, <1>2, <1>4, <1>9, <2>0, <2>1 DEF InLines, LensTypeOK
  <2>4. Stands(l, queued, holds[l], aborted[l])
    BY <1>2, <1>5, <1>9 DEF Stands
  <2>5. Standing'
    BY <1>1, <1>9, <2>4 DEF Standing, LensTypeOK
  <2>6. \A j \in Keys : Inside(j)' = Inside(j)
    BY <1>9 DEF Inside
  <2>7. PoolsFilled'
    BY <1>1, <1>9, <2>0, <2>1, <2>6 DEF PoolsFilled
  <2>8. HostAndModels!Queue(k, l)
    <3>1. [j \in Keys |-> Inside(j)][k] = Inside(k) /\ [j \in Keys |-> Inside(j)]'[k] = Inside(k)'
      OBVIOUS
    <3> QED
      BY <1>3, <1>4, <2>0, <2>1, <2>6, <3>1, PoolsCountAlike
      DEF HostAndModels!Queue
  <2>9. \A j \in Keys : PoolMoves(j)
    BY <2>1, <2>6, <2>8 DEF PoolMoves, HostAndModels!Rest, HostAndModels!Step
  <2> QED
    BY <2>2, <2>3, <2>5, <2>7, <2>9 DEF LensIInv
<1> QED
  BY <1>7, <1>8, <1>9 DEF TakeSlot

\* The lens goes on to its child.
LEMMA RunKeeps ==
  ASSUME LensIInv, NEW l \in Lenses, Run(l)
  PROVE  LensIInv' /\ \A j \in Keys : PoolMoves(j)
<1>1. /\ LensTypeOK /\ InLines /\ Standing /\ PoolsFilled
      /\ stage[l] = "pastModel" /\ stage' = [stage EXCEPT ![l] = "running"]
      /\ UNCHANGED <<taken, queue, holds, aborted>>
  BY DEF LensIInv, Run
<1>2. Passed(l, "running") = Passed(l, "pastModel")
  BY DEF Passed
<1>3. LensTypeOK'
  BY <1>1 DEF LensTypeOK, Stages
<1>4. InLines'
  BY <1>1 DEF InLines, Awaits, LensTypeOK
<1>5. Standing'
  BY <1>1, <1>2 DEF Standing, Stands, LensTypeOK
<1>6. \A j \in Keys : Inside(j)' = Inside(j)
  BY <1>1 DEF Inside
<1>7. PoolsFilled'
  BY <1>1, <1>6 DEF PoolsFilled
<1>8. \A j \in Keys : PoolMoves(j)
  BY <1>1, <1>6 DEF PoolMoves, HostAndModels!Rest
<1> QED
  BY <1>3, <1>4, <1>5, <1>7, <1>8 DEF LensIInv

\* The signal takes a queued lens out of its line, and no slot with it
\* (lens-model-slots.ts:73-84).
LEMMA AbortKeeps ==
  ASSUME LensIInv, NEW l \in Lenses, Abort(l)
  PROVE  LensIInv' /\ \A j \in Keys : PoolMoves(j)
<1>1. /\ LensTypeOK /\ InLines /\ Standing /\ PoolsFilled
      /\ aborted' = [aborted EXCEPT ![l] = TRUE] /\ UNCHANGED <<taken, holds>>
  BY DEF LensIInv, Abort
<1>2. \A j \in Keys : Inside(j)' = Inside(j)
  BY <1>1 DEF Inside
<1>3. CASE UNCHANGED <<queue, stage>> /\ \A k \in Keys : l \notin ToSet(queue[k])
  <2>1. LensTypeOK' /\ InLines' /\ PoolsFilled'
    BY <1>1, <1>2, <1>3 DEF LensTypeOK, InLines, PoolsFilled
  <2>2. stage[l] \notin {"queuedHost", "queuedModel"}
    BY <1>1, <1>3, KeysAndCaps DEF InLines, Awaits
  <2>3. Standing'
    BY <1>1, <1>3, <2>2 DEF Standing, Stands, LensTypeOK
  <2>4. \A j \in Keys : PoolMoves(j)
    BY <1>2, <1>3 DEF PoolMoves, HostAndModels!Rest
  <2> QED
    BY <2>1, <2>3, <2>4 DEF LensIInv
<1>4. ASSUME NEW k \in Keys, NEW i \in DOMAIN queue[k], queue[k][i] = l,
             queue' = [queue EXCEPT ![k] = RemoveAt(@, i)],
             stage' = [stage EXCEPT ![l] = PastQueue(l)]
      PROVE  LensIInv' /\ \A j \in Keys : PoolMoves(j)
  <2>0. Filled(k, queue[k], Inside(k), taken[k]) /\ queue[k] \in Seq(Lenses)
    BY <1>1 DEF PoolsFilled, LensTypeOK
  <2>1. /\ RemoveAt(queue[k], i) \in Seq(Lenses) /\ Distinct(RemoveAt(queue[k], i))
        /\ ToSet(RemoveAt(queue[k], i)) = ToSet(queue[k]) \ {l}
    BY <1>4, <2>0, LineWithout DEF Filled
  <2>2. /\ queue'[k] = RemoveAt(queue[k], i)
        /\ \A j \in Keys \ {k} : queue'[j] = queue[j]
    BY <1>1, <1>4 DEF LensTypeOK
  <2>3. l \in ToSet(queue[k]) /\ Awaits(l, stage[l], k)
    BY <1>1, <1>4 DEF ToSet, InLines
  <2>4. /\ PastQueue(l) \in {"pastHost", "pastModel"}
        /\ Passed(l, stage[l]) \subseteq Passed(l, PastQueue(l))
        /\ \A j \in Keys : Awaits(l, stage[l], j) => j = k
    BY <2>3, KeysAndCaps DEF Awaits, Passed, PastQueue
  <2>5. LensTypeOK'
    BY <1>1, <1>4, <2>1, <2>4 DEF LensTypeOK, Stages
  <2>6. InLines'
    <3>1. ASSUME NEW m \in Lenses, NEW j \in Keys
          PROVE  m \in ToSet(queue'[j]) <=> Awaits(m, stage'[m], j)
      <4>1. CASE m = l
        <5>1. l \notin ToSet(queue'[j])
          BY <1>1, <2>1, <2>2, <2>4 DEF InLines
        <5>2. ~Awaits(l, stage'[l], j)
          BY <1>1, <1>4, <2>4 DEF LensTypeOK, Awaits
        <5> QED
          BY <4>1, <5>1, <5>2
      <4>2. CASE m # l
        <5>1. m \in ToSet(queue'[j]) <=> m \in ToSet(queue[j])
          BY <2>1, <2>2, <4>2
        <5>2. stage'[m] = stage[m]
          BY <1>1, <1>4, <4>2 DEF LensTypeOK
        <5> QED
          BY <1>1, <5>1, <5>2 DEF InLines
      <4> QED
        BY <4>1, <4>2
    <3> QED
      BY <3>1 DEF InLines
  <2>7. Stands(l, PastQueue(l), holds[l], TRUE)
    BY <1>1, <2>4 DEF Standing, Stands
  <2>8. Standing'
    BY <1>1, <1>4, <2>7 DEF Standing, LensTypeOK
  <2>9. Filled(k, queue'[k], Inside(k), taken[k])
    <3>1. queue[k] # <<>>
      BY <2>0, <2>3, LineMembers
    <3> QED
      BY <2>0, <2>1, <2>2, <3>1 DEF Filled
  <2>10. PoolsFilled'
    BY <1>1, <1>2, <2>2, <2>9 DEF PoolsFilled
  <2>11. HostAndModels!GiveUp(k, i)
    BY <1>2, <2>2 DEF HostAndModels!GiveUp, HostAndModels!RemoveAt, RemoveAt
  <2>12. \A j \in Keys : PoolMoves(j)
    BY <1>2, <1>4, <2>2, <2>11 DEF PoolMoves, HostAndModels!Rest, HostAndModels!Step
  <2> QED
    BY <2>5, <2>6, <2>8, <2>10, <2>12 DEF LensIInv
<1> QED
  BY <1>3, <1>4 DEF Abort

\* A lens waits for one slot at a time, one it has not passed yet; with it in hand, or turned
\* away, it waits for none.
LEMMA OneWaitAtATime ==
  ASSUME NEW l \in Lenses, NEW where, NEW k, Awaits(l, where, k)
  PROVE  /\ k \in Keys /\ where \in {"queuedHost", "queuedModel"} /\ k \notin Passed(l, where)
         /\ \A j : Awaits(l, where, j) => j = k
         /\ LET past == IF where = "queuedHost" THEN "pastHost" ELSE "pastModel" IN
              /\ past \in Stages /\ \A j : ~Awaits(l, past, j)
              /\ Cap(k) # 0 => Passed(l, past) = Passed(l, where) \cup {k}
BY KeysAndCaps DEF Awaits, Passed, Stages

\* The releases of both finally blocks: each slot goes to the head of its line, and only
\* without one does the count go down (lens-model-slots.ts:90-98, 116-124).
LEMMA FinishKeeps ==
  ASSUME LensIInv, NEW l \in Lenses, Finish(l)
  PROVE  LensIInv' /\ \A j \in Keys : PoolMoves(j)
<1> DEFINE K == holds[l]
           G(k) == IF k \in K THEN FirstInLine(k) ELSE {}
<1>1. /\ LensTypeOK /\ InLines /\ Standing /\ PoolsFilled /\ stage[l] = "running"
      /\ aborted' = [aborted EXCEPT ![l] = FALSE]
      /\ taken' = [k \in Keys |-> IF k \in K /\ G(k) = {} THEN taken[k] - 1 ELSE taken[k]]
      /\ queue' = [k \in Keys |-> IF G(k) # {} THEN Tail(queue[k]) ELSE queue[k]]
      /\ holds' = [m \in Lenses |-> (IF m = l THEN {} ELSE holds[m]) \cup {k \in K : m \in G(k)}]
      /\ stage' = [m \in Lenses |-> IF m = l THEN "idle"
                                    ELSE IF \E k \in K : m \in G(k) THEN PastQueue(m)
                                    ELSE stage[m]]
  BY DEF LensIInv, Finish, ReleaseSlots
<1>2. \A k \in K : k \in Keys /\ Cap(k) # 0 /\ l \in Inside(k)
  BY <1>1, KeysAndCaps DEF Standing, Stands, Passed, Inside
<1>3. \A k \in Keys : /\ Filled(k, queue[k], Inside(k), taken[k])
                      /\ queue[k] \in Seq(Lenses) /\ taken[k] \in Nat
  BY <1>1 DEF PoolsFilled, LensTypeOK
<1>4. ASSUME NEW k, NEW m \in G(k)
      PROVE  /\ k \in K /\ queue[k] # <<>> /\ m = Head(queue[k]) /\ m \in ToSet(queue[k])
             /\ m \in Lenses /\ Awaits(m, stage[m], k) /\ m # l /\ k \notin holds[m]
  <2>1. k \in K /\ queue[k] # <<>> /\ m = Head(queue[k])
    BY DEF FirstInLine
  <2>2. m \in ToSet(queue[k]) /\ m \in Lenses
    BY <1>2, <1>3, <2>1, LineMembers, HeadAndTail
  <2>3. Awaits(m, stage[m], k)
    BY <1>1, <1>2, <2>1, <2>2 DEF InLines
  <2>4. k \notin Passed(m, stage[m]) /\ m # l
    BY <1>1, <2>2, <2>3, OneWaitAtATime
  <2> QED
    BY <1>1, <2>1, <2>2, <2>3, <2>4 DEF Standing, Stands
<1>5. \A k \in K : queue[k] # <<>> => G(k) = {Head(queue[k])}
  BY DEF FirstInLine
<1>6. \A k : G(k) # {} => k \in K /\ queue[k] # <<>> /\ G(k) = {Head(queue[k])}
  BY DEF FirstInLine
<1> HIDE DEF G
\* Of the lenses
<1>7. /\ stage'[l] = "idle" /\ holds'[l] = {} /\ aborted'[l] = FALSE
      /\ \A k \in Keys : ~Awaits(l, stage[l], k)
  BY <1>1, <1>4 DEF LensTypeOK, Awaits
<1>8. ASSUME NEW k, NEW m \in G(k)
      PROVE  /\ stage'[m] = PastQueue(m) /\ holds'[m] = holds[m] \cup {k}
             /\ aborted'[m] = aborted[m]
  <2>1. {j \in K : m \in G(j)} = {k}
    BY <1>4, OneWaitAtATime
  <2> QED
    BY <1>1, <1>4, <2>1 DEF LensTypeOK
<1>9. ASSUME NEW m \in Lenses, m # l, \A k : m \notin G(k)
      PROVE  stage'[m] = stage[m] /\ holds'[m] = holds[m] /\ aborted'[m] = aborted[m]
  BY <1>1, <1>9 DEF LensTypeOK
<1>10. ASSUME NEW k, NEW m \in G(k)
       PROVE  /\ PastQueue(m) \in Stages /\ \A j \in Keys : ~Awaits(m, PastQueue(m), j)
              /\ Stands(m, PastQueue(m), holds[m] \cup {k}, aborted[m])
  <2>1. m \in Lenses /\ Awaits(m, stage[m], k) /\ Cap(k) # 0 /\ k \in Keys
    BY <1>2, <1>4
  <2>2. /\ PastQueue(m) \in Stages /\ \A j : ~Awaits(m, PastQueue(m), j)
        /\ Passed(m, PastQueue(m)) = Passed(m, stage[m]) \cup {k}
    BY <2>1, OneWaitAtATime DEF PastQueue
  <2>3. Stands(m, stage[m], holds[m], aborted[m])
    BY <1>1, <2>1 DEF Standing
  <2>4. PastQueue(m) \notin {"queuedHost", "queuedModel"}
    BY DEF PastQueue
  <2> QED
    BY <2>2, <2>3, <2>4 DEF Stands
\* Of the pools
<1>11. ASSUME NEW k \in Keys, k \notin K
       PROVE  queue'[k] = queue[k] /\ taken'[k] = taken[k] /\ Inside(k)' = Inside(k)
  <2>1. queue'[k] = queue[k] /\ taken'[k] = taken[k]
    BY <1>1, <1>6, <1>11
  <2>2. \A m \in Lenses : k \in holds'[m] <=> k \in holds[m]
    BY <1>1, <1>11
  <2> QED
    BY <2>1, <2>2 DEF Inside
<1>12. ASSUME NEW k \in K, queue[k] = <<>>
       PROVE  /\ queue'[k] = queue[k] /\ taken'[k] = taken[k] - 1
              /\ Inside(k)' = Inside(k) \ {l}
  <2>1. G(k) = {} /\ k \in Keys
    BY <1>2, <1>6, <1>12
  <2>2. \A m \in Lenses : k \in holds'[m] <=> m # l /\ k \in holds[m]
    BY <1>1, <2>1
  <2> QED
    BY <1>1, <2>1, <2>2 DEF Inside
<1>13. ASSUME NEW k \in K, queue[k] # <<>>
       PROVE  /\ queue'[k] = Tail(queue[k]) /\ taken'[k] = taken[k]
              /\ Inside(k)' = (Inside(k) \ {l}) \cup {Head(queue[k])}
              /\ Head(queue[k]) \in Lenses /\ Head(queue[k]) \notin Inside(k)
  <2>1. G(k) = {Head(queue[k])} /\ k \in Keys
    BY <1>2, <1>5, <1>13
  <2>2. Head(queue[k]) \in Lenses /\ Head(queue[k]) # l /\ Head(queue[k]) \notin Inside(k)
    BY <1>4, <2>1 DEF Inside
  <2>3. \A m \in Lenses : k \in holds'[m] <=>
                            (m # l /\ k \in holds[m]) \/ m = Head(queue[k])
    BY <1>1, <2>1
  <2> QED
    BY <1>1, <2>1, <2>2, <2>3 DEF Inside
<1>14. ASSUME NEW k \in K, queue[k] # <<>>
       PROVE  /\ Filled(k, queue'[k], Inside(k)', taken'[k]) /\ queue'[k] \in Seq(Lenses)
              /\ ToSet(queue'[k]) = ToSet(queue[k]) \ G(k)
              /\ HostAndModels!HandOver(k, l)
  <2> DEFINE in == Inside(k)
             n == taken[k]
             q == queue[k]
  <2>1. /\ Filled(k, q, in, n) /\ q \in Seq(Lenses) /\ n \in Nat /\ l \in in /\ k \in Keys
        /\ q # <<>> /\ Head(q) \notin in
    BY <1>2, <1>3, <1>13, <1>14
  <2> HIDE DEF in, n, q
  <2>2. /\ Filled(k, Tail(q), (in \ {l}) \cup {Head(q)}, n)
        /\ Tail(q) \in Seq(Lenses) /\ ToSet(Tail(q)) = ToSet(q) \ {Head(q)}
    BY <2>1, PoolHandsOver
  <2>3. G(k) = {Head(q)}
    BY <1>5, <1>14 DEF q
  <2>4. HostAndModels!HandOver(k, l)
    <3>1. /\ [j \in Keys |-> Inside(j)][k] = Inside(k)
          /\ [j \in Keys |-> Inside(j)]'[k] = Inside(k)'
      BY <2>1
    <3> QED
      BY <1>2, <1>13, <1>14, <3>1 DEF HostAndModels!HandOver
  <2> QED
    BY <1>13, <1>14, <2>2, <2>3, <2>4 DEF in, n, q
<1>15. ASSUME NEW k \in K, queue[k] = <<>>
       PROVE  /\ Filled(k, queue'[k], Inside(k)', taken'[k]) /\ taken'[k] \in Nat
              /\ HostAndModels!Leave(k, l)
  <2> DEFINE in == Inside(k)
             n == taken[k]
             q == queue[k]
  <2>1. Filled(k, q, in, n) /\ n \in Nat /\ l \in in /\ k \in Keys /\ q = <<>>
    BY <1>2, <1>3, <1>15
  <2> HIDE DEF in, n, q
  <2>2. Filled(k, q, in \ {l}, n - 1) /\ n - 1 \in Nat
    BY <2>1, PoolIsLeft
  <2>3. HostAndModels!Leave(k, l)
    <3>1. /\ [j \in Keys |-> Inside(j)][k] = Inside(k)
          /\ [j \in Keys |-> Inside(j)]'[k] = Inside(k)'
      BY <2>1
    <3> QED
      BY <1>2, <1>12, <1>15, <3>1 DEF HostAndModels!Leave
  <2> QED
    BY <1>12, <1>15, <2>2, <2>3 DEF in, n, q
<1>16. \A k \in Keys : /\ queue'[k] \in Seq(Lenses) /\ taken'[k] \in Nat
                       /\ ToSet(queue'[k]) = ToSet(queue[k]) \ G(k)
                       /\ Filled(k, queue'[k], Inside(k)', taken'[k])
  <2> SUFFICES ASSUME NEW k \in Keys
               PROVE  /\ queue'[k] \in Seq(Lenses) /\ taken'[k] \in Nat
                      /\ ToSet(queue'[k]) = ToSet(queue[k]) \ G(k)
                      /\ Filled(k, queue'[k], Inside(k)', taken'[k])
    OBVIOUS
  <2>1. CASE k \notin K
    BY <1>3, <1>6, <1>11, <2>1
  <2>2. CASE k \in K /\ queue[k] = <<>>
    BY <1>3, <1>6, <1>12, <1>15, <2>2
  <2>3. CASE k \in K /\ queue[k] # <<>>
    BY <1>3, <1>13, <1>14, <2>3
  <2> QED
    BY <2>1, <2>2, <2>3
<1>17. PoolsFilled'
  BY <1>16 DEF PoolsFilled
<1>18. LensTypeOK'
  <2>1. stage' \in [Lenses -> Stages]
    BY <1>1, <1>7, <1>8, <1>9, <1>10 DEF LensTypeOK, Stages
  <2>2. holds' \in [Lenses -> SUBSET Keys]
    BY <1>1, <1>2 DEF LensTypeOK
  <2>3. aborted' \in [Lenses -> BOOLEAN]
    BY <1>1 DEF LensTypeOK
  <2> QED
    BY <1>1, <1>16, <2>1, <2>2, <2>3 DEF LensTypeOK
<1>19. InLines'
  <2> SUFFICES ASSUME NEW m \in Lenses, NEW k \in Keys
               PROVE  m \in ToSet(queue'[k]) <=> Awaits(m, stage'[m], k)
    BY DEF InLines
  <2>0. /\ ToSet(queue'[k]) = ToSet(queue[k]) \ G(k)
        /\ m \in ToSet(queue[k]) <=> Awaits(m, stage[m], k)
    BY <1>1, <1>16 DEF InLines
  <2>1. CASE m = l
    BY <1>7, <2>0, <2>1 DEF Awaits
  <2>2. CASE \E j : m \in G(j)
    <3>1. PICK j : m \in G(j)
      BY <2>2
    <3>2. ~Awaits(m, stage'[m], k)
      BY <1>8, <1>10, <3>1
    <3>3. Awaits(m, stage[m], k) => k = j
      BY <1>4, <3>1, OneWaitAtATime
    <3> QED
      BY <2>0, <3>1, <3>2, <3>3
  <2>3. CASE m # l /\ \A j : m \notin G(j)
    BY <1>9, <2>0, <2>3
  <2> QED
    BY <2>1, <2>2, <2>3
<1>20. Standing'
  <2> SUFFICES ASSUME NEW m \in Lenses
               PROVE  Stands(m, stage'[m], holds'[m], aborted'[m])
    BY DEF Standing
  <2>1. CASE m = l
    BY <1>7, <2>1 DEF Stands, Passed
  <2>2. CASE \E j : m \in G(j)
    <3>1. PICK j : m \in G(j)
      BY <2>2
    <3>2. Stands(m, PastQueue(m), holds[m] \cup {j}, aborted[m])
      BY <1>10, <3>1
    <3> QED
      BY <1>8, <3>1, <3>2
  <2>3. CASE m # l /\ \A j : m \notin G(j)
    BY <1>1, <1>9, <2>3 DEF Standing
  <2> QED
    BY <2>1, <2>2, <2>3
<1>21. ASSUME NEW k \in Keys PROVE PoolMoves(k)
  <2>1. CASE k \notin K
    BY <1>11, <2>1 DEF PoolMoves, HostAndModels!Rest
  <2>2. CASE k \in K
    BY <1>14, <1>15, <2>2 DEF PoolMoves, HostAndModels!Step
  <2> QED
    BY <2>1, <2>2
<1> QED
  BY <1>17, <1>18, <1>19, <1>20, <1>21 DEF LensIInv

\* Every step of the lenses keeps the invariant, and is a step of the pools or none.
LEMMA LensNextIInv ==
  ASSUME LensIInv, [LensNext]_lensVars
  PROVE  LensIInv' /\ [HostAndModels!Next]_HostAndModels!vars
<1>1. CASE UNCHANGED lensVars
  <2>1. \A k \in Keys : Inside(k)' = Inside(k)
    BY <1>1 DEF lensVars, Inside
  <2>2. LensIInv'
    BY <1>1, <2>1
    DEF lensVars, LensIInv, LensTypeOK, InLines, Standing, PoolsFilled
  <2>3. UNCHANGED HostAndModels!vars
    BY <1>1, <2>1 DEF lensVars, HostAndModels!vars
  <2> QED
    BY <2>2, <2>3
<1>2. CASE LensNext
  <2>1. PICK l \in Lenses : Start(l) \/ Abort(l) \/ Proceed(l)
    BY <1>2 DEF LensNext
  <2>2. CASE Start(l)
    <3>1. HostKey \in Keys
      BY KeysAndCaps
    <3> QED
      BY <2>2, <3>1, TakeSlotKeeps DEF Start, AsksFor, PoolMoves, HostAndModels!Next
  <2>3. CASE TakeModel(l)
    <3>1. modelOf[l] \in Keys
      BY KeysAndCaps
    <3> QED
      BY <2>3, <3>1, TakeSlotKeeps DEF TakeModel, AsksFor, PoolMoves, HostAndModels!Next
  <2>4. CASE Run(l)
    BY <2>4, RunKeeps DEF PoolMoves, HostAndModels!Next
  <2>5. CASE Abort(l)
    BY <2>5, AbortKeeps DEF PoolMoves, HostAndModels!Next
  <2>6. CASE Finish(l)
    BY <2>6, FinishKeeps DEF PoolMoves, HostAndModels!Next
  <2> QED
    BY <2>1, <2>2, <2>3, <2>4, <2>5, <2>6 DEF Proceed
<1> QED
  BY <1>1, <1>2

\* The invariant, for ever.
LEMMA LensInvariance == LensSpec => []LensIInv
BY LensInitially, LensNextIInv, PTL DEF LensSpec

\* No count goes below zero and no lens holds what is no slot (lens-model-slots.ts:46-98).
THEOREM LensTyping == LensSpec => []LensTypeOK
<1>1. LensIInv => LensTypeOK
  BY DEF LensIInv
<1> QED
  BY <1>1, LensInvariance, PTL

\* A child that was not aborted runs with its host slot and its model's, whatever the releases
\* and the grants in between (lens-model-slots.ts:101-124).
THEOREM LensHoldsItsSlots == LensSpec => []RunningHoldsItsSlots
<1>1. LensIInv => RunningHoldsItsSlots
  <2> SUFFICES ASSUME LensIInv, NEW l \in Lenses, stage[l] = "running", ~aborted[l]
               PROVE  holds[l] = { k \in {HostKey, modelOf[l]} : Cap(k) # 0 }
    BY DEF RunningHoldsItsSlots
  <2> QED
    BY DEF LensIInv, Standing, Stands, Passed
<1> QED
  BY <1>1, LensInvariance, PTL

\* The host's pool and each model's are SlotPools, for every number of lenses, models and slots:
\* no cap is exceeded and no arrival gets in past a queued lens (lens-model-slots.ts:46-98).
THEOREM LensPoolsAreSlotPools == LensSpec => PoolsKeepTheirPromise
<1>1. LensInit => HostAndModels!Init
  BY LensInitially
<1>2. LensIInv /\ [LensNext]_lensVars => [HostAndModels!Next]_HostAndModels!vars
  BY LensNextIInv
<1> QED
  BY <1>1, <1>2, LensInvariance, PTL DEF LensSpec, PoolsKeepTheirPromise, HostAndModels!Spec

-----------------------------------------------------------------------------
(* HostSpawnSlots *)

\* The inductive invariant.  A dead process is nowhere; what lies in a slot is a live process only
\* while it holds that slot; who works under a reap lock does so alone; and while no lock was
\* lost and nobody overslept, a holder that is not stopped keeps beating a slot of its own, what
\* is about to be unlinked may be, and no claim fails.
DeadAreGone ==
  /\ \A p \in Procs : pc[p] = "dead" <=> ~alive[p]
  /\ kept \cup stopped \subseteq { p \in Procs : alive[p] }

LiveHoldTheirSlots ==
  \A s \in Slots, q \in Procs : slot[s] = q /\ alive[q] => q \in Bounded /\ at[q] = s

ReapsUnderLock ==
  ~lockLost => \A p \in Procs, s \in Slots : Reaping(p, s) =>
    reapLock[s] = "fresh" /\ \A q \in Procs : Reaping(q, s) => q = p

HoldersBeat ==
  InOrder => \A p \in Bounded \ stopped : slot[at[p]] = p /\ ~silent[at[p]]

UnlinksReclaimable ==
  InOrder => \A p \in Procs : /\ pc[p] = "unlink" => Reclaimable(p, at[p])
                              /\ pc[p] \notin {"unlockFailed", "unbounded"}

HostIInv == /\ TypeOK /\ DeadAreGone /\ LiveHoldTheirSlots
            /\ ReapsUnderLock /\ HoldersBeat /\ UnlinksReclaimable

\* The slots are 0 to the ceiling, exclusive, and the next one is one of them.
LEMMA SlotsGoRound == 0 \in Slots /\ \A s \in Slots : (s + 1) % CAP \in Slots
BY HostAssumption DEF Slots

\* The slot directory is empty, and nobody holds, reaps or waits.
LEMMA HostInitially == Init => HostIInv
<1> SUFFICES ASSUME Init PROVE HostIInv
  OBVIOUS
<1>1. alive \in [Procs -> BOOLEAN] /\ silent \in [Slots -> BOOLEAN] /\ \A p \in Procs : alive[p]
  BY Zenon DEF Init
<1>2. TypeOK
  <2>1. lockLost \in BOOLEAN /\ overslept \in BOOLEAN
    BY Zenon DEF Init
  <2>2. stops \in 0..MAX_STOPS
    BY HostAssumption DEF Init
  <2> QED
    BY <1>1, <2>1, <2>2, SlotsGoRound DEF Init, TypeOK, PCs
<1>3. DeadAreGone
  BY <1>1 DEF Init, DeadAreGone
<1>4. LiveHoldTheirSlots
  BY HostAssumption DEF Init, LiveHoldTheirSlots
<1>5. ReapsUnderLock /\ HoldersBeat /\ UnlinksReclaimable
  BY DEF Init, ReapsUnderLock, HoldersBeat, UnlinksReclaimable, Reaping, Bounded
<1> QED
  BY <1>2, <1>3, <1>4, <1>5 DEF HostIInv

\* A step of one process from call to call that leaves the slot files alone, and is no holder's.
Walk(p) ==
  /\ p \notin stopped /\ pc[p] \notin {"running", "release", "dead", "unlink"}
  /\ pc' \in [Procs -> PCs] /\ at' \in [Procs -> Slots]
  /\ pc'[p] \notin {"running", "release", "dead", "unlockFailed"}
  /\ pc'[p] = "unlink" => Reclaimable(p, at[p]) /\ at'[p] = at[p]
  /\ pc'[p] = "unbounded" => pc[p] = "unlockFailed"
  /\ \A q \in Procs \ {p} : pc'[q] = pc[q] /\ at'[q] = at[q]
  /\ UNCHANGED <<Files, kept, Host>>
  /\ reapLock' \in [Slots -> {"none", "fresh", "old"}]
  /\ lockLost' \in BOOLEAN /\ (~lockLost' => ~lockLost)

Walks(p) == \/ Ask(p) \/ Occupied(p) \/ JudgeTakes(p) \/ JudgePasses(p) \/ Lock(p) \/ Clear(p)
            \/ Relock(p) \/ Rejudge(p) \/ Unlock(p) \/ FailOpen(p) \/ RelinkFails(p) \/ Poll(p)
            \/ StopWaiting(p) \/ UnboundedEnds(p)

\* The calls that claim, judge, lock and wait are such steps (host-spawn-slots.ts:230-309).
LEMMA WalksWalk ==
  ASSUME TypeOK, NEW p \in Procs, Walks(p)
  PROVE  Walk(p)
<1>1. /\ pc \in [Procs -> PCs] /\ at \in [Procs -> Slots] /\ lockLost \in BOOLEAN
      /\ reapLock \in [Slots -> {"none", "fresh", "old"}]
  BY DEF TypeOK
<1>2. CASE Ask(p)
  BY <1>1, <1>2 DEF Ask, Goto, Walk, PCs
<1>3. CASE Occupied(p)
  BY <1>1, <1>3 DEF Occupied, Goto, Walk, PCs
<1>4. CASE JudgeTakes(p)
  BY <1>1, <1>4 DEF JudgeTakes, Goto, Walk, PCs
<1>5. CASE JudgePasses(p)
  BY <1>1, <1>5, SlotsGoRound DEF JudgePasses, NextSlot, Goto, Walk, PCs
<1>6. CASE Lock(p)
  BY <1>1, <1>6 DEF Lock, SetLock, Goto, Walk, PCs
<1>7. CASE Clear(p)
  <2>1. lockLost' \in BOOLEAN /\ (~lockLost' => ~lockLost)
    BY <1>1, <1>7, Zenon DEF Clear
  <2> QED
    BY <1>1, <1>7, <2>1 DEF Clear, SetLock, Goto, Walk, PCs
<1>8. CASE Relock(p)
  BY <1>1, <1>8 DEF Relock, SetLock, Goto, Walk, PCs
<1>9. CASE Rejudge(p)
  BY <1>1, <1>9 DEF Rejudge, Goto, Walk, PCs
<1>10. CASE Unlock(p)
  BY <1>1, <1>10 DEF Unlock, SetLock, Goto, Walk, PCs
<1>11. CASE FailOpen(p)
  BY <1>1, <1>11, SlotsGoRound DEF FailOpen, Forget, Goto, Walk, PCs
<1>12. CASE RelinkFails(p)
  BY <1>1, <1>12, SlotsGoRound DEF RelinkFails, NextSlot, Goto, Walk, PCs
<1>13. CASE Poll(p)
  BY <1>1, <1>13 DEF Poll, Goto, Walk, PCs
<1>14. CASE StopWaiting(p)
  BY <1>1, <1>14 DEF StopWaiting, Goto, Walk, PCs
<1>15. CASE UnboundedEnds(p)
  BY <1>1, <1>15 DEF UnboundedEnds, Goto, Walk, PCs
<1> QED
  BY <1>2, <1>3, <1>4, <1>5, <1>6, <1>7, <1>8, <1>9, <1>10, <1>11, <1>12, <1>13, <1>14, <1>15
  DEF Walks

\* They disturb no holder, and judge before they unlink.
LEMMA WalkKeeps ==
  ASSUME HostIInv, NEW p \in Procs, Walk(p)
  PROVE  TypeOK' /\ DeadAreGone' /\ LiveHoldTheirSlots' /\ HoldersBeat' /\ UnlinksReclaimable'
<1>1. TypeOK /\ DeadAreGone /\ LiveHoldTheirSlots /\ HoldersBeat /\ UnlinksReclaimable
  BY DEF HostIInv
<1>2. TypeOK'
  BY <1>1 DEF Walk, TypeOK, Files, Host
<1>3. DeadAreGone'
  BY <1>1 DEF Walk, DeadAreGone, Host
<1>4. Bounded' = Bounded /\ p \notin Bounded
  BY DEF Walk, Bounded
<1>5. LiveHoldTheirSlots'
  BY <1>1, <1>4 DEF Walk, LiveHoldTheirSlots, Files, Host, Bounded
<1>6. InOrder' => InOrder
  BY DEF Walk, InOrder, Host
<1>7. HoldersBeat'
  BY <1>1, <1>4, <1>6 DEF Walk, HoldersBeat, Files, Host, Bounded
<1>8. UnlinksReclaimable'
  <2> SUFFICES ASSUME InOrder', NEW q \in Procs
               PROVE  /\ pc'[q] = "unlink" => Reclaimable(q, at[q])'
                      /\ pc'[q] \notin {"unlockFailed", "unbounded"}
    BY DEF UnlinksReclaimable
  <2>1. pc[q] = "unlink" => Reclaimable(q, at[q])
    BY <1>1, <1>6 DEF UnlinksReclaimable
  <2>2. pc[q] \notin {"unlockFailed", "unbounded"}
    BY <1>1, <1>6 DEF UnlinksReclaimable
  <2> QED
    BY <2>1, <2>2 DEF Walk, Reclaimable, Files, Host
<1> QED
  BY <1>2, <1>3, <1>5, <1>7, <1>8

\* Who works under which reap lock.  A step that leaves the locks alone starts no such work;
\* a lock is taken where none stands, and removed by the one who took it or when it is old.
LEMMA ReapersKeep ==
  ASSUME TypeOK, ReapsUnderLock, Next
  PROVE  ReapsUnderLock'
<1> DEFINE Quiet == /\ reapLock' = reapLock /\ lockLost' = lockLost
                    /\ \A q \in Procs, s \in Slots : Reaping(q, s)' => Reaping(q, s)
           Takes(p) == /\ reapLock[at[p]] = "none" /\ reapLock' = [reapLock EXCEPT ![at[p]] = "fresh"]
                       /\ lockLost' = lockLost /\ at' = at
                       /\ \A q \in Procs \ {p} : pc'[q] = pc[q]
           Gives(p) == /\ Reaping(p, at[p]) /\ reapLock' = [reapLock EXCEPT ![at[p]] = "none"]
                       /\ lockLost' = lockLost /\ \A s \in Slots : ~Reaping(p, s)'
                       /\ \A q \in Procs \ {p} : pc'[q] = pc[q] /\ at'[q] = at[q]
<1>1. /\ pc \in [Procs -> PCs] /\ at \in [Procs -> Slots] /\ lockLost \in BOOLEAN
      /\ reapLock \in [Slots -> {"none", "fresh", "old"}]
  BY DEF TypeOK
<1>2. Quiet => ReapsUnderLock'
  BY DEF ReapsUnderLock
<1>3. ASSUME NEW p \in Procs, Takes(p) PROVE ReapsUnderLock'
  <2>1. at[p] \in Slots
    BY <1>1
  <2>2. \A q \in Procs, s \in Slots : Reaping(q, s)' => Reaping(q, s) \/ (q = p /\ s = at[p])
    <3>1. at' = at /\ \A q \in Procs \ {p} : pc'[q] = pc[q]
      BY <1>3
    <3> QED
      BY <3>1 DEF Reaping
  <2>3. \A q \in Procs : ~lockLost => ~Reaping(q, at[p])
    BY <1>3, <2>1 DEF ReapsUnderLock
  <2> QED
    BY <1>1, <1>3, <2>1, <2>2, <2>3 DEF ReapsUnderLock
<1>4. ASSUME NEW p \in Procs, Gives(p) PROVE ReapsUnderLock'
  <2>1. \A q \in Procs, s \in Slots : Reaping(q, s)' => q # p /\ Reaping(q, s)
    BY <1>4 DEF Reaping
  <2>2. \A q \in Procs \ {p} : ~lockLost => ~Reaping(q, at[p])
    BY <1>1, <1>4 DEF ReapsUnderLock
  <2> QED
    BY <1>1, <1>4, <2>1, <2>2 DEF ReapsUnderLock
<1> HIDE DEF Quiet, Takes, Gives
<1>5. ASSUME NEW s \in Slots, FallsSilent(s) PROVE ReapsUnderLock'
  BY <1>2, <1>5 DEF FallsSilent, Quiet, Reaping
<1>6. ASSUME NEW s \in Slots, LockAges(s) PROVE ReapsUnderLock'
  <2>1. /\ ~lockLost' => ~lockLost /\ \A q \in Procs : ~Reaping(q, s)
        /\ reapLock' = [reapLock EXCEPT ![s] = "old"] /\ UNCHANGED <<pc, at>>
    BY <1>1, <1>6, Zenon DEF LockAges
  <2>2. \A q \in Procs, j \in Slots : Reaping(q, j)' => Reaping(q, j)
    BY <2>1 DEF Reaping
  <2> QED
    BY <1>1, <2>1, <2>2 DEF ReapsUnderLock
<1>7. ASSUME NEW p \in Procs, Lock(p) PROVE ReapsUnderLock'
  <2>1. Quiet \/ Takes(p)
    BY <1>1, <1>7 DEF Lock, SetLock, Goto, Quiet, Takes, Reaping
  <2> QED
    BY <1>2, <1>3, <2>1
<1>8. ASSUME NEW p \in Procs, Clear(p) PROVE ReapsUnderLock'
  <2>1. \A q \in Procs, s \in Slots : Reaping(q, s)' => Reaping(q, s)
    BY <1>1, <1>8 DEF Clear, SetLock, Goto, Reaping
  <2>2. CASE reapLock[at[p]] = "none"
    BY <1>2, <1>8, <2>1, <2>2 DEF Clear, Quiet
  <2>3. CASE reapLock[at[p]] # "none"
    <3>1. /\ ~lockLost' => ~lockLost /\ reapLock[at[p]] # "fresh"
          /\ reapLock' = [reapLock EXCEPT ![at[p]] = "none"]
      BY <1>1, <1>8, <2>3, Zenon DEF Clear, SetLock
    <3>2. ~lockLost => \A q \in Procs : Reaping(q, at[p]) => reapLock[at[p]] = "fresh"
      BY <1>1 DEF ReapsUnderLock
    <3> QED
      BY <1>1, <2>1, <3>1, <3>2 DEF ReapsUnderLock
  <2> QED
    BY <2>2, <2>3
<1>9. ASSUME NEW p \in Procs, Relock(p) PROVE ReapsUnderLock'
  <2>1. Quiet \/ Takes(p)
    BY <1>1, <1>9 DEF Relock, SetLock, Goto, Quiet, Takes, Reaping
  <2> QED
    BY <1>2, <1>3, <2>1
<1>10. ASSUME NEW p \in Procs, Unlock(p) \/ FailOpen(p) PROVE ReapsUnderLock'
  <2>1. Gives(p)
    BY <1>1, <1>10, SlotsGoRound DEF Unlock, FailOpen, SetLock, Forget, Goto, Gives, Reaping
  <2> QED
    BY <1>4, <2>1
<1>11. ASSUME NEW p \in Procs,
              \/ Ask(p) \/ Claim(p, "link") \/ Occupied(p) \/ JudgeTakes(p) \/ JudgePasses(p)
              \/ Claim(p, "relink") \/ RelinkFails(p) \/ Poll(p) \/ StopWaiting(p)
              \/ ReleaseRead(p) \/ Release(p) \/ UnboundedEnds(p) \/ Die(p)
       PROVE  ReapsUnderLock'
  <2>1. /\ reapLock' = reapLock /\ lockLost' = lockLost
        /\ pc'[p] \notin {"reap", "unlink", "unlock", "unlockFailed"}
        /\ \A q \in Procs \ {p} : pc'[q] = pc[q] /\ at'[q] = at[q]
    BY <1>1, <1>11 DEF Ask, Claim, Occupied, JudgeTakes, JudgePasses, NextSlot, RelinkFails, Poll,
       StopWaiting, ReleaseRead, Release, UnboundedEnds, Die, NoMore, Forget, Goto
  <2> QED
    BY <1>2, <2>1 DEF Quiet, Reaping
<1>12. ASSUME NEW p \in Procs, Rejudge(p) \/ Unlink(p) PROVE ReapsUnderLock'
  BY <1>1, <1>2, <1>12 DEF Rejudge, Unlink, Goto, Quiet, Reaping
<1>13. ASSUME NEW p \in Procs, Beat(p) \/ Stop(p) \/ Continue(p) PROVE ReapsUnderLock'
  BY <1>2, <1>13 DEF Beat, Stop, Continue, Quiet, Reaping
<1> QED
  BY <1>5, <1>6, <1>7, <1>8, <1>9, <1>10, <1>11, <1>12, <1>13 DEF Next, Clocks, Claiming

\* A claim takes an empty slot, and holds and beats it (host-spawn-slots.ts:230-246).
LEMMA ClaimKeeps ==
  ASSUME HostIInv, NEW p \in Procs, NEW from \in {"link", "relink"}, Claim(p, from)
  PROVE  TypeOK' /\ DeadAreGone' /\ LiveHoldTheirSlots' /\ HoldersBeat' /\ UnlinksReclaimable'
<1> DEFINE t == at[p]
<1>1. /\ TypeOK /\ DeadAreGone /\ LiveHoldTheirSlots /\ HoldersBeat /\ UnlinksReclaimable
      /\ pc \in [Procs -> PCs] /\ at \in [Procs -> Slots] /\ t \in Slots
      /\ slot \in [Slots -> Procs \cup {NoFile}] /\ silent \in [Slots -> BOOLEAN]
  BY DEF HostIInv, TypeOK
<1>2. /\ slot[t] = NoFile /\ pc[p] = from /\ p \notin stopped
      /\ pc' = [pc EXCEPT ![p] = "running"] /\ slot' = [slot EXCEPT ![t] = p]
      /\ silent' = [silent EXCEPT ![t] = FALSE] /\ kept' = kept \cup {p}
      /\ UNCHANGED <<reapLock, at, alive, stopped, stops, overslept, lockLost>>
  BY DEF Claim, Goto, Host
<1>3. NoFile \notin Procs
  BY HostAssumption
<1>4. TypeOK'
  BY <1>1, <1>2 DEF TypeOK, PCs
<1>5. DeadAreGone'
  BY <1>1, <1>2 DEF DeadAreGone
<1>6. Bounded' = Bounded \cup {p} /\ p \notin Bounded
  BY <1>1, <1>2 DEF Bounded
<1>7. LiveHoldTheirSlots'
  BY <1>1, <1>2, <1>3, <1>6 DEF LiveHoldTheirSlots
<1>8. HoldersBeat'
  BY <1>1, <1>2, <1>3, <1>6 DEF HoldersBeat, InOrder, Bounded
<1>9. UnlinksReclaimable'
  BY <1>1, <1>2 DEF UnlinksReclaimable, Reclaimable, InOrder
<1> QED
  BY <1>4, <1>5, <1>7, <1>8, <1>9

\* A reclaimable slot is removed, which is no live holder's that is not stopped
\* (host-spawn-slots.ts:271-288).
LEMMA UnlinkKeeps ==
  ASSUME HostIInv, NEW p \in Procs, Unlink(p)
  PROVE  TypeOK' /\ DeadAreGone' /\ LiveHoldTheirSlots' /\ HoldersBeat' /\ UnlinksReclaimable'
<1> DEFINE t == at[p]
<1>1. /\ TypeOK /\ DeadAreGone /\ LiveHoldTheirSlots /\ HoldersBeat /\ UnlinksReclaimable
      /\ ReapsUnderLock
      /\ pc \in [Procs -> PCs] /\ at \in [Procs -> Slots] /\ t \in Slots
      /\ slot \in [Slots -> Procs \cup {NoFile}] /\ silent \in [Slots -> BOOLEAN]
  BY DEF HostIInv, TypeOK
<1>2. /\ pc[p] = "unlink" /\ p \notin stopped
      /\ pc' = [pc EXCEPT ![p] = IF slot[t] = NoFile THEN "unlockFailed" ELSE "unlock"]
      /\ slot' = [slot EXCEPT ![t] = NoFile] /\ silent' = [silent EXCEPT ![t] = FALSE]
      /\ UNCHANGED <<reapLock, at, kept, alive, stopped, stops, overslept, lockLost>>
  BY DEF Unlink, NoMore, Goto, Host
<1>3. NoFile \notin Procs
  BY HostAssumption
<1>4. TypeOK'
  BY <1>1, <1>2 DEF TypeOK, PCs
<1>5. DeadAreGone'
  BY <1>1, <1>2 DEF DeadAreGone
<1>6. Bounded' = Bounded /\ p \notin Bounded
  BY <1>1, <1>2 DEF Bounded
<1>7. LiveHoldTheirSlots'
  BY <1>1, <1>2, <1>3, <1>6 DEF LiveHoldTheirSlots
<1>8. InOrder => Reclaimable(p, t)
  BY <1>1, <1>2 DEF UnlinksReclaimable
<1>9. HoldersBeat'
  <2> SUFFICES ASSUME InOrder, NEW q \in Bounded \ stopped PROVE at[q] # t
    BY <1>1, <1>2, <1>6 DEF HoldersBeat, InOrder, Bounded
  <2>1. slot[at[q]] = q /\ ~silent[at[q]] /\ alive[q]
    BY <1>1 DEF HoldersBeat, DeadAreGone, Bounded
  <2> QED
    BY <1>8, <2>1 DEF Reclaimable
<1>10. UnlinksReclaimable'
  <2> SUFFICES ASSUME InOrder, NEW q \in Procs
               PROVE  /\ pc'[q] = "unlink" => Reclaimable(q, at[q])'
                      /\ pc'[q] \notin {"unlockFailed", "unbounded"}
    BY <1>2 DEF UnlinksReclaimable, InOrder
  <2>1. CASE q = p
    BY <1>1, <1>2, <1>8, <2>1 DEF Reclaimable
  <2>2. CASE q # p
    <3>1. pc'[q] = pc[q] /\ pc[q] \notin {"unlockFailed", "unbounded"}
      BY <1>1, <1>2, <2>2 DEF UnlinksReclaimable
    <3>2. pc[q] = "unlink" => at[q] # t /\ Reclaimable(q, at[q])
      BY <1>1, <1>2, <2>2 DEF UnlinksReclaimable, ReapsUnderLock, Reaping, InOrder
    <3> QED
      BY <1>1, <1>2, <3>1, <3>2 DEF Reclaimable
  <2> QED
    BY <2>1, <2>2
<1> QED
  BY <1>4, <1>5, <1>7, <1>9, <1>10

\* A heartbeat renews one's own slot, and only that (host-spawn-slots.ts:334-370).
LEMMA BeatKeeps ==
  ASSUME HostIInv, NEW p \in Procs, Beat(p)
  PROVE  TypeOK' /\ DeadAreGone' /\ LiveHoldTheirSlots' /\ HoldersBeat' /\ UnlinksReclaimable'
<1> DEFINE t == at[p]
<1>1. /\ TypeOK /\ DeadAreGone /\ LiveHoldTheirSlots /\ HoldersBeat /\ UnlinksReclaimable
      /\ at \in [Procs -> Slots] /\ t \in Slots
      /\ slot \in [Slots -> Procs \cup {NoFile}] /\ silent \in [Slots -> BOOLEAN]
  BY DEF HostIInv, TypeOK
<1>2. /\ p \in kept /\ p \notin stopped /\ kept' \subseteq kept
      /\ (silent' = silent) \/ (slot[t] = p /\ silent' = [silent EXCEPT ![t] = FALSE])
      /\ UNCHANGED <<slot, reapLock, pc, at, alive, stopped, stops, overslept, lockLost>>
  BY DEF Beat, Host
<1>3. TypeOK'
  BY <1>1, <1>2 DEF TypeOK
<1>4. DeadAreGone' /\ alive[p]
  BY <1>1, <1>2 DEF DeadAreGone
<1>5. LiveHoldTheirSlots'
  BY <1>1, <1>2 DEF LiveHoldTheirSlots, Bounded
<1>6. HoldersBeat'
  BY <1>1, <1>2 DEF HoldersBeat, InOrder, Bounded
<1>7. UnlinksReclaimable'
  <2> SUFFICES ASSUME InOrder, NEW q \in Procs, pc[q] = "unlink", Reclaimable(q, at[q])
               PROVE  Reclaimable(q, at[q])'
    BY <1>1, <1>2 DEF UnlinksReclaimable, InOrder
  <2>1. slot[t] = p => p \in Bounded
    BY <1>1, <1>4 DEF LiveHoldTheirSlots
  <2>2. slot[t] = p => ~silent[t]
    BY <1>1, <1>2, <2>1 DEF HoldersBeat
  <2> QED
    BY <1>1, <1>2, <1>4, <2>2 DEF Reclaimable
<1> QED
  BY <1>3, <1>4, <1>5, <1>6, <1>7

\* A holder whose child settled gives its slot back, or has none to give
\* (host-spawn-slots.ts:323-332).
LEMMA ReleaseKeeps ==
  ASSUME HostIInv, NEW p \in Procs, ReleaseRead(p) \/ Release(p)
  PROVE  TypeOK' /\ DeadAreGone' /\ LiveHoldTheirSlots' /\ HoldersBeat' /\ UnlinksReclaimable'
<1> DEFINE t == at[p]
<1>1. /\ TypeOK /\ DeadAreGone /\ LiveHoldTheirSlots /\ HoldersBeat /\ UnlinksReclaimable
      /\ pc \in [Procs -> PCs] /\ at \in [Procs -> Slots] /\ t \in Slots
      /\ slot \in [Slots -> Procs \cup {NoFile}] /\ silent \in [Slots -> BOOLEAN]
  BY DEF HostIInv, TypeOK
<1>2. p \in Bounded /\ p \notin stopped /\ pc[p] \in {"running", "release"}
  BY DEF Bounded, ReleaseRead, Release, Goto
<1>3. InOrder => slot[t] = p
  BY <1>1, <1>2 DEF HoldersBeat
<1>4. CASE ReleaseRead(p)
  <2>1. /\ pc' = [pc EXCEPT ![p] = IF slot[t] = p THEN "release" ELSE "idle"]
        /\ kept' = kept \ {p} /\ at' = (IF slot[t] = p THEN at ELSE [at EXCEPT ![p] = 0])
        /\ UNCHANGED <<slot, silent, reapLock, alive, stopped, stops, overslept, lockLost>>
    BY <1>4 DEF ReleaseRead, Goto, Forget, Files, Host
  <2>2. TypeOK'
    BY <1>1, <2>1, SlotsGoRound DEF TypeOK, PCs
  <2>3. DeadAreGone'
    BY <1>1, <1>2, <2>1 DEF DeadAreGone
  <2>4. LiveHoldTheirSlots'
    BY <1>1, <2>1 DEF LiveHoldTheirSlots, Bounded
  <2>5. HoldersBeat'
    <3> SUFFICES ASSUME InOrder, NEW q \in Bounded' \ stopped
                 PROVE  slot[at'[q]] = q /\ ~silent[at'[q]]
      BY <2>1 DEF HoldersBeat, InOrder
    <3>1. q \in Bounded /\ at'[q] = at[q]
      BY <1>1, <1>2, <1>3, <2>1 DEF Bounded
    <3> QED
      BY <1>1, <3>1 DEF HoldersBeat
  <2>6. UnlinksReclaimable'
    BY <1>1, <2>1 DEF UnlinksReclaimable, Reclaimable, InOrder
  <2> QED
    BY <2>2, <2>3, <2>4, <2>5, <2>6
<1>5. CASE Release(p)
  <2>1. /\ pc' = [pc EXCEPT ![p] = "idle"] /\ at' = [at EXCEPT ![p] = 0]
        /\ slot' = [slot EXCEPT ![t] = NoFile] /\ silent' = [silent EXCEPT ![t] = FALSE]
        /\ UNCHANGED <<reapLock, kept, alive, stopped, stops, overslept, lockLost>>
    BY <1>5 DEF Release, NoMore, Goto, Forget, Host
  <2>2. NoFile \notin Procs
    BY HostAssumption
  <2>3. TypeOK'
    BY <1>1, <2>1, SlotsGoRound DEF TypeOK, PCs
  <2>4. DeadAreGone'
    BY <1>1, <1>2, <2>1 DEF DeadAreGone
  <2>5. LiveHoldTheirSlots'
    BY <1>1, <2>1, <2>2 DEF LiveHoldTheirSlots, Bounded
  <2>6. HoldersBeat'
    BY <1>1, <1>3, <2>1 DEF HoldersBeat, InOrder, Bounded
  <2>7. UnlinksReclaimable'
    <3> SUFFICES ASSUME InOrder, NEW q \in Procs, q # p, pc[q] = "unlink", Reclaimable(q, at[q])
                 PROVE  at[q] # t
      BY <1>1, <2>1 DEF UnlinksReclaimable, Reclaimable, InOrder
    <3>1. slot[t] = p /\ ~silent[t] /\ alive[p]
      BY <1>1, <1>2 DEF HoldersBeat, DeadAreGone
    <3> QED
      BY <3>1 DEF Reclaimable
  <2> QED
    BY <2>3, <2>4, <2>5, <2>6, <2>7
<1> QED
  BY <1>4, <1>5

\* kill -9, SIGSTOP and SIGCONT.
LEMMA SignalsKeep ==
  ASSUME HostIInv, NEW p \in Procs, Die(p) \/ Stop(p) \/ Continue(p)
  PROVE  TypeOK' /\ DeadAreGone' /\ LiveHoldTheirSlots' /\ HoldersBeat' /\ UnlinksReclaimable'
<1>1. /\ TypeOK /\ DeadAreGone /\ LiveHoldTheirSlots /\ HoldersBeat /\ UnlinksReclaimable
      /\ pc \in [Procs -> PCs] /\ at \in [Procs -> Slots] /\ alive \in [Procs -> BOOLEAN]
      /\ stops \in 0..MAX_STOPS /\ overslept \in BOOLEAN
  BY DEF HostIInv, TypeOK
<1>2. UNCHANGED <<slot, silent, reapLock, lockLost>>
  BY DEF Die, Stop, Continue, Files
<1>3. CASE Die(p)
  <2>1. /\ alive' = [alive EXCEPT ![p] = FALSE] /\ pc' = [pc EXCEPT ![p] = "dead"]
        /\ kept' = kept \ {p} /\ stopped' = stopped \ {p} /\ at' = [at EXCEPT ![p] = 0]
        /\ UNCHANGED <<stops, overslept>>
    BY <1>3 DEF Die, Forget
  <2>2. TypeOK'
    BY <1>1, <1>2, <2>1, SlotsGoRound DEF TypeOK, PCs
  <2>3. DeadAreGone'
    BY <1>1, <2>1 DEF DeadAreGone
  <2>4. LiveHoldTheirSlots'
    BY <1>1, <1>2, <2>1 DEF LiveHoldTheirSlots, Bounded
  <2>5. HoldersBeat'
    BY <1>1, <1>2, <2>1 DEF HoldersBeat, InOrder, Bounded
  <2>6. UnlinksReclaimable'
    BY <1>1, <1>2, <2>1 DEF UnlinksReclaimable, Reclaimable, InOrder
  <2> QED
    BY <2>2, <2>3, <2>4, <2>5, <2>6
<1>4. CASE Stop(p)
  <2>1. /\ alive[p] /\ stopped' = stopped \cup {p} /\ stops' = stops + 1 /\ stops < MAX_STOPS
        /\ UNCHANGED <<pc, at, kept, alive, overslept>>
    BY <1>4 DEF Stop
  <2>2. TypeOK'
    <3>1. stops' \in 0..MAX_STOPS
      BY <1>1, <2>1, HostAssumption
    <3> QED
      BY <1>1, <1>2, <2>1, <3>1 DEF TypeOK
  <2>3. DeadAreGone'
    BY <1>1, <2>1 DEF DeadAreGone
  <2>4. LiveHoldTheirSlots'
    BY <1>1, <1>2, <2>1 DEF LiveHoldTheirSlots, Bounded
  <2>5. HoldersBeat'
    BY <1>1, <1>2, <2>1 DEF HoldersBeat, InOrder, Bounded
  <2>6. UnlinksReclaimable'
    BY <1>1, <1>2, <2>1 DEF UnlinksReclaimable, Reclaimable, InOrder
  <2> QED
    BY <2>2, <2>3, <2>4, <2>5, <2>6
<1>5. CASE Continue(p)
  <2>1. /\ stopped' = stopped \ {p} /\ UNCHANGED <<pc, at, kept, alive, stops>>
        /\ overslept' \in BOOLEAN /\ (~overslept' => ~overslept /\ ~PastItsLease(p))
    BY <1>1, <1>5, Zenon DEF Continue
  <2>2. TypeOK'
    BY <1>1, <1>2, <2>1 DEF TypeOK
  <2>3. DeadAreGone'
    BY <1>1, <2>1 DEF DeadAreGone
  <2>4. LiveHoldTheirSlots'
    BY <1>1, <1>2, <2>1 DEF LiveHoldTheirSlots, Bounded
  <2>5. InOrder' => InOrder /\ ~PastItsLease(p)
    BY <1>2, <2>1 DEF InOrder
  <2>6. HoldersBeat'
    BY <1>1, <1>2, <2>1, <2>5 DEF HoldersBeat, Bounded, PastItsLease
  <2>7. UnlinksReclaimable'
    BY <1>1, <1>2, <2>1, <2>5 DEF UnlinksReclaimable, Reclaimable
  <2> QED
    BY <2>2, <2>3, <2>4, <2>6, <2>7
<1> QED
  BY <1>3, <1>4, <1>5

\* Time passes over a slot whose holder is dead or stopped, and over a reap lock
\* (host-spawn-slots.ts:93-108).
LEMMA ClocksKeep ==
  ASSUME HostIInv, NEW s \in Slots, FallsSilent(s) \/ LockAges(s)
  PROVE  TypeOK' /\ DeadAreGone' /\ LiveHoldTheirSlots' /\ HoldersBeat' /\ UnlinksReclaimable'
<1>1. /\ TypeOK /\ DeadAreGone /\ LiveHoldTheirSlots /\ HoldersBeat /\ UnlinksReclaimable
      /\ silent \in [Slots -> BOOLEAN] /\ lockLost \in BOOLEAN /\ pc \in [Procs -> PCs]
      /\ at \in [Procs -> Slots]
  BY DEF HostIInv, TypeOK
<1>2. UNCHANGED <<slot, pc, at, kept, alive, stopped, stops, overslept>>
  BY DEF FallsSilent, LockAges, Files, Host
<1>3. DeadAreGone' /\ LiveHoldTheirSlots'
  BY <1>1, <1>2 DEF DeadAreGone, LiveHoldTheirSlots, Bounded
<1>4. CASE FallsSilent(s)
  <2>1. /\ silent' = [silent EXCEPT ![s] = TRUE] /\ UNCHANGED <<reapLock, lockLost>>
        /\ ~alive[slot[s]] \/ slot[s] \in stopped
    BY <1>4 DEF FallsSilent
  <2>2. TypeOK'
    BY <1>1, <1>2, <2>1 DEF TypeOK
  <2>3. HoldersBeat'
    BY <1>1, <1>2, <2>1 DEF HoldersBeat, InOrder, Bounded, DeadAreGone
  <2>4. UnlinksReclaimable'
    BY <1>1, <1>2, <2>1 DEF UnlinksReclaimable, Reclaimable, InOrder
  <2> QED
    BY <1>3, <2>2, <2>3, <2>4
<1>5. CASE LockAges(s)
  <2>1. /\ reapLock' = [reapLock EXCEPT ![s] = "old"] /\ silent' = silent
        /\ lockLost' \in BOOLEAN /\ (~lockLost' => ~lockLost)
    BY <1>1, <1>5, Zenon DEF LockAges, Files
  <2>2. TypeOK'
    BY <1>1, <1>2, <2>1 DEF TypeOK
  <2>3. InOrder' => InOrder
    BY <1>2, <2>1 DEF InOrder
  <2>4. HoldersBeat'
    BY <1>1, <1>2, <2>1, <2>3 DEF HoldersBeat, Bounded
  <2>5. UnlinksReclaimable'
    BY <1>1, <1>2, <2>1, <2>3 DEF UnlinksReclaimable, Reclaimable
  <2> QED
    BY <1>3, <2>2, <2>4, <2>5
<1> QED
  BY <1>4, <1>5

\* Every step of the processes, the host and the clocks keeps the invariant.
LEMMA HostNextIInv == HostIInv /\ [Next]_vars => HostIInv'
<1> SUFFICES ASSUME HostIInv, [Next]_vars PROVE HostIInv'
  OBVIOUS
<1>1. CASE UNCHANGED vars
  BY <1>1 DEF vars, HostIInv, TypeOK, DeadAreGone, LiveHoldTheirSlots, ReapsUnderLock, HoldersBeat,
     UnlinksReclaimable, Bounded, InOrder, Reaping, Reclaimable
<1>2. CASE Next
  <2>1. ReapsUnderLock'
    BY <1>2, ReapersKeep DEF HostIInv
  <2>2. CASE Clocks
    BY <2>1, <2>2, ClocksKeep DEF Clocks, HostIInv
  <2>3. ASSUME NEW p \in Procs, Walks(p) PROVE HostIInv'
    BY <2>1, <2>3, WalksWalk, WalkKeeps DEF HostIInv
  <2>4. ASSUME NEW p \in Procs, Claim(p, "link") \/ Claim(p, "relink") PROVE HostIInv'
    BY <2>1, <2>4, ClaimKeeps DEF HostIInv
  <2>5. ASSUME NEW p \in Procs, Unlink(p) PROVE HostIInv'
    BY <2>1, <2>5, UnlinkKeeps DEF HostIInv
  <2>6. ASSUME NEW p \in Procs, Beat(p) PROVE HostIInv'
    BY <2>1, <2>6, BeatKeeps DEF HostIInv
  <2>7. ASSUME NEW p \in Procs, ReleaseRead(p) \/ Release(p) PROVE HostIInv'
    BY <2>1, <2>7, ReleaseKeeps DEF HostIInv
  <2>8. ASSUME NEW p \in Procs, Die(p) \/ Stop(p) \/ Continue(p) PROVE HostIInv'
    BY <2>1, <2>8, SignalsKeep DEF HostIInv
  <2> QED
    BY <1>2, <2>2, <2>3, <2>4, <2>5, <2>6, <2>7, <2>8 DEF Next, Claiming, Walks
<1> QED
  BY <1>1, <1>2

\* The invariant, for ever.
LEMMA HostInvariance == Spec => []HostIInv
BY HostInitially, HostNextIInv, PTL DEF Spec

\* Slots, reap locks and processes stay what they are, for every number of processes and slots
\* (host-spawn-slots.ts:230-332).
THEOREM HostTyping == Spec => []TypeOK
<1>1. HostIInv => TypeOK
  BY DEF HostIInv
<1> QED
  BY <1>1, HostInvariance, PTL

\* No two processes ever work under the same reap lock, whoever died there before them, unless
\* one was taken from under a live one (host-spawn-slots.ts:252-295).
THEOREM HostReaper == Spec => []OneReaperPerSlot
<1>1. HostIInv => OneReaperPerSlot
  BY DEF HostIInv, ReapsUnderLock, OneReaperPerSlot
<1> QED
  BY <1>1, HostInvariance, PTL

\* The host's ceiling: every holder that is not stopped has a slot file of its own, and nobody
\* runs without one, as long as no reap lock is lost and nobody oversleeps its lease
\* (host-spawn-slots.ts:230-332).
THEOREM HostCeiling == Spec => []CapHoldsInOrder
<1>1. HostIInv => CapHoldsInOrder
  BY DEF HostIInv, HoldersBeat, UnlinksReclaimable, CapHoldsInOrder, Unbounded
<1> QED
  BY <1>1, HostInvariance, PTL

\* Nobody loses its slot alive, but to its own release or, stopped past its lease, to a process
\* that cannot see its pid (host-spawn-slots.ts:148-295).
THEOREM HostSlotsStay == Spec => LiveSlotsStay
<1> DEFINE Stays == \A s \in Slots : LET q == slot[s] IN
       q # NoFile /\ slot'[s] # q /\ alive[q] /\ InOrder =>
         \/ pc[q] = "release"
         \/ q \in stopped /\ \E p \in Procs : /\ pc[p] = "unlink" /\ pc'[p] # "unlink"
                                             /\ at[p] = s /\ spaceOf[p] # spaceOf[q]
<1>1. ASSUME HostIInv, [Next]_vars PROVE [Stays]_vars
  <2> SUFFICES ASSUME Next, NEW s \in Slots, slot[s] # NoFile, slot'[s] # slot[s],
                      alive[slot[s]], InOrder
               PROVE  \/ pc[slot[s]] = "release"
                      \/ /\ slot[s] \in stopped
                         /\ \E p \in Procs : /\ pc[p] = "unlink" /\ pc'[p] # "unlink"
                                             /\ at[p] = s /\ spaceOf[p] # spaceOf[slot[s]]
    BY <1>1
  <2> DEFINE q == slot[s]
  <2>1. /\ slot \in [Slots -> Procs \cup {NoFile}] /\ at \in [Procs -> Slots] /\ q \in Procs
        /\ pc \in [Procs -> PCs]
    BY <1>1 DEF HostIInv, TypeOK
  <2>2. PICK p \in Procs : Claim(p, "link") \/ Claim(p, "relink") \/ Unlink(p) \/ Release(p)
    <3>1. \A p \in Procs : Walks(p) => slot' = slot
      BY <1>1, WalksWalk DEF HostIInv, Walk, Files
    <3>2. \A p \in Procs : Beat(p) \/ ReleaseRead(p) \/ Die(p) \/ Stop(p) \/ Continue(p)
                          => slot' = slot
      BY DEF Beat, ReleaseRead, Die, Stop, Continue, Files
    <3>3. Clocks => slot' = slot
      BY DEF Clocks, FallsSilent, LockAges, Files
    <3> QED
      BY <3>1, <3>2, <3>3 DEF Next, Claiming, Walks
  <2>3. CASE Claim(p, "link") \/ Claim(p, "relink")
    BY <2>1, <2>3 DEF Claim
  <2>4. CASE Unlink(p)
    <3>1. at[p] = s /\ pc[p] = "unlink" /\ pc'[p] # "unlink"
      BY <2>1, <2>4 DEF Unlink, NoMore, Goto
    <3>2. Reclaimable(p, s)
      BY <1>1, <3>1 DEF HostIInv, UnlinksReclaimable
    <3>3. q \in Bounded /\ at[q] = s
      BY <1>1, <2>1 DEF HostIInv, LiveHoldTheirSlots
    <3>4. q \in stopped
      BY <1>1, <3>2, <3>3 DEF HostIInv, HoldersBeat, Reclaimable
    <3> QED
      BY <3>1, <3>2, <3>4 DEF Reclaimable
  <2>5. CASE Release(p)
    <3>1. at[p] = s /\ pc[p] = "release" /\ p \in Bounded \ stopped
      BY <2>1, <2>5 DEF Release, NoMore, Goto, Bounded
    <3> QED
      BY <1>1, <3>1 DEF HostIInv, HoldersBeat
  <2> QED
    BY <2>2, <2>3, <2>4, <2>5
<1>2. HostIInv /\ [Next]_vars => [Stays]_vars
  BY <1>1
<1> QED
  BY <1>2, HostInvariance, PTL DEF Spec, LiveSlotsStay
=============================================================================
