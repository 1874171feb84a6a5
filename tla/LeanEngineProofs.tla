-------------------------- MODULE LeanEngineProofs --------------------------
(***************************************************************************)
(* Theorems about LeanEngine, for every cap of build rounds, every cap of  *)
(* loop turns and any number of crashes.                                   *)
(***************************************************************************)
EXTENDS LeanEngine, LeanMachineProofs, FiniteSetTheorems, WellFoundedInduction

-----------------------------------------------------------------------------
(* Induction.  The log's readings are recursive functions; what they compute  *)
(* of every log follows from the least counterexample.                        *)

\* A set of numbers has a least one: the initial segments of its members are finite
\* sets, and strict inclusion of finite sets is well founded.
LEMMA LeastNumber ==
  ASSUME NEW B \in SUBSET Nat, B # {}
  PROVE  \E m \in B : \A n \in B : m <= n
<1> DEFINE T == { 0..n : n \in B }
<1>1. IsWellFoundedOn(StrictSubsetOrdering(Nat), FiniteSubsetsOf(Nat))
  BY FS_StrictSubsetOrderingWellFounded
<1>2. ASSUME NEW n \in B PROVE 0..n \in FiniteSubsetsOf(Nat)
  <2>1. IsFiniteSet(0..n) /\ 0..n \in SUBSET Nat
    BY FS_Interval
  <2> QED
    BY <2>1 DEF FiniteSubsetsOf
<1>3. T \subseteq FiniteSubsetsOf(Nat)
  BY <1>2
<1>4. T # {}
  OBVIOUS
<1>5. \E x \in T : \A y \in T : <<y, x>> \notin StrictSubsetOrdering(Nat)
  <2> HIDE DEF T
  <2> QED
    BY <1>1, <1>3, <1>4, WFMin
<1>6. PICK m \in B : \A y \in T : <<y, 0..m>> \notin StrictSubsetOrdering(Nat)
  BY <1>5
<1>7. ASSUME NEW n \in B PROVE m <= n
  <2>1. <<0..n, 0..m>> \notin StrictSubsetOrdering(Nat)
    BY <1>6
  <2>2. SUFFICES ASSUME n < m PROVE FALSE
    OBVIOUS
  <2>3. 0..n \subseteq 0..m /\ m \in 0..m /\ m \notin 0..n
    BY <2>2
  <2>4. 0..n \in SUBSET Nat /\ 0..m \in SUBSET Nat /\ 0..n # 0..m
    BY <2>3
  <2> QED
    BY <2>1, <2>3, <2>4 DEF StrictSubsetOrdering
<1> QED
  BY <1>7

\* So what holds at 0 and steps up holds up to n: the set of its indices is 0..n.
LEMMA Induction ==
  ASSUME NEW n \in Nat, NEW S, 0 \in S, \A i \in 0..n-1 : i \in S => i + 1 \in S
  PROVE  0..n \subseteq S
<1> SUFFICES ASSUME NEW k \in 0..n, k \notin S PROVE FALSE
  OBVIOUS
<1> DEFINE B == { i \in 0..n : i \notin S }
<1>1. B \in SUBSET Nat /\ k \in B
  OBVIOUS
<1>2. PICK m \in B : \A i \in B : m <= i
  <2> HIDE DEF B
  <2> QED
    BY <1>1, LeastNumber
<1>3. m # 0 /\ m - 1 \in 0..n-1 /\ m - 1 \notin B
  BY <1>2
<1> QED
  BY <1>2, <1>3

-----------------------------------------------------------------------------
(* The three readings of a log unfold as they are written *)

\* The fold of the log.
LEMMA ReadingsUnfold ==
  ASSUME NEW r, Len(r.steps) \in Nat
  PROVE  Readings(r) = [ i \in 0..Len(r.steps) |->
           IF i = 0 THEN Unread
           ELSE Consume(r, Readings(r)[i - 1], i) ]
<1> DEFINE n == Len(r.steps)
           R(x, i) == Consume(r, x, i)
           G(f, k) == f = [ i \in 0..k |-> IF i = 0 THEN Unread ELSE R(f[i - 1], i) ]
           S == { k \in 0..n : \E f : G(f, k) }
<1>1. Readings(r) = CHOOSE f : G(f, n)
  BY DEF Readings
<1> HIDE DEF n, R
<1>2. n \in Nat
  BY DEF n
<1>3. 0 \in S
  <2>1. G([ i \in 0..0 |-> Unread ], 0)
    OBVIOUS
  <2> HIDE DEF G
  <2> QED
    BY <2>1, <1>2
<1>4. ASSUME NEW k \in 0..n-1, k \in S PROVE k + 1 \in S
  <2>1. PICK f : G(f, k)
    BY <1>4
  <2> DEFINE g == [ i \in 0..k+1 |-> IF i = 0 THEN Unread ELSE R(f[i - 1], i) ]
  <2>2. \A i \in 0..k : g[i] = f[i]
    BY <2>1
  <2>3. \A i \in 0..k+1 : i # 0 => f[i - 1] = g[i - 1]
    <3> HIDE DEF g
    <3> QED
      BY <2>2, <1>2
  <2>4. G(g, k + 1)
    BY <2>3, <1>2
  <2> HIDE DEF G, g
  <2> QED
    BY <2>4, <1>2
<1>5. n \in S
  <2> HIDE DEF S
  <2>1. \A i \in 0..n-1 : i \in S => i + 1 \in S
    BY <1>4
  <2>2. 0..n \subseteq S
    BY <1>3, <2>1, <1>2, Induction
  <2> QED
    BY <2>2, <1>2
<1>6. G(Readings(r), n)
  <2>1. PICK f : G(f, n)
    BY <1>5
  <2> HIDE DEF G
  <2> QED
    BY <2>1, <1>1
<1> QED
  BY <1>6 DEF n, R

\* The newest decided kinds.
LEMMA NewestsUnfold ==
  ASSUME NEW steps, Len(steps) \in Nat
  PROVE  Newests(steps) = [ i \in 0..Len(steps) |->
           IF i = 0 THEN [s \in HANDLER_STATES |-> Undecided]
           ELSE IF steps[i].kind = Undecided THEN Newests(steps)[i - 1] ELSE [Newests(steps)[i - 1] EXCEPT ![steps[i].state] = steps[i].kind] ]
<1> DEFINE n == Len(steps)
           R(x, i) == IF steps[i].kind = Undecided THEN x ELSE [x EXCEPT ![steps[i].state] = steps[i].kind]
           G(f, k) == f = [ i \in 0..k |-> IF i = 0 THEN [s \in HANDLER_STATES |-> Undecided] ELSE R(f[i - 1], i) ]
           S == { k \in 0..n : \E f : G(f, k) }
<1>1. Newests(steps) = CHOOSE f : G(f, n)
  BY DEF Newests
<1> HIDE DEF n, R
<1>2. n \in Nat
  BY DEF n
<1>3. 0 \in S
  <2>1. G([ i \in 0..0 |-> [s \in HANDLER_STATES |-> Undecided] ], 0)
    OBVIOUS
  <2> HIDE DEF G
  <2> QED
    BY <2>1, <1>2
<1>4. ASSUME NEW k \in 0..n-1, k \in S PROVE k + 1 \in S
  <2>1. PICK f : G(f, k)
    BY <1>4
  <2> DEFINE g == [ i \in 0..k+1 |-> IF i = 0 THEN [s \in HANDLER_STATES |-> Undecided] ELSE R(f[i - 1], i) ]
  <2>2. \A i \in 0..k : g[i] = f[i]
    BY <2>1
  <2>3. \A i \in 0..k+1 : i # 0 => f[i - 1] = g[i - 1]
    <3> HIDE DEF g
    <3> QED
      BY <2>2, <1>2
  <2>4. G(g, k + 1)
    BY <2>3, <1>2
  <2> HIDE DEF G, g
  <2> QED
    BY <2>4, <1>2
<1>5. n \in S
  <2> HIDE DEF S
  <2>1. \A i \in 0..n-1 : i \in S => i + 1 \in S
    BY <1>4
  <2>2. 0..n \subseteq S
    BY <1>3, <2>1, <1>2, Induction
  <2> QED
    BY <2>2, <1>2
<1>6. G(Newests(steps), n)
  <2>1. PICK f : G(f, n)
    BY <1>5
  <2> HIDE DEF G
  <2> QED
    BY <2>1, <1>1
<1> QED
  BY <1>6 DEF n, R

\* What is known of the head.
LEMMA HeadsUnfold ==
  ASSUME NEW steps, Len(steps) \in Nat
  PROVE  Heads(steps) = [ i \in 0..Len(steps) |->
           IF i = 0 THEN MovedHead
           ELSE HeadAfter(Heads(steps)[i - 1], steps[i].state, steps[i].kind) ]
<1> DEFINE n == Len(steps)
           R(x, i) == HeadAfter(x, steps[i].state, steps[i].kind)
           G(f, k) == f = [ i \in 0..k |-> IF i = 0 THEN MovedHead ELSE R(f[i - 1], i) ]
           S == { k \in 0..n : \E f : G(f, k) }
<1>1. Heads(steps) = CHOOSE f : G(f, n)
  BY DEF Heads
<1> HIDE DEF n, R
<1>2. n \in Nat
  BY DEF n
<1>3. 0 \in S
  <2>1. G([ i \in 0..0 |-> MovedHead ], 0)
    OBVIOUS
  <2> HIDE DEF G
  <2> QED
    BY <2>1, <1>2
<1>4. ASSUME NEW k \in 0..n-1, k \in S PROVE k + 1 \in S
  <2>1. PICK f : G(f, k)
    BY <1>4
  <2> DEFINE g == [ i \in 0..k+1 |-> IF i = 0 THEN MovedHead ELSE R(f[i - 1], i) ]
  <2>2. \A i \in 0..k : g[i] = f[i]
    BY <2>1
  <2>3. \A i \in 0..k+1 : i # 0 => f[i - 1] = g[i - 1]
    <3> HIDE DEF g
    <3> QED
      BY <2>2, <1>2
  <2>4. G(g, k + 1)
    BY <2>3, <1>2
  <2> HIDE DEF G, g
  <2> QED
    BY <2>4, <1>2
<1>5. n \in S
  <2> HIDE DEF S
  <2>1. \A i \in 0..n-1 : i \in S => i + 1 \in S
    BY <1>4
  <2>2. 0..n \subseteq S
    BY <1>3, <2>1, <1>2, Induction
  <2> QED
    BY <2>2, <1>2
<1>6. G(Heads(steps), n)
  <2>1. PICK f : G(f, n)
    BY <1>5
  <2> HIDE DEF G
  <2> QED
    BY <2>1, <1>1
<1> QED
  BY <1>6 DEF n, R

-----------------------------------------------------------------------------
(* Logs that begin alike are read alike *)

Moves(step) == step.kind # Undecided /\ HasTransition(step.state, step.kind)

\* Over steps that moved the run, the fold reads nothing of the record but them.
LEMMA ReadingsAgree ==
  ASSUME NEW r, NEW q, Len(r.steps) \in Nat, Len(q.steps) \in Nat,
         NEW k \in Nat, k <= Len(r.steps), k <= Len(q.steps),
         \A i \in 1..k : q.steps[i] = r.steps[i] /\ Moves(r.steps[i])
  PROVE  \A i \in 0..k : Readings(q)[i] = Readings(r)[i]
<1> DEFINE S == { i \in 0..k : Readings(q)[i] = Readings(r)[i] }
<1>1. 0 \in S
  BY ReadingsUnfold
<1>2. ASSUME NEW i \in 0..k-1, i \in S PROVE i + 1 \in S
  <2> DEFINE f == Readings(r)[i]
             j == i + 1
  <2>1. j \in 1..k /\ j - 1 = i /\ Readings(q)[i] = f
    BY <1>2
  <2>2. Readings(r)[j] = Consume(r, f, j) /\ Readings(q)[j] = Consume(q, f, j)
    <3>1. j \in 0..Len(r.steps) /\ j \in 0..Len(q.steps) /\ j # 0
      BY <2>1
    <3>2. Readings(r)[j] = Consume(r, Readings(r)[j - 1], j)
      BY <3>1, ReadingsUnfold
    <3>3. Readings(q)[j] = Consume(q, Readings(q)[j - 1], j)
      BY <3>1, ReadingsUnfold
    <3> QED
      BY <2>1, <3>2, <3>3
  <2>3. \A s : Entries(q.steps, s, j - 1) = Entries(r.steps, s, j - 1)
    BY <2>1 DEF Entries
  <2>4. q.steps[j] = r.steps[j] /\ Moves(r.steps[j])
    BY <2>1
  <2> HIDE DEF f, j
  <2>5. Consume(q, f, j) = Consume(r, f, j)
    BY <2>3, <2>4 DEF Consume, Moves, Halts
  <2> QED
    BY <2>1, <2>2, <2>5 DEF j
<1>3. 0..k \subseteq S
  <2> HIDE DEF S
  <2>1. \A i \in 0..k-1 : i \in S => i + 1 \in S
    BY <1>2
  <2> QED
    BY <1>1, <2>1, Induction
<1> QED
  BY <1>3

\* The newest kinds and the head are functions of the prefix.
LEMMA PrefixesAgree ==
  ASSUME NEW s, NEW t, Len(s) \in Nat, Len(t) \in Nat,
         NEW k \in Nat, k <= Len(s), k <= Len(t), \A i \in 1..k : t[i] = s[i]
  PROVE  \A i \in 0..k : Newests(t)[i] = Newests(s)[i] /\ Heads(t)[i] = Heads(s)[i]
<1> DEFINE S == { i \in 0..k : Newests(t)[i] = Newests(s)[i] /\ Heads(t)[i] = Heads(s)[i] }
<1>1. 0 \in S
  BY NewestsUnfold, HeadsUnfold
<1>2. ASSUME NEW i \in 0..k-1, i \in S PROVE i + 1 \in S
  <2> DEFINE j == i + 1
  <2>1. j \in 1..k /\ j - 1 = i /\ j \in 0..Len(s) /\ j \in 0..Len(t) /\ j # 0
    OBVIOUS
  <2>2. t[j] = s[j] /\ Newests(t)[j - 1] = Newests(s)[j - 1] /\ Heads(t)[j - 1] = Heads(s)[j - 1]
    BY <1>2, <2>1
  <2> HIDE DEF j
  <2>3. Newests(t)[j] = Newests(s)[j]
    BY <2>1, <2>2, NewestsUnfold
  <2>4. Heads(t)[j] = Heads(s)[j]
    BY <2>1, <2>2, HeadsUnfold
  <2> QED
    BY <2>1, <2>3, <2>4 DEF j
<1>3. 0..k \subseteq S
  <2> HIDE DEF S
  <2>1. \A i \in 0..k-1 : i \in S => i + 1 \in S
    BY <1>2
  <2> QED
    BY <1>1, <2>1, Induction
<1> QED
  BY <1>3

-----------------------------------------------------------------------------
(* What the writes of a record do to it *)

\* Entries of a log are finitely many.
LEMMA EntriesFinite ==
  ASSUME NEW steps, NEW st, NEW k \in Nat
  PROVE  /\ IsFiniteSet(Entries(steps, st, k))
         /\ Cardinality(Entries(steps, st, k)) \in Nat
<1>1. IsFiniteSet(1..k) /\ Entries(steps, st, k) \in SUBSET (1..k)
  BY FS_Interval DEF Entries
<1> QED
  BY <1>1, FS_Subset, FS_CardinalityType

\* The record as startStep saves it.
Opened(r) == [r EXCEPT !.steps = Append(@, [ state |-> r.pos.state, n |-> nextAttempt(r),
                                             kind |-> Undecided ])]

\* startStep adds one undecided entry and changes nothing else of a record.
LEMMA OpenedFacts ==
  ASSUME NEW r \in Run, r.pos.state \in HANDLER_STATES
  PROVE  LET q == Opened(r)
             n == Len(r.steps) IN
         /\ q \in Run
         /\ q.pos = r.pos /\ q.result = r.result /\ q.armed = r.armed
         /\ Len(q.steps) = n + 1
         /\ \A i \in 1..n : q.steps[i] = r.steps[i]
         /\ q.steps[n + 1] = [ state |-> r.pos.state, n |-> nextAttempt(r), kind |-> Undecided ]
<1> DEFINE e == [ state |-> r.pos.state, n |-> nextAttempt(r), kind |-> Undecided ]
<1>1. r.steps \in Seq(Step) /\ Len(r.steps) \in Nat
  BY DEF Run
<1>2. e \in Step
  <2>1. nextAttempt(r) \in Nat
    BY <1>1, EntriesFinite DEF nextAttempt
  <2> QED
    BY <2>1 DEF Step
<1>3. Opened(r) = [r EXCEPT !.steps = Append(r.steps, e)]
  BY DEF Opened, Run
<1> HIDE DEF e
<1>4. Append(r.steps, e) \in Seq(Step)
  BY <1>1, <1>2
<1>5. /\ Opened(r) \in Run
      /\ Opened(r).steps = Append(r.steps, e)
      /\ Opened(r).pos = r.pos /\ Opened(r).result = r.result /\ Opened(r).armed = r.armed
  BY <1>3, <1>4 DEF Run
<1>6. /\ Len(Append(r.steps, e)) = Len(r.steps) + 1
      /\ \A i \in 1..Len(r.steps) : Append(r.steps, e)[i] = r.steps[i]
      /\ Append(r.steps, e)[Len(r.steps) + 1] = e
  BY <1>1, <1>2
<1> QED
  BY <1>5, <1>6 DEF e

\* The record as withOutcome makes it.
LEMMA OutcomeFacts ==
  ASSUME NEW r \in Run, r.steps # <<>>, NEW k \in Kinds \cup {Undecided, ErrorKind}
  PROVE  LET q == withOutcome(r, k)
             n == Len(r.steps) IN
         /\ q \in Run
         /\ q.pos = r.pos /\ q.result = r.result /\ q.armed = r.armed
         /\ n \in Nat \ {0} /\ Len(q.steps) = n
         /\ \A i \in 1..n-1 : q.steps[i] = r.steps[i]
         /\ q.steps[n] = [r.steps[n] EXCEPT !.kind = k]
<1> DEFINE n == Len(r.steps)
           t == [r.steps EXCEPT ![n] = [r.steps[n] EXCEPT !.kind = k]]
<1>1. r.steps \in Seq(Step) /\ n \in Nat \ {0}
  BY DEF Run
<1>2. r.steps[n] \in Step
  BY <1>1
<1>3. [r.steps[n] EXCEPT !.kind = k] \in Step
  BY <1>2 DEF Step
<1>4. withOutcome(r, k) = [r EXCEPT !.steps = t]
  BY DEF withOutcome, Run
<1>5. /\ t \in Seq(Step) /\ Len(t) = n
      /\ \A i \in 1..n-1 : t[i] = r.steps[i]
      /\ t[n] = [r.steps[n] EXCEPT !.kind = k]
  BY <1>1, <1>3
<1> HIDE DEF t
<1> QED
  BY <1>1, <1>4, <1>5 DEF Run

\* An ending: the state and the result, nothing else.
LEMMA StampedFacts ==
  ASSUME NEW r \in Run, NEW st \in TERMINAL_STATES
  PROVE  LET q == Stamped(r, st) IN
         /\ q \in Run
         /\ q.steps = r.steps /\ q.pos = To(r.pos, st) /\ q.armed = r.armed
         /\ q.result = exitCodeFor(st) /\ q.result # NoResult
<1>1. exitCodeFor(st) \in {0, 10, 11}
  BY DEF exitCodeFor, TERMINAL_STATES
<1>2. r.pos \in Position /\ To(r.pos, st) \in Position
  BY ToFacts DEF Run, LeanState
<1>3. Stamped(r, st) = [r EXCEPT !.pos = To(r.pos, st), !.result = exitCodeFor(st)]
  BY DEF Stamped, To, Run
<1> DEFINE p == To(r.pos, st)
           x == exitCodeFor(st)
<1>4. Stamped(r, st) = [r EXCEPT !.pos = p, !.result = x]
  BY <1>3
<1>5. p \in Position /\ x \in {0, 10, 11}
  BY <1>1, <1>2
<1> HIDE DEF p, x
<1>6. [r EXCEPT !.pos = p, !.result = x]
        = [ pos |-> p, steps |-> r.steps, result |-> x, armed |-> r.armed ]
  <2>1. r = [ pos |-> r.pos, steps |-> r.steps, result |-> r.result, armed |-> r.armed ]
    BY DEF Run
  <2>2. [r EXCEPT !.pos = p, !.result = x] = [[r EXCEPT !.pos = p] EXCEPT !.result = x]
    OBVIOUS
  <2>3. [r EXCEPT !.pos = p]
          = [ pos |-> p, steps |-> r.steps, result |-> r.result, armed |-> r.armed ]
    BY <2>1
  <2>4. [[ pos |-> p, steps |-> r.steps, result |-> r.result, armed |-> r.armed ]
            EXCEPT !.result = x]
          = [ pos |-> p, steps |-> r.steps, result |-> x, armed |-> r.armed ]
    OBVIOUS
  <2> QED
    BY <2>2, <2>3, <2>4
<1>7. [ pos |-> p, steps |-> r.steps, result |-> x, armed |-> r.armed ] \in Run
  BY <1>5 DEF Run
<1>8. x # NoResult
  BY <1>5 DEF NoResult
<1> QED
  BY <1>4, <1>6, <1>7, <1>8 DEF p, x

\* A pending entry decided: the decided log is one longer, and so are its summaries.
LEMMA DecidedOneMore ==
  ASSUME NEW s, NEW t, NEW n \in Nat \ {0}, Len(t) = n, Len(s) = n - 1,
         \A i \in 1..n-1 : t[i] = s[i], t[n].kind # Undecided
  PROVE  /\ Newest(t) = [Newest(s) EXCEPT ![t[n].state] = t[n].kind]
         /\ Heads(t)[n] = HeadAfter(Heads(s)[n - 1], t[n].state, t[n].kind)
         /\ Cardinality(Decided(t, "build"))
              = Cardinality(Decided(s, "build")) + (IF t[n].state = "build" THEN 1 ELSE 0)
<1>1. Newests(t)[n - 1] = Newests(s)[n - 1] /\ Heads(t)[n - 1] = Heads(s)[n - 1]
  <2>1. n - 1 \in Nat /\ n - 1 <= Len(s) /\ n - 1 <= Len(t) /\ n - 1 \in 0..n-1
        /\ Len(s) \in Nat /\ Len(t) \in Nat
    OBVIOUS
  <2>2. \A i \in 0..n-1 : Newests(t)[i] = Newests(s)[i] /\ Heads(t)[i] = Heads(s)[i]
    BY SMTT(30), <2>1, PrefixesAgree
  <2> QED
    BY <2>1, <2>2
<1>2. Newests(t)[n] = [Newests(t)[n - 1] EXCEPT ![t[n].state] = t[n].kind]
  <2>1. Len(t) \in Nat /\ n \in 0..Len(t) /\ n # 0
    OBVIOUS
  <2> QED
    BY <2>1, NewestsUnfold
<1>3. Heads(t)[n] = HeadAfter(Heads(t)[n - 1], t[n].state, t[n].kind)
  BY HeadsUnfold
<1>4. Decided(t, "build")
        = Decided(s, "build") \cup (IF t[n].state = "build" THEN {n} ELSE {})
  BY DEF Decided, Entries
<1>5. IsFiniteSet(Decided(s, "build")) /\ n \notin Decided(s, "build")
  <2>1. IsFiniteSet(Entries(s, "build", Len(s)))
    BY EntriesFinite
  <2> QED
    BY <2>1, FS_Subset DEF Decided, Entries
<1>6. Cardinality(Decided(s, "build") \cup {n}) = Cardinality(Decided(s, "build")) + 1
  BY <1>5, FS_AddElement
<1>7. Cardinality(Decided(s, "build")) \in Nat
  BY <1>5, FS_CardinalityType
<1>8. Cardinality(Decided(t, "build"))
        = Cardinality(Decided(s, "build")) + (IF t[n].state = "build" THEN 1 ELSE 0)
  <2>1. CASE t[n].state = "build"
    BY <2>1, <1>4, <1>6
  <2>2. CASE t[n].state # "build"
    <3>1. Decided(t, "build") = Decided(s, "build")
      BY <2>2, <1>4
    <3> QED
      BY <3>1, <2>2, <1>7
  <2> QED
    BY <2>1, <2>2
<1>9. Newest(t) = Newests(t)[n] /\ Newest(s) = Newests(s)[n - 1]
  BY DEF Newest
<1> QED
  BY <1>1, <1>2, <1>3, <1>8, <1>9

\* A pending entry adds nothing to the newest kinds.
LEMMA NewestPending ==
  ASSUME NEW s, NEW t, NEW n \in Nat \ {0}, Len(t) = n, Len(s) = n - 1,
         \A i \in 1..n-1 : t[i] = s[i], t[n].kind = Undecided
  PROVE  Newest(t) = Newest(s)
<1>1. Newests(t)[n - 1] = Newests(s)[n - 1]
  <2>1. n - 1 \in Nat /\ n - 1 <= Len(s) /\ n - 1 <= Len(t) /\ n - 1 \in 0..n-1
        /\ Len(s) \in Nat /\ Len(t) \in Nat
    OBVIOUS
  <2>2. \A i \in 0..n-1 : Newests(t)[i] = Newests(s)[i] /\ Heads(t)[i] = Heads(s)[i]
    BY <2>1, PrefixesAgree
  <2> QED
    BY <2>1, <2>2
<1>2. Newests(t)[n] = Newests(t)[n - 1]
  BY NewestsUnfold
<1> QED
  BY <1>1, <1>2 DEF Newest

-----------------------------------------------------------------------------
(* A sound record: its snapshot is what its log folds to *)

Last(r) == r.steps[Len(r.steps)]

\* How much of the log moved the run: all of it, but for a last entry that is undecided
\* or has no arrow.
Walked(r) ==
  IF r.steps # <<>> /\ ~Moves(Last(r)) THEN Len(r.steps) - 1 ELSE Len(r.steps)

Halting(r) == r.steps # <<>> /\ Halts(Last(r))

Reading == [ ok : BOOLEAN, pos : Position, before : Position ]

Sound(r) ==
  /\ r.pos.state \in HANDLER_STATES
  /\ \A i \in 1..Walked(r) : Moves(r.steps[i])
  /\ \A i \in 1..Len(r.steps) :
        r.steps[i].n = Cardinality(Entries(r.steps, r.steps[i].state, i - 1))
  /\ Readings(r)[Walked(r)] \in Reading
  /\ Readings(r)[Walked(r)].ok /\ Readings(r)[Walked(r)].pos = r.pos
  /\ r.steps # <<>> /\ ~Moves(Last(r)) => Last(r).state = r.pos.state
  /\ r.pos.state = "land" => landEarned(r.pos, Newest(r.steps))

\* The length of a record's log, and of the part of it that moved the run.
LEMMA WalkedFacts ==
  ASSUME NEW r \in Run
  PROVE  /\ Len(r.steps) \in Nat /\ Walked(r) \in Nat /\ Walked(r) <= Len(r.steps)
         /\ r.steps = <<>> <=> Len(r.steps) = 0
         /\ r.steps # <<>> => Last(r) \in Step
         /\ Walked(r) # Len(r.steps) =>
               Walked(r) = Len(r.steps) - 1 /\ r.steps # <<>> /\ ~Moves(Last(r))
<1>1. r.steps \in Seq(Step) /\ Len(r.steps) \in Nat
  BY DEF Run
<1>2. r.steps = <<>> <=> Len(r.steps) = 0
  BY <1>1
<1>3. r.steps # <<>> => Last(r) \in Step
  BY <1>1, <1>2 DEF Last
<1> QED
  BY <1>1, <1>2, <1>3 DEF Walked

\* Undecided, moving and halting are all an entry can be.
LEMMA EntryKinds ==
  ASSUME NEW r \in Run
  PROVE  /\ Pending(r) <=> r.steps # <<>> /\ Last(r).kind = Undecided
         /\ r.steps # <<>> /\ ~Moves(Last(r)) => Pending(r) \/ Halting(r)
         /\ Halting(r) => ~Moves(Last(r)) /\ ~Pending(r)
         /\ Pending(r) => ~Moves(Last(r)) /\ r.steps # <<>>
  BY DEF Pending, LastKind, Last, Undecided, Moves, Halting, Halts

\* A new run is sound.
LEMMA SoundNew == NewRun \in Run /\ Sound(NewRun) /\ ~Pending(NewRun) /\ ~Halting(NewRun)
<1>1. InitialPosition \in Position /\ InitialPosition.state = "ready"
  BY DEF InitialPosition, Position, LeanState, HANDLER_STATES
<1>2. NewRun \in Run
  <2>1. <<>> \in Seq(Step)
    OBVIOUS
  <2> QED
    BY <1>1, <2>1 DEF NewRun, Run, NoResult
<1>3. NewRun.steps = <<>> /\ Len(NewRun.steps) = 0 /\ NewRun.pos = InitialPosition
  BY DEF NewRun
<1>4. Walked(NewRun) = 0
  BY <1>3 DEF Walked
<1>5. Readings(NewRun)[0] = Unread
  BY <1>3, ReadingsUnfold
<1>6. Unread \in Reading /\ Unread.ok /\ Unread.pos = InitialPosition
  BY <1>1 DEF Unread, Reading
<1>7. Sound(NewRun)
  BY <1>1, <1>3, <1>4, <1>5, <1>6 DEF Sound, HANDLER_STATES
<1>8. ~Pending(NewRun) /\ ~Halting(NewRun)
  BY <1>3 DEF Pending, LastKind, Undecided, Halting
<1> QED
  BY <1>2, <1>7, <1>8

\* Soundness is about the log and the position only.
LEMMA SoundSame ==
  ASSUME NEW r \in Run, NEW q \in Run, q.steps = r.steps, q.pos = r.pos, Sound(r)
  PROVE  Sound(q) /\ (Pending(q) <=> Pending(r)) /\ (Halting(q) <=> Halting(r))
<1>1. Last(q) = Last(r) /\ Walked(q) = Walked(r)
  BY DEF Last, Walked
<1>2. Readings(q)[Walked(r)] = Readings(r)[Walked(r)]
  <2>1. \A i \in 1..Walked(r) : q.steps[i] = r.steps[i] /\ Moves(r.steps[i])
    BY DEF Sound
  <2>2. \A i \in 0..Walked(r) : Readings(q)[i] = Readings(r)[i]
    BY <2>1, WalkedFacts, ReadingsAgree
  <2> QED
    BY <2>2, WalkedFacts
<1>3. Sound(q)
  BY <1>1, <1>2 DEF Sound
<1> QED
  BY <1>1, <1>3 DEF Pending, LastKind, Halting

\* The write-ahead of a step keeps a record sound.
LEMMA SoundOpened ==
  ASSUME NEW r \in Run, Sound(r), ~Pending(r), ~Halting(r)
  PROVE  LET q == Opened(r) IN
         q \in Run /\ Sound(q) /\ Pending(q) /\ ~Halting(q) /\ Newest(q.steps) = Newest(r.steps)
<1> DEFINE q == Opened(r)
           n == Len(r.steps)
           e == [ state |-> r.pos.state, n |-> nextAttempt(r), kind |-> Undecided ]
<1>1. /\ q \in Run /\ q.pos = r.pos
      /\ Len(q.steps) = n + 1
      /\ \A i \in 1..n : q.steps[i] = r.steps[i]
      /\ q.steps[n + 1] = e
  BY OpenedFacts DEF Sound
<1> HIDE DEF q
<1>2. n \in Nat /\ Walked(r) = n
  BY WalkedFacts, EntryKinds
<1> HIDE DEF n
<1>3. Last(q) = e /\ e.kind = Undecided /\ e.state = r.pos.state /\ e.n = nextAttempt(r)
  BY <1>1 DEF Last
<1> HIDE DEF e
<1>4. q.steps # <<>> /\ ~Moves(Last(q)) /\ Pending(q) /\ ~Halting(q)
  BY <1>1, <1>2, <1>3, WalkedFacts, EntryKinds DEF Moves
<1>5. Walked(q) = n
  BY <1>1, <1>2, <1>4 DEF Walked
<1>6. \A i \in 1..n : q.steps[i] = r.steps[i] /\ Moves(r.steps[i])
  BY <1>1, <1>2 DEF Sound
<1>7. Readings(q)[n] = Readings(r)[n]
  <2>1. \A i \in 0..n : Readings(q)[i] = Readings(r)[i]
    BY <1>1, <1>2, <1>6, ReadingsAgree DEF n
  <2> QED
    BY <1>2, <2>1
<1>8. ASSUME NEW i \in 1..n+1
      PROVE  q.steps[i].n = Cardinality(Entries(q.steps, q.steps[i].state, i - 1))
  <2>1. \A st : Entries(q.steps, st, i - 1) = Entries(r.steps, st, i - 1)
    BY <1>1, <1>2 DEF Entries
  <2>2. CASE i = n + 1
    BY <2>1, <2>2, <1>1, <1>2, <1>3 DEF nextAttempt, n
  <2>3. CASE i # n + 1
    <3>1. i \in 1..Len(r.steps) /\ i \in 1..n
      BY <2>3, <1>2 DEF n
    <3>2. r.steps[i].n = Cardinality(Entries(r.steps, r.steps[i].state, i - 1))
      BY <3>1 DEF Sound
    <3> QED
      BY <2>1, <3>1, <3>2, <1>1
  <2> QED
    BY <2>2, <2>3
<1>9. Newest(q.steps) = Newest(r.steps)
  <2> DEFINE m == n + 1
  <2>1. m \in Nat \ {0} /\ Len(r.steps) = m - 1 /\ Len(q.steps) = m
    BY <1>1, <1>2 DEF n
  <2>2. q.steps[m].kind = Undecided /\ \A i \in 1..m-1 : q.steps[i] = r.steps[i]
    BY <1>1, <1>2, <1>3
  <2> HIDE DEF m
  <2> QED
    BY <2>1, <2>2, NewestPending
<1>10. Sound(q)
  BY <1>1, <1>2, <1>3, <1>4, <1>5, <1>6, <1>7, <1>8, <1>9 DEF Sound
<1> QED
  BY <1>1, <1>4, <1>9, <1>10 DEF q

\* What deciding the pending entry does to the log and to its folds.
LEMMA DecidedLog ==
  ASSUME NEW r \in Run, Sound(r), Pending(r), NEW k \in Kinds \cup {ErrorKind},
         NEW q \in Run, q.steps = withOutcome(r, k).steps
  PROVE  LET n == Len(r.steps) IN
         /\ n \in Nat \ {0} /\ Len(q.steps) = n
         /\ Last(q).state = r.pos.state /\ Last(q).kind = k /\ k # Undecided
         /\ \A i \in 1..n-1 : q.steps[i] = r.steps[i] /\ Moves(q.steps[i])
         /\ \A i \in 1..n : q.steps[i].n = Cardinality(Entries(q.steps, q.steps[i].state, i - 1))
         /\ Readings(q)[n - 1] \in Reading
      /\ Readings(q)[n - 1].ok /\ Readings(q)[n - 1].pos = r.pos
         /\ Readings(q)[n] = Consume(q, Readings(q)[n - 1], n)
<1> DEFINE n == Len(r.steps)
<1>1. r.steps # <<>> /\ ~Moves(Last(r)) /\ Last(r).state = r.pos.state /\ Last(r) \in Step
  BY EntryKinds, WalkedFacts DEF Sound
<1>2. n \in Nat \ {0} /\ Walked(r) = n - 1
  BY <1>1, WalkedFacts DEF Walked
<1>3. k # Undecided
  BY DEF Kinds, Undecided, ErrorKind
<1>4. /\ Len(q.steps) = n
      /\ \A i \in 1..n-1 : q.steps[i] = r.steps[i]
      /\ q.steps[n] = [Last(r) EXCEPT !.kind = k]
  BY <1>1, OutcomeFacts DEF Last
<1>5. Last(q).state = r.pos.state /\ Last(q).kind = k /\ Last(q).n = Last(r).n
  BY <1>1, <1>4 DEF Last, Step
<1>6. \A i \in 1..n-1 : q.steps[i] = r.steps[i] /\ Moves(r.steps[i])
  BY <1>2, <1>4 DEF Sound
<1>7. ASSUME NEW i \in 1..n
      PROVE  q.steps[i].n = Cardinality(Entries(q.steps, q.steps[i].state, i - 1))
  <2>1. q.steps[i].n = r.steps[i].n /\ q.steps[i].state = r.steps[i].state
    <3>1. CASE i = n
      BY <3>1, <1>1, <1>4, <1>5 DEF Last
    <3>2. CASE i # n
      BY <3>2, <1>2, <1>4
    <3> QED
      BY <3>1, <3>2
  <2>2. \A st : Entries(q.steps, st, i - 1) = Entries(r.steps, st, i - 1)
    BY <1>2, <1>4 DEF Entries
  <2>3. r.steps[i].n = Cardinality(Entries(r.steps, r.steps[i].state, i - 1))
    BY DEF Sound
  <2> QED
    BY <2>1, <2>2, <2>3
<1>8. Readings(q)[n - 1] = Readings(r)[n - 1]
  <2> DEFINE m == n - 1
  <2>1. m \in Nat /\ m <= Len(r.steps) /\ m <= Len(q.steps) /\ m \in 0..m
        /\ Len(r.steps) \in Nat /\ Len(q.steps) \in Nat
    BY <1>2, <1>4
  <2>2. \A i \in 1..m : q.steps[i] = r.steps[i] /\ Moves(r.steps[i])
    BY <1>6
  <2> HIDE DEF m
  <2>3. \A i \in 0..m : Readings(q)[i] = Readings(r)[i]
    BY <2>1, <2>2, ReadingsAgree
  <2> QED
    BY <2>1, <2>3 DEF m
<1>9. Readings(q)[n - 1] \in Reading /\ Readings(q)[n - 1].ok /\ Readings(q)[n - 1].pos = r.pos
  BY <1>2, <1>8 DEF Sound
<1>10. Readings(q)[n] = Consume(q, Readings(q)[n - 1], n)
  <2>1. Len(q.steps) \in Nat /\ n \in 0..Len(q.steps) /\ n # 0
    BY <1>2, <1>4
  <2> QED
    BY <2>1, ReadingsUnfold
<1> QED
  BY <1>2, <1>3, <1>4, <1>5, <1>6, <1>7, <1>9, <1>10

\* An outcome without an arrow leaves the record sound and halting.
LEMMA SoundHalted ==
  ASSUME NEW r \in Run, Sound(r), Pending(r), NEW k \in Kinds \cup {ErrorKind},
         ~HasTransition(r.pos.state, k), r.pos.state # "land"
  PROVE  LET q == withOutcome(r, k) IN q \in Run /\ Sound(q) /\ Halting(q)
<1> DEFINE q == withOutcome(r, k)
           n == Len(r.steps)
<1>1. q \in Run /\ q.pos = r.pos
  BY OutcomeFacts, EntryKinds
<1>2. /\ n \in Nat \ {0} /\ Len(q.steps) = n
      /\ Last(q).state = r.pos.state /\ Last(q).kind = k /\ k # Undecided
      /\ \A i \in 1..n-1 : q.steps[i] = r.steps[i] /\ Moves(q.steps[i])
      /\ \A i \in 1..n : q.steps[i].n = Cardinality(Entries(q.steps, q.steps[i].state, i - 1))
      /\ Readings(q)[n - 1] \in Reading
      /\ Readings(q)[n - 1].ok /\ Readings(q)[n - 1].pos = r.pos
  BY <1>1, DecidedLog
<1> HIDE DEF q, n
<1>3. q.steps # <<>> /\ ~Moves(Last(q)) /\ Halting(q)
  BY <1>1, <1>2, WalkedFacts DEF Moves, Halting, Halts
<1>4. Walked(q) = n - 1
  BY <1>2, <1>3 DEF Walked
<1>5. Sound(q)
  BY <1>1, <1>2, <1>3, <1>4 DEF Sound
<1> QED
  BY <1>1, <1>3, <1>5 DEF q

\* An outcome with an arrow, applied by the table, leaves the record sound, wherever the
\* arrow leads that is not an end; at land, provided the gate was asked.
LEMMA SoundApplied ==
  ASSUME NEW r \in Run, Sound(r), Pending(r), NEW k \in OUTCOME_KINDS[r.pos.state],
         LET moved == TableNext(r.pos, k) IN
         /\ moved.state \in HANDLER_STATES
         /\ moved.state = "land" =>
               r.pos.state = "ci" /\ k = "green" /\ landEarned(r.pos, Newest(withOutcome(r, k).steps))
  PROVE  LET q == [withOutcome(r, k) EXCEPT !.pos = TableNext(r.pos, k)] IN
         q \in Run /\ Sound(q) /\ ~Pending(q) /\ ~Halting(q)
<1> DEFINE o == withOutcome(r, k)
           p == TableNext(r.pos, k)
           q == [o EXCEPT !.pos = p]
           n == Len(r.steps)
<1>1. r.pos \in Position /\ r.pos.state \in HANDLER_STATES /\ k \in Kinds
  BY DEF Run, Sound, HANDLER_STATES, REPORT_STATES, OUTCOME_KINDS, Kinds
<1>2. p \in Position
  BY <1>1, RowSummary
<1>3. o \in Run /\ o.result = r.result
  BY <1>1, OutcomeFacts, EntryKinds
<1>4. p.state \in HANDLER_STATES
      /\ (p.state = "land" => r.pos.state = "ci" /\ k = "green" /\ landEarned(r.pos, Newest(o.steps)))
  OBVIOUS
<1> HIDE DEF p
<1>5. q \in Run /\ q.steps = o.steps /\ q.pos = p
  <2> HIDE DEF o
  <2> QED
    BY <1>2, <1>3 DEF Run
<1>6. /\ n \in Nat \ {0} /\ Len(q.steps) = n
      /\ Last(q).state = r.pos.state /\ Last(q).kind = k /\ k # Undecided
      /\ \A i \in 1..n-1 : q.steps[i] = r.steps[i] /\ Moves(q.steps[i])
      /\ \A i \in 1..n : q.steps[i].n = Cardinality(Entries(q.steps, q.steps[i].state, i - 1))
      /\ Readings(q)[n - 1] \in Reading
      /\ Readings(q)[n - 1].ok /\ Readings(q)[n - 1].pos = r.pos
      /\ Readings(q)[n] = Consume(q, Readings(q)[n - 1], n)
  <2> HIDE DEF q
  <2> QED
    BY <1>1, <1>5, DecidedLog
<1> HIDE DEF q, o, n
<1>7. Moves(Last(q)) /\ q.steps # <<>>
  BY <1>1, <1>5, <1>6, WalkedFacts DEF Moves, HasTransition
<1>8. Walked(q) = n /\ q.steps[n] = Last(q)
  BY <1>6, <1>7 DEF Walked, Last
<1>9. Readings(q)[n] \in Reading /\ Readings(q)[n].ok /\ Readings(q)[n].pos = p
  <2> DEFINE f == Readings(q)[n - 1]
  <2> HIDE DEF f
  <2>1. f.ok /\ f.pos = r.pos /\ Readings(q)[n] = Consume(q, f, n)
    BY <1>6 DEF f
  <2>2. q.steps[n].n = Cardinality(Entries(q.steps, q.steps[n].state, n - 1))
    BY <1>6
  <2>3. Consume(q, f, n) = [ ok |-> TRUE, pos |-> TableNext(f.pos, k), before |-> f.pos ]
    BY <2>1, <2>2, <1>6, <1>7, <1>8 DEF Consume, Moves, Halts
  <2>4. r.pos \in Position /\ TableNext(r.pos, k) \in Position
    BY <1>1, <1>2 DEF p
  <2> QED
    BY <2>1, <2>3, <2>4 DEF p, Reading
<1>10. \A i \in 1..n : Moves(q.steps[i])
  BY <1>6, <1>7, <1>8
<1>11. p.state = "land" => landEarned(p, Newest(q.steps))
  <2>1. ASSUME p.state = "land" PROVE p.draft = r.pos.draft
    BY <2>1, <1>1, <1>4, CiRow DEF p
  <2> QED
    BY <2>1, <1>4, <1>5 DEF landEarned
<1>12. Sound(q)
  BY <1>4, <1>5, <1>6, <1>7, <1>8, <1>9, <1>10, <1>11 DEF Sound
<1>13. ~Pending(q) /\ ~Halting(q)
  BY <1>5, <1>7, EntryKinds
<1> QED
  BY <1>5, <1>12, <1>13 DEF q, o, p

\* A sound, unfinished record that does not halt is driven, from its own snapshot.
LEMMA SoundDrives ==
  ASSUME NEW r \in Run, Sound(r), r.result = NoResult, ~Halting(r)
  PROVE  Verdict(r) = "drive" /\ foldLog(r).pos = r.pos
<1> DEFINE n == Len(r.steps)
<1>1. n \in Nat /\ Walked(r) \in Nat /\ Walked(r) <= n
  BY WalkedFacts
<1>2. foldLog(r) = Readings(r)[n]
  BY DEF foldLog
<1>3. foldLog(r).ok /\ foldLog(r).pos = r.pos
  <2>1. CASE Walked(r) = n
    BY <2>1, <1>2 DEF Sound
  <2>2. CASE Walked(r) # n
    <3> DEFINE f == Readings(r)[n - 1]
    <3>1. Walked(r) = n - 1 /\ r.steps # <<>> /\ ~Moves(Last(r)) /\ n \in Nat \ {0}
      BY <2>2, <1>1, WalkedFacts
    <3>2. f \in Reading /\ f.ok /\ f.pos = r.pos /\ Last(r).state = r.pos.state
      BY <3>1 DEF Sound
    <3>3. Last(r).kind = Undecided
      BY <3>1, EntryKinds
    <3>4. Readings(r)[n] = Consume(r, f, n)
      <4>1. n \in 0..Len(r.steps) /\ n # 0
        BY <3>1
      <4> QED
        BY <4>1, <1>1, ReadingsUnfold
    <3>5. r.steps[n] = Last(r)
          /\ r.steps[n].n = Cardinality(Entries(r.steps, r.steps[n].state, n - 1))
      BY <3>1 DEF Last, Sound
    <3> HIDE DEF f
    <3>6. Consume(r, f, n) = [f EXCEPT !.ok = TRUE]
      BY <3>2, <3>3, <3>5 DEF Consume, Halts
    <3>7. [f EXCEPT !.ok = TRUE].ok /\ [f EXCEPT !.ok = TRUE].pos = f.pos
      BY <3>2 DEF Reading
    <3> QED
      BY <1>2, <3>2, <3>4, <3>6, <3>7
  <2> QED
    BY <2>1, <2>2
<1>4. SnapshotAgrees(r)
  BY <1>3 DEF SnapshotAgrees
<1>5. ~ (r.pos.state \in {"land", "landed"} /\ ~landEarned(r.pos, Newest(r.steps)))
  BY DEF Sound, HANDLER_STATES, REPORT_STATES
<1> QED
  BY <1>3, <1>4, <1>5 DEF Verdict

\* A record with a result is not driven, nor is one that halts without a result.
LEMMA OthersAreNotDriven ==
  ASSUME NEW r \in Run,
         r.result # NoResult \/ (r.result = NoResult /\ Sound(r) /\ Halting(r))
  PROVE  Verdict(r) \in {"refuse", "answer"}
<1>1. CASE r.result # NoResult
  BY <1>1 DEF Verdict
<1>2. CASE r.result = NoResult /\ Sound(r) /\ Halting(r)
  <2> DEFINE n == Len(r.steps)
             f == Readings(r)[n - 1]
  <2>1. r.steps # <<>> /\ ~Moves(Last(r)) /\ Halts(Last(r)) /\ Last(r).kind # Undecided
    BY <1>2, EntryKinds DEF Halting, Halts
  <2>2. n \in Nat \ {0} /\ Walked(r) = n - 1
    BY <2>1, WalkedFacts DEF Walked
  <2>3. f \in Reading /\ f.ok /\ f.pos = r.pos /\ Last(r).state = r.pos.state
    BY <1>2, <2>1, <2>2 DEF Sound
  <2>4. Readings(r)[n] = Consume(r, f, n)
    <3>1. n \in 0..Len(r.steps) /\ n # 0 /\ Len(r.steps) \in Nat
      BY <2>2
    <3> QED
      BY <3>1, ReadingsUnfold
  <2>5. r.steps[n] = Last(r)
        /\ r.steps[n].n = Cardinality(Entries(r.steps, r.steps[n].state, n - 1))
    BY <1>2, <2>2 DEF Last, Sound
  <2> HIDE DEF f
  <2>6. Consume(r, f, n) = [ ok |-> FALSE, pos |-> To(f.pos, "handed-back"), before |-> f.before ]
    BY <1>2, <2>1, <2>3, <2>5 DEF Consume
  <2>7. ~foldLog(r).ok
    BY <2>4, <2>6 DEF foldLog
  <2> QED
    BY <2>7 DEF Verdict, SnapshotAgrees
<1> QED
  BY <1>1, <1>2

-----------------------------------------------------------------------------
(* The inductive invariant, in named parts *)

\* An unfinished file is sound.
FileSound == file # NoRun /\ file.result = NoResult => Sound(file)

\* A drive holds what is on file, or a new run that was never saved; its last entry is
\* the one its place in the loop calls for.
DriveInv ==
  /\ pc = "idle" <=> run = NoRun
  /\ pc # "idle" =>
       /\ Sound(run) /\ run.result = NoResult
       /\ \/ file = run
          \/ file = NoRun /\ run = NewRun /\ pc \in {"loop", "boundary"}
  /\ pc \in {"loop", "boundary"} => ~Halting(run)
  /\ pc \in {"handler", "settle"} => Pending(run)
  /\ pc = "halt" => Halting(run)
  /\ pc = "settle" => kind \in MayReturn(run.pos.state)

World == [ done : Seq(Nat), lost : Seq(Nat), merged : BOOLEAN ]

\* A log and what was done to the world agree.
Agrees(s, w) ==
  /\ \A j \in DOMAIN w.done : w.done[j] \in DOMAIN s /\ s[w.done[j]].state \in ACTING
  /\ \A j, k \in DOMAIN w.done : j < k => w.done[j] < w.done[k]
  /\ \A i \in DOMAIN s : s[i].state = "build" /\ s[i].kind \in Kinds =>
       \E j \in DOMAIN w.done : w.done[j] = i
  /\ \A j \in DOMAIN w.lost : w.lost[j] \in DOMAIN s /\ s[w.lost[j]].state \in ACTING
  /\ w.merged => \E i \in DOMAIN s : s[i].state = "land"
  /\ \A i \in DOMAIN s : s[i].kind = "merged" => w.merged

LastPending(s) == s # <<>> /\ s[Len(s)].kind = Undecided

ActedUnder(w, n) == \E j \in DOMAIN w.done : w.done[j] = n

\* The log on file agrees with the world; the pending entry has nothing done under it but
\* between its handler's return and the save of the outcome, which then tells of it.
WorldInv ==
  /\ Agrees(Log, forge)
  /\ Len(forge.lost) <= crashes
  /\ file # NoRun /\ file.result = 0 => forge.merged
  /\ pc # "settle" /\ LastPending(Log) => ~ActedUnder(forge, Len(Log))
  /\ pc = "settle" => /\ kind = "merged" => forge.merged
                      /\ run.pos.state = "build" /\ kind \in Kinds => ActedUnder(forge, Len(Log))

IInv == TypeOK /\ FileSound /\ DriveInv /\ WorldInv

-----------------------------------------------------------------------------
(* Every step preserves it *)

\* An entry written ahead: nothing is done under it yet.
LEMMA AgreesOpened ==
  ASSUME NEW s \in Seq(Step), NEW t \in Seq(Step), NEW w \in World, Agrees(s, w),
         Len(t) = Len(s) + 1, \A i \in 1..Len(s) : t[i] = s[i], t[Len(t)].kind = Undecided
  PROVE  Agrees(t, w) /\ ~ActedUnder(w, Len(t))
<1>1. Undecided \notin Kinds /\ Undecided # "merged"
  BY DEF Undecided, Kinds
<1>2. /\ DOMAIN s = 1..Len(s) /\ DOMAIN t = 1..Len(s) + 1 /\ Len(s) \in Nat
      /\ t[Len(s) + 1].kind = Undecided
  OBVIOUS
<1>3. ~ActedUnder(w, Len(t))
  BY <1>2 DEF Agrees, ActedUnder
<1>4. \A i \in DOMAIN s : i \in DOMAIN t /\ t[i] = s[i]
  BY <1>2
<1>5. \A i \in DOMAIN t : t[i].kind # Undecided => i \in DOMAIN s
  BY <1>2
<1> QED
  BY <1>1, <1>3, <1>4, <1>5 DEF Agrees

\* The last entry decided, by an outcome that tells what was done.
LEMMA AgreesDecided ==
  ASSUME NEW s \in Seq(Step), NEW t \in Seq(Step), NEW w \in World, Agrees(s, w),
         NEW n, n = Len(s), n # 0, Len(t) = n,
         \A i \in 1..n-1 : t[i] = s[i], t[n].state = s[n].state,
         t[n].kind = "merged" => w.merged,
         t[n].state = "build" /\ t[n].kind \in Kinds => ActedUnder(w, n)
  PROVE  Agrees(t, w)
<1>1. n \in Nat \ {0} /\ DOMAIN s = 1..n /\ DOMAIN t = 1..n
  OBVIOUS
<1>2. \A i \in DOMAIN s : t[i].state = s[i].state /\ (i # n => t[i] = s[i])
  BY <1>1
<1> QED
  BY <1>1, <1>2 DEF Agrees, ActedUnder

\* Something done under the last entry, which had nothing done under it.
LEMMA AgreesActed ==
  ASSUME NEW s \in Seq(Step), NEW w \in World, Agrees(s, w),
         NEW n, n = Len(s), n # 0, s[n].state \in ACTING, ~ActedUnder(w, n)
  PROVE  LET v == [w EXCEPT !.done = Append(@, n)] IN
         v \in World /\ Agrees(s, v) /\ ActedUnder(v, n)
<1> DEFINE d == Append(w.done, n)
           m == Len(w.done)
           v == [w EXCEPT !.done = d]
<1>1. n \in Nat \ {0} /\ DOMAIN s = 1..n /\ w.done \in Seq(Nat) /\ m \in Nat
      /\ DOMAIN w.done = 1..m
  BY DEF World
<1>2. /\ d \in Seq(Nat) /\ DOMAIN d = 1..m+1 /\ d[m+1] = n
      /\ \A j \in 1..m : d[j] = w.done[j]
  BY <1>1
<1> HIDE DEF d
<1>3. v \in World /\ v.done = d /\ v.lost = w.lost /\ v.merged = w.merged
  BY <1>2 DEF World
<1>4. \A j \in 1..m : w.done[j] \in 1..n /\ w.done[j] < n
  BY <1>1 DEF Agrees, ActedUnder
<1>5. \A j, k \in DOMAIN d : j < k => d[j] < d[k]
  <2> SUFFICES ASSUME NEW j \in DOMAIN d, NEW k \in DOMAIN d, j < k PROVE d[j] < d[k]
    OBVIOUS
  <2>1. \A i, l \in 1..m : i < l => w.done[i] < w.done[l]
    BY <1>1 DEF Agrees
  <2>2. CASE k = m + 1
    <3>1. j \in 1..m /\ d[k] = n
      BY <1>1, <1>2, <2>2
    <3>2. d[j] = w.done[j] /\ w.done[j] < n
      BY <1>2, <1>4, <3>1
    <3> QED
      BY <3>1, <3>2
  <2>3. CASE k # m + 1
    <3>1. j \in 1..m /\ k \in 1..m
      <4>1. m \in Nat /\ j \in 1..m+1 /\ k \in 1..m+1
        BY <1>1, <1>2
      <4> HIDE DEF m
      <4> QED
        BY <2>3, <4>1
    <3>2. d[j] = w.done[j] /\ d[k] = w.done[k]
      BY <1>2, <3>1
    <3> QED
      BY <2>1, <3>1, <3>2
  <2> QED
    BY <2>2, <2>3
<1>6. \A j \in DOMAIN d : d[j] \in DOMAIN s /\ s[d[j]].state \in ACTING
  <2> SUFFICES ASSUME NEW j \in DOMAIN d PROVE d[j] \in DOMAIN s /\ s[d[j]].state \in ACTING
    OBVIOUS
  <2>1. CASE j = m + 1
    BY <1>1, <1>2, <2>1
  <2>2. CASE j # m + 1
    <3>1. j \in 1..m
      BY <1>1, <1>2, <2>2
    <3>2. d[j] = w.done[j]
      BY <1>2, <3>1
    <3>3. w.done[j] \in DOMAIN s /\ s[w.done[j]].state \in ACTING
      BY <1>1, <3>1 DEF Agrees
    <3> QED
      BY <3>2, <3>3
  <2> QED
    BY <2>1, <2>2
<1> HIDE DEF v
<1>7. ActedUnder(v, n)
  <2>1. m + 1 \in DOMAIN d /\ d[m + 1] = n
    BY <1>1, <1>2
  <2> QED
    BY <1>3, <2>1 DEF ActedUnder
<1>8. \A i : ActedUnder(w, i) => ActedUnder(v, i)
  <2>1. \A j \in DOMAIN w.done : j \in DOMAIN d /\ d[j] = w.done[j]
    <3>1. DOMAIN w.done = 1..m /\ DOMAIN d = 1..m+1 /\ m \in Nat
      BY <1>1, <1>2
    <3>2. \A j \in 1..m : d[j] = w.done[j]
      BY <1>2
    <3> HIDE DEF m
    <3> QED
      BY <3>1, <3>2
  <2> QED
    BY <1>3, <2>1 DEF ActedUnder
<1>9. Agrees(s, v)
  BY <1>3, <1>5, <1>6, <1>8 DEF Agrees, ActedUnder
<1> QED
  BY <1>3, <1>7, <1>9 DEF v, d

\* A merge under the last entry.
LEMMA AgreesMerged ==
  ASSUME NEW s \in Seq(Step), NEW w \in World, Agrees(s, w),
         s # <<>>, s[Len(s)].state = "land"
  PROVE  LET v == [w EXCEPT !.merged = TRUE] IN v \in World /\ Agrees(s, v) /\ v.merged
<1> DEFINE v == [w EXCEPT !.merged = TRUE]
<1>1. v \in World /\ v.done = w.done /\ v.lost = w.lost /\ v.merged
  BY DEF World
<1>2. Len(s) \in DOMAIN s
  OBVIOUS
<1> HIDE DEF v
<1>3. Agrees(s, v)
  BY <1>1, <1>2 DEF Agrees
<1> QED
  BY <1>1, <1>3 DEF v

\* What was done last, under the last entry, has lost its outcome.
LEMMA AgreesLost ==
  ASSUME NEW s \in Seq(Step), NEW w \in World, Agrees(s, w),
         NEW n, n = Len(s), LastPending(s), NEW m, m = Len(w.done), m # 0, w.done[m] = n
  PROVE  LET v == [ done |-> SubSeq(w.done, 1, m - 1), lost |-> Append(w.lost, n),
                    merged |-> w.merged ] IN
         /\ v \in World /\ Len(v.lost) = Len(w.lost) + 1
         /\ Agrees(s, v) /\ ~ActedUnder(v, n)
<1> DEFINE d == SubSeq(w.done, 1, m - 1)
           l == Append(w.lost, n)
           v == [ done |-> d, lost |-> l, merged |-> w.merged ]
           c == Len(w.lost)
<1>1. /\ n \in Nat \ {0} /\ DOMAIN s = 1..n /\ w.done \in Seq(Nat) /\ m \in Nat \ {0}
      /\ DOMAIN w.done = 1..m /\ w.lost \in Seq(Nat) /\ c \in Nat /\ DOMAIN w.lost = 1..c
      /\ s[n].kind = Undecided
  BY DEF World, LastPending
<1>2. d \in Seq(Nat) /\ DOMAIN d = 1..m-1 /\ \A j \in 1..m-1 : d[j] = w.done[j]
  BY <1>1
<1>3. /\ l \in Seq(Nat) /\ Len(l) = c + 1 /\ DOMAIN l = 1..c+1 /\ l[c+1] = n
      /\ \A j \in 1..c : l[j] = w.lost[j]
  BY <1>1
<1> HIDE DEF d, l
<1>4. v \in World /\ v.done = d /\ v.lost = l /\ v.merged = w.merged
  BY <1>2, <1>3 DEF World
<1> HIDE DEF v
<1>0. \A j, k \in 1..m : j < k => w.done[j] < w.done[k]
  BY <1>1 DEF Agrees
<1>5. \A j \in 1..m-1 : w.done[j] < n
  <2>1. \A j \in 1..m-1 : j \in 1..m /\ m \in 1..m /\ j < m
    BY <1>1
  <2> QED
    BY <1>0, <2>1
<1>6. ~ActedUnder(v, n)
  <2> SUFFICES ASSUME NEW j \in 1..m-1, d[j] = n PROVE FALSE
    BY <1>2, <1>4 DEF ActedUnder
  <2>1. d[j] = w.done[j] /\ w.done[j] < n
    BY <1>2, <1>5
  <2> QED
    BY <1>1, <2>1
<1>7. s[n].state \in ACTING
  BY <1>1 DEF Agrees
<1>8. \A j \in DOMAIN l : l[j] \in DOMAIN s /\ s[l[j]].state \in ACTING
  <2> SUFFICES ASSUME NEW j \in DOMAIN l PROVE l[j] \in DOMAIN s /\ s[l[j]].state \in ACTING
    OBVIOUS
  <2>1. CASE j = c + 1
    BY <1>1, <1>3, <1>7, <2>1
  <2>2. CASE j # c + 1
    <3>1. j \in 1..c
      BY <1>1, <1>3, <2>2
    <3>2. l[j] = w.lost[j]
      BY <1>3, <3>1
    <3>3. w.lost[j] \in DOMAIN s /\ s[w.lost[j]].state \in ACTING
      BY <1>1, <3>1 DEF Agrees
    <3> QED
      BY <3>2, <3>3
  <2> QED
    BY <2>1, <2>2
<1>9. /\ \A j \in DOMAIN d : d[j] \in DOMAIN s /\ s[d[j]].state \in ACTING
      /\ \A j, k \in DOMAIN d : j < k => d[j] < d[k]
  <2>1. \A j \in DOMAIN d : j \in 1..m /\ d[j] = w.done[j]
    <3>1. DOMAIN d = 1..m-1 /\ m \in Nat
      BY <1>1, <1>2
    <3> QED
      BY <1>2, <3>1
  <2>2. \A j \in 1..m : w.done[j] \in DOMAIN s /\ s[w.done[j]].state \in ACTING
    BY <1>1 DEF Agrees
  <2> QED
    BY <1>0, <2>1, <2>2
<1>10. ASSUME NEW i \in DOMAIN s, s[i].state = "build", s[i].kind \in Kinds
       PROVE  \E j \in DOMAIN d : d[j] = i
  <2>1. PICK j \in DOMAIN w.done : w.done[j] = i
    BY <1>10 DEF Agrees
  <2>2. i # n
    BY <1>1, <1>10 DEF Undecided, Kinds
  <2>3. j \in 1..m-1
    BY <1>1, <2>1, <2>2
  <2> QED
    BY <1>2, <2>1, <2>3
<1>11. Agrees(s, v)
  BY <1>4, <1>8, <1>9, <1>10 DEF Agrees
<1> QED
  BY <1>3, <1>4, <1>6, <1>11 DEF v, d, l, c

\* Nothing was done under the last entry if the last thing done was not.
LEMMA LastActed ==
  ASSUME NEW s \in Seq(Step), NEW w \in World, Agrees(s, w),
         w.done = <<>> \/ w.done[Len(w.done)] # Len(s)
  PROVE  ~ActedUnder(w, Len(s))
<1> SUFFICES ASSUME NEW j \in DOMAIN w.done, w.done[j] = Len(s) PROVE FALSE
  BY DEF ActedUnder
<1> DEFINE m == Len(w.done)
<1>1. w.done \in Seq(Nat) /\ m \in Nat \ {0} /\ DOMAIN w.done = 1..m /\ m \in DOMAIN w.done
  BY DEF World
<1>2. w.done[m] \in 1..Len(s) /\ Len(s) \in Nat
  <2>1. w.done[m] \in DOMAIN s
    BY <1>1 DEF Agrees
  <2>2. DOMAIN s = 1..Len(s) /\ Len(s) \in Nat
    OBVIOUS
  <2> QED
    BY <2>1, <2>2
<1>3. w.done[m] < Len(s)
  BY <1>1, <1>2
<1>4. j = m \/ w.done[j] < w.done[m]
  <2>1. \A i, k \in DOMAIN w.done : i < k => w.done[i] < w.done[k]
    BY DEF Agrees
  <2>2. j = m \/ j < m
    BY <1>1
  <2> QED
    BY <1>1, <2>1, <2>2
<1> QED
  BY <1>1, <1>2, <1>3, <1>4

\* The record in a drive's hands.
LEMMA RunFacts ==
  ASSUME IInv, pc # "idle"
  PROVE  /\ run \in Run /\ run # NoRun /\ Sound(run) /\ run.result = NoResult
         /\ run.pos \in Position /\ run.pos.state \in HANDLER_STATES
         /\ file # NoRun => file = run
         /\ Len(run.steps) \in Nat
         /\ Log = run.steps /\ run.steps \in Seq(Step)
<1>1. run \in Run /\ run # NoRun /\ Sound(run)
  BY DEF IInv, TypeOK, DriveInv
<1>2. Log = run.steps
  BY DEF IInv, DriveInv, Log, NewRun
<1> QED
  BY <1>1, <1>2, WalkedFacts DEF IInv, DriveInv, Run, Sound

\* With no file and no drive the invariant holds.
LEMMA InitIInv == Init => IInv
<1> SUFFICES ASSUME Init PROVE IInv
  OBVIOUS
<1>1. forge.done = <<>> /\ forge.lost = <<>> /\ ~forge.merged /\ Log = <<>> /\ crashes = 0
      /\ pc = "idle"
  BY DEF Init, Log
<1>2. WorldInv
  BY <1>1 DEF Init, WorldInv, Agrees, LastPending
<1>3. TypeOK
  BY BoundsAssumption DEF Init, TypeOK, Undecided, ErrorKind
<1> QED
  BY <1>2, <1>3 DEF Init, IInv, FileSound, DriveInv

\* Saving a sound, unfinished record.
LEMMA SaveGoesOn ==
  ASSUME IInv, NEW r \in Run, Sound(r), r.result = NoResult, NEW next, Saved(r, next)
  PROVE  /\ file' = r /\ run' = r /\ pc' = next
         /\ file' \in Run /\ run' \in Run /\ file' # NoRun /\ run' # NoRun
         /\ FileSound' /\ Log' = r.steps
BY NoRunAssumption DEF Saved, FileSound, Log

\* Saving a result, which ends the drive.
LEMMA SaveEnds ==
  ASSUME IInv, NEW r \in Run, r.result # NoResult, NEW next, Saved(r, next)
  PROVE  /\ file' = r /\ run' = NoRun /\ pc' = "idle"
         /\ file' \in Run /\ file' # NoRun
         /\ FileSound' /\ DriveInv' /\ Log' = r.steps
BY NoRunAssumption DEF Saved, FileSound, DriveInv, Log

\* A save that leaves the log and the world alone.
LEMMA SameLog ==
  ASSUME IInv, UNCHANGED <<Log, forge, crashes>>, pc # "settle", pc' # "settle",
         file' # NoRun /\ file'.result = 0 => forge.merged
  PROVE  WorldInv'
<1>1. WorldInv
  BY DEF IInv
<1> QED
  BY <1>1 DEF WorldInv

\* What a handler may return.
LEMMA ReturnedKinds ==
  ASSUME NEW s \in HANDLER_STATES, NEW k \in MayReturn(s)
  PROVE  /\ k \in Kinds \cup {ErrorKind}
         /\ k = ErrorKind => s # "land"
         /\ HasTransition(s, k) <=> k \in OUTCOME_KINDS[s]
         /\ ~HasTransition(s, k) => k = ErrorKind
         /\ k = "merged" => s = "land"
  BY DEF MayReturn, NEVER_THROW, HasTransition, HANDLER_STATES, REPORT_STATES, OUTCOME_KINDS,
         Kinds, ErrorKind

\* What a handler may have done to the world.
LEMMA AfterFacts ==
  ASSUME NEW s \in HANDLER_STATES, NEW k \in MayReturn(s), NEW w \in After(s, k)
  PROVE  /\ \/ w = forge
            \/ w = Acted /\ s \in ACTING
            \/ w = Merging /\ s = "land"
         /\ k = "merged" => w = Merging /\ s = "land"
         /\ s = "build" /\ k # ErrorKind => w = Acted
<1>1. k = "merged" => s = "land"
  BY ReturnedKinds
<1>2. CASE s = "build"
  <2>1. w = Acted \/ (k = ErrorKind /\ w = forge)
    BY <1>2 DEF After, REPORT_STATES
  <2> QED
    BY <1>1, <1>2, <2>1 DEF ACTING
<1>3. CASE s \in REPORT_STATES
  <2>1. w \in {forge, Acted} /\ s # "build" /\ s # "land"
    BY <1>3 DEF After, REPORT_STATES
  <2> QED
    BY <1>1, <1>3, <2>1 DEF ACTING
<1>4. CASE s = "land"
  <2>1. w = Merging \/ (k # "merged" /\ w = forge)
    BY <1>4 DEF After, REPORT_STATES
  <2> QED
    BY <1>4, <2>1
<1>5. CASE s \notin {"build", "land"} \cup REPORT_STATES
  <2>1. w = forge
    BY <1>5 DEF After
  <2> QED
    BY <1>1, <1>5, <2>1
<1> QED
  BY <1>2, <1>3, <1>4, <1>5

\* One step per action; under it, one per conjunct of the invariant it can disturb.
LEMMA StepIInv == IInv /\ [Next]_vars => IInv'
<1> SUFFICES ASSUME IInv, [Next]_vars PROVE IInv'
  OBVIOUS
<1> USE BoundsAssumption, NoRunAssumption
<1>1. CASE FirstDrive
  <2>1. /\ run' = NewRun /\ pc' = "loop" /\ file' = file /\ file = NoRun /\ iter' = 0
        /\ clock' \in [ flag : BOOLEAN, late : BOOLEAN ]
        /\ UNCHANGED <<kind, forge, crashes>>
    BY <1>1 DEF FirstDrive, Drive, IInv, TypeOK
  <2>2. NewRun \in Run /\ Sound(NewRun) /\ ~Halting(NewRun) /\ NewRun.result = NoResult
        /\ NewRun # NoRun
    BY SoundNew DEF NewRun
  <2>3. TypeOK'
    BY <2>1, <2>2 DEF IInv, TypeOK
  <2>4. FileSound' /\ DriveInv'
    BY <2>1, <2>2 DEF IInv, FileSound, DriveInv
  <2>5. WorldInv'
    BY <1>1, <2>1, SameLog DEF FirstDrive, Log, IInv, WorldInv
  <2> QED
    BY <2>3, <2>4, <2>5 DEF IInv
<1>2. CASE Resume
  <2>1. file \in Run /\ file.result = NoResult /\ Sound(file) /\ ~Halting(file)
    BY <1>2, OthersAreNotDriven DEF Resume, IInv, TypeOK, FileSound
  <2>2. Verdict(file) = "drive" /\ foldLog(file).pos = file.pos
    BY <2>1, SoundDrives
  <2>3. [file EXCEPT !.pos = foldLog(file).pos] = file
    BY <2>1, <2>2 DEF Run
  <2>4. /\ run' = file /\ pc' = "loop" /\ file' = file /\ file # NoRun /\ iter' = 0
        /\ clock' \in [ flag : BOOLEAN, late : BOOLEAN ]
        /\ UNCHANGED <<kind, forge, crashes>>
    <3>1. file # NoRun /\ Drive(file)
      BY <1>2, <2>2, <2>3 DEF Resume
    <3>2. clock' \in [ flag : BOOLEAN, late : BOOLEAN ]
      BY <3>1 DEF Drive, IInv, TypeOK
    <3> QED
      BY <3>1, <3>2 DEF Drive
  <2>5. TypeOK'
    BY <2>1, <2>4 DEF IInv, TypeOK
  <2>6. FileSound' /\ DriveInv'
    BY <2>1, <2>4 DEF IInv, FileSound, DriveInv
  <2>7. WorldInv'
    BY <1>2, <2>4, SameLog DEF Resume, Log, IInv, WorldInv
  <2> QED
    BY <2>5, <2>6, <2>7 DEF IInv
<1>3. CASE Reload \/ UNCHANGED vars
  <2>1. UNCHANGED vars
    BY <1>3 DEF Reload
  <2> QED
    BY <2>1 DEF vars, IInv, TypeOK, FileSound, DriveInv, WorldInv, Log
<1>4. CASE ClockPasses
  <2>1. UNCHANGED <<file, run, pc, kind, iter, forge, crashes>>
        /\ clock' \in [ flag : BOOLEAN, late : BOOLEAN ]
    BY <1>4 DEF ClockPasses, IInv, TypeOK
  <2> QED
    BY <2>1 DEF IInv, TypeOK, FileSound, DriveInv, WorldInv, Log
<1>5. CASE StepCap \/ DeadlineStop
  <2>1. /\ pc \in {"loop", "boundary"} /\ Saved(Stamped(run, "handed-back"), "loop")
        /\ UNCHANGED <<kind, clock, iter, forge, crashes>>
    BY <1>5 DEF StepCap, DeadlineStop
  <2>2. /\ Stamped(run, "handed-back") \in Run
        /\ Stamped(run, "handed-back").steps = run.steps
        /\ Stamped(run, "handed-back").result = 10
    BY <2>1, RunFacts, StampedFacts DEF TERMINAL_STATES, exitCodeFor
  <2>3. /\ run' = NoRun /\ pc' = "idle" /\ file' \in Run /\ file'.result = 10
        /\ FileSound' /\ DriveInv' /\ Log' = Log
    BY <2>1, <2>2, RunFacts, SaveEnds DEF NoResult
  <2>4. TypeOK'
    BY <2>1, <2>3 DEF IInv, TypeOK
  <2>5. WorldInv'
    BY <2>1, <2>3, SameLog
  <2> QED
    BY <2>3, <2>4, <2>5 DEF IInv
<1>6. CASE NextIteration
  <2>1. /\ pc = "loop" /\ pc' = "boundary" /\ iter' \in 0..MAX_STEPS
        /\ UNCHANGED <<file, run, kind, clock, forge, crashes>>
    BY <1>6 DEF NextIteration, IInv, TypeOK
  <2>2. TypeOK' /\ FileSound' /\ DriveInv'
    BY <2>1 DEF IInv, TypeOK, FileSound, DriveInv
  <2>3. WorldInv'
    BY <2>1, SameLog DEF Log, IInv, WorldInv
  <2> QED
    BY <2>2, <2>3 DEF IInv
<1>7. CASE ArmDeadline
  <2> DEFINE r == [run EXCEPT !.armed = TRUE]
  <2>1. /\ pc = "boundary" /\ Saved(r, "boundary")
        /\ UNCHANGED <<kind, clock, iter, forge, crashes>>
    BY <1>7 DEF ArmDeadline
  <2>2. r \in Run /\ r.steps = run.steps /\ r.pos = run.pos /\ r.result = NoResult
    BY <2>1, RunFacts DEF Run
  <2> HIDE DEF r
  <2>3. Sound(r) /\ ~Halting(r)
    BY <2>1, <2>2, RunFacts, SoundSame DEF IInv, DriveInv
  <2>4. /\ file' = r /\ run' = r /\ pc' = "boundary"
        /\ file' \in Run /\ run' \in Run /\ file' # NoRun /\ run' # NoRun
        /\ FileSound' /\ Log' = Log
    BY <2>1, <2>2, <2>3, RunFacts, SaveGoesOn
  <2>5. TypeOK'
    BY <2>1, <2>4 DEF IInv, TypeOK
  <2>6. DriveInv'
    BY <2>1, <2>2, <2>3, <2>4 DEF IInv, DriveInv
  <2>7. WorldInv'
    BY <2>1, <2>2, <2>4, SameLog DEF NoResult
  <2> QED
    BY <2>4, <2>5, <2>6, <2>7 DEF IInv
<1>8. CASE startStep
  <2> DEFINE r == Opened(run)
  <2>1. /\ pc = "boundary" /\ ~Pending(run) /\ Saved(r, "handler")
        /\ UNCHANGED <<kind, clock, iter, forge, crashes>>
    BY <1>8 DEF startStep, MayStep, Opened
  <2>2. /\ r \in Run /\ Sound(r) /\ Pending(r) /\ ~Halting(r)
        /\ r.result = NoResult /\ Len(r.steps) = Len(run.steps) + 1
        /\ r.steps[Len(r.steps)].kind = Undecided
        /\ \A i \in 1..Len(run.steps) : r.steps[i] = run.steps[i]
    <3>1. run \in Run /\ Sound(run) /\ run.result = NoResult /\ ~Halting(run)
          /\ run.pos.state \in HANDLER_STATES /\ Len(run.steps) \in Nat
      BY <2>1, RunFacts DEF IInv, DriveInv
    <3>2. r \in Run /\ Sound(r) /\ Pending(r) /\ ~Halting(r)
      BY <2>1, <3>1, SoundOpened
    <3>3. /\ r.result = NoResult /\ Len(r.steps) = Len(run.steps) + 1
          /\ r.steps[Len(r.steps)].kind = Undecided
          /\ \A i \in 1..Len(run.steps) : r.steps[i] = run.steps[i]
      <4>1. /\ r.result = run.result /\ Len(r.steps) = Len(run.steps) + 1
            /\ \A i \in 1..Len(run.steps) : r.steps[i] = run.steps[i]
            /\ r.steps[Len(run.steps) + 1]
                 = [ state |-> run.pos.state, n |-> nextAttempt(run), kind |-> Undecided ]
        BY <3>1, OpenedFacts
      <4> HIDE DEF r
      <4> QED
        BY <3>1, <4>1
    <3> HIDE DEF r
    <3> QED
      BY <3>1, <3>2, <3>3
  <2> HIDE DEF r
  <2>4. /\ file' = r /\ run' = r /\ pc' = "handler"
        /\ file' \in Run /\ run' \in Run /\ file' # NoRun /\ run' # NoRun
        /\ FileSound' /\ Log' = r.steps
    BY <2>1, <2>2, SaveGoesOn
  <2>5. TypeOK'
    BY <2>1, <2>4 DEF IInv, TypeOK
  <2>6. DriveInv'
    BY <2>1, <2>2, <2>4 DEF IInv, DriveInv
  <2>7. Agrees(Log', forge) /\ ~ActedUnder(forge, Len(Log'))
    <3>1. Log \in Seq(Step) /\ Log = run.steps /\ r.steps \in Seq(Step)
      BY <2>1, <2>2, RunFacts DEF Run
    <3>2. forge \in World /\ Agrees(Log, forge)
      BY DEF IInv, TypeOK, World, WorldInv
    <3> QED
      BY <2>2, <2>4, <3>1, <3>2, AgreesOpened
  <2>8. WorldInv'
    <3>1. Len(forge'.lost) <= crashes'
      BY <2>1 DEF IInv, WorldInv
    <3> QED
      BY <2>1, <2>2, <2>4, <2>7, <3>1 DEF WorldInv, NoResult
  <2> QED
    BY <2>4, <2>5, <2>6, <2>8 DEF IInv
<1>9. CASE RerunStep
  <2>1. /\ pc = "boundary" /\ pc' = "handler" /\ Pending(run) /\ run # NewRun
        /\ UNCHANGED <<file, run, kind, clock, iter, forge, crashes>>
    BY <1>9, SoundNew DEF RerunStep, MayStep
  <2>2. TypeOK' /\ FileSound' /\ DriveInv'
    BY <2>1 DEF IInv, TypeOK, FileSound, DriveInv
  <2>3. WorldInv'
    BY <2>1, SameLog DEF Log, IInv, WorldInv
  <2> QED
    BY <2>2, <2>3 DEF IInv
<1>10. CASE HandlerReturns
  <2>1. /\ pc = "handler" /\ pc' = "settle"
        /\ kind' \in MayReturn(run.pos.state) /\ forge' \in After(run.pos.state, kind')
        /\ UNCHANGED <<file, run, clock, iter, crashes>>
    BY <1>10 DEF HandlerReturns
  <2>2. /\ run \in Run /\ run.pos.state \in HANDLER_STATES /\ file = run /\ file # NoRun
        /\ Pending(run) /\ Sound(run)
    BY <2>1, RunFacts DEF IInv, DriveInv
  <2>3. kind' \in Kinds \cup {ErrorKind}
    BY <2>1, <2>2, ReturnedKinds
  <2>4. /\ \/ forge' = forge
           \/ forge' = Acted /\ run.pos.state \in ACTING
           \/ forge' = Merging /\ run.pos.state = "land"
        /\ kind' = "merged" => forge' = Merging /\ run.pos.state = "land"
        /\ run.pos.state = "build" /\ kind' # ErrorKind => forge' = Acted
    BY <2>1, <2>2, AfterFacts
  <2> DEFINE n == Len(Log)
  <2>5. /\ Log \in Seq(Step) /\ n # 0 /\ Log # <<>> /\ Log[n].state = run.pos.state
        /\ forge \in World /\ Agrees(Log, forge) /\ ~ActedUnder(forge, n) /\ n = Len(run.steps)
    <3>1. run.steps # <<>> /\ Last(run).state = run.pos.state /\ Last(run).kind = Undecided
      BY <2>2, EntryKinds DEF Sound
    <3>2. Log = run.steps /\ Log \in Seq(Step)
      BY <2>1, RunFacts
    <3>3. n # 0
      BY <3>1, <3>2
    <3>4. LastPending(Log)
      BY <3>1, <3>2 DEF LastPending, Last
    <3>5. forge \in World /\ Agrees(Log, forge) /\ ~ActedUnder(forge, n)
      BY <2>1, <3>4 DEF IInv, TypeOK, World, WorldInv
    <3> QED
      BY <3>1, <3>2, <3>3, <3>5 DEF Last
  <2> HIDE DEF n
  <2>6. /\ forge' \in World /\ Agrees(Log, forge') /\ forge'.lost = forge.lost
        /\ forge.merged => forge'.merged
        /\ kind' = "merged" => forge'.merged
        /\ run.pos.state = "build" /\ kind' # ErrorKind => ActedUnder(forge', n)
    <3>1. CASE forge' = forge /\ run.pos.state # "build" /\ kind' # "merged"
      BY <2>5, <3>1
    <3>2. CASE forge' = forge /\ kind' = ErrorKind
      BY <2>5, <3>2 DEF ErrorKind
    <3>3. CASE forge' = Acted /\ run.pos.state \in ACTING
      <4>1. forge' = [forge EXCEPT !.done = Append(@, n)] /\ Log[n].state \in ACTING
        BY <2>5, <3>3 DEF Acted
      <4>2. forge' \in World /\ Agrees(Log, forge') /\ ActedUnder(forge', n)
        BY <2>5, <4>1, AgreesActed DEF n
      <4>3. forge'.lost = forge.lost /\ forge'.merged = forge.merged
        BY <2>5, <4>1 DEF World
      <4>4. run.pos.state # "land"
        BY <3>3 DEF ACTING, REPORT_STATES
      <4> QED
        BY <2>4, <4>2, <4>3, <4>4
    <3>4. CASE forge' = Merging /\ run.pos.state = "land"
      <4>1. forge' = [forge EXCEPT !.merged = TRUE]
        BY <3>4 DEF Merging
      <4>2. forge' \in World /\ Agrees(Log, forge') /\ forge'.merged
        BY <2>5, <3>4, <4>1, AgreesMerged DEF n
      <4>3. forge'.lost = forge.lost
        BY <2>5, <4>1 DEF World
      <4> QED
        BY <3>4, <4>2, <4>3
    <3> QED
      BY <2>4, <3>1, <3>2, <3>3, <3>4 DEF ACTING
  <2>7. TypeOK'
    BY <2>1, <2>3, <2>6 DEF IInv, TypeOK, World
  <2>8. FileSound' /\ DriveInv'
    BY <2>1, <2>2 DEF IInv, FileSound, DriveInv
  <2>9. WorldInv'
    <3>1. Log' = Log /\ file'.result # 0
      BY <2>1, <2>2, RunFacts DEF Log, NoResult
    <3>2. Len(forge'.lost) <= crashes'
      BY <2>1, <2>6 DEF IInv, WorldInv
    <3>3. kind' \in Kinds => kind' # ErrorKind
      BY DEF Kinds, ErrorKind
    <3> QED
      BY <2>1, <2>6, <3>1, <3>2, <3>3 DEF WorldInv, n
  <2> QED
    BY <2>7, <2>8, <2>9 DEF IInv
<1>11. CASE Halt
  <2>1. /\ pc = "halt" /\ Saved(Stamped(run, "handed-back"), "halt")
        /\ UNCHANGED <<kind, clock, iter, forge, crashes>>
    BY <1>11 DEF Halt
  <2>2. /\ Stamped(run, "handed-back") \in Run
        /\ Stamped(run, "handed-back").steps = run.steps
        /\ Stamped(run, "handed-back").result = 10
    BY <2>1, RunFacts, StampedFacts DEF TERMINAL_STATES, exitCodeFor
  <2>3. /\ run' = NoRun /\ pc' = "idle" /\ file' \in Run /\ file'.result = 10
        /\ FileSound' /\ DriveInv' /\ Log' = Log
    BY <2>1, <2>2, RunFacts, SaveEnds DEF NoResult
  <2>4. TypeOK'
    BY <2>1, <2>3 DEF IInv, TypeOK
  <2>5. WorldInv'
    BY <2>1, <2>3, SameLog
  <2> QED
    BY <2>3, <2>4, <2>5 DEF IInv
<1>12. CASE SettleFault \/ RefuseLand \/ Apply
  <2>1. /\ pc = "settle" /\ kind' = Undecided
        /\ UNCHANGED <<clock, iter, forge, crashes>>
    BY <1>12 DEF SettleFault, RefuseLand, Apply, Settling
  <2>2. /\ run \in Run /\ run.pos \in Position /\ run.pos.state \in HANDLER_STATES
        /\ run.result = NoResult /\ Pending(run) /\ Sound(run) /\ run.steps # <<>>
        /\ kind \in MayReturn(run.pos.state) /\ kind \in Kinds \cup {ErrorKind}
    BY <2>1, RunFacts, EntryKinds, ReturnedKinds DEF IInv, DriveInv
  <2>3. logged \in Run /\ logged.pos = run.pos /\ logged.result = NoResult
    BY <2>2, OutcomeFacts DEF logged
  <2>7. Agrees(logged.steps, forge) /\ ~LastPending(logged.steps)
    <3> DEFINE n == Len(run.steps)
    <3>1. /\ n \in Nat \ {0} /\ Len(logged.steps) = n
          /\ \A i \in 1..n-1 : logged.steps[i] = run.steps[i]
          /\ Last(logged).state = run.pos.state /\ Last(logged).kind = kind /\ kind # Undecided
      BY <2>2, <2>3, DecidedLog DEF logged
    <3>2. Last(run).state = run.pos.state
      BY <2>2, EntryKinds DEF Sound
    <3>3. /\ Log = run.steps /\ run.steps \in Seq(Step) /\ logged.steps \in Seq(Step)
          /\ logged.steps[n].state = run.pos.state /\ logged.steps[n].kind = kind
          /\ run.steps[n].state = run.pos.state
      BY <2>1, <2>3, <3>1, <3>2, RunFacts DEF Last, Run
    <3>4. /\ forge \in World /\ Agrees(run.steps, forge)
          /\ kind = "merged" => forge.merged
          /\ run.pos.state = "build" /\ kind \in Kinds => ActedUnder(forge, n)
      BY <2>1, <3>3 DEF IInv, TypeOK, World, WorldInv
    <3> HIDE DEF n
    <3>5. Agrees(logged.steps, forge)
      BY <3>1, <3>3, <3>4, AgreesDecided DEF n
    <3> QED
      BY <3>1, <3>3, <3>5 DEF LastPending
  <2>8. ASSUME Log' = logged.steps, pc' # "settle", file' # NoRun /\ file'.result = 0 => forge.merged
         PROVE  WorldInv'
    <3>1. Len(forge.lost) <= crashes
      BY DEF IInv, WorldInv
    <3> QED
      BY <2>1, <2>7, <2>8, <3>1 DEF WorldInv
  <2>4. CASE SettleFault
    <3>1. ~HasTransition(run.pos.state, kind) /\ Saved(logged, "halt") /\ run.pos.state # "land"
      BY <2>2, <2>4, ReturnedKinds DEF SettleFault
    <3>2. Sound(logged) /\ Halting(logged)
      BY <2>2, <3>1, SoundHalted DEF logged
    <3>3. /\ file' = logged /\ run' = logged /\ pc' = "halt"
          /\ file' \in Run /\ run' \in Run /\ file' # NoRun /\ run' # NoRun
          /\ FileSound' /\ Log' = logged.steps
      BY <2>3, <3>1, <3>2, SaveGoesOn
    <3>4. TypeOK'
      BY <2>1, <3>3 DEF IInv, TypeOK
    <3>5. DriveInv'
      BY <2>1, <2>3, <3>2, <3>3 DEF IInv, DriveInv
    <3>6. WorldInv'
      BY <2>3, <2>8, <3>3 DEF NoResult
    <3> QED
      BY <3>3, <3>4, <3>5, <3>6 DEF IInv
  <2>5. CASE RefuseLand
    <3>1. Saved(Stamped(logged, "handed-back"), "loop")
      BY <2>5 DEF RefuseLand
    <3>2. /\ Stamped(logged, "handed-back") \in Run
          /\ Stamped(logged, "handed-back").steps = logged.steps
          /\ Stamped(logged, "handed-back").result = 10
      BY <2>3, StampedFacts DEF TERMINAL_STATES, exitCodeFor
    <3>3. /\ run' = NoRun /\ pc' = "idle" /\ file' \in Run /\ file'.result = 10
          /\ FileSound' /\ DriveInv' /\ Log' = logged.steps
      BY <3>1, <3>2, SaveEnds DEF NoResult
    <3>4. TypeOK'
      BY <2>1, <3>3 DEF IInv, TypeOK
    <3>5. WorldInv'
      BY <2>8, <3>3
    <3> QED
      BY <3>3, <3>4, <3>5 DEF IInv
  <2>6. CASE Apply
    <3> DEFINE q == [logged EXCEPT !.pos = Moved]
    <3>1. kind \in OUTCOME_KINDS[run.pos.state] /\ ~LandRefused
          /\ Saved(IF Moved.state \in TERMINAL_STATES THEN Stamped(q, Moved.state) ELSE q, "loop")
      BY <2>2, <2>6, ReturnedKinds DEF Apply
    <3>2. /\ Moved \in Position
          /\ Moved.state \in TERMINAL_STATES =>
               \/ run.pos.state = "land" /\ Moved.state = "landed"
               \/ Moved.state \in {"handed-back", "not-ready"}
      BY <2>2, <3>1, RowSummary DEF Moved
    <3>3. q \in Run /\ q.steps = logged.steps /\ q.result = NoResult /\ q.pos = Moved
      <4> HIDE DEF Moved
      <4> QED
        BY <2>3, <3>2 DEF Run
    <3>4. CASE Moved.state \in TERMINAL_STATES
      <4>1. /\ Stamped(q, Moved.state) \in Run
            /\ Stamped(q, Moved.state).steps = logged.steps
            /\ Stamped(q, Moved.state).result = exitCodeFor(Moved.state)
            /\ Stamped(q, Moved.state).result # NoResult
        <5> HIDE DEF q
        <5> QED
          BY <3>3, <3>4, StampedFacts
      <4>2. /\ run' = NoRun /\ pc' = "idle" /\ file' \in Run
            /\ file'.result = exitCodeFor(Moved.state)
            /\ FileSound' /\ DriveInv' /\ Log' = logged.steps
        <5> DEFINE z == Stamped(q, Moved.state)
        <5>1. Saved(z, "loop")
          BY <3>1, <3>4
        <5> HIDE DEF z
        <5>2. z \in Run /\ z.result # NoResult /\ z.steps = logged.steps
          BY <4>1 DEF z
        <5>3. /\ file' = z /\ run' = NoRun /\ pc' = "idle"
              /\ FileSound' /\ DriveInv' /\ Log' = z.steps
          BY <5>1, <5>2, SaveEnds
        <5> QED
          BY <4>1, <5>3 DEF z
      <4>3. file'.result = 0 => forge.merged
        <5>1. ASSUME exitCodeFor(Moved.state) = 0 PROVE run.pos.state = "land" /\ Moved.state = "landed"
          BY <5>1, <3>2, <3>4 DEF exitCodeFor
        <5>2. ASSUME run.pos.state = "land", Moved.state = "landed" PROVE kind = "merged"
          BY <5>2, <2>2 DEF Moved, TableNext, AfterLand, To, Position
        <5> QED
          BY <2>1, <4>2, <5>1, <5>2 DEF IInv, WorldInv
      <4>4. TypeOK'
        BY <2>1, <4>2 DEF IInv, TypeOK
      <4>5. WorldInv'
        BY <2>8, <4>2, <4>3
      <4> QED
        BY <4>2, <4>4, <4>5 DEF IInv
    <3>5. CASE Moved.state \notin TERMINAL_STATES
      <4>1. Saved(q, "loop")
        BY <3>1, <3>5
      <4>2. Moved.state \in HANDLER_STATES
            /\ (Moved.state = "land" =>
                  run.pos.state = "ci" /\ kind = "green" /\ landEarned(run.pos, Newest(logged.steps)))
        BY <3>1, <3>2, <3>5 DEF Position, LeanState, LandRefused
      <4>3. Sound(q) /\ ~Pending(q) /\ ~Halting(q)
        BY <2>2, <3>1, <4>2, SoundApplied DEF Moved, logged
      <4> HIDE DEF q
      <4>4. /\ file' = q /\ run' = q /\ pc' = "loop"
            /\ file' \in Run /\ run' \in Run /\ file' # NoRun /\ run' # NoRun
            /\ FileSound' /\ Log' = q.steps
        BY <3>3, <4>1, <4>3, SaveGoesOn
      <4>5. TypeOK'
        BY <2>1, <4>4 DEF IInv, TypeOK
      <4>6. DriveInv'
        BY <2>1, <3>3, <4>3, <4>4 DEF IInv, DriveInv
      <4>7. WorldInv'
        BY <2>8, <3>3, <4>4 DEF NoResult
      <4> QED
        BY <4>4, <4>5, <4>6, <4>7 DEF IInv
    <3> QED
      BY <3>4, <3>5
  <2> QED
    BY <1>12, <2>4, <2>5, <2>6
<1>13. CASE Crash
  <2>1. /\ run' = NoRun /\ pc' = "idle" /\ kind' = Undecided /\ crashes' \in 0..MAX_CRASHES
        /\ iter' = 0 /\ clock' \in [ flag : BOOLEAN, late : BOOLEAN ]
        /\ forge' = Lose /\ UNCHANGED file /\ pc # "idle"
    <3>1. crashes \in 0..MAX_CRASHES /\ clock \in [ flag : BOOLEAN, late : BOOLEAN ]
      BY DEF IInv, TypeOK
    <3>2. crashes < MAX_CRASHES /\ crashes' = crashes + 1 /\ clock' = [clock EXCEPT !.flag = FALSE]
      BY <1>13 DEF Crash
    <3>3. crashes' \in 0..MAX_CRASHES
      BY <3>1, <3>2
    <3>4. clock' \in [ flag : BOOLEAN, late : BOOLEAN ]
      BY <3>1, <3>2
    <3> QED
      BY <1>13, <3>3, <3>4 DEF Crash
  <2>2. crashes' = crashes + 1 /\ crashes \in Nat
    BY <1>13 DEF Crash, IInv, TypeOK
  <2>3. /\ Log = run.steps /\ Log \in Seq(Step) /\ Log' = Log
        /\ forge \in World /\ Agrees(Log, forge) /\ Len(forge.lost) <= crashes
    BY <2>1, RunFacts DEF IInv, TypeOK, World, WorldInv, Log
  <2> DEFINE n == Len(Log)
             m == Len(forge.done)
  <2>4. /\ forge' \in World /\ Agrees(Log, forge') /\ Len(forge'.lost) <= crashes'
        /\ forge'.merged = forge.merged
        /\ LastPending(Log) => ~ActedUnder(forge', n)
    <3>1. CASE pc = "settle" /\ m > 0 /\ forge.done[m] = n
      <4>1. LastPending(Log)
        <5>1. Pending(run) /\ run \in Run
          BY <3>1, RunFacts DEF IInv, DriveInv
        <5> QED
          BY <2>3, <5>1, EntryKinds DEF LastPending, Last
      <4> DEFINE d == SubSeq(forge.done, 1, m - 1)
                 l == Append(forge.lost, n)
      <4>2. forge' = [forge EXCEPT !.done = d, !.lost = l] /\ m # 0
        BY <2>1, <2>3, <3>1 DEF Lose
      <4>5. n = Len(Log) /\ m = Len(forge.done)
        OBVIOUS
      <4> HIDE DEF n, m
      <4>6. forge' = [ done |-> d, lost |-> l, merged |-> forge.merged ]
        <5> HIDE DEF d, l
        <5> QED
          BY <2>3, <4>2 DEF World
      <4>3. /\ forge' \in World /\ Agrees(Log, forge') /\ ~ActedUnder(forge', n)
            /\ Len(forge'.lost) = Len(forge.lost) + 1 /\ forge'.merged = forge.merged
        <5> DEFINE v == [ done |-> d, lost |-> l, merged |-> forge.merged ]
        <5>1. /\ v \in World /\ Len(v.lost) = Len(forge.lost) + 1
              /\ Agrees(Log, v) /\ ~ActedUnder(v, n)
          BY <2>3, <3>1, <4>1, <4>2, <4>5, AgreesLost
        <5>2. v.merged = forge.merged
          OBVIOUS
        <5> QED
          BY <4>6, <5>1, <5>2
      <4>4. Len(forge.lost) \in Nat
        BY <2>3 DEF World
      <4> QED
        BY <2>2, <2>3, <4>3, <4>4
    <3>2. CASE ~(pc = "settle" /\ m > 0 /\ forge.done[m] = n)
      <4>1. forge' = forge
        BY <2>1, <2>3, <3>2 DEF Lose
      <4>2. Len(forge.lost) <= crashes'
        BY <2>2, <2>3 DEF World
      <4>3. forge.done \in Seq(Nat)
        BY <2>3 DEF World
      <4>4. LastPending(Log) => ~ActedUnder(forge, n)
        <5>1. CASE pc # "settle"
          BY <5>1 DEF IInv, WorldInv
        <5>2. CASE pc = "settle"
          <6>1. forge.done = <<>> \/ forge.done[m] # n
            BY <3>2, <4>3, <5>2
          <6> QED
            BY <2>3, <6>1, LastActed
        <5> QED
          BY <5>1, <5>2
      <4> QED
        BY <2>3, <4>1, <4>2, <4>4
    <3> QED
      BY <3>1, <3>2
  <2> HIDE DEF n, m
  <2>5. TypeOK'
    BY <2>1, <2>4 DEF IInv, TypeOK, World
  <2>6. FileSound' /\ DriveInv'
    BY <2>1 DEF IInv, FileSound, DriveInv
  <2>7. WorldInv'
    BY <2>1, <2>3, <2>4 DEF IInv, WorldInv, n
  <2> QED
    BY <2>5, <2>6, <2>7 DEF IInv
<1> QED
  BY <1>1, <1>2, <1>3, <1>4, <1>5, <1>6, <1>7, <1>8, <1>9, <1>10, <1>11, <1>12, <1>13
  DEF Next, Driving

\* The invariant holds throughout.
LEMMA Invariance == Spec => []IInv
  BY InitIInv, StepIInv, PTL DEF Spec

-----------------------------------------------------------------------------
(* What it gives *)

\* Every reachable state is well typed.
THEOREM Typing == Spec => []TypeOK
<1>1. IInv => TypeOK
  BY DEF IInv
<1> QED
  BY <1>1, Invariance, PTL

\* Whatever crashes and is driven again, every build paid for and every comment posted has
\* an entry of its own on file, every build with an outcome was paid for, and what comes on
\* top was cut off from its outcome by a crash, one at most by each; a run that says merged
\* or landed has merged (startStep's write-ahead and the re-run of the pending step,
\* engine.ts, and land.ts).
THEOREM TrueRecord == Spec => []RecordAndWorldAgree
<1>1. IInv => RecordAndWorldAgree
  BY DEF IInv, WorldInv, Agrees, RecordAndWorldAgree, Of
<1> QED
  BY <1>1, Invariance, PTL

\* Every file left unfinished is driven by the next call, unless it is the one a crash
\* leaves between the two saves of a thrown handler (verifiedPosition, resume.ts).
THEOREM Resumable == Spec => []UnfinishedRunResumes
<1>1. IInv => UnfinishedRunResumes
  <2> SUFFICES ASSUME IInv, file # NoRun, file.result = NoResult,
                      ~Halts(file.steps[Len(file.steps)])
               PROVE  Verdict(file) = "drive" /\ foldLog(file).pos.state \in HANDLER_STATES
    BY DEF UnfinishedRunResumes
  <2>1. file \in Run /\ Sound(file) /\ ~Halting(file)
    BY DEF IInv, TypeOK, FileSound, Halting, Last
  <2> QED
    BY <2>1, SoundDrives DEF Sound
<1> QED
  BY <1>1, Invariance, PTL

\* The merge is performed only from a record that has earned it on disk: not draft, the
\* newest gate and the newest pipeline green (apply's arrival at land, engine.ts).
THEOREM EarnedMerge == Spec => MergeIsEarned
<1>1. IInv /\ [Next]_vars =>
        (~forge.merged /\ forge'.merged =>
           file.pos.state = "land" /\ landEarned(file.pos, Newest(file.steps)))
  <2> SUFFICES ASSUME IInv, [Next]_vars, ~forge.merged, forge'.merged
               PROVE  file.pos.state = "land" /\ landEarned(file.pos, Newest(file.steps))
    OBVIOUS
  <2>1. Lose.merged = forge.merged /\ Acted.merged = forge.merged
    BY DEF Lose, Acted, IInv, TypeOK
  <2>2. HandlerReturns
    BY <2>1 DEF Next, Driving, FirstDrive, Resume, Drive, Reload, ClockPasses, StepCap,
           NextIteration, ArmDeadline, DeadlineStop, startStep, RerunStep, SettleFault, Halt,
           RefuseLand, Apply, Settling, Crash, vars
  <2>3. /\ run.pos.state \in HANDLER_STATES /\ file = run /\ Sound(run)
        /\ \E k \in MayReturn(run.pos.state) : forge' \in After(run.pos.state, k)
    BY <2>2, RunFacts DEF HandlerReturns, IInv, DriveInv
  <2>4. run.pos.state = "land"
    BY <2>1, <2>3, AfterFacts
  <2> QED
    BY <2>3, <2>4 DEF Sound
<1> QED
  BY <1>1, Invariance, PTL DEF Spec, MergeIsEarned

\* A finished record is never written again (runLean's reading of a result, engine.ts).
THEOREM FinalResult == Spec => ResultIsFinal
<1>1. IInv /\ [Next]_vars => (file # NoRun /\ file.result # NoResult => file' = file)
  <2> SUFFICES ASSUME IInv, [Next]_vars, file # NoRun, file.result # NoResult, file' # file
               PROVE  FALSE
    OBVIOUS
  <2>1. pc = "idle"
    BY RunFacts
  <2>2. Resume
    BY <2>1 DEF Next, Driving, FirstDrive, Drive, Reload, ClockPasses, StepCap,
           NextIteration, ArmDeadline, DeadlineStop, startStep, MayStep, RerunStep,
           HandlerReturns, SettleFault, Halt, RefuseLand, Apply, Settling, Crash, vars
  <2> QED
    BY <2>2, OthersAreNotDriven DEF Resume, IInv, TypeOK
<1> QED
  BY <1>1, Invariance, PTL DEF Spec, ResultIsFinal

-----------------------------------------------------------------------------
(* The engine implements the walk: a record stands for its decided steps *)

WalkPos(r) ==
  IF Len(r.steps) > 0 /\ Halts(r.steps[Len(r.steps)]) THEN To(r.pos, "handed-back") ELSE r.pos

WalkSteps(r) == IF Pending(r) THEN SubSeq(r.steps, 1, Len(r.steps) - 1) ELSE r.steps

\* The mapping reads the file, before a step and after it.
LEMMA FileBars ==
  /\ file # NoRun => posBar = WalkPos(file) /\ stepsBar = WalkSteps(file)
  /\ file' # NoRun => posBar' = WalkPos(file') /\ stepsBar' = WalkSteps(file')
  BY DEF posBar, stepsBar, WalkPos, WalkSteps

\* During a drive it may as well read the copy in memory: a new run that was never saved
\* stands where no file does.
LEMMA RunBars ==
  ASSUME IInv, pc # "idle"
  PROVE  posBar = WalkPos(run) /\ stepsBar = WalkSteps(run)
<1>1. CASE file = run
  <2>1. file # NoRun
    BY <1>1, RunFacts
  <2> QED
    BY <1>1, <2>1, FileBars
<1>2. CASE file = NoRun /\ run = NewRun
  <2>1. NewRun.steps = <<>> /\ NewRun.pos = InitialPosition
    BY DEF NewRun
  <2>2. WalkPos(NewRun) = InitialPosition /\ WalkSteps(NewRun) = <<>>
    BY <2>1, SoundNew DEF WalkPos, WalkSteps
  <2> QED
    BY <1>2, <2>2 DEF posBar, stepsBar
<1> QED
  BY <1>1, <1>2 DEF IInv, DriveInv

\* What a record stands for, by what its last entry is.
LEMMA WalkOf ==
  ASSUME NEW r \in Run
  PROVE  /\ Halting(r) => WalkPos(r) = To(r.pos, "handed-back")
         /\ ~Halting(r) => WalkPos(r) = r.pos
         /\ ~Pending(r) => WalkSteps(r) = r.steps
         /\ Pending(r) => /\ Len(r.steps) \in Nat \ {0}
                          /\ Len(WalkSteps(r)) = Len(r.steps) - 1
                          /\ \A i \in 1..Len(r.steps)-1 : WalkSteps(r)[i] = r.steps[i]
<1>1. /\ Len(r.steps) \in Nat /\ (r.steps = <<>> <=> Len(r.steps) = 0)
      /\ r.steps \in Seq(Step)
  BY WalkedFacts DEF Run
<1>2. WalkPos(r) = IF Halting(r) THEN To(r.pos, "handed-back") ELSE r.pos
  BY <1>1 DEF WalkPos, Halting, Last
<1>3. Pending(r) => r.steps # <<>>
  BY EntryKinds
<1>4. Pending(r) => WalkSteps(r) = SubSeq(r.steps, 1, Len(r.steps) - 1)
  BY DEF WalkSteps
<1> QED
  BY <1>1, <1>2, <1>3, <1>4 DEF WalkSteps

\* The walk's table is the engine's.
LEMMA SameTable ==
  /\ Walk!TERMINAL_STATES = TERMINAL_STATES /\ Walk!OUTCOME_KINDS = OUTCOME_KINDS
  /\ Walk!ErrorKind = ErrorKind /\ Walk!InitialPosition = InitialPosition
  /\ Walk!MovedHead = MovedHead /\ Walk!HANDLER_STATES = HANDLER_STATES
  /\ Walk!Undecided = Undecided
  /\ \A p, st : Walk!To(p, st) = To(p, st)
  /\ \A p : p.state \in HANDLER_STATES =>
        \A k \in OUTCOME_KINDS[p.state] : Walk!TableNext(p, k) = TableNext(p, k)
  /\ \A p, newest : Walk!landEarned(p, newest) = landEarned(p, newest)
  /\ \A h, st, k : Walk!HeadAfter(h, st, k) = HeadAfter(h, st, k)
<1>1. \A p, st : Walk!To(p, st) = To(p, st) /\ Walk!ViaBuild(p, st) = ViaBuild(p, st)
  BY DEF Walk!To, To, Walk!ViaBuild, ViaBuild
<1>2. \A p : Walk!UnderCap(p) = UnderCap(p)
  BY DEF Walk!UnderCap, UnderCap
<1>3. ASSUME NEW p, p.state \in HANDLER_STATES, NEW k \in OUTCOME_KINDS[p.state]
      PROVE  Walk!TableNext(p, k) = TableNext(p, k)
  <2> USE <1>1, <1>2
  <2>1. /\ Walk!AfterReady(p, k) = AfterReady(p, k)
        /\ Walk!AfterChallenge(p, k) = AfterChallenge(p, k)
        /\ Walk!AfterPublish(p, k) = AfterPublish(p, k)
        /\ Walk!AfterReview(p, k) = AfterReview(p, k)
        /\ Walk!AfterLand(p, k) = AfterLand(p, k)
    BY DEF Walk!AfterReady, AfterReady, Walk!AfterChallenge, AfterChallenge,
      Walk!AfterPublish, AfterPublish, Walk!AfterReview, AfterReview, Walk!AfterLand, AfterLand
  <2>2. k \in {"ok", "budget", "no-red-test"} => Walk!AfterSpecify(p, k) = AfterSpecify(p, k)
    BY DEF Walk!AfterSpecify, AfterSpecify
  <2>3. k \in {"ok", "exhausted", "budget", "blocked"} => Walk!AfterBuild(p, k) = AfterBuild(p, k)
    BY DEF Walk!AfterBuild, AfterBuild
  <2>4. k \in {"green", "red"} => /\ Walk!AfterVerify(p, k) = AfterVerify(p, k)
                                  /\ Walk!AfterCi(p, k) = AfterCi(p, k)
    BY DEF Walk!AfterVerify, AfterVerify, Walk!AfterCi, AfterCi
  <2>5. /\ p.state = "specify" => k \in {"ok", "budget", "no-red-test"}
        /\ p.state = "build" => k \in {"ok", "exhausted", "budget", "blocked"}
        /\ p.state \in {"verify", "ci"} => k \in {"green", "red"}
    BY DEF OUTCOME_KINDS
  <2>6. p.state \in {"ready", "specify", "build", "challenge", "verify", "publish", "review",
                     "ci", "land", "handback", "decline"}
    BY <1>3 DEF HANDLER_STATES, REPORT_STATES
  <2> QED
    <3>1. CASE p.state \in {"ready", "challenge", "publish"}
      BY <2>1, <3>1 DEF Walk!TableNext, TableNext
    <3>2. CASE p.state \in {"review", "land", "handback", "decline"}
      BY <2>1, <3>2 DEF Walk!TableNext, TableNext
    <3>3. CASE p.state \in {"specify", "build"}
      BY <2>2, <2>3, <2>5, <3>3 DEF Walk!TableNext, TableNext
    <3>4. CASE p.state \in {"verify", "ci"}
      BY <2>4, <2>5, <3>4 DEF Walk!TableNext, TableNext
    <3> QED
      BY <2>6, <3>1, <3>2, <3>3, <3>4
<1>4. /\ \A p, newest : Walk!landEarned(p, newest) = landEarned(p, newest)
      /\ \A h, st, k : Walk!HeadAfter(h, st, k) = HeadAfter(h, st, k)
  BY DEF Walk!landEarned, landEarned, Walk!HeadAfter, HeadAfter, Walk!MovesHead, MovesHead,
    Walk!MovedHead, MovedHead, Walk!ErrorKind, ErrorKind
<1> QED
  BY <1>1, <1>3, <1>4
  DEF Walk!TERMINAL_STATES, TERMINAL_STATES, Walk!OUTCOME_KINDS, OUTCOME_KINDS, Walk!ErrorKind,
    ErrorKind, Walk!InitialPosition, InitialPosition, Walk!MovedHead, MovedHead,
    Walk!HANDLER_STATES, HANDLER_STATES, Walk!REPORT_STATES, REPORT_STATES, Walk!Undecided,
    Undecided

\* A step that leaves what the file stands for leaves the walk.
LEMMA Stutters ==
  ASSUME posBar' = posBar, stepsBar' = stepsBar
  PROVE  UNCHANGED Walk!vars
  BY DEF Walk!vars, logBar, headBar

\* A stop between steps.
LEMMA Stops ==
  ASSUME posBar.state \in HANDLER_STATES, stepsBar' = stepsBar,
         posBar' = To(posBar, "handed-back")
  PROVE  Walk!EngineStop
<1>1. logBar' = logBar /\ headBar' = headBar
  BY DEF logBar, headBar
<1>2. posBar.state \notin TERMINAL_STATES
  BY DEF HANDLER_STATES, TERMINAL_STATES, REPORT_STATES
<1> QED
  BY <1>1, <1>2, SameTable DEF Walk!EngineStop, Walk!Ended

\* A step more is decided.
LEMMA Decides ==
  ASSUME posBar.state \in HANDLER_STATES, NEW n \in Nat \ {0}, NEW k, k # Undecided,
         Len(stepsBar) = n - 1, Len(stepsBar') = n,
         \A i \in 1..n-1 : stepsBar'[i] = stepsBar[i],
         stepsBar'[n].state = posBar.state, stepsBar'[n].kind = k
  PROVE  /\ logBar' = Walk!Logged(k)
         /\ headBar' = HeadAfter(headBar, posBar.state, k)
         /\ Newest(stepsBar') = Walk!Logged(k).newest
<1> DEFINE s == stepsBar
           t == stepsBar'
<1>1. /\ Newest(t) = [Newest(s) EXCEPT ![posBar.state] = k]
      /\ Heads(t)[n] = HeadAfter(Heads(s)[n - 1], posBar.state, k)
      /\ Cardinality(Decided(t, "build"))
           = Cardinality(Decided(s, "build")) + (IF posBar.state = "build" THEN 1 ELSE 0)
  <2>1. Len(t) = n /\ Len(s) = n - 1 /\ (\A i \in 1..n-1 : t[i] = s[i])
        /\ t[n].state = posBar.state /\ t[n].kind = k /\ t[n].kind # Undecided
    OBVIOUS
  <2> HIDE DEF s, t
  <2>2. /\ Newest(t) = [Newest(s) EXCEPT ![t[n].state] = t[n].kind]
        /\ Heads(t)[n] = HeadAfter(Heads(s)[n - 1], t[n].state, t[n].kind)
        /\ Cardinality(Decided(t, "build"))
             = Cardinality(Decided(s, "build")) + (IF t[n].state = "build" THEN 1 ELSE 0)
    BY <2>1, DecidedOneMore
  <2> QED
    BY <2>1, <2>2
<1>2. logBar' = [ length |-> n, builds |-> Cardinality(Decided(t, "build")), newest |-> Newest(t) ]
      /\ headBar' = Heads(t)[n]
  BY DEF logBar, headBar
<1>3. logBar = [ length |-> n - 1, builds |-> Cardinality(Decided(s, "build")), newest |-> Newest(s) ]
      /\ headBar = Heads(s)[n - 1]
  BY DEF logBar, headBar
<1> HIDE DEF s, t
<1>4. Walk!Logged(k) = [ length |-> n, builds |-> Cardinality(Decided(t, "build")),
                         newest |-> Newest(t) ]
  BY <1>1, <1>3 DEF Walk!Logged
<1> QED
  BY <1>1, <1>2, <1>3, <1>4 DEF t

\* An outcome saved in the pending entry decides the walk's next step.
LEMMA OutcomeDecides ==
  ASSUME IInv, pc = "settle", file' \in Run, file'.steps = logged.steps, file' # NoRun
  PROVE  /\ posBar = run.pos /\ posBar.state \in HANDLER_STATES
         /\ logBar' = Walk!Logged(kind)
         /\ headBar' = HeadAfter(headBar, posBar.state, kind)
         /\ Newest(logged.steps) = Walk!Logged(kind).newest
         /\ HasTransition(run.pos.state, kind) => posBar' = file'.pos
         /\ ~HasTransition(run.pos.state, kind) => posBar' = To(file'.pos, "handed-back")
<1> DEFINE n == Len(run.steps)
<1>1. /\ run \in Run /\ run.pos.state \in HANDLER_STATES /\ Pending(run) /\ ~Halting(run)
      /\ Sound(run) /\ kind \in Kinds \cup {ErrorKind} /\ kind # Undecided
  BY RunFacts, EntryKinds, ReturnedKinds DEF IInv, DriveInv, Kinds, ErrorKind, Undecided
<1>2. /\ n \in Nat \ {0} /\ Len(file'.steps) = n
      /\ Last(file').state = run.pos.state /\ Last(file').kind = kind
      /\ \A i \in 1..n-1 : file'.steps[i] = run.steps[i]
  BY <1>1, DecidedLog DEF logged
<1>3. /\ posBar = run.pos /\ Len(stepsBar) = n - 1
      /\ \A i \in 1..n-1 : stepsBar[i] = run.steps[i]
  BY <1>1, RunBars, WalkOf
<1>4. file'.steps # <<>>
  BY <1>2
<1>5. ~Pending(file') /\ (Halting(file') <=> ~HasTransition(run.pos.state, kind))
  BY <1>1, <1>2, <1>4, EntryKinds DEF Halting, Halts
<1>6. /\ stepsBar' = file'.steps
      /\ HasTransition(run.pos.state, kind) => posBar' = file'.pos
      /\ ~HasTransition(run.pos.state, kind) => posBar' = To(file'.pos, "handed-back")
  BY <1>5, FileBars, WalkOf
<1>7. /\ Len(stepsBar') = n /\ (\A i \in 1..n-1 : stepsBar'[i] = stepsBar[i])
      /\ stepsBar'[n].state = posBar.state /\ stepsBar'[n].kind = kind
  BY <1>2, <1>3, <1>6 DEF Last
<1>8. /\ logBar' = Walk!Logged(kind)
      /\ headBar' = HeadAfter(headBar, posBar.state, kind)
      /\ Newest(stepsBar') = Walk!Logged(kind).newest
  <2> HIDE DEF n
  <2> QED
    BY <1>1, <1>2, <1>3, <1>7, Decides
<1> QED
  BY <1>1, <1>3, <1>6, <1>8

\* Deciding a step is one of the walk's.
LEMMA DecideIsNext ==
  ASSUME posBar.state \in HANDLER_STATES, NEW k \in OUTCOME_KINDS[posBar.state],
         Walk!Settles(k), Walk!Advance(k) \/ Walk!RefuseLand(k)
  PROVE  Walk!Next
<1>1. Walk!Decide(posBar.state)
  BY SameTable DEF Walk!Decide
<1> QED
  BY <1>1 DEF HANDLER_STATES, REPORT_STATES, Walk!Next, Walk!Steps, Walk!Ready, Walk!Specify,
    Walk!Build, Walk!Challenge, Walk!Verify, Walk!Publish, Walk!Review, Walk!Ci, Walk!Land,
    Walk!Handback, Walk!Decline

\* Each of the engine's steps is a step of the walk or leaves it alone.
LEMMA StepImplements == IInv /\ [Next]_vars => [Walk!Next]_(Walk!vars)
<1> SUFFICES ASSUME IInv, [Next]_vars PROVE [Walk!Next]_(Walk!vars)
  OBVIOUS
<1>1. CASE UNCHANGED file
  <2>1. posBar' = posBar /\ stepsBar' = stepsBar
    BY <1>1 DEF posBar, stepsBar
  <2> QED
    BY <2>1, Stutters
<1>2. CASE Resume
  <2>1. file \in Run /\ file.result = NoResult /\ Sound(file) /\ ~Halting(file)
    BY <1>2, OthersAreNotDriven DEF Resume, IInv, TypeOK, FileSound
  <2>2. UNCHANGED file
    BY <1>2, <2>1, SoundDrives DEF Resume, Drive
  <2> QED
    BY <1>1, <2>2
<1>3. CASE StepCap \/ DeadlineStop \/ Halt
  <2> DEFINE z == Stamped(run, "handed-back")
  <2>1. pc # "idle" /\ (Saved(z, "loop") \/ Saved(z, "halt"))
        /\ (pc = "halt" <=> Halting(run))
    BY <1>3 DEF StepCap, DeadlineStop, Halt, IInv, DriveInv
  <2>2. run \in Run /\ run.pos.state \in HANDLER_STATES /\ Len(run.steps) \in Nat
    BY <2>1, RunFacts
  <2>3. z \in Run /\ z.steps = run.steps /\ z.pos = To(run.pos, "handed-back")
        /\ z.result # NoResult
    BY <2>2, StampedFacts DEF TERMINAL_STATES
  <2> HIDE DEF z
  <2>4. file' = z /\ file' # NoRun
    BY <2>1, <2>2, <2>3, SaveEnds
  <2>5. WalkSteps(z) = WalkSteps(run) /\ (Halting(z) <=> Halting(run))
    BY <2>3 DEF WalkSteps, Pending, LastKind, Halting, Last
  <2>6. stepsBar' = stepsBar
    BY <2>1, <2>4, <2>5, FileBars, RunBars
  <2>7. CASE Halting(run)
    <3>1. posBar' = To(To(run.pos, "handed-back"), "handed-back")
      BY <2>3, <2>4, <2>5, <2>7, FileBars, WalkOf
    <3>2. posBar = To(run.pos, "handed-back")
      BY <2>1, <2>2, <2>7, RunBars, WalkOf
    <3>3. posBar' = posBar
      BY <2>1, <3>1, <3>2, RunFacts DEF To, Position
    <3> QED
      BY <2>6, <3>3, Stutters
  <2>8. CASE ~Halting(run)
    <3>1. posBar' = To(run.pos, "handed-back") /\ posBar = run.pos
      BY <2>1, <2>2, <2>3, <2>4, <2>5, <2>8, FileBars, RunBars, WalkOf
    <3>2. Walk!EngineStop
      BY <2>2, <2>6, <3>1, Stops
    <3> QED
      BY <3>2 DEF Walk!Next
  <2> QED
    BY <2>7, <2>8
<1>4. CASE ArmDeadline
  <2> DEFINE r == [run EXCEPT !.armed = TRUE]
  <2>1. pc = "boundary" /\ Saved(r, "boundary")
    BY <1>4 DEF ArmDeadline
  <2>2. r \in Run /\ r.steps = run.steps /\ r.pos = run.pos
    BY <2>1, RunFacts DEF Run
  <2> HIDE DEF r
  <2>3. file' = r /\ file' # NoRun
    BY <2>1, <2>2, NoRunAssumption DEF Saved
  <2>4. WalkSteps(r) = WalkSteps(run) /\ WalkPos(r) = WalkPos(run)
    BY <2>2 DEF WalkSteps, WalkPos, Pending, LastKind
  <2>5. posBar' = posBar /\ stepsBar' = stepsBar
    BY <2>1, <2>3, <2>4, FileBars, RunBars
  <2> QED
    BY <2>5, Stutters
<1>5. CASE startStep
  <2> DEFINE r == Opened(run)
             n == Len(run.steps)
  <2>1. pc = "boundary" /\ ~Pending(run) /\ Saved(r, "handler")
    BY <1>5 DEF startStep, MayStep, Opened
  <2>2. run \in Run /\ Sound(run) /\ ~Halting(run) /\ run.pos.state \in HANDLER_STATES /\ n \in Nat
        /\ run.steps \in Seq(Step)
    BY <2>1, RunFacts DEF IInv, DriveInv, Run
  <2>3. r \in Run /\ Pending(r) /\ ~Halting(r)
    BY <2>1, <2>2, SoundOpened
  <2>4. r.pos = run.pos /\ r.steps = Append(run.steps, [ state |-> run.pos.state,
                                n |-> nextAttempt(run), kind |-> Undecided ])
    BY <2>2 DEF Opened, Run
  <2>5. WalkSteps(r) = run.steps
    <3>1. Len(r.steps) - 1 = n /\ SubSeq(r.steps, 1, n) = run.steps
      BY <2>2, <2>4
    <3> QED
      BY <2>3, <3>1 DEF WalkSteps
  <2>6. file' = r /\ file' # NoRun
    BY <2>1, <2>3, NoRunAssumption DEF Saved
  <2> HIDE DEF r
  <2>7. posBar' = posBar /\ stepsBar' = stepsBar
    BY <2>1, <2>2, <2>3, <2>4, <2>5, <2>6, FileBars, RunBars, WalkOf
  <2> QED
    BY <2>7, Stutters
<1>6. CASE SettleFault
  <2>1. pc = "settle" /\ ~HasTransition(run.pos.state, kind) /\ Saved(logged, "halt")
    BY <1>6 DEF SettleFault, Settling
  <2>2. /\ run \in Run /\ run.pos.state \in HANDLER_STATES /\ run.steps # <<>>
        /\ kind \in MayReturn(run.pos.state) /\ kind \in Kinds \cup {ErrorKind}
    BY <2>1, RunFacts, EntryKinds, ReturnedKinds DEF IInv, DriveInv
  <2>3. logged \in Run /\ logged.pos = run.pos
    BY <2>2, OutcomeFacts DEF logged
  <2>4. file' = logged /\ file' # NoRun
    BY <2>1, <2>3, NoRunAssumption DEF Saved
  <2>5. kind = ErrorKind
    BY <2>1, <2>2, ReturnedKinds
  <2>6. /\ posBar' = To(posBar, "handed-back") /\ posBar.state \in HANDLER_STATES
        /\ logBar' = Walk!Logged(ErrorKind)
        /\ headBar' = HeadAfter(headBar, posBar.state, ErrorKind)
    BY <2>1, <2>3, <2>4, <2>5, OutcomeDecides
  <2>7. posBar.state \notin TERMINAL_STATES
    BY <2>6 DEF HANDLER_STATES, TERMINAL_STATES, REPORT_STATES
  <2>8. Walk!HandlerFault
    BY <2>6, <2>7, SameTable DEF Walk!HandlerFault, Walk!Ended
  <2> QED
    BY <2>8 DEF Walk!Next
<1>7. CASE RefuseLand \/ Apply
  <2> DEFINE q == [logged EXCEPT !.pos = Moved]
             z == IF LandRefused THEN Stamped(logged, "handed-back")
                  ELSE IF Moved.state \in TERMINAL_STATES THEN Stamped(q, Moved.state) ELSE q
  <2>1. pc = "settle" /\ HasTransition(run.pos.state, kind) /\ Saved(z, "loop")
    BY <1>7 DEF RefuseLand, Apply, Settling
  <2>2. /\ run \in Run /\ run.pos.state \in HANDLER_STATES /\ run.pos \in Position
        /\ run.steps # <<>> /\ kind \in OUTCOME_KINDS[run.pos.state]
        /\ kind \in Kinds \cup {ErrorKind}
    BY <2>1, RunFacts, EntryKinds, ReturnedKinds DEF IInv, DriveInv
  <2>3. logged \in Run /\ logged.pos = run.pos
    BY <2>2, OutcomeFacts DEF logged
  <2>4. Moved \in Position
    BY <2>2, RowSummary DEF Moved
  <2>5. q \in Run /\ q.steps = logged.steps /\ q.pos = Moved
    <3> HIDE DEF Moved
    <3> QED
      BY <2>3, <2>4 DEF Run
  <2> HIDE DEF q
  <2>6. /\ z \in Run /\ z.steps = logged.steps
        /\ LandRefused => z.pos = To(run.pos, "handed-back")
        /\ ~LandRefused => z.pos = Moved
    <3>1. CASE LandRefused
      BY <2>3, <3>1, StampedFacts DEF TERMINAL_STATES
    <3>2. CASE ~LandRefused /\ Moved.state \in TERMINAL_STATES
      <4>1. z = Stamped(q, Moved.state)
        BY <3>2
      <4>2. To(Moved, Moved.state) = Moved
        BY <2>4 DEF To, Position
      <4> HIDE DEF z
      <4> QED
        BY <2>5, <3>2, <4>1, <4>2, StampedFacts
    <3>3. CASE ~LandRefused /\ Moved.state \notin TERMINAL_STATES
      BY <2>5, <3>3
    <3> QED
      BY <3>1, <3>2, <3>3
  <2> HIDE DEF z
  <2>7. file' = z /\ file' # NoRun
    BY <2>1, <2>6, NoRunAssumption DEF Saved
  <2>8. /\ posBar' = z.pos /\ posBar = run.pos /\ posBar.state \in HANDLER_STATES
        /\ logBar' = Walk!Logged(kind)
        /\ headBar' = HeadAfter(headBar, posBar.state, kind)
        /\ Newest(logged.steps) = Walk!Logged(kind).newest
    BY <2>1, <2>6, <2>7, OutcomeDecides
  <2>9. Walk!Settles(kind)
    BY <2>8, SameTable DEF Walk!Settles
  <2>10. Walk!TableNext(posBar, kind) = Moved
    BY <2>2, <2>8, SameTable DEF Moved
  <2>11. CASE LandRefused
    <3>1. Walk!RefuseLand(kind)
      BY <2>6, <2>8, <2>10, <2>11, SameTable DEF Walk!RefuseLand, LandRefused
    <3> QED
      BY <2>2, <2>8, <2>9, <3>1, DecideIsNext
  <2>12. CASE ~LandRefused
    <3>1. Walk!Advance(kind)
      BY <2>6, <2>8, <2>10, <2>12, SameTable DEF Walk!Advance, LandRefused
    <3> QED
      BY <2>2, <2>8, <2>9, <3>1, DecideIsNext
  <2> QED
    BY <2>11, <2>12
<1> QED
  BY <1>1, <1>2, <1>3, <1>4, <1>5, <1>6, <1>7
  DEF Next, Driving, FirstDrive, Drive, Reload, ClockPasses, NextIteration, RerunStep,
    HandlerReturns, Crash, vars

\* The decided steps of the file are a walk of the transition table: whatever crashes,
\* resumes, deadlines and faults lie between (driveOneRun, engine.ts, and foldLog,
\* resume.ts), no step is decided twice, out of turn, or under another's position.
THEOREM EngineImplementsWalk == Spec => ImplementsWalk
<1>1. Init => Walk!Init
  <2> SUFFICES ASSUME Init PROVE Walk!Init
    OBVIOUS
  <2>1. posBar = InitialPosition /\ stepsBar = <<>>
    BY DEF Init, posBar, stepsBar
  <2>2. /\ Newest(<<>>) = [s \in HANDLER_STATES |-> Undecided] /\ Heads(<<>>)[0] = MovedHead
    BY NewestsUnfold, HeadsUnfold DEF Newest
  <2>3. Cardinality(Decided(<<>>, "build")) = 0
    <3>1. Decided(<<>>, "build") = {}
      BY DEF Decided, Entries
    <3> QED
      BY <3>1, FS_EmptySet
  <2>4. logBar = [ length |-> 0, builds |-> 0, newest |-> [s \in HANDLER_STATES |-> Undecided] ]
        /\ headBar = MovedHead
    BY <2>1, <2>2, <2>3 DEF logBar, headBar
  <2> QED
    BY <2>1, <2>4, SameTable DEF Walk!Init
<1> QED
  BY <1>1, StepImplements, Invariance, PTL DEF Spec, ImplementsWalk, Walk!Spec
=============================================================================
