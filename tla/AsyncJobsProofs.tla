--------------------------- MODULE AsyncJobsProofs ---------------------------
(***************************************************************************)
(* Proofs about AsyncJobs, for any units in any mix of kinds, any sizes    *)
(* and any number of sessions.                                             *)
(***************************************************************************)
EXTENDS AsyncJobs, FiniteSetTheorems, SequenceTheorems, TLAPS

\* What is pending is what is owed and not given up; a unit that was not started is not
\* counted, and a driver's never is.
PendingIsOwed ==
  /\ pending = Owed \ gaveUp
  /\ \A u \in counted : work[u] # "idle" /\ kindOf[u] # "driven"
  /\ gaveUp \subseteq counted

\* The channel is only there while the count is open, and then nothing was given up; once the
\* count is closed nothing is pending.
ChannelIsOpen ==
  /\ ctx => open /\ gaveUp = {} /\ (missed = "nothing" => shown = Cardinality(pending))
  /\ ~open => pending = {}

IInv == TypeOK /\ PendingIsOwed /\ ChannelIsOpen

\* Whatever is pending can be counted.
LEMMA PendingIsFinite ==
  ASSUME NEW P \in SUBSET Units
  PROVE  IsFiniteSet(P) /\ Cardinality(P) \in Nat
BY AsyncJobsAssumption, FS_Subset, FS_CardinalityType

\* A delivery sends well-formed messages.
LEMMA Deliveries ==
  ASSUME NEW what \in {"report", "failure"}, NEW b \in BOOLEAN
  PROVE  StandIns \subseteq Seq(Message) /\ Delivery(what, b) \subseteq Seq(Message)
<1>1. \A w \in {"report", "failure", "stand-in"}, l \in BOOLEAN : Sent(w, l) \in Seq(Message)
  <2> TAKE w \in {"report", "failure", "stand-in"}, l \in BOOLEAN
  <2>1. [what |-> w, landed |-> l] \in Message
    BY DEF Message
  <2> QED
    BY <2>1 DEF Sent
<1>2. StandIns \subseteq Seq(Message)
  BY <1>1 DEF StandIns
<1>3. \A s \in StandIns \union {<<>>} : Sent(what, FALSE) \o s \in Seq(Message)
  <2> TAKE s \in StandIns \union {<<>>}
  <2>0. <<>> \in Seq(Message)
    BY EmptySeq
  <2>1. s \in Seq(Message)
    BY <1>2, <2>0
  <2>2. Sent(what, FALSE) \in Seq(Message)
    BY <1>1, Zenon
  <2> QED
    BY <2>1, <2>2, ConcatProperties
<1>4. ASSUME NEW d \in Delivery(what, b)
      PROVE  d \in Seq(Message)
  <2>1. CASE d \in {Sent(what, TRUE)} \union StandIns
    BY <2>1, <1>1, <1>2
  <2>2. CASE \E s \in StandIns \union {<<>>} : d = Sent(what, FALSE) \o s
    BY <2>2, <1>3
  <2> QED
    BY <1>4, <2>1, <2>2 DEF Delivery
<1> QED
  BY <1>2, <1>4

\* The initial states satisfy the invariant.
LEMMA InitIInv == Init => IInv
<1> SUFFICES ASSUME Init PROVE IInv
  OBVIOUS
<1>1. kindOf \in [Units -> Kinds]
  BY AsyncJobsAssumption DEF Init
<1>2. ctx \in BOOLEAN /\ open \in BOOLEAN /\ up \in BOOLEAN
  BY Zenon DEF Init
<1>3. TypeOK
  BY <1>1, <1>2, AsyncJobsAssumption DEF Init, TypeOK, Works
<1> QED
  BY <1>3 DEF Init, IInv, PendingIsOwed, ChannelIsOpen, Owed

\* A step of a unit that does not touch the count keeps the invariant.
LEMMA QuietSteps ==
  ASSUME IInv, UNCHANGED <<kindOf, signal>>, NEW u \in Units, NEW to \in Works,
         work' = [work EXCEPT ![u] = to], TypeOK',
         \/ work[u] \in Live /\ to \in Live
         \/ work[u] = "idle" /\ to # "idle"
  PROVE  IInv'
<1>1. \A v \in Units \ {u} : work'[v] = work[v]
  BY DEF IInv, TypeOK
<1>2. work'[u] = to
  BY DEF IInv, TypeOK
<1>3. Owed' = Owed
  BY <1>1, <1>2 DEF IInv, TypeOK, PendingIsOwed, Owed, Live, signal
<1>4. PendingIsOwed'
  BY <1>1, <1>2, <1>3 DEF IInv, TypeOK, PendingIsOwed, Live, signal
<1>5. ChannelIsOpen'
  BY DEF IInv, ChannelIsOpen, signal
<1> QED
  BY <1>4, <1>5 DEF IInv

\* So does handing over the messages of a unit.
LEMMA HandIInv ==
  ASSUME IInv, NEW u \in Units, work[u] \in {"running", "git"},
         NEW messages \in SUBSET Seq(Message), Hand(u, messages),
         UNCHANGED <<kindOf, left, up>>, members' \in [Units -> 0..MEMBERS]
  PROVE  IInv'
<1>1. PICK m \in messages : sends' = [sends EXCEPT ![u] = @ \o m]
  BY DEF Hand
<1>2. sends[u] \in Seq(Message) /\ m \in Seq(Message)
  BY DEF IInv, TypeOK
<1>3. sends[u] \o m \in Seq(Message)
  BY <1>2, ConcatProperties
<1>4. sends' \in [Units -> Seq(Message)]
  BY <1>1, <1>3 DEF IInv, TypeOK
<1>5. work' = [work EXCEPT ![u] = "handed"] /\ UNCHANGED signal
  BY DEF Hand, Goto
<1>6. TypeOK'
  BY <1>4, <1>5 DEF IInv, TypeOK, Works, signal
<1> QED
  BY <1>5, <1>6, QuietSteps DEF Works, Live

\* A frame leaves a number and a note whether it was taken.
LEMMA PublishTypes ==
  ASSUME TypeOK, NEW n \in Nat, NEW frame \in {"frame", "closing"}, Publish(n, frame)
  PROVE  shown' \in Nat /\ missed' \in {"nothing", "frame", "closing"}
BY DEF TypeOK, Publish

\* The start of a unit counts it, if anybody counts.
LEMMA StartIInv ==
  ASSUME IInv, NEW u \in Units, Start(u), up' = up
  PROVE  IInv'
<1>1. /\ work[u] = "idle" /\ work' = [work EXCEPT ![u] = "running"]
      /\ UNCHANGED <<kindOf, left, sends, ctx, open, generation, armed, gaveUp>>
  BY DEF Start, jobPending
<1>2. members' \in [Units -> 0..MEMBERS]
  BY AsyncJobsAssumption DEF Start, IInv, TypeOK
<1>3. \A v \in Units \ {u} : work'[v] = work[v]
  BY <1>1 DEF IInv, TypeOK
<1>4. work'[u] = "running"
  BY <1>1 DEF IInv, TypeOK
<1>5. u \notin counted /\ u \notin gaveUp
  BY <1>1 DEF IInv, PendingIsOwed
<1>6. CASE open /\ kindOf[u] # "driven"
  <2>1. /\ pending' = pending \union {u} /\ counted' = counted \union {u}
        /\ Publish(Cardinality(pending'), "frame")
    BY <1>6 DEF Start, jobPending
  <2>2. pending' \subseteq Units
    BY <2>1 DEF IInv, TypeOK
  <2>3. Cardinality(pending') \in Nat
    BY <2>2, PendingIsFinite
  <2>4. TypeOK'
    BY <1>1, <1>2, <2>1, <2>2, <2>3, PublishTypes DEF IInv, TypeOK, Works
  <2>5. Owed' = Owed \union {u}
    BY <1>3, <1>4, <2>1 DEF Owed, Live, IInv, TypeOK
  <2>6. PendingIsOwed'
    BY <1>1, <1>3, <1>4, <1>5, <1>6, <2>1, <2>5 DEF IInv, TypeOK, PendingIsOwed
  <2>7. ChannelIsOpen'
    BY <1>1, <1>6, <2>1 DEF IInv, ChannelIsOpen, Publish
  <2> QED
    BY <2>4, <2>6, <2>7 DEF IInv
<1>7. CASE ~(open /\ kindOf[u] # "driven")
  <2>1. UNCHANGED <<pending, counted, shown, missed>>
    BY <1>7 DEF Start, jobPending
  <2>2. TypeOK'
    BY <1>1, <1>2, <2>1 DEF IInv, TypeOK, Works
  <2>3. \A v \in counted : v # u /\ work'[v] = work[v]
    BY <1>3, <1>5 DEF IInv, TypeOK
  <2>4. Owed' = Owed
    BY <2>1, <2>3 DEF Owed
  <2>5. PendingIsOwed'
    BY <1>1, <2>1, <2>3, <2>4 DEF IInv, PendingIsOwed
  <2>6. ChannelIsOpen'
    BY <1>1, <2>1 DEF IInv, ChannelIsOpen
  <2> QED
    BY <2>2, <2>5, <2>6 DEF IInv
<1> QED
  BY <1>6, <1>7

\* The release of a unit takes it off the count.
LEMMA ReleaseIInv ==
  ASSUME IInv, NEW u \in Units, Release(u), up' = up
  PROVE  IInv'
<1>1. /\ work[u] = "handed" /\ work' = [work EXCEPT ![u] = "over"]
      /\ UNCHANGED <<kindOf, members, left, sends>>
      /\ UNCHANGED <<ctx, open, generation, armed, counted, gaveUp>>
  BY DEF Release, jobReported, Goto
<1>2. \A v \in Units \ {u} : work'[v] = work[v]
  BY <1>1 DEF IInv, TypeOK
<1>3. work'[u] = "over"
  BY <1>1 DEF IInv, TypeOK
<1>4. Owed' = Owed \ {u}
  BY <1>1, <1>2, <1>3 DEF Owed, Live, IInv, TypeOK
<1>5. CASE open /\ u \in pending
  <2>1. /\ pending' = pending \ {u}
        /\ Publish(Cardinality(pending'), "frame")
    BY <1>5 DEF Release, jobReported
  <2>2. pending' \subseteq Units
    BY <2>1 DEF IInv, TypeOK
  <2>3. Cardinality(pending') \in Nat
    BY <2>2, PendingIsFinite
  <2>4. TypeOK'
    BY <1>1, <2>1, <2>2, <2>3, PublishTypes DEF IInv, TypeOK, Works
  <2>5. PendingIsOwed'
    BY <1>1, <1>2, <1>3, <1>4, <2>1 DEF IInv, TypeOK, PendingIsOwed
  <2>6. ChannelIsOpen'
    BY <1>1, <1>5, <2>1 DEF IInv, ChannelIsOpen, Publish
  <2> QED
    BY <2>4, <2>5, <2>6 DEF IInv
<1>6. CASE ~(open /\ u \in pending)
  <2>1. UNCHANGED <<pending, shown, missed>> /\ u \notin pending
    BY <1>6 DEF Release, jobReported, IInv, ChannelIsOpen
  <2>2. TypeOK'
    BY <1>1, <2>1 DEF IInv, TypeOK, Works
  <2>3. PendingIsOwed'
    BY <1>1, <1>2, <1>3, <1>4, <2>1 DEF IInv, TypeOK, PendingIsOwed
  <2>4. ChannelIsOpen'
    BY <1>1, <2>1 DEF IInv, ChannelIsOpen
  <2> QED
    BY <2>2, <2>3, <2>4 DEF IInv
<1> QED
  BY <1>5, <1>6

\* Every step of a unit keeps the invariant.
LEMMA UnitIInv ==
  ASSUME IInv, NEW u \in Units, Unit(u), up' = up
  PROVE  IInv'
<1> USE DEF Running
<1>0. StandIns \subseteq Seq(Message)
  BY Deliveries
<1>1. CASE Start(u)
  BY <1>1, StartIInv
<1>2. CASE StartFails(u)
  <2>1. PICK setup \in FailedSetups(u) : /\ members' = [members EXCEPT ![u] = setup.started]
                                        /\ left' = [left EXCEPT ![u] = setup.left]
    BY <1>2 DEF StartFails, Setup
  <2>2. setup.started \in 0..MEMBERS /\ setup.left \in 0..MEMBERS
    BY <2>1, AsyncJobsAssumption DEF FailedSetups
  <2>3. TypeOK'
    BY <1>2, <2>1, <2>2 DEF StartFails, Setup, IInv, TypeOK, Works, signal
  <2> QED
    BY <1>2, <2>3, QuietSteps DEF StartFails, Setup, Works, IInv, TypeOK
<1>12. CASE DeadMemberEnds(u)
  <2>1. members[u] - 1 \in 0..MEMBERS
    BY <1>12, AsyncJobsAssumption DEF DeadMemberEnds, IInv, TypeOK
  <2>2. TypeOK'
    BY <1>12, <2>1 DEF DeadMemberEnds, IInv, TypeOK, signal
  <2>3. PendingIsOwed'
    BY <1>12 DEF DeadMemberEnds, IInv, PendingIsOwed, Owed, signal
  <2>4. ChannelIsOpen'
    BY <1>12 DEF DeadMemberEnds, IInv, ChannelIsOpen, signal
  <2> QED
    BY <2>2, <2>3, <2>4 DEF IInv
<1>3. CASE SettleThrows(u)
  BY <1>0, <1>3, HandIInv DEF SettleThrows, IInv, TypeOK
<1>4. CASE Resolve(u)
  <2>1. Delivery("report", FALSE) \subseteq Seq(Message) /\ Delivery("report", TRUE) \subseteq Seq(Message)
    BY Deliveries
  <2> QED
    BY <1>4, <2>1, HandIInv DEF Resolve, IInv, TypeOK
<1>5. CASE ResolveDeveloper(u)
  <2>1. TypeOK'
    BY <1>5 DEF ResolveDeveloper, Goto, IInv, TypeOK, Works, signal
  <2> QED
    BY <1>5, <2>1, QuietSteps DEF ResolveDeveloper, Goto, Works, Live
<1>6. CASE Reject(u)
  <2>1. Delivery("failure", FALSE) \subseteq Seq(Message)
    BY Deliveries
  <2> QED
    BY <1>6, <2>1, HandIInv DEF Reject, IInv, TypeOK
<1>7. CASE DrivenEnds(u)
  <2>1. TypeOK'
    BY <1>7 DEF DrivenEnds, Goto, IInv, TypeOK, Works, signal
  <2> QED
    BY <1>7, <2>1, QuietSteps DEF DrivenEnds, Goto, Works, Live
<1>8. CASE MemberEnds(u)
  <2>1. members[u] - 1 \in 0..MEMBERS
    BY <1>8, AsyncJobsAssumption DEF MemberEnds, IInv, TypeOK
  <2>2. TypeOK'
    BY <1>8, <2>1 DEF MemberEnds, IInv, TypeOK, signal
  <2>3. PendingIsOwed'
    BY <1>8 DEF MemberEnds, IInv, PendingIsOwed, Owed, signal
  <2>4. ChannelIsOpen'
    BY <1>8 DEF MemberEnds, IInv, ChannelIsOpen, signal
  <2> QED
    BY <2>2, <2>3, <2>4 DEF IInv
<1>9. CASE LastMemberEnds(u)
  <2>1. /\ members' \in [Units -> 0..MEMBERS] /\ work[u] = "running"
        /\ UNCHANGED <<kindOf, left>>
    BY <1>9, AsyncJobsAssumption DEF LastMemberEnds, IInv, TypeOK
  <2>2. CASE Hand(u, StandIns)
    BY <1>0, <2>1, <2>2, HandIInv
  <2>3. CASE Goto(u, "git") /\ UNCHANGED <<sends, signal>>
    <3>1. TypeOK'
      BY <2>1, <2>3 DEF Goto, IInv, TypeOK, Works, signal
    <3> QED
      BY <2>1, <2>3, <3>1, QuietSteps DEF Goto, Works, Live
  <2> QED
    BY <1>9, <2>2, <2>3 DEF LastMemberEnds
<1>10. CASE GitLine(u)
  <2>1. Delivery("report", kindOf[u] = "batch") \subseteq Seq(Message)
    BY Deliveries
  <2> QED
    BY <1>10, <2>1, HandIInv DEF GitLine, IInv, TypeOK
<1>11. CASE Release(u)
  BY <1>11, ReleaseIInv
<1> QED
  BY <1>1, <1>2, <1>3, <1>4, <1>5, <1>6, <1>7, <1>8, <1>9, <1>10, <1>11, <1>12
     DEF Unit

\* Every step of a session keeps it.
LEMMA SessionIInv ==
  ASSUME IInv, Session, up' = up
  PROVE  IInv'
<1>0. Cardinality({}) = 0
  BY FS_EmptySet
<1>1. ASSUME NEW rpc \in BOOLEAN, Attach(rpc)
      PROVE  IInv'
  <2>1. TypeOK'
    BY <1>1 DEF Attach, units, IInv, TypeOK
  <2>2. PendingIsOwed'
    BY <1>1 DEF Attach, units, PendingIsOwed, Owed
  <2>3. ChannelIsOpen'
    BY <1>0, <1>1 DEF Attach, ChannelIsOpen
  <2> QED
    BY <2>1, <2>2, <2>3 DEF IInv
<1>2. ASSUME Finish, UNCHANGED units, armed' \in Nat, generation' \in Nat, open' \in BOOLEAN
      PROVE  IInv'
  <2>1. TypeOK'
    BY <1>2, PublishTypes DEF Finish, units, IInv, TypeOK
  <2>2. Owed' = Owed
    BY <1>2 DEF Finish, Owed, units
  <2>3. PendingIsOwed'
    BY <1>2, <2>2 DEF Finish, IInv, PendingIsOwed, units, TypeOK, Owed
  <2>4. ChannelIsOpen'
    BY <1>2 DEF Finish, ChannelIsOpen
  <2> QED
    BY <2>1, <2>3, <2>4 DEF IInv
<1>3. CASE ShutdownNothingOwed
  <2>0. ctx' \in BOOLEAN /\ open' \in BOOLEAN
    BY <1>3, Zenon DEF ShutdownNothingOwed
  <2>1. TypeOK'
    BY <1>3, <2>0 DEF ShutdownNothingOwed, Leave, units, IInv, TypeOK
  <2>2. PendingIsOwed'
    BY <1>3 DEF ShutdownNothingOwed, Leave, units, IInv, PendingIsOwed, Owed
  <2>3. ChannelIsOpen'
    BY <1>3 DEF ShutdownNothingOwed, ChannelIsOpen
  <2> QED
    BY <2>1, <2>2, <2>3 DEF IInv
<1>4. CASE ShutdownAtOnce
  <2>1. open' \in BOOLEAN
    BY <1>4, Zenon DEF ShutdownAtOnce
  <2>2. Finish /\ UNCHANGED units /\ armed' \in Nat /\ generation' \in Nat
    BY <1>4 DEF ShutdownAtOnce, Leave, IInv, TypeOK
  <2> QED
    BY <1>2, <2>1, <2>2
<1>5. CASE ShutdownWaits
  <2>1. TypeOK'
    BY <1>5 DEF ShutdownWaits, Leave, units, IInv, TypeOK
  <2>2. PendingIsOwed'
    BY <1>5 DEF ShutdownWaits, Leave, units, IInv, PendingIsOwed, Owed
  <2>3. ChannelIsOpen'
    BY <1>5 DEF ShutdownWaits, IInv, ChannelIsOpen
  <2> QED
    BY <2>1, <2>2, <2>3 DEF IInv
<1>6. CASE Bound
  <2>1. CASE armed = generation
    BY <1>2, <1>6, <2>1 DEF Bound, IInv, TypeOK
  <2>2. CASE armed # generation
    <3>1. TypeOK'
      BY <1>6, <2>2 DEF Bound, units, IInv, TypeOK
    <3>2. PendingIsOwed'
      BY <1>6, <2>2 DEF Bound, units, IInv, PendingIsOwed, Owed
    <3>3. ChannelIsOpen'
      BY <1>6, <2>2 DEF Bound, IInv, ChannelIsOpen
    <3> QED
      BY <3>1, <3>2, <3>3 DEF IInv
  <2> QED
    BY <2>1, <2>2
<1> QED
  BY <1>1, <1>3, <1>4, <1>5, <1>6 DEF Session

\* Every step keeps the invariant.
LEMMA NextIInv == IInv /\ [Next]_vars => IInv'
<1> SUFFICES ASSUME IInv, [Next]_vars PROVE IInv'
  OBVIOUS
<1>1. CASE UNCHANGED vars
  BY <1>1 DEF vars, units, signal, IInv, TypeOK, PendingIsOwed, Owed, ChannelIsOpen
<1>2. CASE Exit
  BY <1>2 DEF Exit, units, signal, IInv, TypeOK, PendingIsOwed, Owed, ChannelIsOpen
<1> QED
  BY <1>1, <1>2, UnitIInv, SessionIInv DEF Next, Runs

\* The invariant holds throughout.
LEMMA Invariance == Spec => []IInv
<1> QED
  BY InitIInv, NextIInv, PTL DEF Spec

\* The states of the jobs and of the count are well typed (async-jobs.ts,
\* pending-jobs-signal.ts).
THEOREM Typing == Spec => []TypeOK
<1>1. IInv => TypeOK
  BY DEF IInv
<1> QED
  BY <1>1, Invariance, PTL

\* What is pending is what a client that listens is still owed, and the number of it was the last
\* it was sent, unless the channel refused that; over any number of jobs, failed setups,
\* shutdowns and sessions (pending-jobs-signal.ts).
THEOREM HonestCount == Spec => []CountIsOwed
<1>1. IInv => CountIsOwed
  <2> SUFFICES ASSUME IInv, ctx
               PROVE  pending = Owed /\ (missed = "nothing" => shown = Cardinality(Owed))
    BY DEF CountIsOwed
  <2>1. pending = Owed
    BY DEF IInv, PendingIsOwed, ChannelIsOpen
  <2> QED
    BY <2>1 DEF IInv, ChannelIsOpen
<1> QED
  BY <1>1, Invariance, PTL

\* Only handing over a unit's messages changes what of it has landed.
LEMMA OnlyHandsLand ==
  ASSUME IInv, [Next]_vars, NEW u \in Units, Landed(u)' # Landed(u)
  PROVE  work[u] \in {"running", "git"}
<1> SUFFICES ASSUME work[u] \notin {"running", "git"} PROVE FALSE
  OBVIOUS
<1>1. sends'[u] # sends[u]
  BY DEF Landed
<1>2. PICK v \in Units : Unit(v)
  BY <1>1 DEF Next, Runs, Exit, Session, Attach, ShutdownNothingOwed, ShutdownAtOnce,
     ShutdownWaits, Leave, Bound, units, vars
<1>3. work[v] \in {"running", "git"} \/ sends' = sends
  BY <1>2 DEF Unit, Start, StartFails, Setup, DeadMemberEnds, SettleThrows, Resolve, ResolveDeveloper, Reject, DrivenEnds,
     MemberEnds, LastMemberEnds, GitLine, Release, Running
<1>4. \/ sends' = sends
      \/ \E m : sends' = [sends EXCEPT ![v] = @ \o m]
  BY <1>2 DEF Unit, Start, StartFails, Setup, DeadMemberEnds, SettleThrows, Resolve, ResolveDeveloper, Reject, DrivenEnds,
     MemberEnds, LastMemberEnds, GitLine, Release, Hand
<1> QED
  BY <1>1, <1>3, <1>4 DEF IInv, TypeOK

\* A counted message lands while the client still waits for it, or after its session was shut
\* down and the bound ran out on it: no 0 runs ahead of a report, unless the number went stale
\* on a channel that refuses frames (pending-jobs-signal.ts shutdown, releaseAfter).
THEOREM NothingBehindZero == Spec => ReportsBeforeZero
<1>1. ASSUME IInv, [Next]_vars, NEW u \in counted, Landed(u)' # Landed(u)
      PROVE  u \in gaveUp \/ (u \in pending /\ (ctx => shown > 0 \/ missed # "nothing"))
  <2>1. u \in Units
    BY <1>1 DEF IInv, TypeOK
  <2>2. u \in Owed
    BY <1>1, <2>1, OnlyHandsLand DEF Owed, Live
  <2>3. u \in gaveUp \/ u \in pending
    BY <1>1, <2>2 DEF IInv, PendingIsOwed
  <2>4. u \in pending => Cardinality(pending) > 0
    <3>1. IsFiniteSet(pending) /\ Cardinality(pending) \in Nat
      BY <1>1, PendingIsFinite DEF IInv, TypeOK
    <3>2. Cardinality(pending) = 0 <=> pending = {}
      BY <3>1, FS_EmptySet
    <3> QED
      BY <3>1, <3>2
  <2> QED
    BY <1>1, <2>3, <2>4 DEF IInv, ChannelIsOpen
<1>2. IInv /\ [Next]_vars =>
        [\A u \in counted : Landed(u)' # Landed(u) =>
           \/ u \in gaveUp
           \/ u \in pending /\ (ctx => shown > 0 \/ missed # "nothing")]_vars
  BY <1>1
<1> QED
  BY <1>2, Invariance, PTL DEF Spec, ReportsBeforeZero

\* The answers a unit of the PM may be given, and what a unit was given where it stands: an
\* answer once its work was handed over, nothing before that, and a driver's never any.
Answers(kind) ==
  StandIns \union Delivery("report", kind # "single")
    \union (IF kind = "batch" THEN {} ELSE Delivery("failure", FALSE))

Given(kind, where, sent) ==
  /\ IF where \in {"handed", "over"} /\ kind # "driven"
       THEN sent \in Answers(kind) ELSE sent = <<>>
  /\ where = "git" => kind \in {"single", "batch"}

Answered == \A u \in Units : Given(kindOf[u], work[u], sends[u])

\* What a message and a refused message before it look like, place by place.
LEMMA Sends ==
  ASSUME NEW what, NEW landed, NEW what2, NEW landed2
  PROVE  /\ Len(Sent(what, landed)) = 1
         /\ Sent(what, landed)[1] = [what |-> what, landed |-> landed]
         /\ Len(Sent(what, landed) \o Sent(what2, landed2)) = 2
         /\ (Sent(what, landed) \o Sent(what2, landed2))[1] = [what |-> what, landed |-> landed]
         /\ (Sent(what, landed) \o Sent(what2, landed2))[2] = [what |-> what2, landed |-> landed2]
BY DEF Sent

\* An answer is one message, or a refused one with a stand-in after it; a refused answer that
\* nothing follows is a failure notice, a stand-in or the report of a single job.
LEMMA AnswerShape ==
  ASSUME NEW kind \in Kinds, NEW m \in Answers(kind)
  PROVE  \/ \E what \in {"report", "failure", "stand-in"}, landed \in BOOLEAN :
              /\ m = Sent(what, landed)
              /\ what = "report" /\ kind # "single" => landed
         \/ \E what \in {"report", "failure"}, landed \in BOOLEAN :
              m = Sent(what, FALSE) \o Sent("stand-in", landed)
<1>1. CASE m \in StandIns
  BY <1>1 DEF StandIns
<1>2. ASSUME NEW what \in {"report", "failure"}, NEW b \in BOOLEAN, m \in Delivery(what, b),
             what = "report" => b = (kind # "single")
      PROVE  \/ \E w \in {"report", "failure", "stand-in"}, landed \in BOOLEAN :
                  /\ m = Sent(w, landed)
                  /\ w = "report" /\ kind # "single" => landed
             \/ \E w \in {"report", "failure"}, landed \in BOOLEAN :
                  m = Sent(w, FALSE) \o Sent("stand-in", landed)
  <2>1. CASE m = Sent(what, TRUE)
    BY <2>1
  <2>2. CASE m \in StandIns
    BY <2>2 DEF StandIns
  <2>3. CASE b /\ \E s \in StandIns : m = Sent(what, FALSE) \o s
    BY <2>3 DEF StandIns
  <2>4. CASE ~b /\ m = Sent(what, FALSE) \o <<>>
    <3>1. m = Sent(what, FALSE)
      BY <2>4 DEF Sent
    <3> QED
      BY <1>2, <2>4, <3>1
  <2> QED
    BY <1>2, <2>1, <2>2, <2>3, <2>4 DEF Delivery
<1> QED
  BY <1>1, <1>2 DEF Answers

\* At most one message of an answer lands.
LEMMA LandsOnce ==
  ASSUME NEW kind \in Kinds, NEW m \in Answers(kind)
  PROVE  Cardinality({i \in DOMAIN m : m[i].landed}) <= 1
<1>1. ASSUME NEW i, {j \in DOMAIN m : m[j].landed} \subseteq {i}
      PROVE  Cardinality({j \in DOMAIN m : m[j].landed}) <= 1
  <2>1. IsFiniteSet({i}) /\ Cardinality({i}) = 1
    BY FS_Singleton
  <2> QED
    BY <1>1, <2>1, FS_Subset
<1>2. ASSUME NEW what, NEW landed \in BOOLEAN, m = Sent(what, landed)
      PROVE  {j \in DOMAIN m : m[j].landed} \subseteq {1}
  BY <1>2 DEF Sent
<1>3. ASSUME NEW what, NEW landed \in BOOLEAN, m = Sent(what, FALSE) \o Sent("stand-in", landed)
      PROVE  {j \in DOMAIN m : m[j].landed} \subseteq {2}
  BY <1>3 DEF Sent
<1> QED
  BY <1>1, <1>2, <1>3, AnswerShape

\* How an answer ends.
LEMMA AnswerEnd ==
  ASSUME NEW kind \in Kinds, NEW m \in Answers(kind)
  PROVE  /\ m # <<>>
         /\ \/ m[Len(m)].landed
            \/ m[Len(m)].what = "stand-in"
            \/ kind = "single"
            \/ m[Len(m)].what = "failure"
<1>1. ASSUME NEW what \in {"report", "failure", "stand-in"}, NEW landed \in BOOLEAN,
             m = Sent(what, landed), what = "report" /\ kind # "single" => landed
      PROVE  /\ m # <<>>
             /\ m[Len(m)].landed \/ m[Len(m)].what = "stand-in"
                  \/ kind = "single" \/ m[Len(m)].what = "failure"
  BY <1>1 DEF Sent
<1>2. ASSUME NEW what, NEW landed \in BOOLEAN, m = Sent(what, FALSE) \o Sent("stand-in", landed)
      PROVE  m # <<>> /\ m[Len(m)].what = "stand-in"
  BY <1>2 DEF Sent
<1> QED
  BY <1>1, <1>2, AnswerShape

\* Handing over answers a unit that had none, provided it is given one of its answers.
LEMMA HandAnswers ==
  ASSUME IInv, Answered, NEW u \in Units, kindOf' = kindOf,
         work[u] \in {"running", "git"}, kindOf[u] # "driven",
         NEW messages \in SUBSET Answers(kindOf[u]), messages \subseteq Seq(Message),
         Hand(u, messages)
  PROVE  Answered'
<1>1. PICK m \in messages : sends' = [sends EXCEPT ![u] = @ \o m]
  BY DEF Hand
<1>2. sends[u] = <<>>
  BY DEF Answered, Given
<1>3. <<>> \o m = m
  BY ConcatEmptySeq
<1>4. sends'[u] = m /\ \A v \in Units \ {u} : sends'[v] = sends[v]
  BY <1>1, <1>2, <1>3 DEF IInv, TypeOK
<1>5. work'[u] = "handed" /\ \A v \in Units \ {u} : work'[v] = work[v]
  BY DEF Hand, Goto, IInv, TypeOK
<1> QED
  BY <1>4, <1>5 DEF Answered, Given

\* Every other step moves at most the place of one unit, and not onto an answer it lacks.
LEMMA QuietAnswers ==
  ASSUME IInv, Answered, NEW u \in Units, kindOf' = kindOf, sends' = sends, NEW to \in Works,
         work' = [work EXCEPT ![u] = to],
         \/ to \notin {"handed", "over", "git"} /\ work[u] \notin {"handed", "over"}
         \/ to = "git" /\ work[u] = "running" /\ kindOf[u] \in {"single", "batch"}
         \/ to = "handed" /\ kindOf[u] = "driven"
         \/ to = "over" /\ work[u] = "handed"
  PROVE  Answered'
<1>1. work'[u] = to /\ \A v \in Units \ {u} : work'[v] = work[v]
  BY DEF IInv, TypeOK
<1> QED
  BY <1>1 DEF Answered, Given

\* Every step of a unit keeps what the units were given in order.
LEMMA UnitAnswers ==
  ASSUME IInv, Answered, NEW u \in Units, Unit(u)
  PROVE  Answered'
<1> USE DEF Running
<1>0. StandIns \subseteq Answers(kindOf[u]) /\ StandIns \subseteq Seq(Message)
  BY Deliveries DEF Answers
<1>1. \A kind \in Kinds : /\ Delivery("report", kind # "single") \subseteq Answers(kind)
                          /\ kind # "batch" => Delivery("failure", FALSE) \subseteq Answers(kind)
  BY DEF Answers
<1>2. \A b \in BOOLEAN : Delivery("report", b) \subseteq Seq(Message)
                         /\ Delivery("failure", b) \subseteq Seq(Message)
  BY Deliveries
<1>3. CASE Start(u)
  BY <1>3, QuietAnswers DEF Start, Works
<1>4. CASE StartFails(u)
  BY <1>4, QuietAnswers DEF StartFails, Setup, Works
<1>5. CASE SettleThrows(u)
  BY <1>0, <1>5, HandAnswers DEF SettleThrows
<1>6. CASE Resolve(u)
  <2>1. CASE Running(u, {"single"}) /\ Hand(u, Delivery("report", FALSE))
    <3>1. Delivery("report", FALSE) \subseteq Answers(kindOf[u])
      BY <2>1 DEF Answers
    <3> QED
      BY <1>2, <1>6, <2>1, <3>1, HandAnswers DEF Resolve
  <2>2. CASE Running(u, {"report"}) /\ Hand(u, Delivery("report", TRUE))
    <3>1. Delivery("report", TRUE) \subseteq Answers(kindOf[u])
      BY <2>2 DEF Answers
    <3> QED
      BY <1>2, <1>6, <2>2, <3>1, HandAnswers DEF Resolve
  <2> QED
    BY <1>6, <2>1, <2>2 DEF Resolve
<1>7. CASE ResolveDeveloper(u)
  BY <1>7, QuietAnswers DEF ResolveDeveloper, Goto, Works
<1>8. CASE Reject(u)
  <2>1. Delivery("failure", FALSE) \subseteq Answers(kindOf[u])
    BY <1>8 DEF Answers, Reject
  <2> QED
    BY <1>2, <1>8, <2>1, HandAnswers DEF Reject
<1>9. CASE DrivenEnds(u)
  BY <1>9, QuietAnswers DEF DrivenEnds, Goto, Works
<1>10. CASE MemberEnds(u) \/ DeadMemberEnds(u)
  BY <1>10 DEF MemberEnds, DeadMemberEnds, Answered
<1>11. CASE LastMemberEnds(u)
  <2>1. CASE Hand(u, StandIns)
    BY <1>0, <1>11, <2>1, HandAnswers DEF LastMemberEnds
  <2>2. CASE Goto(u, "git") /\ UNCHANGED <<sends, signal>>
    BY <1>11, <2>2, QuietAnswers DEF LastMemberEnds, Goto, Works
  <2> QED
    BY <1>11, <2>1, <2>2 DEF LastMemberEnds
<1>12. CASE GitLine(u)
  <2>1. kindOf[u] \in {"single", "batch"} /\ work[u] = "git"
    BY <1>12 DEF GitLine, Answered, Given
  <2>2. (kindOf[u] = "batch") = (kindOf[u] # "single")
    BY <2>1
  <2>3. Delivery("report", kindOf[u] = "batch") \subseteq Answers(kindOf[u])
    BY <1>1, <2>1, <2>2 DEF Kinds
  <2> QED
    BY <1>2, <1>12, <2>1, <2>3, HandAnswers DEF GitLine
<1>13. CASE Release(u)
  BY <1>13, QuietAnswers DEF Release, Goto, Works
<1> QED
  BY <1>3, <1>4, <1>5, <1>6, <1>7, <1>8, <1>9, <1>10, <1>11, <1>12, <1>13 DEF Unit

\* What the units were given is in order throughout: sessions come and go without touching it.
LEMMA AnsweredThroughout == Spec => []Answered
<1>1. Init => Answered
  BY DEF Init, Answered, Given
<1>2. IInv /\ Answered /\ [Next]_vars => Answered'
  <2> SUFFICES ASSUME IInv, Answered, [Next]_vars PROVE Answered'
    OBVIOUS
  <2>1. CASE UNCHANGED units
    BY <2>1 DEF units, Answered
  <2>2. Session => UNCHANGED units
    BY DEF Session, Attach, ShutdownNothingOwed, ShutdownAtOnce, ShutdownWaits,
       Leave, Bound
  <2> QED
    BY <2>1, <2>2, UnitAnswers DEF Next, Runs, Exit, vars
<1> QED
  BY <1>1, <1>2, Invariance, PTL DEF Spec

\* Every job and every batch of the PM is answered once, a driver's never: at most one message
\* lands, and where the host refused the last of them it was a stand-in, a failure notice or the
\* report of a single job (async-jobs.ts startJob, async-jobs-batch-delivery.ts).
THEOREM OneAnswer == Spec => []AnsweredOnce
<1>1. IInv /\ Answered => AnsweredOnce
  <2> SUFFICES ASSUME IInv, Answered, NEW u \in Units
               PROVE  /\ Landed(u) <= 1
                      /\ kindOf[u] = "driven" \/ work[u] = "failed" => sends[u] = <<>>
                      /\ work[u] \in {"handed", "over"} /\ kindOf[u] # "driven" =>
                           /\ sends[u] # <<>>
                           /\ \/ LastSend(u).landed
                              \/ LastSend(u).what = "stand-in"
                              \/ kindOf[u] = "single"
                              \/ LastSend(u).what = "failure"
    BY DEF AnsweredOnce
  <2>1. kindOf[u] \in Kinds /\ Given(kindOf[u], work[u], sends[u])
    BY DEF IInv, TypeOK, Answered
  <2>2. CASE work[u] \in {"handed", "over"} /\ kindOf[u] # "driven"
    BY <2>1, <2>2, LandsOnce, AnswerEnd DEF Given, Landed, LastSend
  <2>3. CASE ~(work[u] \in {"handed", "over"} /\ kindOf[u] # "driven")
    <3>1. sends[u] = <<>>
      BY <2>1, <2>3 DEF Given
    <3>2. Landed(u) = 0
      <4>1. {i \in DOMAIN sends[u] : sends[u][i].landed} = {}
        BY <3>1
      <4> QED
        BY <4>1, FS_EmptySet DEF Landed
    <3> QED
      BY <2>3, <3>1, <3>2
  <2> QED
    BY <2>2, <2>3
<1> QED
  BY <1>1, Invariance, AnsweredThroughout, PTL
=============================================================================
