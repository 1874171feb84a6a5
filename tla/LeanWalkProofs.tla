--------------------------- MODULE LeanWalkProofs ---------------------------
(***************************************************************************)
(* Theorems about LeanWalk, for every value of MAX_BUILD_ATTEMPTS, and     *)
(* about LeanLock, the lock a walk runs under, for every set of processes  *)
(* on any hosts.                                                           *)
(***************************************************************************)
EXTENDS LeanWalk, LeanLock, LeanMachineProofs

-----------------------------------------------------------------------------
(* The inductive invariant, in named parts *)

\* Steps that can still be decided from a position: three per build round left,
\* three while the review may still send its fixes back to verify, six while a
\* red CI may still buy a round, and the height of the state on the way down.
Level ==
  [ s \in LeanState |->
      CASE s = "ready" -> 10   [] s = "specify" -> 9   [] s = "build" -> 8
        [] s = "challenge" -> 7 [] s = "verify" -> 6   [] s = "publish" -> 5
        [] s = "review" -> 4   [] s = "ci" -> 3        [] s = "land" -> 2
        [] s \in REPORT_STATES -> 1
        [] s \in TERMINAL_STATES -> 0 ]

RoundsLeft(p) == IF UnderCap(p) THEN MAX_BUILD_ATTEMPTS - p.buildAttempts ELSE 0

Rank(p) == 3 * RoundsLeft(p) + (IF p.reviewDone THEN 0 ELSE 3)
           + (IF p.ciFixUsed THEN 0 ELSE 6) + Level[p.state]

RankInv == log.length + Rank(pos) <= 3 * MAX_BUILD_ATTEMPTS + 19

HeadInv ==
  /\ pos.state \in {"publish", "review", "ci", "land", "landed"} => pos.draft \/ head.gated
  /\ pos.state \in {"review", "ci", "land", "landed"} => head.published
  /\ pos.state \in {"land", "landed"} => ~pos.draft /\ head.piped

OnceInv ==
  /\ pos.state = "challenge" => ~pos.challengeDone
  /\ pos.state = "review" => ~pos.reviewDone
  /\ ~Ended /\ log.newest["challenge"] # Undecided => pos.challengeDone
  /\ ~Ended /\ log.newest["review"] # Undecided => pos.reviewDone

Paid   == {"build", "challenge", "verify", "publish", "review", "ci", "land", "landed"}
Unpaid == {"ready", "specify", "decline", "not-ready"}

UnbuiltInv ==
  /\ pos.state \in Unpaid => pos.buildAttempts = 0 /\ log.builds = 0
  /\ pos.state \in Paid => pos.buildAttempts > 0

\* Build rounds entered: those decided, and the one the run stands in.
Entered == log.builds + (IF pos.state = "build" THEN 1 ELSE 0)

RoundsInv ==
  /\ Entered <= pos.buildAttempts
  /\ Entered <= MAX_BUILD_ATTEMPTS + (IF pos.ciFixUsed THEN 1 ELSE 0)
  /\ pos.buildAttempts <= MAX_BUILD_ATTEMPTS + (IF pos.ciFixUsed THEN 2 ELSE 0)
                          + (IF pos.state \in {"build", "challenge"} THEN 0 ELSE 1)

IInv == TypeOK /\ HeadInv /\ OnceInv /\ UnbuiltInv /\ RoundsInv /\ RankInv

-----------------------------------------------------------------------------
(* One decided step, component by component *)

\* The initial state satisfies the invariant.
LEMMA InitIInv == Init => IInv
  BY MaxAssumption
  DEF Init, IInv, TypeOK, HeadInv, OnceInv, UnbuiltInv, RoundsInv, RankInv, Rank, RoundsLeft,
      Level, Entered, UnderCap, InitialPosition, Position, LogSummary, HeadFacts, MovedHead,
      LeanState, HANDLER_STATES, REPORT_STATES, TERMINAL_STATES, Undecided, Ended, Paid, Unpaid

\* Every state has a natural level: ten at ready, none at the end.
LEMMA LevelFacts ==
  /\ Level["ready"] = 10 /\ Level["specify"] = 9 /\ Level["build"] = 8
  /\ Level["challenge"] = 7 /\ Level["verify"] = 6 /\ Level["publish"] = 5
  /\ Level["review"] = 4 /\ Level["ci"] = 3 /\ Level["land"] = 2
  /\ Level["handback"] = 1 /\ Level["decline"] = 1
  /\ Level["landed"] = 0 /\ Level["handed-back"] = 0 /\ Level["not-ready"] = 0
  BY DEF Level, LeanState, HANDLER_STATES, REPORT_STATES, TERMINAL_STATES

\* Logging a kind appends one entry of the current state.
LEMMA LoggedFacts ==
  ASSUME TypeOK, ~Ended, NEW kind \in Kinds \cup {Undecided, ErrorKind}
  PROVE  LET l == Logged(kind) IN
         /\ l \in LogSummary
         /\ l.length = log.length + 1
         /\ l.builds = log.builds + (IF pos.state = "build" THEN 1 ELSE 0)
         /\ \A s \in HANDLER_STATES :
               l.newest[s] = IF s = pos.state THEN kind ELSE log.newest[s]
<1> DEFINE n == [log.newest EXCEPT ![pos.state] = kind]
           b == log.builds + (IF pos.state = "build" THEN 1 ELSE 0)
<1>1. log.newest \in [HANDLER_STATES -> Kinds \cup {Undecided, ErrorKind}]
  BY DEF TypeOK, LogSummary
<1>2. pos.state \in HANDLER_STATES
  BY DEF TypeOK, Position, LeanState, Ended
<1>3. /\ n \in [HANDLER_STATES -> Kinds \cup {Undecided, ErrorKind}]
      /\ \A s \in HANDLER_STATES : n[s] = IF s = pos.state THEN kind ELSE log.newest[s]
  BY <1>1, <1>2
<1>4. b \in Nat /\ log.length + 1 \in Nat
  BY DEF TypeOK, LogSummary
<1>5. Logged(kind) = [length |-> log.length + 1, builds |-> b, newest |-> n]
  BY DEF Logged
<1> HIDE DEF n, b
<1>6. Logged(kind) \in LogSummary
  BY <1>3, <1>4, <1>5 DEF LogSummary
<1> QED
  BY <1>3, <1>5, <1>6 DEF b

\* The kinds the table lists are kinds.
LEMMA KindsFacts == \A s \in HANDLER_STATES : OUTCOME_KINDS[s] \subseteq Kinds
  BY DEF HANDLER_STATES, REPORT_STATES, OUTCOME_KINDS, Kinds

\* What is known of the head after a step stays typed.
LEMMA HeadType == ASSUME TypeOK, NEW kind PROVE HeadAfter(head, pos.state, kind) \in HeadFacts
  BY DEF TypeOK, HeadFacts, HeadAfter, MovedHead

\* What one decided step of state s with this kind does to the three variables.
StepOf(s, kind) ==
  /\ pos.state = s /\ ~Ended /\ kind # ErrorKind
  /\ log' = Logged(kind) /\ head' = HeadAfter(head, pos.state, kind)
  /\ log' \in LogSummary /\ head' \in HeadFacts
  /\ log'.length = log.length + 1
  /\ log'.builds = log.builds + (IF s = "build" THEN 1 ELSE 0)
  /\ \A t \in HANDLER_STATES :
        log'.newest[t] = IF t = s THEN kind ELSE log.newest[t]
  /\ \/ pos' = TableNext(pos, kind) /\ (pos'.state = "land" => ~pos.draft)
     \/ TableNext(pos, kind).state = "land" /\ pos' = To(pos, "handed-back")

\* A decided step logs one listed kind, and moves the run by the table unless the
\* arrival at land is refused.
LEMMA DecideFacts ==
  ASSUME IInv, NEW s \in HANDLER_STATES, Decide(s)
  PROVE  \E kind \in OUTCOME_KINDS[s] : StepOf(s, kind)
<1>1. PICK kind \in OUTCOME_KINDS[s] :
        pos.state = s /\ Settles(kind) /\ (Advance(kind) \/ RefuseLand(kind))
  BY DEF Decide
<1>2. ~Ended
  BY <1>1 DEF Ended, HANDLER_STATES, REPORT_STATES, TERMINAL_STATES
<1>3. kind \in Kinds /\ kind # ErrorKind
  BY KindsFacts DEF Kinds, ErrorKind
<1>4. /\ pos.state = s
      /\ log' = Logged(kind) /\ head' = HeadAfter(head, pos.state, kind)
      /\ log' \in LogSummary /\ head' \in HeadFacts
      /\ log'.length = log.length + 1
      /\ log'.builds = log.builds + (IF s = "build" THEN 1 ELSE 0)
      /\ \A t \in HANDLER_STATES :
            log'.newest[t] = IF t = s THEN kind ELSE log.newest[t]
  BY <1>1, <1>2, <1>3, LoggedFacts, HeadType DEF Settles, IInv
<1>5. \/ /\ pos' = TableNext(pos, kind)
         /\ pos'.state = "land" => ~pos.draft
      \/ /\ TableNext(pos, kind).state = "land"
         /\ pos' = To(pos, "handed-back")
  BY <1>1 DEF Advance, RefuseLand, landEarned
<1> QED
  BY <1>2, <1>3, <1>4, <1>5 DEF StepOf

-----------------------------------------------------------------------------
(* Every step preserves the invariant *)

\* One step per action; under it, one per conjunct of the invariant.
LEMMA StepIInv == IInv /\ [Next]_vars => IInv'
<1> SUFFICES ASSUME IInv, [Next]_vars PROVE IInv'
  OBVIOUS
<1> USE MaxAssumption DEF IInv
<1>1. CASE Ready
  <2>1. PICK kind \in OUTCOME_KINDS["ready"] : StepOf("ready", kind)
    BY <1>1, DecideFacts DEF Ready, HANDLER_STATES, REPORT_STATES
  <2>2. /\ pos' \in Position /\ pos'.state \in {"specify", "decline"}
        /\ pos'.buildAttempts = pos.buildAttempts
        /\ pos'.challengeDone = pos.challengeDone
        /\ pos'.reviewDone = pos.reviewDone
        /\ pos'.ciFixUsed = pos.ciFixUsed
        /\ pos'.draft = pos.draft
    BY <2>1, PlainRow DEF StepOf, TypeOK, PlainStates, PlainTargets
  <2>3. TypeOK'
    BY <2>1, <2>2 DEF StepOf, TypeOK
  <2>4. HeadInv'
    BY <2>1, <2>2 DEF StepOf, HeadInv, TypeOK, HeadFacts, HeadAfter, MovesHead, MovedHead
  <2>5. OnceInv'
    BY <2>1, <2>2 DEF StepOf, OnceInv, Ended, TERMINAL_STATES, HANDLER_STATES, REPORT_STATES
  <2>6. UnbuiltInv'
    BY <2>1, <2>2 DEF StepOf, UnbuiltInv, Paid, Unpaid, TypeOK, Position
  <2>7. RoundsInv'
    BY <2>1, <2>2 DEF StepOf, RoundsInv, UnbuiltInv, Unpaid, Entered, UnderCap, TypeOK, Position, LogSummary
  <2>8. RankInv'
    BY <2>1, <2>2, LevelFacts DEF StepOf, RankInv, Rank, RoundsLeft, UnderCap, OnceInv, TypeOK, Position, LogSummary
  <2> QED
    BY <2>3, <2>4, <2>5, <2>6, <2>7, <2>8
<1>2. CASE Specify
  <2>1. PICK kind \in OUTCOME_KINDS["specify"] : StepOf("specify", kind)
    BY <1>2, DecideFacts DEF Specify, HANDLER_STATES, REPORT_STATES
  <2>2. /\ pos' \in Position
        /\ \/ pos'.state \in {"handback", "decline"} /\ pos'.buildAttempts = pos.buildAttempts
           \/ pos'.state = "build" /\ pos'.buildAttempts = pos.buildAttempts + 1
        /\ pos'.challengeDone = pos.challengeDone
        /\ pos'.reviewDone = pos.reviewDone
        /\ pos'.ciFixUsed = pos.ciFixUsed
        /\ pos'.draft = pos.draft
    BY <2>1, PlainRow DEF StepOf, TypeOK, PlainStates, PlainTargets
  <2>3. TypeOK'
    BY <2>1, <2>2 DEF StepOf, TypeOK
  <2>4. HeadInv'
    BY <2>1, <2>2 DEF StepOf, HeadInv, TypeOK, HeadFacts, HeadAfter, MovesHead, MovedHead
  <2>5. OnceInv'
    BY <2>1, <2>2 DEF StepOf, OnceInv, Ended, TERMINAL_STATES, HANDLER_STATES, REPORT_STATES
  <2>6. UnbuiltInv'
    BY <2>1, <2>2 DEF StepOf, UnbuiltInv, Paid, Unpaid, TypeOK, Position
  <2>7. RoundsInv'
    BY <2>1, <2>2 DEF StepOf, RoundsInv, UnbuiltInv, Unpaid, Entered, UnderCap, TypeOK, Position, LogSummary
  <2>8. RankInv'
    BY <2>1, <2>2, LevelFacts DEF StepOf, RankInv, Rank, RoundsLeft, UnderCap, OnceInv, TypeOK, Position, LogSummary
  <2> QED
    BY <2>3, <2>4, <2>5, <2>6, <2>7, <2>8
<1>3. CASE Build
  <2>1. PICK kind \in OUTCOME_KINDS["build"] : StepOf("build", kind)
    BY <1>3, DecideFacts DEF Build, HANDLER_STATES, REPORT_STATES
  <2>2. /\ pos' \in Position
        /\ pos'.challengeDone = pos.challengeDone
        /\ pos'.reviewDone = pos.reviewDone
        /\ pos'.ciFixUsed = pos.ciFixUsed
        /\ \/ /\ pos'.state \in {"challenge", "verify", "handback"}
              /\ pos'.state = "challenge" => ~pos.challengeDone
              /\ pos'.buildAttempts = pos.buildAttempts /\ pos'.draft = pos.draft
           \/ /\ pos'.state = "publish" /\ pos'.draft
              /\ pos'.buildAttempts = pos.buildAttempts + 1
    BY <2>1, BuildRow DEF StepOf, TypeOK
  <2>3. TypeOK'
    BY <2>1, <2>2 DEF StepOf, TypeOK
  <2>4. HeadInv'
    BY <2>1, <2>2 DEF StepOf, HeadInv, TypeOK, HeadFacts, HeadAfter, MovesHead, MovedHead
  <2>5. OnceInv'
    BY <2>1, <2>2 DEF StepOf, OnceInv, Ended, TERMINAL_STATES, HANDLER_STATES, REPORT_STATES
  <2>6. UnbuiltInv'
    BY <2>1, <2>2 DEF StepOf, UnbuiltInv, Paid, Unpaid, TypeOK, Position
  <2>7. RoundsInv'
    BY <2>1, <2>2 DEF StepOf, RoundsInv, UnbuiltInv, Unpaid, Entered, UnderCap, TypeOK, Position, LogSummary
  <2>8. RankInv'
    BY <2>1, <2>2, LevelFacts DEF StepOf, RankInv, Rank, RoundsLeft, UnderCap, OnceInv, TypeOK, Position, LogSummary
  <2> QED
    BY <2>3, <2>4, <2>5, <2>6, <2>7, <2>8
<1>4. CASE Challenge
  <2>1. PICK kind \in OUTCOME_KINDS["challenge"] : StepOf("challenge", kind)
    BY <1>4, DecideFacts DEF Challenge, HANDLER_STATES, REPORT_STATES
  <2>2. /\ pos' \in Position /\ pos'.challengeDone
        /\ pos'.reviewDone = pos.reviewDone
        /\ pos'.ciFixUsed = pos.ciFixUsed
        /\ pos'.draft = pos.draft
        /\ \/ pos'.state = "verify" /\ pos'.buildAttempts = pos.buildAttempts
           \/ pos'.state = "build" /\ UnderCap(pos) /\ pos'.buildAttempts = pos.buildAttempts + 1
    BY <2>1, ChallengeRow DEF StepOf, TypeOK
  <2>3. TypeOK'
    BY <2>1, <2>2 DEF StepOf, TypeOK
  <2>4. HeadInv'
    BY <2>1, <2>2 DEF StepOf, HeadInv, TypeOK, HeadFacts, HeadAfter, MovesHead, MovedHead
  <2>5. OnceInv'
    BY <2>1, <2>2 DEF StepOf, OnceInv, Ended, TERMINAL_STATES, HANDLER_STATES, REPORT_STATES
  <2>6. UnbuiltInv'
    BY <2>1, <2>2 DEF StepOf, UnbuiltInv, Paid, Unpaid, TypeOK, Position
  <2>7. RoundsInv'
    BY <2>1, <2>2 DEF StepOf, RoundsInv, UnbuiltInv, Unpaid, Entered, UnderCap, TypeOK, Position, LogSummary
  <2>8. RankInv'
    BY <2>1, <2>2, LevelFacts DEF StepOf, RankInv, Rank, RoundsLeft, UnderCap, OnceInv, TypeOK, Position, LogSummary
  <2> QED
    BY <2>3, <2>4, <2>5, <2>6, <2>7, <2>8
<1>5. CASE Verify
  <2>1. PICK kind \in OUTCOME_KINDS["verify"] : StepOf("verify", kind)
    BY <1>5, DecideFacts DEF Verify, HANDLER_STATES, REPORT_STATES
  <2>2. /\ pos' \in Position
        /\ pos'.challengeDone = pos.challengeDone
        /\ pos'.reviewDone = pos.reviewDone
        /\ pos'.ciFixUsed = pos.ciFixUsed
        /\ \/ /\ kind = "green" /\ pos'.state = "publish" /\ ~pos'.draft
              /\ pos'.buildAttempts = pos.buildAttempts
           \/ /\ kind = "red" /\ pos'.state = "build" /\ UnderCap(pos) /\ pos'.draft
              /\ pos'.buildAttempts = pos.buildAttempts + 1
           \/ /\ kind = "red" /\ pos'.state = "handback" /\ pos'.draft = pos.draft
              /\ pos'.buildAttempts = pos.buildAttempts
    BY <2>1, VerifyRow DEF StepOf, TypeOK
  <2>3. TypeOK'
    BY <2>1, <2>2 DEF StepOf, TypeOK
  <2>4. HeadInv'
    BY <2>1, <2>2 DEF StepOf, HeadInv, TypeOK, HeadFacts, HeadAfter, MovesHead, MovedHead
  <2>5. OnceInv'
    BY <2>1, <2>2 DEF StepOf, OnceInv, Ended, TERMINAL_STATES, HANDLER_STATES, REPORT_STATES
  <2>6. UnbuiltInv'
    BY <2>1, <2>2 DEF StepOf, UnbuiltInv, Paid, Unpaid, TypeOK, Position
  <2>7. RoundsInv'
    BY <2>1, <2>2 DEF StepOf, RoundsInv, UnbuiltInv, Unpaid, Entered, UnderCap, TypeOK, Position, LogSummary
  <2>8. RankInv'
    BY <2>1, <2>2, LevelFacts DEF StepOf, RankInv, Rank, RoundsLeft, UnderCap, OnceInv, TypeOK, Position, LogSummary
  <2> QED
    BY <2>3, <2>4, <2>5, <2>6, <2>7, <2>8
<1>6. CASE Publish
  <2>1. PICK kind \in OUTCOME_KINDS["publish"] : StepOf("publish", kind)
    BY <1>6, DecideFacts DEF Publish, HANDLER_STATES, REPORT_STATES
  <2>2. /\ pos' \in Position /\ pos'.state \in {"ci", "review"}
        /\ pos'.state = "review" => ~pos.reviewDone
        /\ pos'.buildAttempts = pos.buildAttempts
        /\ pos'.challengeDone = pos.challengeDone
        /\ pos'.reviewDone = pos.reviewDone
        /\ pos'.ciFixUsed = pos.ciFixUsed
        /\ pos'.draft = pos.draft
    BY <2>1, PlainRow DEF StepOf, TypeOK, PlainStates, PlainTargets
  <2>3. TypeOK'
    BY <2>1, <2>2 DEF StepOf, TypeOK
  <2>4. HeadInv'
    BY <2>1, <2>2 DEF StepOf, HeadInv, TypeOK, HeadFacts, HeadAfter, MovesHead, MovedHead
  <2>5. OnceInv'
    BY <2>1, <2>2 DEF StepOf, OnceInv, Ended, TERMINAL_STATES, HANDLER_STATES, REPORT_STATES
  <2>6. UnbuiltInv'
    BY <2>1, <2>2 DEF StepOf, UnbuiltInv, Paid, Unpaid, TypeOK, Position
  <2>7. RoundsInv'
    BY <2>1, <2>2 DEF StepOf, RoundsInv, UnbuiltInv, Unpaid, Entered, UnderCap, TypeOK, Position, LogSummary
  <2>8. RankInv'
    BY <2>1, <2>2, LevelFacts DEF StepOf, RankInv, Rank, RoundsLeft, UnderCap, OnceInv, TypeOK, Position, LogSummary
  <2> QED
    BY <2>3, <2>4, <2>5, <2>6, <2>7, <2>8
<1>7. CASE Review
  <2>1. PICK kind \in OUTCOME_KINDS["review"] : StepOf("review", kind)
    BY <1>7, DecideFacts DEF Review, HANDLER_STATES, REPORT_STATES
  <2>2. /\ pos' \in Position /\ pos'.reviewDone
        /\ \/ kind = "done" /\ pos'.state = "ci"
           \/ kind = "fixed" /\ pos'.state = "verify"
        /\ pos'.buildAttempts = pos.buildAttempts
        /\ pos'.challengeDone = pos.challengeDone
        /\ pos'.ciFixUsed = pos.ciFixUsed
        /\ pos'.draft = pos.draft
    BY <2>1, ReviewRow DEF StepOf, TypeOK, OUTCOME_KINDS
  <2>3. TypeOK'
    BY <2>1, <2>2 DEF StepOf, TypeOK
  <2>4. HeadInv'
    BY <2>1, <2>2 DEF StepOf, HeadInv, TypeOK, HeadFacts, HeadAfter, MovesHead, MovedHead
  <2>5. OnceInv'
    BY <2>1, <2>2 DEF StepOf, OnceInv, Ended, TERMINAL_STATES, HANDLER_STATES, REPORT_STATES
  <2>6. UnbuiltInv'
    BY <2>1, <2>2 DEF StepOf, UnbuiltInv, Paid, Unpaid, TypeOK, Position
  <2>7. RoundsInv'
    BY <2>1, <2>2 DEF StepOf, RoundsInv, UnbuiltInv, Unpaid, Entered, UnderCap, TypeOK, Position, LogSummary
  <2>8. RankInv'
    BY <2>1, <2>2, LevelFacts DEF StepOf, RankInv, Rank, RoundsLeft, UnderCap, OnceInv, TypeOK, Position, LogSummary
  <2> QED
    BY <2>3, <2>4, <2>5, <2>6, <2>7, <2>8
<1>8. CASE Ci
  <2>1. PICK kind \in OUTCOME_KINDS["ci"] : StepOf("ci", kind)
    BY <1>8, DecideFacts DEF Ci, HANDLER_STATES, REPORT_STATES
  <2>2. /\ pos' \in Position
        /\ pos'.challengeDone = pos.challengeDone
        /\ pos'.reviewDone = pos.reviewDone
        /\ pos'.draft = pos.draft
        /\ \/ /\ kind = "green" /\ pos'.state = "land" /\ ~pos.draft
              /\ pos'.buildAttempts = pos.buildAttempts /\ pos'.ciFixUsed = pos.ciFixUsed
           \/ /\ pos'.state \in {"handed-back", "handback"}
              /\ pos'.buildAttempts = pos.buildAttempts /\ pos'.ciFixUsed = pos.ciFixUsed
           \/ /\ pos'.state = "build" /\ ~pos.ciFixUsed /\ pos'.ciFixUsed
              /\ pos'.buildAttempts = pos.buildAttempts + 1
    BY <2>1, CiRow, ToFacts DEF StepOf, TypeOK, LeanState, TERMINAL_STATES
  <2>3. TypeOK'
    BY <2>1, <2>2 DEF StepOf, TypeOK
  <2>4. HeadInv'
    BY <2>1, <2>2 DEF StepOf, HeadInv, TypeOK, HeadFacts, HeadAfter, MovesHead, MovedHead
  <2>5. OnceInv'
    BY <2>1, <2>2 DEF StepOf, OnceInv, Ended, TERMINAL_STATES, HANDLER_STATES, REPORT_STATES
  <2>6. UnbuiltInv'
    BY <2>1, <2>2 DEF StepOf, UnbuiltInv, Paid, Unpaid, TypeOK, Position
  <2>7. RoundsInv'
    BY <2>1, <2>2 DEF StepOf, RoundsInv, UnbuiltInv, Unpaid, Entered, UnderCap, TypeOK, Position, LogSummary
  <2>8. RankInv'
    BY <2>1, <2>2, LevelFacts DEF StepOf, RankInv, Rank, RoundsLeft, UnderCap, OnceInv, TypeOK, Position, LogSummary
  <2> QED
    BY <2>3, <2>4, <2>5, <2>6, <2>7, <2>8
<1>9. CASE Land
  <2>1. PICK kind \in OUTCOME_KINDS["land"] : StepOf("land", kind)
    BY <1>9, DecideFacts DEF Land, HANDLER_STATES, REPORT_STATES
  <2>2. /\ pos' \in Position /\ pos'.state \in {"landed", "handback"}
        /\ pos'.buildAttempts = pos.buildAttempts
        /\ pos'.challengeDone = pos.challengeDone
        /\ pos'.reviewDone = pos.reviewDone
        /\ pos'.ciFixUsed = pos.ciFixUsed
        /\ pos'.draft = pos.draft
    BY <2>1, PlainRow DEF StepOf, TypeOK, PlainStates, PlainTargets
  <2>3. TypeOK'
    BY <2>1, <2>2 DEF StepOf, TypeOK
  <2>4. HeadInv'
    BY <2>1, <2>2 DEF StepOf, HeadInv, TypeOK, HeadFacts, HeadAfter, MovesHead, MovedHead
  <2>5. OnceInv'
    BY <2>1, <2>2 DEF StepOf, OnceInv, Ended, TERMINAL_STATES, HANDLER_STATES, REPORT_STATES
  <2>6. UnbuiltInv'
    BY <2>1, <2>2 DEF StepOf, UnbuiltInv, Paid, Unpaid, TypeOK, Position
  <2>7. RoundsInv'
    BY <2>1, <2>2 DEF StepOf, RoundsInv, UnbuiltInv, Unpaid, Entered, UnderCap, TypeOK, Position, LogSummary
  <2>8. RankInv'
    BY <2>1, <2>2, LevelFacts DEF StepOf, RankInv, Rank, RoundsLeft, UnderCap, OnceInv, TypeOK, Position, LogSummary
  <2> QED
    BY <2>3, <2>4, <2>5, <2>6, <2>7, <2>8
<1>10. CASE Handback
  <2>1. PICK kind \in OUTCOME_KINDS["handback"] : StepOf("handback", kind)
    BY <1>10, DecideFacts DEF Handback, HANDLER_STATES, REPORT_STATES
  <2>2. /\ pos' \in Position /\ pos'.state = "handed-back"
        /\ pos'.buildAttempts = pos.buildAttempts
        /\ pos'.challengeDone = pos.challengeDone
        /\ pos'.reviewDone = pos.reviewDone
        /\ pos'.ciFixUsed = pos.ciFixUsed
        /\ pos'.draft = pos.draft
    BY <2>1, PlainRow DEF StepOf, TypeOK, PlainStates, PlainTargets
  <2>3. TypeOK'
    BY <2>1, <2>2 DEF StepOf, TypeOK
  <2>4. HeadInv'
    BY <2>1, <2>2 DEF StepOf, HeadInv, TypeOK, HeadFacts, HeadAfter, MovesHead, MovedHead
  <2>5. OnceInv'
    BY <2>1, <2>2 DEF StepOf, OnceInv, Ended, TERMINAL_STATES, HANDLER_STATES, REPORT_STATES
  <2>6. UnbuiltInv'
    BY <2>1, <2>2 DEF StepOf, UnbuiltInv, Paid, Unpaid, TypeOK, Position
  <2>7. RoundsInv'
    BY <2>1, <2>2 DEF StepOf, RoundsInv, UnbuiltInv, Unpaid, Entered, UnderCap, TypeOK, Position, LogSummary
  <2>8. RankInv'
    BY <2>1, <2>2, LevelFacts DEF StepOf, RankInv, Rank, RoundsLeft, UnderCap, OnceInv, TypeOK, Position, LogSummary
  <2> QED
    BY <2>3, <2>4, <2>5, <2>6, <2>7, <2>8
<1>11. CASE Decline
  <2>1. PICK kind \in OUTCOME_KINDS["decline"] : StepOf("decline", kind)
    BY <1>11, DecideFacts DEF Decline, HANDLER_STATES, REPORT_STATES
  <2>2. /\ pos' \in Position /\ pos'.state = "not-ready"
        /\ pos'.buildAttempts = pos.buildAttempts
        /\ pos'.challengeDone = pos.challengeDone
        /\ pos'.reviewDone = pos.reviewDone
        /\ pos'.ciFixUsed = pos.ciFixUsed
        /\ pos'.draft = pos.draft
    BY <2>1, PlainRow DEF StepOf, TypeOK, PlainStates, PlainTargets
  <2>3. TypeOK'
    BY <2>1, <2>2 DEF StepOf, TypeOK
  <2>4. HeadInv'
    BY <2>1, <2>2 DEF StepOf, HeadInv, TypeOK, HeadFacts, HeadAfter, MovesHead, MovedHead
  <2>5. OnceInv'
    BY <2>1, <2>2 DEF StepOf, OnceInv, Ended, TERMINAL_STATES, HANDLER_STATES, REPORT_STATES
  <2>6. UnbuiltInv'
    BY <2>1, <2>2 DEF StepOf, UnbuiltInv, Paid, Unpaid, TypeOK, Position
  <2>7. RoundsInv'
    BY <2>1, <2>2 DEF StepOf, RoundsInv, UnbuiltInv, Unpaid, Entered, UnderCap, TypeOK, Position, LogSummary
  <2>8. RankInv'
    BY <2>1, <2>2, LevelFacts DEF StepOf, RankInv, Rank, RoundsLeft, UnderCap, OnceInv, TypeOK, Position, LogSummary
  <2> QED
    BY <2>3, <2>4, <2>5, <2>6, <2>7, <2>8
<1>12. CASE HandlerFault
  <2>1. /\ ~Ended /\ log' = Logged(ErrorKind) /\ head' = HeadAfter(head, pos.state, ErrorKind)
        /\ pos' = To(pos, "handed-back")
    BY <1>12 DEF HandlerFault
  <2>2. /\ log' \in LogSummary
        /\ log'.length = log.length + 1
        /\ log'.builds = log.builds + (IF pos.state = "build" THEN 1 ELSE 0)
    BY <2>1, LoggedFacts
  <2>3. /\ pos' \in Position /\ pos'.state = "handed-back"
        /\ pos'.buildAttempts = pos.buildAttempts
        /\ pos'.reviewDone = pos.reviewDone
        /\ pos'.ciFixUsed = pos.ciFixUsed
    BY <2>1, ToFacts DEF TypeOK, LeanState, TERMINAL_STATES
  <2>4. TypeOK'
    BY <2>1, <2>2, <2>3, HeadType DEF TypeOK
  <2>5. HeadInv' /\ OnceInv' /\ UnbuiltInv'
    BY <2>3 DEF HeadInv, OnceInv, UnbuiltInv, Paid, Unpaid, Ended, TERMINAL_STATES
  <2>6. RoundsInv'
    BY <2>2, <2>3 DEF RoundsInv, Entered, TypeOK, Position, LogSummary
  <2>7. RankInv'
    <3>1. Level[pos.state] \in Nat /\ Level[pos.state] >= 1
      BY <2>1, LevelFacts
      DEF TypeOK, Position, Ended, LeanState, HANDLER_STATES, REPORT_STATES
    <3> QED
      BY <2>2, <2>3, <3>1, LevelFacts
      DEF RankInv, Rank, RoundsLeft, UnderCap, TypeOK, Position, LogSummary
  <2> QED
    BY <2>4, <2>5, <2>6, <2>7
<1>13. CASE EngineStop
  <2>1. /\ ~Ended /\ log' = log /\ head' = head
        /\ pos' = To(pos, "handed-back")
    BY <1>13 DEF EngineStop
  <2>3. /\ pos' \in Position /\ pos'.state = "handed-back"
        /\ pos'.buildAttempts = pos.buildAttempts
        /\ pos'.reviewDone = pos.reviewDone
        /\ pos'.ciFixUsed = pos.ciFixUsed
    BY <2>1, ToFacts DEF TypeOK, LeanState, TERMINAL_STATES
  <2>4. TypeOK'
    BY <2>1, <2>3 DEF TypeOK
  <2>5. HeadInv' /\ OnceInv' /\ UnbuiltInv'
    BY <2>3 DEF HeadInv, OnceInv, UnbuiltInv, Paid, Unpaid, Ended, TERMINAL_STATES
  <2>6. RoundsInv'
    BY <2>1, <2>3 DEF RoundsInv, Entered, TypeOK, Position, LogSummary
  <2>7. RankInv'
    <3>1. Level[pos.state] \in Nat
      BY LevelFacts
      DEF TypeOK, Position, LeanState, HANDLER_STATES, REPORT_STATES, TERMINAL_STATES
    <3> QED
      BY <2>1, <2>3, <3>1, LevelFacts
      DEF RankInv, Rank, RoundsLeft, UnderCap, TypeOK, Position, LogSummary
  <2> QED
    BY <2>4, <2>5, <2>6, <2>7
<1>14. CASE UNCHANGED vars
  BY <1>14
  DEF vars, TypeOK, HeadInv, OnceInv, UnbuiltInv, RoundsInv, RankInv, Rank, RoundsLeft, UnderCap,
      Entered, Ended
<1> QED
  BY <1>1, <1>2, <1>3, <1>4, <1>5, <1>6, <1>7, <1>8, <1>9, <1>10, <1>11, <1>12, <1>13, <1>14 DEF Next, Steps

\* The invariant holds throughout every behaviour.
THEOREM Invariance == Spec => []IInv
  BY InitIInv, StepIInv, PTL DEF Spec

-----------------------------------------------------------------------------
(* What the invariant gives *)

\* Every variable keeps its type, the flat position record included.
THEOREM Typing == Spec => []TypeOK
<1>1. IInv => TypeOK
  BY DEF IInv
<1> QED
  BY <1>1, Invariance, PTL

\* The merge gate: whoever stands at land or has landed does so over one head that is
\* gated, published and piped green, whatever fix rounds and reviews came before.
THEOREM MergeGate == Spec => []LandOnlyOverCertifiedHead
<1>1. IInv => LandOnlyOverCertifiedHead
  BY DEF IInv, HeadInv, LandOnlyOverCertifiedHead
<1> QED
  BY <1>1, Invariance, PTL

\* CI is asked only about the published head, gated unless the PR is a draft.
THEOREM CiScope == Spec => []CiJudgesPublishedHead
<1>1. IInv => CiJudgesPublishedHead
  BY DEF IInv, HeadInv, CiJudgesPublishedHead
<1> QED
  BY <1>1, Invariance, PTL

\* Neither the challenge nor the review is entered a second time.
THEOREM OnlyOnce == Spec => []OptionalStepsRunOnce
<1>1. IInv => OptionalStepsRunOnce
  BY DEF IInv, OnceInv, OptionalStepsRunOnce, Ended, TERMINAL_STATES
<1> QED
  BY <1>1, Invariance, PTL

\* Exit 11 is only said of a run that never paid a builder.
THEOREM HonestRefusal == Spec => []RefusalMeansNothingBuilt
<1>1. IInv => RefusalMeansNothingBuilt
  BY DEF IInv, UnbuiltInv, Unpaid, RefusalMeansNothingBuilt
<1> QED
  BY <1>1, Invariance, PTL

\* At most one build round above the cap, whatever the cap.
THEOREM RoundsBound == Spec => []BuildRoundsBounded
<1>1. IInv => BuildRoundsBounded
  BY MaxAssumption
  DEF IInv, TypeOK, Position, LogSummary, RoundsInv, Entered, BuildRoundsBounded
<1> QED
  BY <1>1, Invariance, PTL

\* No walk decides more than 3*MAX_BUILD_ATTEMPTS + 19 steps.
THEOREM Termination == Spec => []WalkBounded
<1>1. ASSUME IInv PROVE WalkBounded
  <2>1. pos \in Position /\ log \in LogSummary
    BY <1>1 DEF IInv, TypeOK
  <2>2. Level[pos.state] \in Nat
    BY <2>1, LevelFacts DEF Position, LeanState, HANDLER_STATES, REPORT_STATES, TERMINAL_STATES
  <2>3. RoundsLeft(pos) \in Nat
    BY <2>1, MaxAssumption DEF RoundsLeft, UnderCap, Position
  <2>4. Rank(pos) \in Nat
    BY <2>2, <2>3 DEF Rank
  <2> QED
    BY <1>1, <2>1, <2>4, MaxAssumption DEF IInv, RankInv, WalkBounded, LogSummary
<1> QED
  BY <1>1, Invariance, PTL

-----------------------------------------------------------------------------
(* Action properties *)

\* A step that is not a green verify keeps a draft marker standing.
LEMMA StepKeepsDraft ==
  IInv /\ Next => (pos.draft /\ ~pos'.draft =>
                     pos.state = "verify" /\ log'.newest["verify"] = "green")
<1> SUFFICES ASSUME IInv, Next, pos.draft, ~pos'.draft
             PROVE  pos.state = "verify" /\ log'.newest["verify"] = "green"
  OBVIOUS
<1>1. pos \in Position
  BY DEF IInv, TypeOK
<1>2. ASSUME NEW s \in HANDLER_STATES, Decide(s)
      PROVE  pos.state = "verify" /\ log'.newest["verify"] = "green"
  <2>1. PICK kind \in OUTCOME_KINDS[s] : StepOf(s, kind)
    BY <1>2, DecideFacts
  <2>2. ~(pos' = To(pos, "handed-back"))
    BY <1>1, ToFacts DEF LeanState, TERMINAL_STATES
  <2>3. pos' = TableNext(pos, kind) /\ pos.state = s
    BY <2>1, <2>2 DEF StepOf
  <2>4. s = "verify" /\ kind = "green"
    BY <1>1, <2>3, RowSummary
  <2> QED
    BY <2>1, <2>4 DEF StepOf
<1>3. CASE HandlerFault \/ EngineStop
  BY <1>1, <1>3, ToFacts DEF HandlerFault, EngineStop, LeanState, TERMINAL_STATES
<1> QED
  BY <1>2, <1>3
  DEF Next, Steps, Ready, Specify, Build, Challenge, Verify, Publish, Review, Ci, Land,
      Handback, Decline, HANDLER_STATES, REPORT_STATES

\* Only the run's own gate, calling the tree green, takes the draft marker down.
THEOREM DraftDiscipline == Spec => DraftClearedOnlyByGreen
<1>1. IInv /\ [Next]_vars =>
        [pos.draft /\ ~pos'.draft =>
           pos.state = "verify" /\ log'.newest["verify"] = "green"]_vars
  BY StepKeepsDraft
<1> QED
  BY <1>1, Invariance, PTL DEF Spec, DraftClearedOnlyByGreen

-----------------------------------------------------------------------------
(* The walk implements the contract *)

exitBar      == IF Ended THEN pos.state ELSE "none"
builtBar     == pos.buildAttempts > 0
certifiedBar == ~pos.draft /\ head.gated /\ head.published /\ head.piped

\* One decided step is a step of the contract: work, or one of its three exits.
LEMMA DecideKeepsContract ==
  ASSUME IInv, IInv', NEW s \in HANDLER_STATES, Decide(s)
  PROVE  Contract!Next
<1>1. PICK kind \in OUTCOME_KINDS[s] : StepOf(s, kind)
  BY DecideFacts
<1>2. /\ pos \in Position /\ pos' \in Position /\ exitBar = "none"
      /\ pos.state = s
  BY <1>1 DEF IInv, TypeOK, StepOf, exitBar
<1>3. CASE pos' = TableNext(pos, kind)
  <2>1. /\ pos'.buildAttempts >= pos.buildAttempts
        /\ pos'.state \in TERMINAL_STATES =>
             /\ \/ pos.state = "land" /\ pos'.state = "landed"
                \/ pos.state = "handback" /\ pos'.state = "handed-back"
                \/ pos.state = "decline" /\ pos'.state = "not-ready"
             /\ pos'.buildAttempts = pos.buildAttempts /\ pos'.draft = pos.draft
    BY <1>2, <1>3, RowSummary
  <2>2. builtBar' \in {builtBar, TRUE} /\ certifiedBar' \in BOOLEAN
    <3>1. pos.buildAttempts > 0 => pos'.buildAttempts > 0
      BY <1>2, <2>1 DEF Position
    <3>2. certifiedBar' \in BOOLEAN
      BY DEF certifiedBar
    <3>3. builtBar \in BOOLEAN /\ builtBar' \in BOOLEAN
      BY DEF builtBar
    <3>4. builtBar => builtBar'
      BY <3>1 DEF builtBar
    <3> QED
      BY <3>2, <3>3, <3>4, Zenon
  <2>3. CASE pos'.state \notin TERMINAL_STATES
    BY <1>2, <2>2, <2>3
    DEF Contract!Next, Contract!Work, exitBar, builtBar, certifiedBar, Ended
  <2>4. CASE pos'.state \in TERMINAL_STATES
    <3>1. head' = head /\ certifiedBar' = certifiedBar /\ builtBar' = builtBar
      BY <1>1, <2>1, <2>4 DEF StepOf, HeadAfter, MovesHead, certifiedBar, builtBar, IInv, TypeOK, HeadFacts
    <3>2. pos.state = "land" => builtBar /\ certifiedBar
      BY <1>2 DEF IInv, HeadInv, UnbuiltInv, Paid, builtBar, certifiedBar
    <3>3. pos.state = "decline" => ~builtBar
      BY <1>2 DEF IInv, UnbuiltInv, Unpaid, builtBar, Position
    <3>4. exitBar' = pos'.state
      BY <2>4 DEF exitBar, Ended
    <3> QED
      BY <1>2, <2>1, <2>2, <2>4, <3>1, <3>2, <3>3, <3>4
      DEF Contract!Next, Contract!Merge, Contract!HandBack, Contract!Refuse,
          exitBar, builtBar, certifiedBar
  <2> QED
    BY <2>3, <2>4
<1>4. CASE pos' = To(pos, "handed-back")
  BY <1>2, <1>4, ToFacts
  DEF Contract!Next, Contract!HandBack, Ended, exitBar, builtBar, certifiedBar, LeanState,
      TERMINAL_STATES
<1> QED
  BY <1>1, <1>3, <1>4 DEF StepOf

\* Every step of the walk is a step of the contract, or changes nothing it can see.
LEMMA StepKeepsContract == IInv /\ IInv' /\ [Next]_vars => [Contract!Next]_(Contract!vars)
<1> SUFFICES ASSUME IInv, IInv', [Next]_vars PROVE [Contract!Next]_(Contract!vars)
  OBVIOUS
<1>1. CASE Steps
  BY <1>1, DecideKeepsContract
  DEF Steps, Ready, Specify, Build, Challenge, Verify, Publish, Review, Ci, Land,
      Handback, Decline, HANDLER_STATES, REPORT_STATES
<1>2. CASE HandlerFault \/ EngineStop
  <2>1. ~Ended /\ pos' = To(pos, "handed-back")
    BY <1>2 DEF HandlerFault, EngineStop
  <2>2. pos'.state = "handed-back" /\ pos'.buildAttempts = pos.buildAttempts
    BY <2>1, ToFacts DEF IInv, TypeOK, LeanState, TERMINAL_STATES
  <2> QED
    BY <2>1, <2>2
    DEF Contract!Next, Contract!HandBack, Ended, TERMINAL_STATES
<1>3. CASE UNCHANGED vars
  BY <1>3 DEF vars, Contract!vars, Ended
<1> QED
  BY <1>1, <1>2, <1>3 DEF Next

\* The detailed walk implements the abstract promise, for every cap.
THEOREM WalkKeepsContract == Spec => KeepsContract
<1>1. Init => Contract!Init
  BY DEF Init, InitialPosition, MovedHead, Contract!Init, Ended, TERMINAL_STATES
<1> QED
  BY <1>1, StepKeepsContract, Invariance, PTL DEF Spec, KeepsContract, Contract!Spec

-----------------------------------------------------------------------------
(* LeanLock *)

\* The inductive invariant.  LockExclusion alone is not inductive: a steal must be known to
\* take a dead owner's lock (Judged, OnlyTheDeadAreJudged), and a holder not to be dead.
DeadAreOut == \A p \in Procs : ~alive[p] => pc[p] = "dead"

Judged == \A p \in Procs : pc[p] \in {"judge", "steal"} => body[p] \in Procs

HolderIsOnFile == ~misfire => \A p \in Procs : Holds(p) => lock = p

LockIInv == LockTypeOK /\ DeadAreOut /\ Judged /\ OnlyTheDeadAreJudged /\ HolderIsOnFile

\* The initial state satisfies the invariant: no lock, nobody judging.
LEMMA LockInitially == LockInit => LockIInv
<1> SUFFICES ASSUME LockInit PROVE LockIInv
  OBVIOUS
<1>1. LockTypeOK
  <2>1. "idle" \in PCs /\ 0 \in 0..1
    BY DEF PCs
  <2>2. alive \in [Procs -> BOOLEAN] /\ misfire \in BOOLEAN
    BY Zenon DEF LockInit
  <2> QED
    BY <2>1, <2>2 DEF LockInit, LockTypeOK
<1>2. DeadAreOut
  BY DEF LockInit, DeadAreOut
<1>3. Judged /\ OnlyTheDeadAreJudged
  BY DEF LockInit, Judged, OnlyTheDeadAreJudged
<1>4. HolderIsOnFile
  BY DEF LockInit, HolderIsOnFile, Holds
<1> QED
  BY <1>1, <1>2, <1>3, <1>4 DEF LockIInv

\* A call's locals, after a step that touches at most one process's.
LocalsOf(p) ==
  /\ attempt' \in [Procs -> 0..1]
  /\ body' \in [Procs -> Procs \cup {NoLock}]
  /\ \A q \in Procs \ {p} : body'[q] = body[q]

\* A call that returns leaves the locals of the others alone (lock.ts:72-102).
LEMMA Forgetting ==
  ASSUME LockTypeOK, NEW p \in Procs, Forget(p)
  PROVE  LocalsOf(p)
BY DEF LockTypeOK, Forget, LocalsOf

\* So does a step of a call that keeps its own.
LEMMA Keeping ==
  ASSUME LockTypeOK, NEW p \in Procs, UNCHANGED <<attempt, body>>
  PROVE  LocalsOf(p)
BY DEF LockTypeOK, LocalsOf

\* LockMoves that leave the file and the living alone keep the invariant when they reach
\* neither the judge, the steal, nor a holder's place (lock.ts:72-102).
LEMMA LockMoves ==
  ASSUME LockIInv, NEW p \in Procs, NEW from \in PCs, NEW to \in {"idle", "link", "read"},
         Goto(p, from, to), from # "dead", LocalsOf(p),
         UNCHANGED <<lock, alive, misfire>>
  PROVE  LockIInv'
<1> USE DEF LockIInv, Goto, Holds, LocalsOf
<1>1. LockTypeOK'
  BY DEF LockTypeOK, PCs
<1>2. DeadAreOut'
  BY DEF DeadAreOut, LockTypeOK
<1>3. Judged'
  BY DEF Judged, LockTypeOK
<1>4. OnlyTheDeadAreJudged'
  BY DEF OnlyTheDeadAreJudged, LockTypeOK
<1>5. HolderIsOnFile'
  BY DEF HolderIsOnFile, LockTypeOK
<1> QED
  BY <1>1, <1>2, <1>3, <1>4, <1>5

\* Every step of any process keeps the invariant.
LEMMA LockNextIInv == LockIInv /\ [LockNext]_lockVars => LockIInv'
<1> SUFFICES ASSUME LockIInv, [LockNext]_lockVars PROVE LockIInv'
  OBVIOUS
<1> USE LockAssumption
<1>0. CASE UNCHANGED lockVars
  BY <1>0 DEF lockVars, LockIInv, LockTypeOK, DeadAreOut, Judged, OnlyTheDeadAreJudged, HolderIsOnFile, Holds
<1>1. ASSUME NEW p \in Procs, Acquire(p) PROVE LockIInv'
  BY <1>1, LockMoves, Keeping DEF Acquire, PCs, LockIInv
<1>2. ASSUME NEW p \in Procs, Link(p) PROVE LockIInv'
  <2> USE <1>2 DEF Link, Goto, LockIInv, Holds
  <2>0. LocalsOf(p)
    BY Forgetting
  <2> USE <2>0 DEF LocalsOf
  <2>1. LockTypeOK'
    BY DEF LockTypeOK, PCs
  <2>2. DeadAreOut'
    BY DEF DeadAreOut, LockTypeOK
  <2>3. Judged'
    BY DEF Judged, LockTypeOK
  <2>4. OnlyTheDeadAreJudged'
    BY DEF OnlyTheDeadAreJudged, LockTypeOK
  <2>5. HolderIsOnFile'
    BY DEF HolderIsOnFile, LockTypeOK
  <2> QED
    BY <2>1, <2>2, <2>3, <2>4, <2>5
<1>3. ASSUME NEW p \in Procs, LinkExists(p) PROVE LockIInv'
  BY <1>3, LockMoves, Keeping DEF LinkExists, PCs, LockIInv
<1>4. ASSUME NEW p \in Procs, Read(p) PROVE LockIInv'
  <2> USE <1>4 DEF Read, Goto, LockIInv, Holds
  <2>1. LockTypeOK'
    BY DEF LockTypeOK, PCs
  <2>2. DeadAreOut'
    BY DEF DeadAreOut, LockTypeOK
  <2>3. Judged'
    BY DEF Judged, LockTypeOK
  <2>4. OnlyTheDeadAreJudged'
    BY DEF OnlyTheDeadAreJudged, LockTypeOK
  <2>5. HolderIsOnFile'
    BY DEF HolderIsOnFile, LockTypeOK
  <2> QED
    BY <2>1, <2>2, <2>3, <2>4, <2>5
<1>5. ASSUME NEW p \in Procs, ReadNothing(p) PROVE LockIInv'
  BY <1>5, LockMoves, Forgetting DEF ReadNothing, PCs, LockIInv
<1>6. ASSUME NEW p \in Procs, JudgeDead(p) PROVE LockIInv'
  <2> USE <1>6 DEF JudgeDead, Goto, LockIInv, Holds
  <2>1. LockTypeOK'
    BY DEF LockTypeOK, PCs
  <2>2. DeadAreOut'
    BY DEF DeadAreOut, LockTypeOK
  <2>3. Judged'
    BY DEF Judged, LockTypeOK
  <2>4. OnlyTheDeadAreJudged'
    BY DEF OnlyTheDeadAreJudged, LockTypeOK, ProvedDead
  <2>5. HolderIsOnFile'
    BY DEF HolderIsOnFile, LockTypeOK
  <2> QED
    BY <2>1, <2>2, <2>3, <2>4, <2>5
<1>7. ASSUME NEW p \in Procs, JudgeRefuse(p) PROVE LockIInv'
  BY <1>7, LockMoves, Forgetting DEF JudgeRefuse, PCs, LockIInv
<1>8. ASSUME NEW p \in Procs, Steal(p) PROVE LockIInv'
  <2> USE <1>8 DEF Steal, Goto, LockIInv, Holds
  <2>0. pc[p] = "steal" /\ ~alive[body[p]] /\ body[p] \in Procs
    BY DEF Judged, OnlyTheDeadAreJudged
  <2>00. LocalsOf(p)
    BY Forgetting DEF LockTypeOK, LocalsOf
  <2> USE <2>00 DEF LocalsOf
  <2>1. LockTypeOK'
    BY DEF LockTypeOK, PCs
  <2>2. DeadAreOut'
    BY DEF DeadAreOut, LockTypeOK
  <2>3. Judged'
    BY DEF Judged, LockTypeOK
  <2>4. OnlyTheDeadAreJudged'
    BY DEF OnlyTheDeadAreJudged, LockTypeOK
  <2>5. HolderIsOnFile'
    <3> SUFFICES ASSUME ~misfire', NEW q \in Procs, Holds(q)' PROVE FALSE
      BY DEF HolderIsOnFile
    <3>1. Holds(q) /\ ~misfire /\ lock \in {NoLock, body[p]}
      BY DEF LockTypeOK
    <3>2. q = body[p]
      BY <3>1 DEF HolderIsOnFile
    <3> QED
      BY <2>0, <3>1, <3>2 DEF DeadAreOut
  <2> QED
    BY <2>1, <2>2, <2>3, <2>4, <2>5
<1>9. ASSUME NEW p \in Procs, EndDrive(p) PROVE LockIInv'
  <2> USE <1>9 DEF EndDrive, Goto, LockIInv, Holds
  <2>1. LockTypeOK' /\ DeadAreOut'
    BY DEF LockTypeOK, PCs, DeadAreOut
  <2>2. Judged' /\ OnlyTheDeadAreJudged'
    BY DEF Judged, OnlyTheDeadAreJudged, LockTypeOK
  <2>3. HolderIsOnFile'
    BY DEF HolderIsOnFile, LockTypeOK
  <2> QED
    BY <2>1, <2>2, <2>3
<1>10. ASSUME NEW p \in Procs, ReleaseRead(p) PROVE LockIInv'
  <2> USE <1>10 DEF ReleaseRead, Goto, LockIInv, Holds
  <2>1. LockTypeOK' /\ DeadAreOut'
    BY DEF LockTypeOK, PCs, DeadAreOut
  <2>2. Judged' /\ OnlyTheDeadAreJudged'
    BY DEF Judged, OnlyTheDeadAreJudged, LockTypeOK
  <2>3. HolderIsOnFile'
    BY DEF HolderIsOnFile, LockTypeOK
  <2> QED
    BY <2>1, <2>2, <2>3
<1>11. ASSUME NEW p \in Procs, Unlink(p) PROVE LockIInv'
  <2> USE <1>11 DEF Unlink, Goto, LockIInv, Holds
  <2>1. LockTypeOK' /\ DeadAreOut'
    BY DEF LockTypeOK, PCs, DeadAreOut
  <2>2. Judged' /\ OnlyTheDeadAreJudged'
    BY DEF Judged, OnlyTheDeadAreJudged, LockTypeOK
  <2>3. HolderIsOnFile'
    <3> SUFFICES ASSUME ~misfire, NEW q \in Procs, Holds(q)' PROVE FALSE
      BY DEF HolderIsOnFile
    <3>1. q # p /\ Holds(q) /\ Holds(p)
      BY DEF LockTypeOK
    <3> QED
      BY <3>1 DEF HolderIsOnFile
  <2> QED
    BY <2>1, <2>2, <2>3
<1>12. ASSUME NEW p \in Procs, Die(p) PROVE LockIInv'
  <2> USE <1>12 DEF Die, LockIInv, Holds
  <2>0. LocalsOf(p)
    BY Forgetting
  <2> USE <2>0 DEF LocalsOf
  <2>1. LockTypeOK'
    BY DEF LockTypeOK, PCs
  <2>2. DeadAreOut'
    BY DEF DeadAreOut, LockTypeOK
  <2>3. Judged'
    BY DEF Judged, LockTypeOK
  <2>4. OnlyTheDeadAreJudged'
    BY DEF OnlyTheDeadAreJudged, Judged, LockTypeOK
  <2>5. HolderIsOnFile'
    BY DEF HolderIsOnFile, LockTypeOK
  <2> QED
    BY <2>1, <2>2, <2>3, <2>4, <2>5
<1> QED
  BY <1>0, <1>1, <1>2, <1>3, <1>4, <1>5, <1>6, <1>7, <1>8, <1>9, <1>10, <1>11, <1>12
  DEF LockNext, Acquiring, Releasing

\* The invariant holds in every reachable state.
LEMMA LockInvariance == LockSpec => []LockIInv
BY LockInitially, LockNextIInv, PTL DEF LockSpec

\* Every reachable state is well typed; in particular no caller makes a third attempt.
THEOREM LockTyping == LockSpec => []LockTypeOK
<1>1. LockIInv => LockTypeOK
  BY DEF LockIInv
<1> QED
  BY <1>1, LockInvariance, PTL

\* Links, refusals, releases and crashes, in any order and number, never let two runs hold
\* one issue; only a rename of another lock than the one judged can (lock.ts:72-182).
THEOREM LockExclusion == LockSpec => []ExclusiveUnlessMisfire
<1>1. LockIInv => ExclusiveUnlessMisfire
  BY DEF LockIInv, HolderIsOnFile, ExclusiveUnlessMisfire, MutualExclusion
<1> QED
  BY <1>1, LockInvariance, PTL

\* A caller about to steal has read the lock of a dead process of its own host.
THEOREM DeadOnly == LockSpec => []OnlyTheDeadAreJudged
<1>1. LockIInv => OnlyTheDeadAreJudged
  BY DEF LockIInv
<1> QED
  BY <1>1, LockInvariance, PTL

\* No step but the owner's own unlink takes a live owner's lock away, short of a misfire.
THEOREM LivingKeepTheirs == LockSpec => LiveLockStays
<1> DEFINE Stay == lock # NoLock /\ lock' # lock /\ ~misfire' => ~alive[lock] \/ pc[lock] = "unlink"
<1>1. LockIInv /\ [LockNext]_lockVars => [Stay]_lockVars
  <2> SUFFICES ASSUME LockIInv, LockNext, lock # NoLock, lock' # lock, ~misfire'
               PROVE  ~alive[lock] \/ pc[lock] = "unlink"
    OBVIOUS
  <2>1. PICK p \in Procs : Steal(p) \/ Unlink(p)
    BY DEF LockNext, Acquire, Acquiring, Releasing, EndDrive, Die, Link, LinkExists, Read,
           ReadNothing, JudgeDead, JudgeRefuse, ReleaseRead
  <2>2. CASE Steal(p)
    BY <2>2 DEF Steal, LockIInv, OnlyTheDeadAreJudged, LockTypeOK
  <2>3. CASE Unlink(p)
    BY <2>3 DEF Unlink, Goto, LockIInv, HolderIsOnFile, Holds, LockTypeOK
  <2> QED
    BY <2>1, <2>2, <2>3
<1> QED
  BY <1>1, LockInvariance, PTL DEF LockSpec, LiveLockStays
=============================================================================
