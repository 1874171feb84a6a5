------------------------- MODULE LeanMachineProofs -------------------------
(***************************************************************************)
(* What each row of the transition table does, component by component: the *)
(* lemmas the proofs about walks of the table cite instead of the table.   *)
(***************************************************************************)
EXTENDS LeanMachine, TLAPS

-----------------------------------------------------------------------------
(* The two constructors and the counter patches *)

\* To changes the state and nothing else.
LEMMA ToFacts ==
  ASSUME NEW p \in Position, NEW s \in LeanState
  PROVE  LET q == To(p, s) IN
         /\ q \in Position
         /\ q.state = s
         /\ q.buildAttempts = p.buildAttempts
         /\ q.challengeDone = p.challengeDone
         /\ q.reviewDone = p.reviewDone
         /\ q.ciFixUsed = p.ciFixUsed
         /\ q.draft = p.draft
  BY DEF To, Position

\* ViaBuild changes the state and bills one round.
LEMMA ViaBuildFacts ==
  ASSUME NEW p \in Position, NEW s \in LeanState
  PROVE  LET q == ViaBuild(p, s) IN
         /\ q \in Position
         /\ q.state = s
         /\ q.buildAttempts = p.buildAttempts + 1
         /\ q.challengeDone = p.challengeDone
         /\ q.reviewDone = p.reviewDone
         /\ q.ciFixUsed = p.ciFixUsed
         /\ q.draft = p.draft
<1>1. ASSUME NEW n \in Nat
      PROVE  [p EXCEPT !.state = s, !.buildAttempts = n] \in Position
  BY DEF Position
<1>2. p.buildAttempts + 1 \in Nat
  BY DEF Position
<1>3. ViaBuild(p, s) \in Position
  BY <1>1, <1>2 DEF ViaBuild
<1> QED
  BY <1>3 DEF ViaBuild, Position

\* Setting one flag keeps the record a position and every other component.
LEMMA PatchFacts ==
  ASSUME NEW p \in Position, NEW b \in BOOLEAN
  PROVE  /\ [p EXCEPT !.draft = b] \in Position
         /\ [p EXCEPT !.challengeDone = b] \in Position
         /\ [p EXCEPT !.reviewDone = b] \in Position
         /\ [p EXCEPT !.ciFixUsed = b] \in Position
  BY DEF Position

-----------------------------------------------------------------------------
(* The rows *)

\* build: no round is billed but by an exhausted build, which ships a draft once.
LEMMA BuildRow ==
  ASSUME NEW p \in Position, NEW kind \in OUTCOME_KINDS["build"], p.state = "build"
  PROVE  LET q == TableNext(p, kind) IN
         /\ q \in Position
         /\ q.challengeDone = p.challengeDone
         /\ q.reviewDone = p.reviewDone
         /\ q.ciFixUsed = p.ciFixUsed
         /\ \/ /\ q.state \in {"challenge", "verify", "handback"}
               /\ q.state = "challenge" => ~p.challengeDone
               /\ q.buildAttempts = p.buildAttempts
               /\ q.draft = p.draft
            \/ /\ q.state = "publish" /\ ~p.draft /\ q.draft
               /\ q.buildAttempts = p.buildAttempts + 1
<1> DEFINE r == ViaBuild(p, "publish")
<1>1. CASE kind \in {"ok", "budget", "blocked"} \/ p.draft
  <2>1. PICK s \in {"challenge", "verify", "handback"} :
          TableNext(p, kind) = To(p, s) /\ (s = "challenge" => ~p.challengeDone)
    BY <1>1 DEF TableNext, AfterBuild, OUTCOME_KINDS
  <2>2. s \in LeanState
    BY DEF LeanState, HANDLER_STATES, REPORT_STATES
  <2> QED
    BY <2>1, <2>2, ToFacts
<1>2. CASE kind = "exhausted" /\ ~p.draft
  <2>1. /\ r \in Position
        /\ r.state = "publish"
        /\ r.buildAttempts = p.buildAttempts + 1
        /\ r.challengeDone = p.challengeDone /\ r.reviewDone = p.reviewDone
        /\ r.ciFixUsed = p.ciFixUsed
    BY ViaBuildFacts DEF LeanState, HANDLER_STATES
  <2>2. TableNext(p, kind) = [r EXCEPT !.draft = TRUE]
    BY <1>2 DEF TableNext, AfterBuild
  <2> HIDE DEF r
  <2>3. [r EXCEPT !.draft = TRUE] \in Position
    BY <2>1, PatchFacts
  <2> QED
    BY <1>2, <2>1, <2>2, <2>3 DEF Position
<1> QED
  BY <1>1, <1>2 DEF OUTCOME_KINDS

\* challenge: the round is spent; its new tests may buy a build.
LEMMA ChallengeRow ==
  ASSUME NEW p \in Position, NEW kind \in OUTCOME_KINDS["challenge"], p.state = "challenge"
  PROVE  LET q == TableNext(p, kind) IN
         /\ q \in Position
         /\ q.challengeDone
         /\ q.reviewDone = p.reviewDone
         /\ q.ciFixUsed = p.ciFixUsed
         /\ q.draft = p.draft
         /\ \/ /\ q.state = "verify"
               /\ q.buildAttempts = p.buildAttempts
            \/ /\ q.state = "build" /\ UnderCap(p)
               /\ q.buildAttempts = p.buildAttempts + 1
<1> DEFINE r == ViaBuild(p, "build")
           v == To(p, "verify")
<1>1. "build" \in LeanState /\ "verify" \in LeanState
  BY DEF LeanState, HANDLER_STATES
<1>2. \/ TableNext(p, kind) = [r EXCEPT !.challengeDone = TRUE] /\ UnderCap(p)
      \/ TableNext(p, kind) = [v EXCEPT !.challengeDone = TRUE]
  BY DEF TableNext, AfterChallenge
<1>3. /\ r \in Position /\ r.state = "build"
      /\ r.buildAttempts = p.buildAttempts + 1
      /\ r.reviewDone = p.reviewDone /\ r.ciFixUsed = p.ciFixUsed /\ r.draft = p.draft
  BY <1>1, ViaBuildFacts
<1>4. /\ v \in Position /\ v.state = "verify"
      /\ v.buildAttempts = p.buildAttempts
      /\ v.reviewDone = p.reviewDone /\ v.ciFixUsed = p.ciFixUsed /\ v.draft = p.draft
  BY <1>1, ToFacts
<1> HIDE DEF r, v
<1>5. /\ [r EXCEPT !.challengeDone = TRUE] \in Position
      /\ [v EXCEPT !.challengeDone = TRUE] \in Position
  BY <1>3, <1>4, PatchFacts
<1>6. CASE TableNext(p, kind) = [r EXCEPT !.challengeDone = TRUE] /\ UnderCap(p)
  BY <1>3, <1>5, <1>6 DEF Position
<1>7. CASE TableNext(p, kind) = [v EXCEPT !.challengeDone = TRUE]
  BY <1>4, <1>5, <1>7 DEF Position
<1> QED
  BY <1>2, <1>6, <1>7

\* verify: green publishes and clears the draft marker; red rebuilds under the cap,
\* but never after the CI fix round, and marks the run a draft.
LEMMA VerifyRow ==
  ASSUME NEW p \in Position, NEW kind \in OUTCOME_KINDS["verify"], p.state = "verify"
  PROVE  LET q == TableNext(p, kind) IN
         /\ q \in Position
         /\ q.challengeDone = p.challengeDone
         /\ q.reviewDone = p.reviewDone
         /\ q.ciFixUsed = p.ciFixUsed
         /\ \/ /\ kind = "green" /\ q.state = "publish" /\ ~q.draft
               /\ q.buildAttempts = p.buildAttempts
            \/ /\ kind = "red" /\ q.state = "build" /\ UnderCap(p) /\ q.draft
               /\ q.buildAttempts = p.buildAttempts + 1
            \/ /\ kind = "red" /\ q.state = "handback" /\ q.draft = p.draft
               /\ q.buildAttempts = p.buildAttempts
<1> DEFINE r == ViaBuild(p, "build")
           v == To(p, "publish")
           h == To(p, "handback")
<1>1. {"build", "publish", "handback"} \subseteq LeanState
  BY DEF LeanState, HANDLER_STATES, REPORT_STATES
<1>2. \/ kind = "green" /\ TableNext(p, kind) = [v EXCEPT !.draft = FALSE]
      \/ kind = "red" /\ UnderCap(p) /\ TableNext(p, kind) = [r EXCEPT !.draft = TRUE]
      \/ kind = "red" /\ TableNext(p, kind) = h
  BY DEF TableNext, AfterVerify, OUTCOME_KINDS
<1>3. /\ r \in Position /\ r.state = "build"
      /\ r.buildAttempts = p.buildAttempts + 1 /\ r.challengeDone = p.challengeDone
      /\ r.reviewDone = p.reviewDone /\ r.ciFixUsed = p.ciFixUsed
  BY <1>1, ViaBuildFacts
<1>4. /\ v \in Position /\ v.state = "publish"
      /\ v.buildAttempts = p.buildAttempts /\ v.challengeDone = p.challengeDone
      /\ v.reviewDone = p.reviewDone /\ v.ciFixUsed = p.ciFixUsed
  BY <1>1, ToFacts
<1>5. /\ h \in Position /\ h.state = "handback"
      /\ h.buildAttempts = p.buildAttempts /\ h.challengeDone = p.challengeDone
      /\ h.reviewDone = p.reviewDone /\ h.ciFixUsed = p.ciFixUsed /\ h.draft = p.draft
  BY <1>1, ToFacts
<1> HIDE DEF r, v, h
<1>6. /\ [r EXCEPT !.draft = TRUE] \in Position
      /\ [v EXCEPT !.draft = FALSE] \in Position
  BY <1>3, <1>4, PatchFacts
<1>7. CASE kind = "green" /\ TableNext(p, kind) = [v EXCEPT !.draft = FALSE]
  BY <1>4, <1>6, <1>7 DEF Position
<1>8. CASE kind = "red" /\ UnderCap(p) /\ TableNext(p, kind) = [r EXCEPT !.draft = TRUE]
  BY <1>3, <1>6, <1>8 DEF Position
<1>9. CASE kind = "red" /\ TableNext(p, kind) = h
  BY <1>5, <1>9 DEF Position
<1> QED
  BY <1>2, <1>7, <1>8, <1>9

\* review: both kinds spend it; a fix goes back through verify, never on to ci.
LEMMA ReviewRow ==
  ASSUME NEW p \in Position, NEW kind \in OUTCOME_KINDS["review"], p.state = "review"
  PROVE  LET q == TableNext(p, kind) IN
         /\ q \in Position
         /\ q.state = IF kind = "done" THEN "ci" ELSE "verify"
         /\ q.reviewDone
         /\ q.buildAttempts = p.buildAttempts
         /\ q.challengeDone = p.challengeDone
         /\ q.ciFixUsed = p.ciFixUsed
         /\ q.draft = p.draft
<1> DEFINE s == IF kind = "done" THEN "ci" ELSE "verify"
           v == To(p, s)
<1>1. s \in LeanState
  BY DEF LeanState, HANDLER_STATES
<1>2. TableNext(p, kind) = [v EXCEPT !.reviewDone = TRUE]
  BY DEF TableNext, AfterReview
<1> HIDE DEF s
<1>3. /\ v \in Position /\ v.state = s
      /\ v.buildAttempts = p.buildAttempts /\ v.challengeDone = p.challengeDone
      /\ v.ciFixUsed = p.ciFixUsed /\ v.draft = p.draft
  BY <1>1, ToFacts
<1> HIDE DEF v
<1>4. [v EXCEPT !.reviewDone = TRUE] \in Position
  BY <1>3, PatchFacts
<1>5. TableNext(p, kind).state = s
  BY <1>2, <1>3, <1>4 DEF Position
<1> QED
  BY <1>2, <1>3, <1>4, <1>5 DEF Position, s

\* ci: green goes to land; red buys the one fix round, whatever the cap says.
LEMMA CiRow ==
  ASSUME NEW p \in Position, NEW kind \in OUTCOME_KINDS["ci"], p.state = "ci"
  PROVE  LET q == TableNext(p, kind) IN
         /\ q \in Position
         /\ q.challengeDone = p.challengeDone
         /\ q.reviewDone = p.reviewDone
         /\ q.draft = p.draft
         /\ \/ /\ kind = "green" /\ q.state = "land"
               /\ q.buildAttempts = p.buildAttempts /\ q.ciFixUsed = p.ciFixUsed
            \/ /\ kind = "red" /\ q.state = "build" /\ ~p.ciFixUsed /\ q.ciFixUsed
               /\ q.buildAttempts = p.buildAttempts + 1
            \/ /\ kind = "red" /\ q.state = "handback"
               /\ q.buildAttempts = p.buildAttempts /\ q.ciFixUsed = p.ciFixUsed
<1> DEFINE r == ViaBuild(p, "build")
<1>1. {"build", "land", "handback"} \subseteq LeanState
  BY DEF LeanState, HANDLER_STATES, REPORT_STATES
<1>2. \/ kind = "green" /\ TableNext(p, kind) = To(p, "land")
      \/ kind = "red" /\ ~p.ciFixUsed /\ TableNext(p, kind) = [r EXCEPT !.ciFixUsed = TRUE]
      \/ kind = "red" /\ TableNext(p, kind) = To(p, "handback")
  BY DEF TableNext, AfterCi, OUTCOME_KINDS
<1>3. /\ r \in Position /\ r.state = "build"
      /\ r.buildAttempts = p.buildAttempts + 1 /\ r.challengeDone = p.challengeDone
      /\ r.reviewDone = p.reviewDone /\ r.draft = p.draft
  BY <1>1, ViaBuildFacts
<1> HIDE DEF r
<1>4. [r EXCEPT !.ciFixUsed = TRUE] \in Position
  BY <1>3, PatchFacts
<1>5. CASE kind = "red" /\ ~p.ciFixUsed /\ TableNext(p, kind) = [r EXCEPT !.ciFixUsed = TRUE]
  BY <1>3, <1>4, <1>5 DEF Position
<1>6. CASE kind = "green" /\ TableNext(p, kind) = To(p, "land")
  BY <1>1, <1>6, ToFacts
<1>7. CASE kind = "red" /\ TableNext(p, kind) = To(p, "handback")
  BY <1>1, <1>7, ToFacts
<1> QED
  BY <1>2, <1>5, <1>6, <1>7

\* Where the rows that never patch a counter may lead.
PlainTargets ==
  [ ready |-> {"specify", "decline"}, specify |-> {"handback", "decline"},
    publish |-> {"ci", "review"}, land |-> {"landed", "handback"},
    handback |-> {"handed-back"}, decline |-> {"not-ready"} ]

PlainStates == {"ready", "specify", "publish", "land", "handback", "decline"}

\* The plain rows keep every counter, specify + ok apart, which dispatches the first
\* build; publish goes to review exactly when the run was not reviewed yet, and land
\* reaches landed only by merged.
LEMMA PlainRow ==
  ASSUME NEW p \in Position, p.state \in PlainStates, NEW kind \in OUTCOME_KINDS[p.state]
  PROVE  LET q == TableNext(p, kind) IN
         /\ q \in Position
         /\ q.challengeDone = p.challengeDone
         /\ q.reviewDone = p.reviewDone
         /\ q.ciFixUsed = p.ciFixUsed
         /\ q.draft = p.draft
         /\ \/ /\ q.state \in PlainTargets[p.state]
               /\ q.buildAttempts = p.buildAttempts
               /\ q.state = "review" => ~p.reviewDone
            \/ /\ p.state = "specify" /\ q.state = "build"
               /\ q.buildAttempts = p.buildAttempts + 1
<1>1. CASE p.state = "specify" /\ kind = "ok"
  <2>1. TableNext(p, kind) = ViaBuild(p, "build")
    BY <1>1 DEF TableNext, AfterSpecify
  <2>2. "build" \in LeanState
    BY DEF LeanState, HANDLER_STATES
  <2> QED
    BY <1>1, <2>1, <2>2, ViaBuildFacts
<1>2. CASE ~(p.state = "specify" /\ kind = "ok")
  <2>1. PICK s \in PlainTargets[p.state] :
          TableNext(p, kind) = To(p, s) /\ (s = "review" => ~p.reviewDone)
    <3>1. CASE p.state = "ready"
      BY <3>1 DEF TableNext, AfterReady, PlainTargets
    <3>2. CASE p.state = "specify"
      BY <1>2, <3>2 DEF TableNext, AfterSpecify, PlainTargets, OUTCOME_KINDS
    <3>3. CASE p.state = "publish"
      BY <3>3 DEF TableNext, AfterPublish, PlainTargets
    <3>4. CASE p.state = "land"
      BY <3>4 DEF TableNext, AfterLand, PlainTargets
    <3>5. CASE p.state = "handback"
      BY <3>5 DEF TableNext, PlainTargets
    <3>6. CASE p.state = "decline"
      BY <3>6 DEF TableNext, PlainTargets
    <3> QED
      BY <3>1, <3>2, <3>3, <3>4, <3>5, <3>6 DEF PlainStates
  <2>2. s \in LeanState
    BY DEF PlainTargets, PlainStates, LeanState, HANDLER_STATES, REPORT_STATES, TERMINAL_STATES
  <2> QED
    BY <2>1, <2>2, ToFacts
<1> QED
  BY <1>1, <1>2

\* What every row of the table has in common: it never un-bills a round, only a green
\* verify clears the draft marker, and only three rows lead to an end.
LEMMA RowSummary ==
  ASSUME NEW p \in Position, p.state \in HANDLER_STATES, NEW kind \in OUTCOME_KINDS[p.state]
  PROVE  LET q == TableNext(p, kind) IN
         /\ q \in Position
         /\ q.buildAttempts >= p.buildAttempts
         /\ p.draft /\ ~q.draft => p.state = "verify" /\ kind = "green"
         /\ q.state \in TERMINAL_STATES =>
               /\ \/ p.state = "land" /\ q.state = "landed"
                  \/ p.state = "handback" /\ q.state = "handed-back"
                  \/ p.state = "decline" /\ q.state = "not-ready"
               /\ q.buildAttempts = p.buildAttempts /\ q.draft = p.draft
<1> USE DEF Position, TERMINAL_STATES
<1>1. CASE p.state \in PlainStates
  BY <1>1, PlainRow DEF PlainStates, PlainTargets
<1>2. CASE p.state = "build"
  BY <1>2, BuildRow
<1>3. CASE p.state = "challenge"
  BY <1>3, ChallengeRow
<1>4. CASE p.state = "verify"
  BY <1>4, VerifyRow
<1>5. CASE p.state = "review"
  BY <1>5, ReviewRow
<1>6. CASE p.state = "ci"
  BY <1>6, CiRow
<1> QED
  BY <1>1, <1>2, <1>3, <1>4, <1>5, <1>6 DEF HANDLER_STATES, REPORT_STATES, PlainStates
=============================================================================
