---------------------------- MODULE LeanMachine ----------------------------
(***************************************************************************)
(* The transition table of a lean run (lean/machine.ts, lean/transitions.ts)*)
(* as constant-level operators: no variable, no recursion.                 *)
(*                                                                         *)
(* A position is one flat record: the state the run stands in and the five *)
(* counters the table reads (RunCounters in lean/state.ts).                *)
(***************************************************************************)
EXTENDS Integers

CONSTANT MAX_BUILD_ATTEMPTS      \* 3 in lean/machine.ts

ASSUME MaxAssumption == MAX_BUILD_ATTEMPTS \in Nat \ {0}

-----------------------------------------------------------------------------
(* States, outcome kinds, counters *)

REPORT_STATES   == {"handback", "decline"}
HANDLER_STATES  == {"ready", "specify", "build", "challenge", "verify", "publish",
                    "review", "ci", "land"} \cup REPORT_STATES
TERMINAL_STATES == {"landed", "handed-back", "not-ready"}
LeanState       == HANDLER_STATES \cup TERMINAL_STATES

OUTCOME_KINDS ==
  [ ready     |-> {"ok", "fail"},
    specify   |-> {"ok", "no-red-test", "budget"},
    build     |-> {"ok", "exhausted", "budget", "blocked"},
    challenge |-> {"new-tests", "none", "budget"},
    verify    |-> {"green", "red"},
    publish   |-> {"ok"},
    review    |-> {"done", "fixed"},
    ci        |-> {"green", "red"},
    land      |-> {"merged", "refused"},
    handback  |-> {"done"},
    decline   |-> {"done", "report-failed"} ]

Kinds == {"ok", "fail", "no-red-test", "budget", "exhausted", "blocked", "new-tests",
          "none", "green", "red", "done", "fixed", "merged", "refused", "report-failed"}

Undecided == "undecided"        \* a step written ahead that has no outcome
ErrorKind == "error"            \* a throw, or a kind the table does not list

HasTransition(s, kind) == s \in HANDLER_STATES /\ kind \in OUTCOME_KINDS[s]

exitCodeFor(s) == CASE s = "landed" -> 0 [] s = "handed-back" -> 10 [] s = "not-ready" -> 11

Position == [ state : LeanState, buildAttempts : Nat, challengeDone : BOOLEAN,
              reviewDone : BOOLEAN, ciFixUsed : BOOLEAN, draft : BOOLEAN ]

InitialPosition ==
  [ state |-> "ready", buildAttempts |-> 0, challengeDone |-> FALSE,
    reviewDone |-> FALSE, ciFixUsed |-> FALSE, draft |-> FALSE ]

-----------------------------------------------------------------------------
(* The table.  To keeps the counters, ViaBuild bills one build round; a      *)
(* patch of the counters is an EXCEPT around either.                         *)
(*                                                                           *)
(* An operator named Bug... is a seeded fault: nothing uses it but the       *)
(* mutants PROJECT.json lists, which put it in place of the definition that  *)
(* follows it to see a property fail.                                        *)

To(p, s)       == [p EXCEPT !.state = s]
ViaBuild(p, s) == [p EXCEPT !.state = s, !.buildAttempts = @ + 1]

UnderCap(p) == p.buildAttempts < MAX_BUILD_ATTEMPTS

AfterReady(p, kind) == To(p, IF kind = "ok" THEN "specify" ELSE "decline")

AfterSpecify(p, kind) ==
  CASE kind = "ok"          -> ViaBuild(p, "build")
    [] kind = "budget"      -> To(p, "handback")
    [] kind = "no-red-test" -> To(p, "decline")

AfterBuild(p, kind) ==
  CASE kind \in {"ok", "budget"} ->
         To(p, IF UnderCap(p) /\ ~p.challengeDone THEN "challenge" ELSE "verify")
    [] kind = "blocked"   -> To(p, "handback")
    [] kind = "exhausted" ->
         IF p.draft THEN To(p, "handback")
         ELSE [ViaBuild(p, "publish") EXCEPT !.draft = TRUE]

AfterChallenge(p, kind) ==
  IF kind = "new-tests" /\ ~p.challengeDone /\ UnderCap(p)
  THEN [ViaBuild(p, "build") EXCEPT !.challengeDone = TRUE]
  ELSE [To(p, "verify") EXCEPT !.challengeDone = TRUE]

AfterVerify(p, kind) ==
  CASE kind = "green" -> [To(p, "publish") EXCEPT !.draft = FALSE]
    [] kind = "red"   -> IF ~p.ciFixUsed /\ UnderCap(p)
                         THEN [ViaBuild(p, "build") EXCEPT !.draft = TRUE]
                         ELSE To(p, "handback")

AfterPublish(p, kind) == To(p, IF p.reviewDone THEN "ci" ELSE "review")

BugFixedSkipsVerify(p, kind) == [To(p, "ci") EXCEPT !.reviewDone = TRUE]

BugReviewUnmarked(p, kind) == To(p, IF kind = "done" THEN "ci" ELSE "verify")

AfterReview(p, kind) ==
  [To(p, IF kind = "done" THEN "ci" ELSE "verify") EXCEPT !.reviewDone = TRUE]

BugCiFixUnmarked(p, kind) ==
  CASE kind = "green" -> To(p, "land")
    [] kind = "red"   -> IF p.ciFixUsed THEN To(p, "handback") ELSE ViaBuild(p, "build")

AfterCi(p, kind) ==
  CASE kind = "green" -> To(p, "land")
    [] kind = "red"   -> IF p.ciFixUsed THEN To(p, "handback")
                         ELSE [ViaBuild(p, "build") EXCEPT !.ciFixUsed = TRUE]

AfterLand(p, kind) == To(p, IF kind = "merged" THEN "landed" ELSE "handback")

\* next(run, outcome): only asked of a pair HasTransition admits.
TableNext(p, kind) ==
  CASE p.state = "ready"     -> AfterReady(p, kind)
    [] p.state = "specify"   -> AfterSpecify(p, kind)
    [] p.state = "build"     -> AfterBuild(p, kind)
    [] p.state = "challenge" -> AfterChallenge(p, kind)
    [] p.state = "verify"    -> AfterVerify(p, kind)
    [] p.state = "publish"   -> AfterPublish(p, kind)
    [] p.state = "review"    -> AfterReview(p, kind)
    [] p.state = "ci"        -> AfterCi(p, kind)
    [] p.state = "land"      -> AfterLand(p, kind)
    [] p.state = "handback"  -> To(p, "handed-back")
    [] p.state = "decline"   -> To(p, "not-ready")

-----------------------------------------------------------------------------
(* The merge gate's reading of the log, and what is true of the branch's head *)

BugDraftMayLand(p, newest) == newest["verify"] = "green" /\ newest["ci"] = "green"

\* newest[s]: the newest decided kind of state s.
landEarned(p, newest) ==
  /\ ~p.draft
  /\ newest["verify"] = "green"
  /\ newest["ci"] = "green"

\* gated: the run's own gate called this head green; published: it is the head on
\* origin; piped: the pipeline called it green.
HeadFacts == [ gated : BOOLEAN, published : BOOLEAN, piped : BOOLEAN ]
MovedHead == [ gated |-> FALSE, published |-> FALSE, piped |-> FALSE ]

\* The steps that may commit to the branch: any that hands the tree to a child, a
\* review whose fix wave integrated commits, and a step that threw halfway.
MovesHead(s, kind) ==
  \/ s \in {"specify", "build", "challenge"}
  \/ s = "review" /\ kind = "fixed"
  \/ kind = ErrorKind

HeadAfter(h, s, kind) ==
  IF MovesHead(s, kind) THEN MovedHead
  ELSE [ gated     |-> IF s = "verify" THEN kind = "green" ELSE h.gated,
         published |-> h.published \/ s = "publish",
         piped     |-> IF s = "ci" THEN kind = "green" ELSE h.piped ]
=============================================================================
