------------------------------ MODULE LeanWalk ------------------------------
(***************************************************************************)
(* A lean run as its record tells it: the walk of the table, one action    *)
(* per state's handler, with the engine's own endings.  Crashes, the file  *)
(* and the write-ahead are LeanEngine's; a crash does not show here,       *)
(* because only a decided step is part of the walk.                        *)
(*                                                                         *)
(* The step log is kept as what the engine and the properties read of it:  *)
(* its length, the build steps decided, and the newest decided kind of     *)
(* every state (newestDecided).                                            *)
(***************************************************************************)
EXTENDS LeanMachine

VARIABLES pos,    \* where the walk stands, with its counters
          log,    \* [length, builds, newest] of the decided steps
          head    \* what is known of the branch's head (history variable)

vars == <<pos, log, head>>

LogSummary ==
  [ length : Nat, builds : Nat,
    newest : [HANDLER_STATES -> Kinds \cup {Undecided, ErrorKind}] ]

TypeOK == pos \in Position /\ log \in LogSummary /\ head \in HeadFacts

Ended == pos.state \in TERMINAL_STATES

Init ==
  /\ pos = InitialPosition
  /\ log = [ length |-> 0, builds |-> 0,
             newest |-> [s \in HANDLER_STATES |-> Undecided] ]
  /\ head = MovedHead

-----------------------------------------------------------------------------
(* One decided step *)

\* withOutcome, on the summary.
Logged(kind) ==
  [ length |-> log.length + 1,
    builds |-> log.builds + (IF pos.state = "build" THEN 1 ELSE 0),
    newest |-> [log.newest EXCEPT ![pos.state] = kind] ]

Settles(kind) == log' = Logged(kind) /\ head' = HeadAfter(head, pos.state, kind)

\* apply(): the table's move, saved ...
Advance(kind) ==
  LET q == TableNext(pos, kind) IN
  /\ q.state = "land" => /\ pos.state = "ci" /\ kind = "green"
                         /\ landEarned(pos, Logged(kind).newest)
  /\ pos' = q

\* ... or its arrival at land refused, which ends the run where it stands.
RefuseLand(kind) ==
  /\ TableNext(pos, kind).state = "land"
  /\ ~ /\ pos.state = "ci" /\ kind = "green"
       /\ landEarned(pos, Logged(kind).newest)
  /\ pos' = To(pos, "handed-back")

Decide(s) ==
  /\ pos.state = s
  /\ \E kind \in OUTCOME_KINDS[s] :
        Settles(kind) /\ (Advance(kind) \/ RefuseLand(kind))

Ready     == Decide("ready")
Specify   == Decide("specify")
Build     == Decide("build")
Challenge == Decide("challenge")
Verify    == Decide("verify")
Publish   == Decide("publish")
Review    == Decide("review")
Ci        == Decide("ci")
Land      == Decide("land")
Handback  == Decide("handback")
Decline   == Decide("decline")

\* A handler threw, or returned a kind its state has no arrow for.
HandlerFault ==
  /\ ~Ended
  /\ log' = Logged(ErrorKind)
  /\ head' = HeadAfter(head, pos.state, ErrorKind)
  /\ pos' = To(pos, "handed-back")

\* The deadline, the step cap or a missing handler: no step is decided.
EngineStop ==
  /\ ~Ended
  /\ pos' = To(pos, "handed-back")
  /\ UNCHANGED <<log, head>>

Steps == \/ Ready \/ Specify \/ Build \/ Challenge \/ Verify \/ Publish
         \/ Review \/ Ci \/ Land \/ Handback \/ Decline

Next == Steps \/ HandlerFault \/ EngineStop

Spec == Init /\ [][Next]_vars

-----------------------------------------------------------------------------
(* Properties *)

\* The merge gate: a run stands at land, or has landed, only over a head the gate
\* called green, that is the head published, and that the pipeline called green,
\* with nothing committed to the branch since any of the three.  The engine itself
\* only compares the NEWEST verdicts; that those are verdicts about the current
\* head is what the table's routing of review-fixed and of fix rounds must give.
LandOnlyOverCertifiedHead ==
  pos.state \in {"land", "landed"} =>
    ~pos.draft /\ head.gated /\ head.published /\ head.piped

\* The pipeline is only ever asked about the published head, and unless the PR is
\* marked draft, about a head the run's own gate called green.
CiJudgesPublishedHead ==
  pos.state = "ci" => head.published /\ (pos.draft \/ head.gated)

\* The challenge and the six-lens review run at most once per run, whatever fix
\* rounds follow them.
OptionalStepsRunOnce ==
  \A s \in {"challenge", "review"} : pos.state = s => log.newest[s] = Undecided

\* A refusal to build (exit 11) is never said of a run that paid a builder.
RefusalMeansNothingBuilt ==
  pos.state \in {"decline", "not-ready"} => pos.buildAttempts = 0 /\ log.builds = 0

\* Build rounds: the cap, plus the single round a red CI earns.  The counter may
\* read two more, for each exhausted build that shipped a draft.
BuildRoundsBounded ==
  /\ log.builds <= MAX_BUILD_ATTEMPTS + 1
  /\ pos.buildAttempts <= MAX_BUILD_ATTEMPTS + 3

\* The table terminates by itself: a walk decides at most 3*MAX + 19 steps, so with
\* MAX_BUILD_ATTEMPTS = 3 the engine's step cap (100) never ends a run.
WalkBounded == log.length <= 3 * MAX_BUILD_ATTEMPTS + 19

\* Green is the only verdict that clears a draft marker.
DraftClearedOnlyByGreen ==
  [][pos.draft /\ ~pos'.draft =>
       pos.state = "verify" /\ log'.newest["verify"] = "green"]_vars

\* The walk keeps the promises of LeanContract.
Contract == INSTANCE LeanContract WITH
  exit      <- IF Ended THEN pos.state ELSE "none",
  built     <- pos.buildAttempts > 0,
  certified <- ~pos.draft /\ head.gated /\ head.published /\ head.piped

KeepsContract == Contract!Spec
=============================================================================
