----------------------------- MODULE LeanEngine -----------------------------
(***************************************************************************)
(* One lean run under its runner (lean/engine.ts, lean/resume.ts): the     *)
(* state file, the drive that holds a copy of it in memory, the            *)
(* write-ahead of every step, the fold that decides whether a file may be  *)
(* driven, the deadline and the step cap, and crashes between any two      *)
(* writes.  A save that throws is a crash at that save: the drive ends and *)
(* the file keeps its last good contents (saveRun renames a tmp file).     *)
(*                                                                         *)
(* One drive at a time: the issue's lock (LeanLock) is held from before    *)
(* the load to after the last save.                                        *)
(***************************************************************************)
EXTENDS LeanMachine, Sequences, FiniteSets

CONSTANTS NoRun,        \* no file on disk, or no drive in memory
          MAX_STEPS,    \* the drive's cap on loop iterations (100 in the code)
          FLAGS,        \* which callers there are: TRUE passes a budget, FALSE none
          MAX_CRASHES   \* bound: how many drives die before they end

ASSUME BoundsAssumption ==
  MAX_STEPS \in Nat \ {0} /\ FLAGS \subseteq BOOLEAN /\ MAX_CRASHES \in Nat

VARIABLES file,     \* the run's record on disk
          run,      \* the drive's copy of it
          pc,       \* where the drive stands
          kind,     \* the outcome a handler returned and nobody saved yet
          clock,    \* [flag: this caller passed a budget, late: the deadline is near]
          iter,     \* iterations of this drive's loop
          forge,    \* what the run did to the world: [done, lost, merged]
          crashes

vars == <<file, run, pc, kind, clock, iter, forge, crashes>>

-----------------------------------------------------------------------------
(* The record *)

NoResult == -1      \* result undefined; else its exit code

NewRun == [ pos |-> InitialPosition, steps |-> <<>>, result |-> NoResult, armed |-> FALSE ]

\* A step's key is <issue>:<state>:<n>.
Step == [ state : HANDLER_STATES, n : Nat, kind : Kinds \cup {Undecided, ErrorKind} ]

Run == [ pos : Position, steps : Seq(Step), result : {NoResult, 0, 10, 11}, armed : BOOLEAN ]

ASSUME NoRunAssumption == NoRun \notin Run

Entries(steps, s, last) == { i \in 1..last : steps[i].state = s }

BugKeysFromOne(r) == Cardinality(Entries(r.steps, r.pos.state, Len(r.steps))) + 1

nextAttempt(r) == Cardinality(Entries(r.steps, r.pos.state, Len(r.steps)))

Decided(steps, s) == { i \in Entries(steps, s, Len(steps)) : steps[i].kind # Undecided }

\* newestDecided of every state, after every prefix of the log.
Newests(steps) ==
  LET upTo[i \in 0..Len(steps)] ==
        IF i = 0 THEN [s \in HANDLER_STATES |-> Undecided]
        ELSE IF steps[i].kind = Undecided THEN upTo[i - 1]
        ELSE [upTo[i - 1] EXCEPT ![steps[i].state] = steps[i].kind]
  IN upTo

Newest(steps) == Newests(steps)[Len(steps)]

LastKind(r) == IF r.steps = <<>> THEN "none" ELSE r.steps[Len(r.steps)].kind

Pending(r) == LastKind(r) = Undecided

BugFirstEntryDecided(r, k) ==
  [ r EXCEPT !.steps[CHOOSE i \in Entries(r.steps, r.pos.state, Len(r.steps)) :
                       \A j \in Entries(r.steps, r.pos.state, Len(r.steps)) : i <= j].kind = k ]

withOutcome(r, k) == [ r EXCEPT !.steps[Len(r.steps)].kind = k ]

Stamped(r, s) == [ r EXCEPT !.pos.state = s, !.result = exitCodeFor(s) ]

-----------------------------------------------------------------------------
(* foldLog and verifiedPosition: may this file be driven? *)

Halts(step) == step.kind # Undecided /\ ~HasTransition(step.state, step.kind)

\* The fold's reading of one more entry.
Consume(r, f, i) ==
  LET step == r.steps[i] IN
  CASE \/ ~f.ok
       \/ step.state # f.pos.state
       \/ step.n # Cardinality(Entries(r.steps, step.state, i - 1)) ->
         [f EXCEPT !.ok = FALSE]
    [] f.ok /\ step.kind = Undecided -> [f EXCEPT !.ok = (i = Len(r.steps))]
    [] f.ok /\ Halts(step) ->
         [ ok |-> i = Len(r.steps) /\ r.pos.state = "handed-back" /\ r.result # NoResult,
           pos |-> To(f.pos, "handed-back"), before |-> f.before ]
    [] OTHER -> [ ok |-> TRUE, pos |-> TableNext(f.pos, step.kind), before |-> f.pos ]

Unread == [ ok |-> TRUE, pos |-> InitialPosition, before |-> InitialPosition ]

\* Its reading of every prefix of the log.
Readings(r) ==
  LET fold[i \in 0..Len(r.steps)] ==
        IF i = 0 THEN Unread ELSE Consume(r, fold[i - 1], i)
  IN fold

foldLog(r) == Readings(r)[Len(r.steps)]

\* A snapshot may be the fold's position, or the one before its last decided step.
SnapshotAgrees(r) ==
  LET f == foldLog(r) IN
  f.ok /\ (r.pos = f.pos \/ (~Pending(r) /\ r.steps # <<>> /\ r.pos = f.before))

stampedResultRefusal(r, p) ==
  \/ p.state \notin TERMINAL_STATES
  \/ r.result # exitCodeFor(p.state)
  \/ p.state = "landed" /\ ~landEarned(p, Newest(r.steps))

BugStampIgnored(r) ==
  LET p == foldLog(r).pos IN
  CASE ~SnapshotAgrees(r) -> "refuse"
    [] OTHER ->
         IF p.state \in {"land", "landed"} /\ ~landEarned(p, Newest(r.steps))
         THEN "end" ELSE "drive"

\* What runLean makes of a file it loaded: refuse it (throw), return its result as it
\* is, end it because its log reached a land it did not earn, or drive it.
Verdict(r) ==
  LET p == foldLog(r).pos IN
  CASE ~SnapshotAgrees(r) -> "refuse"
    [] SnapshotAgrees(r) /\ r.result # NoResult ->
         IF stampedResultRefusal(r, p) THEN "refuse" ELSE "answer"
    [] OTHER ->
         IF p.state \in {"land", "landed"} /\ ~landEarned(p, Newest(r.steps))
         THEN "end" ELSE "drive"

-----------------------------------------------------------------------------
(* Starting a drive *)

Init ==
  /\ file = NoRun /\ run = NoRun /\ pc = "idle" /\ kind = Undecided
  /\ clock = [ flag |-> FALSE, late |-> FALSE ]
  /\ iter = 0 /\ crashes = 0
  /\ forge = [ done |-> <<>>, lost |-> <<>>, merged |-> FALSE ]

Drive(r) ==
  /\ run' = r /\ pc' = "loop" /\ iter' = 0
  /\ \E flag \in FLAGS : clock' = [clock EXCEPT !.flag = flag]
  /\ UNCHANGED <<file, kind, forge, crashes>>

FirstDrive == pc = "idle" /\ file = NoRun /\ Drive(NewRun)

\* Driven from the DERIVED position, whatever the snapshot says.
Resume ==
  /\ pc = "idle" /\ file # NoRun /\ Verdict(file) \in {"drive", "end"}
  /\ LET r == [file EXCEPT !.pos = foldLog(file).pos] IN
     IF Verdict(file) = "drive" THEN Drive(r)
     ELSE file' = Stamped(r, "handed-back")
          /\ UNCHANGED <<run, pc, kind, clock, iter, forge, crashes>>

\* The file is the answer, or it is refused: neither touches anything.
Reload ==
  /\ pc = "idle" /\ file # NoRun /\ Verdict(file) \in {"answer", "refuse"}
  /\ UNCHANGED vars

-----------------------------------------------------------------------------
(* The loop *)

\* A save; a saved result ends the drive.
Saved(r, next) ==
  /\ file' = r
  /\ run' = IF r.result = NoResult THEN r ELSE NoRun
  /\ pc' = IF r.result = NoResult THEN next ELSE "idle"

StepCap ==
  /\ pc = "loop" /\ iter = MAX_STEPS
  /\ Saved(Stamped(run, "handed-back"), "loop")
  /\ UNCHANGED <<kind, clock, iter, forge, crashes>>

NextIteration ==
  /\ pc = "loop" /\ iter < MAX_STEPS
  /\ iter' = iter + 1 /\ pc' = "boundary"
  /\ UNCHANGED <<file, run, kind, clock, forge, crashes>>

\* The deadline is resolved once, at the first boundary, and saved on the record.
MustArm == clock.flag /\ ~run.armed

ArmDeadline ==
  /\ pc = "boundary" /\ MustArm
  /\ Saved([run EXCEPT !.armed = TRUE], "boundary")
  /\ UNCHANGED <<kind, clock, iter, forge, crashes>>

ClockPasses ==
  /\ file # NoRun /\ file.armed /\ ~clock.late
  /\ clock' = [clock EXCEPT !.late = TRUE]
  /\ UNCHANGED <<file, run, pc, kind, iter, forge, crashes>>

deadlineStopsSteps == run.armed /\ clock.late /\ run.pos.state \notin REPORT_STATES

DeadlineStop ==
  /\ pc = "boundary" /\ ~MustArm /\ deadlineStopsSteps
  /\ Saved(Stamped(run, "handed-back"), "loop")
  /\ UNCHANGED <<kind, clock, iter, forge, crashes>>

MayStep == /\ pc = "boundary" /\ ~MustArm /\ ~deadlineStopsSteps
           /\ run.pos.state \in HANDLER_STATES

BugReentryUnsaved ==
  /\ MayStep /\ ~Pending(run)
  /\ LET r == [run EXCEPT !.steps = Append(@, [ state |-> run.pos.state,
                                                n |-> nextAttempt(run),
                                                kind |-> Undecided ])]
     IN IF nextAttempt(run) = 0 THEN Saved(r, "handler")
        ELSE run' = r /\ pc' = "handler" /\ UNCHANGED file
  /\ UNCHANGED <<kind, clock, iter, forge, crashes>>

startStep ==
  /\ MayStep /\ ~Pending(run)
  /\ Saved([run EXCEPT !.steps = Append(@, [ state |-> run.pos.state,
                                             n |-> nextAttempt(run),
                                             kind |-> Undecided ])], "handler")
  /\ UNCHANGED <<kind, clock, iter, forge, crashes>>

\* A crash mid-step: the same entry, run again.
RerunStep ==
  /\ MayStep /\ Pending(run)
  /\ pc' = "handler"
  /\ UNCHANGED <<file, run, kind, clock, iter, forge, crashes>>

-----------------------------------------------------------------------------
(* A handler, and what it does to the world before anything is saved *)

\* Their bodies are one try.
NEVER_THROW == {"land", "handback", "decline"}

MayReturn(s) == OUTCOME_KINDS[s] \cup (IF s \in NEVER_THROW THEN {} ELSE {ErrorKind})

\* The step in hand did something that cannot be taken back: it paid its builder (and
\* again, where a ceiling stopped the child and the step may retry it), or posted its
\* comment.  It is known by the place of its entry in the log.
Acted == [forge EXCEPT !.done = Append(@, Len(run.steps))]

Merging == [forge EXCEPT !.merged = TRUE]

\* A build pays unless the handler threw first; a report reaches the forge or not,
\* whatever its outcome says of it; a merge is refused, or done and then read back, or done
\* and called refused because the read-back failed.  A PR merged before is not open.
After(s, k) ==
  CASE s = "build"         -> IF k = ErrorKind THEN {forge, Acted} ELSE {Acted}
    [] s \in REPORT_STATES -> {forge, Acted}
    [] s = "land"          -> IF k # "merged" THEN {forge, Merging}
                              ELSE IF forge.merged THEN {} ELSE {Merging}
    [] OTHER               -> {forge}

HandlerReturns ==
  /\ pc = "handler"
  /\ \E k \in MayReturn(run.pos.state) :
        kind' = k /\ forge' \in After(run.pos.state, k)
  /\ pc' = "settle"
  /\ UNCHANGED <<file, run, clock, iter, crashes>>

-----------------------------------------------------------------------------
(* settle() and apply() *)

logged == withOutcome(run, kind)

Settling == pc = "settle" /\ kind' = Undecided /\ UNCHANGED <<clock, iter, forge, crashes>>

\* An outcome without an arrow is saved first and ends the run in a second save.
SettleFault ==
  /\ Settling /\ ~HasTransition(run.pos.state, kind)
  /\ Saved(logged, "halt")

BugRetryThrown ==
  /\ pc = "halt" /\ pc' = "handler"
  /\ UNCHANGED <<file, run, kind, clock, iter, forge, crashes>>

Halt ==
  /\ pc = "halt"
  /\ Saved(Stamped(run, "handed-back"), "halt")
  /\ UNCHANGED <<kind, clock, iter, forge, crashes>>

Moved == TableNext(run.pos, kind)

BugLandUnasked == FALSE

LandRefused ==
  /\ Moved.state = "land"
  /\ ~ (run.pos.state = "ci" /\ kind = "green" /\ landEarned(run.pos, Newest(logged.steps)))

RefuseLand ==
  /\ Settling /\ HasTransition(run.pos.state, kind) /\ LandRefused
  /\ Saved(Stamped(logged, "handed-back"), "loop")

Apply ==
  /\ Settling /\ HasTransition(run.pos.state, kind) /\ ~LandRefused
  /\ LET advanced == [logged EXCEPT !.pos = Moved] IN
     Saved(IF Moved.state \in TERMINAL_STATES THEN Stamped(advanced, Moved.state) ELSE advanced,
           "loop")

-----------------------------------------------------------------------------
\* What the step in hand did stays done, and no outcome will tell of it.
Lose ==
  LET n == Len(forge.done) IN
  IF pc = "settle" /\ n > 0 /\ forge.done[n] = Len(run.steps)
  THEN [forge EXCEPT !.done = SubSeq(@, 1, n - 1), !.lost = Append(@, Len(run.steps))]
  ELSE forge

Crash ==
  /\ pc # "idle" /\ crashes < MAX_CRASHES
  /\ run' = NoRun /\ pc' = "idle" /\ kind' = Undecided /\ crashes' = crashes + 1
  /\ iter' = 0 /\ clock' = [clock EXCEPT !.flag = FALSE]
  /\ forge' = Lose
  /\ UNCHANGED file

Driving == \/ StepCap \/ NextIteration \/ ArmDeadline \/ DeadlineStop
           \/ startStep \/ RerunStep \/ HandlerReturns
           \/ SettleFault \/ Halt \/ RefuseLand \/ Apply

Next == FirstDrive \/ Resume \/ Reload \/ ClockPasses \/ Driving \/ Crash

Spec == Init /\ [][Next]_vars

\* A live drive goes on: every handler is awaited and its own budgets bound it.
FairSpec == Spec /\ WF_vars(Driving)

-----------------------------------------------------------------------------
(* Properties *)

TypeOK ==
  /\ file \in {NoRun} \cup Run /\ run \in {NoRun} \cup Run
  /\ pc \in {"idle", "loop", "boundary", "handler", "settle", "halt"}
  /\ kind \in Kinds \cup {Undecided, ErrorKind}
  /\ clock \in [ flag : BOOLEAN, late : BOOLEAN ]
  /\ iter \in 0..MAX_STEPS /\ crashes \in 0..MAX_CRASHES
  /\ forge \in [ done : Seq(Nat), lost : Seq(Nat), merged : BOOLEAN ]

Log == IF file = NoRun THEN <<>> ELSE file.steps

Of(S) == { i \in DOMAIN Log : Log[i].state \in S }

ACTING == {"build"} \cup REPORT_STATES

\* The record and the world agree, whatever crashed and was driven again.  Each build paid
\* for and each comment posted has an entry of its own on file, in the order they were
\* done, and each build with an outcome was paid for; only what a crash cut off from its
\* outcome comes on top, no more of it than crashes, and under an entry too.  An entry
\* that says merged, and exit 0, are only written of a run that merged, and a run only
\* merges under an entry.  (startStep's write-ahead and the re-run of the pending step.)
RecordAndWorldAgree ==
  /\ \A j \in DOMAIN forge.done : forge.done[j] \in Of(ACTING)
  /\ \A j, k \in DOMAIN forge.done : j < k => forge.done[j] < forge.done[k]
  /\ \A i \in Of({"build"}) :
       Log[i].kind \in Kinds => \E j \in DOMAIN forge.done : forge.done[j] = i
  /\ \A j \in DOMAIN forge.lost : forge.lost[j] \in Of(ACTING)
  /\ Len(forge.lost) <= crashes
  /\ forge.merged => Of({"land"}) # {}
  /\ \A i \in DOMAIN Log : Log[i].kind = "merged" => forge.merged
  /\ file # NoRun /\ file.result = 0 => forge.merged

\* Every file a drive leaves behind unfinished is one the next drive accepts, and
\* drives from a state that has a handler, unless its last entry is an outcome the
\* run was about to end on.
UnfinishedRunResumes ==
  file # NoRun /\ file.result = NoResult =>
    \/ Verdict(file) = "drive" /\ foldLog(file).pos.state \in HANDLER_STATES
    \/ Halts(file.steps[Len(file.steps)])

\* The merge is performed only from a record that has earned it on disk.
MergeIsEarned ==
  [][~forge.merged /\ forge'.merged =>
       /\ file.pos.state = "land"
       /\ landEarned(file.pos, Newest(file.steps))]_vars

\* A finished record is never written again.
ResultIsFinal == [][file # NoRun /\ file.result # NoResult => file' = file]_vars

\* A drive that starts gives its caller an answer, or dies.
DriveEnds == (pc # "idle") ~> (pc = "idle")

-----------------------------------------------------------------------------
(* The engine implements the walk: the decided steps on the file are its log. *)

posBar ==
  IF file = NoRun THEN InitialPosition
  ELSE IF Len(file.steps) > 0 /\ Halts(file.steps[Len(file.steps)]) THEN To(file.pos, "handed-back")
  ELSE file.pos

stepsBar ==
  IF file = NoRun THEN <<>>
  ELSE IF Pending(file) THEN SubSeq(file.steps, 1, Len(file.steps) - 1) ELSE file.steps

logBar == [ length |-> Len(stepsBar),
            builds |-> Cardinality(Decided(stepsBar, "build")),
            newest |-> Newest(stepsBar) ]

\* What is known of the head after every prefix of the log.
Heads(steps) ==
  LET known[i \in 0..Len(steps)] ==
        IF i = 0 THEN MovedHead
        ELSE HeadAfter(known[i - 1], steps[i].state, steps[i].kind)
  IN known

headBar == Heads(stepsBar)[Len(stepsBar)]

Walk == INSTANCE LeanWalk WITH pos <- posBar, log <- logBar, head <- headBar

ImplementsWalk == Walk!Spec

=============================================================================
