------------------------------ MODULE AsyncJobs ------------------------------
(***************************************************************************)
(* Background jobs and batches, the one message each of them owes the PM,  *)
(* and the number of messages owed that a headless client is shown         *)
(* (async-jobs.ts, async-jobs-batch.ts, async-jobs-batch-delivery.ts,      *)
(* async-jobs-lifecycle.ts, pending-jobs-signal.ts).  A unit is a job or a *)
(* batch; it is started at most once.  One step is what the event loop     *)
(* runs without an await.                                                  *)
(*                                                                         *)
(* A kill only aborts a signal, after which the work resolves or rejects   *)
(* as it may at any time, or ignores it: dispatch_kill and killAllJobs are *)
(* therefore no actions.  The channel may refuse any frame and the host    *)
(* any message, and the process may end at any time.  The sessions share   *)
(* one copy of pending-jobs-signal.ts: a reload that loads another starts  *)
(* from Init, and the copy it leaves behind is not followed further.       *)
(***************************************************************************)
EXTENDS Naturals, Sequences, FiniteSets, FiniteSetsExt

CONSTANTS Units,
          Mixes,            \* the kinds of unit to consider together
          MEMBERS,          \* members of a batch
          MAX_JOBS,         \* registry entries at once
          MAX_GENERATION    \* bound: attaches and shutdowns considered

Kinds == {"single",   \* a child's job of the PM
          "report",   \* a tool-launched pipeline: reportKind "driver"
          "batch",
          "driven"}   \* owned by the in-process driver

ASSUME AsyncJobsAssumption ==
  /\ IsFiniteSet(Units) /\ Mixes \subseteq [Units -> Kinds]
  /\ MEMBERS \in Nat \ {0} /\ MAX_JOBS \in Nat /\ MAX_GENERATION \in Nat

VARIABLES kindOf,      \* [Units -> Kinds]
          work,        \* [Units -> where the unit is]
          members,     \* [Units -> members of the batch still running]
          left,        \* [Units -> registry entries a failed setup leaves for good]
          sends,       \* [Units -> messages the host was given, taken or refused]
          ctx,         \* there is an RPC channel
          open, generation, pending,
          armed,       \* the generation the timer belongs to, 0 without one
          shown,       \* the last number the client was sent
          missed,      \* history: the frame the channel refused since, or the closing one
          counted,     \* history: this session's units the client hears about
          gaveUp,      \* history: of these, what a shutdown stopped waiting for
          up           \* the process runs

units == <<kindOf, work, members, left, sends>>
signal == <<ctx, open, generation, pending, armed, shown, missed, counted, gaveUp>>
vars == <<units, signal, up>>

Works == {"idle", "running", "git", "handed", "over", "failed"}
Live == {"running", "git", "handed"}
Message == [what : {"report", "failure", "stand-in"}, landed : BOOLEAN]

TypeOK ==
  /\ kindOf \in [Units -> Kinds]
  /\ work \in [Units -> Works] /\ members \in [Units -> 0..MEMBERS]
  /\ left \in [Units -> 0..MEMBERS]
  /\ sends \in [Units -> Seq(Message)]
  /\ ctx \in BOOLEAN /\ open \in BOOLEAN /\ up \in BOOLEAN
  /\ missed \in {"nothing", "frame", "closing"}
  /\ generation \in Nat /\ armed \in Nat /\ shown \in Nat
  /\ pending \subseteq Units /\ counted \subseteq Units /\ gaveUp \subseteq Units

Init ==
  /\ kindOf \in Mixes
  /\ work = [u \in Units |-> "idle"] /\ members = [u \in Units |-> 0]
  /\ left = [u \in Units |-> 0]
  /\ sends = [u \in Units |-> <<>>]
  /\ ctx = FALSE /\ open = FALSE /\ generation = 0 /\ armed = 0 /\ shown = 0
  /\ pending = {} /\ counted = {} /\ gaveUp = {}
  /\ missed = "nothing" /\ up = TRUE
-----------------------------------------------------------------------------
(* The registry: one entry for a single job until it settles, one for a   *)
(* batch and one for each member still running; those of a failed setup    *)
(* that were not taken back.                                               *)
Entries(u) == IF work[u] = "running" THEN 1 + members[u] ELSE left[u]

Asks(u) == IF kindOf[u] = "batch" THEN 1 + MEMBERS ELSE 1

HasRoom(u) == MapThenSumSet(Entries, Units) + Asks(u) <= MAX_JOBS

(* The channel takes the frame, or refuses it: setStatus throws.           *)
Publish(n, frame) ==
  \/ ctx /\ shown' = n /\ missed' = "nothing"
  \/ ctx /\ shown' = shown /\ missed' = frame
  \/ ~ctx /\ UNCHANGED <<shown, missed>>

jobPending(u) ==
  /\ IF open /\ kindOf[u] # "driven"
       THEN /\ pending' = pending \union {u} /\ counted' = counted \union {u}
            /\ Publish(Cardinality(pending'), "frame")
       ELSE UNCHANGED <<pending, counted, shown, missed>>
  /\ UNCHANGED <<ctx, open, generation, armed, gaveUp>>

jobReported(u) ==
  /\ IF open /\ u \in pending
       THEN pending' = pending \ {u} /\ Publish(Cardinality(pending'), "frame")
       ELSE UNCHANGED <<pending, shown, missed>>
  /\ UNCHANGED <<ctx, open, generation, armed, counted, gaveUp>>

Start(u) ==
  /\ work[u] = "idle" /\ HasRoom(u)
  /\ work' = [work EXCEPT ![u] = "running"]
  /\ members' = [members EXCEPT ![u] = IF kindOf[u] = "batch" THEN MEMBERS ELSE 0]
  /\ jobPending(u)
  /\ UNCHANGED <<kindOf, left, sends>>

(* A throw during setup.  A single job leaves its registry entry behind.   *)
(* A batch has started some of its members by then, which it kills and     *)
(* takes back one by one; the entry of a member whose teardown throws      *)
(* stays, and so does that of the member whose registration threw, or of   *)
(* the batch itself before its first member.                               *)
FailedSetups(u) == IF kindOf[u] = "batch"
                     THEN {s \in [started : 0..MEMBERS, left : 0..MEMBERS] :
                             s.started < MEMBERS /\ s.left <= s.started + 1}
                     ELSE {[started |-> 0, left |-> 1]}

Setup(u) ==
  /\ work[u] = "idle" /\ HasRoom(u)
  /\ work' = [work EXCEPT ![u] = "failed"]
  /\ \E s \in FailedSetups(u) : /\ members' = [members EXCEPT ![u] = s.started]
                               /\ left' = [left EXCEPT ![u] = s.left]
  /\ UNCHANGED <<kindOf, sends>>

\* Bug... are seeded faults, each used by a mutant of PROJECT.json and nowhere else.
BugStartFails(u) == Setup(u) /\ jobPending(u)

StartFails(u) == Setup(u) /\ UNCHANGED signal

(* What a killed member of a failed setup comes to later moves nothing.    *)
DeadMemberEnds(u) ==
  /\ work[u] = "failed" /\ members[u] > 0
  /\ members' = [members EXCEPT ![u] = @ - 1]
  /\ UNCHANGED <<kindOf, work, left, sends, signal>>
-----------------------------------------------------------------------------
Sent(what, landed) == <<[what |-> what, landed |-> landed]>>

StandIns == {Sent("stand-in", landed) : landed \in BOOLEAN}

BugDelivery(what, standInOnRefusal) ==
  {Sent(what, TRUE)} \union StandIns
    \union {Sent(what, TRUE) \o s : s \in IF standInOnRefusal THEN StandIns ELSE {}}
    \union {Sent(what, FALSE) \o s : s \in IF standInOnRefusal THEN StandIns ELSE {<<>>}}

(* What a delivery may send: the message; a stand-in where the message     *)
(* cannot be built; and where the host refuses it, for the callers that    *)
(* read the refusal, a stand-in after it.                                  *)
Delivery(what, standInOnRefusal) ==
  {Sent(what, TRUE)} \union StandIns
    \union {Sent(what, FALSE) \o s : s \in IF standInOnRefusal THEN StandIns ELSE {<<>>}}

Goto(u, to) == work' = [work EXCEPT ![u] = to]

Hand(u, messages) ==
  /\ Goto(u, "handed")
  /\ \E m \in messages : sends' = [sends EXCEPT ![u] = @ \o m]
  /\ UNCHANGED signal

Running(u, kinds) == work[u] = "running" /\ kindOf[u] \in kinds

SettleThrows(u) ==
  /\ Running(u, {"single", "report"})
  /\ Hand(u, StandIns)
  /\ UNCHANGED <<kindOf, members, left>>

Resolve(u) ==
  /\ \/ Running(u, {"single"}) /\ Hand(u, Delivery("report", FALSE))
     \/ Running(u, {"report"}) /\ Hand(u, Delivery("report", TRUE))
  /\ UNCHANGED <<kindOf, members, left>>

ResolveDeveloper(u) ==
  /\ Running(u, {"single"})
  /\ Goto(u, "git")
  /\ UNCHANGED <<kindOf, members, left, sends, signal>>

Reject(u) ==
  /\ Running(u, {"single", "report"})
  /\ Hand(u, Delivery("failure", FALSE))
  /\ UNCHANGED <<kindOf, members, left>>

DrivenEnds(u) ==
  /\ Running(u, {"driven"})
  /\ Goto(u, "handed")
  /\ UNCHANGED <<kindOf, members, left, sends, signal>>

MemberEnds(u) ==
  /\ Running(u, {"batch"}) /\ members[u] > 1
  /\ members' = [members EXCEPT ![u] = @ - 1]
  /\ UNCHANGED <<kindOf, work, left, sends, signal>>

LastMemberEnds(u) ==
  /\ Running(u, {"batch"}) /\ members[u] = 1
  /\ members' = [members EXCEPT ![u] = 0]
  /\ UNCHANGED <<kindOf, left>>
  /\ \/ Goto(u, "git") /\ UNCHANGED <<sends, signal>>
     \/ Hand(u, StandIns)

GitLine(u) ==
  /\ work[u] = "git"
  /\ Hand(u, Delivery("report", kindOf[u] = "batch"))
  /\ UNCHANGED <<kindOf, members, left>>

Release(u) ==
  /\ work[u] = "handed"
  /\ Goto(u, "over")
  /\ jobReported(u)
  /\ UNCHANGED <<kindOf, members, left, sends>>
-----------------------------------------------------------------------------
(* The new client is sent its 0, which the channel may refuse.             *)
Attach(rpc) ==
  /\ generation < MAX_GENERATION
  /\ generation' = generation + 1
  /\ open' = TRUE /\ pending' = {} /\ armed' = 0
  /\ ctx' = rpc
  /\ \/ shown' = 0 /\ missed' = "nothing"
     \/ rpc /\ shown' = shown /\ missed' = "frame"
  /\ counted' = {} /\ gaveUp' = {}
  /\ UNCHANGED units

(* finish: the rest is never owed, the client is sent its 0, with a        *)
(* warning if the channel refuses it, and the channel is let go.           *)
Finish ==
  /\ pending' = {}
  /\ Publish(0, "closing")
  /\ ctx' = FALSE
  /\ gaveUp' = gaveUp \union pending
  /\ UNCHANGED counted

Leave ==
  /\ generation < MAX_GENERATION
  /\ generation' = generation + 1
  /\ UNCHANGED units

ShutdownNothingOwed ==
  /\ Leave
  /\ pending = {}
  /\ armed' = 0 /\ open' = FALSE /\ ctx' = FALSE
  /\ UNCHANGED <<pending, shown, missed, counted, gaveUp>>

ShutdownAtOnce ==
  /\ Leave
  /\ pending # {}
  /\ armed' = 0 /\ open' = FALSE
  /\ Finish

BugShutdownWaits ==
  /\ Leave
  /\ pending # {}
  /\ armed' = (IF armed = 0 THEN generation' ELSE armed) /\ open' = TRUE
  /\ UNCHANGED <<ctx, pending, shown, missed, counted, gaveUp>>

BugShutdownClears ==
  /\ Leave
  /\ pending # {}
  /\ pending' = {} /\ Publish(0, "closing") /\ ctx' = FALSE
  /\ armed' = 0 /\ open' = FALSE
  /\ UNCHANGED <<counted, gaveUp>>

ShutdownWaits ==
  /\ Leave
  /\ pending # {}
  /\ armed' = generation' /\ open' = TRUE
  /\ UNCHANGED <<ctx, pending, shown, missed, counted, gaveUp>>

Bound ==
  /\ armed # 0
  /\ armed' = 0
  /\ IF armed = generation THEN Finish
     ELSE UNCHANGED <<ctx, pending, shown, missed, counted, gaveUp>>
  /\ UNCHANGED <<units, open, generation>>
-----------------------------------------------------------------------------
Unit(u) ==
  \/ Start(u) \/ StartFails(u) \/ DeadMemberEnds(u)
  \/ SettleThrows(u) \/ Resolve(u) \/ ResolveDeveloper(u) \/ Reject(u) \/ DrivenEnds(u)
  \/ MemberEnds(u) \/ LastMemberEnds(u) \/ GitLine(u) \/ Release(u)

Session ==
  \/ \E rpc \in BOOLEAN : Attach(rpc)
  \/ ShutdownNothingOwed \/ ShutdownAtOnce \/ ShutdownWaits
  \/ Bound

(* Every job, and the timer of the bound, which does not keep the process. *)
Exit == up /\ up' = FALSE /\ UNCHANGED <<units, signal>>

Runs == up /\ UNCHANGED up

Next == Exit \/ (Runs /\ ((\E u \in Units : Unit(u)) \/ Session))

Spec == Init /\ [][Next]_vars

(* A timer fires in a process that lives.                                  *)
FairSpec == Spec /\ WF_vars(Runs /\ Bound)
-----------------------------------------------------------------------------
Owed == {u \in counted : work[u] \in Live}

(* While a client listens, what is pending is this session's jobs and      *)
(* batches whose message has not been handed over and released, and unless *)
(* the channel refused the last frame, their number is what the client was *)
(* last sent (pending-jobs-signal.ts 17-35): the count and the units are   *)
(* moved by different callbacks, across settles, failed setups, shutdowns  *)
(* and sessions.                                                           *)
CountIsOwed == ctx => /\ pending = Owed
                      /\ missed = "nothing" => shown = Cardinality(Owed)

Landed(u) == Cardinality({i \in DOMAIN sends[u] : sends[u][i].landed})

(* Nothing reaches the PM behind a 0: a message of a counted unit lands    *)
(* while it is still counted, unless its session was shut down and the     *)
(* bound ran out on it, or the channel refused the last frame              *)
(* (pending-jobs-signal.ts shutdown, releaseAfter).                        *)
ReportsBeforeZero ==
  [][\A u \in counted : Landed(u)' # Landed(u) =>
       \/ u \in gaveUp
       \/ u \in pending /\ (ctx => shown > 0 \/ missed # "nothing")]_vars

LastSend(u) == sends[u][Len(sends[u])]

(* Every unit of the PM is answered once, a driver's never: what landed is *)
(* at most one message, and where none landed the host refused it and, for *)
(* a batch or the result of a pipeline, a stand-in after it                *)
(* (async-jobs-batch-delivery.ts deliverBatchReport, async-jobs.ts         *)
(* startJob).  A batch whose setup failed says nothing.                    *)
AnsweredOnce ==
  \A u \in Units :
    /\ Landed(u) <= 1
    /\ kindOf[u] = "driven" \/ work[u] = "failed" => sends[u] = <<>>
    /\ work[u] \in {"handed", "over"} /\ kindOf[u] # "driven" =>
         /\ sends[u] # <<>>
         /\ \/ LastSend(u).landed
            \/ LastSend(u).what = "stand-in"
            \/ kindOf[u] = "single"
            \/ LastSend(u).what = "failure"

(* A session that is leaving stops waiting, and by then its client was     *)
(* sent a 0, whatever its jobs do and when the hook fires again while it   *)
(* waits: unless the channel refused the last frame, which the early       *)
(* return for nothing owed does not send again, or the process ended       *)
(* before the timer, which does not keep it alive (pending-jobs-signal.ts  *)
(* shutdown, 325-343, 367).                                                *)
ShutdownReachesZero ==
  armed # 0 ~> ~up \/ (armed = 0 /\ (shown = 0 \/ missed # "nothing"))
=============================================================================
