------------------------------ MODULE LeanLock ------------------------------
(***************************************************************************)
(* The per-issue lock of a lean run (lean/lock.ts), judged by              *)
(* process-liveness.ts.  A process is an owner identity: host, pid and     *)
(* start time, so a recycled pid is another member of Procs and a dead one *)
(* stays dead.  The lock file is its body, the identity that linked it;    *)
(* link, read, rename and unlink are one step each, and other processes    *)
(* and crashes come between any two of them.                               *)
(***************************************************************************)
EXTENDS Naturals

CONSTANTS Procs,      \* owner identities
          Hosts,
          hostOf,     \* [Procs -> Hosts]: where each one runs
          NoLock      \* no file at the lock path

ASSUME LockAssumption == hostOf \in [Procs -> Hosts] /\ NoLock \notin Procs

VARIABLES lock,       \* the body of the lock file
          pc,         \* [Procs -> ...]
          attempt,    \* [Procs -> 0..1]: acquireLock's two attempts
          body,       \* [Procs -> body]: the body this attempt read
          alive,
          misfire     \* history: a rename took another lock than the one judged

lockVars == <<lock, pc, attempt, body, alive, misfire>>

PCs == {"idle", "link", "read", "judge", "steal", "held", "release", "unlink", "dead"}

LockTypeOK ==
  /\ lock \in Procs \cup {NoLock}
  /\ pc \in [Procs -> PCs]
  /\ attempt \in [Procs -> 0..1]
  /\ body \in [Procs -> Procs \cup {NoLock}]
  /\ alive \in [Procs -> BOOLEAN]
  /\ misfire \in BOOLEAN

LockInit ==
  /\ lock = NoLock
  /\ pc = [p \in Procs |-> "idle"]
  /\ attempt = [p \in Procs |-> 0]
  /\ body = [p \in Procs |-> NoLock]
  /\ alive = [p \in Procs |-> TRUE]
  /\ misfire = FALSE

Goto(p, from, to) == pc[p] = from /\ pc' = [pc EXCEPT ![p] = to]

\* The call returns: its attempt and the body it read are gone.
Forget(p) == attempt' = [attempt EXCEPT ![p] = 0] /\ body' = [body EXCEPT ![p] = NoLock]

-----------------------------------------------------------------------------
(* acquireLock *)

Acquire(p) ==
  /\ Goto(p, "idle", "link")
  /\ UNCHANGED <<lock, attempt, body, alive, misfire>>

\* Bug... are seeded faults, each used by one mutant of PROJECT.json and nowhere else.
BugLinkOverwrites(p) ==
  /\ lock' = p
  /\ Goto(p, "link", "held")
  /\ Forget(p)
  /\ UNCHANGED <<alive, misfire>>

\* tryLink: the body is in the file the moment the file exists.
Link(p) ==
  /\ lock = NoLock /\ lock' = p
  /\ Goto(p, "link", "held")
  /\ Forget(p)
  /\ UNCHANGED <<alive, misfire>>

LinkExists(p) ==
  /\ lock # NoLock
  /\ Goto(p, "link", "read")
  /\ UNCHANGED <<lock, attempt, body, alive, misfire>>

Read(p) ==
  /\ lock # NoLock
  /\ body' = [body EXCEPT ![p] = lock]
  /\ Goto(p, "read", "judge")
  /\ UNCHANGED <<lock, attempt, alive, misfire>>

\* The holder released between the link and the read: refused as unreadable.
ReadNothing(p) ==
  /\ lock = NoLock
  /\ Goto(p, "read", "idle")
  /\ Forget(p)
  /\ UNCHANGED <<lock, alive, misfire>>

BugForeignIsDead(p, q) == hostOf[q] # hostOf[p] \/ ~alive[q]

\* judgeOwner: only a holder of this host can be proved dead.
ProvedDead(p, q) == hostOf[q] = hostOf[p] /\ ~alive[q]

JudgeDead(p) ==
  /\ Goto(p, "judge", "steal")
  /\ ProvedDead(p, body[p])
  /\ UNCHANGED <<lock, attempt, body, alive, misfire>>

JudgeRefuse(p) ==
  /\ Goto(p, "judge", "idle")
  /\ ~ProvedDead(p, body[p])
  /\ Forget(p)
  /\ UNCHANGED <<lock, alive, misfire>>

BugOneAttempt(p) ==
  /\ Goto(p, "steal", "idle")
  /\ lock' = NoLock
  /\ misfire' = (misfire \/ lock \notin {NoLock, body[p]})
  /\ Forget(p)
  /\ UNCHANGED alive

\* stealStale renames whatever stands at the path, or finds nothing there; then the
\* second attempt, or the refusal after it.
Steal(p) ==
  /\ pc[p] = "steal"
  /\ lock' = NoLock
  /\ misfire' = (misfire \/ lock \notin {NoLock, body[p]})
  /\ \/ /\ attempt[p] = 0
        /\ Goto(p, "steal", "link")
        /\ attempt' = [attempt EXCEPT ![p] = 1]
        /\ body' = [body EXCEPT ![p] = NoLock]
     \/ /\ attempt[p] = 1
        /\ Goto(p, "steal", "idle")
        /\ Forget(p)
  /\ UNCHANGED alive

-----------------------------------------------------------------------------
(* The drive ends; releaser: read, compare, unlink *)

EndDrive(p) ==
  /\ Goto(p, "held", "release")
  /\ UNCHANGED <<lock, attempt, body, alive, misfire>>

ReleaseRead(p) ==
  /\ Goto(p, "release", IF lock = p THEN "unlink" ELSE "idle")
  /\ UNCHANGED <<lock, attempt, body, alive, misfire>>

Unlink(p) ==
  /\ Goto(p, "unlink", "idle")
  /\ lock' = NoLock
  /\ UNCHANGED <<attempt, body, alive, misfire>>

Die(p) ==
  /\ alive[p]
  /\ alive' = [alive EXCEPT ![p] = FALSE]
  /\ pc' = [pc EXCEPT ![p] = "dead"]
  /\ Forget(p)
  /\ UNCHANGED <<lock, misfire>>

-----------------------------------------------------------------------------
Acquiring(p) == \/ Link(p) \/ LinkExists(p) \/ Read(p) \/ ReadNothing(p)
                \/ JudgeDead(p) \/ JudgeRefuse(p) \/ Steal(p)

Releasing(p) == ReleaseRead(p) \/ Unlink(p)

LockNext == \E p \in Procs : Acquire(p) \/ Acquiring(p) \/ EndDrive(p) \/ Releasing(p) \/ Die(p)

LockSpec == LockInit /\ [][LockNext]_lockVars

\* A live process goes on with the call it is in.
LockFairSpec == LockSpec /\ \A p \in Procs : WF_lockVars(Acquiring(p) \/ Releasing(p))

-----------------------------------------------------------------------------
(* Properties *)

Holds(p) == pc[p] \in {"held", "release", "unlink"}

\* lean/lock.ts:1: "one run per issue".
MutualExclusion == \A p, q \in Procs : Holds(p) /\ Holds(q) => p = q

\* What the lock does give: two runs hold one issue only after a rename took away
\* another lock than the dead one its caller judged.  Links, refusals, releases and
\* crashes at any point never get there by themselves.
ExclusiveUnlessMisfire == ~misfire => MutualExclusion

\* A live process's lock leaves the path only by that process's own unlink.
LiveLockStays ==
  [][lock # NoLock /\ lock' # lock /\ ~misfire' => ~alive[lock] \/ pc[lock] = "unlink"]_lockVars

\* Only a lock whose owner is dead is ever judged stale, and only from its own host.
OnlyTheDeadAreJudged ==
  \A p \in Procs : pc[p] = "steal" => ~alive[body[p]] /\ hostOf[body[p]] = hostOf[p]

\* A dead owner's lock keeps nobody out: a process of its host that is left alone
\* with it gets the lock in its two attempts.
Alone(p) ==
  /\ \A q \in Procs \ {p} : ~alive[q]
  /\ lock # NoLock => hostOf[lock] = hostOf[p]

DeadLockIsCleared ==
  \A p \in Procs : (pc[p] = "link" /\ attempt[p] = 0 /\ Alone(p)) ~> (Holds(p) \/ ~alive[p])
=============================================================================
