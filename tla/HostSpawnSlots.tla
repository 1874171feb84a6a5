--------------------------- MODULE HostSpawnSlots ---------------------------
(***************************************************************************)
(* The host-wide ceiling on child processes (host-spawn-slots.ts): a file  *)
(* per slot, claimed by a hard link, taken back from dead holders and from *)
(* silent foreign ones under a per-slot reap lock.  A step is one call on  *)
(* the file system; other processes and crashes come between any two.      *)
(*                                                                         *)
(* Time is what the two clocks of the code read of it: a reap lock is      *)
(* fresh or old (10 s), a slot fresh or silent (the lease).  Both pass     *)
(* only over a process that is dead or stopped (SIGSTOP): a live one       *)
(* leaves the reap lock within its synchronous call and beats every 60 s.  *)
(* Bound: one child per process; the slot directory is usable.             *)
(***************************************************************************)
EXTENDS Naturals, FiniteSets

CONSTANTS Procs,      \* owner identities
          Spaces,     \* host and pid namespace
          spaceOf,    \* [Procs -> Spaces]
          CAP,        \* hostSpawnCap()
          NoFile,
          MAX_STOPS   \* bound: how often a process is stopped

ASSUME HostAssumption ==
  /\ spaceOf \in [Procs -> Spaces] /\ NoFile \notin Procs
  /\ CAP \in Nat \ {0} /\ MAX_STOPS \in Nat

Slots == 0..(CAP - 1)

VARIABLES slot,       \* [Slots -> body]
          silent,     \* [Slots -> BOOLEAN]: past the lease
          reapLock,   \* [Slots -> {"none", "fresh", "old"}]
          pc, at,     \* where each process stands, and at which slot
          kept,       \* processes whose slot is in their held set: it is beaten for
          alive, stopped, stops,
          lockLost,   \* history: a reap lock was taken from under a live process
          overslept   \* history: a holder was stopped past its lease and went on

vars == <<slot, silent, reapLock, pc, at, kept, alive, stopped, stops, lockLost, overslept>>

PCs == {"idle", "link", "judge", "lock", "clear", "relock", "reap", "unlink", "unlock",
        "unlockFailed", "relink", "wait", "running", "unbounded", "release", "dead"}

TypeOK ==
  /\ slot \in [Slots -> Procs \cup {NoFile}]
  /\ silent \in [Slots -> BOOLEAN]
  /\ reapLock \in [Slots -> {"none", "fresh", "old"}]
  /\ pc \in [Procs -> PCs] /\ at \in [Procs -> Slots]
  /\ kept \subseteq Procs
  /\ alive \in [Procs -> BOOLEAN] /\ stopped \subseteq Procs
  /\ stops \in 0..MAX_STOPS
  /\ lockLost \in BOOLEAN /\ overslept \in BOOLEAN

Init ==
  /\ slot = [s \in Slots |-> NoFile]
  /\ silent = [s \in Slots |-> FALSE]
  /\ reapLock = [s \in Slots |-> "none"]
  /\ pc = [p \in Procs |-> "idle"] /\ at = [p \in Procs |-> 0]
  /\ kept = {} /\ stopped = {} /\ stops = 0
  /\ alive = [p \in Procs |-> TRUE]
  /\ lockLost = FALSE /\ overslept = FALSE

Goto(p, from, to) == pc[p] = from /\ p \notin stopped /\ pc' = [pc EXCEPT ![p] = to]

\* A file that goes takes its age along; a call that returns, the slot it looked at.
NoMore(s) == slot' = [slot EXCEPT ![s] = NoFile] /\ silent' = [silent EXCEPT ![s] = FALSE]
Forget(p) == at' = [at EXCEPT ![p] = 0]

Files  == <<slot, silent>>
Host   == <<alive, stopped, stops, overslept>>

-----------------------------------------------------------------------------
(* tryClaim *)

Ask(p) ==
  /\ Goto(p, "idle", "link")
  /\ UNCHANGED <<Files, reapLock, at, kept, Host, lockLost>>

\* link: the slot appears with its body in it; the claimer holds and beats it.
Claim(p, from) ==
  /\ slot[at[p]] = NoFile
  /\ Goto(p, from, "running")
  /\ slot' = [slot EXCEPT ![at[p]] = p]
  /\ silent' = [silent EXCEPT ![at[p]] = FALSE]
  /\ kept' = kept \cup {p}
  /\ UNCHANGED <<reapLock, at, Host, lockLost>>

Occupied(p) ==
  /\ slot[at[p]] # NoFile
  /\ Goto(p, "link", "judge")
  /\ UNCHANGED <<Files, reapLock, at, kept, Host, lockLost>>

\* Bug... are seeded faults, each used by mutants of PROJECT.json and nowhere else.
\* On to the next slot, or a poll later to the first.
NextSlot(p, from) ==
  /\ Goto(p, from, IF at[p] + 1 = CAP THEN "wait" ELSE "link")
  /\ at' = [at EXCEPT ![p] = (@ + 1) % CAP]
  /\ UNCHANGED <<Files, reapLock, kept, Host, lockLost>>

BugLeaseForAll(p, s) ==
  slot[s] # NoFile /\ (silent[s] \/ (spaceOf[slot[s]] = spaceOf[p] /\ ~alive[slot[s]]))

\* judgeOwner, then the lease: a holder of one's own space is settled by its pid alone.
Reclaimable(p, s) ==
  /\ slot[s] # NoFile
  /\ IF spaceOf[slot[s]] = spaceOf[p] THEN ~alive[slot[s]] ELSE silent[s]

JudgeTakes(p) ==
  /\ Reclaimable(p, at[p])
  /\ Goto(p, "judge", "lock")
  /\ UNCHANGED <<Files, reapLock, at, kept, Host, lockLost>>

JudgePasses(p) == ~Reclaimable(p, at[p]) /\ NextSlot(p, "judge")

-----------------------------------------------------------------------------
(* reap *)

SetLock(p, to, l) ==
  /\ reapLock' = [reapLock EXCEPT ![at[p]] = l]
  /\ UNCHANGED <<Files, at, kept, Host>>

BugLockIgnored(p) ==
  /\ Goto(p, "lock", "reap")
  /\ SetLock(p, "reap", "fresh")
  /\ UNCHANGED lockLost

\* mkdir, and the age of the lock when it stands.
Lock(p) ==
  \/ /\ reapLock[at[p]] = "none"
     /\ Goto(p, "lock", "reap") /\ SetLock(p, "reap", "fresh") /\ UNCHANGED lockLost
  \/ /\ reapLock[at[p]] = "fresh"
     /\ Goto(p, "lock", "relink")
     /\ UNCHANGED <<Files, reapLock, at, kept, Host, lockLost>>
  \/ /\ reapLock[at[p]] = "old"
     /\ Goto(p, "lock", "clear")
     /\ UNCHANGED <<Files, reapLock, at, kept, Host, lockLost>>

BugOldLockKept(p) ==
  /\ Goto(p, "clear", "relink")
  /\ UNCHANGED <<Files, reapLock, at, kept, Host, lockLost>>

\* An old lock is removed and made anew; either call failing gives the slot up.
Clear(p) ==
  \/ /\ reapLock[at[p]] # "none"
     /\ Goto(p, "clear", "relock") /\ SetLock(p, "relock", "none")
     /\ lockLost' = (lockLost \/ reapLock[at[p]] = "fresh")
  \/ /\ reapLock[at[p]] = "none"
     /\ Goto(p, "clear", "relink")
     /\ UNCHANGED <<Files, reapLock, at, kept, Host, lockLost>>

Relock(p) ==
  \/ /\ reapLock[at[p]] = "none"
     /\ Goto(p, "relock", "reap") /\ SetLock(p, "reap", "fresh") /\ UNCHANGED lockLost
  \/ /\ reapLock[at[p]] # "none"
     /\ Goto(p, "relock", "relink")
     /\ UNCHANGED <<Files, reapLock, at, kept, Host, lockLost>>

\* Body and age are read again under the lock ...
Rejudge(p) ==
  /\ Goto(p, "reap", IF Reclaimable(p, at[p]) THEN "unlink" ELSE "unlock")
  /\ UNCHANGED <<Files, reapLock, at, kept, Host, lockLost>>

\* ... and the file removed, whichever it is by then; a file that is gone throws.
Unlink(p) ==
  /\ Goto(p, "unlink", IF slot[at[p]] = NoFile THEN "unlockFailed" ELSE "unlock")
  /\ NoMore(at[p])
  /\ UNCHANGED <<reapLock, at, kept, Host, lockLost>>

\* The finally block removes the lock that stands there.
Unlock(p) ==
  /\ Goto(p, "unlock", "relink")
  /\ SetLock(p, "relink", "none") /\ UNCHANGED lockLost

\* A claim that threw runs its child without a slot.
FailOpen(p) ==
  /\ Goto(p, "unlockFailed", "unbounded")
  /\ reapLock' = [reapLock EXCEPT ![at[p]] = "none"]
  /\ Forget(p)
  /\ UNCHANGED <<Files, kept, Host, lockLost>>

RelinkFails(p) == slot[at[p]] # NoFile /\ NextSlot(p, "relink")

-----------------------------------------------------------------------------
(* Waiting, holding, releasing *)

Poll(p) == /\ Goto(p, "wait", "link")
           /\ UNCHANGED <<Files, reapLock, at, kept, Host, lockLost>>

\* The wait bound passed, or the caller aborted: the spawn fails.
StopWaiting(p) == /\ Goto(p, "wait", "idle")
                  /\ UNCHANGED <<Files, reapLock, at, kept, Host, lockLost>>

Beat(p) ==
  /\ p \in kept /\ p \notin stopped
  /\ IF slot[at[p]] = p
     THEN silent' = [silent EXCEPT ![at[p]] = FALSE] /\ UNCHANGED kept
     ELSE kept' = kept \ {p} /\ UNCHANGED silent
  /\ UNCHANGED <<slot, reapLock, pc, at, Host, lockLost>>

\* The child settles: read the body, and unlink the slot if it is still one's own.
ReleaseRead(p) ==
  /\ Goto(p, "running", IF slot[at[p]] = p THEN "release" ELSE "idle")
  /\ kept' = kept \ {p}
  /\ IF slot[at[p]] = p THEN UNCHANGED at ELSE Forget(p)
  /\ UNCHANGED <<Files, reapLock, Host, lockLost>>

Release(p) ==
  /\ Goto(p, "release", "idle")
  /\ NoMore(at[p]) /\ Forget(p)
  /\ UNCHANGED <<reapLock, kept, Host, lockLost>>

UnboundedEnds(p) == /\ Goto(p, "unbounded", "idle")
                    /\ UNCHANGED <<Files, reapLock, at, kept, Host, lockLost>>

-----------------------------------------------------------------------------
(* The host: kill -9, SIGSTOP and SIGCONT, and the two clocks *)

Die(p) ==
  /\ alive[p]
  /\ alive' = [alive EXCEPT ![p] = FALSE]
  /\ pc' = [pc EXCEPT ![p] = "dead"]
  /\ kept' = kept \ {p} /\ stopped' = stopped \ {p}
  /\ Forget(p)
  /\ UNCHANGED <<Files, reapLock, stops, lockLost, overslept>>

Stop(p) ==
  /\ alive[p] /\ p \notin stopped /\ stops < MAX_STOPS
  /\ stopped' = stopped \cup {p} /\ stops' = stops + 1
  /\ UNCHANGED <<Files, reapLock, pc, at, kept, alive, lockLost, overslept>>

PastItsLease(p) == pc[p] \in {"running", "release"} /\ (slot[at[p]] # p \/ silent[at[p]])

Continue(p) ==
  /\ p \in stopped /\ stopped' = stopped \ {p}
  /\ overslept' = (overslept \/ PastItsLease(p))
  /\ UNCHANGED <<Files, reapLock, pc, at, kept, alive, stops, lockLost>>

FallsSilent(s) ==
  /\ slot[s] # NoFile /\ ~silent[s]
  /\ ~alive[slot[s]] \/ slot[s] \in stopped
  /\ silent' = [silent EXCEPT ![s] = TRUE]
  /\ UNCHANGED <<slot, reapLock, pc, at, kept, Host, lockLost>>

Reaping(p, s) == pc[p] \in {"reap", "unlink", "unlock", "unlockFailed"} /\ at[p] = s

LockAges(s) ==
  /\ reapLock[s] = "fresh"
  /\ \A p \in Procs : Reaping(p, s) => p \in stopped
  /\ reapLock' = [reapLock EXCEPT ![s] = "old"]
  /\ lockLost' = (lockLost \/ \E p \in Procs : Reaping(p, s))
  /\ UNCHANGED <<Files, pc, at, kept, Host>>

-----------------------------------------------------------------------------
Claiming(p) ==
  \/ Claim(p, "link") \/ Occupied(p) \/ JudgeTakes(p) \/ JudgePasses(p)
  \/ Lock(p) \/ Clear(p) \/ Relock(p) \/ Rejudge(p) \/ Unlink(p) \/ Unlock(p)
  \/ FailOpen(p) \/ Claim(p, "relink") \/ RelinkFails(p) \/ Poll(p)

Clocks == \E s \in Slots : FallsSilent(s) \/ LockAges(s)

Next ==
  \/ Clocks
  \/ \E p \in Procs : \/ Ask(p) \/ Claiming(p) \/ StopWaiting(p) \/ Beat(p)
                      \/ ReleaseRead(p) \/ Release(p) \/ UnboundedEnds(p)
                      \/ Die(p) \/ Stop(p) \/ Continue(p)

Spec == Init /\ [][Next]_vars

\* Of the live processes asking, some one goes on: which is enough for a process alone.
\* Time passes.
FairSpec == Spec /\ WF_vars(Clocks) /\ WF_vars(\E p \in Procs : Claiming(p))

-----------------------------------------------------------------------------
(* Properties *)

Bounded   == { p \in Procs : pc[p] \in {"running", "release"} }
Unbounded == { p \in Procs : pc[p] = "unbounded" }

InOrder == ~lockLost /\ ~overslept

\* The host runs at most CAP children, not counting a holder that is stopped: each has
\* its own slot file, and none runs without, short of a lost reap lock and of a holder
\* that woke past its lease.
CapHoldsInOrder ==
  InOrder => /\ \A p \in Bounded \ stopped : slot[at[p]] = p
             /\ Unbounded = {}

\* At most one process is between reading a slot under its reap lock and giving the lock
\* back, whoever died before it there.
OneReaperPerSlot ==
  ~lockLost => \A p, q \in Procs : \A s \in Slots : Reaping(p, s) /\ Reaping(q, s) => p = q

\* A live holder's slot goes by its own release; or, while it is stopped, on the lease,
\* to a process that could not have judged it by its pid.
LiveSlotsStay ==
  [][\A s \in Slots : LET q == slot[s] IN
       q # NoFile /\ slot'[s] # q /\ alive[q] /\ InOrder =>
         \/ pc[q] = "release"
         \/ q \in stopped /\ \E p \in Procs : /\ pc[p] = "unlink" /\ pc'[p] # "unlink"
                                             /\ at[p] = s /\ spaceOf[p] # spaceOf[q]]_vars

\* The process left alone, if one is.
Alone == { p \in Procs : alive[p] /\ \A q \in Procs \ {p} : ~alive[q] }

\* What dead holders and dead reapers leave behind keeps nobody out for ever: a process
\* left alone on the host gets its slot or gives up, unless it is stopped itself.
AloneGetsIn ==
  (\E p \in Alone : pc[p] = "link")
    ~> (\A p \in Alone : pc[p] \in {"running", "idle"} \/ p \in stopped)
=============================================================================
