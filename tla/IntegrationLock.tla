--------------------------- MODULE IntegrationLock ---------------------------
(***************************************************************************)
(* The lock every cycle takes around the integration of its workstreams    *)
(* (work-driver-lock.ts), with the sweep of corpses of stale-lock-sweep.ts *)
(* under its two options.  Within a process the calls are chained, so a    *)
(* process makes one at a time; between any two file-system calls of one   *)
(* process the others run, the file ages, or the process dies.  A file is  *)
(* known by its inode, which is not reused while a process remembers it;   *)
(* the token in it names its maker.  A process id is not recycled.  Age is *)
(* read three ways: young, past the publish grace (1), past the stale      *)
(* window (2).  Calls that nothing can come between in effect are one      *)
(* step: a stat and the read after it, whose inode and bytes are compared  *)
(* again, and the sweep's verdict and the check of the deadline.  Any of   *)
(* these calls may fail.                                                   *)
(***************************************************************************)
EXTENDS Naturals

CONSTANTS Procs,
          FILES       \* bound: inodes; two for each process and one more suffice

ASSUME LockAssumption == FILES \in Nat

VARIABLES file,       \* what stands at the lock path
          pc,         \* [Procs -> ...]
          mine,       \* [Procs -> inode]: the file this call created
          sees,       \* [Procs -> inode and whether it had a token]: what the sweep judges
          stood,      \* waiters that found the present file when their wait began
          late,       \* waiters past their deadline
          alive,
          robbed,     \* history: callers whose file another removed, past its bound or in a gap
          handed,     \* history: callers whose file their own runner took back
          erred       \* history: callers whose last sweep failed on an error, not on a verdict

vars == <<file, pc, mine, sees, stood, late, alive, robbed, handed, erred>>

\* The token names its maker.
NoFile == [ino |-> 0, token |-> FALSE, age |-> 0, by |-> {}]
Nothing == [ino |-> 0, token |-> FALSE]

Sweeping == {"look", "recheck", "unlink"}
Waiting == {"create", "wait"} \cup Sweeping
PCs == {"idle", "publish", "undo", "held", "exit", "overrun", "release", "remove", "unlocked"}
         \cup Waiting

TypeOK ==
  /\ file \in [ino : 0..FILES, token : BOOLEAN, age : 0..2, by : SUBSET Procs]
  /\ pc \in [Procs -> PCs]
  /\ mine \in [Procs -> 0..FILES]
  /\ sees \in [Procs -> [ino : 0..FILES, token : BOOLEAN]]
  /\ stood \subseteq Procs /\ late \subseteq Procs /\ alive \subseteq Procs
  /\ robbed \subseteq Procs /\ handed \subseteq Procs /\ erred \subseteq Procs

Init == /\ file = NoFile
        /\ pc = [p \in Procs |-> "idle"]
        /\ mine = [p \in Procs |-> 0]
        /\ sees = [p \in Procs |-> Nothing]
        /\ stood = {} /\ late = {} /\ alive = Procs
        /\ robbed = {} /\ handed = {} /\ erred = {}

Goto(p, from, to) == p \in alive /\ pc[p] = from /\ pc' = [pc EXCEPT ![p] = to]

AtPath == file.ino # 0
Owns(p) == AtPath /\ file.ino = mine[p]

\* Calls that do not concern the sweep leave this alone.
judging == <<sees, stood, late>>
history == <<robbed, handed, erred>>

-----------------------------------------------------------------------------
(* acquireLockfile: the exclusive create and the token *)

\* The call is over: what it knew is gone.
Forget(p) == /\ mine' = [mine EXCEPT ![p] = 0]
             /\ sees' = [sees EXCEPT ![p] = Nothing]
             /\ stood' = stood \ {p} /\ late' = late \ {p}
             /\ handed' = handed \ {p}

\* What stands at the path is left there.
Leaves(p) == /\ Forget(p)
             /\ robbed' = robbed \ {p}
             /\ UNCHANGED <<file, alive, erred>>

\* The file goes, whoever made it.  When is true if p cannot help it: the file was replaced
\* after the last look at it, or had outlived its bound.
Robs(p, when) == {q \in alive \ {p} : when /\ AtPath /\ mine[q] = file.ino}

Removal(p) == /\ file' = NoFile
              /\ robbed' = (robbed \cup Robs(p, ~Owns(p))) \ {p}
              /\ Forget(p)
              /\ UNCHANGED <<alive, erred>>

Acquire(p) ==
  /\ Goto(p, "idle", "create")
  /\ stood' = IF AtPath THEN stood \cup {p} ELSE stood
  /\ erred' = erred \ {p}
  /\ UNCHANGED <<file, mine, sees, late, alive, robbed, handed>>

Fresh == CHOOSE i \in 1..FILES : \A p \in Procs : i \notin {mine[p], sees[p].ino}

Create(p) ==
  /\ ~AtPath /\ \E i \in 1..FILES : \A q \in Procs : i \notin {mine[q], sees[q].ino}
  /\ Goto(p, "create", "publish")
  /\ file' = [ino |-> Fresh, token |-> FALSE, age |-> 0, by |-> {p}]
  /\ mine' = [mine EXCEPT ![p] = Fresh]
  /\ stood' = {} /\ late' = late \ {p} /\ erred' = erred \ {p}
  /\ UNCHANGED <<sees, alive, robbed, handed>>

\* Any other error than EEXIST: the section runs unlocked.
CreateFails(p) == Goto(p, "create", "unlocked") /\ Leaves(p)

\* The token goes to the file descriptor, whether or not the path still has the file.
Publish(p) ==
  /\ Goto(p, "publish", "held")
  /\ file' = IF Owns(p) THEN [file EXCEPT !.token = TRUE] ELSE file
  /\ UNCHANGED <<mine, judging, alive, history>>

\* The write throws, and the path still has the file: unlinkIfStillOurs.
PublishFails(p) ==
  /\ Owns(p) /\ Goto(p, "publish", "undo")
  /\ UNCHANGED <<file, mine, judging, alive, history>>

Undo(p) == Goto(p, "undo", "unlocked") /\ Removal(p)

\* The cleanup throws in its turn: the file stays, without a token.
UndoFails(p) == Goto(p, "undo", "unlocked") /\ Leaves(p)

\* The write throws, and a sweep has taken the file.
PublishFailsRobbed(p) == ~Owns(p) /\ Goto(p, "publish", "unlocked") /\ Leaves(p)

-----------------------------------------------------------------------------
(* The sweep, and the wait *)

Exists(p) ==
  /\ AtPath
  /\ Goto(p, "create", "look")
  /\ erred' = erred \ {p}
  /\ UNCHANGED <<file, mine, judging, alive, robbed, handed>>

Dead(f) == f.by \cap alive = {}

\* Bug... are seeded faults, each used by a mutant of PROJECT.json and nowhere else.
BugOverdue(f) == f.token /\ f.age = 2

\* Past its bound: the stale window, or the grace for a file without a token.
Overdue(f) == IF f.token THEN f.age = 2 ELSE f.age >= 1

\* Only a token can name a dead process.
Corpse(f) == Overdue(f) \/ (f.token /\ Dead(f))

Seen == [ino |-> file.ino, token |-> file.token]

Look(p) ==
  /\ AtPath /\ Corpse(file) /\ Goto(p, "look", "recheck")
  /\ sees' = [sees EXCEPT ![p] = Seen]
  /\ UNCHANGED <<file, mine, stood, late, alive, history>>

\* The verdict is not "stale": poll, or go on unlocked when the wait has outlived the
\* stale window.
Alive(p, at) ==
  /\ \/ /\ p \notin late /\ Goto(p, at, "wait")
        /\ sees' = [sees EXCEPT ![p] = Nothing]
        /\ UNCHANGED <<mine, stood, late, handed>>
     \/ /\ p \in late /\ Goto(p, at, "unlocked")
        /\ Forget(p)
  /\ UNCHANGED <<file, alive, robbed>>

LookAlive(p) == ~(AtPath /\ Corpse(file)) /\ Alive(p, "look") /\ UNCHANGED erred

BugRecheck(p) ==
  /\ AtPath /\ Goto(p, "recheck", "unlink")
  /\ sees' = [sees EXCEPT ![p] = Seen]
  /\ UNCHANGED <<file, mine, stood, late, alive, history>>

\* deleteIfStillThere: the same inode with the same bytes.
Recheck(p) ==
  /\ Seen = sees[p] /\ Goto(p, "recheck", "unlink")
  /\ UNCHANGED <<file, mine, judging, alive, history>>

RecheckFails(p) == Seen # sees[p] /\ Alive(p, "recheck") /\ UNCHANGED erred

\* The unlink is by path: it takes what stands there now.
Unlink(p) ==
  /\ AtPath /\ Goto(p, "unlink", "create")
  /\ file' = NoFile
  /\ robbed' = robbed \cup Robs(p, Seen # sees[p] \/ Overdue(file))
  /\ sees' = [sees EXCEPT ![p] = Nothing]
  /\ UNCHANGED <<mine, stood, late, alive, handed, erred>>

UnlinkFails(p) == ~AtPath /\ Alive(p, "unlink") /\ UNCHANGED erred

\* The file stands, and the system refuses to read, to read again or to unlink it: no
\* errno is a verdict "stale".
SweepFails(p) ==
  \E at \in Sweeping : AtPath /\ Alive(p, at) /\ erred' = erred \cup {p}

\* After the poll interval.
Retry(p) ==
  /\ Goto(p, "wait", "create")
  /\ UNCHANGED <<file, mine, judging, alive, history>>

-----------------------------------------------------------------------------
(* Release *)

\* Of a lock the call holds, or held until its own runner took it back.
Release(p) ==
  /\ Goto(p, "held", "release") \/ Goto(p, "overrun", "release")
  /\ UNCHANGED <<file, mine, judging, alive, history>>

BugReadToken(p) ==
  /\ Goto(p, "release", "remove")
  /\ UNCHANGED <<file, mine, judging, alive, history>>

ReadToken(p) ==
  /\ Owns(p) /\ file.token /\ Goto(p, "release", "remove")
  /\ UNCHANGED <<file, mine, judging, alive, history>>

\* Another token or none: stolen, says the warning, unless the runner took it back.
ReleaseRobbed(p) == ~(Owns(p) /\ file.token) /\ Goto(p, "release", "idle") /\ Leaves(p)

Remove(p) == Goto(p, "remove", "idle") /\ Removal(p)

\* The read or the removal fails: the file stays, and names a live process.
ReleaseFails(p) ==
  (Goto(p, "release", "idle") \/ Goto(p, "remove", "idle")) /\ Leaves(p)

\* The runner leaves: releaseHeldIntegrationLocks, once for each lock held.
Signal(p) ==
  /\ Owns(p) /\ file.token /\ Goto(p, "held", "exit")
  /\ UNCHANGED <<file, mine, judging, alive, history>>

\* The file goes, and the section is still on the stack.
HandBack(p) ==
  /\ Goto(p, "exit", "overrun")
  /\ file' = NoFile
  /\ robbed' = robbed \cup Robs(p, ~Owns(p))
  /\ handed' = handed \cup {p}
  /\ UNCHANGED <<mine, judging, alive, erred>>

\* The path has another token or none, or the read or the removal fails.
HandBackFails(p) ==
  /\ Goto(p, "held", "overrun") \/ Goto(p, "exit", "overrun")
  /\ UNCHANGED <<file, mine, judging, alive, history>>

Unlocked(p) ==
  /\ Goto(p, "unlocked", "idle")
  /\ UNCHANGED <<file, mine, judging, alive, history>>

-----------------------------------------------------------------------------
(* The environment *)

\* And process.exit, which runs no finally.
Crash(p) ==
  /\ p \in alive /\ alive' = alive \ {p}
  /\ pc' = [pc EXCEPT ![p] = "idle"]
  /\ Forget(p)
  /\ robbed' = robbed \ {p} /\ erred' = erred \ {p}
  /\ UNCHANGED file

Age ==
  /\ AtPath /\ file.age < 2
  /\ file' = [file EXCEPT !.age = @ + 1]
  /\ UNCHANGED <<pc, mine, judging, alive, history>>

\* The deadline is one stale window after the wait began: by then a file that stood
\* there at its beginning is past the window too.
Deadline(p) ==
  /\ p \in alive \ late /\ pc[p] \in Waiting
  /\ (AtPath /\ p \in stood) => file.age = 2
  /\ late' = late \cup {p}
  /\ UNCHANGED <<file, pc, mine, sees, stood, alive, history>>

Step(p) == \/ Create(p) \/ Publish(p) \/ Undo(p)
           \/ Exists(p) \/ Look(p) \/ LookAlive(p) \/ Recheck(p) \/ RecheckFails(p)
           \/ Unlink(p) \/ UnlinkFails(p) \/ Retry(p)
           \/ Release(p) \/ ReadToken(p) \/ ReleaseRobbed(p) \/ Remove(p) \/ HandBack(p)
           \/ Unlocked(p)

Fault(p) == \/ CreateFails(p) \/ PublishFails(p) \/ PublishFailsRobbed(p) \/ UndoFails(p)
            \/ SweepFails(p) \/ ReleaseFails(p) \/ Signal(p) \/ HandBackFails(p) \/ Crash(p)

Next == Age \/ \E p \in Procs : Acquire(p) \/ Step(p) \/ Fault(p) \/ Deadline(p)

Spec == Init /\ [][Next]_vars

-----------------------------------------------------------------------------
(* Properties *)

\* In the section, from the token to the removal of the file or the return.
InSection(p) == p \in alive /\ pc[p] \in {"held", "exit", "overrun", "release", "remove"}

\* Two processes are in the section at a time only if one lost the lock before: robbed of
\* it, past the stale window or in the gap between a last check and the removal it was for
\* (stale-lock-sweep.ts:432), or handed back by a runner that leaves while the section is
\* on the stack (work-driver-lock.ts:62-72, 240).
ExclusiveUnlessLost ==
  \A p, q \in Procs \ (robbed \cup handed) : InSection(p) /\ InSection(q) => p = q

\* Who lost the lock takes nobody else's for it: whoever stands at the path by then, the
\* late release of a robbed section, of one that outlives its hand-back, and the hand-back
\* of a robbed one find another token and remove nothing (work-driver-lock.ts:156-175, 246).
LosersRemoveNothing ==
  [][\A p \in robbed \cup handed :
       pc'[p] \in {"exit", "remove"} => pc'[p] = pc[p]]_vars

\* A waiter outlasts the holder it found when it came, dead or not: by its deadline the
\* sweep convicts that file.  It goes on unlocked past it only if the sweep failed on an
\* error, or found the token written since its first look (work-driver-lock.ts:196-215,
\* stale-lock-sweep.ts:319-326, 437-449).
WaitersOutlastWhomTheyFound ==
  [][\A p \in Procs :
       pc[p] \in Sweeping /\ pc'[p] = "unlocked" /\ AtPath /\ p \in stood =>
         p \in erred' \/ (pc[p] = "recheck" /\ Seen # sees[p])]_vars
=============================================================================
