----------------------------- MODULE ReviewLedger -----------------------------
(***************************************************************************)
(* The record of reviews of one branch (review-ledger.ts and its core,     *)
(* round and merge modules) and the lock around its read-modify-rename     *)
(* (review-ledger-lock.ts).  A writer is one call of appendLedgerEntry, in *)
(* any process of the clone; between two file-system calls of one the      *)
(* others run, the lock file ages past the stale window, or the writer's   *)
(* process dies.  A lock file is known by the call that made it.           *)
(*                                                                         *)
(* A row is what the ledger's readers tell apart: its time, its round and  *)
(* its streak of incomplete runs; rows of other branches behave like those *)
(* of the other kind.  Every row was written by this release, and no two   *)
(* at one time.                                                            *)
(***************************************************************************)
EXTENDS Naturals, Sequences, FiniteSets, SequencesExt

CONSTANTS Writers,
          First,      \* a call that is over, or died on its way, before the others begin
          Nobody,     \* no lock file
          Removable   \* may files be unlinked in the ledger's directory?

ASSUME LedgerAssumption == First \in Writers /\ Nobody \notin Writers /\ Removable \in BOOLEAN

Kinds == {"lens", "adversarial"}
Works == {"completed", "incomplete", "carry", "adversarial"}

VARIABLES work,       \* [Writers -> Works]: what the call records
          at,         \* [Writers -> time of the row]
          copied,     \* [Writers -> rows]: what a carry repeats
          pc,
          lock,       \* the lock file
          locked,     \* calls that took the lock
          late,       \* waiters past their bounded wait
          ledger,     \* [Kinds -> rows]: the file
          tmp,        \* [Writers -> rows of a file]: what the call is about to rename in
          clock,
          wrote,      \* history: calls whose rename took
          slips       \* history: what went wrong

vars == <<work, at, copied, pc, lock, locked, late, ledger, tmp, clock, wrote, slips>>

NoLock == [by |-> Nobody, token |-> FALSE, old |-> FALSE]
Empty  == [k \in Kinds |-> <<>>]

Waiting == {"create", "look", "peek", "sweep"}
Inside  == {"read", "rename", "reread", "again"}

KindOf(w) == IF work[w] = "adversarial" THEN "adversarial" ELSE "lens"

Init == /\ work \in {f \in [Writers -> Works] : f[First] = "completed"}
        /\ at = [w \in Writers |-> 0]
        /\ copied = [w \in Writers |-> <<>>]
        /\ pc = [w \in Writers |-> IF w = First THEN "dead" ELSE "idle"]
        /\ lock \in {NoLock} \cup [by : {First}, token : BOOLEAN, old : {FALSE}]
        /\ locked = {} /\ late = {}
        /\ tmp = [w \in Writers |-> Empty]
        /\ clock = 0
        /\ slips = {}
        /\ \/ wrote = {} /\ ledger = Empty
           \/ /\ wrote = {First}
              /\ ledger = [Empty EXCEPT !["lens"] = <<[at |-> 0, round |-> 1, streak |-> 0]>>]

-----------------------------------------------------------------------------
(* Rows: dedupeLatest, bumpLensRound, mergeAfterRace *)

\* The newest row, the last of them in a tie, as a sequence: <<>> for none.
IsNewest(rows, i) ==
  \A j \in DOMAIN rows : rows[j].at < rows[i].at \/ (rows[j].at = rows[i].at /\ j <= i)

latestEntry(rows) ==
  IF rows = <<>> THEN <<>>
  ELSE <<rows[CHOOSE i \in DOMAIN rows : IsNewest(rows, i)]>>

dedupeLatest(file) == [k \in Kinds |-> latestEntry(file[k])]

\* Bug... are seeded faults, each used by a mutant of PROJECT.json and nowhere else.
BugBump(w, rows) ==
  LET prev == latestEntry(rows)
  IN  [at |-> at[w], round |-> IF prev = <<>> THEN 1 ELSE prev[1].round + 1, streak |-> 0]

\* A completed review is the next round; an incomplete one lengthens the streak at the
\* round it found; a carry repeats the round of the row it copied.
bumpLensRound(w, rows) ==
  LET prev  == latestEntry(rows)
      first == prev = <<>>
  IN  CASE work[w] = "adversarial" -> [at |-> at[w], round |-> 0, streak |-> 0]
        [] work[w] = "carry" -> [at |-> at[w], round |-> copied[w][1].round, streak |-> 0]
        [] work[w] = "completed" ->
             [at |-> at[w], round |-> IF first THEN 1 ELSE prev[1].round + 1, streak |-> 0]
        [] work[w] = "incomplete" ->
             [at |-> at[w], round |-> IF first THEN 1 ELSE prev[1].round,
              streak |-> IF first THEN 1 ELSE prev[1].streak + 1]

With(w, file, kept) ==
  [kept EXCEPT ![KindOf(w)] = Append(@, bumpLensRound(w, file[KindOf(w)]))]

\* The happy path pushes after the dedupe, the fallback before it.
Appended(w, file) == LET kept == dedupeLatest(file) IN With(w, kept, kept)
mergeAfterRace(w, file) == dedupeLatest(With(w, file, file))

-----------------------------------------------------------------------------
(* acquireLedgerLock *)

Goto(w, from, to) == pc[w] = from /\ pc' = [pc EXCEPT ![w] = to]

rows == <<work, at, copied, ledger, tmp, clock, wrote>>

AtPath == lock.by # Nobody

\* The row gets its time, a carry its copy, before the lock is asked for.
Start(w) ==
  /\ Goto(w, "idle", "create")
  /\ work[w] = "carry" => ledger["lens"] # <<>>
  /\ copied' = [copied EXCEPT ![w] = IF work[w] = "carry" THEN latestEntry(ledger["lens"]) ELSE <<>>]
  /\ at' = [at EXCEPT ![w] = clock + 1] /\ clock' = clock + 1
  /\ UNCHANGED <<work, lock, locked, late, ledger, tmp, wrote, slips>>

BugCreate(w) ==
  /\ Goto(w, "create", "publish")
  /\ lock' = [by |-> w, token |-> FALSE, old |-> FALSE]
  /\ UNCHANGED <<rows, locked, late, slips>>

Create(w) ==
  /\ ~AtPath
  /\ Goto(w, "create", "publish")
  /\ lock' = [by |-> w, token |-> FALSE, old |-> FALSE]
  /\ UNCHANGED <<rows, locked, late, slips>>

\* The token goes to the file descriptor, wherever the file is by now.
Publish(w) ==
  /\ Goto(w, "publish", "read")
  /\ lock' = IF lock.by = w THEN [lock EXCEPT !.token = TRUE] ELSE lock
  /\ locked' = locked \cup {w} /\ late' = late \ {w}
  /\ UNCHANGED <<rows, slips>>

\* What the call knew is gone.
Forget(w) ==
  /\ locked' = locked \ {w} /\ late' = late \ {w}
  /\ copied' = [copied EXCEPT ![w] = <<>>]
  /\ tmp' = [tmp EXCEPT ![w] = Empty]
  /\ at' = IF w \in wrote THEN at ELSE [at EXCEPT ![w] = 0]
  /\ UNCHANGED <<work, ledger, clock, wrote>>

\* The no-op release: the caller goes on without the lock.
Degrade(w, from) ==
  /\ Goto(w, from, "read")
  /\ slips' = slips \cup {"unlocked"}
  /\ late' = late \ {w}
  /\ UNCHANGED <<rows, lock, locked>>

\* Any other error than EEXIST; when the write of the token fails its file stays.
Unavailable(w) == \E from \in {"create", "publish"} : Degrade(w, from)

Taken(w) ==
  /\ AtPath
  /\ Goto(w, "create", "look")
  /\ UNCHANGED <<rows, lock, locked, late, slips>>

\* sweepIfStale said no: the create again after the poll, or none any more.
BugGiveWay(w, from) ==
  /\ Goto(w, from, "create")
  /\ UNCHANGED <<rows, lock, locked, late, slips>>

GiveWay(w, from) ==
  \/ w \in late /\ Degrade(w, from)
  \/ /\ w \notin late /\ Goto(w, from, "create")
     /\ UNCHANGED <<rows, lock, locked, late, slips>>

Exists(w) ==
  /\ AtPath
  /\ Goto(w, "look", "peek")
  /\ UNCHANGED <<rows, lock, locked, late, slips>>

Vanished(w) == ~AtPath /\ GiveWay(w, "look")

\* A file that is gone or has no token yet does not parse, and counts as stale.
Fresh == AtPath /\ lock.token /\ ~lock.old

Condemn(w) ==
  /\ ~Fresh
  /\ Goto(w, "peek", "sweep")
  /\ UNCHANGED <<rows, lock, locked, late, slips>>

Spare(w) == Fresh /\ GiveWay(w, "peek")

\* The file goes, whoever made it.
Unlinked(w, others) ==
  /\ lock' = IF Removable THEN NoLock ELSE lock
  /\ slips' = IF Removable /\ \E v \in others : lock.by = v /\ pc[v] \in {"publish"} \cup Inside
              THEN slips \cup {"robbed"} ELSE slips

\* Back to the create at once, whether or not the unlink worked.
Sweep(w) ==
  /\ Goto(w, "sweep", "create")
  /\ Unlinked(w, Writers)
  /\ UNCHANGED <<rows, locked, late>>

-----------------------------------------------------------------------------
(* appendLedgerEntry under the lock, or without it *)

BugRead(w) ==
  /\ Goto(w, "read", "rename")
  /\ tmp' = [tmp EXCEPT ![w] = With(w, ledger, Empty)]
  /\ UNCHANGED <<work, at, copied, lock, locked, late, ledger, clock, wrote, slips>>

Read(w) ==
  /\ Goto(w, "read", "rename")
  /\ tmp' = [tmp EXCEPT ![w] = Appended(w, ledger)]
  /\ UNCHANGED <<work, at, copied, lock, locked, late, ledger, clock, wrote, slips>>

\* Any error of the read counts as no rows.
ReadFails(w) ==
  /\ Goto(w, "read", "rename")
  /\ tmp' = [tmp EXCEPT ![w] = Appended(w, Empty)]
  /\ slips' = slips \cup {"blind"}
  /\ UNCHANGED <<work, at, copied, lock, locked, late, ledger, clock, wrote>>

\* Not built on the newest row: it is older, or it repeats an older one.
Overtaken(w) ==
  \E r \in ToSet(latestEntry(ledger[KindOf(w)])) :
    at[w] < r.at \/ (work[w] = "carry" /\ copied[w] # <<r>>)

Rename(w) ==
  /\ \E from \in {"rename", "again"} : Goto(w, from, "release")
  /\ ledger' = tmp[w]
  /\ tmp' = [tmp EXCEPT ![w] = Empty]
  /\ wrote' = wrote \cup {w}
  /\ slips' = IF Overtaken(w) THEN slips \cup {"overtaken"} ELSE slips
  /\ UNCHANGED <<work, at, copied, lock, locked, late, clock>>

RenameFails(w) ==
  /\ Goto(w, "rename", "reread")
  /\ UNCHANGED <<rows, lock, locked, late, slips>>

Reread(w) ==
  /\ Goto(w, "reread", "again")
  /\ tmp' = [tmp EXCEPT ![w] = mergeAfterRace(w, ledger)]
  /\ UNCHANGED <<work, at, copied, lock, locked, late, ledger, clock, wrote, slips>>

\* As in ReadFails: whatever the file holds is dropped.
RereadFails(w) ==
  /\ Goto(w, "reread", "again")
  /\ tmp' = [tmp EXCEPT ![w] = mergeAfterRace(w, Empty)]
  /\ slips' = slips \cup {"blind"}
  /\ UNCHANGED <<work, at, copied, lock, locked, late, ledger, clock, wrote>>

\* The write of the temporary file or the second rename fails: no row.
WriteFails(w) ==
  /\ \E from \in {"rename", "again"} : Goto(w, from, "release")
  /\ tmp' = [tmp EXCEPT ![w] = Empty]
  /\ UNCHANGED <<work, at, copied, lock, locked, late, ledger, clock, wrote, slips>>

\* releaseIfOurs: read, compare, unlink by path.
Ours(w) == w \in locked /\ lock.by = w /\ lock.token

Release(w) ==
  /\ Ours(w) /\ Goto(w, "release", "unlink")
  /\ UNCHANGED <<rows, lock, locked, late, slips>>

ReleaseNothing(w) ==
  /\ ~Ours(w) /\ Goto(w, "release", "done")
  /\ Forget(w)
  /\ UNCHANGED <<lock, slips>>

Unlink(w) ==
  /\ Goto(w, "unlink", "done")
  /\ Unlinked(w, Writers \ {w})
  /\ Forget(w)

-----------------------------------------------------------------------------
(* The environment *)

Crash(w) ==
  /\ pc[w] \notin {"idle", "done", "dead"}
  /\ pc' = [pc EXCEPT ![w] = "dead"]
  /\ Forget(w)
  /\ UNCHANGED <<lock, slips>>

\* Past the stale window.
Age ==
  /\ lock.token /\ ~lock.old
  /\ lock' = [lock EXCEPT !.old = TRUE]
  /\ UNCHANGED <<rows, pc, locked, late, slips>>

\* Past the bounded wait.
Deadline(w) ==
  /\ pc[w] \in Waiting /\ w \notin late
  /\ late' = late \cup {w}
  /\ UNCHANGED <<rows, pc, lock, locked, slips>>

Step(w) == \/ Create(w) \/ Taken(w) \/ Exists(w) \/ Vanished(w) \/ Condemn(w) \/ Spare(w)
           \/ Sweep(w) \/ Publish(w)
           \/ Read(w) \/ Rename(w) \/ Reread(w) \/ Release(w)
           \/ ReleaseNothing(w) \/ Unlink(w)

Fault(w) == \/ Unavailable(w) \/ ReadFails(w) \/ RenameFails(w) \/ RereadFails(w)
            \/ WriteFails(w) \/ Crash(w)

Next == Age \/ \E w \in Writers \ {First} : Start(w) \/ Step(w) \/ Fault(w) \/ Deadline(w)

Spec == Init /\ [][Next]_vars

\* Every process goes on running its calls, and time passes for the waiters.
FairSpec == Spec /\ \A w \in Writers \ {First} : WF_vars(Step(w)) /\ WF_vars(Deadline(w))

-----------------------------------------------------------------------------
(* Properties *)

\* Two calls that took the lock are never both inside, unless one was robbed: swept past
\* the stale window, before its token was written, or in the gap between a look at the
\* lock and its removal (review-ledger-lock.ts:89-212).
OneWriterInside ==
  "robbed" \notin slips =>
    \A v, w \in locked : pc[v] \in Inside /\ pc[w] \in Inside => v = w

\* A review does not vanish: with every writer locked and unrobbed and every read whole,
\* what the merge guard reads is never older than a review that was recorded, in whatever
\* order the calls got in (review-ledger.ts:34-38).
ReviewsDoNotVanish ==
  slips \subseteq {"overtaken"} =>
    \A w \in wrote : \E r \in ToSet(latestEntry(ledger[KindOf(w)])) : r.at >= at[w]

\* The round counts the completed reviews, or runs one ahead of them, as it does when the
\* first run of the branch was incomplete; a carry counts for nothing
\* (review-ledger-round.ts:16-44).  It does so as long as the calls get in in the order of
\* their times.
RoundCountsReviews ==
  slips = {} =>
    LET done == Cardinality({w \in wrote : work[w] = "completed"})
    IN  \A r \in ToSet(latestEntry(ledger["lens"])) : r.round \in done..(done + 1)

\* Never blocks long: a call that asked for the lock records its row, with or without the
\* lock, or fails (review-ledger-lock.ts:25).
CallsReturn == \A w \in Writers : []<>(pc[w] \in {"idle", "done", "dead"})
=============================================================================
