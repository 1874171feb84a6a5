# A TLA+ development of pi-rukas

This directory specifies, model-checks and proves parts of pi-rukas, the Pi
extension under `src/extension/src` that drives coding agents through a pipeline
from issue to merge. Paths below are relative to `src/extension/src` unless they
start with `src/`. `PROJECT.json` is the index: components, runs, the source lines
of every definition, the seeded faults each property catches, hazards, findings and
theorems.

## The system

| Part | State it keeps | Operations | Talks to |
|---|---|---|---|
| Lean state machine (`lean/machine.ts`, `lean/transitions.ts`) | a position: state and five counters | `next(run, outcome)`: pure | the engine and the fold call it |
| Lean engine (`lean/engine.ts`, `lean/resume.ts`, `lean/deadline.ts`, `lean/state-store.ts`) | one JSON record per issue: snapshot, append-only step log, result, deadline | load, fold, write-ahead, run a handler, settle, apply, stamp | handlers (awaited), the lock, the file system |
| Lean lock (`lean/lock.ts`, `process-liveness.ts`) | one lock file per issue holding its owner's identity | link, read, judge, rename away, unlink | every process that runs `/work-lean` on the issue |
| Lean handlers (`lean/{specify,build,challenge,verify,publish,review,ci,land,...}.ts`) | the worktree, the branch, the PR | one per state; each returns an outcome kind | child agents, git, the forge |
| Lens model slots (`lens-model-slots.ts`) | per-pool counter and FIFO of waiters | take, abort while queued, release | lens review fan-out |
| Spawn semaphore (`spawn-semaphore.ts`) | counter and FIFO of resolvers | `withSpawnSlot` | every child of the process |
| Host spawn slots (`host-spawn-slots.ts`) | slot files and reap-lock directories in a shared directory | claim, judge, reap, heartbeat, release | every pi-rukas process of the host, containers included |
| Integration lock, stale sweep (`work-driver-lock.ts`, `stale-lock-sweep.ts`) | promise chain, lock file | acquire, publish, sweep, go on unlocked, release, hand back on a signal | classic driver's consolidation |
| Review ledger (`review-ledger*.ts`) | a JSON ledger of review rows, its lock file | lock, sweep, read, append, rename, merge after a race, go on unlocked | review rounds of several processes |
| Path claims (`work-driver-path-claims*.ts`) | a JSON list of claims and its lock | write, prune on read, classify | work cycles of several processes |
| Work queue (`work-queue*.ts`) | cursor, owners, wait list, entries, settled, waiters | find cycles, scan, claim, defer, wake, drain, park, halt, summarise | a pool of workers in one process |
| Async jobs (`async-jobs*.ts`, `pending-jobs-signal.ts`) | job registry, batches, the count of messages owed and its generation | start, settle, deliver, stand in, count, shut down, reload | the session, a headless client |
| Decision seam (`decision-seam*.ts`) | none between calls | race of answer, timeout and abort | judges |
| Spawn supervision (`spawn-supervision.ts`, `spawn-watchdog.ts`) | timers and listeners of one child | cap, backstop, abort, exit | `spawn.ts` |
| Adversarial loop, lens review (`adversarial*.ts`, `lens-review*.ts`) | round state | rounds, retries, verdicts | children through the pools above |
| Classic work driver (`work-driver*.ts`, `workflow-state*.ts`) | cycle state file | steps of `/work` | almost everything |
| Rendering, prompts, forge adapters, installers | none | text and I/O | -- |

What is hard about it: processes that die between two writes and are restarted on
what they left; lock files taken from the dead by several others at once; promise
continuations that run later than the event that queued them; children that must be
paid once, comments posted once, and above all a merge that may only happen over a
commit that the run's own gate and the pipeline have both called green.

What makes each part correct:

* machine: a merge only over a certified head; optional steps once; rounds and length
  bounded; a refusal never after money was spent.
* engine: nothing happens that the record does not announce; a crash costs at most one
  repetition; what a crash leaves is accepted again; a finished record is final.
* locks and slots: exclusion or a cap; a live holder is never robbed; the dead keep
  nobody out; waiters are served. Where the code chooses to go on without a lock, exactly
  when that may happen and what still holds then.
* queue: an issue only after what it depends on, never beside what it collides with, one
  outcome for every issue, and an end.
* jobs: one answer for each piece of work, and a count a client can wait on.

## Modules

| Module | Stands for | Composition |
|---|---|---|
| `LeanMachine` | the table as constant-level operators | extended by `LeanWalk` and `LeanEngine` |
| `LeanContract` | what a run promises its caller, the table left out | abstract |
| `LeanWalk` | the walk of decided steps, with the engine's own endings | refines `LeanContract` |
| `LeanEngine` | record, drive, fold, deadline, step cap, crashes | refines `LeanWalk` |
| `LeanLock` | the per-issue lock, one action per system call | |
| `SlotPool` | what pools of slots promise, each on its own | abstract |
| `LensModelSlots` | the host pool and the model pools of lens children | its pools refine `SlotPool` |
| `SpawnSemaphore` | the per-process ceiling on children | |
| `HostSpawnSlots` | the host-wide ceiling, one action per system call | |
| `QueueContract` | what a queue promises for an order and collisions, workers left out | abstract |
| `WorkQueue` | the workers behind `/work` with several issues | refines `QueueContract` |
| `IntegrationLock` | the lock around consolidation, with the sweep of corpses | |
| `ReviewLedger` | the record of reviews and the lock around its rewriting | |
| `AsyncJobs` | background jobs, batches and the count of messages owed | |
| `LeanMachineProofs` | lemmas about the table | |
| `LeanWalkProofs` | theorems about the walk and about `LeanLock`, under which it runs | |
| `SlotProofs` | lines of waiters; theorems about `SpawnSemaphore`, `LensModelSlots` and `HostSpawnSlots` | |
| `LeanEngineProofs`, `WorkQueueProofs`, `IntegrationLockProofs`, `ReviewLedgerProofs`, `AsyncJobsProofs` | theorems about the module of that name | |
| `MC...` | the instances TLC runs | |

Operators named `Bug...` are seeded faults. No specification uses them; each is put in
place of the definition below it to see that a property notices.

### LeanMachine and LeanWalk

A position is one flat record, `state` and the five counters. `TableNext` is `next` of
`machine.ts`, one operator per `case`. `landEarned` is the engine's merge gate. The
step log is kept in `LeanWalk` as what anything reads of it: its length, the number of
build steps, and the newest decided kind of every state (`newestDecided`).

`head` is a history variable: whether the branch's head is the one the run's gate
called green, the one on origin, the one the pipeline called green. Steps that hand the
tree to a child lose all three, and so does a review that came back `fixed`. The code
has no such variable; it compares shas where it must (`publish.ts`, `ci.ts`, `land.ts`)
and otherwise relies on the routing of the table, which is what
`LandOnlyOverCertifiedHead` tests.

`HandlerFault` and `EngineStop` end the walk from any state, as the engine does for a
throw, an unknown kind, the deadline, the step cap and a missing handler.

### LeanEngine

`file` is the JSON record, `run` the drive's copy in memory, `pc` where the drive is
between two awaits or two writes. Every save is a step of its own, so `Crash` comes
between any two, including between the two saves that `settle` makes for a thrown
handler. A handler's effects on the world (`forge`) happen when it returns, before
anything is saved: `done` lists the entries of the log under which a builder was paid or a
comment posted, one by one and in order, and a crash moves the act whose outcome it cut off
to `lost`, since the pending step is run again and its outcome will tell of that run only. `foldLog`, `SnapshotAgrees`, `stampedResultRefusal` and `Verdict`
are the reading of a file on load: drive it, answer from it, end it or refuse it. The
folds are recursive functions over the index into the log (`Readings`, `Newests`). A
failed save is a crash at that save, because `saveRun` renames a finished temporary
file.

The outcome "end" (a log that folds to a land it did not earn) is kept because the code
has it; no record the program itself writes reaches it. The "no handler" ending of the
loop is likewise not an action: all states with an arrow have a handler.

### LeanLock and HostSpawnSlots

A process is an owner identity, so a recycled pid is another process and a dead one
stays dead. `judgeOwner` is its verdict: a holder in one's own pid namespace is alive or
provably dead, any other is foreign. The contents of a lock file are the identity that
linked it; they appear with the file because both modules link a finished temporary file
into place.

`HostSpawnSlots` reads time as the code does: a reap lock is fresh or old (10 s), a slot
fresh or silent (the ten-minute lease). A live process that is not stopped never lets
either pass, since it leaves its reap lock within one synchronous call and beats every
minute; a stopped or dead one does.

History variables say when the ordinary guarantee is off: `misfire` (a rename took
another lock than the one judged), `lockLost` (a reap lock was taken from under a live
process) and `overslept` (a holder was stopped past its lease and went on). The
properties say that nothing else breaks the guarantee.

### LensModelSlots and SpawnSemaphore

One step is what the event loop runs without interruption. In `SpawnSemaphore` the queue
of continuations is explicit (`turn`), because the counter is raised by the woken
waiter's continuation rather than by the release that woke it. In `LensModelSlots` the
release hands its slot over, so the grant is part of the release, and a lens that ends may
move the host's pool and its model's in one step: `SlotPool` is one step of every pool or
none. Both modules keep their waiters as sequences, as the code's arrays do.

### WorkQueue

Groups are numbered in dispatch order; `deps` is the declared order
(`planOrderingEdges`, self-edges dropped) and `clash` the predicted collisions. The
workers share one state object and one event loop: what a worker does between two awaits
is one step, except that a pass over the wait list is cut into its tests, during which
the worker keeps the loop (`turn`). `settled`, `resolved` and the entry of a group are
written together by both writers, so `resolved` is no variable of its own; a group in
flight is one that is owned and has no entry. The wait list keeps the order of the
numbers, so a set stands for it. The deferral clock is left out: any waiting group may
be capped out at any pass (`CapOut`). A run of a group (`Returned`, then `Judge`,
`Refuse` or `Crash`) may end in every way the outcome module tells apart, with an await
between the return and the verdict.

`Cyclic` is `findCyclicGroups`: Kahn's rounds, counted by a recursive function.

### IntegrationLock

A file is known by its inode, the token in it names its maker, and its age is read three
ways: young, past the publish grace, past the stale window. One action per system call,
except where nothing can come between two of them in effect, and each may fail where the
code catches it: a lock that cannot be read, a removal that throws with the file still there,
a cleanup that throws in its turn. A runner that leaves hands the lock back in two calls
(`Signal`, `HandBack`), and the section, still on the stack, goes on (`overrun`) to its own
release, or to a crash, as which `process.exit` counts. Three histories: `robbed`, those
whose file another removed, either past the stale window or in the gap between a last check
and an unlink; `handed`, those whose own runner removed it under them; `erred`, those whose
last sweep failed on an error. `stood` holds the waiters that found the present file when
their wait began.

### ReviewLedger

A writer is one call of `appendLedgerEntry`: a completed or incomplete lens run, a carry
of earlier rows, or an adversarial review. `First` is a call that came before the others,
finished or died on the way, so the others begin with what it left: a row, a lock file,
a lock file without its token. A row is what readers tell apart: its time, its
round and its streak of incomplete runs. `latestEntry` picks the index the code's loop
ends on, the last of the newest. `slips` says what went wrong, so that the
properties can say that nothing else does: `robbed` (a lock was taken from a live writer),
`unlocked` (a writer went on without one), `overtaken` (rows arrived in another order than
their times), `blind` (a read error was taken for an empty ledger).

### AsyncJobs

A unit is a job or a batch of `MEMBERS` jobs: a job of the PM's own, a pipeline with
`reportKind` "driver", a batch, or a job the in-process driver owns. Settling, handing the
message to the host, awaiting the git lines of a batch and lowering the count are the
steps of the code; the host may refuse any message and a setup may throw anywhere, with
members running that the teardown has marked dead and entries of the registry (`left`) that
nothing takes back. The second half is `pending-jobs-signal.ts`: the set of units owed, the
generation that a reload or a shutdown raises, the timer that bounds a shutdown. `shown` is
the last number the client was sent; the channel may refuse any frame (`missed`, the
closing one apart). The process may end at any time (`up`). `counted` and `gaveUp` are
history. The sessions of a process share one copy of the module here; a reload that loads a
fresh copy (`session-shutdown.ts:11`) starts from `Init`.

## Runs

| Run | Question | Bounds | Distinct states |
|---|---|---|---|
| `lean_walk` | may a run merge only what was certified; is it short; does it keep its contract? | `MAX_BUILD_ATTEMPTS` 3 as in the code; none added | the whole table |
| `lean_engine` | do record and world agree across a crash; does every drive end; is it the walk? | 2 rounds, 11 loop turns so the step cap is met, one crash, a budget passed | 233 thousand |
| `lean_lock` | what does the lock exclude; does a dead owner's lock go? | four identities, two hosts | |
| `lean_lock_two_runs` | one run per issue? (violated) | three identities, one host | |
| `lens_slots` | pools, order, no deadlock | host cap 2, model cap 1, four lenses, two models | |
| `spawn_semaphore` | ceiling, order, service | cap 2, five callers | |
| `host_slots` | cap, reap lock, live slots; recovery | one slot, four processes, two namespaces, one stop | |
| `work_queue` | order, collisions, one outcome each, an end | three groups, two workers, every order and every set of collisions | 313 thousand |
| `integration_lock` | whom does it exclude; whom may a late waiter overtake? | three processes, seven inodes, symmetry | 690 thousand |
| `review_ledger` | one writer, no review lost, honest rounds, every call returns | two writers of every kind after one earlier call | 809 thousand |
| `review_ledger_blocks` | does every call return where a stale lock cannot be unlinked? (violated) | one writer after one earlier call | |
| `async_jobs` | one answer each; the count; a shutdown that reaches 0 | two units in five mixes, batches of two, four registry slots, five generations | 598 thousand |

What each property says, in a sentence, stands above it in its module; in short:

* `LandOnlyOverCertifiedHead`, `BuildRoundsBounded`, `WalkBounded`, `KeepsContract`: the
  table on its own.
* `RecordAndWorldAgree`: each build paid for and each comment posted has an entry of its
  own, each build with an outcome was paid for, and a record that says merged is of a run
  that merged. What a crash cut off from its outcome comes on top: under an entry too, and
  no more of it than crashes.
  `UnfinishedRunResumes`: what a crash leaves is accepted, except between the two
  saves of a fault. `MergeIsEarned`, `ResultIsFinal`, `ImplementsWalk`, `DriveEnds`.
* `ExclusiveUnlessMisfire`, `LiveLockStays`, `DeadLockIsCleared`.
* `RunningHoldsItsSlots`, `PoolsKeepTheirPromise`, `EveryLensFinishes`;
  `CeilingUnlessBarged`, `FirstComeFirstServed`, `WaitersGetIn`;
  `CapHoldsInOrder`, `OneReaperPerSlot`, `LiveSlotsStay`, `AloneGetsIn`.
* `DependenciesMergeFirst`, `ClashesNeverOverlap`, `OneRunnerPerGroup`,
  `NothingGoesMissing` (the summary has every group once), `KeepsQueueContract`,
  `QueueEnds`.
* `ExclusiveUnlessLost` (two in the section only if one was robbed of the lock or its runner
  handed it back); `LosersRemoveNothing` (who lost it removes nothing on the way out);
  `WaitersOutlastWhomTheyFound` (a waiter that still finds, at its deadline, the file it
  found when it came goes on unlocked only if an error kept the sweep from judging or
  removing it, or its token was written after the sweep's first look).
* `OneWriterInside`; `ReviewsDoNotVanish` (the newest row is never older than a review that
  was recorded) and `RoundCountsReviews`, both unless a named slip happened; `CallsReturn`.
* `CountIsOwed` (what is pending is what is owed, and the number shown is its size unless the
  channel refused the last frame); `AnsweredOnce` (one
  message landed, or none where the code gives it up); `ReportsBeforeZero` (nothing of
  a counted unit lands behind a 0); `ShutdownReachesZero` (a session that waits stops
  waiting at a 0, or with a refused frame, or the process has ended).

Why the bounds suffice. The walk needs none: the table ends by itself (`WalkBounded`,
proved). One crash in the engine is one more than the record ever has to survive without
having been written again: the next drive starts from a file that a drive without a crash
could have left too, or from the two shapes a crash adds (a write-ahead without an
outcome, an outcome without its ending), both of which one crash reaches; and the
theorems hold for any number. Two build rounds exercise every edge that asks the cap on
either side of it; eleven turns let a plain run land and stop a longer one at the cap. In
the lock the shortest bad interleaving needs a dead holder and two live rivals, and the
fourth identity stands on another host. In the slots it needs a dead holder, a dead
reaper and two live rivals. One slot is where they meet: processes at different slots
share no file, so a second slot adds the scan from one to the next and no new conflict.
Pools need a lens that holds, one that waits, one that comes and one on the other model.

Three groups are a chain, a fork, a join, a cycle with a bystander and a collision across
each; two workers are one that runs and one that scans, waits or leaves under it. Its
safety properties hold with three workers too (2.1 million states), and are proved for any
number of each. The integration lock needs a corpse, a sweeper and a newcomer; seven
inodes are two for every process and one. In the ledger the earlier call supplies the
corpse, so two more meet over it. Among the jobs a batch of two is the smallest whose
members settle apart; the five mixes set it beside every kind of unit, itself included, and a
single job beside a pipeline; five generations hold a session, its shutdown, both again,
and one more of either.

Deadlock is checked except where the system may stop for good: a walk has ended, all
processes are dead, the queue has written its summary, the calls have returned.

## Fairness

* `LeanEngine`: `WF` on the drive's own steps. The loop awaits one handler at a time and
  every handler has budgets that end it. Nothing is assumed of callers or crashes.
* `LeanLock`: `WF` on each process's acquire and release calls, which are synchronous.
* `LensModelSlots`, `SpawnSemaphore`: `WF` on continuations, which the event loop runs, and
  on the end of each child, which its watchdogs force (`spawn-watchdog.ts`).
* `HostSpawnSlots`: `WF` on the two clocks, and on the claims of all processes together,
  which is as much as the one left alone needs; a waiting claim polls every 250 ms.
* `WorkQueue`: `SF` on each worker's steps and on its poll timer, `WF` on the summary. The
  event loop runs every continuation that is ready, so a worker whose turn comes and goes
  while a sibling holds the loop does get its turn; a run is assumed to return. Nothing is
  assumed of the deferral cap: `QueueEnds` holds if it never fires.
* `ReviewLedger`: `WF` on each call's steps and on its deadline, the clock that ends its
  wait. A call that runs is not stopped; `First` may stay dead.
* `AsyncJobs`: `WF` on `Bound` alone, and only while the process runs: the timer is unref'd
  (`pending-jobs-signal.ts:367`), so a process with nothing else to do may end before it
  fires (`Exit`). No job is assumed to settle, which is why the bound is there.

`IntegrationLock` has no liveness property: a successful sweep retries at once without a
look at the deadline, so nothing bounds a caller when others keep dying under it. None of
the assumptions makes a process that may die act after it died.

## Proofs

Checked with TLAPS: for every `MAX_BUILD_ATTEMPTS` and `MAX_STEPS` in `Nat \ {0}` and any
number of crashes; for any processes and hosts with `hostOf \in [Procs -> Hosts]`; for
any number of groups, any set of workers with one member at least, every order without self-edges
and every set of collisions; for any finite set of callers and any ceiling of at least one, any
lenses, models and caps, any processes, namespaces and number of slots; for any processes of
the integration lock and any writers of the ledger; for any finite set of units, any mixes, and
any bounds of registry and generations. Each module names what it assumes, and TLC evaluates
it on its instances.

* `LeanMachineProofs`: each arrow of `TableNext` keeps a position a position, which states
  an arrow can lead to, and what it does to each counter.
* `LeanWalkProofs`: the inductive invariant joins the type invariant with what the table
  maintains without saying so: how the counters and the newest verdicts agree; which facts
  about the head hold in which state (after verify and before the next build the
  head is gated, in `ci` it is published, ...); and a measure, bounded by the unspent
  rounds and unspent optional steps, that every decided step lowers. None of the properties
  is inductive alone: `LandOnlyOverCertifiedHead` says nothing about the states before
  `land`, where the certificate is collected. Beside the run's properties it proves
  `CiScope`, `OnlyOnce`, `HonestRefusal` and `DraftDiscipline`, and the refinement
  `WalkKeepsContract`.
  The same module holds the theorems of `LeanLock`: a dead process is nowhere in the
  protocol, whoever is past its judgement has judged a dead owner of its own host, and
  without a misfire the holder is the one on file. `LockTyping`, `LockExclusion`, `DeadOnly`,
  `LivingKeepTheirs`.
* `LeanEngineProofs`: the invariant says of the record on disk and of the one in memory
  that they are `Sound` (the snapshot is what the log folds to, every entry but the last
  was decided, and one that stands at `land` has earned it), what a drive knows at each
  `pc`, and that log and world agree (`Agrees`): the acts done are entries of the log, in
  its order, none twice. That is not inductive alone. It takes that nothing stands done
  under a pending entry until its handler returns, a crash having moved what was to `lost`,
  and that between the return and the save the outcome in hand tells of the act. The fold is over a log of
  any length, so the proof needs induction on its length. The library's induction
  theorem takes an operator, which no installed prover can instantiate; instead the
  lemma `LeastNumber` (a nonempty set of numbers has a least one, by the well-
  foundedness of strict inclusion among finite sets) gives the lemma `Induction`, about
  the set of numbers with a property, and the facts about the fold of a log that has
  grown by one are proved with that. From it: `Typing`, `TrueRecord`, `Resumable`,
  `EarnedMerge`, `FinalResult`, and `EngineImplementsWalk`: over all its drives, the
  engine decides one walk.
* `SlotProofs` starts with lines: what a line holds and who stands before whom after one
  joins at the end, leaves at the head or gives up in the middle (`LineBehindLine`,
  `DistinctBehind`, `HeadLeaves`, `LineWithout`), each proved without induction, from places
  in the line. On them rest three invariants.
  Semaphore: a caller stands in one place once, and the counter is the number of children in
  flight. `CeilingUnlessBarged` bounds those together with the woken callers whose
  continuations have not run, so it needs to know that nobody is counted twice. `SemaphoreTyping`,
  `SemaphoreCeiling`, `SemaphoreOrder`.
  Lens pools: a lens stands in the line of the key it waits for and in no other, it
  holds the slots of the keys it has passed, and a pool somebody waits for is full. That a
  lens runs with both its slots needs all three, since whether a release hands over or counts
  down depends on the line. `LensTyping`, `LensHoldsItsSlots`, and `LensPoolsAreSlotPools`: the
  pools are `SlotPool`'s, under the mapping of `LensModelSlots`.
  Host slots: whoever reaps has the reap lock, freshly made, unless one was lost; a holder
  that was never stopped is on file and heard of; whoever is about to unlink has judged a slot
  that is reclaimable still. `HostTyping`, `HostReaper`, `HostCeiling`, `HostSlotsStay`.
* `WorkQueueProofs`: the invariant adds that a job is an owned group without an entry and
  one worker's, that what is settled has an entry, that the scan leaves no group behind the
  cursor that is neither owned, deferred nor settled, and that a worker leaves only when
  halted or with nothing left to wait for. `Typing`, `OrderKept`, `NoOverlap`, `OneRunner`,
  `NothingLost`, `ContractKept`, and `KahnFindsTheStuck`: for every graph, what Kahn's
  rounds leave over is exactly what no order can schedule (induction as above).
* `IntegrationLockProofs`: each file is its maker's alone and names it, whoever is in the
  section and lost nothing has its file at the path, who was robbed or handed back has not, a
  file judged a corpse stays one unless its token comes late, and a late waiter has outlasted
  the file it found. `Typing`, `Exclusion`, `LosersDoNotRob`, `WaitersOutlast`.
* `ReviewLedgerProofs`: until somebody is robbed, whoever wrote its token or is about to is
  the one on file (`OneInside`). Above it stands what the rows say. Any ledger that is not
  empty has a newest row (`NewestRow`, by the well-foundedness of inclusion among finite sets),
  and both ways to record a row, the append and the merge after a failed rename, do the same
  to a ledger as far as its readers can tell (`Recorded`). The invariant: a writer about to
  rename would still make the same file of the ledger as it is now, times are each call's
  own, every row is a recorded review's, and every recorded review has a row at least
  as new. Hence `ReviewsStay` and `RoundsCount`. `ReviewsDoNotVanish` alone is not
  inductive: it says nothing of the file that is about to take the ledger's place.
* `AsyncJobsProofs`: what is pending is what is owed and was not given up, and as long as
  there is a channel and it took the last frame, the number shown is its size. `Typing`, `HonestCount`,
  `NothingBehindZero`. For `OneAnswer` a second invariant says of every unit which
  sequences of messages an answer may be at the place where it stands, none before its work
  was handed over, so a second answer has no step to come from.

So every property of a passing run that is not about liveness is a theorem, and the run shows
it on an instance where the cases meet.

Left to TLC: liveness (`DriveEnds`, `DeadLockIsCleared`, `EveryLensFinishes`,
`WaitersGetIn`, `AloneGetsIn`, `QueueEnds`, `CallsReturn`, `ShutdownReachesZero`), because
the prover has neither fairness nor `ENABLED`; and the two findings below, which are
counterexamples.

## Where code and text disagree

Two of them have a run whose counterexample shows them.

1. `lean/lock.ts:145`: the rename may take a fresh lock, and two runs drive one issue.
   `lean/lock.ts:140` gives the rename as the cure for exactly that.
2. `review-ledger-lock.ts:178`: the sweep answers that it removed the lock even when the
   unlink threw, and after that answer the writer tries again at once, with no await and
   no look at its deadline. Where a stale lock cannot be unlinked the process hangs, where
   `review-ledger-lock.ts:24` says "never throws, never blocks long".

Smaller observations, seen in the same models and without a run of their own. Lean:

* `lean/resume.ts:59`: a run ended by the deadline, the step cap or a refused land is
  stamped on a state its log does not fold to, so the next call throws before it reads the
  result, where `lean/engine.ts:365` says "the file is the answer".
* `lean/engine.ts:302`: a crash between the two saves of a thrown handler leaves a record
  every later call refuses; `lean/resume.ts:22` means such a record to be legitimate.
* `lean/engine.ts:453`: the pending step is run again, so a crash between a handler's effect
  and the save of its outcome pays the builder again or posts the comment again (`lost` in
  `RecordAndWorldAgree`, one act per crash), where `lean/engine.ts:12` says "a crash cannot
  double-bill a build or re-post a comment", `src/docs/lean.md:310` the same, and
  `lean/command.ts:26` "the step that posted it never runs twice".
* `lean/machine.ts:312`: a red CI goes to `build` without asking the cap, so a run may have
  `MAX_BUILD_ATTEMPTS + 1` build steps (the bound `BuildRoundsBounded` proves), where
  `src/docs/lean.md:24` says at most 3.
* `lean/machine.ts:231`: a build may come back exhausted, unmarked, before any verify has
  run, where the comment at line 221 says the code was green.
* `lean/engine.ts:382`: a run refused not-ready is answered from its file when it is started
  again, although its comment (`lean/io.ts:207`) invites that.

Slots:

* `spawn-semaphore.ts:104`: a caller that comes in before a woken waiter's continuation is
  counted beside it, so the "global ceiling" of line 2 is exceeded (the history variable of
  `CeilingUnlessBarged`); `lens-model-slots.ts:70` hands the slot over to avoid that.
* `host-spawn-slots.ts:262`: two reapers can clear one old reap lock in turn and then each
  other's claims, which line 33 rules out (`lockLost`); at line 281 the loser of that race
  finds no file to unlink, and its child runs without a slot (`FailOpen`).

Queue:

* `work-queue-worker.ts:387`: the revival of a parked group is dead code. Every park takes
  the group off the wait list in the same step, so no pass meets a group that has
  an entry, whatever the comment above it describes.
* `work-queue-worker.ts:494`: a leaving worker drops its siblings' wake-ups, so a sleeper
  does wait for its poll, where line 108 says it never does. `QueueEnds` holds by the poll.
* `work-queue.ts:392`: the summary keeps one halt, so a second one that halted for another
  cause appears neither among the entries nor among the groups not started.

Integration lock:

* The gap between the token check and the removal in the release (`work-driver-lock.ts:158`)
  lets it take another's lock once an overdue sweep came between, where line 156 says
  "Remove only our own lock".
* `work-driver-lock.ts:246`: a leaving runner hands the lock back while the section is on the
  stack, and the section goes on until the process exits, beside whoever takes the lock
  next (`handed` in `ExclusiveUnlessLost`), where line 4 says the lock serialises concurrent
  driver processes.
* `work-driver-lock.ts:212`: a waiter that cannot read or unlink the lock it found goes on
  unlocked at its deadline beside a living holder (`erred` in
  `WaitersOutlastWhomTheyFound`); line 42 says such a lock "is waited out", and lines
  196-205 that the sweep's bound keeps the deadline from letting two consolidations run.
* `work-driver-lock.ts:159`: a release whose read or removal fails leaves a lock that names a
  living process, and stands until the stale window.

Review ledger:

* Past its deadline a writer goes on unlocked and the other's row is not safe: a rename over
  an existing file succeeds, so the merge after a race, which runs only when the rename
  failed, does not run (`review-ledger.ts:400`; against `review-ledger-lock.ts:24` and
  `review-ledger.ts:41`).
* A row older than the newest one on file is written with a round nobody will read; any
  read error counts as an empty ledger; a lock file whose token is not written yet can be
  swept under its live writer (`review-ledger-lock.ts:171`); a carry can put an older
  verdict behind a newer one.

Jobs:

* After the bound of a shutdown the count stays open: a late job is accepted or ignored in
  silence, not refused with a warning as `pending-jobs-signal.ts:203` and `:226` say.
* A pipeline's failure report that the host refuses gets no stand-in, where
  `async-jobs.ts:262` says the run's only result is never silent (`AnsweredOnce`
  names the exception).
* A setup that fails leaves registry slots taken: a single job's, a batch's own if it fails
  before its first member, and that of the member whose registration threw.
* `pending-jobs-signal.ts:340`: a shutdown with nothing owed sends nothing, "the channel
  already carries the count this would publish". If the channel refused the last frame, it
  does not, and the client keeps a number above 0 (`missed` in `ShutdownReachesZero`).

## Not modelled

* Inside the lean handlers: the retries of a build step, the proof of red tests in
  `specify`, the excuses of `verify`, the fix wave of `review`, the polling of `ci`. The
  engine's model counts a visit of a build as one act, although a ceiling that stops the child
  may buy another within the visit (`lean/build.ts:292`).
* Hand-edited records (`assertRunFile`), legacy and malformed lock bodies, an unusable slot
  directory, foreign things at a lock's path.
* In the ledger: provenance stamps, the guard's reading of the rows, `lens-round-cap.ts`,
  and the other users of the same lock (the findings store, the recorded lens).
* In the jobs: whether a report of an earlier session lands behind the 0 a new one is sent:
  `counted` starts empty with each session. Also steering, peeking, child handles, slow-run notices, the deck. A kill only
  aborts a signal, whose effect is a settle at any time or none, which the model allows.
* Path claims, the decision seam, spawn supervision, the adversarial rounds and the classic
  driver: next in the plan. What the queue sees of the classic driver is the way a run ends.
* Prompts, rendering, forge adapters and installers, by far the most of the sources: text
  and I/O without control state of their own.

## Plan

What is left, in order of what the system loses when it is wrong:

1. `PathClaims`: prune on read against renewal; no live claim removed. Its lock is swept by
   the same module as the integration lock's, under other options.
2. `DecisionRace` and `SpawnWatchdog`: one settlement per race, nothing left armed.
3. `LeanBuild`, `LeanReview`, `LeanCi`: the handlers with retries and timeouts, under the
   engine's step.
4. Proofs: when the unlocked writer of `ReviewLedger` can lose a review, as an exact
   condition; what of `HostSpawnSlots` still holds after an oversleep; the steps of 1-3.
