--------------------------- MODULE SpawnSemaphore ---------------------------
(***************************************************************************)
(* The per-process ceiling on child processes (spawn-semaphore.ts).        *)
(* A step is what the event loop runs without interruption: a call of      *)
(* withSpawnSlot up to its first await, the finally block of a holder, the *)
(* continuation of a waiter or of a caller that got its result.  The       *)
(* continuations run in the order they were queued; what else runs in the  *)
(* same turn, an arrival or another finally block, may come before them.   *)
(* A cap of 0 bypasses the semaphore and is not modelled.                  *)
(***************************************************************************)
EXTENDS Naturals, FiniteSets, Sequences, SequencesExt

CONSTANTS Callers, SPAWN_CAP

ASSUME CapAssumption == SPAWN_CAP \in Nat \ {0} /\ IsFiniteSet(Callers)

VARIABLES active,     \* the counter
          waiting,    \* the queue of resolvers
          turn,       \* queued continuations: of waiters resolved, of callers returning
          returning,  \* which of them are returning callers
          running,    \* the callers whose fn is in flight
          barged      \* history: a caller got in past a resolved waiter

semaphoreVars == <<active, waiting, turn, returning, running, barged>>

SemaphoreTypeOK ==
  /\ active \in Nat
  /\ waiting \in Seq(Callers) /\ turn \in Seq(Callers)
  /\ returning \subseteq ToSet(turn)
  /\ running \subseteq Callers
  /\ barged \in BOOLEAN

SemaphoreInit == /\ active = 0 /\ waiting = <<>> /\ turn = <<>>
        /\ returning = {} /\ running = {} /\ barged = FALSE

Outside(c) == c \notin running \cup ToSet(waiting) \cup ToSet(turn)

\* The waiters whose promise is resolved.
Woken == ToSet(turn) \ returning

-----------------------------------------------------------------------------
(* withSpawnSlot *)

\* Bug... are seeded faults, each used by mutants of PROJECT.json and nowhere else.
BugAdmitsOneMore(c) ==
  /\ Outside(c) /\ active <= SPAWN_CAP
  /\ active' = active + 1
  /\ running' = running \cup {c}
  /\ barged' = (barged \/ Woken # {})
  /\ UNCHANGED <<waiting, turn, returning>>

Enter(c) ==
  /\ Outside(c) /\ active < SPAWN_CAP
  /\ active' = active + 1
  /\ running' = running \cup {c}
  /\ barged' = (barged \/ Woken # {})
  /\ UNCHANGED <<waiting, turn, returning>>

Queue(c) ==
  /\ Outside(c) /\ active >= SPAWN_CAP
  /\ waiting' = Append(waiting, c)
  /\ UNCHANGED <<active, turn, returning, running, barged>>

Resume ==
  /\ turn # <<>> /\ Head(turn) \notin returning
  /\ active' = active + 1
  /\ running' = running \cup {Head(turn)}
  /\ turn' = Tail(turn)
  /\ UNCHANGED <<waiting, returning, barged>>

Return ==
  /\ turn # <<>> /\ Head(turn) \in returning
  /\ turn' = Tail(turn)
  /\ returning' = returning \ {Head(turn)}
  /\ UNCHANGED <<active, waiting, running, barged>>

\* The finally block's half that is the same for all: fn returned or threw.
Freed(c, count) ==
  /\ c \in running
  /\ running' = running \ {c}
  /\ active' = count
  /\ returning' = returning \cup {c}
  /\ UNCHANGED barged

\* Nobody waits; or the first waiter's promise is resolved.
Settle(c) ==
  /\ Freed(c, active - 1)
  /\ waiting = <<>> /\ UNCHANGED waiting
  /\ turn' = Append(turn, c)

BugWakesNobody(c) ==
  /\ Freed(c, active - 1)
  /\ waiting # <<>> /\ UNCHANGED waiting
  /\ turn' = Append(turn, c)

BugWakesTheLast(c) ==
  /\ Freed(c, active - 1)
  /\ waiting # <<>> /\ waiting' = Front(waiting)
  /\ turn' = turn \o <<Last(waiting), c>>

SettleAndWake(c) ==
  /\ Freed(c, active - 1)
  /\ waiting # <<>> /\ waiting' = Tail(waiting)
  /\ turn' = turn \o <<Head(waiting), c>>

SemaphoreNext == Resume \/ Return \/ \E c \in Callers : Enter(c) \/ Queue(c) \/ Settle(c) \/ SettleAndWake(c)

SemaphoreSpec == SemaphoreInit /\ [][SemaphoreNext]_semaphoreVars

\* Queued continuations run, and a child's watchdogs end it.
SemaphoreFairSpec ==
  /\ SemaphoreSpec
  /\ WF_semaphoreVars(Resume \/ Return)
  /\ \A c \in Callers : WF_semaphoreVars(Settle(c) \/ SettleAndWake(c))

-----------------------------------------------------------------------------
(* Properties *)

\* The ceiling holds, with the slots already promised counted in, until a caller gets
\* in between a release and the continuation it queued.
CeilingUnlessBarged == ~barged => active + Cardinality(Woken) <= SPAWN_CAP

\* Who stands before whom in the line: the woken, then the waiting.
InLine == Woken \cup ToSet(waiting)

Ahead ==
  LET line == turn \o waiting IN
  { p \in InLine \X InLine : \E i, j \in DOMAIN line : i < j /\ p = <<line[i], line[j]>> }

\* Waiters go on in the order they came: who stands behind another neither leaves first nor
\* is put before them, and who comes stands behind all.
FirstComeFirstServed ==
  [][/\ \A p \in Ahead : p \in Ahead' \/ p[1] \notin InLine'
     /\ \A a, c \in InLine' : c \notin InLine /\ a # c => <<a, c>> \in Ahead']_semaphoreVars

\* A queued dispatch is a slower cycle, never a failed one: it gets its slot.
WaitersGetIn == \A c \in Callers : (c \in ToSet(waiting)) ~> (c \in running)
=============================================================================
