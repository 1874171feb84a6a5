--------------------------- MODULE LensModelSlots ---------------------------
(***************************************************************************)
(* The bounds on concurrent lens children (lens-model-slots.ts): a host    *)
(* pool and one pool per model, taken in that order.  Everything between   *)
(* two awaits is one step; a granted lens goes on in a later microtask, so *)
(* arrivals, releases and aborts come between.  An entry the code deletes  *)
(* from its map at zero is the empty pool here.                            *)
(***************************************************************************)
EXTENDS Naturals, FiniteSets, Sequences, SequencesExt

CONSTANTS Lenses, Models,
          modelOf,       \* [Lenses -> Models]: lensModelKey
          HostKey,       \* the host pool's key
          HOST_CAP,      \* lensConcurrency(); 0 is no bound
          MODEL_CAP      \* lensModelConcurrency(); 0 is no bound

ASSUME SlotsAssumption ==
  /\ modelOf \in [Lenses -> Models] /\ HostKey \notin Models
  /\ HOST_CAP \in Nat /\ MODEL_CAP \in Nat

Keys == Models \cup {HostKey}

VARIABLES taken,      \* [Keys -> Nat]: Slots.active
          queue,      \* [Keys -> Seq(Lenses)]: Slots.waiting
          stage,      \* [Lenses -> where the lens stands]
          holds,      \* [Lenses -> SUBSET Keys]: the releases it has to call
          aborted     \* [Lenses -> BOOLEAN]: its signal

lensVars == <<taken, queue, stage, holds, aborted>>

Stages == {"idle", "queuedHost", "pastHost", "queuedModel", "pastModel", "running"}

LensTypeOK ==
  /\ taken \in [Keys -> Nat]
  /\ queue \in [Keys -> Seq(Lenses)]
  /\ stage \in [Lenses -> Stages]
  /\ holds \in [Lenses -> SUBSET Keys]
  /\ aborted \in [Lenses -> BOOLEAN]

LensInit ==
  /\ taken = [k \in Keys |-> 0]
  /\ queue = [k \in Keys |-> <<>>]
  /\ stage = [l \in Lenses |-> "idle"]
  /\ holds = [l \in Lenses |-> {}]
  /\ aborted = [l \in Lenses |-> FALSE]

Cap(k) == IF k = HostKey THEN HOST_CAP ELSE MODEL_CAP

-----------------------------------------------------------------------------
(* takeSlot, up to its await or its return *)

\* Bug... are seeded faults, each used by mutants of PROJECT.json and nowhere else.
BugFullPoolLetsPast(l, k, past, queued) ==
  \/ /\ Cap(k) = 0 \/ taken[k] >= Cap(k)
     /\ stage' = [stage EXCEPT ![l] = past]
     /\ UNCHANGED <<taken, queue, holds>>
  \/ /\ Cap(k) # 0 /\ taken[k] < Cap(k)
     /\ taken' = [taken EXCEPT ![k] = @ + 1]
     /\ holds' = [holds EXCEPT ![l] = @ \cup {k}]
     /\ stage' = [stage EXCEPT ![l] = past]
     /\ UNCHANGED queue

\* An aborted lens takes a free slot like any other, and is turned away only from a
\* full pool, without a slot.
TakeSlot(l, k, past, queued) ==
  \/ /\ Cap(k) = 0 \/ (taken[k] >= Cap(k) /\ aborted[l])
     /\ stage' = [stage EXCEPT ![l] = past]
     /\ UNCHANGED <<taken, queue, holds>>
  \/ /\ Cap(k) # 0 /\ taken[k] < Cap(k)
     /\ taken' = [taken EXCEPT ![k] = @ + 1]
     /\ holds' = [holds EXCEPT ![l] = @ \cup {k}]
     /\ stage' = [stage EXCEPT ![l] = past]
     /\ UNCHANGED queue
  \/ /\ Cap(k) # 0 /\ taken[k] >= Cap(k) /\ ~aborted[l]
     /\ queue' = [queue EXCEPT ![k] = Append(@, l)]
     /\ stage' = [stage EXCEPT ![l] = queued]
     /\ UNCHANGED <<taken, holds>>

Start(l) ==
  /\ stage[l] = "idle"
  /\ TakeSlot(l, HostKey, "pastHost", "queuedHost")
  /\ UNCHANGED aborted

TakeModel(l) ==
  /\ stage[l] = "pastHost"
  /\ TakeSlot(l, modelOf[l], "pastModel", "queuedModel")
  /\ UNCHANGED aborted

Run(l) ==
  /\ stage[l] = "pastModel"
  /\ stage' = [stage EXCEPT ![l] = "running"]
  /\ UNCHANGED <<taken, queue, holds, aborted>>

\* The signal fires; its listener takes a queued lens out of the line it stands in.
PastQueue(l) == IF stage[l] = "queuedHost" THEN "pastHost" ELSE "pastModel"

Abort(l) ==
  /\ ~aborted[l]
  /\ aborted' = [aborted EXCEPT ![l] = TRUE]
  /\ \/ \E k \in Keys : \E i \in DOMAIN queue[k] :
          /\ queue[k][i] = l
          /\ queue' = [queue EXCEPT ![k] = RemoveAt(@, i)]
          /\ stage' = [stage EXCEPT ![l] = PastQueue(l)]
     \/ /\ \A k \in Keys : l \notin ToSet(queue[k])
        /\ UNCHANGED <<queue, stage>>
  /\ UNCHANGED <<taken, holds>>

-----------------------------------------------------------------------------
(* The releases of withLensModelSlot's two finally blocks, in one go *)

FirstInLine(k) == IF queue[k] = <<>> THEN {} ELSE {Head(queue[k])}

BugReleaseToNobody(l) ==
  LET K == holds[l] IN
  /\ taken' = [k \in Keys |-> IF k \in K THEN taken[k] - 1 ELSE taken[k]]
  /\ queue' = queue
  /\ holds' = [holds EXCEPT ![l] = {}]
  /\ stage' = [stage EXCEPT ![l] = "idle"]

BugReleaseCounts(l) ==
  LET K == holds[l]
      G(k) == IF k \in K THEN FirstInLine(k) ELSE {}
  IN
  /\ taken' = [k \in Keys |-> IF k \in K THEN taken[k] - 1 ELSE taken[k]]
  /\ queue' = [k \in Keys |-> IF G(k) # {} THEN Tail(queue[k]) ELSE queue[k]]
  /\ holds' = [m \in Lenses |-> (IF m = l THEN {} ELSE holds[m]) \cup {k \in K : m \in G(k)}]
  /\ stage' = [m \in Lenses |->
              IF m = l THEN "idle"
              ELSE IF \E k \in K : m \in G(k) THEN PastQueue(m) ELSE stage[m]]

\* A slot is handed straight to the head of its line; only with nobody waiting does the
\* count go down.
ReleaseSlots(l) ==
  LET K == holds[l]
      Granted(k) == IF k \in K THEN FirstInLine(k) ELSE {}
  IN
  /\ taken' = [k \in Keys |-> IF k \in K /\ Granted(k) = {} THEN taken[k] - 1 ELSE taken[k]]
  /\ queue' = [k \in Keys |-> IF Granted(k) # {} THEN Tail(queue[k]) ELSE queue[k]]
  /\ holds' = [m \in Lenses |-> (IF m = l THEN {} ELSE holds[m]) \cup {k \in K : m \in Granted(k)}]
  /\ stage' = [m \in Lenses |->
              IF m = l THEN "idle"
              ELSE IF \E k \in K : m \in Granted(k) THEN PastQueue(m) ELSE stage[m]]

\* The child settled, or threw.
Finish(l) ==
  /\ stage[l] = "running"
  /\ ReleaseSlots(l)
  /\ aborted' = [aborted EXCEPT ![l] = FALSE]

Proceed(l) == TakeModel(l) \/ Run(l) \/ Finish(l)

LensNext == \E l \in Lenses : Start(l) \/ Abort(l) \/ Proceed(l)

LensSpec == LensInit /\ [][LensNext]_lensVars

\* Continuations run, and a lens child's own watchdogs end it.
LensFairSpec == LensSpec /\ \A l \in Lenses : WF_lensVars(Proceed(l))

-----------------------------------------------------------------------------
(* Properties *)

Inside(k) == { l \in Lenses : k \in holds[l] }

\* The slots and the lines of all keys, as SlotPool sees them.
HostAndModels == INSTANCE SlotPool WITH
  Pools <- Keys, Customers <- Lenses, CapOf <- Cap,
  inside <- [k \in Keys |-> Inside(k)], line <- queue

\* The host's pool and each model's are SlotPools: no cap is ever exceeded and no arrival
\* overtakes a queued lens, whatever grants, releases and aborts overlap, with the lens
\* holding its host slot while it waits for its model's (lens-model-slots.ts:52-103).
PoolsKeepTheirPromise == HostAndModels!Spec

\* A child that was not aborted runs only with every slot it is to hold.
RunningHoldsItsSlots ==
  \A l \in Lenses : stage[l] = "running" /\ ~aborted[l] =>
    holds[l] = { k \in {HostKey, modelOf[l]} : Cap(k) # 0 }

\* The two pools in their fixed order never hold each other up for ever.
EveryLensFinishes == \A l \in Lenses : (stage[l] # "idle") ~> (stage[l] = "idle")
=============================================================================
