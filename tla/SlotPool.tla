------------------------------ MODULE SlotPool ------------------------------
(***************************************************************************)
(* What pools of slots promise, each on its own: never more inside a pool  *)
(* than its cap, and nobody gets in past one who is waiting for it.  A     *)
(* waiter may give up.  One step may be a step of several pools.           *)
(***************************************************************************)
EXTENDS Naturals, FiniteSets, Sequences, SequencesExt

CONSTANTS Pools, Customers,
          CapOf(_)    \* a pool's cap; nobody enters a pool whose cap is 0

VARIABLES inside,     \* [Pools -> the customers holding a slot of it]
          line        \* [Pools -> those waiting for it, first come first]

vars == <<inside, line>>

TypeOK == inside \in [Pools -> SUBSET Customers] /\ line \in [Pools -> Seq(Customers)]

Init == inside = [k \in Pools |-> {}] /\ line = [k \in Pools |-> <<>>]

Enter(k, c) == /\ c \notin inside[k] /\ line[k] = <<>> /\ Cardinality(inside[k]) < CapOf(k)
               /\ inside'[k] = inside[k] \cup {c}
               /\ line'[k] = line[k]

Queue(k, c) == /\ c \notin inside[k] /\ c \notin ToSet(line[k])
               /\ Cardinality(inside[k]) = CapOf(k)
               /\ line'[k] = Append(line[k], c)
               /\ inside'[k] = inside[k]

Leave(k, c) == /\ c \in inside[k] /\ line[k] = <<>>
               /\ inside'[k] = inside[k] \ {c}
               /\ line'[k] = line[k]

\* The slot goes from one hand to the next.
HandOver(k, c) == /\ c \in inside[k] /\ line[k] # <<>>
                  /\ inside'[k] = (inside[k] \ {c}) \cup {Head(line[k])}
                  /\ line'[k] = Tail(line[k])

GiveUp(k, i) == line'[k] = RemoveAt(line[k], i) /\ inside'[k] = inside[k]

Step(k) == \/ \E c \in Customers : Enter(k, c) \/ Queue(k, c) \/ Leave(k, c) \/ HandOver(k, c)
           \/ \E i \in DOMAIN line[k] : GiveUp(k, i)

Rest(k) == inside'[k] = inside[k] /\ line'[k] = line[k]

Next == \A k \in Pools : Step(k) \/ Rest(k)

Spec == Init /\ [][Next]_vars
=============================================================================
