---------------------------- MODULE LeanContract ----------------------------
(***************************************************************************)
(* What a lean run promises its caller, with the table left out: a run     *)
(* works until it ends, ends once and with exactly one exit, merges only a *)
(* head its own gate and the pipeline both called green, and says          *)
(* "not ready" only of an issue no builder was ever paid for.              *)
(***************************************************************************)
EXTENDS Integers

VARIABLES exit,       \* "none" while the run lasts, then the terminal state
          built,      \* a build round was dispatched
          certified   \* gate and pipeline are green about the current head

vars == <<exit, built, certified>>

TypeOK == /\ exit \in {"none", "landed", "handed-back", "not-ready"}
          /\ built \in BOOLEAN
          /\ certified \in BOOLEAN

Init == exit = "none" /\ built = FALSE /\ certified = FALSE

Work == /\ exit = "none" /\ exit' = "none"
        /\ built' \in {built, TRUE}
        /\ certified' \in BOOLEAN

Merge == /\ exit = "none" /\ built /\ certified
         /\ exit' = "landed"
         /\ UNCHANGED <<built, certified>>

HandBack == /\ exit = "none" /\ exit' = "handed-back"
            /\ UNCHANGED built
            /\ certified' \in BOOLEAN

Refuse == /\ exit = "none" /\ ~built
          /\ exit' = "not-ready"
          /\ UNCHANGED <<built, certified>>

Next == Work \/ Merge \/ HandBack \/ Refuse

Spec == Init /\ [][Next]_vars
=============================================================================
