----------------------------- MODULE BillingCall -----------------------------
(***************************************************************************)
(* What TurnPipeline relies on in a call to the billing system: between    *)
(* the request and the answer the operation may take effect; an answer of  *)
(* success means that it has, and a call that was blocked has no effect.   *)
(* TurnPipeline's ExternalCall is one such call seen as a single step.     *)
(***************************************************************************)
CONSTANTS Callers

VARIABLES phase, effect   \* per caller

vars == <<phase, effect>>

Init == /\ phase = [c \in Callers |-> "idle"]
        /\ effect = [c \in Callers |-> FALSE]

Block(c) ==
  /\ phase[c] = "idle"
  /\ phase' = [phase EXCEPT ![c] = "blocked"]
  /\ UNCHANGED effect

Ask(c) ==
  /\ phase[c] = "idle"
  /\ phase' = [phase EXCEPT ![c] = "asked"]
  /\ UNCHANGED effect

TakeEffect(c) ==
  /\ phase[c] = "asked"
  /\ effect' = [effect EXCEPT ![c] = TRUE]
  /\ phase' \in {phase, [phase EXCEPT ![c] = "failure"]}

Answer(c) ==
  /\ phase[c] = "asked"
  /\ \/ effect[c] /\ phase' = [phase EXCEPT ![c] = "success"]
     \/ phase' = [phase EXCEPT ![c] = "failure"]
  /\ UNCHANGED effect

Close(c) ==
  /\ phase[c] \in {"blocked", "success", "failure"}
  /\ phase' = [phase EXCEPT ![c] = "idle"]
  /\ effect' = [effect EXCEPT ![c] = FALSE]

Next == \E c \in Callers : Block(c) \/ Ask(c) \/ TakeEffect(c) \/ Answer(c) \/ Close(c)

Spec == Init /\ [][Next]_vars
=============================================================================
