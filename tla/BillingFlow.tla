----------------------------- MODULE BillingFlow -----------------------------
(***************************************************************************)
(* What the dialogue promises about the billing account, whatever it takes *)
(* to get there (docstring of TurnPipeline._handle_business): a plan is    *)
(* changed by list, choice, confirmation; an add-on is cancelled by list,  *)
(* choice.  One flow makes at most one change, a change of plan is to the  *)
(* plan offered for confirmation in that flow, and a flow that was left    *)
(* changes nothing.                                                        *)
(***************************************************************************)
CONSTANTS Sessions, Plans, InitialPlan, Addons, Cancelable, None

VARIABLES
  stage,    \* per session: "idle", "choosing", "confirming" or "addon"
  offered,  \* the plan put up for confirmation
  plan,     \* the account's plan
  addons    \* the account's add-ons

vars == <<stage, offered, plan, addons>>

Init ==
  /\ stage = [s \in Sessions |-> "idle"]
  /\ offered = [s \in Sessions |-> None]
  /\ plan = InitialPlan /\ addons = Addons

Move(s, to, p) ==
  /\ stage' = [stage EXCEPT ![s] = to]
  /\ offered' = [offered EXCEPT ![s] = p]

Start(s) == stage[s] = "idle" /\ Move(s, "choosing", None) /\ UNCHANGED <<plan, addons>>

(* Also by way of a switch, out of another flow. *)
StartAddon(s) == Move(s, "addon", None) /\ UNCHANGED <<plan, addons>>

Offer(s, p) ==
  /\ stage[s] = "choosing"
  /\ Move(s, "confirming", p)
  /\ UNCHANGED <<plan, addons>>

Leave(s) == Move(s, "idle", None) /\ UNCHANGED <<plan, addons>>

Change(s) ==
  /\ stage[s] = "confirming"
  /\ plan' = offered[s]
  /\ Move(s, "idle", None)
  /\ UNCHANGED addons

Cancel(s, a) ==
  /\ stage[s] = "addon"
  /\ a \in addons \cap Cancelable
  /\ addons' = addons \ {a}
  /\ Move(s, "idle", None)
  /\ UNCHANGED plan

Next == \E s \in Sessions :
  \/ Start(s) \/ StartAddon(s) \/ Leave(s) \/ Change(s)
  \/ \E p \in Plans : Offer(s, p)
  \/ \E a \in Addons : Cancel(s, a)

Spec == Init /\ [][Next]_vars
=============================================================================
