-------------------------- MODULE TurnPipelineProps --------------------------
(* What TurnPipeline has to guarantee, and the flow it implements. *)
EXTENDS TurnPipeline

(***************************************************************************)
(* The stage of the abstract flow.  Once the billing system has answered a *)
(* change or a cancellation the flow is over, although pending_intent is   *)
(* cleared only when the turn resumes.                                     *)
(***************************************************************************)
Settled(s) == \E w \in Workers :
  /\ sid[w] = s /\ pc[w] = "returned"
  /\ call[w].op \in {"CHANGE_PLAN", "CANCEL_ADDON"}

stage == [s \in Sessions |->
  IF Settled(s) \/ pending[s] = "none" THEN "idle"
  ELSE IF pending[s] = "PLAN_CHANGE_SELECT" THEN "choosing"
  ELSE IF pending[s] = "PLAN_CHANGE_CONFIRM" THEN "confirming"
  ELSE "addon"]

offered == [s \in Sessions |-> IF stage[s] = "confirming" THEN selected[s] ELSE None]

Flow == INSTANCE BillingFlow

(* A client that waits for each answer gets the flow of _handle_business's   *)
(* docstring: one change per confirmed offer, none after a cancel.  This is  *)
(* what the awaits inside _handle_plan_confirm and _handle_addon_select put  *)
(* at risk.                                                                  *)
ImplementsFlow == Flow!Spec

(* In a plan flow _handle_plan_select and _handle_plan_confirm find the list *)
(* and the choice of the step before, and the choice is never the plan the   *)
(* list gave as current, however turns overlap: every post-await clean-up    *)
(* that drops one of them also ends the flow.                                *)
FlowHasItsData == \A s \in Sessions :
  /\ pending[s] \in PlanStages => planList[s] # None
  /\ pending[s] = "PLAN_CHANGE_CONFIRM" =>
       selected[s] \in Plans /\ selected[s] # planList[s]

(* With one turn at a time a proposed switch always has a flow to switch from:  *)
(* otherwise the stale proposal swallows the first answer of a later flow.      *)
SwitchHasFlow == \A s \in Sessions :
  pendingSwitch[s] # "none" => pending[s] # "none"

(* What _handle_plan_confirm and _handle_addon_select tell the caller is what   *)
(* the call of that turn did to the account, however many turns overlap and     *)
(* whatever the billing system does, but for two lies of the AnyTelecom adapter: *)
(* an answer that was lost makes a change that was made look failed, and a      *)
(* refusal that comes with status 200 makes an add-on that cannot be cancelled  *)
(* look cancelled.  With one turn at a time a flow that was said to be over is. *)
AnswerIsTrue == \A w \in Workers :
  /\ reply[w] = "changed" => ret[w].effect \in {"took", "stood"}
  /\ reply[w] = "addon_cancelled" =>
       \/ ret[w].effect \in {"took", "stood"}
       \/ Backend = "anytelecom" /\ call[w].arg \notin Cancelable
  /\ reply[w] \in {"change_failed", "addon_failed"} =>
       ret[w].effect \in {"stood", "refused"} \/ Backend = "anytelecom"
  /\ ~Overlap /\ reply[w] \in {"cancelled", "declined", "gave_up"} => pending[sid[w]] = "none"

(* Past the time limit a session that has no flow under way is over: however    *)
(* many turns follow, check_session_limits keeps each of them away from the     *)
(* session and from the account (one turn at a time).                           *)
Over(s) == /\ late[s] /\ pending[s] = "none"
           /\ \A w \in Workers : sid[w] = s => pc[w] \in {"routing", "replying"}
LimitEndsSession == [][\A s \in Sessions : Over(s) =>
     /\ Over(s)'
     /\ UNCHANGED <<planList[s], selected[s], retry[s], pendingSwitch[s]>>]_vars

(* Every turn that was accepted is answered, by whatever path it takes through  *)
(* limits, flows, switches and external failures.                               *)
EveryTurnAnswered == \A w \in Workers : pc[w] = "routing" ~> pc[w] = "idle"

(***************************************************************************)
(* What the documents say and the code does not do.                        *)
(***************************************************************************)

(* _handle_multi_step_continuation, "cancel handling": a caller who was told that *)
(* the request is cancelled keeps the plan.  When a change of plan takes effect   *)
(* its flow is still waiting for the confirmation.                                *)
CancelledFlowChangesNothing == [][\A w \in Workers :
  (pc[w] = "calling" /\ pc'[w] = "returned" /\ plan' # plan)
     => pending[sid[w]] = "PLAN_CHANGE_CONFIRM"]_vars

(* docs/impl-plan-phase-c.md TASK-008, "Turn 3: confirm -> run CHANGE_PLAN":     *)
(* CHANGE_PLAN is requested by a turn that says yes.                             *)
ChangeIsConfirmed == \A w \in Workers : call[w].op = "CHANGE_PLAN" => said[w].yes

(* check_session_limits: past the limit a flow gets two extra turns.             *)
TwoExtraTurns == \A s \in Sessions : extra[s] <= 2

(* _normalize_cancel_addon: an answer with a "reason" is a refusal; the caller   *)
(* is not told that the add-on is gone.                                          *)
RefusalIsReported == \A w \in Workers :
  reply[w] = "addon_cancelled" => call[w].arg \notin addons
=============================================================================
