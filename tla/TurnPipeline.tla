---------------------------- MODULE TurnPipeline ----------------------------
(***************************************************************************)
(* The dialogue core: TurnPipeline.process (server/pipeline.py) with the   *)
(* branch ConversationOrchestrator.process_turn takes before it, over the  *)
(* session object the in-memory store hands to every turn, and the billing *)
(* account behind external_system.call_billing_api.                        *)
(*                                                                         *)
(* process is a coroutine.  Between two awaits it runs alone on the event  *)
(* loop; at an await any other turn may run, and a turn reads the session  *)
(* object again afterwards.  One action is one such stretch:               *)
(*   Receive        the request arrives, the session is found or created   *)
(*   Route          process_turn, in an executor thread                    *)
(*   HandleBusiness the code from _handle_business to its first await      *)
(*   ExternalCall   call_billing_api, in an executor thread                *)
(*   Resume         the code after that await                              *)
(*   Reply          the TurnResult goes back to the client                 *)
(* An utterance is reduced to what the code asks of it (see Text).         *)
(***************************************************************************)
EXTENDS Naturals

CONSTANTS
  Workers,      \* turns that may be in flight at once
  Sessions,     \* session ids
  Texts,        \* the utterances callers make: a set of records, see Text
  Plans,        \* the plans QUERY_PLANS lists
  InitialPlan,  \* the plan of the account at the start
  Addons,       \* the add-on services named in _handle_addon_select
  Cancelable,   \* the add-ons the billing system agrees to cancel
  Backend,      \* "fake", "anytelecom" or "none" (external_system is None)
  Overlap,      \* TRUE: a client may send a turn before the last one is answered
  Cap,          \* where the count of turns past the limit saturates
  None,         \* Python's None, or an absent name in an utterance
  NoCurrent     \* a plan list that does not say which plan is current

Intents == {"UNCLASSIFIED", "PLAN_CHANGE", "PLAN_INQUIRY", "ADDON_CANCEL",
            "CANCELLATION", "BILLING_INQUIRY", "END_CALL", "REPEAT_REQUEST"}
SystemControl == {"END_CALL", "REPEAT_REQUEST"}

(* short: digits or one of the fixed answers; yes: one of _YES_WORDS; cancel *)
(* and no: the text contains the cancel word / the no word; plan, addon: the *)
(* list entry or add-on it names; safe: what the injection filter says.      *)
Text == [short : BOOLEAN, yes : BOOLEAN, cancel : BOOLEAN, no : BOOLEAN,
         safe : BOOLEAN, intent : Intents,
         plan : Plans \cup {None}, addon : Addons \cup {None}]

ASSUME PipelineAssumption ==
  /\ Texts \subseteq Text
  /\ InitialPlan \in Plans
  /\ Cancelable \subseteq Addons
  /\ Backend \in {"fake", "anytelecom", "none"}
  /\ Overlap \in BOOLEAN
  /\ Cap \in Nat
  /\ None \notin Plans \cup Addons \cup Texts \cup Sessions
  /\ NoCurrent \notin Plans /\ NoCurrent # None

VARIABLES
  \* SessionContext, one entry per session
  known,         \* the ids InMemorySessionStore has a session for
  pending,       \* pending_intent
  pendingSwitch, \* pending_switch_intent
  planList,      \* plan_list_context: None, or the current plan it was loaded with
  selected,      \* _selected_plan
  retry,         \* _multi_step_retry_count
  late,          \* elapsed_minutes >= 15
  \* the billing account
  plan, addons,
  \* turns in flight: the locals of process
  pc, sid, said, call, ret, reply,
  \* for the properties only
  extra          \* turns let through after the limit

session == <<known, pending, pendingSwitch, planList, selected, retry>>
account == <<plan, addons>>
turn    == <<pc, sid, said, call, ret, reply>>
vars    == <<session, late, account, turn, extra>>

Stages  == {"none", "PLAN_CHANGE_SELECT", "PLAN_CHANGE_CONFIRM", "ADDON_CANCEL_SELECT"}
PlanStages == {"PLAN_CHANGE_SELECT", "PLAN_CHANGE_CONFIRM"}
Ops     == {"none", "QUERY_PLANS", "CHANGE_PLAN", "CANCEL_ADDON"}
NoCall  == [op |-> "none", arg |-> None]
NoRet   == [ok |-> FALSE, current |-> NoCurrent, effect |-> "none"]
\* for the properties: what the call did to the account
Effects == {"none", "took", "stood", "refused"}
Replies == {"none", "not_found", "goodbye", "escalate", "reask", "answer", "error",
            "maintenance", "unavailable", "ask_plan", "ask_addon", "ask_switch",
            "flow_kept", "switched", "cancelled", "gave_up", "say_again",
            "same_plan", "ask_confirm", "declined", "lost_selection",
            "changed", "change_failed", "addon_cancelled", "addon_failed"}

SessionOK ==
  /\ known \subseteq Sessions
  /\ pending \in [Sessions -> Stages]
  /\ pendingSwitch \in [Sessions -> Intents \cup {"none"}]
  /\ planList \in [Sessions -> Plans \cup {NoCurrent, None}]
  /\ selected \in [Sessions -> Plans \cup {None}]
  /\ retry \in [Sessions -> 0..2]
  /\ late \in [Sessions -> BOOLEAN]

AccountOK == plan \in Plans /\ addons \subseteq Addons

TurnOK ==
  /\ pc \in [Workers -> {"idle", "routing", "business", "calling", "returned", "replying"}]
  /\ sid \in [Workers -> Sessions \cup {None}]
  /\ said \in [Workers -> Texts \cup {None}]
  /\ call \in [Workers -> [op : Ops, arg : Plans \cup Addons \cup {None}]]
  /\ ret \in [Workers -> [ok : BOOLEAN, current : Plans \cup {NoCurrent}, effect : Effects]]
  /\ reply \in [Workers -> Replies]

ExtraOK == extra \in [Sessions -> 0..Cap]

TypeOK == SessionOK /\ AccountOK /\ TurnOK /\ ExtraOK

Init ==
  /\ known = {}
  /\ pending = [s \in Sessions |-> "none"]
  /\ pendingSwitch = [s \in Sessions |-> "none"]
  /\ planList = [s \in Sessions |-> None]
  /\ selected = [s \in Sessions |-> None]
  /\ retry = [s \in Sessions |-> 0]
  /\ late = [s \in Sessions |-> FALSE]
  /\ plan = InitialPlan /\ addons = Addons
  /\ pc = [w \in Workers |-> "idle"]
  /\ sid = [w \in Workers |-> None]
  /\ said = [w \in Workers |-> None]
  /\ call = [w \in Workers |-> NoCall]
  /\ ret = [w \in Workers |-> NoRet]
  /\ reply = [w \in Workers |-> "none"]
  /\ extra = [s \in Sessions |-> 0]

Answer(w, r) ==
  /\ pc' = [pc EXCEPT ![w] = "replying"]
  /\ reply' = [reply EXCEPT ![w] = r]
  /\ UNCHANGED <<sid, said, call, ret>>

CallBilling(w, op, arg) ==
  /\ pc' = [pc EXCEPT ![w] = "calling"]
  /\ call' = [call EXCEPT ![w] = [op |-> op, arg |-> arg]]
  /\ UNCHANGED <<sid, said, ret, reply>>

(***************************************************************************)
(* The request arrives.  Without a session id a session is created; an id  *)
(* the store does not know raises SessionNotFoundError.  A client that     *)
(* waits for its answer (Overlap = FALSE) has one turn in flight.          *)
(***************************************************************************)
Receive(w, s, x) ==
  /\ pc[w] = "idle"
  /\ Overlap \/ \A v \in Workers : sid[v] # s
  /\ sid' = [sid EXCEPT ![w] = s]
  /\ said' = [said EXCEPT ![w] = x]
  /\ \/ /\ pc' = [pc EXCEPT ![w] = "routing"]
        /\ known' = known \cup {s}
        /\ UNCHANGED reply
     \/ /\ s \notin known
        /\ pc' = [pc EXCEPT ![w] = "replying"]
        /\ reply' = [reply EXCEPT ![w] = "not_found"]
        /\ UNCHANGED known
  /\ UNCHANGED <<pending, pendingSwitch, planList, selected, retry, late, account,
                 call, ret, extra>>

(***************************************************************************)
(* process_turn and check_session_limits.  The counts of turns and of      *)
(* injections are written by SessionManager.update_turn and                *)
(* increment_injection_count, and extra_turns_used by nobody; no turn of   *)
(* the pipeline calls those, so the values read are the initial ones.      *)
(***************************************************************************)
TurnCount(s)      == 0
InjectionCount(s) == 0
ExtraTurnsUsed(s) == 0

LimitByTurnsOnly(s) == TurnCount(s) >= 20   \* mutant of LimitReached
LimitReached(s) == TurnCount(s) >= 20 \/ late[s]

LimitAction(s) ==
  IF ~LimitReached(s) THEN "continue"
  ELSE IF pending[s] = "none" THEN "end_session"
  ELSE IF ExtraTurnsUsed(s) >= 2 THEN "escalate"
  ELSE "allow_extra_turns"

Saturate(n) == IF n < Cap THEN n + 1 ELSE Cap

Route(w) ==
  LET s == sid[w] IN
  /\ pc[w] = "routing"
  /\ \/ /\ LimitAction(s) = "end_session"
        /\ Answer(w, "goodbye")
        /\ UNCHANGED extra
     \/ /\ LimitAction(s) = "escalate"
        /\ Answer(w, "escalate")
        /\ UNCHANGED extra
     \/ /\ LimitAction(s) \in {"continue", "allow_extra_turns"}
        /\ ~said[w].safe
        /\ Answer(w, IF InjectionCount(s) < 2 THEN "reask" ELSE "escalate")
        /\ UNCHANGED extra
     \/ /\ LimitAction(s) \in {"continue", "allow_extra_turns"}
        /\ said[w].safe
        /\ pc' = [pc EXCEPT ![w] = "business"]
        /\ extra' = IF LimitReached(s) THEN [extra EXCEPT ![s] = Saturate(@)] ELSE extra
        /\ UNCHANGED <<sid, said, call, ret, reply>>
  /\ UNCHANGED <<session, late, account>>

(***************************************************************************)
(* _handle_business with no flow under way: start one, or answer a one-off *)
(* question (a query and the LLM, which touch no session state; the LLM    *)
(* may raise, and the turn then fails with the session as it was).         *)
(***************************************************************************)
StartPlanChange(w) ==
  IF Backend = "none" THEN Answer(w, "maintenance")
  ELSE CallBilling(w, "QUERY_PLANS", None)

OneOffQuery(w) == \E r \in {"answer", "error"} : Answer(w, r)

NewRequest(w) ==
  LET s == sid[w] IN
  /\ pending[s] = "none"
  /\ \/ /\ said[w].intent = "PLAN_CHANGE"
        /\ StartPlanChange(w)
        /\ UNCHANGED pending
     \/ /\ said[w].intent = "ADDON_CANCEL"
        /\ pending' = [pending EXCEPT ![s] = "ADDON_CANCEL_SELECT"]
        /\ Answer(w, "ask_addon")
     \/ /\ said[w].intent \notin {"PLAN_CHANGE", "ADDON_CANCEL"}
        /\ OneOffQuery(w)
        /\ UNCHANGED pending
  /\ UNCHANGED <<pendingSwitch, planList, selected, retry>>

(***************************************************************************)
(* A flow is under way and a switch was proposed: _handle_switch_confirm,  *)
(* with _route_new_intent.  Only an exact yes-word accepts the switch.     *)
(***************************************************************************)
SwitchConfirm(w) ==
  LET s == sid[w]
      new == pendingSwitch[s]
  IN
  /\ pending[s] # "none" /\ new # "none"
  /\ pendingSwitch' = [pendingSwitch EXCEPT ![s] = "none"]
  /\ \/ /\ said[w].yes
        /\ planList' = [planList EXCEPT ![s] = None]
        /\ selected' = [selected EXCEPT ![s] = None]
        /\ retry' = [retry EXCEPT ![s] = 0]
        /\ pending' = [pending EXCEPT ![s] =
                         IF new = "ADDON_CANCEL" THEN "ADDON_CANCEL_SELECT" ELSE "none"]
        /\ \/ new = "PLAN_CHANGE" /\ StartPlanChange(w)
           \/ new = "ADDON_CANCEL" /\ Answer(w, "ask_addon")
           \/ new \notin {"PLAN_CHANGE", "ADDON_CANCEL"} /\ Answer(w, "switched")
     \/ /\ ~said[w].yes
        /\ Answer(w, "flow_kept")
        /\ UNCHANGED <<pending, planList, selected, retry>>

(* _handle_intent_switch: which utterances stay in the flow. *)
Related(stage) ==
  IF stage = "ADDON_CANCEL_SELECT" THEN {"CANCELLATION", "ADDON_CANCEL"}
  ELSE {"PLAN_INQUIRY", "PLAN_CHANGE"}

StaysInFlow(x, stage) ==
  \/ x.short
  \/ x.intent \in {"UNCLASSIFIED"} \cup SystemControl \cup Related(stage)

InFlowWhateverSwitch(w) == pending[sid[w]] # "none"   \* mutant of InFlow
InFlow(w) == /\ pending[sid[w]] # "none"
             /\ pendingSwitch[sid[w]] = "none"

ProposeSwitch(w) ==
  /\ InFlow(w)
  /\ ~StaysInFlow(said[w], pending[sid[w]])
  /\ pendingSwitch' = [pendingSwitch EXCEPT ![sid[w]] = said[w].intent]
  /\ Answer(w, "ask_switch")
  /\ UNCHANGED <<pending, planList, selected, retry>>

(* _handle_multi_step_continuation: the cancel word, then one handler per stage. *)
Continues(w) == InFlow(w) /\ StaysInFlow(said[w], pending[sid[w]])

CancelFlow(w) ==
  /\ Continues(w)
  /\ said[w].cancel
  /\ pending' = [pending EXCEPT ![sid[w]] = "none"]
  /\ planList' = [planList EXCEPT ![sid[w]] = None]
  /\ Answer(w, "cancelled")
  /\ UNCHANGED <<pendingSwitch, selected, retry>>

(* The third unusable answer ends the flow. *)
LastTryTooLate(w) == retry[sid[w]] + 1 > 3   \* mutant of LastTry
LastTry(w) == retry[sid[w]] + 1 >= 3

CountRetry(w) ==
  LET s == sid[w] IN
  \/ /\ LastTry(w)
     /\ pending' = [pending EXCEPT ![s] = "none"]
     /\ retry' = [retry EXCEPT ![s] = 0]
     /\ planList' = IF pending[s] = "PLAN_CHANGE_SELECT"
                    THEN [planList EXCEPT ![s] = None] ELSE planList
     /\ Answer(w, "gave_up")
  \/ /\ ~LastTry(w)
     /\ retry' = [retry EXCEPT ![s] = @ + 1]
     /\ Answer(w, "say_again")
     /\ UNCHANGED <<pending, planList>>

Chosen(w) == IF planList[sid[w]] = None THEN None ELSE said[w].plan

PlanSelect(w) ==
  LET s == sid[w] IN
  /\ Continues(w) /\ ~said[w].cancel
  /\ pending[s] = "PLAN_CHANGE_SELECT"
  /\ \/ /\ Chosen(w) = None
        /\ CountRetry(w)
        /\ UNCHANGED selected
     \/ /\ Chosen(w) # None /\ Chosen(w) = planList[s]
        /\ Answer(w, "same_plan")
        /\ UNCHANGED <<pending, planList, selected, retry>>
     \/ /\ Chosen(w) \notin {None, planList[s]}
        /\ pending' = [pending EXCEPT ![s] = "PLAN_CHANGE_CONFIRM"]
        /\ selected' = [selected EXCEPT ![s] = Chosen(w)]
        /\ retry' = [retry EXCEPT ![s] = 0]
        /\ Answer(w, "ask_confirm")
        /\ UNCHANGED planList
  /\ UNCHANGED pendingSwitch

(* Whatever is not a refusal is taken for consent. *)
PlanConfirm(w) ==
  LET s == sid[w] IN
  /\ Continues(w) /\ ~said[w].cancel
  /\ pending[s] = "PLAN_CHANGE_CONFIRM"
  /\ \/ /\ said[w].no
        /\ pending' = [pending EXCEPT ![s] = "none"]
        /\ planList' = [planList EXCEPT ![s] = None]
        /\ Answer(w, "declined")
     \/ /\ ~said[w].no
        /\ selected[s] = None \/ Backend = "none"
        /\ pending' = [pending EXCEPT ![s] = "none"]
        /\ Answer(w, "lost_selection")
        /\ UNCHANGED planList
     \/ /\ ~said[w].no
        /\ selected[s] # None /\ Backend # "none"
        /\ CallBilling(w, "CHANGE_PLAN", selected[s])
        /\ UNCHANGED <<pending, planList>>
  /\ UNCHANGED <<pendingSwitch, selected, retry>>

AddonSelect(w) ==
  LET s == sid[w] IN
  /\ Continues(w) /\ ~said[w].cancel
  /\ pending[s] = "ADDON_CANCEL_SELECT"
  /\ \/ /\ Backend = "none"
        /\ pending' = [pending EXCEPT ![s] = "none"]
        /\ Answer(w, "maintenance")
        /\ UNCHANGED <<planList, retry>>
     \/ /\ Backend # "none" /\ said[w].addon = None
        /\ CountRetry(w)
     \/ /\ Backend # "none" /\ said[w].addon # None
        /\ CallBilling(w, "CANCEL_ADDON", said[w].addon)
        /\ UNCHANGED <<pending, planList, retry>>
  /\ UNCHANGED <<pendingSwitch, selected>>

HandleBusiness(w) ==
  /\ pc[w] = "business"
  /\ \/ NewRequest(w)   \/ SwitchConfirm(w) \/ ProposeSwitch(w)
     \/ CancelFlow(w)   \/ PlanSelect(w)    \/ PlanConfirm(w)   \/ AddonSelect(w)
  /\ UNCHANGED <<known, late, account, extra>>

(***************************************************************************)
(* call_billing_api.  The fake system always answers.  Through the         *)
(* AnyTelecom adapter a request may fail before or after it took effect (a *)
(* timeout, an unreadable body), the plan list loses its current plan, and *)
(* a refused cancellation that comes back as {"reason": ...} with status   *)
(* 200 counts as success.                                                  *)
(***************************************************************************)
AsAsked(w, p, a) ==
  /\ call[w].op = "CHANGE_PLAN" => p = call[w].arg
  /\ call[w].op = "CANCEL_ADDON" => call[w].arg \notin a
Effect(w) == IF ~AsAsked(w, plan', addons') THEN "refused"
             ELSE IF AsAsked(w, plan, addons) THEN "stood" ELSE "took"

Returns(w, ok, current) ==
  /\ pc' = [pc EXCEPT ![w] = "returned"]
  /\ ret' = [ret EXCEPT ![w] = [ok |-> ok, current |-> current, effect |-> Effect(w)]]
  /\ UNCHANGED <<sid, said, call, reply>>

SaysOfDone    == IF Backend = "anytelecom" THEN BOOLEAN ELSE {TRUE}
SaysOfRefused == IF Backend = "anytelecom" THEN BOOLEAN ELSE {FALSE}

NoPlansReturned(w) == FALSE   \* mutant of QueryPlans: the call never ends
QueryPlans(w) ==
  /\ call[w].op = "QUERY_PLANS"
  /\ UNCHANGED account
  /\ \/ Backend = "fake" /\ Returns(w, TRUE, plan)
     \/ Backend = "anytelecom" /\ \E ok \in BOOLEAN : Returns(w, ok, NoCurrent)

ChangePlan(w) ==
  /\ call[w].op = "CHANGE_PLAN"
  /\ \/ /\ plan' = call[w].arg
        /\ \E ok \in SaysOfDone : Returns(w, ok, NoCurrent)
     \/ /\ Backend = "anytelecom"
        /\ UNCHANGED plan
        /\ Returns(w, FALSE, NoCurrent)
  /\ UNCHANGED addons

CancelAddon(w) ==
  /\ call[w].op = "CANCEL_ADDON"
  /\ \/ /\ call[w].arg \in addons \cap Cancelable
        /\ addons' = addons \ {call[w].arg}
        /\ \E ok \in SaysOfDone : Returns(w, ok, NoCurrent)
     \/ /\ call[w].arg \notin addons \cap Cancelable
        /\ UNCHANGED addons
        /\ \E ok \in SaysOfRefused : Returns(w, ok, NoCurrent)
     \/ /\ Backend = "anytelecom"
        /\ UNCHANGED addons
        /\ Returns(w, FALSE, NoCurrent)
  /\ UNCHANGED plan

ExternalCall(w) ==
  /\ pc[w] = "calling"
  /\ QueryPlans(w) \/ ChangePlan(w) \/ CancelAddon(w)
  /\ UNCHANGED <<session, late, extra>>

(***************************************************************************)
(* The code after the await.  It overwrites the session without looking at *)
(* what other turns made of it meanwhile.                                  *)
(***************************************************************************)
AlwaysDone(w, done, failed) == done   \* mutant of Outcome
Outcome(w, done, failed) == IF ret[w].ok THEN done ELSE failed

ResumeQueryPlans(w) ==
  LET s == sid[w] IN
  /\ call[w].op = "QUERY_PLANS"
  /\ \/ /\ ret[w].ok
        /\ pending' = [pending EXCEPT ![s] = "PLAN_CHANGE_SELECT"]
        /\ planList' = [planList EXCEPT ![s] = ret[w].current]
        /\ Answer(w, "ask_plan")
     \/ /\ ~ret[w].ok
        /\ Answer(w, "unavailable")
        /\ UNCHANGED <<pending, planList>>
  /\ UNCHANGED <<selected, retry>>

\* mutant of ResumeChangePlan: the list is dropped and the flow is not ended
FlowOutlivesChange(w) ==
  LET s == sid[w] IN
  /\ call[w].op = "CHANGE_PLAN"
  /\ planList' = [planList EXCEPT ![s] = None]
  /\ selected' = [selected EXCEPT ![s] = None]
  /\ Answer(w, Outcome(w, "changed", "change_failed"))
  /\ UNCHANGED <<pending, retry>>

ResumeChangePlan(w) ==
  LET s == sid[w] IN
  /\ call[w].op = "CHANGE_PLAN"
  /\ pending' = [pending EXCEPT ![s] = "none"]
  /\ planList' = [planList EXCEPT ![s] = None]
  /\ selected' = [selected EXCEPT ![s] = None]
  /\ Answer(w, Outcome(w, "changed", "change_failed"))
  /\ UNCHANGED retry

ResumeCancelAddon(w) ==
  LET s == sid[w] IN
  /\ call[w].op = "CANCEL_ADDON"
  /\ pending' = [pending EXCEPT ![s] = "none"]
  /\ retry' = [retry EXCEPT ![s] = 0]
  /\ Answer(w, Outcome(w, "addon_cancelled", "addon_failed"))
  /\ UNCHANGED <<planList, selected>>

Resume(w) ==
  /\ pc[w] = "returned"
  /\ ResumeQueryPlans(w) \/ ResumeChangePlan(w) \/ ResumeCancelAddon(w)
  /\ UNCHANGED <<known, pendingSwitch, late, account, extra>>

Reply(w) ==
  /\ pc[w] = "replying"
  /\ pc' = [pc EXCEPT ![w] = "idle"]
  /\ sid' = [sid EXCEPT ![w] = None]
  /\ said' = [said EXCEPT ![w] = None]
  /\ call' = [call EXCEPT ![w] = NoCall]
  /\ ret' = [ret EXCEPT ![w] = NoRet]
  /\ reply' = [reply EXCEPT ![w] = "none"]
  /\ UNCHANGED <<session, late, account, extra>>

(* Fifteen minutes have passed since start_time. *)
PassLimit(s) ==
  /\ s \in known /\ ~late[s]
  /\ late' = [late EXCEPT ![s] = TRUE]
  /\ UNCHANGED <<session, account, turn, extra>>

Step(w) == Route(w) \/ HandleBusiness(w) \/ ExternalCall(w) \/ Resume(w) \/ Reply(w)

Next ==
  \/ \E w \in Workers, s \in Sessions, x \in Texts : Receive(w, s, x)
  \/ \E w \in Workers : Step(w)
  \/ \E s \in Sessions : PassLimit(s)

Spec == Init /\ [][Next]_vars

(* The loop and the executor keep running the turns they were given; clients *)
(* need not speak and time need not reach the limit.                         *)
Fairness == \A w \in Workers : WF_vars(Step(w))
FairSpec == Spec /\ Fairness
=============================================================================
