-------------------------- MODULE TurnPipelineProofs --------------------------
(***************************************************************************)
(* Proofs about TurnPipeline for every number of sessions, callers, plans, *)
(* add-ons and utterances, for each billing backend.                       *)
(***************************************************************************)
EXTENDS TurnPipelineProps, TLAPS

(* The locals of process hold what its steps rely on. *)
LocalsOK == \A w \in Workers :
  /\ pc[w] = "idle" => sid[w] = None
  /\ pc[w] # "idle" => sid[w] \in Sessions /\ said[w] \in Texts
  /\ call[w].op = "CHANGE_PLAN" => call[w].arg \in Plans

TypeInv == TypeOK /\ LocalsOK

LEMMA TypeInvInit == Init => TypeInv
  BY PipelineAssumption
  DEF Init, TypeInv, TypeOK, SessionOK, AccountOK, TurnOK, ExtraOK, LocalsOK,
      NoCall, NoRet, Effects, Intents, Stages, Ops, Replies

(* What an utterance is. *)
LEMMA TextFields ==
  ASSUME NEW x \in Texts
  PROVE  /\ x.intent \in Intents
         /\ x.plan \in Plans \cup {None} /\ x.addon \in Addons \cup {None}
         /\ x.yes \in BOOLEAN /\ x.no \in BOOLEAN /\ x.cancel \in BOOLEAN
  BY PipelineAssumption DEF Text

(* A turn under way that answers, or calls the billing system, stays well formed. *)
LEMMA AnswerOK ==
  ASSUME TurnOK, LocalsOK, NEW w \in Workers, pc[w] # "idle", NEW r \in Replies, Answer(w, r)
  PROVE  TurnOK' /\ LocalsOK'
  BY DEF TurnOK, LocalsOK, Answer

LEMMA CallBillingOK ==
  ASSUME TurnOK, LocalsOK, NEW w \in Workers, pc[w] # "idle", NEW op \in Ops,
         NEW arg \in Plans \cup Addons \cup {None},
         op = "CHANGE_PLAN" => arg \in Plans, CallBilling(w, op, arg)
  PROVE  TurnOK' /\ LocalsOK'
  BY DEF TurnOK, LocalsOK, CallBilling

LEMMA ReturnsOK ==
  ASSUME TurnOK, LocalsOK, NEW w \in Workers, pc[w] # "idle", NEW ok \in BOOLEAN,
         NEW current \in Plans \cup {NoCurrent}, Returns(w, ok, current)
  PROVE  TurnOK' /\ LocalsOK'
  <1>1. Effect(w) \in Effects
    BY DEF Effect, Effects
  <1>2. QED
    BY <1>1 DEF TurnOK, LocalsOK, Returns

LEMMA StartPlanChangeOK ==
  ASSUME TurnOK, LocalsOK, NEW w \in Workers, pc[w] # "idle", StartPlanChange(w)
  PROVE  TurnOK' /\ LocalsOK'
  <1>1. "maintenance" \in Replies /\ "QUERY_PLANS" \in Ops
    BY DEF Replies, Ops
  <1>2. CASE Answer(w, "maintenance")
    BY <1>1, <1>2, AnswerOK
  <1>3. CASE CallBilling(w, "QUERY_PLANS", None)
    BY <1>1, <1>3, CallBillingOK
  <1>4. QED
    BY <1>2, <1>3 DEF StartPlanChange

LEMMA TypeInvReceive ==
  ASSUME TypeInv, NEW w \in Workers, NEW s \in Sessions, NEW x \in Texts, Receive(w, s, x)
  PROVE  TypeInv'
  <1> USE DEF TypeInv, TypeOK, Receive
  <1>1. SessionOK'
    BY DEF SessionOK
  <1>2. AccountOK' /\ ExtraOK'
    BY DEF AccountOK, ExtraOK, account
  <1>3. TurnOK'
    BY DEF TurnOK, Replies
  <1>4. LocalsOK'
    BY DEF TurnOK, LocalsOK
  <1>5. QED
    BY <1>1, <1>2, <1>3, <1>4

LEMMA TypeInvRoute ==
  ASSUME TypeInv, NEW w \in Workers, Route(w)
  PROVE  TypeInv'
  <1> USE DEF TypeInv, TypeOK
  <1>1. pc[w] # "idle" /\ sid[w] \in Sessions
    BY DEF Route, LocalsOK
  <1>2. \A n \in 0..Cap : Saturate(n) \in 0..Cap
    BY PipelineAssumption DEF Saturate
  <1>3. SessionOK' /\ AccountOK'
    BY DEF Route, SessionOK, AccountOK, session, account
  <1>4. ExtraOK'
    BY <1>1, <1>2 DEF Route, ExtraOK
  <1>5. CASE \E r \in Replies : Answer(w, r)
    BY <1>1, <1>3, <1>4, <1>5, AnswerOK
  <1>6. CASE ~ \E r \in Replies : Answer(w, r)
    <2>1. /\ pc' = [pc EXCEPT ![w] = "business"]
          /\ UNCHANGED <<sid, said, call, ret, reply>>
      BY <1>6 DEF Route, Replies
    <2>2. TurnOK' /\ LocalsOK'
      BY <1>1, <2>1 DEF TurnOK, LocalsOK
    <2>3. QED
      BY <1>3, <1>4, <2>2
  <1>7. QED
    BY <1>5, <1>6

LEMMA TypeInvExternalCall ==
  ASSUME TypeInv, NEW w \in Workers, ExternalCall(w)
  PROVE  TypeInv'
  <1> USE DEF TypeInv, TypeOK
  <1>1. pc[w] # "idle" /\ SaysOfDone \subseteq BOOLEAN /\ SaysOfRefused \subseteq BOOLEAN
    BY DEF ExternalCall, SaysOfDone, SaysOfRefused
  <1>2. SessionOK' /\ ExtraOK'
    BY DEF ExternalCall, SessionOK, ExtraOK, session
  <1>3. AccountOK'
    BY DEF ExternalCall, QueryPlans, ChangePlan, CancelAddon, AccountOK, LocalsOK, account
  <1>4. \E ok \in BOOLEAN, current \in Plans \cup {NoCurrent} : Returns(w, ok, current)
    BY <1>1 DEF ExternalCall, QueryPlans, ChangePlan, CancelAddon, AccountOK
  <1>5. QED
    BY <1>1, <1>2, <1>3, <1>4, ReturnsOK

LEMMA TypeInvResume ==
  ASSUME TypeInv, NEW w \in Workers, Resume(w)
  PROVE  TypeInv'
  <1> USE DEF TypeInv, TypeOK
  <1>1. pc[w] # "idle" /\ sid[w] \in Sessions
    BY DEF Resume, LocalsOK
  <1>2. AccountOK' /\ ExtraOK'
    BY DEF Resume, AccountOK, ExtraOK, account
  <1>3. \E r \in Replies : Answer(w, r)
    BY DEF Resume, ResumeQueryPlans, ResumeChangePlan, ResumeCancelAddon, Outcome, Replies
  <1>4. SessionOK'
    <2>1. ret[w].current \in Plans \cup {NoCurrent}
      BY DEF TurnOK
    <2>2. CASE ResumeQueryPlans(w)
      BY <1>1, <2>1, <2>2 DEF Resume, ResumeQueryPlans, SessionOK, Stages
    <2>3. CASE ResumeChangePlan(w)
      BY <1>1, <2>3 DEF Resume, ResumeChangePlan, SessionOK, Stages
    <2>4. CASE ResumeCancelAddon(w)
      BY <1>1, <2>4 DEF Resume, ResumeCancelAddon, SessionOK, Stages
    <2>5. QED
      BY <2>2, <2>3, <2>4 DEF Resume
  <1>5. QED
    BY <1>1, <1>2, <1>3, <1>4, AnswerOK

LEMMA TypeInvReply ==
  ASSUME TypeInv, NEW w \in Workers, Reply(w)
  PROVE  TypeInv'
  <1> USE DEF TypeInv, TypeOK, Reply
  <1>1. SessionOK' /\ AccountOK' /\ ExtraOK'
    BY DEF SessionOK, AccountOK, ExtraOK, session, account
  <1>2. TurnOK'
    BY DEF TurnOK, NoCall, NoRet, Ops, Replies, Effects
  <1>3. LocalsOK'
    BY DEF TurnOK, LocalsOK, NoCall
  <1>4. QED
    BY <1>1, <1>2, <1>3

LEMMA TypeInvBusiness ==
  ASSUME TypeInv, NEW w \in Workers, HandleBusiness(w)
  PROVE  TypeInv'
  <1> USE DEF TypeInv, TypeOK
  <1>1. pc[w] # "idle" /\ sid[w] \in Sessions /\ said[w] \in Texts
    BY DEF HandleBusiness, LocalsOK
  <1>2. AccountOK' /\ ExtraOK' /\ late' = late /\ known' = known
    BY DEF HandleBusiness, AccountOK, ExtraOK, account
  <1>3. /\ said[w].intent \in Intents
        /\ said[w].plan \in Plans \cup {None} /\ said[w].addon \in Addons \cup {None}
    BY <1>1, TextFields
  <1>4. (TurnOK' /\ LocalsOK') \/ ~ \E r \in Replies : Answer(w, r)
    BY <1>1, AnswerOK
  <1>5. CASE NewRequest(w)
    <2>1. SessionOK'
      BY <1>1, <1>2, <1>5 DEF NewRequest, OneOffQuery, SessionOK, Stages
    <2>2. StartPlanChange(w) \/ \E r \in Replies : Answer(w, r)
      BY <1>5 DEF NewRequest, OneOffQuery, Replies
    <2>3. QED
      BY <1>1, <1>2, <1>4, <2>1, <2>2, StartPlanChangeOK
  <1>6. CASE SwitchConfirm(w)
    <2>1. SessionOK'
      BY <1>1, <1>2, <1>6 DEF SwitchConfirm, SessionOK, Stages
    <2>2. StartPlanChange(w) \/ \E r \in Replies : Answer(w, r)
      BY <1>6 DEF SwitchConfirm, Replies
    <2>3. QED
      BY <1>1, <1>2, <1>4, <2>1, <2>2, StartPlanChangeOK
  <1>7. CASE ProposeSwitch(w) \/ CancelFlow(w)
    <2>1. SessionOK'
      BY <1>1, <1>2, <1>3, <1>7 DEF ProposeSwitch, CancelFlow, SessionOK, Stages
    <2>2. \E r \in Replies : Answer(w, r)
      BY <1>7 DEF ProposeSwitch, CancelFlow, Replies
    <2>3. QED
      BY <1>2, <1>4, <2>1, <2>2
  <1>8. CASE PlanSelect(w)
    <2>1. SessionOK'
      BY <1>1, <1>2, <1>3, <1>8 DEF PlanSelect, CountRetry, LastTry, Chosen, SessionOK, Stages
    <2>2. \E r \in Replies : Answer(w, r)
      BY <1>8 DEF PlanSelect, CountRetry, LastTry, Replies
    <2>3. QED
      BY <1>2, <1>4, <2>1, <2>2
  <1>9. CASE PlanConfirm(w)
    <2>1. SessionOK'
      BY <1>1, <1>2, <1>9 DEF PlanConfirm, SessionOK, Stages
    <2>2. \/ \E r \in Replies : Answer(w, r)
          \/ selected[sid[w]] \in Plans /\ CallBilling(w, "CHANGE_PLAN", selected[sid[w]])
      BY <1>1, <1>9 DEF PlanConfirm, SessionOK, Replies
    <2>3. "CHANGE_PLAN" \in Ops
      BY DEF Ops
    <2>4. QED
      BY <1>1, <1>2, <1>4, <2>1, <2>2, <2>3, CallBillingOK
  <1>10. CASE AddonSelect(w)
    <2>1. SessionOK'
      BY <1>1, <1>2, <1>10 DEF AddonSelect, CountRetry, LastTry, SessionOK, Stages
    <2>2. \/ \E r \in Replies : Answer(w, r)
          \/ CallBilling(w, "CANCEL_ADDON", said[w].addon)
      BY <1>10 DEF AddonSelect, CountRetry, LastTry, Replies
    <2>3. "CANCEL_ADDON" \in Ops
      BY DEF Ops
    <2>4. QED
      BY <1>1, <1>2, <1>3, <1>4, <2>1, <2>2, <2>3, CallBillingOK
  <1>11. QED
    BY <1>5, <1>6, <1>7, <1>8, <1>9, <1>10 DEF HandleBusiness

LEMMA TypeInvStep == TypeInv /\ [Next]_vars => TypeInv'
  <1> SUFFICES ASSUME TypeInv, [Next]_vars PROVE TypeInv'
    OBVIOUS
  <1>1. ASSUME NEW w \in Workers, Step(w) PROVE TypeInv'
    BY <1>1, TypeInvRoute, TypeInvBusiness, TypeInvExternalCall, TypeInvResume, TypeInvReply
    DEF Step
  <1>2. ASSUME NEW s \in Sessions, PassLimit(s) PROVE TypeInv'
    BY <1>2 DEF TypeInv, TypeOK, SessionOK, AccountOK, TurnOK, ExtraOK, LocalsOK,
                PassLimit, session, account, turn
  <1>3. CASE UNCHANGED vars
    BY <1>3 DEF TypeInv, TypeOK, SessionOK, AccountOK, TurnOK, ExtraOK, LocalsOK,
                vars, session, account, turn
  <1>4. QED
    BY <1>1, <1>2, <1>3, TypeInvReceive DEF Next

(* Every variable of the pipeline keeps its type, and the retry counter never *)
(* passes two between steps, however turns overlap.                           *)
THEOREM TypeCorrect == Spec => []TypeOK
  <1>1. TypeInv => TypeOK
    BY DEF TypeInv
  <1>2. QED
    BY <1>1, TypeInvInit, TypeInvStep, PTL DEF Spec

-------------------------------------------------------------------------------
LEMMA FlowDataStep ==
  ASSUME TypeInv, FlowHasItsData, [Next]_vars
  PROVE  FlowHasItsData'
  <1> USE DEF FlowHasItsData, PlanStages
  <1>1. ASSUME NEW w \in Workers, HandleBusiness(w) PROVE FlowHasItsData'
    <2> DEFINE s == sid[w]
    <2>1. /\ s \in Sessions /\ SessionOK
          /\ said[w].plan \in Plans \cup {None}
      BY <1>1, TextFields DEF HandleBusiness, TypeInv, TypeOK, LocalsOK
    <2> USE <2>1 DEF SessionOK
    <2>2. CASE NewRequest(w)
      BY <2>2 DEF NewRequest, OneOffQuery
    <2>3. CASE SwitchConfirm(w)
      BY <2>3 DEF SwitchConfirm
    <2>4. CASE ProposeSwitch(w) \/ CancelFlow(w)
      BY <2>4 DEF ProposeSwitch, CancelFlow
    <2>5. CASE PlanSelect(w)
      BY <2>5 DEF PlanSelect, CountRetry, LastTry, Chosen
    <2>6. CASE PlanConfirm(w)
      BY <2>6 DEF PlanConfirm
    <2>7. CASE AddonSelect(w)
      BY <2>7 DEF AddonSelect, CountRetry, LastTry
    <2>8. QED
      BY <1>1, <2>2, <2>3, <2>4, <2>5, <2>6, <2>7 DEF HandleBusiness
  <1>2. ASSUME NEW w \in Workers, Resume(w) PROVE FlowHasItsData'
    <2>1. sid[w] \in Sessions /\ SessionOK /\ ret[w].current \in Plans \cup {NoCurrent}
      BY <1>2 DEF Resume, TypeInv, TypeOK, LocalsOK, TurnOK
    <2>2. QED
      BY <1>2, <2>1, PipelineAssumption
      DEF Resume, ResumeQueryPlans, ResumeChangePlan, ResumeCancelAddon, SessionOK
  <1>3. ASSUME UNCHANGED <<pending, planList, selected>> PROVE FlowHasItsData'
    BY <1>3
  <1>4. QED
    BY <1>1, <1>2, <1>3
    DEF Next, Step, Receive, Route, ExternalCall, Reply, PassLimit, vars, session

(* Even when turns of one session overlap at every await, a plan flow always has *)
(* its list and a confirmation has its choice, which is not the current plan.    *)
THEOREM FlowDataPresent == Spec => []FlowHasItsData
  <1>1. Init => FlowHasItsData
    BY DEF Init, FlowHasItsData, PlanStages
  <1>2. QED
    BY <1>1, TypeInvInit, TypeInvStep, FlowDataStep, PTL DEF Spec

-------------------------------------------------------------------------------
(* A turn writes the state of its own session only. *)
LEMMA OtherSessions ==
  ASSUME TypeInv, NEW w \in Workers, HandleBusiness(w) \/ Resume(w),
         NEW s \in Sessions, sid[w] # s
  PROVE  /\ UNCHANGED <<sid, late>> /\ \A v \in Workers \ {w} : pc'[v] = pc[v]
         /\ UNCHANGED <<pending[s], planList[s], selected[s], retry[s], pendingSwitch[s]>>
  <1>1. sid[w] \in Sessions /\ SessionOK /\ TurnOK
    BY DEF HandleBusiness, Resume, TypeInv, TypeOK, LocalsOK
  <1>2. CASE HandleBusiness(w)
    <2> USE <1>1 DEF HandleBusiness, SessionOK, TurnOK, Answer, CallBilling, StartPlanChange
    <2>1. CASE NewRequest(w)
      BY <1>2, <2>1 DEF NewRequest, OneOffQuery
    <2>2. CASE SwitchConfirm(w)
      BY <1>2, <2>2 DEF SwitchConfirm
    <2>3. CASE ProposeSwitch(w) \/ CancelFlow(w)
      BY <1>2, <2>3 DEF ProposeSwitch, CancelFlow
    <2>4. CASE PlanSelect(w)
      BY <1>2, <2>4 DEF PlanSelect, CountRetry, LastTry
    <2>5. CASE PlanConfirm(w)
      BY <1>2, <2>5 DEF PlanConfirm
    <2>6. CASE AddonSelect(w)
      BY <1>2, <2>6 DEF AddonSelect, CountRetry, LastTry
    <2>7. QED
      BY <1>2, <2>1, <2>2, <2>3, <2>4, <2>5, <2>6
  <1>3. CASE Resume(w)
    BY <1>1, <1>3 DEF Resume, ResumeQueryPlans, ResumeChangePlan, ResumeCancelAddon, Answer, SessionOK, TurnOK
  <1>4. QED
    BY <1>2, <1>3

Kept(s) == Over(s)' /\ UNCHANGED <<planList[s], selected[s], retry[s], pendingSwitch[s]>>

LEMMA LimitStep ==
  ASSUME TypeInv, [Next]_vars, NEW s \in Sessions, Over(s)
  PROVE  Kept(s)
  <1>1. TurnOK /\ SessionOK /\ late[s] /\ pending[s] = "none" /\ \A w \in Workers : pc[w] = "idle" => sid[w] = None
    BY DEF TypeInv, TypeOK, LocalsOK, Over
  <1>2. ASSUME NEW w \in Workers, HandleBusiness(w) \/ Resume(w) PROVE Kept(s)
    <2>1. sid[w] # s
      BY <1>2 DEF Over, HandleBusiness, Resume
    <2>2. QED
      BY <1>2, <2>1, OtherSessions DEF Kept, Over
  <1>3. ASSUME NEW w \in Workers, Route(w) PROVE Kept(s)
    <2>1. UNCHANGED <<session, late, sid>> /\ \A v \in Workers \ {w} : pc'[v] = pc[v]
      BY <1>1, <1>3 DEF Route, Answer, TurnOK
    <2>2. sid[w] = s => pc'[w] = "replying"
      BY <1>1, <1>3 DEF Route, Answer, TurnOK, LimitAction, LimitReached
    <2>3. QED
      BY <2>1, <2>2 DEF Kept, Over, session
  <1>4. ASSUME NEW w \in Workers, ExternalCall(w) PROVE Kept(s)
    <2>1. UNCHANGED <<session, late, sid>> /\ \A v \in Workers \ {w} : pc'[v] = pc[v]
      BY <1>1, <1>4 DEF ExternalCall, QueryPlans, ChangePlan, CancelAddon, Returns, TurnOK
    <2>2. sid[w] # s
      BY <1>4 DEF Over, ExternalCall
    <2>3. QED
      BY <2>1, <2>2 DEF Kept, Over, session
  <1>5. ASSUME NEW w \in Workers, Reply(w) PROVE Kept(s)
    BY <1>1, <1>5, PipelineAssumption DEF Reply, TurnOK, Kept, Over, session
  <1>6. ASSUME NEW w \in Workers, NEW r \in Sessions, NEW x \in Texts, Receive(w, r, x)
        PROVE  Kept(s)
    BY <1>1, <1>6 DEF Receive, TurnOK, Kept, Over
  <1>7. ASSUME NEW r \in Sessions, PassLimit(r) PROVE Kept(s)
    BY <1>1, <1>7 DEF PassLimit, Kept, Over, session, turn, SessionOK
  <1>8. CASE UNCHANGED vars
    BY <1>8 DEF vars, session, turn, Kept, Over
  <1>9. QED
    BY <1>2, <1>3, <1>4, <1>5, <1>6, <1>7, <1>8 DEF Next, Step

(* check_session_limits and the read of it in process: once the time is over and  *)
(* the last flow has ended, no later turn touches the session, also when turns    *)
(* overlap.                                                                       *)
THEOREM LimitIsFinal == Spec => LimitEndsSession
  <1>1. TypeInv /\ [Next]_vars
          => [\A s \in Sessions : Over(s) =>
                /\ Over(s)'
                /\ UNCHANGED <<planList[s], selected[s], retry[s], pendingSwitch[s]>>]_vars
    BY LimitStep DEF Kept
  <1>2. QED
    BY <1>1, TypeInvInit, TypeInvStep, PTL DEF Spec, LimitEndsSession

-------------------------------------------------------------------------------
(***************************************************************************)
(* Clients that wait for their answers.  The inductive invariant says that *)
(* a session has one turn at a time and that, during a call to the billing *)
(* system, the session still is where the call was made from.              *)
(***************************************************************************)
Alone == \A v, w \in Workers : sid[v] = sid[w] /\ sid[v] # None => v = w

CallMatchesFlow == \A w \in Workers : pc[w] \in {"calling", "returned"} =>
  /\ call[w].op = "QUERY_PLANS" => pending[sid[w]] = "none"
  /\ call[w].op = "CHANGE_PLAN" => /\ pending[sid[w]] = "PLAN_CHANGE_CONFIRM"
                                  /\ selected[sid[w]] = call[w].arg
  /\ call[w].op = "CANCEL_ADDON" => pending[sid[w]] = "ADDON_CANCEL_SELECT"

SerialInv == TypeInv /\ FlowHasItsData /\ Alone /\ CallMatchesFlow

LEMMA AloneStep ==
  ASSUME ~Overlap, TypeInv, Alone, [Next]_vars
  PROVE  Alone'
  <1> USE DEF Alone
  <1>1. ASSUME NEW w \in Workers, NEW s \in Sessions, NEW x \in Texts, Receive(w, s, x)
        PROVE  Alone'
    BY <1>1 DEF Receive, TypeInv, TypeOK, TurnOK
  <1>2. ASSUME NEW w \in Workers, Reply(w) PROVE Alone'
    BY <1>2 DEF Reply, TypeInv, TypeOK, TurnOK
  <1>3. ASSUME NEW w \in Workers, Route(w) \/ ExternalCall(w) \/ Resume(w) PROVE sid' = sid
    BY <1>3 DEF Route, Answer, ExternalCall, QueryPlans, ChangePlan, CancelAddon, Returns,
                Resume, ResumeQueryPlans, ResumeChangePlan, ResumeCancelAddon
  <1>4. ASSUME NEW w \in Workers, HandleBusiness(w) PROVE sid' = sid
    BY <1>4 DEF HandleBusiness, NewRequest, OneOffQuery, SwitchConfirm, ProposeSwitch, CancelFlow,
                PlanSelect, PlanConfirm, AddonSelect, CountRetry, LastTry, StartPlanChange,
                Answer, CallBilling
  <1>5. ASSUME sid' = sid PROVE Alone'
    BY <1>5
  <1>6. QED
    BY <1>1, <1>2, <1>3, <1>4, <1>5 DEF Next, Step, PassLimit, vars, turn

(* A turn touches its own session only, and no other turn is in it. *)
LEMMA Own ==
  ASSUME TypeInv, Alone, NEW w \in Workers, pc[w] # "idle"
  PROVE  sid[w] \in Sessions /\ sid[w] # None
         /\ \A v \in Workers \ {w} : sid[v] # sid[w]
  BY PipelineAssumption DEF TypeInv, LocalsOK, Alone

(* The code up to the first await leaves the turn answered, or waiting for a *)
(* call that the session's stage accounts for.                               *)
LEMMA BusinessOutcome ==
  ASSUME TypeInv, Alone, FlowHasItsData, NEW w \in Workers, HandleBusiness(w)
  PROVE  LET s == sid[w] IN
         /\ \A v \in Workers \ {w} : pc'[v] = pc[v] /\ call'[v] = call[v]
         /\ sid' = sid /\ pc[w] = "business" /\ UNCHANGED account
         /\ \A r \in Sessions \ {s} : pending'[r] = pending[r] /\ selected'[r] = selected[r]
         /\ \/ pc'[w] = "replying"
            \/ pc'[w] = "calling" /\ call'[w].op = "QUERY_PLANS" /\ pending'[s] = "none"
            \/ /\ pc'[w] = "calling" /\ call'[w].op = "CHANGE_PLAN"
               /\ pending'[s] = "PLAN_CHANGE_CONFIRM" /\ pending[s] = pending'[s]
               /\ selected'[s] = call'[w].arg /\ selected[s] = selected'[s]
            \/ /\ pc'[w] = "calling" /\ call'[w].op = "CANCEL_ADDON"
               /\ pending'[s] = "ADDON_CANCEL_SELECT" /\ pending[s] = pending'[s]
         /\ \/ pending'[s] = pending[s] /\ selected'[s] = selected[s]
            \/ pending'[s] \in {"none", "ADDON_CANCEL_SELECT"}
            \/ /\ pending[s] = "PLAN_CHANGE_SELECT" /\ pending'[s] = "PLAN_CHANGE_CONFIRM"
               /\ selected'[s] \in Plans
  <1> DEFINE s == sid[w]
  <1>1. s \in Sessions /\ SessionOK /\ TurnOK /\ pc[w] = "business"
        /\ said[w].plan \in Plans \cup {None}
    BY Own, TextFields DEF HandleBusiness, TypeInv, TypeOK, LocalsOK
  <1> USE <1>1 DEF HandleBusiness, SessionOK, TurnOK, Answer, CallBilling, StartPlanChange
  <1>2. CASE NewRequest(w)
    BY <1>2 DEF NewRequest, OneOffQuery
  <1>3. CASE SwitchConfirm(w)
    BY <1>3 DEF SwitchConfirm
  <1>4. CASE ProposeSwitch(w) \/ CancelFlow(w)
    BY <1>4 DEF ProposeSwitch, CancelFlow
  <1>5. CASE PlanSelect(w)
    BY <1>5 DEF PlanSelect, CountRetry, LastTry, Chosen
  <1>6. CASE PlanConfirm(w)
    BY <1>6 DEF PlanConfirm
  <1>7. CASE AddonSelect(w)
    BY <1>7 DEF AddonSelect, CountRetry, LastTry
  <1>8. QED
    BY <1>2, <1>3, <1>4, <1>5, <1>6, <1>7

LEMMA CallMatchesFlowStep ==
  ASSUME SerialInv, [Next]_vars
  PROVE  CallMatchesFlow'
  <1> USE DEF SerialInv
  <1>1. ASSUME NEW w \in Workers, HandleBusiness(w) PROVE CallMatchesFlow'
    <2> DEFINE s == sid[w]
    <2>1. s \in Sessions /\ \A v \in Workers \ {w} : sid[v] # s
      BY <1>1, Own DEF HandleBusiness
    <2>2. \A v \in Workers : pc[v] # "idle" => sid[v] \in Sessions
      BY DEF TypeInv, LocalsOK
    <2>3. QED
      BY <1>1, <2>1, <2>2, BusinessOutcome DEF CallMatchesFlow
  <1>2. ASSUME NEW w \in Workers, Resume(w) PROVE CallMatchesFlow'
    <2>1. sid[w] \in Sessions /\ \A v \in Workers \ {w} : sid[v] # sid[w]
      BY <1>2, Own DEF Resume
    <2>2. \A v \in Workers : pc[v] # "idle" => sid[v] \in Sessions
      BY DEF TypeInv, LocalsOK
    <2>3. pc' = [pc EXCEPT ![w] = "replying"] /\ UNCHANGED <<sid, call>>
      BY <1>2 DEF Resume, ResumeQueryPlans, ResumeChangePlan, ResumeCancelAddon, Answer
    <2>4. \A r \in Sessions \ {sid[w]} : pending'[r] = pending[r] /\ selected'[r] = selected[r]
      BY <1>2 DEF Resume, ResumeQueryPlans, ResumeChangePlan, ResumeCancelAddon,
                  TypeInv, TypeOK, SessionOK
    <2>5. QED
      BY <2>1, <2>2, <2>3, <2>4 DEF CallMatchesFlow, TypeInv, TypeOK, TurnOK
  <1>3. ASSUME NEW w \in Workers, ExternalCall(w) PROVE CallMatchesFlow'
    BY <1>3 DEF CallMatchesFlow, ExternalCall, QueryPlans, ChangePlan, CancelAddon, Returns,
                session, TypeInv, TypeOK, TurnOK
  <1>4. ASSUME NEW w \in Workers, Route(w) PROVE CallMatchesFlow'
    BY <1>4 DEF CallMatchesFlow, Route, Answer, session, TypeInv, TypeOK, TurnOK
  <1>5. ASSUME NEW w \in Workers, Reply(w) PROVE CallMatchesFlow'
    BY <1>5 DEF CallMatchesFlow, Reply, session, TypeInv, TypeOK, TurnOK
  <1>6. ASSUME NEW w \in Workers, NEW r \in Sessions, NEW x \in Texts, Receive(w, r, x)
        PROVE  CallMatchesFlow'
    BY <1>6 DEF CallMatchesFlow, Receive, TypeInv, TypeOK, TurnOK
  <1>7. ASSUME UNCHANGED <<session, turn>> PROVE CallMatchesFlow'
    BY <1>7 DEF CallMatchesFlow, session, turn
  <1>8. QED
    BY <1>1, <1>2, <1>3, <1>4, <1>5, <1>6, <1>7 DEF Next, Step, PassLimit, vars

LEMMA SerialInvStep == ~Overlap /\ SerialInv /\ [Next]_vars => SerialInv'
  BY AloneStep, CallMatchesFlowStep, TypeInvStep, FlowDataStep DEF SerialInv

LEMMA SerialInvInit == Init => SerialInv
  BY TypeInvInit DEF Init, SerialInv, FlowHasItsData, PlanStages, Alone, CallMatchesFlow

-------------------------------------------------------------------------------
(***************************************************************************)
(* A proposed switch has a flow to switch from.  While a call to the       *)
(* billing system is out no switch is proposed, so the code after the      *)
(* await may end the flow.                                                 *)
(***************************************************************************)
NoSwitchInCall == \A w \in Workers :
  pc[w] \in {"calling", "returned"} => pendingSwitch[sid[w]] = "none"

SwitchInv == SwitchHasFlow /\ NoSwitchInCall

LEMMA SwitchBusiness ==
  ASSUME TypeInv, SwitchInv, NEW w \in Workers, HandleBusiness(w)
  PROVE  LET s == sid[w] IN
         /\ \A v \in Workers \ {w} : pc'[v] = pc[v]
         /\ sid' = sid /\ s \in Sessions
         /\ \A r \in Sessions \ {s} : pending'[r] = pending[r] /\ pendingSwitch'[r] = pendingSwitch[r]
         /\ pendingSwitch'[s] # "none" => pending'[s] # "none"
         /\ pc'[w] = "calling" => pendingSwitch'[s] = "none"
  <1> DEFINE s == sid[w]
  <1>1. s \in Sessions /\ SessionOK /\ TurnOK /\ (pendingSwitch[s] # "none" => pending[s] # "none")
    BY DEF HandleBusiness, TypeInv, TypeOK, LocalsOK, SwitchInv, SwitchHasFlow
  <1> USE <1>1 DEF HandleBusiness, SessionOK, TurnOK, Answer, CallBilling, StartPlanChange
  <1>2. CASE NewRequest(w)
    BY <1>2 DEF NewRequest, OneOffQuery
  <1>3. CASE SwitchConfirm(w)
    BY <1>3 DEF SwitchConfirm
  <1>4. CASE ProposeSwitch(w) \/ CancelFlow(w)
    BY <1>4 DEF ProposeSwitch, CancelFlow, Continues, InFlow
  <1>5. CASE PlanSelect(w)
    BY <1>5 DEF PlanSelect, CountRetry, LastTry, Continues, InFlow
  <1>6. CASE PlanConfirm(w)
    BY <1>6 DEF PlanConfirm, Continues, InFlow
  <1>7. CASE AddonSelect(w)
    BY <1>7 DEF AddonSelect, CountRetry, LastTry, Continues, InFlow
  <1>8. QED
    BY <1>2, <1>3, <1>4, <1>5, <1>6, <1>7

LEMMA SwitchStep ==
  ASSUME SerialInv, SwitchInv, [Next]_vars
  PROVE  SwitchInv'
  <1> USE DEF SerialInv
  <1>0. \A v \in Workers : pc[v] # "idle" => sid[v] \in Sessions
    BY DEF TypeInv, LocalsOK
  <1>1. ASSUME NEW w \in Workers, HandleBusiness(w) PROVE SwitchInv'
    <2>1. \A v \in Workers \ {w} : sid[v] # sid[w]
      BY <1>1, Own DEF HandleBusiness
    <2>2. SwitchHasFlow'
      BY <1>1, SwitchBusiness DEF SwitchInv, SwitchHasFlow
    <2>3. NoSwitchInCall'
      <3> SUFFICES ASSUME NEW v \in Workers, pc'[v] \in {"calling", "returned"}
                   PROVE  pendingSwitch'[sid'[v]] = "none"
        BY DEF NoSwitchInCall
      <3>1. CASE v = w
        <4>1. pc'[w] # "returned"
          BY <1>1, BusinessOutcome
        <4>2. QED
          BY <1>1, <3>1, <4>1, SwitchBusiness
      <3>2. CASE v # w
        BY <1>0, <1>1, <2>1, <3>2, SwitchBusiness DEF SwitchInv, NoSwitchInCall
      <3>3. QED
        BY <3>1, <3>2
    <2>4. QED
      BY <2>2, <2>3 DEF SwitchInv
  <1>2. ASSUME NEW w \in Workers, Resume(w) PROVE SwitchInv'
    <2>1. sid[w] \in Sessions /\ pendingSwitch[sid[w]] = "none"
      BY <1>0, <1>2 DEF Resume, SwitchInv, NoSwitchInCall
    <2>2. pc' = [pc EXCEPT ![w] = "replying"] /\ UNCHANGED <<sid, pendingSwitch>>
      BY <1>2 DEF Resume, ResumeQueryPlans, ResumeChangePlan, ResumeCancelAddon, Answer
    <2>3. \A r \in Sessions \ {sid[w]} : pending'[r] = pending[r]
      BY <1>2 DEF Resume, ResumeQueryPlans, ResumeChangePlan, ResumeCancelAddon,
                  TypeInv, TypeOK, SessionOK
    <2>4. QED
      BY <2>1, <2>2, <2>3 DEF SwitchInv, SwitchHasFlow, NoSwitchInCall, TypeInv, TypeOK, TurnOK
  <1>3. ASSUME NEW w \in Workers, ExternalCall(w) PROVE SwitchInv'
    BY <1>3 DEF SwitchInv, SwitchHasFlow, NoSwitchInCall, ExternalCall, QueryPlans, ChangePlan,
                CancelAddon, Returns, session, TypeInv, TypeOK, TurnOK
  <1>4. ASSUME NEW w \in Workers, Route(w) PROVE SwitchInv'
    BY <1>4 DEF SwitchInv, SwitchHasFlow, NoSwitchInCall, Route, Answer, session, TypeInv, TypeOK, TurnOK
  <1>5. ASSUME NEW w \in Workers, Reply(w) PROVE SwitchInv'
    BY <1>5 DEF SwitchInv, SwitchHasFlow, NoSwitchInCall, Reply, session, TypeInv, TypeOK, TurnOK
  <1>6. ASSUME NEW w \in Workers, NEW r \in Sessions, NEW x \in Texts, Receive(w, r, x)
        PROVE  SwitchInv'
    BY <1>6 DEF SwitchInv, SwitchHasFlow, NoSwitchInCall, Receive, TypeInv, TypeOK, TurnOK
  <1>7. ASSUME UNCHANGED <<session, turn>> PROVE SwitchInv'
    BY <1>7 DEF SwitchInv, SwitchHasFlow, NoSwitchInCall, session, turn
  <1>8. QED
    BY <1>1, <1>2, <1>3, <1>4, <1>5, <1>6, <1>7 DEF Next, Step, PassLimit, vars

(* With one turn of a session at a time no proposed switch outlives the flow it   *)
(* was to replace (_handle_switch_confirm, the clean-ups after the awaits).       *)
THEOREM SwitchesHaveFlows ==
  ASSUME ~Overlap
  PROVE  Spec => []SwitchHasFlow
  <1>1. Init => SwitchInv
    BY DEF Init, SwitchInv, SwitchHasFlow, NoSwitchInCall
  <1>2. SerialInv /\ SwitchInv /\ [Next]_vars => (SerialInv /\ SwitchInv)'
    BY SerialInvStep, SwitchStep
  <1>3. SwitchInv => SwitchHasFlow
    BY DEF SwitchInv
  <1>4. QED
    BY <1>1, <1>2, <1>3, SerialInvInit, PTL DEF Spec

-------------------------------------------------------------------------------
(***************************************************************************)
(* What a turn tells of its call is what the call did, for every backend   *)
(* and however turns overlap: answer and effect stay together until the    *)
(* reply.  That a flow said to be over is over holds for turns that wait.  *)
(***************************************************************************)
Lies(w, ok) ==
  /\ Backend = "anytelecom"
  /\ ok => call[w].op = "CANCEL_ADDON" /\ call[w].arg \notin Cancelable
Truthful(w, ok) ==
  \/ ret[w].effect \in IF ok THEN {"took", "stood"} ELSE {"stood", "refused"}
  \/ Lies(w, ok)

TruthOf(w) ==
  /\ pc[w] # "replying" => reply[w] = "none"
  /\ pc[w] = "returned" /\ call[w].op \in {"CHANGE_PLAN", "CANCEL_ADDON"} => Truthful(w, ret[w].ok)
  /\ reply[w] = "changed" => Truthful(w, TRUE) /\ call[w].op = "CHANGE_PLAN"
  /\ reply[w] = "addon_cancelled" => Truthful(w, TRUE)
  /\ reply[w] \in {"change_failed", "addon_failed"} => Truthful(w, FALSE)
Truth == \A w \in Workers : TruthOf(w)

GivenUp == {"cancelled", "declined", "gave_up"}
LeftFlows == \A w \in Workers : reply[w] \in GivenUp => pending[sid[w]] = "none"

LEMMA TruthIsTold == Truth /\ (~Overlap => LeftFlows) => AnswerIsTrue
  <1> SUFFICES ASSUME Truth, ~Overlap => LeftFlows, NEW w \in Workers
               PROVE  /\ reply[w] = "changed" => ret[w].effect \in {"took", "stood"}
                      /\ reply[w] = "addon_cancelled" =>
                           \/ ret[w].effect \in {"took", "stood"}
                           \/ Backend = "anytelecom" /\ call[w].arg \notin Cancelable
                      /\ reply[w] \in {"change_failed", "addon_failed"} =>
                           ret[w].effect \in {"stood", "refused"} \/ Backend = "anytelecom"
                      /\ ~Overlap /\ reply[w] \in {"cancelled", "declined", "gave_up"} =>
                           pending[sid[w]] = "none"
    BY DEF AnswerIsTrue
  <1>1. TruthOf(w)
    BY DEF Truth
  <1>2. QED
    BY <1>1 DEF TruthOf, Truthful, Lies, LeftFlows, GivenUp

(* The turns a step does not run keep what they know. *)
LEMMA OthersKeepTruth ==
  ASSUME Truth, NEW w \in Workers, TruthOf(w)',
         \A v \in Workers \ {w} :
           pc'[v] = pc[v] /\ call'[v] = call[v] /\ ret'[v] = ret[v] /\ reply'[v] = reply[v]
  PROVE  Truth'
  <1>1. ASSUME NEW v \in Workers, v # w PROVE TruthOf(v)'
    BY <1>1 DEF Truth, TruthOf, Truthful, Lies
  <1>2. QED
    BY <1>1 DEF Truth

(* What the code up to the first await may tell. *)
LEMMA BusinessTells ==
  ASSUME TypeInv, Truth, NEW w \in Workers, HandleBusiness(w)
  PROVE  /\ sid' = sid /\ ret' = ret
         /\ \A v \in Workers \ {w} : pc'[v] = pc[v] /\ call'[v] = call[v] /\ reply'[v] = reply[v]
         /\ \/ pc'[w] = "calling" /\ reply'[w] = "none"
            \/ /\ pc'[w] = "replying" /\ call' = call
               /\ reply'[w] \notin {"changed", "addon_cancelled", "change_failed", "addon_failed"}
               /\ reply'[w] \in GivenUp => pending'[sid[w]] = "none"
  <1>1. sid[w] \in Sessions /\ SessionOK /\ TurnOK /\ pc[w] = "business" /\ reply[w] = "none"
    BY DEF HandleBusiness, TypeInv, TypeOK, LocalsOK, Truth, TruthOf
  <1> USE <1>1 DEF HandleBusiness, SessionOK, TurnOK, Answer, CallBilling, StartPlanChange, GivenUp
  <1>2. CASE NewRequest(w)
    BY <1>2 DEF NewRequest, OneOffQuery
  <1>3. CASE SwitchConfirm(w)
    BY <1>3 DEF SwitchConfirm
  <1>4. CASE ProposeSwitch(w) \/ CancelFlow(w)
    BY <1>4 DEF ProposeSwitch, CancelFlow
  <1>5. CASE PlanSelect(w)
    BY <1>5 DEF PlanSelect, CountRetry, LastTry
  <1>6. CASE PlanConfirm(w)
    BY <1>6 DEF PlanConfirm
  <1>7. CASE AddonSelect(w)
    BY <1>7 DEF AddonSelect, CountRetry, LastTry
  <1>8. QED
    BY <1>2, <1>3, <1>4, <1>5, <1>6, <1>7

LEMMA TruthExternal ==
  ASSUME TypeInv, Truth, NEW w \in Workers, ExternalCall(w)
  PROVE  Truth'
  <1>1. TurnOK /\ pc[w] = "calling" /\ reply[w] = "none"
    BY DEF ExternalCall, TypeInv, TypeOK, Truth, TruthOf
  <1>2. PICK ok \in BOOLEAN, current \in {plan, NoCurrent} : Returns(w, ok, current)
    BY <1>1 DEF ExternalCall, QueryPlans, ChangePlan, CancelAddon, SaysOfDone, SaysOfRefused
  <1>3. /\ pc' = [pc EXCEPT ![w] = "returned"] /\ UNCHANGED <<sid, said, call, reply>>
        /\ ret'[w].ok = ok /\ ret'[w].effect = Effect(w)
        /\ \A v \in Workers \ {w} : ret'[v] = ret[v]
    BY <1>1, <1>2 DEF Returns, TurnOK
  <1>4. Effect(w) \in {"took", "stood"} <=> AsAsked(w, plan', addons')
    BY DEF Effect
  <1>5. ~AsAsked(w, plan', addons') => Effect(w) = "refused"
    BY DEF Effect
  <1>6. CASE ChangePlan(w)
    <2>1. ok => AsAsked(w, plan', addons')
      <3>1. plan' = call[w].arg \/ ok = FALSE
        BY <1>1, <1>2, <1>6 DEF ChangePlan, Returns, TurnOK
      <3>2. QED
        BY <1>6, <3>1 DEF ChangePlan, AsAsked
    <2>2. ~ok => Backend = "anytelecom"
      <3>1. ret'[w].ok \in SaysOfDone \/ Backend = "anytelecom"
        BY <1>1, <1>6 DEF ChangePlan, Returns, TurnOK
      <3>2. QED
        BY <1>3, <3>1 DEF SaysOfDone
    <2>3. Truthful(w, ok)'
      BY <1>2, <1>3, <1>4, <2>1, <2>2 DEF Truthful, Lies
    <2>4. QED
      BY <1>1, <1>3, <2>3, OthersKeepTruth DEF TruthOf, TurnOK
  <1>7. CASE CancelAddon(w)
    <2>0. call[w].op = "CANCEL_ADDON" /\ TurnOK
      BY <1>1, <1>7 DEF CancelAddon
    <2>1. ok => AsAsked(w, plan', addons') \/ (Backend = "anytelecom" /\ call[w].arg \notin Cancelable)
      <3>1. CASE call[w].arg \notin addons'
        BY <2>0, <3>1 DEF AsAsked
      <3>2. CASE call[w].arg \in addons'
        <4>1. addons' = addons
          BY <1>7, <3>2 DEF CancelAddon
        <4>2. \/ call[w].arg \notin addons \cap Cancelable /\ ret'[w].ok \in SaysOfRefused
              \/ ret'[w].ok = FALSE
          BY <1>1, <1>7, <3>2, <4>1 DEF CancelAddon, Returns, TurnOK
        <4>3. ret'[w].ok = ok
          BY <1>3
        <4>4. ok => call[w].arg \notin Cancelable /\ Backend = "anytelecom"
          BY <3>2, <4>1, <4>2, <4>3 DEF SaysOfRefused
        <4>5. QED
          BY <4>4
      <3>3. QED
        BY <3>1, <3>2
    <2>2. ~ok => Backend = "anytelecom" \/ Effect(w) \in {"stood", "refused"}
      <3>1. CASE addons' = addons
        BY <1>7, <2>0, <3>1 DEF CancelAddon, Effect, AsAsked
      <3>2. CASE addons' # addons
        <4>1. ret'[w].ok \in SaysOfDone
          BY <1>1, <1>7, <3>2 DEF CancelAddon, Returns, TurnOK
        <4>2. QED
          BY <1>3, <4>1 DEF SaysOfDone
      <3>3. QED
        BY <3>1, <3>2
    <2>3. Truthful(w, ok)'
      BY <1>2, <1>3, <1>4, <2>0, <2>1, <2>2 DEF Truthful, Lies
    <2>4. QED
      BY <1>1, <1>3, <2>3, OthersKeepTruth DEF TruthOf, TurnOK
  <1>8. CASE QueryPlans(w)
    BY <1>1, <1>3, <1>8, OthersKeepTruth DEF QueryPlans, TruthOf, TurnOK
  <1>9. QED
    BY <1>6, <1>7, <1>8 DEF ExternalCall

LEMMA TruthStep ==
  ASSUME TypeInv, Truth, [Next]_vars
  PROVE  Truth'
  <1>1. TurnOK
    BY DEF TypeInv, TypeOK
  <1>2. ASSUME NEW w \in Workers, NEW s \in Sessions, NEW x \in Texts, Receive(w, s, x)
        PROVE  Truth'
    <2>1. /\ UNCHANGED <<call, ret>> /\ pc'[w] \in {"routing", "replying"}
          /\ reply'[w] \in {"none", "not_found"} /\ (pc'[w] = "routing" => reply'[w] = "none")
          /\ \A v \in Workers \ {w} : pc'[v] = pc[v] /\ reply'[v] = reply[v]
      BY <1>1, <1>2 DEF Receive, TurnOK, Truth, TruthOf
    <2>2. QED
      BY <2>1, OthersKeepTruth DEF TruthOf
  <1>3. ASSUME NEW w \in Workers, Route(w) PROVE Truth'
    <2>1. /\ UNCHANGED <<call, ret>> /\ pc'[w] \in {"business", "replying"}
          /\ reply'[w] \in {"none", "goodbye", "escalate", "reask"}
          /\ (pc'[w] = "business" => reply'[w] = "none")
          /\ \A v \in Workers \ {w} : pc'[v] = pc[v] /\ reply'[v] = reply[v]
      BY <1>1, <1>3 DEF Route, Answer, TurnOK, Truth, TruthOf
    <2>2. QED
      BY <2>1, OthersKeepTruth DEF TruthOf
  <1>4. ASSUME NEW w \in Workers, HandleBusiness(w) PROVE Truth'
    <2>1. /\ ret' = ret
          /\ \A v \in Workers \ {w} : pc'[v] = pc[v] /\ call'[v] = call[v] /\ reply'[v] = reply[v]
          /\ pc'[w] # "returned" /\ (pc'[w] # "replying" => reply'[w] = "none")
          /\ reply'[w] \notin {"changed", "addon_cancelled", "change_failed", "addon_failed"}
      BY <1>4, BusinessTells
    <2>2. TruthOf(w)'
      BY <2>1 DEF TruthOf
    <2>3. QED
      BY <2>1, <2>2, OthersKeepTruth
  <1>5. ASSUME NEW w \in Workers, Resume(w) PROVE Truth'
    <2>1. /\ pc[w] = "returned" /\ pc' = [pc EXCEPT ![w] = "replying"] /\ UNCHANGED <<call, ret>>
          /\ \A v \in Workers \ {w} : reply'[v] = reply[v]
      BY <1>1, <1>5 DEF Resume, ResumeQueryPlans, ResumeChangePlan, ResumeCancelAddon, Answer, TurnOK
    <2>2. \/ reply'[w] \in {"ask_plan", "unavailable"}
          \/ call[w].op = "CHANGE_PLAN" /\ reply'[w] = Outcome(w, "changed", "change_failed")
          \/ call[w].op = "CANCEL_ADDON" /\ reply'[w] = Outcome(w, "addon_cancelled", "addon_failed")
      BY <1>1, <1>5 DEF Resume, ResumeQueryPlans, ResumeChangePlan, ResumeCancelAddon, Answer, TurnOK
    <2>3. TruthOf(w) /\ ret[w].ok \in BOOLEAN
      BY <1>1 DEF Truth, TurnOK
    <2>4. \A ok : Truthful(w, ok)' <=> Truthful(w, ok)
      BY <2>1 DEF Truthful, Lies
    <2>5. pc'[w] = "replying"
      BY <1>1, <2>1 DEF TurnOK
    <2>6. TruthOf(w)'
      BY <2>1, <2>2, <2>3, <2>4, <2>5 DEF TruthOf, Outcome
    <2>7. QED
      BY <1>1, <2>1, <2>6, OthersKeepTruth DEF TurnOK
  <1>6. ASSUME NEW w \in Workers, Reply(w) PROVE Truth'
    <2>1. /\ pc'[w] = "idle" /\ reply'[w] = "none"
          /\ \A v \in Workers \ {w} :
               pc'[v] = pc[v] /\ call'[v] = call[v] /\ ret'[v] = ret[v] /\ reply'[v] = reply[v]
      BY <1>1, <1>6 DEF Reply, TurnOK
    <2>2. QED
      BY <2>1, OthersKeepTruth DEF TruthOf
  <1>7. ASSUME UNCHANGED turn PROVE Truth'
    BY <1>7 DEF Truth, TruthOf, Truthful, Lies, turn
  <1>8. QED
    BY <1>2, <1>3, <1>4, <1>5, <1>6, <1>7, TruthExternal DEF Next, Step, PassLimit, vars

LEMMA LeftFlowsStep ==
  ASSUME SerialInv, Truth, LeftFlows, [Next]_vars
  PROVE  LeftFlows'
  <1>1. TypeInv /\ Alone /\ TurnOK
    BY DEF SerialInv, TypeInv, TypeOK
  <1>2. \A v \in Workers : reply[v] # "none" => pc[v] = "replying"
    BY DEF Truth, TruthOf
  <1>3. ASSUME NEW w \in Workers, HandleBusiness(w) \/ Resume(w), reply'[w] \in GivenUp => pending'[sid[w]] = "none",
               \A v \in Workers \ {w} : reply'[v] = reply[v]
        PROVE  LeftFlows'
    <2> SUFFICES ASSUME NEW v \in Workers, reply'[v] \in GivenUp PROVE pending'[sid'[v]] = "none"
      BY DEF LeftFlows
    <2>1. pc[w] # "idle" /\ sid' = sid
      BY <1>1, <1>3, BusinessTells DEF HandleBusiness, Resume, ResumeQueryPlans, ResumeChangePlan,
                                      ResumeCancelAddon, Answer
    <2>2. CASE v = w
      BY <1>3, <2>1, <2>2
    <2>3. CASE v # w
      <3>1. pc[v] # "idle" /\ reply[v] \in GivenUp
        BY <1>2, <1>3, <2>3 DEF GivenUp
      <3>2. sid[v] \in Sessions /\ sid[w] # sid[v]
        BY <1>1, <2>1, <2>3, <3>1, Own
      <3>3. pending'[sid[v]] = pending[sid[v]]
        BY <1>1, <1>3, <3>2, OtherSessions
      <3>4. QED
        BY <2>1, <3>1, <3>3 DEF LeftFlows
    <2>4. QED
      BY <2>2, <2>3
  <1>4. ASSUME NEW w \in Workers, HandleBusiness(w) PROVE LeftFlows'
    <2>1. reply'[w] \in GivenUp => pending'[sid[w]] = "none"
      BY <1>1, <1>4, BusinessTells DEF GivenUp
    <2>2. \A v \in Workers \ {w} : reply'[v] = reply[v]
      BY <1>1, <1>4, BusinessTells
    <2>3. QED
      BY <1>3, <1>4, <2>1, <2>2
  <1>5. ASSUME NEW w \in Workers, Resume(w) PROVE LeftFlows'
    <2>1. reply'[w] \notin GivenUp /\ \A v \in Workers \ {w} : reply'[v] = reply[v]
      BY <1>1, <1>5 DEF Resume, ResumeQueryPlans, ResumeChangePlan, ResumeCancelAddon, Answer, TurnOK,
                        Outcome, GivenUp
    <2>2. QED
      BY <1>3, <1>5, <2>1
  <1>6. ASSUME NEW w \in Workers, Route(w) \/ Reply(w) \/ \E s \in Sessions, x \in Texts : Receive(w, s, x)
        PROVE  LeftFlows'
    <2>1. /\ pending' = pending
          /\ reply'[w] \notin GivenUp \/ (sid'[w] = sid[w] /\ reply'[w] = reply[w])
          /\ \A v \in Workers \ {w} : sid'[v] = sid[v] /\ reply'[v] = reply[v]
      <3>1. CASE Route(w)
        BY <1>1, <3>1 DEF Route, Answer, session, TurnOK, GivenUp
      <3>2. CASE Reply(w)
        BY <1>1, <3>2 DEF Reply, session, TurnOK, GivenUp
      <3>3. ASSUME NEW s \in Sessions, NEW x \in Texts, Receive(w, s, x)
            PROVE  /\ pending' = pending
                   /\ reply'[w] \notin GivenUp \/ (sid'[w] = sid[w] /\ reply'[w] = reply[w])
                   /\ \A v \in Workers \ {w} : sid'[v] = sid[v] /\ reply'[v] = reply[v]
        BY <1>1, <1>2, <3>3 DEF Receive, TurnOK, GivenUp
      <3>4. QED
        BY <1>6, <3>1, <3>2, <3>3
    <2>2. QED
      BY <2>1 DEF LeftFlows
  <1>7. ASSUME NEW w \in Workers, ExternalCall(w) PROVE LeftFlows'
    BY <1>7 DEF ExternalCall, QueryPlans, ChangePlan, CancelAddon, Returns, session, LeftFlows
  <1>8. ASSUME UNCHANGED <<session, turn>> PROVE LeftFlows'
    BY <1>8 DEF LeftFlows, session, turn
  <1>9. QED
    BY <1>4, <1>5, <1>6, <1>7, <1>8 DEF Next, Step, PassLimit, vars

(* AnswerIsTrue (_handle_plan_confirm, _handle_addon_select, the retries and the  *)
(* cancel word), for every backend, any number of sessions and overlapping turns: *)
(* the only untrue answers are the two that the AnyTelecom adapter makes.         *)
THEOREM AnswersAreTrue == Spec => []AnswerIsTrue
  <1> DEFINE Serial == ~Overlap => SerialInv /\ LeftFlows
             I == TypeInv /\ Truth /\ Serial
  <1>1. Init => I
    <2> SUFFICES ASSUME Init PROVE I
      OBVIOUS
    <2>1. \A w \in Workers : reply[w] = "none" /\ pc[w] = "idle"
      BY DEF Init
    <2>2. Truth /\ LeftFlows
      BY <2>1 DEF Truth, TruthOf, LeftFlows, GivenUp
    <2>3. QED
      BY <2>2, TypeInvInit, SerialInvInit
  <1>2. I /\ [Next]_vars => I'
    BY TypeInvStep, TruthStep, SerialInvStep, LeftFlowsStep
  <1>3. I => AnswerIsTrue
    BY TruthIsTold
  <1>4. QED
    BY <1>1, <1>2, <1>3, PTL DEF Spec

-------------------------------------------------------------------------------
(* The abstract flow of a session is read off its pending_intent and the one *)
(* turn that may be in it.                                                   *)
Done(w) == pc[w] = "returned" /\ call[w].op \in {"CHANGE_PLAN", "CANCEL_ADDON"}

LEMMA SettledIsDone ==
  ASSUME Alone, NEW w \in Workers, sid[w] # None
  PROVE  Settled(sid[w]) <=> Done(w)
  BY DEF Alone, Settled, Done

LEMMA FlowFunctions ==
  /\ stage = [r \in Sessions |-> stage[r]] /\ stage' = [r \in Sessions |-> stage'[r]]
  /\ offered = [r \in Sessions |-> offered[r]] /\ offered' = [r \in Sessions |-> offered'[r]]
  <1>1. stage = [r \in Sessions |-> stage[r]] /\ stage' = [r \in Sessions |-> stage'[r]]
    BY DEF stage
  <1>2. offered = [r \in Sessions |-> offered[r]] /\ offered' = [r \in Sessions |-> offered'[r]]
    BY DEF offered
  <1>3. QED
    BY <1>1, <1>2

(* A step of one turn moves the flow of its own session only. *)
LEMMA Frame ==
  ASSUME SerialInv, NEW w \in Workers, NEW s \in Sessions, s = sid[w], pc[w] # "idle",
         sid' = sid,
         \A v \in Workers \ {w} : pc'[v] = pc[v] /\ call'[v] = call[v],
         \A r \in Sessions \ {s} : pending'[r] = pending[r] /\ selected'[r] = selected[r]
  PROVE  /\ Settled(s) <=> Done(w)
         /\ Settled(s)' <=> Done(w)'
         /\ stage' = [stage EXCEPT ![s] = stage'[s]]
         /\ offered' = [offered EXCEPT ![s] = offered'[s]]
  <1>1. s # None /\ \A v \in Workers \ {w} : sid[v] # s
    BY Own DEF SerialInv
  <1>2. Settled(s) <=> Done(w)
    BY <1>1, SettledIsDone DEF SerialInv
  <1>3. Settled(s)' <=> Done(w)'
    BY <1>1 DEF Settled, Done
  <1>4. \A r \in Sessions \ {s} : Settled(r)' <=> Settled(r)
    BY <1>1 DEF Settled
  <1>5. \A r \in Sessions \ {s} : stage'[r] = stage[r] /\ offered'[r] = offered[r]
    BY <1>4 DEF stage, offered
  <1>6. stage' = [stage EXCEPT ![s] = stage'[s]] /\ offered' = [offered EXCEPT ![s] = offered'[s]]
    BY <1>5, FlowFunctions
  <1>7. QED
    BY <1>1, <1>2, <1>3, <1>6

FlowStep == Flow!Next \/ UNCHANGED <<stage, offered, plan, addons>>

LEMMA FlowUnmoved ==
  ASSUME UNCHANGED <<pending, selected, account>>,
         \A s \in Sessions : Settled(s)' <=> Settled(s)
  PROVE  FlowStep
  BY DEF FlowStep, stage, offered, account

LEMMA FlowBusiness ==
  ASSUME SerialInv, NEW w \in Workers, HandleBusiness(w)
  PROVE  FlowStep
  <1>0. PICK s \in Sessions : s = sid[w]
    BY Own DEF SerialInv, HandleBusiness
  <1>1. /\ ~Settled(s) /\ ~Settled(s)'
        /\ stage' = [stage EXCEPT ![s] = stage'[s]]
        /\ offered' = [offered EXCEPT ![s] = offered'[s]]
        /\ UNCHANGED <<plan, addons>>
    <2>1. /\ pc[w] = "business" /\ pc'[w] \in {"replying", "calling"} /\ sid' = sid
          /\ \A v \in Workers \ {w} : pc'[v] = pc[v] /\ call'[v] = call[v]
          /\ \A r \in Sessions \ {s} : pending'[r] = pending[r] /\ selected'[r] = selected[r]
          /\ UNCHANGED account
      BY <1>0, BusinessOutcome DEF SerialInv
    <2>2. ~Done(w) /\ ~Done(w)'
      BY <2>1 DEF Done
    <2>3. QED
      BY <1>0, <2>1, <2>2, Frame DEF account
  <1>2. CASE pending'[s] = pending[s] /\ selected'[s] = selected[s]
    <2>1. stage'[s] = stage[s] /\ offered'[s] = offered[s]
      BY <1>1, <1>2 DEF stage, offered
    <2>2. stage' = stage /\ offered' = offered
      BY <1>1, <2>1, FlowFunctions
    <2>3. QED
      BY <1>1, <2>2 DEF FlowStep
  <1>3. CASE pending'[s] = "none"
    <2>1. stage'[s] = "idle" /\ offered'[s] = None
      BY <1>1, <1>3 DEF stage, offered
    <2>2. Flow!Leave(s)
      BY <1>1, <2>1 DEF Flow!Leave, Flow!Move
    <2>3. QED
      BY <1>1, <2>2 DEF FlowStep, Flow!Next
  <1>4. CASE pending'[s] = "ADDON_CANCEL_SELECT"
    <2>1. stage'[s] = "addon" /\ offered'[s] = None
      BY <1>1, <1>4 DEF stage, offered
    <2>2. Flow!StartAddon(s)
      BY <1>1, <2>1 DEF Flow!StartAddon, Flow!Move
    <2>3. QED
      BY <1>1, <2>2 DEF FlowStep, Flow!Next
  <1>5. CASE /\ pending[s] = "PLAN_CHANGE_SELECT" /\ pending'[s] = "PLAN_CHANGE_CONFIRM"
             /\ selected'[s] \in Plans
    <2>1. stage[s] = "choosing" /\ stage'[s] = "confirming" /\ offered'[s] = selected'[s]
      BY <1>1, <1>5 DEF stage, offered
    <2>2. Flow!Offer(s, selected'[s])
      BY <1>1, <2>1 DEF Flow!Offer, Flow!Move
    <2>3. QED
      BY <1>1, <1>5, <2>2 DEF FlowStep, Flow!Next
  <1>6. QED
    BY <1>0, <1>2, <1>3, <1>4, <1>5, BusinessOutcome DEF SerialInv

LEMMA FlowExternalCall ==
  ASSUME SerialInv, NEW w \in Workers, ExternalCall(w)
  PROVE  FlowStep
  <1>0. PICK s \in Sessions : s = sid[w]
    BY Own DEF SerialInv, ExternalCall
  <1>1. /\ pc[w] = "calling" /\ pc' = [pc EXCEPT ![w] = "returned"]
        /\ UNCHANGED <<sid, call, pending, selected>>
    BY DEF ExternalCall, QueryPlans, ChangePlan, CancelAddon, Returns, session
  <1>2. /\ ~Settled(s) /\ (Settled(s)' <=> Done(w)')
        /\ stage' = [stage EXCEPT ![s] = stage'[s]]
        /\ offered' = [offered EXCEPT ![s] = offered'[s]]
    <2>1. ~Done(w) /\ \A v \in Workers \ {w} : pc'[v] = pc[v] /\ call'[v] = call[v]
      BY <1>1 DEF Done, SerialInv, TypeInv, TypeOK, TurnOK
    <2>2. QED
      BY <1>0, <1>1, <2>1, Frame
  <1>3. pc'[w] = "returned" /\ call'[w].op = call[w].op
    BY <1>1 DEF SerialInv, TypeInv, TypeOK, TurnOK
  <1>4. CASE QueryPlans(w)
    <2>1. ~Settled(s)' /\ UNCHANGED account
      BY <1>2, <1>3, <1>4 DEF QueryPlans, Done
    <2>2. stage'[s] = stage[s] /\ offered'[s] = offered[s]
      BY <1>1, <1>2, <2>1 DEF stage, offered
    <2>3. stage' = stage /\ offered' = offered
      BY <1>2, <2>2, FlowFunctions
    <2>4. QED
      BY <2>1, <2>3 DEF FlowStep, account
  <1>5. CASE ChangePlan(w) \/ CancelAddon(w)
    <2>1. stage'[s] = "idle" /\ offered'[s] = None
      BY <1>2, <1>3, <1>5 DEF ChangePlan, CancelAddon, Done, stage, offered
    <2>2. CASE UNCHANGED account
      <3>1. Flow!Leave(s)
        BY <1>2, <2>1, <2>2 DEF Flow!Leave, Flow!Move, account
      <3>2. QED
        BY <1>2, <3>1 DEF FlowStep, Flow!Next
    <2>3. CASE ChangePlan(w) /\ plan' = call[w].arg /\ UNCHANGED addons
      <3>1. pending[s] = "PLAN_CHANGE_CONFIRM" /\ selected[s] = call[w].arg
        BY <1>0, <1>1, <2>3 DEF SerialInv, CallMatchesFlow, ChangePlan
      <3>2. stage[s] = "confirming" /\ offered[s] = call[w].arg
        BY <1>2, <3>1 DEF stage, offered
      <3>3. Flow!Change(s)
        BY <1>2, <2>1, <2>3, <3>2 DEF Flow!Change, Flow!Move
      <3>4. QED
        BY <1>2, <3>3 DEF FlowStep, Flow!Next
    <2>4. CASE /\ CancelAddon(w) /\ call[w].arg \in addons \cap Cancelable
               /\ addons' = addons \ {call[w].arg} /\ UNCHANGED plan
      <3>1. pending[s] = "ADDON_CANCEL_SELECT"
        BY <1>0, <1>1, <2>4 DEF SerialInv, CallMatchesFlow, CancelAddon
      <3>2. stage[s] = "addon"
        BY <1>2, <3>1 DEF stage
      <3>3. Flow!Cancel(s, call[w].arg) /\ call[w].arg \in Addons
        BY <1>2, <2>1, <2>4, <3>2 DEF Flow!Cancel, Flow!Move, SerialInv, TypeInv, TypeOK, AccountOK
      <3>4. QED
        BY <1>2, <3>3 DEF FlowStep, Flow!Next
    <2>5. QED
      BY <1>5, <2>2, <2>3, <2>4 DEF ChangePlan, CancelAddon, account
  <1>6. QED
    BY <1>4, <1>5 DEF ExternalCall

LEMMA FlowResume ==
  ASSUME SerialInv, NEW w \in Workers, Resume(w)
  PROVE  FlowStep
  <1>0. PICK s \in Sessions : s = sid[w]
    BY Own DEF SerialInv, Resume
  <1>1. /\ pc[w] = "returned" /\ pc' = [pc EXCEPT ![w] = "replying"]
        /\ UNCHANGED <<sid, call, plan, addons>>
    BY DEF Resume, ResumeQueryPlans, ResumeChangePlan, ResumeCancelAddon, Answer, account
  <1>3. \A r \in Sessions \ {s} : pending'[r] = pending[r] /\ selected'[r] = selected[r]
    BY <1>0 DEF Resume, ResumeQueryPlans, ResumeChangePlan, ResumeCancelAddon,
                SerialInv, TypeInv, TypeOK, SessionOK
  <1>4. pc'[w] = "replying"
    BY <1>1 DEF SerialInv, TypeInv, TypeOK, TurnOK
  <1>5. /\ (Settled(s) <=> Done(w)) /\ ~Settled(s)'
        /\ stage' = [stage EXCEPT ![s] = stage'[s]]
        /\ offered' = [offered EXCEPT ![s] = offered'[s]]
    <2>1. \A v \in Workers \ {w} : pc'[v] = pc[v] /\ call'[v] = call[v]
      BY <1>1
    <2>2. (Settled(s) <=> Done(w)) /\ (Settled(s)' <=> Done(w)')
          /\ stage' = [stage EXCEPT ![s] = stage'[s]]
          /\ offered' = [offered EXCEPT ![s] = offered'[s]]
      BY <1>0, <1>1, <1>3, <2>1, Frame
    <2>3. QED
      BY <1>4, <2>2 DEF Done
  <1>6. CASE ResumeQueryPlans(w)
    <2>1. pending[s] = "none" /\ ~Settled(s)
      BY <1>0, <1>1, <1>5, <1>6 DEF ResumeQueryPlans, Done, SerialInv, CallMatchesFlow
    <2>2. stage[s] = "idle" /\ offered[s] = None
      BY <1>0, <2>1 DEF stage, offered
    <2>3. CASE pending' = [pending EXCEPT ![s] = "PLAN_CHANGE_SELECT"]
      <3>1. pending'[s] = "PLAN_CHANGE_SELECT"
        BY <1>0, <2>3 DEF SerialInv, TypeInv, TypeOK, SessionOK
      <3>2. stage'[s] = "choosing" /\ offered'[s] = None
        BY <1>0, <1>5, <3>1 DEF stage, offered
      <3>3. Flow!Start(s)
        BY <1>1, <1>5, <2>2, <3>2 DEF Flow!Start, Flow!Move
      <3>4. QED
        BY <1>0, <3>3 DEF FlowStep, Flow!Next
    <2>4. CASE pending' = pending
      <3>1. stage'[s] = "idle" /\ offered'[s] = None
        BY <1>0, <1>5, <2>1, <2>4 DEF stage, offered
      <3>2. stage' = stage /\ offered' = offered
        BY <1>5, <2>2, <3>1, FlowFunctions
      <3>3. QED
        BY <1>1, <3>2 DEF FlowStep
    <2>5. QED
      BY <1>0, <1>6, <2>3, <2>4 DEF ResumeQueryPlans
  <1>7. CASE ResumeChangePlan(w) \/ ResumeCancelAddon(w)
    <2>1. pending'[s] = "none" /\ Settled(s)
      BY <1>1, <1>0, <1>5, <1>7
      DEF ResumeChangePlan, ResumeCancelAddon, Done, SerialInv, TypeInv, TypeOK, SessionOK
    <2>2. stage[s] = "idle" /\ offered[s] = None /\ stage'[s] = "idle" /\ offered'[s] = None
      BY <1>0, <2>1 DEF stage, offered
    <2>3. stage' = stage /\ offered' = offered
      BY <1>5, <2>2, FlowFunctions
    <2>4. QED
      BY <1>1, <2>3 DEF FlowStep
  <1>8. QED
    BY <1>6, <1>7 DEF Resume

LEMMA FlowNextStep ==
  ASSUME SerialInv, [Next]_vars
  PROVE  FlowStep
  <1> USE DEF SerialInv, TypeInv, TypeOK, TurnOK
  <1>1. ASSUME NEW w \in Workers, Route(w) PROVE FlowStep
    BY <1>1, FlowUnmoved DEF Route, Answer, Settled, session
  <1>2. ASSUME NEW w \in Workers, Reply(w) PROVE FlowStep
    BY <1>2, FlowUnmoved DEF Reply, Settled, session
  <1>3. ASSUME NEW w \in Workers, NEW s \in Sessions, NEW x \in Texts, Receive(w, s, x)
        PROVE  FlowStep
    BY <1>3, FlowUnmoved DEF Receive, Settled
  <1>4. ASSUME UNCHANGED <<session, account, turn>> PROVE FlowStep
    BY <1>4, FlowUnmoved DEF Settled, session, turn
  <1>5. QED
    BY <1>1, <1>2, <1>3, <1>4, FlowBusiness, FlowExternalCall, FlowResume
    DEF Next, Step, PassLimit, vars

(* Callers who wait for each answer get the flow the docstring of              *)
(* _handle_business describes: every change of the account is the one change   *)
(* of a flow that offered it, whatever the billing system does with requests.  *)
THEOREM SerialRefinement ==
  ASSUME ~Overlap
  PROVE  Spec => ImplementsFlow
  <1>1. Init => Flow!Init
    BY DEF Init, Flow!Init, stage, offered, Settled
  <1>2. SerialInv /\ [Next]_vars => [Flow!Next]_<<stage, offered, plan, addons>>
    BY FlowNextStep DEF FlowStep
  <1>3. SerialInv /\ [Next]_vars => SerialInv'
    BY SerialInvStep
  <1>4. QED
    BY <1>1, <1>2, <1>3, SerialInvInit, PTL DEF Spec, ImplementsFlow, Flow!Spec, Flow!vars
=============================================================================
