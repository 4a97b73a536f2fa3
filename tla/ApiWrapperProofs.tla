--------------------------- MODULE ApiWrapperProofs ---------------------------
(***************************************************************************)
(* Proofs about ApiWrapper for every number of threads and retries, every  *)
(* window and every threshold.                                             *)
(***************************************************************************)
EXTENDS ApiWrapperProps, TLAPS

LEMMA TypeInit == Init => TypeOK
  BY WrapperAssumption DEF Init, TypeOK, Ages, Errors, Results

LEMMA TypeStep == TypeOK /\ [Next]_vars => TypeOK'
  <1> SUFFICES ASSUME TypeOK, [Next]_vars PROVE TypeOK'
    OBVIOUS
  <1> USE WrapperAssumption DEF TypeOK, Goto, Return, Errors, Results
  <1>1. ASSUME NEW c \in Callers, Begin(c) PROVE TypeOK'
    BY <1>1 DEF Begin, StatusRead
  <1>2. ASSUME NEW c \in Callers, Send(c) PROVE TypeOK'
    BY <1>2 DEF Send, Answered, Rejected, Unreadable, Lost, breaker
  <1>3. ASSUME NEW c \in Callers, RecordSuccess(c) PROVE TypeOK'
    <2>0. 0 \in Ages /\ oks[0] + 1 \in Nat
      BY DEF Ages
    <2>1. oks' \in [Ages -> Nat]
      BY <2>0, <1>3 DEF RecordSuccess
    <2>2. QED
      BY <1>3, <2>1 DEF RecordSuccess
  <1>4. ASSUME NEW c \in Callers, RecordFailure(c) PROVE TypeOK'
    <2>0. 0 \in Ages /\ fails[0] + 1 \in Nat
      BY DEF Ages
    <2>1. fails' \in [Ages -> Nat]
      BY <2>0, <1>4 DEF RecordFailure
    <2>2. QED
      BY <1>4, <2>1 DEF RecordFailure
  <1>5. ASSUME NEW c \in Callers, Open(c) \/ Stamp(c) PROVE TypeOK'
    BY <1>5 DEF Open, Stamp
  <1>6. ASSUME NEW c \in Callers, Retry(c) PROVE TypeOK'
    BY <1>6 DEF Retry, MayRetry, breaker
  <1>7. ASSUME NEW c \in Callers, Finish(c) PROVE TypeOK'
    BY <1>7 DEF Finish, breaker
  <1>8. ASSUME Tick PROVE TypeOK'
    <2>1. ASSUME NEW f \in [Ages -> Nat] PROVE Older(f) \in [Ages -> Nat]
      BY DEF Older, Ages
    <2>2. openedAge' \in (0..OpenFor) \cup {None}
      BY <1>8 DEF Tick
    <2>3. QED
      BY <1>8, <2>1, <2>2 DEF Tick, thread
  <1>9. CASE BackendChanges \/ UNCHANGED vars
    BY <1>9 DEF BackendChanges, vars, breaker, thread
  <1>10. QED
    BY <1>1, <1>2, <1>3, <1>4, <1>5, <1>6, <1>7, <1>8, <1>9 DEF Next, Step

(* Every variable of the breaker and of its callers keeps its type; a call makes *)
(* no more than MaxRetries + 1 attempts.                                         *)
THEOREM WrapperTypeCorrect == Spec => []TypeOK
  BY TypeInit, TypeStep, PTL DEF Spec

-------------------------------------------------------------------------------
LEMMA OpenKnowsSinceStep ==
  ASSUME TypeOK, OpenKnowsSince, [Next]_vars
  PROVE  OpenKnowsSince'
  <1> USE DEF OpenKnowsSince
  <1>1. ASSUME NEW c \in Callers, Begin(c) PROVE OpenKnowsSince'
    BY <1>1 DEF Begin, StatusRead, Goto, Return, TypeOK
  <1>2. ASSUME NEW c \in Callers, RecordSuccess(c) PROVE OpenKnowsSince'
    BY <1>2 DEF RecordSuccess, Goto, Return, TypeOK
  <1>3. ASSUME NEW c \in Callers, Open(c) PROVE OpenKnowsSince'
    BY <1>3 DEF Open, Goto, TypeOK
  <1>4. ASSUME NEW c \in Callers, Stamp(c) PROVE OpenKnowsSince'
    BY <1>4, WrapperAssumption DEF Stamp
  <1>5. ASSUME NEW c \in Callers, Send(c) \/ RecordFailure(c) \/ Retry(c) \/ Finish(c)
        PROVE  OpenKnowsSince'
    BY <1>5 DEF Send, Answered, Rejected, Unreadable, Lost, RecordFailure, Retry, Finish,
                Goto, Return, TypeOK, breaker
  <1>6. CASE Tick
    BY <1>6, WrapperAssumption DEF Tick, thread, TypeOK
  <1>7. CASE BackendChanges \/ UNCHANGED vars
    BY <1>7 DEF BackendChanges, vars, breaker, thread
  <1>8. QED
    BY <1>1, <1>2, <1>3, <1>4, <1>5, <1>6, <1>7 DEF Next, Step

(* However many threads race, no interleaving of record_success with the two  *)
(* writes of _evaluate leaves the breaker open without a time.                *)
THEOREM NeverOpenForGood == Spec => []OpenKnowsSince
  <1>1. Init => OpenKnowsSince
    BY DEF Init, OpenKnowsSince
  <1>2. QED
    BY <1>1, TypeInit, TypeStep, OpenKnowsSinceStep, PTL DEF Spec

-------------------------------------------------------------------------------
(* What the thread knows of its request where it stands.                      *)
EffectKnown == \A c \in Callers :
  /\ pc[c] = "idle" => ~executed[c]
  /\ pc[c] = "succeeded" => executed[c]

LEMMA EffectKnownStep ==
  ASSUME TypeOK, EffectKnown, [Next]_vars
  PROVE  EffectKnown'
  <1> USE DEF EffectKnown, TypeOK, Goto, Return
  <1>1. ASSUME NEW c \in Callers, Begin(c) \/ Send(c) PROVE EffectKnown'
    BY <1>1 DEF Begin, Send, Answered, Rejected, Unreadable, Lost
  <1>2. ASSUME NEW c \in Callers,
               \/ RecordSuccess(c) \/ RecordFailure(c) \/ Open(c) \/ Stamp(c)
               \/ Retry(c) \/ Finish(c)
        PROVE  EffectKnown'
    BY <1>2 DEF RecordSuccess, RecordFailure, Open, Stamp, Retry, Finish
  <1>3. CASE Tick \/ BackendChanges \/ UNCHANGED vars
    BY <1>3 DEF Tick, BackendChanges, vars, breaker, thread
  <1>4. QED
    BY <1>1, <1>2, <1>3 DEF Next, Step

(* The abstract phase of a thread is a function of its own pc and result. *)
PhaseOf(l, r) ==
  IF l = "idle" THEN "idle" ELSE IF l # "done" THEN "asked"
  ELSE IF r = "ok" THEN "success" ELSE IF r = "blocked" THEN "blocked" ELSE "failure"

LEMMA PhaseIs == phase = [c \in Callers |-> PhaseOf(pc[c], result[c])]
                 /\ phase' = [c \in Callers |-> PhaseOf(pc'[c], result'[c])]
  BY DEF phase, PhaseOf

LEMMA PhaseMoves ==
  ASSUME TypeOK, NEW c \in Callers, NEW l, Goto(c, l),
         \A d \in Callers \ {c} : result'[d] = result[d]
  PROVE  phase' = [phase EXCEPT ![c] = PhaseOf(l, result'[c])]
  BY PhaseIs DEF Goto, TypeOK

CallStep == Call!Next \/ UNCHANGED <<phase, executed>>

LEMMA CallBegin ==
  ASSUME TypeOK, NEW c \in Callers, Begin(c)
  PROVE  CallStep
  <1>1. phase[c] = "idle" /\ UNCHANGED executed
    BY PhaseIs DEF Begin, PhaseOf
  <1>2. CASE Return(c, "blocked")
    <2>1. phase' = [phase EXCEPT ![c] = "blocked"]
      BY <1>2, PhaseMoves DEF Return, TypeOK, PhaseOf
    <2>2. QED
      BY <1>1, <2>1 DEF CallStep, Call!Next, Call!Block
  <1>3. CASE Goto(c, "sending") /\ UNCHANGED result
    <2>1. phase' = [phase EXCEPT ![c] = "asked"]
      BY <1>3, PhaseMoves DEF PhaseOf
    <2>2. QED
      BY <1>1, <2>1 DEF CallStep, Call!Next, Call!Ask
  <1>4. QED
    BY <1>2, <1>3 DEF Begin

LEMMA CallSend ==
  ASSUME TypeOK, NEW c \in Callers, Send(c)
  PROVE  CallStep
  <1>1. phase[c] = "asked" /\ phase = [phase EXCEPT ![c] = "asked"]
    BY PhaseIs DEF Send, PhaseOf
  <1>2. CASE Return(c, "client")
    <2>1. phase' = [phase EXCEPT ![c] = "failure"]
      BY <1>2, PhaseMoves DEF Return, TypeOK, PhaseOf
    <2>2. CASE Rejected(c)
      BY <1>1, <2>1, <2>2 DEF Rejected, CallStep, Call!Next, Call!Answer
    <2>3. CASE executed' = [executed EXCEPT ![c] = TRUE]
      BY <1>1, <2>1, <2>3 DEF CallStep, Call!Next, Call!TakeEffect
    <2>4. QED
      BY <1>2, <2>2, <2>3 DEF Send, Answered, Unreadable, Lost, Return, Goto, TypeOK
  <1>3. CASE \E l \in {"succeeded", "failed"} : Goto(c, l) /\ UNCHANGED result
    <2>1. phase' = phase
      BY <1>1, <1>3, PhaseMoves DEF PhaseOf
    <2>2. executed' = [executed EXCEPT ![c] = TRUE] \/ UNCHANGED executed
      BY <1>3 DEF Send, Answered, Rejected, Unreadable, Lost, TypeOK
    <2>3. QED
      BY <1>1, <2>1, <2>2 DEF CallStep, Call!Next, Call!TakeEffect
  <1>4. QED
    BY <1>2, <1>3 DEF Send, Answered, Rejected, Unreadable, Lost

LEMMA CallReturns ==
  ASSUME TypeOK, EffectKnown, NEW c \in Callers, RecordSuccess(c) \/ Retry(c) \/ Finish(c)
  PROVE  CallStep
  <1>1. CASE RecordSuccess(c)
    <2>1. phase[c] = "asked" /\ executed[c]
      BY <1>1, PhaseIs DEF RecordSuccess, PhaseOf, EffectKnown
    <2>2. phase' = [phase EXCEPT ![c] = "success"]
      BY <1>1, PhaseMoves DEF RecordSuccess, Return, TypeOK, PhaseOf
    <2>3. QED
      BY <1>1, <2>1, <2>2 DEF RecordSuccess, CallStep, Call!Next, Call!Answer
  <1>2. CASE Retry(c)
    <2>1. phase[c] = "asked" /\ phase = [phase EXCEPT ![c] = "asked"] /\ UNCHANGED executed
      BY <1>2, PhaseIs DEF Retry, PhaseOf
    <2>2. CASE Goto(c, "sending") /\ UNCHANGED result
      BY <2>1, <2>2, PhaseMoves DEF PhaseOf, CallStep
    <2>3. CASE Return(c, error[c])
      <3>1. phase' = [phase EXCEPT ![c] = "failure"]
        BY <2>3, PhaseMoves DEF Return, TypeOK, Errors, PhaseOf
      <3>2. QED
        BY <2>1, <3>1 DEF CallStep, Call!Next, Call!Answer
    <2>4. QED
      BY <1>2, <2>2, <2>3 DEF Retry
  <1>3. CASE Finish(c)
    <2>1. phase[c] \in {"blocked", "success", "failure"}
      BY <1>3, PhaseIs DEF Finish, PhaseOf
    <2>2. phase' = [phase EXCEPT ![c] = "idle"]
      BY <1>3, PhaseMoves DEF Finish, TypeOK, PhaseOf
    <2>3. QED
      BY <1>3, <2>1, <2>2 DEF Finish, CallStep, Call!Next, Call!Close
  <1>4. QED
    BY <1>1, <1>2, <1>3

LEMMA CallInside ==
  ASSUME TypeOK, NEW c \in Callers, RecordFailure(c) \/ Open(c) \/ Stamp(c)
  PROVE  CallStep
  <1>1. phase[c] = "asked" /\ phase = [phase EXCEPT ![c] = "asked"]
    BY PhaseIs DEF RecordFailure, Open, Stamp, PhaseOf
  <1>2. \E l \in {"opening", "judged", "stamping"} : Goto(c, l)
    BY DEF RecordFailure, Open, Stamp
  <1>3. UNCHANGED <<result, executed>>
    BY DEF RecordFailure, Open, Stamp
  <1>4. QED
    BY <1>1, <1>2, <1>3, PhaseMoves DEF PhaseOf, CallStep

(* The wrapper with its retries and its breaker gives every caller what          *)
(* TurnPipeline takes a call to be: success only if carried out, no effect if    *)
(* blocked, nothing after the answer.                                            *)
THEOREM WrapperImplementsCall == Spec => ImplementsCall
  <1>1. Init => Call!Init /\ EffectKnown
    BY DEF Init, Call!Init, phase, EffectKnown
  <1>2. TypeOK /\ EffectKnown /\ [Next]_vars => [Call!Next]_<<phase, executed>>
    <2> SUFFICES ASSUME TypeOK, EffectKnown, [Next]_vars PROVE CallStep
      BY DEF CallStep
    <2>1. ASSUME UNCHANGED <<pc, result, executed>> PROVE CallStep
      BY <2>1 DEF CallStep, phase
    <2>2. QED
      BY <2>1, CallBegin, CallSend, CallReturns, CallInside
      DEF Next, Step, Tick, BackendChanges, vars, thread
  <1>3. TypeOK /\ EffectKnown /\ [Next]_vars => EffectKnown'
    BY EffectKnownStep
  <1>4. QED
    BY <1>1, <1>2, <1>3, TypeInit, TypeStep, PTL DEF Spec, ImplementsCall, Call!Spec, Call!vars
=============================================================================
