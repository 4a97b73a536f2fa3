----------------------------- MODULE ApiWrapper -----------------------------
(***************************************************************************)
(* ExternalAPIWrapper._call_with_retry and its CircuitBreaker              *)
(* (business/api_wrapper.py), as AnyTelecomExternalSystem uses them: one   *)
(* breaker for the billing system, shared without a lock by the executor   *)
(* threads the turns run in.  TurnPipeline takes a whole call as one step; *)
(* BillingCall says what such a step may rely on.                          *)
(*                                                                         *)
(* A thread can be preempted at a Python call.  record_success tests and   *)
(* resets the breaker without one; _evaluate has one on either side of     *)
(* "status = OPEN", so a failure is recorded in three steps: count it and  *)
(* decide (RecordFailure), status = OPEN (Open), opened_at = now (Stamp).  *)
(* Time is counted in ticks; call times are kept by age, and an entry is   *)
(* dropped when it leaves the window, which is what _prune does before     *)
(* each evaluation.                                                        *)
(***************************************************************************)
EXTENDS Naturals, Functions

CONSTANTS
  Callers,      \* executor threads
  MaxRetries,   \* _MAX_RETRIES
  MinCalls,     \* _MIN_CALLS
  Window,       \* _WINDOW_SEC in ticks
  OpenFor,      \* _HALF_OPEN_TIMEOUT_SEC in ticks
  Traffic,      \* no call begins while the window holds this many entries
  None

ASSUME WrapperAssumption ==
  /\ MaxRetries \in Nat /\ MinCalls \in Nat /\ Traffic \in Nat
  /\ Window \in Nat \ {0} /\ OpenFor \in Nat
  /\ None \notin Nat

VARIABLES
  \* CircuitBreaker
  status, openedAge, oks, fails,
  \* per thread: where it is in _call_with_retry, attempt, the error of the
  \* attempt, and the APIResult
  pc, attempt, error, result,
  \* the billing system: whether it carried out the thread's request, and
  \* whether it is answering properly
  executed, healthy

breaker == <<status, openedAge, oks, fails>>
thread  == <<pc, attempt, error, result>>
vars    == <<breaker, thread, executed, healthy>>

Ages    == 0..(Window - 1)
Errors  == {"none", "timeout", "client", "server"}
Results == {"none", "ok", "blocked", "timeout", "client", "server"}

TypeOK ==
  /\ status \in {"CLOSED", "OPEN", "HALF_OPEN"}
  /\ openedAge \in (0..OpenFor) \cup {None}
  /\ oks \in [Ages -> Nat] /\ fails \in [Ages -> Nat]
  /\ pc \in [Callers -> {"idle", "sending", "succeeded", "failed", "opening",
                         "stamping", "judged", "done"}]
  /\ attempt \in [Callers -> 0..MaxRetries]
  /\ error \in [Callers -> Errors]
  /\ result \in [Callers -> Results]
  /\ executed \in [Callers -> BOOLEAN]
  /\ healthy \in BOOLEAN

Init ==
  /\ status = "CLOSED" /\ openedAge = None
  /\ oks = [a \in Ages |-> 0] /\ fails = [a \in Ages |-> 0]
  /\ pc = [c \in Callers |-> "idle"]
  /\ attempt = [c \in Callers |-> 0]
  /\ error = [c \in Callers |-> "none"]
  /\ result = [c \in Callers |-> "none"]
  /\ executed = [c \in Callers |-> FALSE]
  /\ healthy = TRUE

Sum(f) == FoldFunction(+, 0, f)
Total(s, f) == Sum(s) + Sum(f)

Goto(c, l) == pc' = [pc EXCEPT ![c] = l]

Return(c, r) == Goto(c, "done") /\ result' = [result EXCEPT ![c] = r]

(* The status property: an OPEN breaker whose time is up becomes HALF_OPEN. *)
CannotHalfOpen == FALSE   \* mutant of MayHalfOpen
MayHalfOpen == status = "OPEN" /\ openedAge # None /\ openedAge = OpenFor
StatusRead == IF MayHalfOpen THEN "HALF_OPEN" ELSE status

(* A call begins: allow_request. *)
Begin(c) ==
  /\ pc[c] = "idle"
  /\ Total(oks, fails) < Traffic
  /\ status' = StatusRead
  /\ \/ StatusRead = "OPEN" /\ Return(c, "blocked")
     \/ StatusRead # "OPEN" /\ Goto(c, "sending") /\ UNCHANGED result
  /\ UNCHANGED <<openedAge, oks, fails, attempt, error, executed, healthy>>

(* One request over HTTP.  A reply that cannot be read (ValueError of        *)
(* resp.json()) looks like a 4xx: the request was carried out and the caller *)
(* is told of a client error.  A timeout, a 5xx or a lost connection leaves  *)
(* open whether it was.                                                      *)
Answered(c) ==
  /\ Goto(c, "succeeded")
  /\ executed' = [executed EXCEPT ![c] = TRUE]
  /\ UNCHANGED <<error, result>>

Unreadable(c) ==
  /\ Return(c, "client")
  /\ executed' = [executed EXCEPT ![c] = TRUE]
  /\ UNCHANGED error

RejectedTakenForOk(c) == Return(c, "ok") /\ UNCHANGED <<executed, error>>  \* mutant of Rejected
Rejected(c) == Return(c, "client") /\ UNCHANGED <<executed, error>>

Lost(c) ==
  /\ Goto(c, "failed")
  /\ \E e \in {"timeout", "server"} : error' = [error EXCEPT ![c] = e]
  /\ \E done \in {executed[c], TRUE} : executed' = [executed EXCEPT ![c] = done]
  /\ UNCHANGED result

Send(c) ==
  /\ pc[c] = "sending"
  /\ \/ Answered(c) \/ Rejected(c)
     \/ ~healthy /\ (Unreadable(c) \/ Lost(c))
  /\ UNCHANGED <<breaker, attempt, healthy>>

(* record_success *)
RecordSuccess(c) ==
  /\ pc[c] = "succeeded"
  /\ oks' = [oks EXCEPT ![0] = @ + 1]
  /\ \/ /\ status = "HALF_OPEN"
        /\ status' = "CLOSED" /\ openedAge' = None
     \/ /\ status # "HALF_OPEN"
        /\ UNCHANGED <<status, openedAge>>
  /\ Return(c, "ok")
  /\ UNCHANGED <<fails, attempt, error, executed, healthy>>

(* record_failure, up to the decision of _evaluate *)
TooManyFailures(f) == Total(oks, f) >= MinCalls /\ 2 * Sum(f) > Total(oks, f)

RecordFailure(c) ==
  /\ pc[c] = "failed"
  /\ fails' = [fails EXCEPT ![0] = @ + 1]
  /\ Goto(c, IF status # "OPEN" /\ TooManyFailures(fails') THEN "opening" ELSE "judged")
  /\ UNCHANGED <<status, openedAge, oks, attempt, error, result, executed, healthy>>

Open(c) ==
  /\ pc[c] = "opening"
  /\ status' = "OPEN"
  /\ Goto(c, "stamping")
  /\ UNCHANGED <<openedAge, oks, fails, attempt, error, result, executed, healthy>>

StampForgotten(c) ==   \* mutant of Stamp
  /\ pc[c] = "stamping"
  /\ Goto(c, "judged")
  /\ UNCHANGED <<breaker, attempt, error, result, executed, healthy>>

Stamp(c) ==
  /\ pc[c] = "stamping"
  /\ openedAge' = 0
  /\ Goto(c, "judged")
  /\ UNCHANGED <<status, oks, fails, attempt, error, result, executed, healthy>>

(* After a failed attempt: sleep and try again, whatever the breaker says by *)
(* now, or give up.                                                          *)
MayRetryOnceMore(c) == attempt[c] <= MaxRetries   \* mutant of MayRetry
MayRetry(c) == attempt[c] < MaxRetries

Retry(c) ==
  /\ pc[c] = "judged"
  /\ \/ /\ MayRetry(c)
        /\ attempt' = [attempt EXCEPT ![c] = @ + 1]
        /\ Goto(c, "sending")
        /\ UNCHANGED result
     \/ /\ ~MayRetry(c)
        /\ Return(c, error[c])
        /\ UNCHANGED attempt
  /\ UNCHANGED <<breaker, error, executed, healthy>>

(* The caller has its APIResult; the thread is free for another call. *)
Finish(c) ==
  /\ pc[c] = "done"
  /\ Goto(c, "idle")
  /\ attempt' = [attempt EXCEPT ![c] = 0]
  /\ error' = [error EXCEPT ![c] = "none"]
  /\ result' = [result EXCEPT ![c] = "none"]
  /\ executed' = [executed EXCEPT ![c] = FALSE]
  /\ UNCHANGED <<breaker, healthy>>

Older(f) == [a \in Ages |-> IF a = 0 THEN 0 ELSE f[a - 1]]

Tick ==
  /\ oks' = Older(oks) /\ fails' = Older(fails)
  /\ openedAge' = IF openedAge \in 0..(OpenFor - 1) THEN openedAge + 1 ELSE openedAge
  /\ UNCHANGED <<status, thread, executed, healthy>>

BackendChanges == healthy' = ~healthy /\ UNCHANGED <<breaker, thread, executed>>

Step(c) == \/ Send(c) \/ RecordSuccess(c) \/ RecordFailure(c) \/ Open(c) \/ Stamp(c)
           \/ Retry(c) \/ Finish(c)

Next == \/ \E c \in Callers : Begin(c) \/ Step(c)
        \/ Tick \/ BackendChanges

Spec == Init /\ [][Next]_vars

(* Threads run, time passes, and calls keep coming. *)
FairSpec == Spec /\ WF_vars(Tick) /\ \A c \in Callers : WF_vars(Step(c)) /\ WF_vars(Begin(c))
=============================================================================
