--------------------------- MODULE ApiWrapperProps ---------------------------
(* What the wrapper and its circuit breaker have to guarantee. *)
EXTENDS ApiWrapper

phase == [c \in Callers |->
  IF pc[c] = "idle" THEN "idle"
  ELSE IF pc[c] # "done" THEN "asked"
  ELSE IF result[c] = "ok" THEN "success"
  ELSE IF result[c] = "blocked" THEN "blocked"
  ELSE "failure"]

Call == INSTANCE BillingCall WITH effect <- executed

(* Retries, unreadable replies and an opening breaker never turn a request that *)
(* was not carried out into a success, and a blocked call reaches nothing: the  *)
(* outcomes TurnPipeline's ExternalCall allows are all there are.               *)
ImplementsCall == Call!Spec

(* An open breaker knows since when, up to the thread that is about to write it: *)
(* without the time CircuitBreaker.status never leaves OPEN.  record_success     *)
(* clears the time while other threads may be opening the breaker.               *)
OpenKnowsSince ==
  status = "OPEN" => openedAge # None \/ \E c \in Callers : pc[c] = "stamping"

(* A billing system that has recovered is used again: the breaker does not stay  *)
(* open once the calls that were failing have been retried out.                  *)
Recovers == <>[]healthy => <>[](status # "OPEN")

(* docs/feature-spec-production.md FR-013 and the docstring of CircuitBreaker:   *)
(* when the trial call of a half-open breaker fails, the breaker is open again.  *)
FailedTrialReopens == [][\A c \in Callers :
  (status = "HALF_OPEN" /\ pc[c] = "failed" /\ pc'[c] # "failed") => pc'[c] = "opening"]_vars
=============================================================================
