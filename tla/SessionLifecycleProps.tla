------------------------ MODULE SessionLifecycleProps ------------------------
(* What SessionManager has to guarantee. *)
EXTENDS SessionLifecycle

(* update_turn: "업무 턴: business_turn_count 1 증가" (session_manager.py:120).    *)
(* A business turn that has its row has been counted in the context.              *)
BusinessRows(s) == Cardinality({i \in DOMAIN turnRows[s] : turnRows[s][i].type = "business"})
EveryTurnCounted == \A s \in kept : BusinessRows(s) <= context[s].business

(* With one call at a time on a session, that holds whatever fails or crashes in  *)
(* between, and the rows' numbers rise: no failure repeats a number.              *)
SerialCountsTurns == callers = "serial" =>
  /\ EveryTurnCounted
  /\ \A s \in Sessions : \A i, j \in DOMAIN turnRows[s] :
       i < j => turnRows[s][i].number < turnRows[s][j].number

(* With one call at a time, a session whose row is ended has no context once      *)
(* end_session has returned, also when earlier calls of it were cut short: what   *)
(* is left behind belongs to a session of which the last end_session raised (the  *)
(* update unacknowledged, the DEL failed) or died after its row was ended.        *)
EndedIsGone == callers = "serial" => \A s \in kept :
  row[s] = "ended" => s \in torn \/ Busy(s) # {}

(* Whatever overlaps, Redis still has an open session of which create_session has *)
(* returned the id while it is within its time limit, also after a restart: the   *)
(* key is renewed by every save and no method deletes it before the row is ended. *)
OpenSurvives == backend = "redis" => \A s \in known :
  row[s] = "open" /\ age[s] < MaxMinutes => s \in kept

(* An id is only handed out, and a turn only recorded, for a session with a row.  *)
RowFirst == \A s \in Sessions :
  s \in known \/ turnRows[s] # <<>> => row[s] # "none"

(* With one call at a time, check_limits never takes back that the limit is       *)
(* reached, nor its warning.                                                      *)
Rank(t) == CASE t = "fine" -> 0 [] t = "warned" -> 1 [] OTHER -> 2
LimitStays ==
  [][\A s \in Sessions : Rank(told[s]) <= Rank(told'[s])]_vars
=============================================================================
