--------------------------- MODULE SessionLifecycle ---------------------------
(***************************************************************************)
(* SessionManager (session/session_manager.py) over one of its stores      *)
(* (InMemorySessionStore, RedisSessionStore with session_serializer.py)    *)
(* and the database.                                                       *)
(*                                                                         *)
(* Every method loads the context, changes it, saves all of it and may     *)
(* then write a row; each of these is a step here, because methods run in  *)
(* executor threads or, over Redis, in several processes.  The in-memory   *)
(* store hands out the object itself, Redis a copy.  A write to the        *)
(* database or to Redis that returns is stored (PgRepository's OkIsStored); *)
(* one that raises may be stored too, when only its answer was lost.       *)
(* The metrics are left out: the server's assembly passes no collector.    *)
(***************************************************************************)
EXTENDS Naturals, Sequences, FiniteSets

CONSTANTS
  Sessions,       \* session ids that create_session will draw
  Workers,        \* threads or processes that call the manager
  CallerKinds,    \* "serial": one call at a time on a session; "overlap": any number
  MaxBusinessTurns, WarningTurns,   \* MAX_BUSINESS_TURNS, WARNING_TURNS
  MaxMinutes, WarningMinutes,       \* MAX_MINUTES, WARNING_MINUTES
  Ttl,            \* DEFAULT_TTL of the Redis store, in minutes
  MaxTurns        \* bound: turns of a session

ASSUME SessionAssumption ==
  /\ CallerKinds \subseteq {"serial", "overlap"}
  /\ {MaxBusinessTurns, WarningTurns, MaxMinutes, WarningMinutes} \subseteq Nat
  /\ Ttl \in Nat \ {0} /\ MaxMinutes <= Ttl
  /\ MaxTurns \in Nat

VARIABLES
  backend,   \* the store: "memory" or "redis"
  callers,   \* how the manager is used
  kept,      \* ids the store has
  context,   \* the context of each id, while anything refers to it
  left,      \* minutes until Redis drops the key
  age,       \* minutes since start_time
  row,       \* conversation_sessions: "none", "open" or "ended"
  turnRows,  \* conversation_turns, in the order of their inserts
  known,     \* ids create_session has returned
  job,       \* what each worker is doing
  told,      \* what check_limits last answered
  torn       \* for the properties: the row was ended by a call that then raised or died

vars == <<backend, callers, kept, context, left, age, row, turnRows, known, job, told, torn>>

TurnTypes == {"business", "system"}
Contexts == [turns : Seq(TurnTypes), business : Nat]
NewContext == [turns |-> <<>>, business |-> 0]

(* "field": any of the helpers from increment_injection_count to              *)
(* clear_plan_list_context.  The field they change is left out: what matters  *)
(* is that they save the whole context they have loaded.                      *)
Ops == {"create", "business", "system", "end", "field"}
Idle == [op |-> "idle", at |-> "", s |-> "", copy |-> NewContext, number |-> 0]

TypeOK ==
  /\ backend \in {"memory", "redis"} /\ callers \in CallerKinds
  /\ kept \subseteq Sessions /\ known \subseteq Sessions /\ torn \subseteq Sessions
  /\ context \in [Sessions -> Contexts]
  /\ left \in [Sessions -> 0..Ttl] /\ age \in [Sessions -> 0..MaxMinutes]
  /\ row \in [Sessions -> {"none", "open", "ended"}]
  /\ \A s \in Sessions : turnRows[s] \in Seq([number : Nat \ {0}, type : TurnTypes])
  /\ told \in [Sessions -> {"fine", "warned", "reached"}]
  /\ \A w \in Workers : job[w].op \in Ops \cup {"idle"} /\ job[w].copy \in Contexts

Init ==
  /\ backend \in {"memory", "redis"} /\ callers \in CallerKinds
  /\ kept = {} /\ known = {} /\ torn = {}
  /\ context = [s \in Sessions |-> NewContext]
  /\ left = [s \in Sessions |-> 0]
  /\ age = [s \in Sessions |-> 0]
  /\ row = [s \in Sessions |-> "none"]
  /\ turnRows = [s \in Sessions |-> <<>>]
  /\ job = [w \in Workers |-> Idle]
  /\ told = [s \in Sessions |-> "fine"]

Busy(s) == {w \in Workers : job[w].op # "idle" /\ job[w].s = s}
MayCall(s) == callers = "overlap" \/ Busy(s) = {}
Step(w, at) == job' = [job EXCEPT ![w].at = at]
Return(w)   == job' = [job EXCEPT ![w] = Idle]

(***************************************************************************)
(* The stores.  Any call of Redis may fail; saving to it serialises, and a *)
(* context with a value that is not JSON-compatible, such as an Intent, is *)
(* refused (_validate_json_compatible).  Either raises RedisConnectionError. *)
(***************************************************************************)
Load(s) == s \in kept

SaveOneMinuteShort(s, c) ==   \* mutant of Save
  /\ context' = [context EXCEPT ![s] = c]
  /\ kept' = kept \cup {s}
  /\ left' = [left EXCEPT ![s] = Ttl - 1]
Save(s, c) ==
  /\ context' = [context EXCEPT ![s] = c]
  /\ kept' = kept \cup {s}
  /\ left' = [left EXCEPT ![s] = Ttl]

(* S is gone from the store; an object lives on while a worker refers to it. *)
Drop(S, referring) ==
  /\ kept' = kept \ S
  /\ left' = [s \in Sessions |-> IF s \in S THEN 0 ELSE left[s]]
  /\ context' = [s \in Sessions |->
       IF s \in S /\ (backend = "redis" \/ referring = {}) THEN NewContext ELSE context[s]]

StoreFails == backend = "redis"
UnchangedStore == UNCHANGED <<kept, context, left>>

(* create_session: save, insert the row, return the id. *)
Create(w) ==
  /\ job[w].op = "idle"
  /\ \E s \in Sessions \ (known \cup kept) :
       /\ row[s] = "none" /\ Busy(s) = {}
       /\ job' = [job EXCEPT ![w] = [Idle EXCEPT !.op = "create", !.at = "insert", !.s = s]]
       /\ Save(s, NewContext)
       /\ age' = [age EXCEPT ![s] = 0]
  /\ UNCHANGED <<backend, callers, row, turnRows, known, told, torn>>

InsertSession(w) ==
  /\ job[w].op = "create"
  /\ row' = [row EXCEPT ![job[w].s] = "open"]
  /\ known' = known \cup {job[w].s}
  /\ Return(w)
  /\ UNCHANGED <<backend, callers, kept, context, left, age, turnRows, told, torn>>

(***************************************************************************)
(* A method on an existing session: _get_context, or SessionNotFoundError. *)
(* update_turn takes the number of the turn from what it has loaded.       *)
(***************************************************************************)
Begin(w, s, op) ==
  /\ job[w].op = "idle" /\ s \in known /\ MayCall(s)
  /\ Load(s)
  /\ op \in {"business", "system"} => Len(context[s].turns) < MaxTurns /\ Len(turnRows[s]) < MaxTurns
  /\ job' = [job EXCEPT ![w] = [op |-> op, at |-> IF op = "end" THEN "update" ELSE "save", s |-> s,
                                copy |-> IF backend = "redis" THEN context[s] ELSE NewContext,
                                number |-> Len(context[s].turns) + 1]]
  /\ UnchangedStore
  /\ UNCHANGED <<backend, callers, age, row, turnRows, known, told, torn>>

SystemTurnResets(op, c) ==   \* mutant of Change
  IF op = "field" THEN c
  ELSE [turns |-> Append(c.turns, op), business |-> IF op = "system" THEN 0 ELSE c.business + 1]
Change(op, c) ==
  IF op = "field" THEN c
  ELSE [turns |-> Append(c.turns, op),
        business |-> IF op = "business" THEN c.business + 1 ELSE c.business]

(* The context that is changed: the copy, or the object all workers share. *)
Loaded(w) == IF backend = "redis" THEN job[w].copy ELSE context[job[w].s]

SaveChange(w) ==
  /\ job[w].at = "save"
  /\ Save(job[w].s, Change(job[w].op, Loaded(w)))
  /\ IF job[w].op \in TurnTypes THEN Step(w, "insert") ELSE Return(w)
  /\ UNCHANGED <<backend, callers, age, row, turnRows, known, told, torn>>

SaveFailureIgnored(w) ==   \* mutant of SaveFails
  /\ job[w].at = "save" /\ StoreFails
  /\ IF job[w].op \in TurnTypes THEN Step(w, "insert") ELSE Return(w)
  /\ UnchangedStore
  /\ UNCHANGED <<backend, callers, age, row, turnRows, known, told, torn>>
SaveFails(w) ==
  /\ job[w].at = "save" /\ StoreFails
  /\ UnchangedStore \/ Save(job[w].s, Change(job[w].op, Loaded(w)))
  /\ Return(w)
  /\ UNCHANGED <<backend, callers, age, row, turnRows, known, told, torn>>

AddRow(w) ==
  turnRows' = [turnRows EXCEPT ![job[w].s] =
                 Append(@, [number |-> job[w].number, type |-> job[w].op])]

InsertTurn(w) ==
  /\ job[w].at = "insert" /\ job[w].op \in TurnTypes
  /\ AddRow(w)
  /\ Return(w)
  /\ UnchangedStore
  /\ UNCHANGED <<backend, callers, age, row, known, told, torn>>

(* insert_session or insert_turn raises: what was saved stays saved, and the row *)
(* is there if only the answer to its commit was lost.                           *)
InsertFailureIgnored(w) ==   \* mutant of InsertFails
  /\ job[w].at = "insert"
  /\ known' = known \cup {job[w].s}
  /\ Return(w)
  /\ UnchangedStore
  /\ UNCHANGED <<backend, callers, age, row, turnRows, told, torn>>
InsertFails(w) ==
  /\ job[w].at = "insert"
  /\ \/ UNCHANGED <<row, turnRows>>
     \/ job[w].op = "create" /\ row' = [row EXCEPT ![job[w].s] = "open"] /\ UNCHANGED turnRows
     \/ job[w].op \in TurnTypes /\ AddRow(w) /\ UNCHANGED row
  /\ Return(w)
  /\ UnchangedStore
  /\ UNCHANGED <<backend, callers, age, known, told, torn>>

(* end_session: the row, then the store. *)
UpdateSession(w) ==
  /\ job[w].at = "update"
  /\ row' = [row EXCEPT ![job[w].s] = "ended"]
  /\ Step(w, "delete")
  /\ UnchangedStore
  /\ UNCHANGED <<backend, callers, age, turnRows, known, told, torn>>

(* A commit that is made and not acknowledged raises as well: the retry is        *)
(* refused, for execute has put session_id into the dict of the updates.          *)
UpdateFails(w) ==
  /\ job[w].at = "update"
  /\ \/ UNCHANGED <<row, torn>>
     \/ row' = [row EXCEPT ![job[w].s] = "ended"] /\ torn' = torn \cup {job[w].s}
  /\ Return(w)
  /\ UnchangedStore
  /\ UNCHANGED <<backend, callers, age, turnRows, known, told>>

DeleteForgotten(w) ==   \* mutant of Delete
  /\ job[w].at = "delete"
  /\ torn' = torn \ {job[w].s}
  /\ Return(w)
  /\ UNCHANGED <<backend, callers, kept, context, left, age, row, turnRows, known, told>>
Delete(w) ==
  /\ job[w].at = "delete"
  /\ Drop({job[w].s}, Busy(job[w].s) \ {w})
  /\ torn' = torn \ {job[w].s}
  /\ Return(w)
  /\ UNCHANGED <<backend, callers, age, row, turnRows, known, told>>

DeleteFails(w) ==
  /\ job[w].at = "delete" /\ StoreFails
  /\ UnchangedStore \/ Drop({job[w].s}, Busy(job[w].s) \ {w})
  /\ torn' = torn \cup {job[w].s}
  /\ Return(w)
  /\ UNCHANGED <<backend, callers, age, row, turnRows, known, told>>

(* check_limits; the answers are followed for serial callers only. *)
WarningNeeded(c, minutes) == c.business >= WarningTurns \/ minutes >= WarningMinutes
LimitReached(c, minutes)  == c.business >= MaxBusinessTurns \/ minutes >= MaxMinutes

CheckLimits(s) ==
  /\ s \in known /\ callers = "serial" /\ Busy(s) = {} /\ Load(s)
  /\ told' = [told EXCEPT ![s] = IF LimitReached(context[s], age[s]) THEN "reached"
                                 ELSE IF WarningNeeded(context[s], age[s]) THEN "warned"
                                 ELSE "fine"]
  /\ UnchangedStore
  /\ UNCHANGED <<backend, callers, age, row, turnRows, known, job, torn>>

(* A minute passes.  Redis drops the keys whose time is up. *)
DroppedLate == {s \in kept : backend = "redis" /\ left[s] = 0}   \* mutant of Dropped
Dropped == {s \in kept : backend = "redis" /\ left[s] = 1}
Tick ==
  /\ \E s \in Sessions : (row[s] # "none" /\ age[s] < MaxMinutes) \/ (s \in kept /\ backend = "redis")
  /\ age' = [s \in Sessions |-> IF age[s] < MaxMinutes THEN age[s] + 1 ELSE age[s]]
  /\ kept' = kept \ Dropped
  /\ left' = [s \in Sessions |-> IF s \in kept /\ backend = "redis" THEN left[s] - 1 ELSE left[s]]
  /\ context' = [s \in Sessions |-> IF s \in Dropped THEN NewContext ELSE context[s]]
  /\ UNCHANGED <<backend, callers, row, turnRows, known, job, told, torn>>

(* The server's process dies: its calls and the in-memory store are lost. *)
Crash ==
  /\ job' = [w \in Workers |-> Idle]
  /\ torn' = torn \cup {job[w].s : w \in {v \in Workers : job[v].at = "delete"}}
  /\ IF backend = "redis" THEN UnchangedStore ELSE Drop(Sessions, {})
  /\ UNCHANGED <<backend, callers, age, row, turnRows, known, told>>

Next ==
  \/ \E w \in Workers :
       \/ Create(w) \/ InsertSession(w)
       \/ \E s \in Sessions, op \in Ops \ {"create"} : Begin(w, s, op)
       \/ SaveChange(w) \/ SaveFails(w) \/ InsertTurn(w) \/ InsertFails(w)
       \/ UpdateSession(w) \/ UpdateFails(w) \/ Delete(w) \/ DeleteFails(w)
  \/ \E s \in Sessions : CheckLimits(s)
  \/ Tick \/ Crash

Spec == Init /\ [][Next]_vars
=============================================================================
