---------------------------- MODULE PgRepository ----------------------------
(***************************************************************************)
(* CallbotDBRepository (session/repository.py) over PostgreSQLConnection   *)
(* (session/pg_connection.py): every statement takes a permit from a       *)
(* semaphore, a connection from psycopg2's ThreadedConnectionPool, runs,   *)
(* and gives both back; writes are attempted up to three times.            *)
(* The threads work on rows of their own: insert_session and the second    *)
(* half of insert_turn are "insert", its SELECT is "check", update_session *)
(* is "update", and get_session, get_turns and health_check are "read".    *)
(***************************************************************************)
EXTENDS Naturals, FiniteSets

CONSTANTS
  Threads,
  MaxConn, MinConn,   \* max_connections, min_connections
  Attempts            \* len(retry_delays)

ASSUME PoolAssumption ==
  /\ MaxConn \in Nat /\ MinConn \in 0..MaxConn
  /\ Attempts \in Nat \ {0}
  /\ IsFiniteSet(Threads)

VARIABLES
  permits,        \* the semaphore
  pooled, used,   \* connections in the pool and handed out
  closed,         \* closeall was called
  pc, op, attempt,
  error,          \* what the attempt raised: "none", "db" (psycopg2.Error), "other"
  poisoned,       \* the caller's updates dict has a session_id in it
  stored          \* the thread's row is committed

pool   == <<permits, pooled, used, closed>>
thread == <<pc, op, attempt, error, poisoned>>
vars   == <<pool, thread, stored>>

Writes == {"insert", "update"}
Ops    == Writes \cup {"check", "read"}

TypeOK ==
  /\ permits \in 0..MaxConn /\ pooled \in 0..MinConn /\ used \in 0..MaxConn
  /\ closed \in BOOLEAN
  /\ pc \in [Threads -> {"idle", "acquiring", "permit", "running", "releasing",
                         "attempted", "ok", "failed"}]
  /\ op \in [Threads -> Ops \cup {"none"}]
  /\ attempt \in [Threads -> 0..(Attempts - 1)]
  /\ error \in [Threads -> {"none", "db", "other"}]
  /\ poisoned \in [Threads -> BOOLEAN] /\ stored \in [Threads -> BOOLEAN]

Init ==
  /\ permits = MaxConn /\ pooled = MinConn /\ used = 0
  /\ closed = FALSE
  /\ pc = [t \in Threads |-> "idle"]
  /\ op = [t \in Threads |-> "none"]
  /\ attempt = [t \in Threads |-> 0]
  /\ error = [t \in Threads |-> "none"]
  /\ poisoned = [t \in Threads |-> FALSE]
  /\ stored = [t \in Threads |-> FALSE]

Goto(t, l) == pc' = [pc EXCEPT ![t] = l]

(* A repository method is called; an insert is of a new row. *)
Call(t, o) ==
  /\ pc[t] = "idle"
  /\ Goto(t, "acquiring")
  /\ op' = [op EXCEPT ![t] = o]
  /\ UNCHANGED <<pool, attempt, error, poisoned, stored>>

(* _acquire_conn: the permit, for which a thread waits pool_timeout seconds. *)
TakePermitUnchecked(t) ==   \* mutant of TakePermit
  /\ pc[t] = "acquiring"
  /\ permits' = IF permits > 0 THEN permits - 1 ELSE 0
  /\ Goto(t, "permit")
  /\ UNCHANGED <<pooled, used, closed, op, attempt, error, poisoned, stored>>

TakePermit(t) ==
  /\ pc[t] = "acquiring"
  /\ permits > 0
  /\ permits' = permits - 1
  /\ Goto(t, "permit")
  /\ UNCHANGED <<pooled, used, closed, op, attempt, error, poisoned, stored>>

Raise(t, e) ==
  /\ Goto(t, "attempted")
  /\ error' = [error EXCEPT ![t] = e]

PoolTimeout(t) ==
  /\ pc[t] = "acquiring"
  /\ permits = 0
  /\ Raise(t, "other")
  /\ UNCHANGED <<pool, op, attempt, poisoned, stored>>

(* getconn: a pooled connection or a new one, which PostgreSQL may refuse.  What *)
(* it raises leaves _acquire_conn before the try block whose finally would give   *)
(* the permit back.                                                               *)
GetConn(t) ==
  /\ pc[t] = "permit" /\ ~closed
  /\ \/ pooled > 0 /\ pooled' = pooled - 1
     \/ pooled = 0 /\ used < MaxConn /\ UNCHANGED pooled
  /\ used' = used + 1
  /\ Goto(t, "running")
  /\ UNCHANGED <<permits, closed, op, attempt, error, poisoned, stored>>

GetConnFails(t) ==
  /\ pc[t] = "permit"
  /\ closed \/ pooled = 0
  /\ Raise(t, "db")
  /\ UNCHANGED <<pool, op, attempt, poisoned, stored>>

(* The statement and the commit, on a connection that may have died.  An error *)
(* of the commit leaves open whether it took place; a second insert of a row   *)
(* violates its primary key.  An update puts session_id into the caller's      *)
(* updates, which the check of the columns rejects from then on.               *)
Ran(t, e) ==
  /\ Goto(t, "releasing")
  /\ error' = [error EXCEPT ![t] = e]

Rejected(t)  == op[t] = "update" /\ poisoned[t]
Duplicate(t) == op[t] = "insert" /\ stored[t]

Execute(t) ==
  /\ pc[t] = "running" /\ op[t] \in Writes
  /\ \/ /\ Rejected(t) /\ ~closed
        /\ Ran(t, "other")
        /\ UNCHANGED stored
     \/ /\ ~Rejected(t) /\ ~Duplicate(t) /\ ~closed
        /\ stored' = [stored EXCEPT ![t] = TRUE]
        /\ Ran(t, "none")
     \/ /\ ~Rejected(t) \/ closed
        /\ \E s \in {stored[t], stored[t] \/ ~closed} : stored' = [stored EXCEPT ![t] = s]
        /\ Ran(t, "db")
  /\ poisoned' = [poisoned EXCEPT ![t] = @ \/ (op[t] = "update" /\ ~closed)]
  /\ UNCHANGED <<pool, op, attempt>>

Fetch(t) ==
  /\ pc[t] = "running" /\ op[t] \notin Writes
  /\ \/ Ran(t, "none") /\ ~closed
     \/ Ran(t, "db")
  /\ UNCHANGED <<pool, op, attempt, poisoned, stored>>

(* _release_conn: putconn keeps at most min_connections, and none that failed; *)
(* then the permit.  putconn raises when the pool is closed, and when it rolls *)
(* back the transaction a SELECT left open on a connection that has died.  A   *)
(* health_check, which is a read, gives back as sound what has failed it; the  *)
(* pool then drops the connection if it sees that it is dead.                  *)
PutConn(t) ==
  \/ /\ pooled < MinConn /\ (error[t] # "db" \/ op[t] = "read")
     /\ pooled' = pooled + 1
  \/ /\ pooled = MinConn \/ error[t] = "db"
     /\ UNCHANGED pooled

Release(t) ==
  /\ pc[t] = "releasing"
  /\ ~closed
  /\ PutConn(t)
  /\ used' = used - 1
  /\ permits' = permits + 1
  /\ Goto(t, "attempted")
  /\ UNCHANGED <<closed, op, attempt, error, poisoned, stored>>

PutConnFails(t) ==
  /\ pc[t] = "releasing"
  /\ closed \/ (op[t] \notin Writes /\ pooled < MinConn /\ (error[t] = "none" \/ op[t] = "read"))
  /\ Raise(t, "db")
  /\ UNCHANGED <<pool, op, attempt, poisoned, stored>>

(* _execute_with_retry and its callers. *)
LastAttemptSucceeds(t) == attempt[t] = Attempts - 1   \* mutant of Succeeded
Succeeded(t) == error[t] = "none"

MayRetryOnceMore(t) == op[t] \in Writes /\ attempt[t] < Attempts   \* mutant of MayRetry
MayRetry(t) == op[t] \in Writes /\ attempt[t] + 1 < Attempts

Attempted(t) ==
  /\ pc[t] = "attempted"
  /\ \/ /\ Succeeded(t) /\ op[t] = "check"
        /\ op' = [op EXCEPT ![t] = "insert"]
        /\ Goto(t, "acquiring")
        /\ UNCHANGED <<attempt, error>>
     \/ /\ Succeeded(t) /\ op[t] = "check"   \* no such session: SessionFKError
        /\ Goto(t, "failed")
        /\ UNCHANGED <<op, attempt, error>>
     \/ /\ Succeeded(t) /\ op[t] # "check"
        /\ Goto(t, "ok")
        /\ UNCHANGED <<op, attempt, error>>
     \/ /\ ~Succeeded(t) /\ MayRetry(t)
        /\ attempt' = [attempt EXCEPT ![t] = @ + 1]
        /\ error' = [error EXCEPT ![t] = "none"]
        /\ Goto(t, "acquiring")
        /\ UNCHANGED op
     \/ /\ ~Succeeded(t) /\ ~MayRetry(t)
        /\ Goto(t, "failed")
        /\ UNCHANGED <<op, attempt, error>>
  /\ UNCHANGED <<pool, poisoned, stored>>

(* The caller goes on to another row. *)
Return(t) ==
  /\ pc[t] \in {"ok", "failed"}
  /\ Goto(t, "idle")
  /\ op' = [op EXCEPT ![t] = "none"]
  /\ attempt' = [attempt EXCEPT ![t] = 0]
  /\ error' = [error EXCEPT ![t] = "none"]
  /\ poisoned' = [poisoned EXCEPT ![t] = FALSE]
  /\ stored' = [stored EXCEPT ![t] = FALSE]
  /\ UNCHANGED <<pool>>

(* close, at shutdown *)
CloseAll ==
  /\ ~closed
  /\ closed' = TRUE
  /\ UNCHANGED <<permits, pooled, used, thread, stored>>

Step(t) ==
  \/ TakePermit(t) \/ PoolTimeout(t) \/ GetConn(t) \/ GetConnFails(t)
  \/ Execute(t) \/ Fetch(t) \/ Release(t) \/ PutConnFails(t)
  \/ Attempted(t) \/ Return(t)

Next ==
  \/ \E t \in Threads : Step(t) \/ \E o \in Ops : Call(t, o)
  \/ CloseAll

Spec == Init /\ [][Next]_vars
=============================================================================
