-------------------------- MODULE PgRepositoryProps --------------------------
(* What the pool and the repository have to guarantee. *)
EXTENDS PgRepository

(* The semaphore keeps psycopg2's pool from ever being exhausted: a thread that *)
(* holds a permit finds a connection or may open one, and the server never has  *)
(* more than max_connections, whatever getconn, putconn and the database do to  *)
(* the permits.                                                                 *)
PoolBounded ==
  /\ pooled + used <= MaxConn
  /\ \A t \in Threads : (pc[t] = "permit" /\ ~closed) => (pooled > 0 \/ used < MaxConn)

(* A write that is reported done is committed, through lost commits, retries    *)
(* and connections that die under it.                                           *)
OkIsStored == \A t \in Threads : pc[t] = "ok" /\ op[t] \in Writes => stored[t]

(* session/tests/test_pg_connection.py, Property 2c: the semaphore has its value *)
(* back after a statement that met a database error.                             *)
PermitsReturn ==
  (~closed /\ \A t \in Threads : pc[t] = "idle") => permits = MaxConn

(* _execute_with_retry: "up to three attempts".  A retried update reaches the    *)
(* database; it is not turned away for what an earlier attempt did to it.        *)
UpdateIsRetried == \A t \in Threads : op[t] = "update" /\ pc[t] = "releasing" => error[t] # "other"
=============================================================================
