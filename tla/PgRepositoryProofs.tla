-------------------------- MODULE PgRepositoryProofs --------------------------
(***************************************************************************)
(* Proofs about PgRepository for every set of threads, every size of the   *)
(* pool and every number of attempts.                                      *)
(***************************************************************************)
EXTENDS PgRepositoryProps, FiniteSetTheorems, TLAPS

Holding(l) == IF l = "permit" THEN 1 ELSE 0
Busy(l)    == IF l \in {"running", "releasing"} THEN 1 ELSE 0

Holders == {t \in Threads : Holding(pc[t]) = 1}
Workers == {t \in Threads : Busy(pc[t]) = 1}

(* Where the permits are.  Those that leaked are what the sum falls short of  *)
(* MaxConn, and a connection that putconn did not take back stays in used.    *)
Ledger ==
  /\ permits + Cardinality(Holders) + used <= MaxConn
  /\ Cardinality(Workers) <= used
  /\ pooled + used <= MaxConn

IInv == TypeOK /\ Ledger

LEMMA ThreadSets ==
  /\ IsFiniteSet(Holders) /\ Cardinality(Holders) \in Nat
  /\ IsFiniteSet(Workers) /\ Cardinality(Workers) \in Nat
  BY PoolAssumption, FS_Subset, FS_CardinalityType DEF Holders, Workers

LEMMA Counted ==
  ASSUME NEW t \in Threads
  PROVE  /\ pc[t] = "permit" => Cardinality(Holders) > 0
         /\ pc[t] \in {"running", "releasing"} => Cardinality(Workers) > 0
  <1>1. pc[t] = "permit" => Holders # {}
    BY DEF Holders, Holding
  <1>2. pc[t] \in {"running", "releasing"} => Workers # {}
    BY DEF Workers, Busy
  <1>3. QED
    BY <1>1, <1>2, ThreadSets, FS_EmptySet

(* A thread that moves on takes itself along. *)
LEMMA MoveCounts ==
  ASSUME TypeOK, NEW t \in Threads, NEW l, Goto(t, l)
  PROVE  /\ Cardinality(Holders)' = Cardinality(Holders) - Holding(pc[t]) + Holding(l)
         /\ Cardinality(Workers)' = Cardinality(Workers) - Busy(pc[t]) + Busy(l)
  <1>1. CASE Holding(l) = 1
    <2>1. Holders' = Holders \cup {t}
      BY <1>1 DEF Holders, TypeOK, Goto
    <2>2. Cardinality(Holders)' = IF t \in Holders THEN Cardinality(Holders) ELSE Cardinality(Holders) + 1
      BY <2>1, ThreadSets, FS_AddElement
    <2>3. Workers' = Workers \ {t}
      BY <1>1 DEF Workers, TypeOK, Goto, Holding, Busy
    <2>4. Cardinality(Workers)' = IF t \in Workers THEN Cardinality(Workers) - 1 ELSE Cardinality(Workers)
      BY <2>3, ThreadSets, FS_RemoveElement
    <2>5. QED
      BY <1>1, <2>2, <2>4, ThreadSets DEF Holders, Workers, Holding, Busy
  <1>2. CASE Busy(l) = 1
    <2>1. Workers' = Workers \cup {t}
      BY <1>2 DEF Workers, TypeOK, Goto
    <2>2. Cardinality(Workers)' = IF t \in Workers THEN Cardinality(Workers) ELSE Cardinality(Workers) + 1
      BY <2>1, ThreadSets, FS_AddElement
    <2>3. Holders' = Holders \ {t}
      BY <1>2 DEF Holders, TypeOK, Goto, Holding, Busy
    <2>4. Cardinality(Holders)' = IF t \in Holders THEN Cardinality(Holders) - 1 ELSE Cardinality(Holders)
      BY <2>3, ThreadSets, FS_RemoveElement
    <2>5. QED
      BY <1>2, <2>2, <2>4, ThreadSets DEF Holders, Workers, Holding, Busy
  <1>3. CASE Holding(l) = 0 /\ Busy(l) = 0
    <2>1. Holders' = Holders \ {t} /\ Workers' = Workers \ {t}
      BY <1>3 DEF Holders, Workers, TypeOK, Goto
    <2>2. Cardinality(Holders)' = IF t \in Holders THEN Cardinality(Holders) - 1 ELSE Cardinality(Holders)
      BY <2>1, ThreadSets, FS_RemoveElement
    <2>3. Cardinality(Workers)' = IF t \in Workers THEN Cardinality(Workers) - 1 ELSE Cardinality(Workers)
      BY <2>1, ThreadSets, FS_RemoveElement
    <2>4. QED
      BY <1>3, <2>2, <2>3, ThreadSets DEF Holders, Workers, Holding, Busy
  <1>4. QED
    BY <1>1, <1>2, <1>3 DEF Holding, Busy

LEMMA LedgerInit == Init => IInv
  <1> SUFFICES ASSUME Init PROVE IInv
    OBVIOUS
  <1>1. Holders = {} /\ Workers = {}
    BY DEF Init, Holders, Workers, Holding, Busy
  <1>2. Cardinality(Holders) = 0 /\ Cardinality(Workers) = 0
    BY <1>1, FS_EmptySet
  <1>3. TypeOK
    <2>1. 0 \in 0..(Attempts - 1) /\ MaxConn \in 0..MaxConn /\ MinConn \in 0..MinConn /\ 0 \in 0..MaxConn
      BY PoolAssumption
    <2>2. QED
      BY <2>1 DEF Init, TypeOK
  <1>4. QED
    BY <1>2, <1>3, PoolAssumption DEF Init, IInv, Ledger

(* The four actions that change hands, and the others. *)
LEMMA LedgerStep == IInv /\ [Next]_vars => IInv'
  <1> SUFFICES ASSUME IInv, [Next]_vars PROVE IInv'
    OBVIOUS
  <1> USE PoolAssumption, ThreadSets DEF IInv, Ledger, TypeOK, Ops, Writes
  <1>1. ASSUME NEW t \in Threads, TakePermit(t) PROVE IInv'
    <2>1. Cardinality(Holders)' = Cardinality(Holders) + 1 /\ Cardinality(Workers)' = Cardinality(Workers)
      BY <1>1, MoveCounts DEF TakePermit, Holding, Busy
    <2>2. QED
      BY <1>1, <2>1 DEF TakePermit, Goto
  <1>2. ASSUME NEW t \in Threads, GetConn(t) PROVE IInv'
    <2>1. /\ Cardinality(Holders)' = Cardinality(Holders) - 1
          /\ Cardinality(Workers)' = Cardinality(Workers) + 1
      BY <1>2, MoveCounts DEF GetConn, Holding, Busy
    <2>2. QED
      BY <1>2, <2>1 DEF GetConn, Goto
  <1>3. ASSUME NEW t \in Threads, Release(t) PROVE IInv'
    <2>1. /\ Cardinality(Holders)' = Cardinality(Holders)
          /\ Cardinality(Workers)' = Cardinality(Workers) - 1
      BY <1>3, MoveCounts DEF Release, Holding, Busy
    <2>2. used > 0
      BY <1>3, Counted DEF Release
    <2>3. QED
      BY <1>3, <2>1, <2>2 DEF Release, PutConn, Goto
  <1>4. ASSUME NEW t \in Threads, GetConnFails(t) PROVE IInv'
    <2>1. /\ Cardinality(Holders)' = Cardinality(Holders) - 1
          /\ Cardinality(Workers)' = Cardinality(Workers)
      BY <1>4, MoveCounts DEF GetConnFails, Raise, Holding, Busy
    <2>2. QED
      BY <1>4, <2>1 DEF GetConnFails, Raise, Goto, pool
  <1>5. ASSUME NEW t \in Threads, PutConnFails(t) PROVE IInv'
    <2>1. /\ Cardinality(Holders)' = Cardinality(Holders)
          /\ Cardinality(Workers)' = Cardinality(Workers) - 1
      BY <1>5, MoveCounts DEF PutConnFails, Raise, Holding, Busy
    <2>2. QED
      BY <1>5, <2>1 DEF PutConnFails, Raise, Goto, pool
  <1>6. ASSUME NEW t \in Threads, Execute(t) \/ Fetch(t) PROVE IInv'
    <2>1. /\ Cardinality(Holders)' = Cardinality(Holders)
          /\ Cardinality(Workers)' = Cardinality(Workers)
      BY <1>6, MoveCounts DEF Execute, Fetch, Ran, Holding, Busy
    <2>2. UNCHANGED <<pool, op, attempt>>
      BY <1>6 DEF Execute, Fetch
    <2>3. pc' \in [Threads -> {"idle", "acquiring", "permit", "running", "releasing",
                              "attempted", "ok", "failed"}]
      BY <1>6 DEF Execute, Fetch, Ran, Goto
    <2>4. error' \in [Threads -> {"none", "db", "other"}]
      BY <1>6 DEF Execute, Fetch, Ran
    <2>5. stored' \in [Threads -> BOOLEAN]
      BY <1>6 DEF Execute, Fetch
    <2>6. poisoned' \in [Threads -> BOOLEAN]
      BY <1>6 DEF Execute, Fetch
    <2>7. QED
      BY <2>1, <2>2, <2>3, <2>4, <2>5, <2>6 DEF pool
  <1>7. ASSUME NEW t \in Threads,
               PoolTimeout(t) \/ Attempted(t) \/ Return(t) \/ \E o \in Ops : Call(t, o)
        PROVE  IInv'
    <2>1. /\ Cardinality(Holders)' = Cardinality(Holders)
          /\ Cardinality(Workers)' = Cardinality(Workers)
      BY <1>7, MoveCounts DEF PoolTimeout, Raise, Attempted, Return, Call, Holding, Busy
    <2>2. UNCHANGED pool
      BY <1>7 DEF PoolTimeout, Attempted, Return, Call
    <2>3. TypeOK'
      <3>1. CASE PoolTimeout(t) \/ \E o \in Ops : Call(t, o)
        BY <3>1, <2>2 DEF PoolTimeout, Raise, Call, Goto, pool
      <3>2. CASE Return(t)
        <4>1. 0 \in 0..(Attempts - 1)
          OBVIOUS
        <4>2. QED
          BY <3>2, <4>1, <2>2 DEF Return, Goto, pool
      <3>3. CASE Attempted(t)
        <4>1. UNCHANGED <<poisoned, stored>>
          BY <3>3 DEF Attempted
        <4>2. pc' \in [Threads -> {"idle", "acquiring", "permit", "running", "releasing",
                                  "attempted", "ok", "failed"}]
          BY <3>3 DEF Attempted, Goto
        <4>3. op' \in [Threads -> Ops \cup {"none"}]
          BY <3>3 DEF Attempted
        <4>4. error' \in [Threads -> {"none", "db", "other"}]
          BY <3>3 DEF Attempted
        <4>5. attempt' \in [Threads -> 0..(Attempts - 1)]
          BY <3>3 DEF Attempted, MayRetry
        <4>6. QED
          BY <2>2, <4>1, <4>2, <4>3, <4>4, <4>5 DEF pool
      <3>4. QED
        BY <1>7, <3>1, <3>2, <3>3
    <2>4. QED
      BY <2>1, <2>2, <2>3 DEF pool
  <1>8. CASE CloseAll \/ UNCHANGED vars
    <2>1. UNCHANGED <<Holders, Workers>>
      BY <1>8 DEF CloseAll, vars, thread, Holders, Workers
    <2>2. QED
      BY <1>8, <2>1 DEF CloseAll, vars, thread, pool
  <1>9. QED
    BY <1>1, <1>2, <1>3, <1>4, <1>5, <1>6, <1>7, <1>8 DEF Next, Step

LEMMA LedgerAlways == Spec => []IInv
  BY LedgerInit, LedgerStep, PTL DEF Spec

(* The counters of the pool keep their ranges, whatever leaks. *)
THEOREM PgTypeCorrect == Spec => []TypeOK
  <1>1. IInv => TypeOK
    BY DEF IInv
  <1>2. QED
    BY <1>1, LedgerAlways, PTL

(* psycopg2's pool is never exhausted under a permit, and the server never has  *)
(* more than max_connections.                                                   *)
THEOREM PgPoolBounded == Spec => []PoolBounded
  <1>1. IInv => PoolBounded
    BY Counted, ThreadSets, PoolAssumption DEF IInv, TypeOK, Ledger, PoolBounded
  <1>2. QED
    BY <1>1, LedgerAlways, PTL

-------------------------------------------------------------------------------
(* From the commit to the report: an attempt without an error has stored its row. *)
CleanIsStored ==
  \A t \in Threads :
    (op[t] \in Writes /\ error[t] = "none" /\ pc[t] \in {"releasing", "attempted"}) => stored[t]

StoredInv == OkIsStored /\ CleanIsStored

LEMMA StoredStep ==
  ASSUME TypeOK, StoredInv, [Next]_vars
  PROVE  StoredInv'
  <1> USE DEF TypeOK, StoredInv, OkIsStored, CleanIsStored, Goto
  <1>1. ASSUME NEW t \in Threads, Execute(t) PROVE StoredInv'
    BY <1>1 DEF Execute, Ran, Rejected
  <1>2. ASSUME NEW t \in Threads, Fetch(t) \/ Release(t) \/ PutConnFails(t) PROVE StoredInv'
    BY <1>2 DEF Fetch, Release, PutConnFails, Ran, Raise
  <1>3. ASSUME NEW t \in Threads, Attempted(t) PROVE StoredInv'
    BY <1>3 DEF Attempted, Succeeded
  <1>4. ASSUME NEW t \in Threads, Return(t) \/ \E o \in Ops : Call(t, o) PROVE StoredInv'
    BY <1>4 DEF Return, Call
  <1>5. ASSUME NEW t \in Threads,
               TakePermit(t) \/ PoolTimeout(t) \/ GetConn(t) \/ GetConnFails(t)
        PROVE  StoredInv'
    BY <1>5 DEF TakePermit, PoolTimeout, GetConn, GetConnFails, Raise
  <1>6. CASE CloseAll \/ UNCHANGED vars
    BY <1>6 DEF CloseAll, vars, thread
  <1>7. QED
    BY <1>1, <1>2, <1>3, <1>4, <1>5, <1>6 DEF Next, Step

(* A write reported done is committed. *)
THEOREM PgOkIsStored == Spec => []OkIsStored
  <1>1. Init => StoredInv
    BY DEF Init, StoredInv, OkIsStored, CleanIsStored
  <1>2. StoredInv => OkIsStored
    BY DEF StoredInv
  <1>3. QED
    BY <1>1, <1>2, StoredStep, PgTypeCorrect, PTL DEF Spec
=============================================================================
