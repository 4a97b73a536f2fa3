------------------------ MODULE SessionLifecycleProofs ------------------------
(***************************************************************************)
(* Proofs about SessionLifecycle for every set of sessions and workers,    *)
(* both stores, every limit and every way of calling the manager.          *)
(***************************************************************************)
EXTENDS SessionLifecycleProps, SequenceTheorems, FiniteSetTheorems, TLAPS

JobOps == Ops \cup {"idle"}
Points == {"", "insert", "save", "update", "delete"}
Jobs   == [op : JobOps, at : Points, s : Sessions \cup {""}, copy : Contexts, number : Nat]

JobsTyped ==
  /\ job \in [Workers -> Jobs]
  /\ \A w \in Workers : job[w].op # "idle" => job[w].s \in Sessions
  /\ \A w \in Workers : job[w].op \in TurnTypes => job[w].number # 0
Typed == TypeOK /\ JobsTyped /\ DOMAIN turnRows = Sessions

(* An id that is being created has no row yet; the other methods work on known    *)
(* ids.  Only an ended session is deleted.                                        *)
PlaceOf(w) ==
  /\ job[w].op = "idle" => job[w].at = ""
  /\ job[w].op = "create" => job[w].at = "insert" /\ job[w].s \notin known /\ row[job[w].s] = "none"
  /\ job[w].op \notin {"idle", "create"} => job[w].s \in known
  /\ job[w].at = "save" => job[w].op \in {"business", "system", "field"}
  /\ job[w].at = "delete" => row[job[w].s] = "ended"
Places == \A w \in Workers : PlaceOf(w)

(* The creator of an id is the only one who has it. *)
Creators == \A v, w \in Workers :
  v # w /\ job[w].op = "create" /\ job[v].op # "idle" => job[v].s # job[w].s

(* Over Redis, the key of a session that is open or being created outlasts its    *)
(* time limit.                                                                    *)
Wanted(s) == row[s] = "open" \/ \E w \in Workers : job[w].op = "create" /\ job[w].s = s
Outlasts == backend = "redis" => \A s \in Sessions :
  /\ s \in kept => left[s] # 0 /\ left[s] + age[s] >= MaxMinutes
  /\ Wanted(s) /\ age[s] < MaxMinutes => s \in kept

(* With serial callers a session has one worker, and one who saves an ended       *)
(* session works on a torn one.                                                   *)
OneWorker == \A v, w \in Workers :
  v # w /\ job[v].op # "idle" /\ job[w].op # "idle" => job[v].s # job[w].s
Torn == \A s \in Sessions : row[s] = "ended" =>
  /\ s \in kept => s \in torn \/ \E w \in Workers : job[w].s = s /\ job[w].at = "delete"
  /\ \A w \in Workers : job[w].s = s /\ job[w].at \in {"save", "update"} => s \in torn

Rules == Places /\ Creators /\ RowFirst /\ Outlasts /\ (callers = "serial" => OneWorker /\ Torn)
LifeInv == Typed /\ Rules

LEMMA LifeInit == Init => LifeInv
  <1> SUFFICES ASSUME Init PROVE LifeInv
    OBVIOUS
  <1>1. \A w \in Workers : job[w] = Idle
    BY DEF Init
  <1>2. NewContext \in Contexts
    BY DEF NewContext, Contexts
  <1>3. Idle \in Jobs /\ Idle.op = "idle" /\ Idle.at = ""
    BY <1>2 DEF Idle, Jobs, JobOps, Points
  <1>4. TypeOK
    <2>1. \A s \in Sessions : turnRows[s] \in Seq([number : Nat \ {0}, type : TurnTypes])
      BY DEF Init
    <2>2. \A w \in Workers : job[w].op \in Ops \cup {"idle"} /\ job[w].copy \in Contexts
      BY <1>1, <1>3 DEF Jobs, JobOps
    <2>3. QED
      BY <1>2, <2>1, <2>2, SessionAssumption DEF Init, TypeOK
  <1>5. Typed
    <2>1. job \in [Workers -> Jobs] /\ DOMAIN turnRows = Sessions
      BY <1>3 DEF Init
    <2>2. QED
      BY <1>1, <1>3, <1>4, <2>1 DEF Typed, JobsTyped, TurnTypes
  <1>6. Places /\ Creators /\ OneWorker
    BY <1>1, <1>3 DEF Places, PlaceOf, Creators, OneWorker
  <1>7. RowFirst /\ Torn
    BY DEF Init, RowFirst, Torn
  <1>8. Outlasts
    BY <1>1, <1>3 DEF Init, Outlasts, Wanted
  <1>9. QED
    BY <1>5, <1>6, <1>7, <1>8 DEF LifeInv, Rules

(***************************************************************************)
(* Types                                                                   *)
(***************************************************************************)
TakesJob(w, j) ==
  /\ j \in Jobs /\ (j.op # "idle" => j.s \in Sessions) /\ (j.op \in TurnTypes => j.number # 0)
  /\ job' = [job EXCEPT ![w] = j]

LEMMA OneJob ==
  ASSUME Typed, NEW w \in Workers, NEW j, TakesJob(w, j)
  PROVE  /\ job'[w] = j
         /\ \A v \in Workers : v # w => job'[v] = job[v]
         /\ JobsTyped'
         /\ \A v \in Workers : job'[v].op \in Ops \cup {"idle"} /\ job'[v].copy \in Contexts
  <1>1. job'[w] = j /\ (\A v \in Workers : v # w => job'[v] = job[v]) /\ job' \in [Workers -> Jobs]
    BY DEF Typed, JobsTyped, TakesJob
  <1>2. JobsTyped'
    BY <1>1 DEF Typed, JobsTyped, TakesJob
  <1>3. \A v \in Workers : job'[v].op \in Ops \cup {"idle"} /\ job'[v].copy \in Contexts
    BY <1>1 DEF Jobs, JobOps
  <1>4. QED
    BY <1>1, <1>2, <1>3

LEMMA IdleJob ==
  /\ Idle \in Jobs /\ Idle.op = "idle" /\ Idle.at = ""
  /\ NewContext \in Contexts
  <1>1. NewContext \in Contexts
    BY DEF NewContext, Contexts
  <1>2. QED
    BY <1>1 DEF Idle, Jobs, JobOps, Points

(* The job of worker w when its call returns, and when it goes on. *)
LEMMA JobSteps ==
  ASSUME Typed, NEW w \in Workers
  PROVE  /\ Return(w) => TakesJob(w, Idle)
         /\ \A at \in Points : LET j == [job[w] EXCEPT !.at = at] IN
              /\ Step(w, at) => TakesJob(w, j)
              /\ j.op = job[w].op /\ j.s = job[w].s /\ j.at = at
  <1>1. Return(w) => TakesJob(w, Idle)
    BY IdleJob DEF Return, TakesJob, TurnTypes
  <1>2. ASSUME NEW at \in Points
        PROVE  LET j == [job[w] EXCEPT !.at = at] IN
                 /\ j \in Jobs /\ j.op = job[w].op /\ j.s = job[w].s /\ j.at = at
                 /\ j.number = job[w].number
                 /\ Step(w, at) => job' = [job EXCEPT ![w] = j]
    BY DEF Typed, JobsTyped, Jobs, Step
  <1>3. QED
    BY <1>1, <1>2 DEF TakesJob, Typed, JobsTyped

LEMMA ChangeTyped ==
  ASSUME Typed, NEW w \in Workers, job[w].op \in {"business", "system", "field"}
  PROVE  Change(job[w].op, Loaded(w)) \in Contexts
  <1>1. PICK c \in Contexts : c = Loaded(w)
    BY DEF Typed, TypeOK, JobsTyped, Jobs, Loaded
  <1>2. c.turns \in Seq(TurnTypes) /\ c.business \in Nat
    BY DEF Contexts
  <1>3. \A t \in TurnTypes : Append(c.turns, t) \in Seq(TurnTypes)
    BY <1>2, AppendProperties
  <1>4. ASSUME job[w].op \in TurnTypes PROVE Change(job[w].op, c) \in Contexts
    <2>1. job[w].op # "field"
      BY <1>4 DEF TurnTypes
    <2>2. Append(c.turns, job[w].op) \in Seq(TurnTypes)
      BY <1>3, <1>4
    <2>3. QED
      BY <1>2, <2>1, <2>2 DEF Change, Contexts
  <1>5. ASSUME job[w].op = "field" PROVE Change(job[w].op, c) \in Contexts
    BY <1>5 DEF Change
  <1>6. QED
    BY <1>1, <1>4, <1>5 DEF TurnTypes

LEMMA SaveTyped ==
  ASSUME Typed, NEW s \in Sessions, NEW c \in Contexts, Save(s, c)
  PROVE  /\ kept' \subseteq Sessions /\ context' \in [Sessions -> Contexts]
         /\ left' \in [Sessions -> 0..Ttl]
  BY SessionAssumption DEF Typed, TypeOK, Save

LEMMA DropTyped ==
  ASSUME Typed, NEW S, NEW R, Drop(S, R)
  PROVE  /\ kept' \subseteq Sessions /\ context' \in [Sessions -> Contexts]
         /\ left' \in [Sessions -> 0..Ttl]
  <1>1. kept' \subseteq Sessions
    BY DEF Typed, TypeOK, Drop
  <1>2. context' \in [Sessions -> Contexts]
    BY IdleJob DEF Typed, TypeOK, Drop
  <1>3. left' = [s \in Sessions |-> IF s \in S THEN 0 ELSE left[s]]
    BY DEF Drop
  <1>4. left \in [Sessions -> 0..Ttl] /\ 0 \in 0..Ttl
    BY SessionAssumption DEF Typed, TypeOK
  <1>5. left' \in [Sessions -> 0..Ttl]
    BY <1>3, <1>4
  <1>6. QED
    BY <1>1, <1>2, <1>5

LEMMA TypedStep == Typed /\ Outlasts /\ Places /\ [Next]_vars => Typed'
  <1> SUFFICES ASSUME Typed, Outlasts, Places, [Next]_vars PROVE Typed'
    OBVIOUS
  <1>1. ASSUME NEW w \in Workers, Create(w) PROVE Typed'
    <2>1. PICK s \in Sessions :
             /\ job' = [job EXCEPT ![w] = [Idle EXCEPT !.op = "create", !.at = "insert", !.s = s]]
             /\ Save(s, NewContext)
             /\ age' = [age EXCEPT ![s] = 0]
      BY <1>1 DEF Create
    <2> DEFINE j == [Idle EXCEPT !.op = "create", !.at = "insert", !.s = s]
    <2>2. TakesJob(w, j)
      <3>1. j \in Jobs /\ j.s = s /\ j.op = "create"
        BY IdleJob DEF Jobs, JobOps, Ops, Points, Idle
      <3>2. QED
        BY <2>1, <3>1 DEF TakesJob, TurnTypes
    <2> HIDE DEF j
    <2>3. age' \in [Sessions -> 0..MaxMinutes]
      BY <2>1, SessionAssumption DEF Typed, TypeOK
    <2>4. QED
      BY <1>1, <2>1, <2>2, <2>3, OneJob, SaveTyped, IdleJob DEF Create, Typed, TypeOK
  <1>2. ASSUME NEW w \in Workers, InsertSession(w) PROVE Typed'
    <2>1. TakesJob(w, Idle)
      BY <1>2, JobSteps DEF InsertSession
    <2>2. job[w].s \in Sessions
      BY <1>2 DEF InsertSession, Typed, JobsTyped
    <2>3. QED
      BY <1>2, <2>1, <2>2, OneJob DEF InsertSession, Typed, TypeOK
  <1>3. ASSUME NEW w \in Workers, NEW s \in Sessions, NEW op \in Ops \ {"create"}, Begin(w, s, op)
        PROVE Typed'
    <2> DEFINE j == [op |-> op, at |-> IF op = "end" THEN "update" ELSE "save", s |-> s,
                     copy |-> IF backend = "redis" THEN context[s] ELSE NewContext,
                     number |-> Len(context[s].turns) + 1]
    <2>1. TakesJob(w, j)
      <3>1. Len(context[s].turns) \in Nat
        BY LenProperties DEF Typed, TypeOK, Contexts
      <3>2. j \in Jobs /\ j.s = s /\ j.op = op /\ j.number = Len(context[s].turns) + 1
        <4>1. context[s] \in Contexts /\ NewContext \in Contexts
          BY IdleJob DEF Typed, TypeOK
        <4>2. op \in JobOps /\ Len(context[s].turns) + 1 \in Nat
          BY <3>1 DEF JobOps
        <4>3. (IF op = "end" THEN "update" ELSE "save") \in Points
          BY DEF Points
        <4>4. QED
          BY <4>1, <4>2, <4>3 DEF Jobs
      <3>3. QED
        BY <1>3, <3>1, <3>2 DEF Begin, TakesJob
    <2> HIDE DEF j
    <2>2. QED
      BY <1>3, <2>1, OneJob DEF Begin, UnchangedStore, Typed, TypeOK
  <1>4. ASSUME NEW w \in Workers, SaveChange(w) PROVE Typed'
    <2>1. \E j : TakesJob(w, j)
      BY <1>4, JobSteps DEF SaveChange, Points
    <2>2. job[w].op \in {"business", "system", "field"} /\ job[w].s \in Sessions
      BY <1>4 DEF SaveChange, Typed, JobsTyped, Places, PlaceOf
    <2>3. QED
      BY <1>4, <2>1, <2>2, OneJob, ChangeTyped, SaveTyped DEF SaveChange, Typed, TypeOK
  <1>5. ASSUME NEW w \in Workers, SaveFails(w) PROVE Typed'
    <2>1. TakesJob(w, Idle)
      BY <1>5, JobSteps DEF SaveFails
    <2>2. job[w].op \in {"business", "system", "field"} /\ job[w].s \in Sessions
      BY <1>5 DEF SaveFails, Typed, JobsTyped, Places, PlaceOf
    <2>3. /\ kept' \subseteq Sessions /\ context' \in [Sessions -> Contexts]
          /\ left' \in [Sessions -> 0..Ttl]
      BY <1>5, <2>2, ChangeTyped, SaveTyped DEF SaveFails, UnchangedStore, Typed, TypeOK
    <2>4. QED
      BY <1>5, <2>1, <2>3, OneJob DEF SaveFails, Typed, TypeOK
  <1>6. ASSUME NEW w \in Workers, InsertTurn(w) PROVE Typed'
    <2>1. TakesJob(w, Idle)
      BY <1>6, JobSteps DEF InsertTurn
    <2>2. [number |-> job[w].number, type |-> job[w].op] \in [number : Nat \ {0}, type : TurnTypes]
      BY <1>6 DEF InsertTurn, Typed, JobsTyped, Jobs
    <2>3. job[w].s \in Sessions
      BY <1>6 DEF InsertTurn, TurnTypes, Typed, JobsTyped
    <2>4. /\ \A s \in Sessions : turnRows'[s] \in Seq([number : Nat \ {0}, type : TurnTypes])
          /\ DOMAIN turnRows' = Sessions
      BY <1>6, <2>2, <2>3, AppendProperties DEF InsertTurn, AddRow, Typed, TypeOK
    <2>5. QED
      BY <1>6, <2>1, <2>4, OneJob DEF InsertTurn, UnchangedStore, Typed, TypeOK
  <1>7. ASSUME NEW w \in Workers, InsertFails(w) PROVE Typed'
    <2>1. TakesJob(w, Idle)
      BY <1>7, JobSteps DEF InsertFails
    <2>2. row' \in [Sessions -> {"none", "open", "ended"}]
      BY <1>7 DEF InsertFails, Typed, TypeOK
    <2>3. ASSUME job[w].op \in TurnTypes, AddRow(w)
          PROVE  /\ \A s \in Sessions : turnRows'[s] \in Seq([number : Nat \ {0}, type : TurnTypes])
                 /\ DOMAIN turnRows' = Sessions
      <3>1. [number |-> job[w].number, type |-> job[w].op] \in [number : Nat \ {0}, type : TurnTypes]
        BY <2>3 DEF Typed, JobsTyped, Jobs
      <3>2. job[w].s \in Sessions
        BY <2>3 DEF TurnTypes, Typed, JobsTyped
      <3>3. QED
        BY <2>3, <3>1, <3>2, AppendProperties DEF AddRow, Typed, TypeOK
    <2>4. /\ \A s \in Sessions : turnRows'[s] \in Seq([number : Nat \ {0}, type : TurnTypes])
          /\ DOMAIN turnRows' = Sessions
      BY <1>7, <2>3 DEF InsertFails, Typed, TypeOK
    <2>5. QED
      BY <1>7, <2>1, <2>2, <2>4, OneJob DEF InsertFails, UnchangedStore, Typed, TypeOK
  <1>8. ASSUME NEW w \in Workers, UpdateSession(w) PROVE Typed'
    <2>1. \E j : TakesJob(w, j)
      BY <1>8, JobSteps DEF UpdateSession, Points
    <2>2. QED
      BY <1>8, <2>1, OneJob DEF UpdateSession, UnchangedStore, Typed, TypeOK
  <1>9. ASSUME NEW w \in Workers, UpdateFails(w) PROVE Typed'
    <2>1. TakesJob(w, Idle)
      BY <1>9, JobSteps DEF UpdateFails
    <2>2. job[w].s \in Sessions
      BY <1>9 DEF UpdateFails, Typed, JobsTyped, Places, PlaceOf
    <2>3. row' \in [Sessions -> {"none", "open", "ended"}] /\ torn' \subseteq Sessions
      BY <1>9, <2>2 DEF UpdateFails, Typed, TypeOK
    <2>4. QED
      BY <1>9, <2>1, <2>3, OneJob DEF UpdateFails, UnchangedStore, Typed, TypeOK
  <1>10. ASSUME NEW w \in Workers, Delete(w) PROVE Typed'
    <2>1. TakesJob(w, Idle)
      BY <1>10, JobSteps DEF Delete
    <2>2. QED
      BY <1>10, <2>1, OneJob, DropTyped DEF Delete, Typed, TypeOK
  <1>11. ASSUME NEW w \in Workers, DeleteFails(w) PROVE Typed'
    <2>1. TakesJob(w, Idle)
      BY <1>11, JobSteps DEF DeleteFails
    <2>2. job[w].s \in Sessions
      BY <1>11 DEF DeleteFails, Typed, JobsTyped, Places, PlaceOf
    <2>3. /\ kept' \subseteq Sessions /\ context' \in [Sessions -> Contexts]
          /\ left' \in [Sessions -> 0..Ttl]
      BY <1>11, DropTyped DEF DeleteFails, UnchangedStore, Typed, TypeOK
    <2>4. QED
      BY <1>11, <2>1, <2>2, <2>3, OneJob DEF DeleteFails, Typed, TypeOK
  <1>12. ASSUME NEW s \in Sessions, CheckLimits(s) PROVE Typed'
    BY <1>12 DEF CheckLimits, UnchangedStore, Typed, TypeOK, JobsTyped
  <1>13. CASE Tick
    <2>1. age' \in [Sessions -> 0..MaxMinutes]
      BY <1>13, SessionAssumption DEF Tick, Typed, TypeOK
    <2>2. left' \in [Sessions -> 0..Ttl]
      BY <1>13, SessionAssumption DEF Tick, Typed, TypeOK, Outlasts
    <2>3. context' \in [Sessions -> Contexts]
      BY <1>13, IdleJob DEF Tick, Typed, TypeOK
    <2>4. QED
      BY <1>13, <2>1, <2>2, <2>3 DEF Tick, Typed, TypeOK, JobsTyped
  <1>14. CASE Crash
    <2>1. job' \in [Workers -> Jobs] /\ \A w \in Workers : job'[w] = Idle
      BY <1>14, IdleJob DEF Crash
    <2>2. \A w \in Workers : job'[w].op \in Ops \cup {"idle"} /\ job'[w].copy \in Contexts
      BY <2>1 DEF Jobs, JobOps
    <2>3. /\ kept' \subseteq Sessions /\ context' \in [Sessions -> Contexts]
          /\ left' \in [Sessions -> 0..Ttl]
      BY <1>14, DropTyped DEF Crash, UnchangedStore, Typed, TypeOK
    <2>4. torn' \subseteq Sessions
      BY <1>14 DEF Crash, Typed, TypeOK, JobsTyped, Places, PlaceOf
    <2>5. QED
      BY <1>14, <2>1, <2>2, <2>3, <2>4, IdleJob DEF Crash, Typed, TypeOK, JobsTyped, TurnTypes
  <1>15. CASE UNCHANGED vars
    BY <1>15 DEF vars, Typed, TypeOK, JobsTyped
  <1>16. QED
    BY <1>1, <1>2, <1>3, <1>4, <1>5, <1>6, <1>7, <1>8, <1>9, <1>10, <1>11, <1>12, <1>13, <1>14, <1>15
       DEF Next

(***************************************************************************)
(* What the step of a call that is under way may do to what calls share    *)
(***************************************************************************)
Own(w) == job[w].s
Handled(w, j) ==
  /\ TakesJob(w, j) /\ job[w].op # "idle"
  /\ \/ j.op = "idle" /\ j.at = ""
     \/ /\ j.op = job[w].op /\ j.s = Own(w) /\ j.op # "create" /\ j.at # "save"
        /\ j.at # "update" /\ (j.at = "delete" => row'[Own(w)] = "ended")
  /\ \A s \in Sessions : s # Own(w) => row'[s] = row[s] /\ (s \in kept' <=> s \in kept) /\ left'[s] = left[s]
  /\ \/ row'[Own(w)] = row[Own(w)]
     \/ job[w].op = "create" /\ row'[Own(w)] = "open"
     \/ /\ job[w].at = "update" /\ row'[Own(w)] = "ended"
        /\ (j.op = job[w].op /\ j.at = "delete") \/ Own(w) \in torn'
  /\ \/ (Own(w) \in kept' <=> Own(w) \in kept) /\ left'[Own(w)] = left[Own(w)]
     \/ job[w].at = "save" /\ Own(w) \in kept' /\ left'[Own(w)] = Ttl
     \/ job[w].at = "delete" /\ Own(w) \notin kept'
  /\ \/ known' = known
     \/ job[w].op = "create" /\ row'[Own(w)] = "open" /\ known' = known \cup {Own(w)}
  /\ \A s \in Sessions : turnRows'[s] = turnRows[s] \/ (s = Own(w) /\ s \in known)
  /\ \A s \in Sessions : s \in torn => s \in torn' \/ (s = Own(w) /\ s \notin kept')
  /\ job[w].at = "delete" /\ Own(w) \in kept' => Own(w) \in torn'
  /\ UNCHANGED <<backend, callers, age>>

LEMMA HandledKeepsRules ==
  ASSUME LifeInv, NEW w \in Workers, NEW j, Handled(w, j)
  PROVE  Rules'
  <1>1. /\ Typed /\ Places /\ Creators /\ RowFirst /\ Outlasts
        /\ callers = "serial" => OneWorker /\ Torn
    BY DEF LifeInv, Rules
  <1>2. job'[w] = j /\ \A v \in Workers : v # w => job'[v] = job[v]
    BY <1>1, OneJob DEF Handled
  <1>3. /\ Own(w) \in Sessions /\ job[w].op # "idle"
        /\ \A v \in Workers : job[v].op # "idle" => job[v].s \in Sessions
    BY <1>1 DEF Handled, Typed, JobsTyped, Own
  <1>4. \A v \in Workers : v # w /\ job[v].op = "create" => job[v].s # Own(w)
    BY <1>1, <1>3 DEF Creators, Own
  <1>11. j.op # "create" /\ (j.op # "idle" => j.s = Own(w))
    BY DEF Handled
  <1>12. \A v \in Workers : job'[v].op # "idle" => job[v].op # "idle" /\ job'[v].s = job[v].s
    BY <1>2, <1>3, <1>11 DEF Own
  <1>13. \A v \in Workers : job'[v].op = "create" => job[v].op = "create"
    BY <1>2, <1>11
  <1>5. Places'
    <2> SUFFICES ASSUME NEW v \in Workers PROVE PlaceOf(v)'
      BY DEF Places
    <2>1. PlaceOf(v) /\ PlaceOf(w)
      BY <1>1 DEF Places
    <2>2. CASE v = w
      BY <1>2, <2>1, <2>2 DEF Handled, PlaceOf, Own
    <2>3. CASE v # w
      <3>1. job'[v] = job[v]
        BY <1>2, <2>3
      <3>2. job[v].op = "create" => job[v].s \notin known' /\ row'[job[v].s] = row[job[v].s]
        BY <1>3, <1>4, <2>1, <2>3 DEF Handled, PlaceOf
      <3>3. job[v].at = "delete" => job[v].s \in Sessions /\ row'[job[v].s] = "ended"
        BY <1>3, <2>1, <2>3 DEF Handled, PlaceOf, Own
      <3>4. known \subseteq known'
        BY DEF Handled
      <3>5. QED
        BY <2>1, <3>1, <3>2, <3>3, <3>4 DEF PlaceOf
    <2>4. QED
      BY <2>2, <2>3
  <1>6. Creators'
    BY <1>1, <1>12, <1>13 DEF Creators
  <1>7. RowFirst'
    <2> SUFFICES ASSUME NEW s \in Sessions, s \in known' \/ turnRows'[s] # <<>>
                 PROVE  row'[s] # "none"
      BY DEF RowFirst
    <2>1. CASE s \in known \/ turnRows[s] # <<>>
      BY <1>1, <2>1 DEF RowFirst, Handled
    <2>2. CASE ~(s \in known \/ turnRows[s] # <<>>)
      BY <2>2 DEF Handled
    <2>3. QED
      BY <2>1, <2>2
  <1>8. Outlasts'
    <2> SUFFICES ASSUME backend = "redis", NEW s \in Sessions
                 PROVE  /\ s \in kept' => left'[s] # 0 /\ left'[s] + age'[s] >= MaxMinutes
                        /\ Wanted(s)' /\ age'[s] < MaxMinutes => s \in kept'
      BY DEF Outlasts, Handled
    <2>1. age' = age /\ age[s] \in Nat /\ left[s] \in Nat /\ Ttl \in Nat \ {0} /\ MaxMinutes \in Nat /\ MaxMinutes <= Ttl
      <3>1. MaxMinutes \in Nat /\ Ttl \in Nat \ {0} /\ MaxMinutes <= Ttl
        BY SessionAssumption
      <3>2. age' = age /\ age[s] \in Nat /\ left[s] \in Nat
        <4>1. age[s] \in 0..MaxMinutes /\ left[s] \in 0..Ttl
          BY <1>1 DEF Typed, TypeOK
        <4>2. age[s] \in Nat /\ left[s] \in Nat
          BY <3>1, <4>1
        <4>3. QED
          BY <4>2 DEF Handled
      <3>3. QED
        BY <3>1, <3>2
    <2>2. /\ s \in kept => left[s] # 0 /\ left[s] + age[s] >= MaxMinutes
          /\ Wanted(s) /\ age[s] < MaxMinutes => s \in kept
      BY <1>1 DEF Outlasts
    <2>3. Wanted(s)' => Wanted(s)
      BY <1>2, <1>3 DEF Wanted, Handled, Own
    <2>4. s = Own(w) /\ job[w].at = "delete" => ~Wanted(s)
      <3> SUFFICES ASSUME s = Own(w), job[w].at = "delete" PROVE ~Wanted(s)
        OBVIOUS
      <3>1. row[s] = "ended"
        BY <1>1 DEF Places, PlaceOf, Own
      <3>2. \A v \in Workers : job[v].op = "create" => row[job[v].s] = "none"
        BY <1>1 DEF Places, PlaceOf
      <3>3. QED
        BY <3>1, <3>2 DEF Wanted
    <2>5. s \in kept' => left'[s] # 0 /\ left'[s] + age'[s] >= MaxMinutes
      <3>1. s \in kept' => (s \in kept /\ left'[s] = left[s]) \/ left'[s] = Ttl
        BY DEF Handled
      <3>2. Ttl # 0 /\ Ttl + age[s] >= MaxMinutes
        BY <2>1
      <3>3. QED
        BY <2>1, <2>2, <3>1, <3>2
    <2>6. s \in kept => s \in kept' \/ (s = Own(w) /\ job[w].at = "delete")
      BY DEF Handled
    <2>7. QED
      BY <2>1, <2>2, <2>3, <2>4, <2>5, <2>6
  <1>9. ASSUME callers = "serial" PROVE OneWorker' /\ Torn'
    <2>1. OneWorker /\ Torn
      BY <1>1, <1>9
    <2>2. OneWorker'
      BY <1>12, <2>1 DEF OneWorker
    <2>3. Torn'
      <3> SUFFICES ASSUME NEW s \in Sessions, row'[s] = "ended"
                   PROVE  /\ s \in kept' => s \in torn' \/ \E v \in Workers : job'[v].s = s /\ job'[v].at = "delete"
                          /\ \A v \in Workers : job'[v].s = s /\ job'[v].at \in {"save", "update"} => s \in torn'
        BY DEF Torn
      <3>1. CASE s = Own(w)
        <4>1. \A v \in Workers : v # w => job[v].op = "idle" \/ job[v].s # s
          BY <1>3, <2>1, <3>1 DEF OneWorker, Own
        <4>2. \A v \in Workers : job[v].op = "idle" => job[v].at = ""
          BY <1>1 DEF Places, PlaceOf
        <4>3. \A v \in Workers : job'[v].s = s => job'[v].at \notin {"save", "update"}
          BY <1>2, <4>1, <4>2 DEF Handled
        <4>4. ASSUME s \in kept', s \notin torn' PROVE job'[w].s = s /\ job'[w].at = "delete"
          <5>1. job[w].at # "delete" /\ s \notin torn
            BY <3>1, <4>4 DEF Handled
          <5>2. row[s] = "ended" => s \notin kept /\ job[w].at \notin {"save", "update"}
            BY <2>1, <3>1, <4>1, <4>2, <5>1 DEF Torn, Own
          <5>3. row[s] # "ended"
            BY <3>1, <4>4, <5>1, <5>2 DEF Handled
          <5>4. QED
            BY <1>2, <3>1, <4>4, <5>3 DEF Handled
        <4>5. QED
          BY <4>3, <4>4
      <3>2. CASE s # Own(w)
        <4>1. row[s] = "ended" /\ (s \in kept' <=> s \in kept) /\ (s \in torn => s \in torn')
          BY <3>2 DEF Handled
        <4>2. \A v \in Workers : job'[v].s = s /\ job'[v].at \in {"save", "update"} => job'[v] = job[v]
          <5>1. job'[w].s = s => job'[w].at \notin {"save", "update"}
            BY <1>2, <3>2, Zenon DEF Handled
          <5>2. QED
            BY <1>2, <5>1
        <4>3. \A v \in Workers : job[v].s = s => job'[v] = job[v]
          BY <1>2, <3>2 DEF Own
        <4>4. s \in kept' => s \in torn' \/ \E v \in Workers : job'[v].s = s /\ job'[v].at = "delete"
          BY <2>1, <4>1, <4>3 DEF Torn
        <4>5. \A v \in Workers : job'[v].s = s /\ job'[v].at \in {"save", "update"} => s \in torn'
          BY <2>1, <4>1, <4>2 DEF Torn
        <4>6. QED
          BY <4>4, <4>5
      <3>3. QED
        BY <3>1, <3>2
    <2>4. QED
      BY <2>2, <2>3
  <1>10. QED
    BY <1>5, <1>6, <1>7, <1>8, <1>9 DEF Rules, Handled

LEMMA RulesStep == LifeInv /\ [Next]_vars => Rules'
  <1> SUFFICES ASSUME LifeInv, [Next]_vars PROVE Rules'
    OBVIOUS
  <1>0. /\ Typed /\ Places /\ Creators /\ RowFirst /\ Outlasts
        /\ callers = "serial" => OneWorker /\ Torn
    BY DEF LifeInv, Rules
  <1>1. ASSUME NEW w \in Workers, InsertSession(w) PROVE Rules'
    <2> DEFINE j == Idle
    <2>1. TakesJob(w, j) /\ PlaceOf(w) /\ j.op = "idle" /\ j.at = ""
      BY <1>0, <1>1, JobSteps, IdleJob DEF InsertSession, Places
    <2> HIDE DEF j
    <2>2. Own(w) \in Sessions
      BY <1>0, <1>1, <2>1 DEF InsertSession, Typed, JobsTyped, PlaceOf, Own
    <2>3. Handled(w, j)
      BY <1>0, <1>1, <2>1, <2>2 DEF InsertSession, Handled, Own, PlaceOf, Typed, TypeOK
    <2>4. QED
      BY <2>3, HandledKeepsRules
  <1>2. ASSUME NEW w \in Workers, SaveFails(w) PROVE Rules'
    <2> DEFINE j == Idle
    <2>1. TakesJob(w, j) /\ PlaceOf(w) /\ j.op = "idle" /\ j.at = ""
      BY <1>0, <1>2, JobSteps, IdleJob DEF SaveFails, Places
    <2> HIDE DEF j
    <2>2. Own(w) \in Sessions
      BY <1>0, <1>2, <2>1 DEF SaveFails, Typed, JobsTyped, PlaceOf, Own
    <2>3. Handled(w, j)
      BY <1>0, <1>2, <2>1, <2>2 DEF SaveFails, UnchangedStore, Save, Handled, Own, PlaceOf, Typed, TypeOK
    <2>4. QED
      BY <2>3, HandledKeepsRules
  <1>3. ASSUME NEW w \in Workers, InsertTurn(w) PROVE Rules'
    <2> DEFINE j == Idle
    <2>1. TakesJob(w, j) /\ PlaceOf(w) /\ j.op = "idle" /\ j.at = ""
      BY <1>0, <1>3, JobSteps, IdleJob DEF InsertTurn, Places
    <2> HIDE DEF j
    <2>2. Own(w) \in Sessions
      BY <1>0, <1>3, <2>1 DEF InsertTurn, Typed, JobsTyped, PlaceOf, Own
    <2>3. Handled(w, j)
      BY <1>0, <1>3, <2>1, <2>2 DEF InsertTurn, AddRow, UnchangedStore, TurnTypes, Handled, Own, PlaceOf, Typed, TypeOK
    <2>4. QED
      BY <2>3, HandledKeepsRules
  <1>4. ASSUME NEW w \in Workers, InsertFails(w) PROVE Rules'
    <2> DEFINE j == Idle
    <2>1. TakesJob(w, j) /\ PlaceOf(w) /\ j.op = "idle" /\ j.at = ""
      BY <1>0, <1>4, JobSteps, IdleJob DEF InsertFails, Places
    <2> HIDE DEF j
    <2>2. Own(w) \in Sessions
      BY <1>0, <1>4, <2>1 DEF InsertFails, Typed, JobsTyped, PlaceOf, Own
    <2>3. Handled(w, j)
      BY <1>0, <1>4, <2>1, <2>2 DEF InsertFails, AddRow, UnchangedStore, TurnTypes, Handled, Own, PlaceOf, Typed, TypeOK
    <2>4. QED
      BY <2>3, HandledKeepsRules
  <1>5. ASSUME NEW w \in Workers, UpdateFails(w) PROVE Rules'
    <2> DEFINE j == Idle
    <2>1. TakesJob(w, j) /\ PlaceOf(w) /\ j.op = "idle" /\ j.at = ""
      BY <1>0, <1>5, JobSteps, IdleJob DEF UpdateFails, Places
    <2> HIDE DEF j
    <2>2. Own(w) \in Sessions
      BY <1>0, <1>5, <2>1 DEF UpdateFails, Typed, JobsTyped, PlaceOf, Own
    <2>3. Handled(w, j)
      BY <1>0, <1>5, <2>1, <2>2 DEF UpdateFails, UnchangedStore, Handled, Own, PlaceOf, Typed, TypeOK
    <2>4. QED
      BY <2>3, HandledKeepsRules
  <1>6. ASSUME NEW w \in Workers, Delete(w) PROVE Rules'
    <2> DEFINE j == Idle
    <2>1. TakesJob(w, j) /\ PlaceOf(w) /\ j.op = "idle" /\ j.at = ""
      BY <1>0, <1>6, JobSteps, IdleJob DEF Delete, Places
    <2> HIDE DEF j
    <2>2. Own(w) \in Sessions
      BY <1>0, <1>6, <2>1 DEF Delete, Typed, JobsTyped, PlaceOf, Own
    <2>3. Handled(w, j)
      BY <1>0, <1>6, <2>1, <2>2 DEF Delete, Drop, Handled, Own, PlaceOf, Typed, TypeOK
    <2>4. QED
      BY <2>3, HandledKeepsRules
  <1>7. ASSUME NEW w \in Workers, DeleteFails(w) PROVE Rules'
    <2> DEFINE j == Idle
    <2>1. TakesJob(w, j) /\ PlaceOf(w) /\ j.op = "idle" /\ j.at = ""
      BY <1>0, <1>7, JobSteps, IdleJob DEF DeleteFails, Places
    <2> HIDE DEF j
    <2>2. Own(w) \in Sessions
      BY <1>0, <1>7, <2>1 DEF DeleteFails, Typed, JobsTyped, PlaceOf, Own
    <2>3. Handled(w, j)
      BY <1>0, <1>7, <2>1, <2>2 DEF DeleteFails, UnchangedStore, Drop, Handled, Own, PlaceOf, Typed, TypeOK
    <2>4. QED
      BY <2>3, HandledKeepsRules
  <1>8. ASSUME NEW w \in Workers, UpdateSession(w) PROVE Rules'
    <2> DEFINE j == [job[w] EXCEPT !.at = "delete"]
    <2>1. TakesJob(w, j) /\ PlaceOf(w) /\ j.op = job[w].op /\ j.s = Own(w) /\ j.at = "delete"
      BY <1>0, <1>8, JobSteps, IdleJob DEF UpdateSession, Places, Points, Own
    <2> HIDE DEF j
    <2>2. Own(w) \in Sessions
      BY <1>0, <1>8, <2>1 DEF UpdateSession, Typed, JobsTyped, PlaceOf, Own
    <2>3. Handled(w, j)
      BY <1>0, <1>8, <2>1, <2>2 DEF UpdateSession, UnchangedStore, Handled, Own, PlaceOf, Typed, TypeOK
    <2>4. QED
      BY <2>3, HandledKeepsRules
  <1>9. ASSUME NEW w \in Workers, SaveChange(w) PROVE Rules'
    <2>1. PICK j : /\ TakesJob(w, j)
                  /\ \/ j.op = "idle" /\ j.at = ""
                     \/ j.op = job[w].op /\ j.s = Own(w) /\ j.at = "insert" /\ j.op # "create"
      BY <1>0, <1>9, JobSteps, IdleJob DEF SaveChange, Points, Own, TurnTypes
    <2>2. Own(w) \in Sessions /\ PlaceOf(w) /\ job[w].op # "idle"
      BY <1>0, <1>9 DEF SaveChange, Typed, JobsTyped, Places, PlaceOf, Own
    <2>3. Handled(w, j)
      BY <1>0, <1>9, <2>1, <2>2 DEF SaveChange, Save, Handled, Own, PlaceOf, Typed, TypeOK
    <2>4. QED
      BY <2>3, HandledKeepsRules
  <1>10. ASSUME NEW w \in Workers, Create(w) PROVE Rules'
    <2>1. PICK s \in Sessions :
             /\ s \notin known /\ s \notin kept /\ row[s] = "none" /\ Busy(s) = {}
             /\ job' = [job EXCEPT ![w] = [Idle EXCEPT !.op = "create", !.at = "insert", !.s = s]]
             /\ Save(s, NewContext)
             /\ age' = [age EXCEPT ![s] = 0]
      BY <1>10 DEF Create
    <2> DEFINE j == [Idle EXCEPT !.op = "create", !.at = "insert", !.s = s]
    <2>2. TakesJob(w, j) /\ j.s = s /\ j.op = "create" /\ j.at = "insert"
      <3>1. j \in Jobs /\ j.s = s /\ j.op = "create" /\ j.at = "insert"
        BY IdleJob DEF Jobs, JobOps, Ops, Points, Idle
      <3>2. QED
        BY <2>1, <3>1 DEF TakesJob, TurnTypes
    <2> HIDE DEF j
    <2>3. /\ job'[w] = j /\ job[w].op = "idle" /\ job[w].at = ""
          /\ \A v \in Workers : v # w => job'[v] = job[v]
      BY <1>0, <1>10, <2>2, OneJob DEF Create, Places, PlaceOf
    <2>4. \A v \in Workers : job[v].op # "idle" => job[v].s # s
      BY <2>1 DEF Busy
    <2>5. UNCHANGED <<backend, callers, row, turnRows, known, torn>>
      BY <1>10 DEF Create
    <2>6. Places'
      <3> SUFFICES ASSUME NEW v \in Workers PROVE PlaceOf(v)'
        BY DEF Places
      <3>1. PlaceOf(v)
        BY <1>0 DEF Places
      <3>2. CASE v = w
        <4>1. job'[v].s = s /\ job'[v].op = "create" /\ job'[v].at = "insert"
          BY <2>2, <2>3, <3>2
        <4>2. s \notin known' /\ row'[s] = "none"
          BY <2>1, <2>5
        <4>3. QED
          BY <4>1, <4>2 DEF PlaceOf
      <3>3. CASE v # w
        BY <2>3, <2>5, <3>1, <3>3 DEF PlaceOf
      <3>4. QED
        BY <3>2, <3>3
    <2>7. Creators'
      BY <1>0, <2>2, <2>3, <2>4 DEF Creators
    <2>8. RowFirst'
      BY <1>0, <2>5 DEF RowFirst
    <2>9. Outlasts'
      <3> SUFFICES ASSUME backend = "redis", NEW x \in Sessions
                   PROVE  /\ x \in kept' => left'[x] # 0 /\ left'[x] + age'[x] >= MaxMinutes
                          /\ Wanted(x)' /\ age'[x] < MaxMinutes => x \in kept'
        BY <2>5 DEF Outlasts
      <3>1. CASE x = s
        <4>1. x \in kept' /\ left'[x] = Ttl /\ age'[x] = 0
          BY <1>0, <2>1, <3>1 DEF Save, Typed, TypeOK
        <4>2. QED
          BY <4>1, SessionAssumption
      <3>2. CASE x # s
        <4>1. (x \in kept' <=> x \in kept) /\ left'[x] = left[x] /\ age'[x] = age[x]
          BY <1>0, <2>1, <3>2 DEF Save, Typed, TypeOK
        <4>2. Wanted(x)' => Wanted(x)
          BY <2>2, <2>3, <2>5, <3>2 DEF Wanted
        <4>3. QED
          BY <1>0, <4>1, <4>2 DEF Outlasts
      <3>3. QED
        BY <3>1, <3>2
    <2>10. ASSUME callers = "serial" PROVE OneWorker' /\ Torn'
      <3>1. OneWorker'
        BY <1>0, <2>2, <2>3, <2>4, <2>10 DEF OneWorker
      <3>2. \A x \in Sessions : row[x] = "ended" => x # s /\ (x \in kept' <=> x \in kept)
        BY <2>1 DEF Save
      <3>3. Torn'
        <4> SUFFICES ASSUME NEW x \in Sessions, row[x] = "ended"
                     PROVE  /\ x \in kept' => x \in torn \/ \E v \in Workers : job'[v].s = x /\ job'[v].at = "delete"
                            /\ \A v \in Workers : job'[v].s = x /\ job'[v].at \in {"save", "update"} => x \in torn
          BY <2>5 DEF Torn
        <4>1. \A v \in Workers : job'[v].s = x => v # w /\ job'[v] = job[v]
          BY <2>2, <2>3, <3>2
        <4>2. \A v \in Workers : job[v].at = "delete" => job'[v] = job[v]
          BY <2>3
        <4>3. QED
          BY <1>0, <2>10, <3>2, <4>1, <4>2 DEF Torn
      <3>4. QED
        BY <3>1, <3>3
    <2>11. QED
      BY <2>5, <2>6, <2>7, <2>8, <2>9, <2>10 DEF Rules
  <1>11. ASSUME NEW w \in Workers, NEW s \in Sessions, NEW op \in Ops \ {"create"}, Begin(w, s, op)
         PROVE Rules'
    <2> DEFINE j == [op |-> op, at |-> IF op = "end" THEN "update" ELSE "save", s |-> s,
                     copy |-> IF backend = "redis" THEN context[s] ELSE NewContext,
                     number |-> Len(context[s].turns) + 1]
    <2>1. /\ job' = [job EXCEPT ![w] = j] /\ j.op = op /\ j.s = s /\ op \notin {"idle", "create"}
          /\ j.at = IF op = "end" THEN "update" ELSE "save"
      BY <1>11 DEF Begin, Ops
    <2> HIDE DEF j
    <2>2. /\ job'[w] = j /\ job[w].op = "idle" /\ job[w].at = ""
          /\ \A v \in Workers : v # w => job'[v] = job[v]
      BY <1>0, <1>11, <2>1 DEF Begin, Typed, JobsTyped, Places, PlaceOf
    <2>3. /\ s \in known /\ s \in kept
          /\ UNCHANGED <<backend, callers, kept, left, age, row, turnRows, known, torn>>
      BY <1>11 DEF Begin, Load, UnchangedStore
    <2>4. \A v \in Workers : job[v].op = "create" => job[v].s # s
      BY <1>0, <2>3 DEF Places, PlaceOf
    <2>5. Places'
      <3> SUFFICES ASSUME NEW v \in Workers PROVE PlaceOf(v)'
        BY DEF Places
      <3>1. PlaceOf(v)
        BY <1>0 DEF Places
      <3>2. CASE v = w
        <4>1. /\ job'[v].s = s /\ job'[v].op = op /\ op \notin {"idle", "create"}
              /\ job'[v].at = IF op = "end" THEN "update" ELSE "save"
          BY <2>1, <2>2, <3>2
        <4>2. s \in known' /\ (op # "end" => op \in {"business", "system", "field"})
          BY <2>3 DEF Ops
        <4>3. QED
          BY <4>1, <4>2 DEF PlaceOf
      <3>3. CASE v # w
        BY <2>2, <2>3, <3>1, <3>3 DEF PlaceOf
      <3>4. QED
        BY <3>2, <3>3
    <2>6. Creators'
      <3> SUFFICES ASSUME NEW u \in Workers, NEW v \in Workers, u # v,
                          job'[v].op = "create", job'[u].op # "idle"
                   PROVE  job'[u].s # job'[v].s
        BY DEF Creators
      <3>1. v # w /\ job'[v] = job[v]
        BY <2>1, <2>2
      <3>2. CASE u = w
        BY <2>1, <2>2, <2>4, <3>1, <3>2
      <3>3. CASE u # w
        BY <1>0, <2>2, <3>1, <3>3 DEF Creators
      <3>4. QED
        BY <3>2, <3>3
    <2>7. RowFirst'
      BY <1>0, <2>3 DEF RowFirst
    <2>8. Outlasts'
      <3>1. \A x \in Sessions : Wanted(x)' => Wanted(x)
        BY <2>1, <2>2, <2>3 DEF Wanted
      <3>2. QED
        BY <1>0, <2>3, <3>1 DEF Outlasts
    <2>9. ASSUME callers = "serial" PROVE OneWorker' /\ Torn'
      <3>1. \A v \in Workers : job[v].op # "idle" => job[v].s # s
        BY <1>11, <2>9 DEF Begin, MayCall, Busy
      <3>2. \A v \in Workers : job[v].at # "" => job[v].op # "idle"
        BY <1>0 DEF Places, PlaceOf
      <3>3. OneWorker'
        <4> SUFFICES ASSUME NEW u \in Workers, NEW v \in Workers, u # v,
                            job'[v].op # "idle", job'[u].op # "idle"
                     PROVE  job'[u].s # job'[v].s
          BY DEF OneWorker
        <4>1. CASE u = w
          BY <2>1, <2>2, <3>1, <4>1
        <4>2. CASE v = w
          BY <2>1, <2>2, <3>1, <4>2
        <4>3. CASE u # w /\ v # w
          BY <1>0, <2>2, <2>9, <4>3 DEF OneWorker
        <4>4. QED
          BY <4>1, <4>2, <4>3
      <3>4. row[s] = "ended" => s \in torn
        BY <1>0, <2>3, <2>9, <3>1, <3>2 DEF Torn
      <3>5. Torn'
        <4> SUFFICES ASSUME NEW x \in Sessions, row[x] = "ended"
                     PROVE  /\ x \in kept => x \in torn \/ \E v \in Workers : job'[v].s = x /\ job'[v].at = "delete"
                            /\ \A v \in Workers : job'[v].s = x /\ job'[v].at \in {"save", "update"} => x \in torn
          BY <2>3 DEF Torn
        <4>1. CASE x = s
          BY <3>4, <4>1
        <4>2. CASE x # s
          <5>1. \A v \in Workers : job'[v].s = x => job'[v] = job[v]
            BY <2>1, <2>2, <4>2
          <5>2. \A v \in Workers : job[v].at = "delete" => job'[v] = job[v]
            BY <2>2
          <5>3. QED
            BY <1>0, <2>9, <5>1, <5>2 DEF Torn
        <4>3. QED
          BY <4>1, <4>2
      <3>6. QED
        BY <3>3, <3>5
    <2>10. QED
      BY <2>3, <2>5, <2>6, <2>7, <2>8, <2>9 DEF Rules
  <1>12. CASE Tick
    <2>1. UNCHANGED <<backend, callers, row, turnRows, known, job, torn>>
      BY <1>12 DEF Tick
    <2>2. Places' /\ Creators' /\ RowFirst'
      BY <1>0, <2>1 DEF Places, PlaceOf, Creators, RowFirst
    <2>3. kept' \subseteq kept
      BY <1>12 DEF Tick
    <2>4. Outlasts'
      <3> SUFFICES ASSUME backend = "redis", NEW s \in Sessions
                   PROVE  /\ s \in kept' => left'[s] # 0 /\ left'[s] + age'[s] >= MaxMinutes
                          /\ Wanted(s)' /\ age'[s] < MaxMinutes => s \in kept'
        BY <2>1 DEF Outlasts
      <3>1. MaxMinutes \in Nat /\ age[s] \in Nat /\ left[s] \in Nat
        <4>1. age[s] \in 0..MaxMinutes /\ left[s] \in 0..Ttl /\ MaxMinutes \in Nat /\ Ttl \in Nat
          BY <1>0, SessionAssumption DEF Typed, TypeOK
        <4>2. QED
          BY <4>1
      <3>2. /\ age'[s] = IF age[s] < MaxMinutes THEN age[s] + 1 ELSE age[s]
            /\ s \in kept => left'[s] = left[s] - 1
            /\ s \in kept' <=> s \in kept /\ left[s] # 1
        BY <1>12 DEF Tick, Dropped
      <3>3. /\ s \in kept => left[s] # 0 /\ left[s] + age[s] >= MaxMinutes
            /\ Wanted(s) /\ age[s] < MaxMinutes => s \in kept
        BY <1>0 DEF Outlasts
      <3>4. age[s] <= MaxMinutes
        BY <1>0, <3>1 DEF Typed, TypeOK
      <3>5. s \in kept' => left'[s] # 0 /\ left'[s] + age'[s] >= MaxMinutes
        BY <3>1, <3>2, <3>3, <3>4
      <3>6. age'[s] < MaxMinutes => age[s] < MaxMinutes /\ ~(s \in kept /\ left[s] = 1)
        BY <3>1, <3>2, <3>3
      <3>7. Wanted(s)' => Wanted(s)
        BY <2>1 DEF Wanted
      <3>8. QED
        BY <3>2, <3>3, <3>5, <3>6, <3>7
    <2>5. callers = "serial" => OneWorker' /\ Torn'
      BY <1>0, <2>1, <2>3 DEF OneWorker, Torn
    <2>6. QED
      BY <2>1, <2>2, <2>4, <2>5 DEF Rules
  <1>13. CASE Crash
    <2>1. /\ \A w \in Workers : job'[w] = Idle
          /\ UNCHANGED <<backend, callers, age, row, turnRows, known>>
          /\ torn' = torn \cup {job[w].s : w \in {v \in Workers : job[v].at = "delete"}}
      BY <1>13 DEF Crash
    <2>2. kept' \subseteq kept /\ (backend = "redis" => UNCHANGED <<kept, left>>)
      BY <1>13 DEF Crash, UnchangedStore, Drop
    <2>3. Places' /\ Creators' /\ OneWorker'
      BY <2>1, IdleJob DEF Places, PlaceOf, Creators, OneWorker
    <2>4. RowFirst'
      BY <1>0, <2>1 DEF RowFirst
    <2>5. Outlasts'
      <3>1. \A s \in Sessions : Wanted(s)' => Wanted(s)
        BY <2>1, IdleJob DEF Wanted
      <3>2. QED
        BY <1>0, <2>1, <2>2, <3>1 DEF Outlasts
    <2>6. callers = "serial" => Torn'
      BY <1>0, <2>1, <2>2, IdleJob DEF Torn
    <2>7. QED
      BY <2>1, <2>3, <2>4, <2>5, <2>6 DEF Rules
  <1>14. CASE (\E s \in Sessions : CheckLimits(s)) \/ UNCHANGED vars
    <2>1. UNCHANGED <<backend, callers, kept, left, age, row, turnRows, known, job, torn>>
      BY <1>14 DEF CheckLimits, UnchangedStore, vars
    <2>2. Places' /\ Creators' /\ RowFirst'
      BY <1>0, <2>1 DEF Places, PlaceOf, Creators, RowFirst
    <2>3. Outlasts'
      BY <1>0, <2>1 DEF Outlasts, Wanted
    <2>4. callers = "serial" => OneWorker' /\ Torn'
      BY <1>0, <2>1 DEF OneWorker, Torn
    <2>5. QED
      BY <2>1, <2>2, <2>3, <2>4 DEF Rules
  <1>15. QED
    BY <1>1, <1>2, <1>3, <1>4, <1>5, <1>6, <1>7, <1>8, <1>9, <1>10, <1>11, <1>12, <1>13, <1>14 DEF Next

LEMMA LifeAlways == Spec => []LifeInv
  <1>1. LifeInv /\ [Next]_vars => LifeInv'
    BY TypedStep, RulesStep DEF LifeInv, Rules
  <1>2. QED
    BY <1>1, LifeInit, PTL DEF Spec

(***************************************************************************)
(* What the turns of a session have been counted as, with serial callers   *)
(***************************************************************************)
RowsBelow(s, n) == \A i \in DOMAIN turnRows[s] : turnRows[s][i].number < n
Rising(s) == \A i, j \in DOMAIN turnRows[s] :
  i < j => turnRows[s][i].number < turnRows[s][j].number

(* A context accounts for what has been recorded and told of its session: every   *)
(* business row is counted, no row is numbered past its turns, and the limits     *)
(* still say what check_limits has answered.                                      *)
Told(s, c) ==
  /\ told[s] = "reached" => LimitReached(c, age[s])
  /\ told[s] = "warned"  => LimitReached(c, age[s]) \/ WarningNeeded(c, age[s])
Covers(s, c) == BusinessRows(s) <= c.business /\ RowsBelow(s, Len(c.turns) + 1) /\ Told(s, c)

(* The stored context does, and so does one that a worker is about to save: a key *)
(* that expires meanwhile comes back with it.  A turn that is saved and has no    *)
(* row yet is counted already.                                                    *)
CountOf(s) ==
  /\ s \in kept => Covers(s, context[s])
  /\ Rising(s)
  /\ s \notin known => told[s] = "fine"
CountAt(w) ==
  /\ job[w].at = "save" =>
       Covers(job[w].s, Loaded(w)) /\ job[w].number = Len(Loaded(w).turns) + 1
  /\ job[w].at = "insert" /\ job[w].op \in TurnTypes =>
       /\ RowsBelow(job[w].s, job[w].number)
       /\ job[w].s \in kept =>
            /\ job[w].number <= Len(context[job[w].s].turns)
            /\ job[w].op = "business" => BusinessRows(job[w].s) < context[job[w].s].business
Counts   == (\A s \in Sessions : CountOf(s)) /\ (\A w \in Workers : CountAt(w))
CountInv == callers = "serial" => Counts

(* An idle worker has nothing to account for. *)
LEMMA IdleCounts ==
  ASSUME NEW w \in Workers
  PROVE  /\ job[w] = Idle => CountAt(w)
         /\ job'[w] = Idle => CountAt(w)'
         /\ PlaceOf(w) /\ job[w].op = "idle" => CountAt(w)
  <1>1. Idle.at # "save" /\ Idle.at # "insert"
    BY IdleJob, Zenon
  <1>2. job[w] = Idle => CountAt(w)
    BY <1>1, Zenon DEF CountAt
  <1>3. job'[w] = Idle => CountAt(w)'
    BY <1>1, Zenon DEF CountAt
  <1>4. PlaceOf(w) /\ job[w].op = "idle" => job[w].at # "save" /\ job[w].at # "insert"
    BY Zenon DEF PlaceOf
  <1>5. PlaceOf(w) /\ job[w].op = "idle" => CountAt(w)
    BY <1>4, Zenon DEF CountAt
  <1>6. QED
    BY <1>2, <1>3, <1>5

LEMMA CountInit == Init => CountInv
  <1> SUFFICES ASSUME Init PROVE Counts
    BY DEF CountInv
  <1>1. \A w \in Workers : CountAt(w)
    BY IdleCounts DEF Init
  <1>2. \A s \in Sessions : turnRows[s] = <<>> /\ told[s] = "fine" /\ s \notin kept
    BY DEF Init
  <1>3. \A s \in Sessions : CountOf(s)
    BY <1>2 DEF CountOf, Rising
  <1>4. QED
    BY <1>1, <1>3 DEF Counts

(* The rows of a session: how many are there, and with one more. *)
LEMMA RowCount ==
  ASSUME Typed, NEW s \in Sessions
  PROVE  /\ BusinessRows(s) \in Nat
         /\ turnRows[s] = <<>> => BusinessRows(s) = 0
         /\ \A r \in [number : Nat \ {0}, type : TurnTypes] : turnRows'[s] = Append(turnRows[s], r) =>
              BusinessRows(s)' = IF r.type = "business" THEN BusinessRows(s) + 1 ELSE BusinessRows(s)
  <1> DEFINE B == {i \in DOMAIN turnRows[s] : turnRows[s][i].type = "business"}
  <1>1. /\ turnRows[s] \in Seq([number : Nat \ {0}, type : TurnTypes])
        /\ Len(turnRows[s]) \in Nat /\ DOMAIN turnRows[s] = 1..Len(turnRows[s])
    BY LenProperties DEF Typed, TypeOK
  <1>2. IsFiniteSet(B) /\ B \subseteq 1..Len(turnRows[s])
    <2>1. B \subseteq 1..Len(turnRows[s])
      BY <1>1
    <2> HIDE DEF B
    <2>2. IsFiniteSet(1..Len(turnRows[s]))
      BY <1>1, FS_Interval
    <2>3. QED
      BY <2>1, <2>2, FS_Subset
  <1>3. Cardinality(B) \in Nat
    BY <1>2, FS_CardinalityType
  <1>4. turnRows[s] = <<>> => Cardinality(B) = 0
    <2>1. turnRows[s] = <<>> => B = {}
      BY <1>1
    <2> HIDE DEF B
    <2>2. QED
      BY <2>1, FS_EmptySet
  <1>5. ASSUME NEW r \in [number : Nat \ {0}, type : TurnTypes], turnRows'[s] = Append(turnRows[s], r)
        PROVE  BusinessRows(s)' = IF r.type = "business" THEN BusinessRows(s) + 1 ELSE BusinessRows(s)
    <2> DEFINE n == Len(turnRows[s]) + 1
               C == {i \in DOMAIN turnRows'[s] : turnRows'[s][i].type = "business"}
    <2>1. /\ DOMAIN turnRows'[s] = 1..n /\ turnRows'[s][n] = r
          /\ \A i \in 1..Len(turnRows[s]) : turnRows'[s][i] = turnRows[s][i]
      BY <1>1, <1>5, AppendProperties
    <2>2. C = IF r.type = "business" THEN B \cup {n} ELSE B
      <3>1. n \in Nat /\ \A i : i \in 1..n <=> i \in 1..Len(turnRows[s]) \/ i = n
        BY <1>1
      <3>2. \A i \in 1..Len(turnRows[s]) : i # n
        BY <1>1
      <3>3. \A i : i \in B <=> i \in 1..Len(turnRows[s]) /\ turnRows[s][i].type = "business"
        BY <1>1
      <3>4. \A i : i \in C <=> i \in 1..n /\ turnRows'[s][i].type = "business"
        BY <2>1
      <3> HIDE DEF B, C, n
      <3>5. \A i : i \in C <=> i \in B \/ (i = n /\ r.type = "business")
        <4> SUFFICES ASSUME NEW i PROVE i \in C <=> i \in B \/ (i = n /\ r.type = "business")
          OBVIOUS
        <4>1. CASE i = n
          BY <2>1, <3>1, <3>2, <3>3, <3>4, <4>1
        <4>2. CASE i # n
          BY <2>1, <3>1, <3>3, <3>4, <4>2
        <4>3. QED
          BY <4>1, <4>2
      <3>6. QED
        BY <3>5
    <2>3. n \notin B
      BY <1>1
    <2> HIDE DEF B, C, n
    <2>4. Cardinality(C) = IF r.type = "business" THEN Cardinality(B) + 1 ELSE Cardinality(B)
      BY <1>2, <2>2, <2>3, FS_AddElement
    <2>5. QED
      BY <2>4 DEF BusinessRows, B, C
  <1>6. QED
    BY <1>3, <1>4, <1>5 DEF BusinessRows

(* A step of a worker touches its own session only. *)
Untouched(s) ==
  /\ turnRows'[s] = turnRows[s] /\ told'[s] = told[s] /\ context'[s] = context[s] /\ age'[s] = age[s]
  /\ s \in kept' => s \in kept
  /\ s \notin known' => s \notin known

LEMMA UntouchedCount ==
  ASSUME NEW s \in Sessions, Untouched(s)
  PROVE  /\ CountOf(s) => CountOf(s)'
         /\ \A w \in Workers : job'[w] = job[w] /\ job[w].s = s /\ backend' = backend =>
              (CountAt(w) => CountAt(w)')
         /\ \A c : Covers(s, c) => Covers(s, c)'
  <1>1. BusinessRows(s)' = BusinessRows(s) /\ (Rising(s)' <=> Rising(s))
    BY DEF Untouched, BusinessRows, Rising
  <1>2. \A n : RowsBelow(s, n)' <=> RowsBelow(s, n)
    BY DEF Untouched, RowsBelow
  <1>3. \A c : Told(s, c)' <=> Told(s, c)
    BY DEF Untouched, Told
  <1>4. \A c : Covers(s, c)' <=> Covers(s, c)
    BY <1>1, <1>2, <1>3 DEF Covers
  <1>5. CountOf(s) => CountOf(s)'
    BY <1>1, <1>4 DEF Untouched, CountOf
  <1>6. ASSUME NEW w \in Workers, job'[w] = job[w], job[w].s = s, backend' = backend, CountAt(w)
        PROVE  CountAt(w)'
    <2>1. Loaded(w)' = Loaded(w)
      BY <1>6 DEF Loaded, Untouched
    <2>2. QED
      BY <1>1, <1>2, <1>4, <1>6, <2>1 DEF CountAt, Untouched
  <1>7. QED
    BY <1>4, <1>5, <1>6

LEMMA OwnStep ==
  ASSUME LifeInv, callers = "serial", Counts, NEW w \in Workers, job[w].op # "idle",
         NEW s \in Sessions, s = Own(w), CountOf(s)', CountAt(w)',
         \A v \in Workers : v # w => job'[v] = job[v],
         \A t \in Sessions : t # s => Untouched(t), UNCHANGED backend
  PROVE  Counts'
  <1>1. Typed /\ Places /\ OneWorker
    BY DEF LifeInv, Rules
  <1>2. ASSUME NEW t \in Sessions PROVE CountOf(t)'
    <2>1. CountOf(t)
      BY DEF Counts
    <2>2. t # s => CountOf(t)'
      BY <2>1, UntouchedCount
    <2>3. QED
      BY <2>2
  <1>3. ASSUME NEW v \in Workers PROVE CountAt(v)'
    <2>1. CASE v = w
      BY <2>1
    <2>2. CASE v # w /\ job[v].op = "idle"
      <3>1. PlaceOf(v)
        BY <1>1 DEF Places
      <3>2. job[v].at # "save" /\ job[v].at # "insert"
        BY <2>2, <3>1, Zenon DEF PlaceOf
      <3>3. job'[v].at # "save" /\ job'[v].at # "insert"
        BY <2>2, <3>2
      <3>4. QED
        BY <3>3, Zenon DEF CountAt
    <2>3. CASE v # w /\ job[v].op # "idle"
      <3>1. job[v].s \in Sessions /\ job[v].s # s
        BY <1>1, <2>3 DEF Typed, JobsTyped, OneWorker, Own
      <3>2. QED
        BY <2>3, <3>1, UntouchedCount DEF Counts
    <2>4. QED
      BY <2>1, <2>2, <2>3
  <1>4. QED
    BY <1>2, <1>3 DEF Counts

(* A step that leaves the counts, the rows and the contexts alone. *)
LEMMA QuietStep ==
  ASSUME LifeInv, callers = "serial", Counts, NEW w \in Workers, job[w].op # "idle",
         \A v \in Workers : v # w => job'[v] = job[v],
         job'[w].at # "save", job'[w].at # "insert",
         \A s \in Sessions : Untouched(s), UNCHANGED backend
  PROVE  Counts'
  <1>1. Own(w) \in Sessions
    BY DEF LifeInv, Typed, JobsTyped, Own
  <1>2. PICK s \in Sessions : s = Own(w)
    BY <1>1
  <1>3. CountOf(s)
    BY DEF Counts
  <1>4. CountOf(s)'
    BY <1>3, UntouchedCount
  <1>5. CountAt(w)'
    BY Zenon DEF CountAt
  <1>6. QED
    BY <1>2, <1>4, <1>5, OwnStep

LEMMA RowNumbers ==
  ASSUME Typed, NEW s \in Sessions
  PROVE  /\ turnRows[s] \in Seq([number : Nat \ {0}, type : TurnTypes])
         /\ Len(turnRows[s]) \in Nat /\ DOMAIN turnRows[s] = 1..Len(turnRows[s])
         /\ \A i \in DOMAIN turnRows[s] : i \in Nat /\ turnRows[s][i].number \in Nat
  <1>1. /\ turnRows[s] \in Seq([number : Nat \ {0}, type : TurnTypes])
        /\ Len(turnRows[s]) \in Nat /\ DOMAIN turnRows[s] = 1..Len(turnRows[s])
    BY LenProperties DEF Typed, TypeOK
  <1>2. \A i \in DOMAIN turnRows[s] : turnRows[s][i] \in [number : Nat \ {0}, type : TurnTypes]
    BY <1>1, ElementOfSeq
  <1>3. QED
    BY <1>1, <1>2

LEMMA NotAt == Idle.at # "save" /\ Idle.at # "insert"
  BY IdleJob, Zenon

(* A worker whose call is at a point has a call. *)
LEMMA AtWork ==
  ASSUME LifeInv, NEW w \in Workers, job[w].at \in {"save", "insert", "update", "delete"}
  PROVE  job[w].op # "idle" /\ Own(w) \in Sessions
  <1>1. PlaceOf(w) /\ Typed
    BY DEF LifeInv, Rules, Places
  <1>2. "save" # "" /\ "insert" # "" /\ "update" # "" /\ "delete" # ""
    BY Zenon
  <1>3. job[w].op # "idle"
    BY <1>1, <1>2, Zenon DEF PlaceOf
  <1>4. QED
    BY <1>1, <1>3 DEF Typed, JobsTyped, Own

(* What a call that is under way does to the counts, whether it then returns or   *)
(* raises.                                                                        *)
Quiet(w) ==
  /\ job[w].at \in {"save", "insert", "update", "delete"} /\ Return(w) /\ UnchangedStore
  /\ UNCHANGED <<backend, age, turnRows, told>> /\ known \subseteq known'
Saved(w) ==
  /\ job[w].at = "save" /\ Save(job[w].s, Change(job[w].op, Loaded(w)))
  /\ Return(w) \/ (job[w].op \in TurnTypes /\ Step(w, "insert"))
  /\ UNCHANGED <<backend, age, turnRows, known, told>>
Recorded(w) ==
  /\ job[w].at = "insert" /\ job[w].op \in TurnTypes /\ AddRow(w) /\ Return(w) /\ UnchangedStore
  /\ UNCHANGED <<backend, age, known, told>>
Deleted(w) ==
  /\ job[w].at = "delete" /\ Drop({job[w].s}, Busy(job[w].s) \ {w}) /\ Return(w)
  /\ UNCHANGED <<backend, age, turnRows, known, told>>

LEMMA CallSteps ==
  ASSUME LifeInv, NEW w \in Workers
  PROVE  /\ InsertSession(w) \/ UpdateFails(w) => Quiet(w)
         /\ SaveChange(w) \/ SaveFails(w) => Quiet(w) \/ Saved(w)
         /\ InsertTurn(w) \/ InsertFails(w) => Quiet(w) \/ Recorded(w)
         /\ Delete(w) \/ DeleteFails(w) => Quiet(w) \/ Deleted(w)
  <1>1. job[w].op = "create" => job[w].at = "insert"
    BY DEF LifeInv, Rules, Places, PlaceOf
  <1>2. InsertSession(w) \/ UpdateFails(w) => Quiet(w)
    BY <1>1 DEF InsertSession, UpdateFails, Quiet, UnchangedStore
  <1>3. SaveChange(w) \/ SaveFails(w) => Quiet(w) \/ Saved(w)
    BY Zenon DEF SaveChange, SaveFails, Quiet, Saved, UnchangedStore
  <1>4. InsertTurn(w) \/ InsertFails(w) => Quiet(w) \/ Recorded(w)
    BY Zenon DEF InsertTurn, InsertFails, Quiet, Recorded, UnchangedStore
  <1>5. Delete(w) \/ DeleteFails(w) => Quiet(w) \/ Deleted(w)
    BY Zenon DEF Delete, DeleteFails, Quiet, Deleted, UnchangedStore
  <1>6. QED
    BY <1>2, <1>3, <1>4, <1>5

LEMMA CountStep == LifeInv /\ CountInv /\ [Next]_vars => CountInv'
  <1> SUFFICES ASSUME LifeInv, CountInv, [Next]_vars, callers' = "serial" PROVE Counts'
    BY DEF CountInv
  <1>0. /\ Typed /\ Places /\ Creators /\ RowFirst
        /\ \A w \in Workers : PlaceOf(w)
    BY DEF LifeInv, Rules, Places
  <1>10. callers = "serial" /\ Counts /\ OneWorker
    <2>1. callers' = callers
      BY Zenon DEF Next, vars, Create, InsertSession, Begin, SaveChange, SaveFails, InsertTurn, InsertFails,
             UpdateSession, UpdateFails, Delete, DeleteFails, CheckLimits, Tick, Crash
    <2>2. QED
      BY <2>1 DEF CountInv, LifeInv, Rules
  <1>1. ASSUME NEW w \in Workers, Quiet(w) PROVE Counts'
    <2>1. Return(w) /\ TakesJob(w, Idle)
      BY <1>0, <1>1, JobSteps DEF Quiet
    <2>2. job[w].op # "idle"
      BY <1>1, AtWork DEF Quiet
    <2>3. job'[w] = Idle /\ \A v \in Workers : v # w => job'[v] = job[v]
      BY <1>0, <2>1, OneJob
    <2>4. UNCHANGED <<backend, turnRows, told, kept, context, age>> /\ known \subseteq known'
      BY <1>1 DEF Quiet, UnchangedStore
    <2>5. \A s \in Sessions : Untouched(s)
      BY <2>4 DEF Untouched
    <2>6. QED
      BY <1>10, <2>2, <2>3, <2>4, <2>5, NotAt, QuietStep
  <1>2. ASSUME NEW w \in Workers, UpdateSession(w) PROVE Counts'
    <2> DEFINE j == [job[w] EXCEPT !.at = "delete"]
    <2>1. TakesJob(w, j) /\ j.at = "delete"
      <3>1. "delete" \in Points
        BY Zenon DEF Points
      <3>2. QED
        BY <1>0, <1>2, <3>1, JobSteps DEF UpdateSession
    <2> HIDE DEF j
    <2>2. job[w].op # "idle"
      BY <1>2, AtWork DEF UpdateSession
    <2>3. job'[w].at = "delete" /\ \A v \in Workers : v # w => job'[v] = job[v]
      BY <1>0, <2>1, OneJob
    <2>4. \A s \in Sessions : Untouched(s)
      BY <1>2 DEF UpdateSession, UnchangedStore, Untouched
    <2>5. QED
      BY <1>2, <1>10, <2>2, <2>3, <2>4, QuietStep DEF UpdateSession
  <1>3. ASSUME NEW w \in Workers, Deleted(w) PROVE Counts'
    <2>1. Return(w) /\ TakesJob(w, Idle)
      BY <1>0, <1>3, JobSteps DEF Deleted
    <2>2. job[w].op # "idle" /\ Own(w) \in Sessions
      BY <1>3, AtWork DEF Deleted
    <2>3. job'[w] = Idle /\ \A v \in Workers : v # w => job'[v] = job[v]
      BY <1>0, <2>1, OneJob
    <2>4. PICK s \in Sessions : s = Own(w)
      BY <2>2
    <2>5. \A t \in Sessions : t # s => Untouched(t)
      BY <1>3, <2>4 DEF Deleted, Drop, Untouched, Own
    <2>6. CountOf(s)'
      <3>1. s \notin kept' /\ UNCHANGED <<turnRows, told, known>>
        BY <1>3, <2>4 DEF Deleted, Drop, Own
      <3>2. Rising(s) /\ (s \notin known => told[s] = "fine")
        BY <1>10 DEF Counts, CountOf
      <3>3. QED
        BY <3>1, <3>2 DEF CountOf, Rising
    <2>7. CountAt(w)'
      BY <2>3, IdleCounts
    <2>8. QED
      BY <1>3, <1>10, <2>2, <2>3, <2>4, <2>5, <2>6, <2>7, OwnStep DEF Deleted
  <1>4. ASSUME NEW w \in Workers, Saved(w) PROVE Counts'
    <2>0. /\ job[w].op # "idle" /\ Own(w) \in Sessions
          /\ job[w].op \in {"business", "system", "field"}
      <3>1. job[w].at = "save"
        BY <1>4 DEF Saved
      <3>2. job[w].op \in {"business", "system", "field"}
        BY <1>0, <3>1, Zenon DEF PlaceOf
      <3>3. QED
        BY <3>1, <3>2, AtWork
    <2>1. PICK s \in Sessions : s = Own(w)
      BY <2>0
    <2>15. Loaded(w) \in Contexts /\ Change(job[w].op, Loaded(w)) \in Contexts
      <3>1. job[w].copy \in Contexts /\ context[Own(w)] \in Contexts
        BY <1>0, <2>0 DEF Typed, TypeOK
      <3>2. QED
        BY <1>0, <2>0, <3>1, ChangeTyped DEF Loaded, Own
    <2>16. PICK c \in Contexts : c = Loaded(w)
      BY <2>15
    <2>3. PICK d \in Contexts : d = Change(job[w].op, c)
      BY <2>15, <2>16
    <2>2. Covers(s, c) /\ job[w].number = Len(c.turns) + 1
      BY <1>4, <1>10, <2>1, <2>16 DEF Saved, Counts, CountAt, Own
    <2>4. /\ c.business \in Nat /\ d.business \in Nat /\ Len(c.turns) \in Nat /\ Len(d.turns) \in Nat
          /\ d.business >= c.business /\ Len(d.turns) >= Len(c.turns)
          /\ job[w].op \in TurnTypes => Len(d.turns) = Len(c.turns) + 1
          /\ job[w].op = "business" => d.business = c.business + 1
      <3>1. c.turns \in Seq(TurnTypes) /\ c.business \in Nat /\ Len(c.turns) \in Nat
        BY LenProperties DEF Contexts
      <3>2. CASE job[w].op = "field"
        BY <2>3, <3>1, <3>2 DEF Change, TurnTypes
      <3>3. CASE job[w].op \in TurnTypes
        <4>1. /\ d.turns = Append(c.turns, job[w].op)
              /\ d.business = IF job[w].op = "business" THEN c.business + 1 ELSE c.business
          BY <2>3, <3>3 DEF Change, TurnTypes
        <4>2. Len(d.turns) = Len(c.turns) + 1
          BY <3>1, <3>3, <4>1, AppendProperties
        <4>3. QED
          BY <3>1, <4>1, <4>2
      <3>4. QED
        BY <2>0, <3>2, <3>3 DEF TurnTypes
    <2>5. /\ context'[s] = d /\ s \in kept' /\ UNCHANGED <<backend, turnRows, told, known, age>>
          /\ \A t \in Sessions : t # s => context'[t] = context[t] /\ (t \in kept' => t \in kept)
      BY <1>0, <1>4, <2>1, <2>3, <2>16 DEF Saved, Save, Typed, TypeOK, Own
    <2>6. Covers(s, d)
      <3>1. BusinessRows(s) <= d.business
        BY <1>0, <2>1, <2>2, <2>4, RowCount DEF Covers
      <3>2. RowsBelow(s, Len(d.turns) + 1)
        <4>1. \A i \in DOMAIN turnRows[s] : turnRows[s][i].number \in Nat
          BY <1>0, RowNumbers
        <4>2. QED
          BY <2>2, <2>4, <4>1 DEF Covers, RowsBelow
      <3>3. Told(s, d)
        <4>1. MaxBusinessTurns \in Nat /\ WarningTurns \in Nat
          BY SessionAssumption
        <4>2. /\ LimitReached(c, age[s]) => LimitReached(d, age[s])
              /\ WarningNeeded(c, age[s]) => WarningNeeded(d, age[s])
          BY <2>4, <4>1 DEF LimitReached, WarningNeeded
        <4>3. QED
          BY <2>2, <4>2 DEF Covers, Told
      <3>4. QED
        BY <3>1, <3>2, <3>3 DEF Covers
    <2>7. \A t \in Sessions : t # s => Untouched(t)
      BY <2>5 DEF Untouched
    <2>8. BusinessRows(s)' = BusinessRows(s) /\ (Rising(s)' <=> Rising(s)) /\ (Covers(s, d)' <=> Covers(s, d))
      BY <2>5 DEF BusinessRows, Rising, Covers, RowsBelow, Told
    <2>9. CountOf(s)'
      <3>1. Rising(s) /\ (s \notin known => told[s] = "fine")
        BY <1>10 DEF Counts, CountOf
      <3>2. QED
        BY <2>5, <2>6, <2>8, <3>1 DEF CountOf
    <2>11. PICK j : /\ TakesJob(w, j)
                   /\ \/ j = Idle
                      \/ /\ job[w].op \in TurnTypes /\ j.op = job[w].op /\ j.s = s /\ j.at = "insert"
                         /\ j.number = job[w].number
      <3>1. CASE job[w].op \in TurnTypes /\ Step(w, "insert")
        <4> DEFINE j == [job[w] EXCEPT !.at = "insert"]
        <4>1. TakesJob(w, j) /\ j.op = job[w].op /\ j.s = s /\ j.at = "insert"
          <5>1. "insert" \in Points
            BY Zenon DEF Points
          <5>2. QED
            BY <1>0, <2>1, <3>1, <5>1, JobSteps DEF Own
        <4>2. j.number = job[w].number
          BY <1>0, Zenon DEF Typed, JobsTyped, Jobs
        <4>3. QED
          BY <3>1, <4>1, <4>2
      <3>2. CASE Return(w)
        BY <1>0, <3>2, JobSteps
      <3>3. QED
        BY <1>4, <3>1, <3>2 DEF Saved
    <2>12. job'[w] = j /\ \A v \in Workers : v # w => job'[v] = job[v]
      BY <1>0, <2>11, OneJob
    <2>13. CountAt(w)'
      <3>1. CASE j = Idle
        BY <2>12, <3>1, IdleCounts
      <3>2. CASE job[w].op \in TurnTypes /\ j.op = job[w].op /\ j.s = s /\ j.at = "insert"
                 /\ j.number = job[w].number
        <4>1. \A n : RowsBelow(s, n)' <=> RowsBelow(s, n)
          BY <2>5 DEF RowsBelow
        <4>2. job[w].number <= Len(d.turns)
          BY <2>2, <2>4, <3>2
        <4>3. job[w].op = "business" => BusinessRows(s) < d.business
          BY <1>0, <2>1, <2>2, <2>4, RowCount DEF Covers
        <4>4. QED
          BY <2>2, <2>5, <2>8, <2>12, <3>2, <4>1, <4>2, <4>3 DEF CountAt, Covers
      <3>3. QED
        BY <2>11, <3>1, <3>2
    <2>14. QED
      BY <1>10, <2>0, <2>1, <2>5, <2>7, <2>9, <2>12, <2>13, OwnStep
  <1>5. ASSUME NEW w \in Workers, Recorded(w) PROVE Counts'
    <2>0. job[w].op # "idle" /\ Own(w) \in Sessions
      BY <1>5, AtWork DEF Recorded
    <2>1. PICK s \in Sessions : s = Own(w)
      BY <2>0
    <2>13. PICK r \in [number : Nat \ {0}, type : TurnTypes] : r = [number |-> job[w].number, type |-> job[w].op]
      <3>1. [number |-> job[w].number, type |-> job[w].op] \in [number : Nat \ {0}, type : TurnTypes]
        <4>1. job[w].op \in TurnTypes
          BY <1>5 DEF Recorded
        <4>2. job[w].number \in Nat
          BY <1>0, Zenon DEF Typed, JobsTyped, Jobs
        <4>3. job[w].number # 0
          BY <1>0, <4>1 DEF Typed, JobsTyped
        <4>4. QED
          BY <4>1, <4>2, <4>3
      <3>2. QED
        BY <3>1
    <2>2. Return(w) /\ TakesJob(w, Idle)
      BY <1>0, <1>5, JobSteps DEF Recorded
    <2>3. job'[w] = Idle /\ \A v \in Workers : v # w => job'[v] = job[v]
      BY <1>0, <2>2, OneJob
    <2>4. /\ turnRows'[s] = Append(turnRows[s], r) /\ UNCHANGED <<backend, kept, context, told, known, age>>
          /\ \A t \in Sessions : t # s => turnRows'[t] = turnRows[t]
      BY <1>0, <1>5, <2>1, <2>13 DEF Recorded, AddRow, UnchangedStore, Typed, Own
    <2>5. /\ RowsBelow(s, job[w].number)
          /\ s \in kept => /\ job[w].number <= Len(context[s].turns)
                           /\ job[w].op = "business" => BusinessRows(s) < context[s].business
      BY <1>5, <1>10, <2>1 DEF Recorded, Counts, CountAt, Own
    <2>6. /\ \A i \in DOMAIN turnRows[s] : i \in Nat /\ turnRows[s][i].number \in Nat
          /\ turnRows[s] \in Seq([number : Nat \ {0}, type : TurnTypes])
          /\ Len(turnRows[s]) \in Nat /\ DOMAIN turnRows[s] = 1..Len(turnRows[s])
      BY <1>0, RowNumbers
    <2>7. r.number = job[w].number /\ r.type = job[w].op /\ r.number \in Nat
      BY <2>13
    <2>8. /\ DOMAIN turnRows'[s] = 1..(Len(turnRows[s]) + 1)
          /\ \A i \in 1..Len(turnRows[s]) : turnRows'[s][i] = turnRows[s][i]
          /\ turnRows'[s][Len(turnRows[s]) + 1] = r
      BY <2>4, <2>6, AppendProperties
    <2>9. CountOf(s)'
      <3>1. CountOf(s)
        BY <1>10 DEF Counts
      <3>2. Rising(s)'
        <4> SUFFICES ASSUME NEW i \in DOMAIN turnRows'[s], NEW k \in DOMAIN turnRows'[s], i < k
                     PROVE  turnRows'[s][i].number < turnRows'[s][k].number
          BY DEF Rising
        <4>1. i \in 1..Len(turnRows[s])
          BY <2>6, <2>8
        <4>2. CASE k = Len(turnRows[s]) + 1
          BY <2>5, <2>6, <2>7, <2>8, <4>1, <4>2 DEF RowsBelow
        <4>3. CASE k # Len(turnRows[s]) + 1
          <5>1. k \in 1..Len(turnRows[s])
            BY <2>6, <2>8, <4>3
          <5>2. QED
            BY <2>6, <2>8, <3>1, <4>1, <5>1 DEF CountOf, Rising
        <4>4. QED
          BY <4>2, <4>3
      <3>3. ASSUME s \in kept PROVE Covers(s, context[s])'
        <4>1. Len(context[s].turns) \in Nat /\ context[s].business \in Nat
          BY <1>0, <2>1, LenProperties DEF Typed, TypeOK, Contexts
        <4>2. BusinessRows(s)' <= context[s].business
          BY <1>0, <2>4, <2>5, <2>7, <3>1, <3>3, <4>1, RowCount DEF CountOf, Covers
        <4>3. RowsBelow(s, Len(context[s].turns) + 1)'
          <5> SUFFICES ASSUME NEW i \in DOMAIN turnRows'[s]
                       PROVE  turnRows'[s][i].number < Len(context[s].turns) + 1
            BY <2>4 DEF RowsBelow
          <5>1. CASE i = Len(turnRows[s]) + 1
            BY <2>5, <2>7, <2>8, <3>3, <4>1, <5>1
          <5>2. CASE i # Len(turnRows[s]) + 1
            <6>1. i \in 1..Len(turnRows[s])
              BY <2>6, <2>8, <5>2
            <6>2. QED
              BY <2>6, <2>8, <3>1, <3>3, <6>1 DEF CountOf, Covers, RowsBelow
          <5>3. QED
            BY <5>1, <5>2
        <4>4. Told(s, context[s])'
          BY <2>4, <3>1, <3>3 DEF CountOf, Covers, Told
        <4>5. QED
          BY <2>4, <4>2, <4>3, <4>4 DEF Covers
      <3>4. QED
        BY <2>4, <3>1, <3>2, <3>3 DEF CountOf
    <2>10. \A t \in Sessions : t # s => Untouched(t)
      BY <2>4 DEF Untouched
    <2>11. CountAt(w)'
      BY <2>3, IdleCounts
    <2>12. QED
      BY <1>10, <2>0, <2>1, <2>3, <2>4, <2>9, <2>10, <2>11, OwnStep
  <1>6. ASSUME NEW w \in Workers, Create(w) PROVE Counts'
    <2>1. PICK s \in Sessions :
             /\ s \notin known /\ s \notin kept /\ row[s] = "none" /\ Busy(s) = {}
             /\ job' = [job EXCEPT ![w] = [Idle EXCEPT !.op = "create", !.at = "insert", !.s = s]]
             /\ Save(s, NewContext)
             /\ age' = [age EXCEPT ![s] = 0]
      BY <1>6, Zenon DEF Create
    <2> DEFINE j == [Idle EXCEPT !.op = "create", !.at = "insert", !.s = s]
    <2>2. /\ job'[w].op = "create" /\ job'[w].at = "insert"
          /\ \A v \in Workers : v # w => job'[v] = job[v]
      BY <1>0, <2>1 DEF Typed, JobsTyped, Idle
    <2> HIDE DEF j
    <2>3. UNCHANGED <<backend, turnRows, told, known>>
      BY <1>6 DEF Create
    <2>4. /\ context'[s] = NewContext
          /\ \A t \in Sessions : t # s => /\ context'[t] = context[t] /\ age'[t] = age[t]
                                         /\ (t \in kept' => t \in kept)
      BY <1>0, <2>1 DEF Save, Typed, TypeOK
    <2>5. \A t \in Sessions : t # s => Untouched(t)
      BY <2>3, <2>4 DEF Untouched
    <2>6. CountOf(s)'
      <3>1. turnRows[s] = <<>> /\ told[s] = "fine"
        BY <1>0, <1>10, <2>1 DEF RowFirst, Counts, CountOf
      <3>2. Covers(s, NewContext)
        <4>1. BusinessRows(s) = 0 /\ NewContext.business = 0
          BY <1>0, <3>1, RowCount DEF NewContext
        <4>2. QED
          BY <3>1, <4>1 DEF Covers, RowsBelow, Told
      <3>3. BusinessRows(s)' = BusinessRows(s) /\ (\A n : RowsBelow(s, n)' <=> RowsBelow(s, n))
        BY <2>3 DEF BusinessRows, RowsBelow
      <3>4. Covers(s, NewContext)'
        BY <2>3, <3>1, <3>2, <3>3 DEF Covers, Told, NewContext
      <3>5. QED
        BY <2>3, <2>4, <3>1, <3>4 DEF CountOf, Rising
    <2>7. ASSUME NEW t \in Sessions PROVE CountOf(t)'
      <3>1. t # s => CountOf(t)'
        BY <1>10, <2>5, UntouchedCount DEF Counts
      <3>2. QED
        BY <2>6, <3>1
    <2>8. ASSUME NEW v \in Workers PROVE CountAt(v)'
      <3>1. CASE v = w
        BY <2>2, <3>1 DEF CountAt, TurnTypes
      <3>2. CASE v # w /\ job[v].op = "idle"
        <4>1. job[v].at # "save" /\ job[v].at # "insert"
          BY <1>0, <3>2, Zenon DEF PlaceOf
        <4>2. job'[v].at # "save" /\ job'[v].at # "insert"
          BY <2>2, <3>2, <4>1
        <4>3. QED
          BY <4>2, Zenon DEF CountAt
      <3>3. CASE v # w /\ job[v].op # "idle"
        <4>1. job[v].s \in Sessions /\ job[v].s # s
          BY <1>0, <2>1, <3>3 DEF Typed, JobsTyped, Busy
        <4>2. job'[v] = job[v] /\ CountAt(v) /\ Untouched(job[v].s)
          BY <1>10, <2>2, <2>5, <3>3, <4>1 DEF Counts
        <4>3. QED
          BY <2>3, <4>1, <4>2, UntouchedCount
      <3>4. QED
        BY <3>1, <3>2, <3>3
    <2>9. QED
      BY <2>7, <2>8 DEF Counts
  <1>7. ASSUME NEW w \in Workers, NEW s \in Sessions, NEW op \in Ops \ {"create"}, Begin(w, s, op)
        PROVE  Counts'
    <2> DEFINE j == [op |-> op, at |-> IF op = "end" THEN "update" ELSE "save", s |-> s,
                     copy |-> IF backend = "redis" THEN context[s] ELSE NewContext,
                     number |-> Len(context[s].turns) + 1]
    <2>1. /\ job' = [job EXCEPT ![w] = j] /\ s \in kept
          /\ UNCHANGED <<backend, kept, context, age, turnRows, told, known>>
      BY <1>7 DEF Begin, Load, UnchangedStore
    <2>2. j.s = s /\ j.at \in {"update", "save"} /\ j.number = Len(context[s].turns) + 1
          /\ (backend = "redis" => j.copy = context[s])
      OBVIOUS
    <2> HIDE DEF j
    <2>3. job'[w] = j /\ \A v \in Workers : v # w => job'[v] = job[v]
      BY <1>0, <2>1 DEF Typed, JobsTyped
    <2>4. \A t \in Sessions : Untouched(t)
      BY <2>1 DEF Untouched
    <2>5. ASSUME NEW t \in Sessions PROVE CountOf(t)'
      BY <1>10, <2>4, UntouchedCount DEF Counts
    <2>6. ASSUME NEW v \in Workers PROVE CountAt(v)'
      <3>1. CASE v = w
        <4>1. job'[v].at # "insert" /\ job'[v].s = s
          BY <2>2, <2>3, <3>1
        <4>2. Loaded(v)' = context[s]
          BY <2>1, <2>2, <2>3, <3>1 DEF Loaded
        <4>3. Covers(s, context[s])
          BY <1>10, <2>1 DEF Counts, CountOf
        <4>4. \A c : Covers(s, c) => Covers(s, c)'
          BY <2>4, UntouchedCount
        <4>5. PICK c : c = context[s]
          OBVIOUS
        <4>6. Covers(s, c)' /\ Loaded(v)' = c /\ job'[v].number = Len(c.turns) + 1
          BY <2>2, <2>3, <3>1, <4>2, <4>3, <4>4, <4>5
        <4>7. QED
          BY <4>1, <4>6 DEF CountAt
      <3>2. CASE v # w /\ job[v].op = "idle"
        <4>1. job[v].at # "save" /\ job[v].at # "insert"
          BY <1>0, <3>2, Zenon DEF PlaceOf
        <4>2. job'[v].at # "save" /\ job'[v].at # "insert"
          BY <2>3, <3>2, <4>1
        <4>3. QED
          BY <4>2, Zenon DEF CountAt
      <3>3. CASE v # w /\ job[v].op # "idle"
        <4>1. job[v].s \in Sessions
          BY <1>0, <3>3 DEF Typed, JobsTyped
        <4>2. QED
          BY <1>10, <2>1, <2>3, <2>4, <3>3, <4>1, UntouchedCount DEF Counts
      <3>4. QED
        BY <3>1, <3>2, <3>3
    <2>7. QED
      BY <2>5, <2>6 DEF Counts
  <1>8. ASSUME NEW s \in Sessions, CheckLimits(s) PROVE Counts'
    <2>1. /\ UNCHANGED <<backend, kept, context, age, turnRows, known, job>> /\ s \in known
          /\ \A v \in Workers : job[v].op # "idle" => job[v].s # s
          /\ \A t \in Sessions : t # s => told'[t] = told[t]
      BY <1>0, <1>8 DEF CheckLimits, UnchangedStore, Typed, TypeOK, Busy
    <2>2. \A t \in Sessions : t # s => Untouched(t)
      BY <2>1 DEF Untouched
    <2>3. CountOf(s)'
      <3>1. told'[s] = IF LimitReached(context[s], age[s]) THEN "reached"
                       ELSE IF WarningNeeded(context[s], age[s]) THEN "warned" ELSE "fine"
        BY <1>0, <1>8 DEF CheckLimits, Typed, TypeOK
      <3>2. Told(s, context[s])'
        <4>1. /\ LimitReached(context[s], age[s])' <=> LimitReached(context[s], age[s])
              /\ WarningNeeded(context[s], age[s])' <=> WarningNeeded(context[s], age[s])
          BY <2>1 DEF LimitReached, WarningNeeded
        <4>2. QED
          BY <2>1, <3>1, <4>1 DEF Told
      <3>3. BusinessRows(s)' = BusinessRows(s) /\ (Rising(s)' <=> Rising(s))
            /\ (\A n : RowsBelow(s, n)' <=> RowsBelow(s, n))
        BY <2>1 DEF BusinessRows, Rising, RowsBelow
      <3>4. QED
        BY <1>10, <2>1, <3>2, <3>3 DEF Counts, CountOf, Covers
    <2>4. ASSUME NEW t \in Sessions PROVE CountOf(t)'
      <3>1. t # s => CountOf(t)'
        BY <1>10, <2>2, UntouchedCount DEF Counts
      <3>2. QED
        BY <2>3, <3>1
    <2>5. ASSUME NEW v \in Workers PROVE CountAt(v)'
      <3>1. CASE job[v].op = "idle"
        <4>1. job'[v].at # "save" /\ job'[v].at # "insert"
          BY <1>0, <2>1, <3>1, Zenon DEF PlaceOf
        <4>2. QED
          BY <4>1, Zenon DEF CountAt
      <3>2. CASE job[v].op # "idle"
        <4>1. job[v].s \in Sessions /\ job[v].s # s
          BY <1>0, <2>1, <3>2 DEF Typed, JobsTyped
        <4>2. QED
          BY <1>10, <2>1, <2>2, <4>1, UntouchedCount DEF Counts
      <3>3. QED
        BY <3>1, <3>2
    <2>6. QED
      BY <2>4, <2>5 DEF Counts
  <1>9. CASE Tick
    <2>1. /\ UNCHANGED <<backend, turnRows, told, known, job>> /\ kept' \subseteq kept
          /\ \A s \in Sessions : s \in kept' \/ backend # "redis" => context'[s] = context[s]
      BY <1>0, <1>9 DEF Tick, Dropped, Typed, TypeOK
    <2>2. \A s \in Sessions : age[s] \in Nat /\ age'[s] \in Nat /\ age[s] <= age'[s]
      <3>1. MaxMinutes \in Nat
        BY SessionAssumption
      <3>2. \A s \in Sessions : age[s] \in 0..MaxMinutes /\ age'[s] = IF age[s] < MaxMinutes THEN age[s] + 1 ELSE age[s]
        BY <1>0, <1>9 DEF Tick, Typed, TypeOK
      <3>3. QED
        BY <3>1, <3>2
    <2>3. ASSUME NEW s \in Sessions, NEW c, Covers(s, c) PROVE Covers(s, c)'
      <3>1. MaxMinutes \in Nat /\ WarningMinutes \in Nat
        BY SessionAssumption
      <3>2. /\ LimitReached(c, age[s]) => LimitReached(c, age'[s])
            /\ WarningNeeded(c, age[s]) => WarningNeeded(c, age'[s])
        BY <2>2, <3>1 DEF LimitReached, WarningNeeded
      <3>3. BusinessRows(s)' = BusinessRows(s) /\ (\A n : RowsBelow(s, n)' <=> RowsBelow(s, n))
        BY <2>1 DEF BusinessRows, RowsBelow
      <3>4. QED
        BY <2>1, <2>3, <3>2, <3>3 DEF Covers, Told
    <2>4. ASSUME NEW s \in Sessions PROVE CountOf(s)'
      <3>1. CountOf(s)
        BY <1>10 DEF Counts
      <3>2. ASSUME s \in kept' PROVE Covers(s, context[s])'
        <4>1. PICK c : c = context[s] /\ c = context'[s]
          BY <2>1, <3>2
        <4>2. Covers(s, c)
          BY <2>1, <3>1, <3>2, <4>1 DEF CountOf
        <4>3. QED
          BY <2>3, <4>1, <4>2
      <3>3. QED
        BY <2>1, <3>1, <3>2 DEF CountOf, Rising
    <2>5. ASSUME NEW w \in Workers PROVE CountAt(w)'
      <3>1. CountAt(w) /\ job'[w] = job[w]
        BY <1>10, <2>1 DEF Counts
      <3>2. ASSUME job[w].at = "save"
            PROVE  Covers(job[w].s, Loaded(w))' /\ (job[w].number = Len(Loaded(w).turns) + 1)'
        <4>1. PICK s \in Sessions : s = job[w].s
          BY <3>2, AtWork DEF Own
        <4>2. PICK c : c = Loaded(w) /\ c = Loaded(w)'
          BY <2>1, <4>1 DEF Loaded
        <4>3. Covers(s, c) /\ job[w].number = Len(c.turns) + 1
          BY <3>1, <3>2, <4>1, <4>2 DEF CountAt
        <4>4. QED
          BY <2>3, <3>1, <4>1, <4>2, <4>3
      <3>3. ASSUME job[w].at = "insert", job[w].op \in TurnTypes
            PROVE  /\ RowsBelow(job[w].s, job[w].number)'
                   /\ job[w].s \in kept' =>
                        /\ job[w].number <= Len(context'[job[w].s].turns)
                        /\ job[w].op = "business" => BusinessRows(job[w].s)' < context'[job[w].s].business
        <4>1. job[w].s \in Sessions
          BY <3>3, AtWork DEF Own
        <4>2. RowsBelow(job[w].s, job[w].number)' <=> RowsBelow(job[w].s, job[w].number)
          BY <2>1, <3>1 DEF RowsBelow
        <4>3. BusinessRows(job[w].s)' = BusinessRows(job[w].s)
          BY <2>1, <3>1 DEF BusinessRows
        <4>4. QED
          BY <2>1, <3>1, <3>3, <4>1, <4>2, <4>3 DEF CountAt
      <3>4. QED
        BY <3>1, <3>2, <3>3 DEF CountAt
    <2>6. QED
      BY <2>4, <2>5 DEF Counts
  <1>11. CASE Crash
    <2>1. /\ \A w \in Workers : job'[w] = Idle
          /\ UNCHANGED <<turnRows, told, known, age>> /\ kept' \subseteq kept
          /\ \A s \in kept' : context'[s] = context[s]
      BY <1>0, <1>11 DEF Crash, UnchangedStore, Drop, Typed, TypeOK
    <2>2. \A w \in Workers : CountAt(w)'
      BY <2>1, IdleCounts
    <2>3. ASSUME NEW s \in Sessions PROVE CountOf(s)'
      <3>1. CountOf(s)
        BY <1>10 DEF Counts
      <3>2. /\ BusinessRows(s)' = BusinessRows(s) /\ (Rising(s)' <=> Rising(s))
            /\ \A n : RowsBelow(s, n)' <=> RowsBelow(s, n)
            /\ \A c : Told(s, c)' <=> Told(s, c)
        BY <2>1 DEF BusinessRows, Rising, RowsBelow, Told
      <3>3. QED
        BY <2>1, <3>1, <3>2 DEF CountOf, Covers
    <2>4. QED
      BY <2>2, <2>3 DEF Counts
  <1>12. CASE UNCHANGED vars
    <2>1. /\ \A s \in Sessions : Untouched(s)
          /\ UNCHANGED <<backend, job>>
      BY <1>12 DEF vars, Untouched
    <2>2. \A s \in Sessions : CountOf(s)'
      BY <1>10, <2>1, UntouchedCount DEF Counts
    <2>3. ASSUME NEW w \in Workers PROVE CountAt(w)'
      <3>1. CASE job[w].op = "idle"
        <4>1. job'[w].at # "save" /\ job'[w].at # "insert"
          BY <1>0, <2>1, <3>1, Zenon DEF PlaceOf
        <4>2. QED
          BY <4>1, Zenon DEF CountAt
      <3>2. CASE job[w].op # "idle"
        <4>1. job[w].s \in Sessions
          BY <1>0, <3>2 DEF Typed, JobsTyped
        <4>2. QED
          BY <1>10, <2>1, <4>1, UntouchedCount DEF Counts
      <3>3. QED
        BY <3>1, <3>2
    <2>4. QED
      BY <2>2, <2>3 DEF Counts
  <1>13. QED
    BY <1>1, <1>2, <1>3, <1>4, <1>5, <1>6, <1>7, <1>8, <1>9, <1>11, <1>12, CallSteps DEF Next

LEMMA CountAlways == Spec => [](LifeInv /\ CountInv)
  <1>1. LifeInv /\ [Next]_vars => LifeInv'
    BY TypedStep, RulesStep DEF LifeInv, Rules
  <1>2. QED
    BY <1>1, LifeInit, CountInit, CountStep, PTL DEF Spec

(* SerialCountsTurns (update_turn): with one call at a time every business turn   *)
(* that has its row is counted in the stored context, and the numbers of the rows *)
(* rise, whatever fails, expires or crashes.                                      *)
THEOREM SerialTurnsAreCounted == Spec => []SerialCountsTurns
  <1>1. LifeInv /\ CountInv => SerialCountsTurns
    <2> SUFFICES ASSUME LifeInv, Counts, callers = "serial"
                 PROVE  EveryTurnCounted /\ \A s \in Sessions : Rising(s)
      BY DEF CountInv, SerialCountsTurns, Rising
    <2>1. kept \subseteq Sessions
      BY DEF LifeInv, Typed, TypeOK
    <2>2. QED
      BY <2>1 DEF Counts, CountOf, Covers, EveryTurnCounted
  <1>2. QED
    BY <1>1, CountAlways, PTL

(* LimitStays (check_limits): a session that was told of its limit, or warned,    *)
(* is never told afterwards that it has time or turns left again.                 *)
THEOREM LimitsStay == Spec => LimitStays
  <1>1. LifeInv /\ CountInv /\ [Next]_vars => [\A s \in Sessions : Rank(told[s]) <= Rank(told'[s])]_vars
    <2> SUFFICES ASSUME LifeInv, CountInv, [Next]_vars, NEW s \in Sessions
                 PROVE  Rank(told[s]) <= Rank(told'[s])
      OBVIOUS
    <2>1. told \in [Sessions -> {"fine", "warned", "reached"}] /\ Rank(told[s]) \in Nat
      BY DEF LifeInv, Typed, TypeOK, Rank
    <2>2. CASE told' = told
      BY <2>1, <2>2
    <2>3. ASSUME NEW t \in Sessions, CheckLimits(t) PROVE Rank(told[s]) <= Rank(told'[s])
      <3>1. CASE s = t
        <4>1. Told(s, context[s]) /\ told'[s] = IF LimitReached(context[s], age[s]) THEN "reached"
                                               ELSE IF WarningNeeded(context[s], age[s]) THEN "warned" ELSE "fine"
          BY <2>1, <2>3, <3>1 DEF CheckLimits, Load, CountInv, Counts, CountOf, Covers
        <4>2. QED
          BY <2>1, <4>1 DEF Told, Rank
      <3>2. CASE s # t
        <4>1. told'[s] = told[s]
          BY <2>1, <2>3, <3>2 DEF CheckLimits
        <4>2. QED
          BY <2>1, <4>1
      <3>3. QED
        BY <3>1, <3>2
    <2>4. told' = told \/ \E t \in Sessions : CheckLimits(t)
      BY Zenon DEF Next, vars, Create, InsertSession, Begin, SaveChange, SaveFails, InsertTurn, InsertFails,
             UpdateSession, UpdateFails, Delete, DeleteFails, Tick, Crash
    <2>5. QED
      BY <2>2, <2>3, <2>4
  <1>2. QED
    BY <1>1, CountAlways, PTL DEF Spec, LimitStays

(* TypeOK: the time left of a key, the age, the copies and the rows keep their ranges. *)
THEOREM SessionTypeCorrect == Spec => []TypeOK
  <1>1. LifeInv => TypeOK
    BY DEF LifeInv, Typed
  <1>2. QED
    BY <1>1, LifeAlways, PTL

(* RowFirst (create_session, update_turn): an id is handed out, and a turn        *)
(* recorded, only for a session that has its row.                                 *)
THEOREM RowsComeFirst == Spec => []RowFirst
  <1>1. LifeInv => RowFirst
    BY DEF LifeInv, Rules
  <1>2. QED
    BY <1>1, LifeAlways, PTL

(* OpenSurvives (RedisSessionStore.save with its TTL, end_session): an open       *)
(* session is in Redis until its time limit, whatever calls overlap, fail or die. *)
THEOREM OpenSessionsSurvive == Spec => []OpenSurvives
  <1>1. LifeInv => OpenSurvives
    BY DEF LifeInv, Rules, Typed, TypeOK, Outlasts, Wanted, OpenSurvives
  <1>2. QED
    BY <1>1, LifeAlways, PTL

(* EndedIsGone (end_session): with one call at a time, an ended session has left  *)
(* the store unless the last end_session of it raised or died after the row was   *)
(* ended: an update that is not acknowledged, a DEL that fails, a killed process. *)
THEOREM EndedSessionsAreGone == Spec => []EndedIsGone
  <1>1. LifeInv => EndedIsGone
    <2> SUFFICES ASSUME LifeInv, callers = "serial", NEW s \in kept, row[s] = "ended", s \notin torn
                 PROVE  Busy(s) # {}
      BY DEF EndedIsGone
    <2>1. s \in Sessions /\ Places /\ Torn
      BY DEF LifeInv, Rules, Typed, TypeOK
    <2>2. PICK w \in Workers : job[w].s = s /\ job[w].at = "delete"
      BY <2>1 DEF Torn
    <2>3. job[w].op # "idle"
      BY <2>1, <2>2 DEF Places, PlaceOf
    <2>4. QED
      BY <2>2, <2>3 DEF Busy
  <1>2. QED
    BY <1>1, LifeAlways, PTL
=============================================================================
