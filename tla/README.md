# Formal models of the callbot

The callbot answers customer calls: a WebSocket voice server (or an HTTP turn
endpoint) feeds utterances to a dialogue pipeline, which classifies them, runs
multi-turn flows that change the customer's telephone plan or add-ons through an
external billing system, and keeps sessions in memory and rows in PostgreSQL.
This directory holds TLA+ models of that program, TLC configurations that check
them on small instances, and TLAPS proofs of the properties that matter most for
every size. All paths below are relative to `src/`.

```
tlc -workers 2 -config MCTurnPipelineSerial.cfg MCTurnPipeline   # one run
tlapm TurnPipelineProofs.tla                                     # one proof module
```

`PROJECT.json` lists the runs, the theorems, for every definition the lines of
code it stands for, for every property a mutation of the code that breaks it,
the findings, and the hazards of the code with the properties that cover them.

## 1. The system

| component | state | operations | hard because |
|---|---|---|---|
| Turn pipeline `server/pipeline.py`, `orchestrator/conversation_orchestrator.py`, `session/models.py` | the `SessionContext` of a session: `pending_intent`, `pending_switch_intent`, plan list, choice, retry count, start time | `process` (one turn), flow handlers, limit and injection checks | each turn is a coroutine; turns of one session share one mutable object and interleave at awaits |
| External systems `external/*` | the customer's account, kept outside | `call_billing_api`, `call_customer_db` | calls fail before or after they took effect; refusals hide in successful replies |
| API wrapper `business/api_wrapper.py` | breaker status, opening time, call history | `call_*_api`, retries | shared by executor threads without a lock |
| PostgreSQL `session/pg_connection.py`, `session/repository.py` | semaphore, connection pool, rows | insert, update, select, health check, close | connections die in a statement, in the commit and in the pool; writes are retried |
| Voice server `voice_io/voice_server.py`, `server/voice_ws.py` | voice sessions, STT handles, turn counters | create, audio chunk, end of speech, interrupt, end, expiry | await points between a lookup and its use; a background task expires sessions under handlers |
| STT and TTS engines `voice_io/*stt*`, `voice_io/*tts*` | SDK streams, buffers, current playback | start, feed, final result, stop; synthesise, stop | stream life cycle across threads and timeouts |
| Session manager and stores `session/session_manager.py`, `session/*store*.py` | contexts in memory or Redis, rows | create, update_turn, end, expiry | dual writes without a transaction; load-modify-save |
| Secrets, tokens, encryption `security/*` | cached secrets, token maps, revocations | get/refresh, tokenize, revoke | cache against refresh, check-then-act |
| Authentication `business/auth_module.py` | failure counters | authenticate | counter read before, written after a call |
| Callback and routing `business/callback_scheduler.py`, `business/routing_engine.py` | scheduled callbacks | schedule, next opening, route | calendar boundaries |
| NLU `nlu/*` | LRU cache of the LLM classifier | classify, filter, mask | cache shared by threads |
| LLM engine `llm_engine/*` | none | generate with retries, verify | retries, timeouts |
| DTMF, barge-in `voice_io/dtmf_processor.py`, `voice_io/barge_in.py` | digits collected | input, timeout | boundaries |
| Metrics, alarms `monitoring/*` | pending data points | increment, flush | not: the event loop alone writes and flushes |
| Call logger `server/call_logger.py` | rows | log turn, finalise | which of two session ids a row has |
| HTTP server and wiring `server/app.py`, `routes.py`, `bootstrap.py`, ... | none of its own | request decoding, start, shutdown | - |

How they interact. A client talks to `voice_ws` (audio) or `routes.py` (text).
Both end in `TurnPipeline.process`, which runs as a coroutine on the event loop
and sends blocking work to the default thread pool: `process_turn` of the
orchestrator, classification, and every call to an external system. External
calls go through one `ExternalAPIWrapper` whose breaker all those threads share.
Sessions are objects in `InMemorySessionStore`, handed out by reference
(`server/bootstrap.py:45`); rows are written through `CallbotDBRepository` over
`PostgreSQLConnection`, by several threads at once.

What makes each part correct:

- *Turn pipeline*: a plan or add-on is changed only by the flow that offered it,
  once, and not after the flow was left; a flow finds the data its step needs; the
  answer agrees with what happened; the limit ends the session; each turn is answered.
- *Wrapper*: success means the operation was carried out; a blocked call reaches
  nothing; an open breaker eventually lets a trial through.
- *PostgreSQL*: permits bound connections and come back; "stored" means committed;
  a retry is the same statement.
- *Voice*: a stream that was opened is closed; an ended session gets no audio; an
  interrupt stops playback; one session's expiry does not disturb another's handler.
- *Session manager*: store and rows agree after a failure of either; no lost update.
- *Secrets and tokens*: after a refresh the old secret is not served; one value has
  one token; a revoked token stays revoked while it is valid.
- *Authentication*: the count is the number of failed attempts; at most `MAX_ATTEMPTS`.
- *Callback and routing*: the next opening is in business hours and the first such time;
  what is booked is what the caller agreed to.
- *Calls*: pressed keys outlive silence; an input concludes.
- *NLU, LLM*: the narrower intent wins; what was masked comes back; the cache keeps
  what was used last; an unverified fact is not said; retries end.

## 2. The modules

```
BillingFlow  <-- refined by --  TurnPipeline   (TurnPipelineProps, MCTurnPipeline, TurnPipelineProofs)
                                   |  ExternalCall is one BillingCall seen as a single step
BillingCall  <-- refined by --  ApiWrapper     (ApiWrapperProps, ApiWrapperProofs)
PgRepository                                   (PgRepositoryProps, MCPgRepository, PgRepositoryProofs)
   |  its OkIsStored is what a database write of SessionLifecycle relies on
SessionLifecycle                               (SessionLifecycleProps, MCSessionLifecycle, SessionLifecycleProofs)
VoiceServer                                    (VoiceServerProps, VoiceServerProofs)
   |  its step Ask is a turn of TurnPipeline, which ends by EveryTurnAnswered

MCComponents: ServiceTokens   PiiTokens   CallerAuth                     (SecurityProofs)
              CallbackDesk    CallControl   Utterances   Masking         (ComponentsProofs,
              IntentCache     Reply         SpokenNumbers                 which also proves the composition)
```

`X.tla` is the model, `XProps.tla` its properties, `MCX.tla` inputs for TLC,
`XProofs.tla` theorems, `Lemmas.tla` facts about sequences, recursion and induction that several
proofs need; the modules under `MCComponents` state their properties at their
end. Definitions marked "mutant of" are plausible bugs; nothing but the mutation of a run
uses them.

### TurnPipeline

A *worker* is a turn in flight: one coroutine, one request. Between two awaits a
coroutine runs alone on the loop, so one action is one stretch between awaits:
`Receive` (the request finds or creates the session), `Route` (`process_turn`:
limits and injection filter, in an executor thread), `HandleBusiness`
(`_handle_business` up to its first await), `ExternalCall` (the billing system, in an
executor thread; `ret.effect`, for the properties, is what it did to the account), `Resume` (the code
after the await) and `Reply`. `HandleBusiness`
has one disjunct per handler: `NewRequest`, `SwitchConfirm`, `ProposeSwitch`,
`CancelFlow`, `PlanSelect`, `PlanConfirm`, `AddonSelect`. `late` stands for
`elapsed_minutes >= 15`.

An utterance is a record of the answers the code asks about it: is it short, a yes
word, does it contain the cancel word or the no word, is it safe, its intent, the
plan or add-on it names. `MCTurnPipeline` lists concrete ones.

The wiring modelled is the one with an intent classifier and an external system
(`demo_server.py` and the tests). `assemble_pipeline` in `server/bootstrap.py`
passes neither: then every intent is None, no flow ever starts, and the model with
`Backend = "none"` and UNCLASSIFIED texts describes it. No run uses
`Backend = "none"`; the theorems hold for it too.

The turn, injection and extra-turn counts are the constants `TurnCount`,
`InjectionCount`, `ExtraTurnsUsed` equal to 0: what would write them
(`SessionManager.update_turn`, `increment_injection_count`) is called by nobody on
the request path, and `extra_turns_used` is written nowhere.

### BillingFlow

The abstract promise to the customer: a plan is changed by list, choice,
confirmation, an add-on by list, choice; a flow makes at most one change, to what it
offered; a flow that was left changes nothing. `TurnPipelineProps` maps to it: the
stage is `pending_intent`, except that a flow whose change has been answered by the
billing system counts as over although `pending_intent` is cleared a step later.

### ApiWrapper and BillingCall

CPython may switch threads at a call. `record_success` tests and resets the breaker
without one, so it is one action; `_evaluate` has one on each side of
`status = OPEN`, so a failure is three actions: `RecordFailure` (count, decide),
`Open`, `Stamp`. A tick is 30 s: the window of 60 s is two ticks, the opening time of
30 s one. Times of calls are kept by age. The reply of a request
may be lost or unreadable after it took effect.
`BillingCall` is what the pipeline relies on: between request and answer the operation
may take effect, success means it has, a blocked call has no effect. `TurnPipeline`'s
`ExternalCall` is such a call as one step. Two things are assumed in that: a call that
timed out does not take effect after the caller was told (the model of the wrapper has
no late execution either), and nothing else of the turn depends on the moment between
request and answer.

### PgRepository

Each thread works on a row of its own: `Call` (a repository method), `TakePermit` or
`PoolTimeout`, `GetConn` or `GetConnFails`, `Execute` (writes, with the commit) or
`Fetch` (reads), `Release` or `PutConnFails`, `Attempted` (`_execute_with_retry` and its
callers), `Return`; `CloseAll` at shutdown. A connection may fail at every step, and an
error of the commit leaves open whether the row is stored. psycopg2's
`ThreadedConnectionPool` is not in the repository; it is modelled from its use: `getconn`
opens a connection when the pool is empty, `putconn` keeps at most `minconn`, rolls back an
open transaction, and raises once the pool is closed. `health_check` gives its connection back as
sound also when its statement has failed.

### VoiceServer

One `call` is one WebSocket: its id is that of its voice session, `pc` is where the loop of
`voice_websocket` is. The loop reads a message when the last one is handled, so the handlers of one
call never overlap; those of two calls, the expiry task, and the executor's threads do. `AudioChunk`,
`End`, `Text` and `Interrupt` are the handlers up to their first await; `StartStream`,
`ProcessAudioChunk`, `GetFinalResult` and `StopStream` run in a thread and need a free one
(`FreeThread`); `Started`, `Heard`, `Stopped`, `Interrupted`, `Ask` and `Synthesize` are what the
handler does when the thread has answered. `Connect`, `Disconnect` (the client goes), `HangUp` (the
loop learns of it and ends the session), `GoIdle` and `Cleanup` (`cleanup_expired_sessions`, which
may end a session under its handler), `Restart`. `engine` chooses Amazon Transcribe or the vendor
adapter behind its fallback; `entries` is what the recogniser keeps per stream; `orphans` are threads
still synthesising for a turn that gave up after ten seconds. `strays`, for the properties, are
streams opened or revived by a thread that was under way when its session ended.

### SessionLifecycle

Each method of `SessionManager` is split where it touches shared state: load, change and save,
then the row. `Create`/`InsertSession`; `Begin` (`_get_context`), `SaveChange` and `InsertTurn`
for `update_turn` and the small helpers ("field": a method that sets a field and saves everything);
`UpdateSession` and `Delete` for `end_session`; each write has a failing twin (`SaveFails`,
`InsertFails`, `UpdateFails`, `DeleteFails`). `backend` chooses the in-memory store, which hands out
the object itself, or Redis, which hands out a copy and drops a key when its time is up (`Tick`).
`Crash` loses the calls under way and the in-memory store. A write that returns is stored, which for
the database is `OkIsStored` of `PgRepository`; one that raises may be stored as well, when only its
answer was lost: then an insert has left its row, a SET or DEL of Redis has been done, and
`UpdateFails` has ended the row although `end_session` raises. `torn`, for the properties, are sessions
whose row was ended by a call that then raised or died; an `end_session` that deletes the context
takes them off again.

### Components that share no state

`MCComponents` extends ten small modules. They share no variable, so composing their interleavings
would only multiply states: the initial state chooses `part`, and only that component steps; what the
others may freely begin with is fixed.

- **ServiceTokens** (`security/secrets_manager.py`, `service_authenticator.py`, `token_store.py`):
  threads issue, verify and revoke. `Call`, `Lookup`/`Fetch`/`StoreSecret` (the cache of
  `get_secret`, read and written apart), `Issue`, `Decode`, `IsRevoked` and `ForgetRevocation` (the
  membership test, the comparison with the clock and the deletion), `Revoke`, `PurgeExpired`,
  `Rotate` (an operator installs a key pair) and `ServiceTick`. Time passes between any two steps, so a
  key may be old when it is stored; `expires_at` is counted from the store, and `slow` remembers, for
  the property, how long its fetch took.
- **PiiTokens** (`pii_encryptor.py`, `token_mapping_store.py`): `GetToken`, `Encrypt`, `Index` are
  `tokenize`; `Detokenize` is an operator; `InstallKey` and `Redeploy` change the keys. A ciphertext is
  the value, the key, the version in its header and whether its first byte is the magic one. The key
  of an encryption is one of `KeysHad`: the version's own, or the legacy one when its secret is missing
  or could not be fetched, which `_fetch_aws` reports in the same way. `Detokenize` is what
  `detokenize` gives while the secrets service answers.
- **CallerAuth** (`business/auth_module.py`): `Authenticate` reads the failure count, `Verified` and
  `Refused` are the database's answer and the write; `LookupByNumber`, `CountLookup`, `LookupAnswered`.
  An answer that is confirmed at the limit ends in the `ValueError` of `AuthResult.__post_init__`.
- **CallbackDesk** (`routing_engine.py`, `callback_scheduler.py`): an hour is a step of `Hour`; `IsOpen`
  and `NextOpenTime` are the engine's; `RouteToAgent`, `CollectPhone`, `CollectTime`, `Schedule` are
  the dialogue for a call back, with their retry counts. A time said with its zone raises `TypeError` and
  changes nothing.
- **CallControl** (`dtmf_processor.py`, and what `conversation_orchestrator.py` does beside
  `process_turn`): `StartCapture`, `Press`, `CleanupExpired`, `ProcessInput` (keys to a result),
  `EndCall`, `SpeedControl`, `OtherControl`, `HandleNoResponse`, and a clock. Nothing on the request
  path calls the orchestrator's part; it is modelled as it is offered.
- **Utterances** (`nlu/patterns.py`, `intent_classifier.py`): an utterance is a sequence of words,
  where a word stands for the alternatives a pattern treats alike; `Matches` and `Mentions` are the
  rules, `Primary` and `Secondary` the result.
- **Masking** (`nlu/masking_module.py`): `Find` and `Claim` are the search for a field's value among
  positions already taken, `Mask` and `Restore` the two directions.
- **Reply** (`llm_engine/*`): `Delta`, `StreamEnds`, `Fails`, `Throttled` are the retry loop of the Bedrock
  client; `GenerateResponse`, `Split` and `Verify` are what becomes of the text. A text is a sequence of
  parts, two of them amounts of which one has the digits of the other in it, and a cut may fall within
  an amount. `sent` and `throttles`, for the property, are what the service did.
- **SpokenNumbers** (`voice_io/tts_engine.py`): `KoreanNumber` and `FormatAmount`; `Understood` is the
  reference: what a listener makes of the words.
- **IntentCache** (`nlu/llm_intent_classifier.py`): `Predict` (the membership test), `MoveToEnd`,
  `ReadEntry`, `Invoke`, `Put`, `CheckSize`, `Evict`: one dictionary operation each. What is raised
  (an entry that is gone, a model that fails) lets the patterns answer.

## 3. What the runs show

| run | states | checks | shows |
|---|---|---|---|
| TurnSerial | 23 970 | `TypeOK`, `SwitchHasFlow`, `AnswerIsTrue`, `ImplementsFlow`, `LimitEndsSession`, `EveryTurnAnswered` | with a caller who waits for each answer, over the failing AnyTelecom adapter, the dialogue implements `BillingFlow`, its answers are true but for the adapter's two untruths, the limit ends it, each turn is answered |
| TurnOverlap | 1 562 432 | `FlowHasItsData` | two turns in flight on one session, over the fake billing system, which knows the current plan: no interleaving leaves a plan flow without its list or choice, or with the current plan as the choice |
| OverlapCancel | - | `CancelledFlowChangesNothing` (violated) | a caller is told "cancelled" while CHANGE_PLAN is in flight, and the plan changes |
| Wrapper | 415 592 | `TypeOK`, `OpenKnowsSince`, `ImplementsCall`, `Recovers` | two threads on the unlocked breaker: calls implement `BillingCall`, an open breaker can always become half-open, and does not stay open over a healthy system |
| WrapperTrial | - | `FailedTrialReopens` (violated) | a failed trial leaves the breaker half-open while the window holds few calls |
| Pg | 2 907 856 | `TypeOK`, `PoolBounded`, `OkIsStored` | with dying connections, lost commits, leaked permits, retries and shutdown the pool stays bounded and "ok" means committed |
| PgUpdate | - | `UpdateIsRetried` (violated) | the second attempt of an update is rejected for what the first wrote into the caller's dict |
| Voice | 253 532 | `TypeOK`, `StreamsOwned`, `HandleIsLive`, `GoneCallsEnd` | whatever the order of chunks, ends, interrupts, expiry and hang-ups, a stream belongs to a session that can stop it or to one that ended under its handler; a handle is live between messages; a call whose client has gone ends |
| VoiceStray | - | `NoStream` (violated) | a session that expires while its stream is opened leaves the stream in the recogniser until a restart |
| Sessions | 364 445 | `TypeOK`, `SerialCountsTurns`, `EndedIsGone`, `OpenSurvives`, `RowFirst`, `LimitStays` | over both stores, with failures of either write, lost answers and crashes: rows come first, open sessions outlive their time limit in Redis, and with one call at a time turns are counted, a session that `end_session` has ended is gone and a limit once reached stays |
| Components | 1 071 641 | `TypeOK`, and for each part: `RevokedRefused`, `CurrentVerifies`; `TokensRestore`, `SerialOneToken`; `CountsHold`; `NextOpenIsNext`, `BookedAsAgreed`; `TypingSurvives`; `NarrowWins`; `MaskRestores`; `SplitIsPlayable`, `GivesUpInTime`, `FactsAreChecked`; `AmountReads`; `KeepsRecent` | the small components keep what is promised of them |
| AuthAttempts | - | `AttemptsEnd` (violated) | after `MAX_ATTEMPTS` failures a correct answer is not refused, as the docstring says: `AuthResult` cannot be made for it, and `authenticate` raises `ValueError` |

**Disagreements.** The five violations are findings of `PROJECT.json`. Further statements of a doc,
comment or test that the code does not keep are defined beside the properties, each with the line
it quotes, and checked by no run, because one counterexample says all there is to say:

- `TurnPipelineProps`: `ChangeIsConfirmed` (END_CALL or a mumble confirms), `TwoExtraTurns` (past the limit
  a session in a flow is never escalated), `RefusalIsReported` (a refused cancellation of an add-on is
  reported as done over the AnyTelecom adapter);
- `PgRepositoryProps!PermitsReturn` (an error of getconn or putconn costs a permit for good);
- `SessionLifecycleProps!EveryTurnCounted` (two overlapping calls of `update_turn` over Redis count one turn);
- `PiiTokens!OneToken` (two overlapping calls of `tokenize` give a value two tokens);
- `CallbackDesk`: `BookedWhenOpen` (the scheduler does not know the engine's holidays),
  `RoutedIsConnected` (the answer of `connect_agent` is not looked at);
- `CallControl!InputConcludes` (an input with one digit too many never concludes);
- `Utterances`: `CancellationIsNotAddon`, `SecondIsSaid`; `Masking!NothingLeft`; `Reply!PassedIsTrue`;
  `SpokenNumbers!NumberReads` (`korean_number` raises from 100 000 on).

**Bounds.** *Turns*: two workers on one session make every interleaving of two turns, which is what
a session with a client and its retry, or two tabs, has; flows of different sessions share only the
account, so one session suffices for flow properties. `FlowTexts` leaves out of the overlapping run
the texts that move no flow. Two plans give a current and another one, two add-ons one that the
billing system cancels and one it refuses. The serial run has the adapter that fails, the overlapping ones
the system that knows the current plan; the theorems are for both. Lengths of dialogues are not bounded. `Cap` saturates the
counter of extra turns and is 0 because no property of these runs reads it.
*Wrapper*: two threads race in the breaker; `Traffic = 2` entries in the window (no call begins above
that; calls in flight may still add more) with `MinCalls = 2` let it open, half-open, close and reopen; one retry is
the first that can differ from none. WrapperTrial has three calls as the minimum so that a window
can hold fewer. *Pg*: three threads on two permits make one wait and two race; three attempts as in
the code; threads are symmetric and no liveness is checked there.
*Voice*: two calls race for the session limit (1 or 2), for one executor thread and for streams; two
streams let one call lose a stream and open another. `Room` lets a call connect only while an id
is left for its next stream, since strays keep theirs; that bounds the leaked streams, not the length
of calls.
*Sessions*: two workers on one session and both stores; limits and warnings of one and two turns and
minutes are the smallest that differ; `Ttl = MaxMinutes` is the tightest the assumption allows;
`MaxTurns` reaches the limit. Workers are symmetric; the properties are safety properties.
*Components*: two threads everywhere threads race. Tokens: time to 2 with a cache's lifetime of 1 and a token's of 2 lets a key, a
token and a revocation expire under a call, and a key be old when it is stored; two key pairs are one rotation; three masking tokens are one more than
values, two key versions one redeployment. Authentication: two attempts allowed, three made. Desk: a week and a
day with none or two holidays, asked hours now, next and tomorrow. Keys: two, one more than a survey takes.
Utterances to three words, texts to five letters with values of up to two, answers to five parts with
pieces of two, amounts to nine digits, of 0, 1 and 7 (the digits that are silent, dropped and said). Cache: three
texts for two places. The proofs do without all of these bounds but one: an amount has at most twelve digits. These bounded inputs run out (texts end, attempts are used up, time ends), so `MCComponents.cfg` and
`MCCallerAuthAttempts.cfg` switch the deadlock check off; no other configuration does.

**Fairness.** `TurnPipeline`: weak fairness of each turn's own steps - the event loop and the executor
run what they were given, and an external call ends because every client has a timeout. Nothing is
assumed of clients or of time. `ApiWrapper`: weak fairness of each thread's steps, of `Tick` (time
passes) and of `Begin` (calls keep coming: the breaker is only looked at by calls, and an idle breaker
stays open by design). `Recovers` is conditional on the billing system's becoming healthy for good.
`VoiceServer`: weak fairness of `OrphanEnds` (an abandoned synthesis ends by the time-outs of its
client) and of the hang-up of a client that has gone (the loop learns of the closed socket at its next
receive or send); strong fairness of each call's handler, because the executor's queue is first in, first
out: a handler that waits gets a thread although places come and go. Nothing is assumed of clients, of
expiry or of idle time. The other specifications state no fairness and no liveness is checked of them.

## 4. What is proved

For every value of the constants, under the assumptions named in the modules:

- `PipelineAssumption`: texts are texts, the initial plan is a plan, `None` and `NoCurrent` are not data.
  - `TypeCorrect` (`TypeOK`), by `TypeInv` = `TypeOK` and `LocalsOK`: a turn in flight knows its session
    and utterance, and a change in flight names a plan.
  - `FlowDataPresent` (`FlowHasItsData`), for overlapping turns too. It is inductive over `TypeInv`: every
    clean-up that drops the list or the choice also ends the flow.
  - `SerialRefinement` (`ImplementsFlow`), for clients that wait (`~Overlap`). The inductive invariant
    `SerialInv` adds `Alone` (one turn per session) and `CallMatchesFlow` (during a call the session still
    is at the stage the call was made from, with the choice the call carries). The second is what an
    overlapping turn destroys, and OverlapCancel shows it.
  - `SwitchesHaveFlows` (`SwitchHasFlow`), for clients that wait, by `SwitchInv`: no switch is pending while
    a call is out, so the clean-up behind the call cannot leave one without its flow.
  - `AnswersAreTrue` (`AnswerIsTrue`), for every backend and for turns that overlap, by `Truth`: what the call brought back
    and what it did to the account stay together until the reply, because a turn alone writes them. The two untruths of the
    AnyTelecom adapter are in the property: a lost answer makes a change that was made look failed, and a refusal that
    comes with status 200 makes an add-on look cancelled. That a flow said to be over is over is proved for turns
    that wait (`LeftFlows`).
  - `LimitIsFinal` (`LimitEndsSession`), for overlapping turns too, over `TypeInv` alone.
- `WrapperAssumption`: bounds are naturals, the window is not empty.
  - `WrapperTypeCorrect`; `NeverOpenForGood` (`OpenKnowsSince`), inductive over `TypeOK` although
    `record_success` may clear the time between `Open` and `Stamp`; `WrapperImplementsCall`
    (`ImplementsCall`), with `EffectKnown`: a thread past a readable reply has had its effect.
- `PoolAssumption`: `MinConn <= MaxConn`, at least one attempt, finitely many threads.
  - `PgTypeCorrect` and `PgPoolBounded`, by `Ledger`: permits plus threads that hold one without a connection plus
    connections handed out never exceed `MaxConn`, and no more threads work than connections are out. Neither
    type nor bound is inductive without it: `permits + 1 <= MaxConn` on release needs the ledger, and
    leaked permits only make it slacker.
  - `PgOkIsStored`, with `CleanIsStored`: a write that is being released without an error is stored.
- `VoiceAssumption`: finitely many calls and streams, at least one executor thread.
  - `VoiceTypeCorrect`, `StreamsAreOwned` (`StreamsOwned`), `HandlesAreLive` (`HandleIsLive`), by one invariant `OwnInv`: `Agree`
    (flag and handle change together), `Apart` (no stream is two calls'), and `Placed` (what each place of the loop knows of its
    stream, also when the session has ended under it). Ownership is not inductive without the places: a thread that
    feeds a stream must know that it is still the session's.
- `SessionAssumption`: the time limit is at most the lifetime of a Redis key.
  - `SessionTypeCorrect`, `RowsComeFirst` (`RowFirst`), `OpenSessionsSurvive` (`OpenSurvives`), `EndedSessionsAreGone` (`EndedIsGone`), by
    `LifeInv`: where a worker is says what it knows of its row (`Places`), the creator of an id is the only one who has it
    (`Creators`), a wanted key's remaining life and the session's age add up to the limit (`Outlasts`), and with serial callers
    one worker has a session and an ended one is kept only when torn (`OneWorker`, `Torn`). An update that was committed and not
    acknowledged makes a session torn, a failed DEL or a crash leaves it so, and the next `end_session` that returns has
    removed its context.
  - `SerialTurnsAreCounted` (`SerialCountsTurns`) and `LimitsStay` (`LimitStays`, an action property), by `CountInv`: with serial callers every
    context of a session *covers* it - it counts at least the business rows, no row is numbered past its turns, and the limits
    it would answer are those that were answered. The context of the store has to, and so has the copy that a worker is about
    to save, because a key that expires meanwhile comes back with that copy; a turn that was saved and has no row yet is counted
    one ahead. An overlapping worker saves a copy that no longer covers the session, which `EveryTurnCounted` is about.
- `ServiceAssumption`: lifetimes are positive.
  - `ServiceTypeCorrect`, `RevokedAreRefused` (`RevokedRefused`), `CurrentKeysVerify` (`CurrentVerifies`), by `SvcInv`: a stale key in the cache
    lapses within the cache's lifetime after the rotation, and the slowness of its own fetch (`CacheOK`), a revocation is remembered until its token has expired
    (`RevocationsOK`), and a thread may still use a stale key only if it took it before that (`ThreadsOK`).
- `PiiAssumption`: a version fits its byte, `NoToken` is no data.
  - `TokensAreRestored` (`TokensRestore`), by `KeepInv`: a header names the key that made the ciphertext, but for versions whose
    secret came after their deployment and for what was encrypted while a fetch failed; `OneTokenPerValue` (`SerialOneToken`), by `SerialInv`.
  - `PiiTypeCorrect`, from the same invariant.
- `AuthAssumption`: at least one attempt.
  - `CountsAreExact` (`CountsHold`), by `AuthInv`: with serial callers a session has one call, which still knows the count it has read.
  - `AuthTypeCorrect`, also for overlapping calls, by `CountsBound`: a count that is read was written after fewer attempts than
    there are now, so no count passes the attempts although one may be lost.

- `ControlAssumption`: times are positive, and an input times out before an idle capture is dropped.
  - `ControlTypeCorrect`; `KeysAreKept` (`TypingSurvives`, an action property), by `IdleIsQuiet`: what the capture records as
    its idle time is how long the caller really has pressed nothing. The property is about the caller and the clean-up
    looks at the record; the equation connects them.
- `DeskAssumption`: holidays are days, finitely many.
  - `DeskTypeCorrect`, `OpeningIsNext` (`NextOpenIsNext`), `BookingsAreAgreed` (`BookedAsAgreed`), by `DeskInv`. The loop of
    `get_next_open_time` stops because finitely many holidays cannot take all Mondays, and what it stops at is the least
    business day from the one it starts with; that needs the finiteness, which a run cannot see.
- `UtterancesAssumption`: a bound on words.
  - `UtterancesTypeCorrect`, `NarrowRulesWin` (`NarrowWins`): a matching rule at one place of the list leaves the choice to it or
    an earlier one, and the places of the rules differ.
- `ReplyAssumption`: a limit on a piece is positive.
  - `ReplyTypeCorrect`; `RetriesEndInTime` (`GivesUpInTime`): the attempt is the number of throttles until they are used up, and
    the time slept is a function of it (`SleptFor`); `PassedIsChecked` (`FactsAreChecked`); `PiecesArePlayable` (`SplitIsPlayable`), by
    induction on the length: stripping loses no word, and a cut leaves two halves that are shorter.
- `MaskingAssumption`: fields are distinct and none is a letter.
  - `MaskedIsRestored` (`MaskRestores`): finds of one value lie apart, what is claimed never overlaps, and reading the masked
    text back gives the text prefix by prefix, by induction over its places.
- `SpokenAssumption`: digits are digits, at most twelve.
  - `SpokenTypeCorrect`, `AmountsAreUnderstood` (`AmountReads`): each small unit moves its digit of what is left into the listener's
    group, and each group of four digits adds itself times its name. From 10^12 on the first group has more than four
    digits, for which `format_amount` has no name; the assumption is where the theorem ends.
- `CacheAssumption`: the cache has a place, finitely many threads.
  - `CacheTypeCorrect`, `CacheKeepsRecent` (`KeepsRecent`), by `CacheInv`: with calls one after the other, each point of a call says
    how far the dictionary is behind the texts used last (`OneByOne`); with calls that overlap, it outgrows its size by no
    more than the threads that are about to shrink it (`SizeKept`).
- All of these together: `PartsAreComponents` shows that in `MCComponents` every component behaves by its own specification (a
  step of one leaves the variables of the others alone), so what is proved of a component holds of the model the run
  checks, and `TypesAreCorrect` (`TypeOK`) follows.

Where a definition recurses (the pieces of an answer, masking, the words of a number), the model writes a
recursive function, and the proofs work with sets: a nonempty set of naturals has a least member, hence a set that holds
0 and every successor holds all (`SetInduction`), and a function given by recursion on numbers, or on a measure of its
argument, exists (`Recursion`, `MeasureRecursion`). The induction theorems of the library that take an operator as a parameter are not used.

Only model-checked: `EveryTurnAnswered`, `Recovers` and `GoneCallsEnd`. They are liveness properties under fairness, whose
proofs need ENABLED, which is outside the prover's reach. Every other property of the runs that pass is a theorem.

## 5. What is not modelled

Inside the modelled parts: the field-by-field normalisation of replies; the customer database beyond whether it confirms;
`rollback_transaction`, whose operation has no mapping in `external/operation_mapping.py` and which has no caller;
`_get_breaker`'s unlocked insert (one call's history is lost, the opening comes one call later); row contents; an
`update_session` of a row that does not exist, and two threads on one row; calls of masking within `process`; metrics,
logging, latencies and wording.

- *Call logger* (`server/call_logger.py`): one UPDATE and one call of the language model, without state of its own.
  That it updates by the voice session's id and calls the model without its second argument are findings.
- *Metrics and alarms*: counters and a buffer written and flushed by the event loop alone, and a table of thresholds.
- *HTTP server, wiring, health*: decoding of requests, SQL for reports, start and stop. What they decide for the models
  (which backend, which store, one coroutine per request) is in their constants and initial states.
- *NLU*: the patterns of the injection filter, whose verdict is an input of `TurnPipeline`; entity extraction; the BERT
  classifier, which loads a trained model and ranks its labels.
- *LLM engine*: prompts, token counting and the conversation history, which are data; what a model answers.
- *STT, TTS, DTMF, barge-in*: SSML, voices, the reading of dates and telephone numbers, the vendors' SDKs;
  `BargeInHandler` is a Protocol without an implementation, and the state it would change is `is_tts_playing`.
- Cryptography: which key opens what is modelled, how is not.

## 6. What is left

1. `VoiceServer` with the sessions of `TurnPipeline` and the rows of the call logger in one model: which of two session ids
   a row has. Today a turn is one step of `VoiceServer`.
2. A breaker per thread until the first insert of `_get_breaker` is visible.
3. Two rows and two threads on one row in `PgRepository`.
