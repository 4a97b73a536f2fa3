--------------------------- MODULE VoiceServerProofs ---------------------------
(***************************************************************************)
(* Proofs about VoiceServer for every set of calls, every session limit,   *)
(* both recognisers and every size of the executor.                        *)
(***************************************************************************)
EXTENDS VoiceServerProps, FiniteSetTheorems, TLAPS

(* While the thread of a call works on a stream, *)
Working == {"feeding", "finalizing", "heard", "stopping", "stopped", "dropping", "quiet"}
(* and from here on the recogniser may have, then has, forgotten it. *)
Ending == {"heard", "stopping", "stopped", "quiet"}

Agree == \A c \in Calls : active[c] <=> handle[c] # None

(* The streams two calls hold, as handle or in a thread, are different. *)
Apart == \A c, d \in Calls : c # d =>
  \A s \in Streams : s \in {handle[c], arg[c]} => s \notin {handle[d], arg[d]}

Placed == \A c \in Calls :
  /\ pc[c] = "off" => c \notin sessions /\ handle[c] = None
  /\ pc[c] \in {"starting", "started"} => handle[c] = None
  /\ pc[c] = "started" => arg[c] \in entries
  /\ pc[c] \in Working => handle[c] \in {arg[c], None}
  /\ pc[c] = "feeding" => arg[c] # None /\ (c \in sessions => handle[c] = arg[c])
  /\ pc[c] \in {"stopped", "quiet"} => arg[c] \notin entries
  /\ c \in sessions /\ handle[c] # None /\ pc[c] \notin Ending => handle[c] \in entries

OwnInv == TypeOK /\ Agree /\ Apart /\ Placed /\ StreamsOwned

(***************************************************************************)
(* Type correctness.  Of the type invariant only the session limit needs   *)
(* more than the shape of a step.                                          *)
(***************************************************************************)
LEMMA SessionsFinite ==
  ASSUME TypeOK
  PROVE  /\ IsFiniteSet(sessions) /\ Cardinality(sessions) \in Nat
         /\ \A S \in SUBSET sessions : Cardinality(S) <= Cardinality(sessions) /\ Cardinality(S) \in Nat
  <1>1. IsFiniteSet(sessions)
    BY VoiceAssumption, FS_Subset DEF TypeOK
  <1>2. QED
    BY <1>1, FS_Subset, FS_CardinalityType

LEMMA TypeStep == TypeOK /\ Placed /\ [Next]_vars => TypeOK'
  <1> SUFFICES ASSUME TypeOK, Placed, [Next]_vars PROVE TypeOK'
    OBVIOUS
  <1> USE DEF TypeOK, object, config, stt, Goto, Touch, Answer, Steps, Waiting
  <1>1. ASSUME NEW c \in Calls, Connect(c) PROVE TypeOK'
    <2>1. Cardinality(sessions') <= maxSessions
      <3>1. Cardinality(sessions) + 1 <= maxSessions
        BY <1>1, SessionsFinite, VoiceAssumption DEF Connect, MayConnect
      <3>2. /\ IsFiniteSet(sessions) /\ Cardinality(sessions) \in Nat
            /\ IsFiniteSet(sessions \cup {c})
            /\ Cardinality(sessions \cup {c}) =
                 IF c \in sessions THEN Cardinality(sessions) ELSE Cardinality(sessions) + 1
        BY SessionsFinite, FS_AddElement
      <3>3. Cardinality(sessions \cup {c}) <= Cardinality(sessions) + 1
        BY <3>2
      <3>4. maxSessions \in Nat /\ maxSessions' = maxSessions /\ sessions' = sessions \cup {c}
        BY <1>1, VoiceAssumption DEF Connect
      <3>5. QED
        BY <3>1, <3>2, <3>3, <3>4, SessionsFinite
    <2>2. QED
      BY <1>1, <2>1 DEF Connect
  <1>2. ASSUME NEW c \in Calls, AudioChunk(c) PROVE TypeOK'
    BY <1>2 DEF AudioChunk, Found
  <1>3. ASSUME NEW c \in Calls, End(c) PROVE TypeOK'
    BY <1>3 DEF End, Found
  <1>4. ASSUME NEW c \in Calls, Text(c) PROVE TypeOK'
    BY <1>4 DEF Text, Found
  <1>5. ASSUME NEW c \in Calls, Interrupt(c) PROVE TypeOK'
    BY <1>5 DEF Interrupt
  <1>6. ASSUME NEW c \in Calls, StartStream(c) PROVE TypeOK'
    BY <1>6 DEF StartStream, StartRefused
  <1>7. ASSUME NEW c \in Calls, Started(c) PROVE TypeOK'
    BY <1>7 DEF Started, Placed
  <1>8. ASSUME NEW c \in Calls, ProcessAudioChunk(c) PROVE TypeOK'
    BY <1>8 DEF ProcessAudioChunk, Placed
  <1>9. ASSUME NEW c \in Calls, GetFinalResult(c) PROVE TypeOK'
    BY <1>9 DEF GetFinalResult, Recognised, TranscribeFails, VendorFails, Results
  <1>10. ASSUME NEW c \in Calls, Heard(c) PROVE TypeOK'
    BY <1>10 DEF Heard
  <1>11. ASSUME NEW c \in Calls, StopStream(c) PROVE TypeOK'
    BY <1>11 DEF StopStream, StopStreams
  <1>12. ASSUME NEW c \in Calls, Stopped(c) PROVE TypeOK'
    BY <1>12 DEF Stopped, Forget, AfterEnd, Results
  <1>13. ASSUME NEW c \in Calls, Ask(c) PROVE TypeOK'
    BY <1>13 DEF Ask
  <1>14. ASSUME NEW c \in Calls, Synthesize(c) PROVE TypeOK'
    BY <1>14, VoiceAssumption DEF Synthesize, Abandon
  <1>15. ASSUME NEW c \in Calls, Interrupted(c) PROVE TypeOK'
    BY <1>15 DEF Interrupted, Forget
  <1>16. ASSUME NEW c \in Calls, GoIdle(c) PROVE TypeOK'
    BY <1>16 DEF GoIdle
  <1>17. ASSUME NEW c \in Calls, Disconnect(c) PROVE TypeOK'
    BY <1>17 DEF Disconnect
  <1>18. ASSUME NEW c \in Calls, HangUp(c) PROVE TypeOK'
    <2>1. Cardinality(sessions') <= maxSessions
      BY <1>18, SessionsFinite, VoiceAssumption DEF HangUp
    <2>2. QED
      BY <1>18, <2>1 DEF HangUp, EndStreams, StopStreams
  <1>19. CASE Cleanup
    <2>1. Cardinality(sessions') <= maxSessions
      BY <1>19, SessionsFinite, VoiceAssumption DEF Cleanup
    <2>2. QED
      BY <1>19, <2>1 DEF Cleanup, EndStreams, StopStreams
  <1>20. CASE OrphanEnds
    BY <1>20, VoiceAssumption DEF OrphanEnds
  <1>21. CASE Restart
    BY <1>21, VoiceAssumption DEF Restart
  <1>22. CASE UNCHANGED vars
    BY <1>22 DEF vars
  <1>23. QED
    BY <1>1, <1>2, <1>3, <1>4, <1>5, <1>6, <1>7, <1>8, <1>9, <1>10, <1>11, <1>12, <1>13, <1>14,
       <1>15, <1>16, <1>17, <1>18, <1>19, <1>20, <1>21, <1>22 DEF Next, Message, Handler

(***************************************************************************)
(* Who holds which stream.                                                 *)
(***************************************************************************)
LEMMA OwnStep == OwnInv /\ [Next]_vars => (Agree /\ Apart /\ Placed /\ StreamsOwned)'
  <1> SUFFICES ASSUME TypeOK, Agree, Apart, Placed, StreamsOwned, [Next]_vars
               PROVE  (Agree /\ Apart /\ Placed /\ StreamsOwned)'
    BY DEF OwnInv
  <1> USE VoiceAssumption DEF object, config, stt, Goto, Touch, Answer
  <1>1. ASSUME NEW c \in Calls, Connect(c) PROVE (Agree /\ Apart /\ Placed /\ StreamsOwned)'
    <2>1. Agree' /\ Apart'
      BY <1>1 DEF Connect, Agree, Apart, Placed, TypeOK
    <2>2. Placed'
      BY <1>1 DEF Connect, Agree, Apart, Placed, TypeOK, Working, Ending, Steps, Waiting
    <2>3. StreamsOwned'
      BY <1>1 DEF Connect, StreamsOwned, Placed, TypeOK, Working
    <2>4. QED
      BY <2>1, <2>2, <2>3
  <1>2. ASSUME NEW c \in Calls, AudioChunk(c) PROVE (Agree /\ Apart /\ Placed /\ StreamsOwned)'
    <2>1. Agree' /\ Apart'
      BY <1>2 DEF AudioChunk, Found, Agree, Apart, Placed, TypeOK
    <2>2. Placed'
      BY <1>2 DEF AudioChunk, Found, Agree, Apart, Placed, TypeOK, Working, Ending, Steps, Waiting
    <2>3. StreamsOwned'
      BY <1>2 DEF AudioChunk, Found, StreamsOwned, Placed, TypeOK, Working
    <2>4. QED
      BY <2>1, <2>2, <2>3
  <1>3. ASSUME NEW c \in Calls, End(c) PROVE (Agree /\ Apart /\ Placed /\ StreamsOwned)'
    <2>1. Agree' /\ Apart'
      BY <1>3 DEF End, Agree, Apart, Placed, TypeOK
    <2>2. Placed'
      BY <1>3 DEF End, Agree, Apart, Placed, TypeOK, Working, Ending, Steps, Waiting
    <2>3. StreamsOwned'
      BY <1>3 DEF End, StreamsOwned, Placed, TypeOK, Working
    <2>4. QED
      BY <2>1, <2>2, <2>3
  <1>4. ASSUME NEW c \in Calls, Text(c) PROVE (Agree /\ Apart /\ Placed /\ StreamsOwned)'
    <2>1. Agree' /\ Apart'
      BY <1>4 DEF Text, Agree, Apart, Placed, TypeOK
    <2>2. Placed'
      BY <1>4 DEF Text, Agree, Apart, Placed, TypeOK, Working, Ending, Steps, Waiting
    <2>3. StreamsOwned'
      BY <1>4 DEF Text, StreamsOwned, Placed, TypeOK, Working
    <2>4. QED
      BY <2>1, <2>2, <2>3
  <1>5. ASSUME NEW c \in Calls, Interrupt(c) PROVE (Agree /\ Apart /\ Placed /\ StreamsOwned)'
    <2>1. Agree' /\ Apart'
      BY <1>5 DEF Interrupt, Agree, Apart, Placed, TypeOK
    <2>2. Placed'
      BY <1>5 DEF Interrupt, Agree, Apart, Placed, TypeOK, Working, Ending, Steps, Waiting
    <2>3. StreamsOwned'
      BY <1>5 DEF Interrupt, StreamsOwned, Placed, TypeOK, Working
    <2>4. QED
      BY <2>1, <2>2, <2>3
  <1>6. ASSUME NEW c \in Calls, StartStream(c) PROVE (Agree /\ Apart /\ Placed /\ StreamsOwned)'
    <2>1. Agree' /\ Apart'
      BY <1>6 DEF StartStream, StartRefused, Fresh, Agree, Apart, Placed, TypeOK
    <2>2. Placed'
      BY <1>6 DEF StartStream, StartRefused, Fresh, Agree, Apart, Placed, TypeOK, Working, Ending, Steps, Waiting
    <2>3. StreamsOwned'
      BY <1>6 DEF StartStream, StartRefused, Fresh, StreamsOwned, Placed, TypeOK, Working
    <2>4. QED
      BY <2>1, <2>2, <2>3
  <1>7. ASSUME NEW c \in Calls, Started(c) PROVE (Agree /\ Apart /\ Placed /\ StreamsOwned)'
    <2>1. Agree' /\ Apart'
      BY <1>7 DEF Started, Agree, Apart, Placed, TypeOK
    <2>2. Placed'
      BY <1>7 DEF Started, Agree, Apart, Placed, TypeOK, Working, Ending, Steps, Waiting
    <2>3. StreamsOwned'
      BY <1>7 DEF Started, StreamsOwned, Placed, TypeOK, Working
    <2>4. QED
      BY <2>1, <2>2, <2>3
  <1>8. ASSUME NEW c \in Calls, ProcessAudioChunk(c) PROVE (Agree /\ Apart /\ Placed /\ StreamsOwned)'
    <2>1. Agree' /\ Apart'
      BY <1>8 DEF ProcessAudioChunk, Agree, Apart, Placed, TypeOK
    <2>2. Placed'
      BY <1>8 DEF ProcessAudioChunk, Agree, Apart, Placed, TypeOK, Working, Ending, Steps, Waiting
    <2>3. StreamsOwned'
      BY <1>8 DEF ProcessAudioChunk, StreamsOwned, Placed, TypeOK, Working
    <2>4. QED
      BY <2>1, <2>2, <2>3
  <1>9. ASSUME NEW c \in Calls, GetFinalResult(c) PROVE (Agree /\ Apart /\ Placed /\ StreamsOwned)'
    <2>1. Agree' /\ Apart'
      BY <1>9 DEF GetFinalResult, TranscribeFails, VendorFails, Agree, Apart, Placed, TypeOK
    <2>2. Placed'
      BY <1>9 DEF GetFinalResult, TranscribeFails, VendorFails, Agree, Apart, Placed, TypeOK, Working, Ending, Steps, Waiting
    <2>3. StreamsOwned'
      BY <1>9 DEF GetFinalResult, TranscribeFails, VendorFails, StreamsOwned, Placed, TypeOK, Working
    <2>4. QED
      BY <2>1, <2>2, <2>3
  <1>10. ASSUME NEW c \in Calls, Heard(c) PROVE (Agree /\ Apart /\ Placed /\ StreamsOwned)'
    <2>1. Agree' /\ Apart'
      BY <1>10 DEF Heard, Agree, Apart, Placed, TypeOK
    <2>2. Placed'
      BY <1>10 DEF Heard, Agree, Apart, Placed, TypeOK, Working, Ending, Steps, Waiting
    <2>3. StreamsOwned'
      BY <1>10 DEF Heard, StreamsOwned, Placed, TypeOK, Working
    <2>4. QED
      BY <2>1, <2>2, <2>3
  <1>11. ASSUME NEW c \in Calls, StopStream(c) PROVE (Agree /\ Apart /\ Placed /\ StreamsOwned)'
    <2>1. Agree' /\ Apart'
      BY <1>11 DEF StopStream, StopStreams, Agree, Apart, Placed, TypeOK
    <2>2. Placed'
      BY <1>11 DEF StopStream, StopStreams, Agree, Apart, Placed, TypeOK, Working, Ending, Steps, Waiting
    <2>3. StreamsOwned'
      BY <1>11 DEF StopStream, StopStreams, StreamsOwned, Placed, TypeOK, Working
    <2>4. QED
      BY <2>1, <2>2, <2>3
  <1>12. ASSUME NEW c \in Calls, Stopped(c) PROVE (Agree /\ Apart /\ Placed /\ StreamsOwned)'
    <2>1. Agree' /\ Apart'
      BY <1>12 DEF Stopped, Forget, AfterEnd, Agree, Apart, Placed, TypeOK
    <2>2. Placed'
      BY <1>12 DEF Stopped, Forget, AfterEnd, Agree, Apart, Placed, TypeOK, Working, Ending, Steps, Waiting
    <2>3. StreamsOwned'
      BY <1>12 DEF Stopped, Forget, AfterEnd, StreamsOwned, Placed, TypeOK, Working
    <2>4. QED
      BY <2>1, <2>2, <2>3
  <1>13. ASSUME NEW c \in Calls, Ask(c) PROVE (Agree /\ Apart /\ Placed /\ StreamsOwned)'
    <2>1. Agree' /\ Apart'
      BY <1>13 DEF Ask, Agree, Apart, Placed, TypeOK
    <2>2. Placed'
      BY <1>13 DEF Ask, Agree, Apart, Placed, TypeOK, Working, Ending, Steps, Waiting
    <2>3. StreamsOwned'
      BY <1>13 DEF Ask, StreamsOwned, Placed, TypeOK, Working
    <2>4. QED
      BY <2>1, <2>2, <2>3
  <1>14. ASSUME NEW c \in Calls, Synthesize(c) PROVE (Agree /\ Apart /\ Placed /\ StreamsOwned)'
    <2>1. Agree' /\ Apart'
      BY <1>14 DEF Synthesize, Agree, Apart, Placed, TypeOK
    <2>2. Placed'
      BY <1>14 DEF Synthesize, Agree, Apart, Placed, TypeOK, Working, Ending, Steps, Waiting
    <2>3. StreamsOwned'
      BY <1>14 DEF Synthesize, StreamsOwned, Placed, TypeOK, Working
    <2>4. QED
      BY <2>1, <2>2, <2>3
  <1>15. ASSUME NEW c \in Calls, Interrupted(c) PROVE (Agree /\ Apart /\ Placed /\ StreamsOwned)'
    <2>1. Agree' /\ Apart'
      BY <1>15 DEF Interrupted, Forget, Agree, Apart, Placed, TypeOK
    <2>2. Placed'
      BY <1>15 DEF Interrupted, Forget, Agree, Apart, Placed, TypeOK, Working, Ending, Steps, Waiting
    <2>3. StreamsOwned'
      BY <1>15 DEF Interrupted, Forget, StreamsOwned, Placed, TypeOK, Working
    <2>4. QED
      BY <2>1, <2>2, <2>3
  <1>16. ASSUME NEW c \in Calls, GoIdle(c) PROVE (Agree /\ Apart /\ Placed /\ StreamsOwned)'
    <2>1. Agree' /\ Apart'
      BY <1>16 DEF GoIdle, Agree, Apart, Placed, TypeOK
    <2>2. Placed'
      BY <1>16 DEF GoIdle, Agree, Apart, Placed, TypeOK, Working, Ending, Steps, Waiting
    <2>3. StreamsOwned'
      BY <1>16 DEF GoIdle, StreamsOwned, Placed, TypeOK, Working
    <2>4. QED
      BY <2>1, <2>2, <2>3
  <1>17. ASSUME NEW c \in Calls, Disconnect(c) PROVE (Agree /\ Apart /\ Placed /\ StreamsOwned)'
    <2>1. Agree' /\ Apart'
      BY <1>17 DEF Disconnect, Agree, Apart, Placed, TypeOK
    <2>2. Placed'
      BY <1>17 DEF Disconnect, Agree, Apart, Placed, TypeOK, Working, Ending, Steps, Waiting
    <2>3. StreamsOwned'
      BY <1>17 DEF Disconnect, StreamsOwned, Placed, TypeOK, Working
    <2>4. QED
      BY <2>1, <2>2, <2>3
  <1>18. ASSUME NEW c \in Calls, HangUp(c) PROVE (Agree /\ Apart /\ Placed /\ StreamsOwned)'
    <2>1. Agree' /\ Apart'
      BY <1>18 DEF HangUp, EndStreams, StopStreams, Agree, Apart, Placed, TypeOK
    <2>2. Placed'
      BY <1>18 DEF HangUp, EndStreams, StopStreams, Agree, Apart, Placed, TypeOK, Working, Ending, Steps, Waiting
    <2>3. StreamsOwned'
      <3> SUFFICES ASSUME NEW s \in entries'
                   PROVE  s \in strays' \/ (\E d \in sessions' : s = handle'[d])
                          \/ \E d \in Calls : pc'[d] = "started" /\ s = arg'[d]
        BY DEF StreamsOwned
      <3>1. s \in entries /\ (c \in sessions => s # handle[c]) /\ UNCHANGED <<strays, arg>>
        BY <1>18 DEF HangUp, EndStreams, StopStreams
      <3>2. \A d \in Calls \ {c} : pc'[d] = pc[d] /\ handle'[d] = handle[d]
        BY <1>18 DEF HangUp, EndStreams, TypeOK
      <3>3. pc[c] = "ready" /\ sessions' = sessions \ {c} /\ sessions \subseteq Calls
        BY <1>18 DEF HangUp, TypeOK
      <3>4. s \in strays \/ (\E d \in sessions : s = handle[d])
            \/ \E d \in Calls : pc[d] = "started" /\ s = arg[d]
        BY <3>1 DEF StreamsOwned
      <3>5. QED
        BY <3>1, <3>2, <3>3, <3>4
    <2>4. QED
      BY <2>1, <2>2, <2>3
  <1>19. CASE Cleanup
    <2>1. Agree' /\ Apart'
      BY <1>19 DEF Cleanup, EndStreams, StopStreams, Expired, Agree, Apart, Placed, TypeOK
    <2>2. Placed'
      BY <1>19 DEF Cleanup, EndStreams, StopStreams, Expired, Agree, Apart, Placed, TypeOK, Working, Ending, Steps, Waiting
    <2>3. StreamsOwned'
      BY <1>19 DEF Cleanup, EndStreams, StopStreams, Expired, StreamsOwned, Placed, TypeOK, Working
    <2>4. QED
      BY <2>1, <2>2, <2>3
  <1>20. CASE OrphanEnds
    <2>1. Agree' /\ Apart'
      BY <1>20 DEF OrphanEnds, Agree, Apart, Placed, TypeOK
    <2>2. Placed'
      BY <1>20 DEF OrphanEnds, Agree, Apart, Placed, TypeOK, Working, Ending, Steps, Waiting
    <2>3. StreamsOwned'
      BY <1>20 DEF OrphanEnds, StreamsOwned, Placed, TypeOK, Working
    <2>4. QED
      BY <2>1, <2>2, <2>3
  <1>21. CASE Restart
    <2>1. Agree' /\ Apart'
      BY <1>21 DEF Restart, Agree, Apart, Placed, TypeOK
    <2>2. Placed'
      BY <1>21 DEF Restart, Agree, Apart, Placed, TypeOK, Working, Ending, Steps, Waiting
    <2>3. StreamsOwned'
      BY <1>21 DEF Restart, StreamsOwned, Placed, TypeOK, Working
    <2>4. QED
      BY <2>1, <2>2, <2>3
  <1>22. CASE UNCHANGED vars
    BY <1>22 DEF vars, Agree, Apart, Placed, StreamsOwned
  <1>23. QED
    BY <1>1, <1>2, <1>3, <1>4, <1>5, <1>6, <1>7, <1>8, <1>9, <1>10, <1>11, <1>12, <1>13, <1>14, <1>15, <1>16, <1>17, <1>18, <1>19, <1>20, <1>21, <1>22 DEF Next, Message, Handler

LEMMA OwnInit == Init => OwnInv
  BY VoiceAssumption, FS_EmptySet
     DEF Init, OwnInv, TypeOK, Agree, Apart, Placed, StreamsOwned, Working, Steps, Waiting, Results

LEMMA OwnAlways == Spec => []OwnInv
  <1>1. OwnInv /\ [Next]_vars => OwnInv'
    BY OwnStep, TypeStep DEF OwnInv
  <1>2. QED
    BY <1>1, OwnInit, PTL DEF Spec

(* TypeOK: with the session limit, which create_session tests before it adds. *)
THEOREM VoiceTypeCorrect == Spec => []TypeOK
  <1>1. OwnInv => TypeOK
    BY DEF OwnInv
  <1>2. QED
    BY <1>1, OwnAlways, PTL

(* StreamsOwned (end_session, handle_end, handle_interrupt, the recogniser's      *)
(* start, feed, final result and stop): no order of messages, threads, expiry and *)
(* hang-ups leaves the recogniser a stream no session can stop, but for a thread  *)
(* that was under way when its session ended.                                     *)
THEOREM StreamsAreOwned == Spec => []StreamsOwned
  <1>1. OwnInv => StreamsOwned
    BY DEF OwnInv
  <1>2. QED
    BY <1>1, OwnAlways, PTL

(* HandleIsLive (stt_handle and stt_stream_active in every handler): between two  *)
(* messages they agree, and the handle is a live stream of this call alone.       *)
THEOREM HandlesAreLive == Spec => []HandleIsLive
  <1>1. OwnInv => HandleIsLive
    <2> SUFFICES ASSUME OwnInv, NEW c \in sessions, pc[c] = "ready"
                 PROVE  /\ active[c] <=> handle[c] # None
                        /\ handle[c] # None => /\ handle[c] \in entries
                                               /\ \A d \in Calls \ {c} : handle[d] # handle[c]
      BY DEF HandleIsLive
    <2>1. c \in Calls /\ handle[c] \in Streams \cup {None} /\ pc[c] \notin Ending
      BY DEF OwnInv, TypeOK, Ending
    <2>2. active[c] <=> handle[c] # None
      BY <2>1 DEF OwnInv, Agree
    <2>3. handle[c] # None => handle[c] \in entries
      BY <2>1 DEF OwnInv, Placed
    <2>4. handle[c] # None => \A d \in Calls \ {c} : handle[d] # handle[c]
      BY <2>1 DEF OwnInv, Apart
    <2>5. QED
      BY <2>2, <2>3, <2>4
  <1>2. QED
    BY <1>1, OwnAlways, PTL
=============================================================================
