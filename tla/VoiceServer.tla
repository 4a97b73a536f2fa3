----------------------------- MODULE VoiceServer -----------------------------
(***************************************************************************)
(* A voice call over a WebSocket: the loop of voice_websocket              *)
(* (server/voice_ws.py), the handlers and the expiry of VoiceServer        *)
(* (voice_io/voice_server.py) and the streams of the speech recogniser     *)
(* under them (TranscribeSTTEngine, or STTVendorAdapter behind             *)
(* FallbackSTTEngine).                                                     *)
(*                                                                         *)
(* The loop of a call reads a message only when the last one is handled.   *)
(* A handler runs on the event loop up to an await; recogniser and speech  *)
(* synthesis run in threads of the default executor, and the expiry of     *)
(* idle sessions runs on the loop in between.  Steps named after a method  *)
(* of the recogniser are the thread's, the others the loop's.              *)
(* A turn of the dialogue, TurnPipeline.process, is one step here; that it *)
(* ends is TurnPipeline's EveryTurnAnswered.                               *)
(***************************************************************************)
EXTENDS Naturals, FiniteSets

CONSTANTS
  Calls,        \* WebSocket connections, and the ids of their voice sessions
  Streams,      \* ids of recogniser streams; see Room
  SessionLimits,  \* values of max_sessions to choose from
  Pool,         \* threads of the default executor
  None

ASSUME VoiceAssumption ==
  /\ IsFiniteSet(Calls) /\ IsFiniteSet(Streams)
  /\ SessionLimits \subseteq Nat /\ Pool \in Nat \ {0}
  /\ None \notin Streams

VARIABLES
  engine,    \* the recogniser wired in: "transcribe" or "vendor"
  maxSessions,  \* max_sessions, configured at start
  sessions,  \* keys of VoiceServer._sessions
  idle,      \* now - last_activity > session_timeout_sec
  handle,    \* stt_handle
  active,    \* stt_stream_active
  fallback,  \* is_text_fallback
  playing,   \* is_tts_playing
  pc,        \* where the loop of the call is
  arg,       \* the handle the call's thread was given, or has returned
  heard,     \* what get_final_result brought
  gone,      \* the client has disconnected
  entries,   \* streams the recogniser keeps state for
  orphans,   \* executor threads still synthesising for a turn that gave up
  strays     \* for the properties: streams opened or revived for a session that has ended

object == <<handle, active, fallback, playing>>
config == <<engine, maxSessions>>
stt    == <<config, entries>>
vars   == <<config, sessions, idle, object, pc, arg, heard, gone, entries,
            orphans, strays>>

Engines == {"transcribe", "vendor"}
Results == {"none", "text", "empty", "fallback", "error"}
Waiting == {"off", "ready"}
Steps   == Waiting \cup {"starting", "started", "feeding", "finalizing", "heard",
                         "stopping", "stopped", "asking", "speaking", "dropping", "quiet"}

TypeOK ==
  /\ engine \in Engines /\ maxSessions \in SessionLimits
  /\ sessions \subseteq Calls /\ Cardinality(sessions) <= maxSessions
  /\ idle \in [Calls -> BOOLEAN]
  /\ handle \in [Calls -> Streams \cup {None}]
  /\ active \in [Calls -> BOOLEAN] /\ fallback \in [Calls -> BOOLEAN]
  /\ playing \in [Calls -> BOOLEAN]
  /\ pc \in [Calls -> Steps]
  /\ arg \in [Calls -> Streams \cup {None}]
  /\ heard \in [Calls -> Results]
  /\ gone \in [Calls -> BOOLEAN]
  /\ entries \subseteq Streams /\ strays \subseteq Streams
  /\ orphans \in 0..Pool

Init ==
  /\ engine \in Engines /\ maxSessions \in SessionLimits
  /\ sessions = {}
  /\ idle = [c \in Calls |-> FALSE]
  /\ handle = [c \in Calls |-> None]
  /\ active = [c \in Calls |-> FALSE]
  /\ fallback = [c \in Calls |-> FALSE]
  /\ playing = [c \in Calls |-> FALSE]
  /\ pc = [c \in Calls |-> "off"]
  /\ arg = [c \in Calls |-> None]
  /\ heard = [c \in Calls |-> "none"]
  /\ gone = [c \in Calls |-> FALSE]
  /\ entries = {}
  /\ orphans = 0
  /\ strays = {}

Goto(c, l) == pc' = [pc EXCEPT ![c] = l]
Touch(c)   == idle' = [idle EXCEPT ![c] = FALSE]

(* stop_stream is a pop that tolerates a stream it does not know; a handle of *)
(* None raises, which every caller of stop_stream ignores.                    *)
StopStreams(S) == entries' = entries \ S

(***************************************************************************)
(* create_session, or a refusal at max_sessions.  A stray stream keeps its *)
(* id until a restart; Room leaves every open call an id for its next stream.     *)
(***************************************************************************)
Room == Cardinality(strays) + Cardinality({c \in Calls : pc[c] # "off"}) < Cardinality(Streams)

UncountedSessions == Room   \* mutant of MayConnect
MayConnect == Cardinality(sessions) < maxSessions /\ Room

Connect(c) ==
  /\ pc[c] = "off"
  /\ MayConnect
  /\ sessions' = sessions \cup {c}
  /\ Touch(c)
  /\ Goto(c, "ready")
  /\ UNCHANGED <<object, arg, heard, gone, stt, orphans, strays>>

(* end_session for the sessions of E that are still there. *)
KeepHandle(E) == UNCHANGED <<entries, handle, active>>   \* mutant of EndStreams
EndStreams(E) ==
  /\ StopStreams({handle[c] : c \in E \cap sessions})
  /\ handle' = [c \in Calls |-> IF c \in E THEN None ELSE handle[c]]
  /\ active' = [c \in Calls |-> IF c \in E THEN FALSE ELSE active[c]]

(* cleanup_expired_sessions: also under a handler that takes longer than the *)
(* session timeout, whose next steps then work on a session that has ended.  *)
Expired == {c \in sessions : idle[c]}

GoIdle(c) ==
  /\ c \in sessions /\ ~idle[c]
  /\ idle' = [idle EXCEPT ![c] = TRUE]
  /\ UNCHANGED <<sessions, object, pc, arg, heard, gone, stt, orphans, strays>>

Cleanup ==
  /\ Expired # {}
  /\ sessions' = sessions \ Expired
  /\ EndStreams(Expired)
  /\ UNCHANGED <<config, idle, fallback, playing, pc, arg, heard, gone,
                 orphans, strays>>

(* The client closes the socket; the loop learns of it at its next receive or *)
(* send, and ends the session if it is still there.  A malformed message ends *)
(* the loop in the same way.                                                  *)
Disconnect(c) ==
  /\ pc[c] # "off" /\ ~gone[c]
  /\ gone' = [gone EXCEPT ![c] = TRUE]
  /\ UNCHANGED <<sessions, idle, object, pc, arg, heard, stt, orphans, strays>>

HangUp(c) ==
  /\ pc[c] = "ready"
  /\ sessions' = sessions \ {c}
  /\ EndStreams({c})
  /\ Goto(c, "off")
  /\ fallback' = [fallback EXCEPT ![c] = FALSE]
  /\ gone' = [gone EXCEPT ![c] = FALSE]
  /\ Touch(c)
  /\ UNCHANGED <<config, playing, arg, heard, orphans, strays>>

(***************************************************************************)
(* The handlers.  Each first looks the session up; a call whose session    *)
(* has expired is told session_not_found and nothing changes.  A thread    *)
(* waits for a free place in the executor.                                 *)
(***************************************************************************)
Found(c) == c \in sessions /\ Touch(c)
FreeThread == orphans < Pool
Answer(c) == Goto(c, "ready") /\ arg' = [arg EXCEPT ![c] = None]

(* handle_audio_chunk *)
AudioChunk(c) ==
  /\ pc[c] = "ready" /\ ~gone[c]
  /\ Found(c)
  /\ \/ /\ fallback[c]
        /\ UNCHANGED <<pc, arg>>
     \/ /\ ~fallback[c] /\ ~active[c]
        /\ Goto(c, "starting")
        /\ UNCHANGED arg
     \/ /\ ~fallback[c] /\ active[c]
        /\ Goto(c, "feeding")
        /\ arg' = [arg EXCEPT ![c] = handle[c]]
  /\ UNCHANGED <<sessions, object, heard, gone, stt, orphans, strays>>

Fresh(s) == s \notin entries \cup strays
            /\ \A c \in Calls : s # handle[c] /\ s # arg[c]

(* FallbackSTTEngine hands on that the vendor's stream cannot be opened. *)
StartRefused(c) == engine = "vendor" /\ Answer(c) /\ UNCHANGED entries

StartStream(c) ==
  /\ pc[c] = "starting" /\ FreeThread
  /\ \/ \E s \in Streams :
          /\ Fresh(s)
          /\ entries' = entries \cup {s}
          /\ arg' = [arg EXCEPT ![c] = s]
          /\ Goto(c, "started")
     \/ StartRefused(c)
  /\ UNCHANGED <<config, sessions, idle, object, heard, gone, orphans, strays>>

Started(c) ==
  /\ pc[c] = "started"
  /\ handle' = [handle EXCEPT ![c] = arg[c]]
  /\ active' = [active EXCEPT ![c] = TRUE]
  /\ strays' = IF c \in sessions THEN strays ELSE strays \cup {arg[c]}
  /\ Goto(c, "feeding")
  /\ UNCHANGED <<sessions, idle, fallback, playing, arg, heard, gone, stt, orphans>>

(* TranscribeSTTEngine appends to whatever buffer is there, or to none.  The *)
(* vendor adapter refuses a stream it does not have, but looks before it     *)
(* appends: the end of the session may stop the stream in between.           *)
ProcessAudioChunk(c) ==
  /\ pc[c] = "feeding" /\ FreeThread
  /\ \/ /\ engine = "transcribe" \/ c \notin sessions
        /\ entries' = entries \cup {arg[c]}
     \/ engine = "vendor" /\ UNCHANGED entries
  /\ strays' = IF c \in sessions THEN strays ELSE strays \cup ({arg[c]} \cap entries')
  /\ Answer(c)
  /\ UNCHANGED <<config, sessions, idle, object, heard, gone, orphans>>

(* handle_end: the final result, *)
End(c) ==
  /\ pc[c] = "ready" /\ ~gone[c]
  /\ Found(c)
  /\ \/ /\ ~active[c] \/ handle[c] = None
        /\ UNCHANGED <<pc, arg>>
     \/ /\ active[c] /\ handle[c] # None
        /\ Goto(c, "finalizing")
        /\ arg' = [arg EXCEPT ![c] = handle[c]]
  /\ UNCHANGED <<sessions, object, heard, gone, stt, orphans, strays>>

(* which takes the stream out of the recogniser; the vendor adapter does not *)
(* when it raises.                                                           *)
Recognised(c) == IF arg[c] \in entries THEN {"text", "empty"} ELSE {"empty"}

(* With audio to send, the streaming call may raise; after its time-out it gives *)
(* what has been recognised by then.                                            *)
TranscribeFails(c) ==
  /\ engine = "transcribe" /\ arg[c] \in entries
  /\ heard' = [heard EXCEPT ![c] = "error"]
  /\ entries' = entries \ {arg[c]}

VendorFails(c) ==
  /\ engine = "vendor" /\ arg[c] \in entries
  /\ heard' = [heard EXCEPT ![c] = "fallback"]
  /\ UNCHANGED entries

GetFinalResult(c) ==
  /\ pc[c] = "finalizing" /\ FreeThread
  /\ \/ /\ \E r \in Recognised(c) : heard' = [heard EXCEPT ![c] = r]
        /\ entries' = entries \ {arg[c]}
     \/ TranscribeFails(c)
     \/ VendorFails(c)
  /\ Goto(c, "heard")
  /\ UNCHANGED <<config, sessions, idle, object, arg, gone, orphans, strays>>

(* and the stream's end, whatever came of it. *)
Heard(c) ==
  /\ pc[c] = "heard"
  /\ fallback' = [fallback EXCEPT ![c] = @ \/ heard[c] = "fallback"]
  /\ arg' = [arg EXCEPT ![c] = handle[c]]
  /\ Goto(c, "stopping")
  /\ UNCHANGED <<sessions, idle, handle, active, playing, heard, gone, stt, orphans, strays>>

StopStream(c) ==
  /\ \/ pc[c] = "stopping" /\ Goto(c, "stopped")
     \/ pc[c] = "dropping" /\ Goto(c, "quiet")
  /\ FreeThread
  /\ StopStreams({arg[c]})
  /\ UNCHANGED <<config, sessions, idle, object, arg, heard, gone, orphans, strays>>

ForgetHandleOnly(c) == handle' = [handle EXCEPT ![c] = None] /\ UNCHANGED active   \* mutant of Forget
Forget(c) ==
  /\ handle' = [handle EXCEPT ![c] = None]
  /\ active' = [active EXCEPT ![c] = FALSE]

WaitForText(c) ==   \* mutant of AfterEnd
  \/ heard[c] = "text" /\ Goto(c, "asking") /\ UNCHANGED arg
  \/ heard[c] = "empty" /\ Goto(c, "finalizing") /\ UNCHANGED arg
  \/ heard[c] \notin {"text", "empty"} /\ Answer(c)
AfterEnd(c) == IF heard[c] = "text" THEN Goto(c, "asking") /\ UNCHANGED arg ELSE Answer(c)

Stopped(c) ==
  /\ pc[c] = "stopped"
  /\ Forget(c)
  /\ AfterEnd(c)
  /\ heard' = [heard EXCEPT ![c] = "none"]
  /\ UNCHANGED <<sessions, idle, fallback, playing, gone, stt, orphans, strays>>

(* handle_text *)
Text(c) ==
  /\ pc[c] = "ready" /\ ~gone[c]
  /\ Found(c)
  /\ Goto(c, "asking")
  /\ UNCHANGED <<sessions, object, arg, heard, gone, stt, orphans, strays>>

(* The dialogue and the speech for its answer.  That the call keeps the id of *)
(* the dialogue's session (pipeline_session_id) is left out: nothing reads it  *)
(* but the dialogue.                                                          *)
Ask(c) ==
  /\ pc[c] = "asking"
  /\ \/ /\ Goto(c, "speaking")
        /\ playing' = [playing EXCEPT ![c] = TRUE]
        /\ UNCHANGED arg
     \/ /\ Answer(c)   \* process has raised
        /\ UNCHANGED playing
  /\ UNCHANGED <<sessions, idle, handle, active, fallback, heard, gone, stt, orphans, strays>>

(* Synthesis is given ten seconds.  A thread that is still at it then goes on, *)
(* and keeps its place in the executor; one that had not begun is cancelled.   *)
Abandon == orphans' \in {orphans, orphans + 1} /\ orphans' <= Pool

Synthesize(c) ==
  /\ pc[c] = "speaking"
  /\ (FreeThread /\ UNCHANGED orphans) \/ Abandon
  /\ playing' = [playing EXCEPT ![c] = FALSE]
  /\ Answer(c)
  /\ UNCHANGED <<sessions, idle, handle, active, fallback, heard, gone, stt, strays>>

OrphanEnds ==
  /\ orphans > 0
  /\ orphans' = orphans - 1
  /\ UNCHANGED <<sessions, idle, object, pc, arg, heard, gone, stt, strays>>

(* handle_interrupt, which does not count as activity.  Nothing is playing when *)
(* the loop comes to read it, so there is no playback to stop.                 *)
Interrupt(c) ==
  /\ pc[c] = "ready" /\ ~gone[c]
  /\ c \in sessions /\ handle[c] # None
  /\ Goto(c, "dropping")
  /\ arg' = [arg EXCEPT ![c] = handle[c]]
  /\ UNCHANGED <<sessions, idle, object, heard, gone, stt, orphans, strays>>

Interrupted(c) ==
  /\ pc[c] = "quiet"
  /\ Forget(c)
  /\ Answer(c)
  /\ UNCHANGED <<sessions, idle, fallback, playing, heard, gone, stt, orphans, strays>>

(* The process ends between calls and starts again. *)
Restart ==
  /\ \A c \in Calls : pc[c] = "off"
  /\ entries' = {} /\ strays' = {} /\ orphans' = 0
  /\ UNCHANGED <<config, sessions, idle, object, pc, arg, heard, gone>>

Message(c) == AudioChunk(c) \/ End(c) \/ Text(c) \/ Interrupt(c)

Handler(c) ==
  \/ StartStream(c) \/ Started(c) \/ ProcessAudioChunk(c)
  \/ GetFinalResult(c) \/ Heard(c) \/ StopStream(c) \/ Stopped(c)
  \/ Ask(c) \/ Synthesize(c) \/ Interrupted(c)

Next ==
  \/ \E c \in Calls : Connect(c) \/ Message(c) \/ Handler(c) \/ GoIdle(c)
                      \/ Disconnect(c) \/ HangUp(c)
  \/ Cleanup \/ OrphanEnds \/ Restart

Spec == Init /\ [][Next]_vars

(* The loop and the executor run what they were given, synthesis ends by the  *)
(* time-outs of its client, and a closed socket ends the loop of its call.     *)
FairSpec ==
  /\ Spec
  /\ WF_vars(OrphanEnds)
  /\ \A c \in Calls : SF_vars(Handler(c)) /\ WF_vars(gone[c] /\ HangUp(c))
=============================================================================
