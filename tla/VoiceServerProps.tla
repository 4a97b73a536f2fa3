--------------------------- MODULE VoiceServerProps ---------------------------
(* What a voice call has to guarantee. *)
EXTENDS VoiceServer

(* Whatever the order of chunks, ends, interrupts, expiry and hang-ups, the       *)
(* recogniser keeps a stream only for a session that can still stop it, but for   *)
(* those opened or revived (_buffers.get(..., b"") in process_audio_chunk) by a   *)
(* thread that was under way when end_session came.                               *)
StreamsOwned ==
  entries \subseteq strays \cup {handle[c] : c \in sessions}
                           \cup {arg[c] : c \in {d \in Calls : pc[d] = "started"}}

(* Between messages stt_stream_active and stt_handle of a session agree, the      *)
(* stream is one the recogniser has, and no other call's: the next chunk or end   *)
(* depends on it, and expiry and interrupt change both behind the handlers.       *)
HandleIsLive == \A c \in sessions : pc[c] = "ready" =>
  /\ active[c] <=> handle[c] # None
  /\ handle[c] # None => /\ handle[c] \in entries
                         /\ \A d \in Calls \ {c} : handle[d] # handle[c]

(* A client that goes away is noticed and its call ends, whatever its handler is  *)
(* waiting for and however many abandoned syntheses occupy the executor.          *)
GoneCallsEnd == \A c \in Calls : gone[c] ~> pc[c] = "off"

(* docs/feature-spec-phase-g-voice-pipeline.md FR-007: on disconnect the session  *)
(* and its recogniser handle are cleaned up.                                      *)
NoStream == strays = {}
=============================================================================
