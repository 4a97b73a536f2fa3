----------------------------- MODULE CallControl -----------------------------
(***************************************************************************)
(* What a call does beside the dialogue: the keys a caller presses         *)
(* (voice_io/dtmf_processor.py), and the control of the call by            *)
(* ConversationOrchestrator (orchestrator/conversation_orchestrator.py):   *)
(* system control intents, silence, the satisfaction survey and what is    *)
(* done with pressed keys.  One call; times are ages, and stop growing     *)
(* when nothing depends on them any more.                                  *)
(***************************************************************************)
EXTENDS Naturals, SequencesExt

CONSTANTS
  KeyTimeout,   \* timeout_sec of a capture
  KeyTtl,       \* DTMF_SESSION_TTL_SEC
  MaxKeys,      \* bound: keys pressed in one capture
  NoCapture, NoScore

VARIABLES
  capture,    \* DTMFProcessor._sessions of the call
  quiet,      \* for the properties: how long ago a key was last pressed
  told,       \* the action or result the last handler returned
  stage,      \* session.no_response_stage
  endReason,  \* session.end_reason
  surveyed,   \* session.survey_conducted
  csat,       \* session.csat_score
  speed,      \* session.tts_speed_factor, in tenths
  followUp    \* auth_module_called, callback_scheduled

session     == <<stage, endReason, surveyed, csat, speed, followUp>>
controlVars == <<capture, quiet, told, session>>

DigitKeys   == {0, 5, 9}
SpecialKeys == {10, 11}   \* star and hash
InputTypes  == {"birth_date", "satisfaction", "callback_time", "unknown"}
Expected(type) == IF type = "satisfaction" THEN 1 ELSE 2
Captures == [digits : SeqOf(DigitKeys, MaxKeys), type : InputTypes, age : 0..KeyTtl,
             idle : 0..KeyTtl]

ASSUME ControlAssumption ==
  /\ KeyTimeout \in Nat \ {0} /\ KeyTtl \in Nat \ {0} /\ MaxKeys \in Nat
  /\ KeyTimeout < KeyTtl /\ NoCapture \notin Captures


ControlTypeOK ==
  /\ capture \in Captures \cup {NoCapture}
  /\ quiet \in 0..KeyTtl
  /\ stage \in 0..1 /\ endReason \in {"", "NORMAL", "TIMEOUT"}
  /\ surveyed \in BOOLEAN /\ csat \in 1..5 \cup {NoScore} /\ speed \in {10, 15}
  /\ followUp \subseteq {"auth", "callback"}

ControlInit ==
  /\ capture = NoCapture /\ quiet = 0 /\ told = "none"
  /\ stage = 0 /\ endReason = "" /\ surveyed = FALSE /\ csat = NoScore
  /\ speed = 10 /\ followUp = {}

(***************************************************************************)
(* DTMFProcessor.  A capture stays when its input has been read.           *)
(***************************************************************************)
StartCapture(type) ==
  /\ capture' = [digits |-> <<>>, type |-> type, age |-> 0, idle |-> 0]
  /\ quiet' = 0
  /\ UNCHANGED <<told, session>>

DigitsTouch(key) ==   \* mutant of Press
  IF key \in SpecialKeys
  THEN told' = "menu" /\ UNCHANGED capture
  ELSE UNCHANGED told /\ capture' = [capture EXCEPT !.idle = 0, !.digits = Append(@, key)]
Press(key) ==
  IF key \in SpecialKeys
  THEN told' = "menu" /\ capture' = [capture EXCEPT !.idle = 0]
  ELSE UNCHANGED told /\ capture' = [capture EXCEPT !.idle = 0, !.digits = Append(@, key)]

PushDigit(key) ==
  /\ capture # NoCapture
  /\ key \in DigitKeys => Len(capture.digits) < MaxKeys
  /\ Press(key)
  /\ quiet' = 0
  /\ UNCHANGED session

IsComplete == Len(capture.digits) = Expected(capture.type)
IsTimeout  == capture.age >= KeyTimeout /\ Len(capture.digits) < Expected(capture.type)

CleanupExpired ==
  /\ capture # NoCapture /\ capture.idle >= KeyTtl
  /\ capture' = NoCapture
  /\ UNCHANGED <<quiet, told, session>>

Older(t) == IF t < KeyTtl THEN t + 1 ELSE t
Tick ==
  /\ quiet' = Older(quiet)
  /\ capture' = IF capture = NoCapture THEN NoCapture
                ELSE [capture EXCEPT !.age = Older(@), !.idle = Older(@)]
  /\ UNCHANGED <<told, session>>

(***************************************************************************)
(* process_dtmf_input with what get_input gives: whether the input is      *)
(* complete or timed out is not looked at.                                 *)
(***************************************************************************)
Number(digits) == FoldLeft(LAMBDA n, d : 10 * n + d, 0, digits)
ScoreUnchecked(digits) == IF digits # <<>> THEN Number(digits) ELSE NoScore   \* mutant of ScoreOf
ScoreOf(digits) == IF digits # <<>> /\ Number(digits) \in 1..5 THEN Number(digits) ELSE NoScore

ProcessInput ==
  /\ capture # NoCapture
  /\ \/ /\ capture.type = "birth_date"
        /\ told' = "AUTH_REQUIRED" /\ followUp' = followUp \cup {"auth"}
        /\ UNCHANGED csat
     \/ /\ capture.type = "callback_time"
        /\ told' = "PROCESS_BUSINESS" /\ followUp' = followUp \cup {"callback"}
        /\ UNCHANGED csat
     \/ /\ capture.type = "satisfaction"
        /\ IF ScoreOf(capture.digits) = NoScore
           THEN told' = "reask" /\ UNCHANGED csat
           ELSE told' = "SURVEY" /\ csat' = ScoreOf(capture.digits)
        /\ UNCHANGED followUp
     \/ /\ capture.type = "unknown"
        /\ told' = "reask"
        /\ UNCHANGED <<csat, followUp>>
  /\ UNCHANGED <<capture, quiet, stage, endReason, surveyed, speed>>

(***************************************************************************)
(* handle_system_control.  The survey at the end of a call is given no     *)
(* source of answers and is skipped.                                       *)
(***************************************************************************)
Control(what) ==
  /\ told' = what
  /\ UNCHANGED <<capture, quiet, stage, csat, followUp>>

EndCall == /\ Control("end_session")
           /\ surveyed' = TRUE /\ endReason' = "NORMAL"
           /\ UNCHANGED speed
SpeedControl == Control("speed_adjusted") /\ speed' = 15 /\ UNCHANGED <<surveyed, endReason>>
OtherControl == /\ \E what \in {"repeat", "wait", "unknown"} : Control(what)
                /\ UNCHANGED <<surveyed, endReason, speed>>

(* handle_no_response: nothing ever takes the stage back. *)
HandleNoResponse ==
  /\ IF stage = 0
     THEN stage' = 1 /\ told' = "prompt" /\ UNCHANGED endReason
     ELSE endReason' = "TIMEOUT" /\ told' = "end_session" /\ UNCHANGED stage
  /\ UNCHANGED <<capture, quiet, surveyed, csat, speed, followUp>>

(* A call that has ended hears and says nothing more; its capture, if there is *)
(* one, is left to the expiry.                                                 *)
ControlNext ==
  \/ CleanupExpired \/ Tick
  \/ /\ endReason = ""
     /\ \/ \E type \in InputTypes : StartCapture(type)
        \/ \E key \in DigitKeys \cup SpecialKeys : PushDigit(key)
        \/ ProcessInput \/ EndCall \/ SpeedControl \/ OtherControl \/ HandleNoResponse

ControlSpec == ControlInit /\ [][ControlNext]_controlVars

(* "이 시간 동안 push_digit이 없으면 세션 자동 정리" (dtmf_processor.py:18): a caller   *)
(* who keeps pressing keys, star and hash among them, does not lose his input.   *)
TypingSurvives == [][capture # NoCapture /\ capture' = NoCapture => quiet >= KeyTtl]_controlVars

(* start_capture, dtmf_processor.py:44: an input ends by itself, complete or     *)
(* timed out.                                                                    *)
InputConcludes == capture # NoCapture /\ capture.age >= KeyTimeout => IsComplete \/ IsTimeout
=============================================================================
