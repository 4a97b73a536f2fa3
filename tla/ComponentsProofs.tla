-------------------------- MODULE ComponentsProofs --------------------------
(***************************************************************************)
(* Proofs about components that share no state: CallControl (the keys of a *)
(* caller and his calls), Reply (the answer of the language model and the  *)
(* pieces it is read in), Utterances (rules tried in order), CallbackDesk  *)
(* (when a call back is booked), IntentCache, Masking (personal data out   *)
(* of and back into a text) and SpokenNumbers (how an amount is read), for *)
(* every bound on keys, texts and times, any number of retries, any        *)
(* holidays that are finitely many, any finite set of threads that use the *)
(* cache, any fields and letters, and every amount below 10^12.  At the    *)
(* end: what is proved of the ten components holds of MCComponents, which  *)
(* runs one of them beside the others.                                     *)
(***************************************************************************)
EXTENDS MCComponents, SecurityProofs, Lemmas

-------------------------------------------------------------------------------
(* CallControl: the keys of a caller                                         *)

(* As long as a capture has been idle, no key was pressed. *)
IdleIsQuiet == capture # NoCapture => capture.idle = quiet
ControlInv  == ControlTypeOK /\ IdleIsQuiet

LEMMA CaptureAges ==
  ASSUME NEW c \in Captures, NEW i \in 0..KeyTtl, NEW a \in 0..KeyTtl
  PROVE  [c EXCEPT !.age = a, !.idle = i] \in Captures /\ [c EXCEPT !.age = a, !.idle = i].idle = i
BY DEF Captures

LEMMA CaptureTouched ==
  ASSUME NEW c \in Captures, NEW i \in 0..KeyTtl
  PROVE  [c EXCEPT !.idle = i] \in Captures /\ [c EXCEPT !.idle = i].idle = i
BY DEF Captures

LEMMA CaptureGrows ==
  ASSUME NEW c \in Captures, NEW i \in 0..KeyTtl, NEW k \in DigitKeys, Len(c.digits) < MaxKeys
  PROVE  LET d == [c EXCEPT !.idle = i, !.digits = Append(@, k)] IN d \in Captures /\ d.idle = i
<1>1. c.digits \in SeqOf(DigitKeys, MaxKeys)
  BY DEF Captures
<1>2. Append(c.digits, k) \in SeqOf(DigitKeys, MaxKeys)
  BY <1>1, AppendBounded, ControlAssumption
<1> HIDE DEF DigitKeys
<1> QED BY <1>2 DEF Captures

LEMMA KeyTimes == KeyTtl \in Nat /\ 0 \in 0..KeyTtl /\ \A a \in 0..KeyTtl : Older(a) \in 0..KeyTtl
BY ControlAssumption DEF Older

LEMMA NewCapture ==
  ASSUME NEW type \in InputTypes
  PROVE  LET c == [digits |-> <<>>, type |-> type, age |-> 0, idle |-> 0] IN c \in Captures /\ c.idle = 0
<1>1. <<>> \in SeqOf(DigitKeys, MaxKeys)
  BY EmptyBounded, ControlAssumption
<1> QED BY <1>1, KeyTimes DEF Captures

LEMMA ControlInvInit == ControlInit => ControlInv
<1> SUFFICES ASSUME ControlInit PROVE ControlInv
  OBVIOUS
<1>1. quiet \in 0..KeyTtl
  BY KeyTimes, Zenon DEF ControlInit
<1>2. stage \in 0..1 /\ speed \in {10, 15}
  <2>1. stage = 0 /\ speed = 10
    BY Zenon DEF ControlInit
  <2> QED BY <2>1
<1>3. /\ capture = NoCapture /\ endReason \in {"", "NORMAL", "TIMEOUT"} /\ surveyed \in BOOLEAN
      /\ csat \in 1..5 \cup {NoScore} /\ followUp \subseteq {"auth", "callback"}
  BY Zenon DEF ControlInit
<1> QED BY <1>1, <1>2, <1>3, Zenon DEF ControlInv, ControlTypeOK, IdleIsQuiet

(* What an action does to the capture and what it does to the session are apart. *)
CaptureOK == capture \in Captures \cup {NoCapture} /\ quiet \in 0..KeyTtl /\ IdleIsQuiet
CallsOK    == /\ stage \in 0..1 /\ endReason \in {"", "NORMAL", "TIMEOUT"}
             /\ surveyed \in BOOLEAN /\ csat \in 1..5 \cup {NoScore} /\ speed \in {10, 15}
             /\ followUp \subseteq {"auth", "callback"}

LEMMA Pressed ==
  ASSUME CaptureOK, NEW key \in DigitKeys \cup SpecialKeys, PushDigit(key)
  PROVE  capture' \in Captures /\ quiet' \in 0..KeyTtl /\ capture'.idle = quiet'
<1>1. capture \in Captures /\ quiet' = 0 /\ (key \in DigitKeys => Len(capture.digits) < MaxKeys)
  BY Zenon DEF PushDigit, CaptureOK
<1>2. CASE key \in SpecialKeys
  <2>1. capture' = [capture EXCEPT !.idle = 0]
    BY <1>2, Zenon DEF PushDigit, Press
  <2> QED BY <1>1, <2>1, CaptureTouched, KeyTimes, Zenon
<1>3. CASE key \notin SpecialKeys
  <2>1. capture' = [capture EXCEPT !.idle = 0, !.digits = Append(@, key)]
    BY <1>3, Zenon DEF PushDigit, Press
  <2> QED BY <1>1, <1>3, <2>1, CaptureGrows, KeyTimes, Zenon
<1> QED BY <1>2, <1>3

LEMMA Aged ==
  ASSUME CaptureOK, capture # NoCapture, Tick
  PROVE  capture' \in Captures /\ quiet' \in 0..KeyTtl /\ capture'.idle = quiet'
<1>1. quiet' \in 0..KeyTtl /\ quiet' = Older(quiet)
  BY KeyTimes, Zenon DEF Tick, CaptureOK
<1>2. capture \in Captures /\ capture.age \in 0..KeyTtl /\ capture.idle = quiet
  BY Zenon DEF Captures, CaptureOK, IdleIsQuiet
<1>3. capture' = [capture EXCEPT !.age = Older(capture.age), !.idle = Older(capture.idle)]
  BY Zenon DEF Tick
<1>4. Older(capture.age) \in 0..KeyTtl /\ Older(capture.idle) \in 0..KeyTtl /\ Older(capture.idle) = quiet'
  <2>1. capture.idle \in 0..KeyTtl
    <3>1. quiet \in 0..KeyTtl
      BY Zenon DEF CaptureOK
    <3> QED BY <1>2, <3>1, Zenon
  <2> QED BY <1>1, <1>2, <2>1, KeyTimes, Zenon
<1> QED BY <1>1, <1>2, <1>3, <1>4, CaptureAges, Zenon

LEMMA CaptureStep ==
  ASSUME CaptureOK, [ControlNext]_controlVars
  PROVE  CaptureOK'
<1> USE DEF CaptureOK, IdleIsQuiet
<1>1. CASE UNCHANGED <<capture, quiet>>
  BY <1>1, Zenon
<1>2. ASSUME NEW type \in InputTypes, StartCapture(type)
      PROVE  CaptureOK'
  BY <1>2, NewCapture, KeyTimes, Zenon DEF StartCapture
<1>3. ASSUME NEW key \in DigitKeys \cup SpecialKeys, PushDigit(key)
      PROVE  CaptureOK'
  BY <1>3, Pressed, Zenon
<1>4. CASE CleanupExpired
  BY <1>4, Zenon DEF CleanupExpired
<1>5. CASE Tick
  <2>1. CASE capture = NoCapture
    <3>1. quiet' \in 0..KeyTtl
      BY <1>5, KeyTimes, Zenon DEF Tick
    <3> QED BY <1>5, <2>1, <3>1, Zenon DEF Tick
  <2> QED BY <1>5, <2>1, Aged, Zenon
<1>6. CASE UNCHANGED controlVars
  BY <1>1, <1>6, Zenon DEF controlVars
<1>7. CASE ProcessInput \/ EndCall \/ SpeedControl \/ OtherControl \/ HandleNoResponse
  BY <1>1, <1>7, Zenon DEF ProcessInput, EndCall, SpeedControl, OtherControl, HandleNoResponse, Control
<1> QED BY <1>2, <1>3, <1>4, <1>5, <1>6, <1>7, Zenon DEF ControlNext

LEMMA CallStep ==
  ASSUME CallsOK, [ControlNext]_controlVars
  PROVE  CallsOK'
<1> USE DEF CallsOK
<1>1. CASE UNCHANGED session
  BY <1>1, Zenon DEF session
<1>2. CASE ProcessInput
  <2>1. csat' = csat \/ (csat' = ScoreOf(capture.digits) /\ csat' # NoScore)
    BY <1>2, Zenon DEF ProcessInput
  <2>2. csat' \in 1..5 \cup {NoScore}
    BY <2>1, Zenon DEF ScoreOf
  <2>3. followUp' \subseteq {"auth", "callback"}
    BY <1>2, Zenon DEF ProcessInput
  <2> QED BY <1>2, <2>2, <2>3, Zenon DEF ProcessInput
<1>3. CASE EndCall \/ SpeedControl \/ OtherControl
  BY <1>3, Zenon DEF EndCall, SpeedControl, OtherControl, Control
<1>4. CASE HandleNoResponse
  <2>1. stage' \in 0..1
    <3>1. stage' = stage \/ stage' = 1
      BY <1>4, Zenon DEF HandleNoResponse
    <3>2. stage \in 0..1
      BY Zenon
    <3> HIDE DEF CallsOK
    <3> QED BY <3>1, <3>2
  <2> QED BY <1>4, <2>1, Zenon DEF HandleNoResponse
<1>5. CASE UNCHANGED controlVars
  BY <1>1, <1>5, Zenon DEF controlVars
<1>6. CASE CleanupExpired \/ Tick \/ (\E type \in InputTypes : StartCapture(type))
           \/ (\E key \in DigitKeys \cup SpecialKeys : PushDigit(key))
  BY <1>1, <1>6, Zenon DEF CleanupExpired, Tick, StartCapture, PushDigit
<1> QED BY <1>2, <1>3, <1>4, <1>5, <1>6, Zenon DEF ControlNext

LEMMA ControlAlways == ControlSpec => []ControlInv
<1>1. ControlInit => ControlInv
  BY ControlInvInit
<1>2. ControlInv /\ [ControlNext]_controlVars => ControlInv'
  BY CaptureStep, CallStep, Zenon DEF ControlInv, ControlTypeOK, CaptureOK, CallsOK, IdleIsQuiet
<1> QED BY <1>1, <1>2, PTL DEF ControlSpec

(* The capture, the survey and the state of a call keep their types (process_dtmf_input *)
(* stores a score from one to five only), for all limits and lengths.                    *)
THEOREM ControlTypeCorrect == ControlSpec => []ControlTypeOK
BY ControlAlways, PTL DEF ControlInv

(* DTMFProcessor's expiry takes a capture away only from a caller who has pressed no key *)
(* for the time to live, star and hash included, whatever is done with the capture.      *)
THEOREM KeysAreKept == ControlSpec => TypingSurvives
<1>1. ControlInv /\ [ControlNext]_controlVars =>
        [capture # NoCapture /\ capture' = NoCapture => quiet >= KeyTtl]_controlVars
  <2> SUFFICES ASSUME ControlInv, ControlNext, capture # NoCapture, capture' = NoCapture
               PROVE  quiet >= KeyTtl
    BY Zenon DEF controlVars
  <2>1. CaptureOK /\ NoCapture \notin Captures
    BY ControlAssumption, Zenon DEF ControlInv, ControlTypeOK, CaptureOK
  <2>2. \A type \in InputTypes : ~StartCapture(type)
    BY <2>1, NewCapture, Zenon DEF StartCapture
  <2>3. \A key \in DigitKeys \cup SpecialKeys : ~PushDigit(key)
    BY <2>1, Pressed, Zenon
  <2>4. ~Tick
    BY <2>1, Aged, Zenon
  <2>5. ~(ProcessInput \/ EndCall \/ SpeedControl \/ OtherControl \/ HandleNoResponse)
    BY Zenon DEF ProcessInput, EndCall, SpeedControl, OtherControl, HandleNoResponse, Control
  <2>6. CleanupExpired
    BY <2>2, <2>3, <2>4, <2>5, Zenon DEF ControlNext
  <2> QED BY <2>1, <2>6, Zenon DEF CleanupExpired, CaptureOK, IdleIsQuiet
<1> QED BY <1>1, ControlAlways, PTL DEF ControlSpec, TypingSurvives

-------------------------------------------------------------------------------
(* Reply: the retries of the language model and what is said of its answer   *)

ReplyInv == /\ attempt \in 0..MaxRetries /\ waited = SleptFor(attempt)
            /\ outcome \in {"none", "text"} \cup Raised /\ parts \in Texts /\ sent \in Texts
            /\ throttles = IF outcome = "exhausted" THEN MaxRetries + 1 ELSE attempt
            /\ outcome = "exhausted" => attempt = MaxRetries
            /\ outcome \in {"none", "text"} => parts = sent
            /\ outcome = "text" => sent # <<>>

LEMMA ReplyInvInit == ReplyInit => ReplyInv
<1>1. <<>> \in Texts
  BY EmptyBounded, ReplyAssumption DEF Texts
<1> QED BY <1>1, ReplyAssumption DEF ReplyInit, ReplyInv, SleptFor

LEMMA ReplyInvStep == ReplyInv /\ [ReplyNext]_replyVars => ReplyInv'
<1> SUFFICES ASSUME ReplyInv, [ReplyNext]_replyVars PROVE ReplyInv'
  OBVIOUS
<1>0. <<>> \in Texts
  BY EmptyBounded, ReplyAssumption DEF Texts
<1>1. CASE Delta
  <2>1. parts' \in Texts /\ sent' = parts' /\ outcome = "none"
    BY <1>1, AppendBounded, ReplyAssumption DEF Delta, ReplyInv, Texts
  <2> QED BY <1>1, <2>1 DEF Delta, ReplyInv
<1>2. CASE StreamEnds
  BY <1>2 DEF StreamEnds, ReplyInv, Raised
<1>3. CASE Fails
  BY <1>3, <1>0 DEF Fails, ReplyInv, Raised
<1>4. CASE Throttled
  <2>0. /\ outcome = "none" /\ parts' = <<>> /\ sent' = <<>> /\ throttles' = throttles + 1
        /\ attempt \in Nat /\ MaxRetries \in Nat /\ attempt <= MaxRetries /\ throttles = attempt
    BY <1>4, ReplyAssumption DEF Throttled, ReplyInv
  <2>1. CASE attempt < MaxRetries
    <3>1. attempt' = attempt + 1 /\ waited' = waited + WaitSeconds(attempt) /\ outcome' = "none"
      BY <1>4, <2>0, <2>1 DEF Throttled, Retry
    <3>2. attempt' \in 0..MaxRetries /\ waited' = SleptFor(attempt')
      BY <2>0, <2>1, <3>1 DEF ReplyInv, WaitSeconds, SleptFor
    <3> QED BY <1>0, <2>0, <3>1, <3>2 DEF ReplyInv
  <2>2. CASE ~(attempt < MaxRetries)
    BY <1>4, <1>0, <2>0, <2>2 DEF Throttled, Retry, ReplyInv, Raised
  <2> QED BY <2>1, <2>2
<1>5. CASE UNCHANGED replyVars
  BY <1>5, Zenon DEF replyVars, ReplyInv
<1> QED BY <1>1, <1>2, <1>3, <1>4, <1>5, Zenon DEF ReplyNext

LEMMA ReplyAlways == ReplySpec => []ReplyInv
BY ReplyInvInit, ReplyInvStep, PTL DEF ReplySpec

(* However often the model is throttled: attempts, waits, outcomes and texts keep their  *)
(* ranges, the waits together take at most three seconds for each attempt.               *)
THEOREM ReplyTypeCorrect == ReplySpec => []ReplyTypeOK
<1>1. ReplyInv => ReplyTypeOK
  <2> SUFFICES ASSUME ReplyInv PROVE ReplyTypeOK
    OBVIOUS
  <2>1. attempt \in Nat /\ attempt <= MaxRetries /\ MaxRetries \in Nat
    BY ReplyAssumption DEF ReplyInv
  <2>2. waited \in 0..(3 * MaxRetries) /\ throttles \in 0..(MaxRetries + 1)
    BY <2>1 DEF ReplyInv, SleptFor
  <2> QED BY <2>2, Zenon DEF ReplyInv, ReplyTypeOK
<1> QED BY <1>1, ReplyAlways, PTL

(* GivesUpInTime (_invoke_with_retry), for every max_retries: what a call has slept is   *)
(* 0, 1, 3, 6, ... seconds for its retries, it gives up exactly when all its attempts    *)
(* were turned away, and its text is that of one attempt.                                *)
THEOREM RetriesEndInTime == ReplySpec => []GivesUpInTime
<1>1. ReplyInv => GivesUpInTime
  BY ReplyAssumption DEF ReplyInv, GivesUpInTime
<1> QED BY <1>1, ReplyAlways, PTL

(* HallucinationVerifier.verify on any answer of the model, replaced or cut: it passes   *)
(* only what was said with confidence, with data at hand, and naming their amount.       *)
THEOREM PassedIsChecked == ReplySpec => []FactsAreChecked
<1>1. FactsAreChecked
  <2>1. ASSUME NEW t, NEW confident \in BOOLEAN, NEW db \in {"data", "down"},
               Verify(t, confident, TRUE, db) = "PASS"
        PROVE  confident /\ db = "data" /\ \E p \in ToSet(t) : Shows(p, "5000")
    <3>1. confident /\ db = "data" /\ ~Discrepant(t)
      BY <2>1 DEF Verify
    <3>2. PICK i \in DOMAIN t : Shows(t[i], "5000")
      BY <3>1, Zenon DEF Discrepant
    <3> QED BY <3>1, <3>2, Zenon DEF ToSet
  <2> QED BY <2>1, Zenon DEF FactsAreChecked
<1> QED BY <1>1, PTL

-------------------------------------------------------------------------------
(* Reply: the pieces the speech synthesis is given                           *)

(* A text as a sequence of sequences, blanks empty. *)
Marks(t) == [i \in DOMAIN t |-> Word(t[i])]

LEMMA MarksIs ==
  ASSUME NEW t \in Seq(Parts)
  PROVE  /\ Marks(t) \in Seq(Seq(Parts)) /\ Len(Marks(t)) = Len(t) /\ Spoken(t) = FlattenSeq(Marks(t))
         /\ \A i \in 1..Len(t) : Marks(t)[i] = Word(t[i])
<1>1. \A p \in Parts : Word(p) \in Seq(Parts)
  <2> HIDE DEF Parts
  <2> QED BY DEF Word
<1> HIDE DEF Parts
<1>2. DOMAIN t = 1..Len(t) /\ \A i \in 1..Len(t) : t[i] \in Parts
  OBVIOUS
<1>3. Marks(t) \in [1..Len(t) -> Seq(Parts)]
  BY <1>1, <1>2 DEF Marks
<1>4. Marks(t) \in Seq(Seq(Parts)) /\ Len(Marks(t)) = Len(t)
  BY <1>3
<1>5. \A i \in 1..Len(t) : Marks(t)[i] = Word(t[i])
  BY <1>2 DEF Marks
<1>6. Spoken(t) = FlattenSeq(Marks(t))
  BY Zenon DEF Spoken, Marks
<1> QED BY <1>4, <1>5, <1>6

LEMMA SpokenJoins ==
  ASSUME NEW s \in Seq(Parts), NEW t \in Seq(Parts)
  PROVE  Spoken(s \o t) = Spoken(s) \o Spoken(t)
<1> HIDE DEF Parts
<1>1. s \o t \in Seq(Parts) /\ Len(s \o t) = Len(s) + Len(t)
  OBVIOUS
<1>2. PICK u : u = Marks(s)
  OBVIOUS
<1>3. PICK v : v = Marks(t)
  OBVIOUS
<1>4. PICK w : w = Marks(s \o t)
  OBVIOUS
<1>5. /\ u \in Seq(Seq(Parts)) /\ Len(u) = Len(s) /\ \A i \in 1..Len(s) : u[i] = Word(s[i])
      /\ Spoken(s) = FlattenSeq(u)
  BY <1>2, MarksIs, Zenon
<1>6. /\ v \in Seq(Seq(Parts)) /\ Len(v) = Len(t) /\ \A i \in 1..Len(t) : v[i] = Word(t[i])
      /\ Spoken(t) = FlattenSeq(v)
  BY <1>3, MarksIs, Zenon
<1>7. /\ w \in Seq(Seq(Parts)) /\ Len(w) = Len(s \o t) /\ \A i \in 1..Len(s \o t) : w[i] = Word((s \o t)[i])
      /\ Spoken(s \o t) = FlattenSeq(w)
  BY <1>1, <1>4, MarksIs, Zenon
<1>8. w = u \o v
  <2>1. u \o v \in Seq(Seq(Parts)) /\ Len(u \o v) = Len(w)
    BY <1>1, <1>5, <1>6, <1>7
  <2>2. \A i \in 1..Len(w) : w[i] = (u \o v)[i]
    <3> SUFFICES ASSUME NEW i \in 1..Len(w) PROVE w[i] = (u \o v)[i]
      OBVIOUS
    <3>1. CASE i <= Len(s)
      BY <1>1, <1>5, <1>6, <1>7, <3>1
    <3>2. CASE ~(i <= Len(s))
      <4>1. (s \o t)[i] = t[i - Len(s)] /\ i - Len(s) \in 1..Len(t) /\ i \in 1..Len(s \o t)
        BY <1>1, <1>7, <3>2
      <4>2. (u \o v)[i] = v[i - Len(s)]
        <5>1. i \in 1..(Len(u) + Len(v)) /\ ~(i <= Len(u))
          BY <1>1, <1>5, <1>6, <1>7, <3>2
        <5>2. u \in Seq(Seq(Parts)) /\ v \in Seq(Seq(Parts)) /\ Len(u) = Len(s)
          BY <1>5, <1>6, Zenon
        <5>3. \A j \in 1..(Len(u) + Len(v)) : (u \o v)[j] = IF j <= Len(u) THEN u[j] ELSE v[j - Len(u)]
          BY <5>2, ConcatProperties
        <5> QED BY <5>1, <5>2, <5>3, Zenon
      <4> QED BY <1>6, <1>7, <4>1, <4>2
    <3> QED BY <3>1, <3>2
  <2> QED BY <1>7, <2>1, <2>2, SeqEqual
<1> QED BY <1>5, <1>6, <1>7, <1>8, FlattenConcat

LEMMA BlankIsSilent ==
  ASSUME NEW t \in Seq(Parts), \A i \in 1..Len(t) : Blank(t[i])
  PROVE  Spoken(t) = <<>>
<1> HIDE DEF Parts
<1>1. PICK u : u = Marks(t)
  OBVIOUS
<1>2. /\ u \in Seq(Seq(Parts)) /\ Len(u) = Len(t) /\ \A i \in 1..Len(t) : u[i] = Word(t[i])
      /\ Spoken(t) = FlattenSeq(u)
  BY <1>1, MarksIs, Zenon
<1>3. \A i \in 1..Len(u) : u[i] = <<>>
  BY <1>2 DEF Word
<1> QED BY <1>2, <1>3, FlattenEmpties, Zenon

(* strip takes blanks away and nothing else. *)
LEMMA StripIs ==
  ASSUME NEW t \in Seq(Parts)
  PROVE  /\ Strip(t) \in Seq(Parts) /\ Len(Strip(t)) <= Len(t) /\ Spoken(Strip(t)) = Spoken(t)
         /\ (\E i \in 1..Len(t) : ~Blank(t[i])) => Strip(t) # <<>>
<1> HIDE DEF Parts
<1> DEFINE W == {i \in DOMAIN t : ~Blank(t[i])}
<1>0. DOMAIN t = 1..Len(t) /\ Len(t) \in Nat
  OBVIOUS
<1>1. CASE W = {}
  <2>1. Strip(t) = <<>>
    BY <1>1, Zenon DEF Strip
  <2>2. \A i \in 1..Len(t) : Blank(t[i])
    BY <1>0, <1>1
  <2>3. Spoken(t) = <<>>
    BY <2>2, BlankIsSilent, Zenon
  <2>4. <<>> \in Seq(Parts) /\ Len(<<>>) = 0
    OBVIOUS
  <2>5. Spoken(<<>>) = <<>>
    <3>1. \A i \in 1..Len(<<>>) : Blank(<<>>[i])
      BY <2>4
    <3> QED BY <2>4, <3>1, BlankIsSilent, Zenon
  <2> QED BY <1>0, <2>1, <2>2, <2>3, <2>4, <2>5
<1>2. CASE W # {}
  <2>1. PICK m : m = Min(W)
    OBVIOUS
  <2>2. PICK n : n = Max(W)
    OBVIOUS
  <2>3. Strip(t) = SubSeq(t, m, n)
    BY <1>2, <2>1, <2>2, Zenon DEF Strip
  <2>4. W \in SUBSET Nat /\ W \in SUBSET (0..Len(t))
    BY <1>0
  <2>5. m \in W /\ n \in W /\ \A k \in W : m <= k /\ k <= n
    <3> HIDE DEF W
    <3>1. m \in W /\ \A k \in W : m <= k
      BY <1>2, <2>1, <2>4, MinOfNats, Zenon
    <3>2. n \in W /\ \A k \in W : k <= n
      BY <1>0, <1>2, <2>2, <2>4, MaxOfNats, Zenon
    <3> QED BY <3>1, <3>2
  <2>6. m \in 1..Len(t) /\ n \in m..Len(t)
    BY <1>0, <2>5
  <2> DEFINE a == SubSeq(t, 1, m - 1)
             b == SubSeq(t, m, n)
             c == SubSeq(t, n + 1, Len(t))
  <2>7. a \in Seq(Parts) /\ b \in Seq(Parts) /\ c \in Seq(Parts) /\ Len(b) = n - m + 1
    BY <2>6
  <2>8. Spoken(a) = <<>>
    <3>1. Len(a) = m - 1 /\ \A i \in 1..(m - 1) : a[i] = t[i] /\ i \in 1..Len(t) /\ i < m
      BY <2>6
    <3> HIDE DEF a
    <3>2. \A i \in 1..Len(a) : Blank(a[i])
      BY <1>0, <2>5, <2>6, <3>1
    <3> QED BY <2>7, <3>2, BlankIsSilent, Zenon
  <2>9. Spoken(c) = <<>>
    <3>1. Len(c) = Len(t) - n /\ \A i \in 1..(Len(t) - n) : c[i] = t[n + i] /\ n + i \in 1..Len(t) /\ n < n + i
      BY <2>6
    <3> HIDE DEF c
    <3>2. \A i \in 1..Len(c) : Blank(c[i])
      BY <1>0, <2>5, <2>6, <3>1
    <3> QED BY <2>7, <3>2, BlankIsSilent, Zenon
  <2>10. t = (a \o b) \o c
    <3>1. a \o b = SubSeq(t, 1, n)
      <4>1. 1 \in 1..Len(t) + 1 /\ m - 1 \in (1 - 1)..Len(t) /\ n \in (m - 1)..Len(t) /\ (m - 1) + 1 = m
        BY <2>6
      <4>2. SubSeq(t, 1, m - 1) \o SubSeq(t, (m - 1) + 1, n) = SubSeq(t, 1, n)
        <5> HIDE DEF a, b, c
        <5>1. PICK j \in Nat : j = m - 1
          BY <2>6
        <5>2. 1 \in 1..Len(t) + 1 /\ j \in (1 - 1)..Len(t) /\ n \in j..Len(t)
          BY <4>1, <5>1
        <5>3. SubSeq(t, 1, j) \o SubSeq(t, j + 1, n) = SubSeq(t, 1, n)
          BY <5>2, ConcatAdjacentSubSeq
        <5> QED BY <5>1, <5>3
      <4> QED BY <4>1, <4>2
    <3>2. SubSeq(t, 1, n) \o c = SubSeq(t, 1, Len(t))
      <4>1. 1 \in 1..Len(t) + 1 /\ n \in (1 - 1)..Len(t) /\ Len(t) \in n..Len(t)
        BY <2>6
      <4> HIDE DEF a, b, W
      <4>2. SubSeq(t, 1, n) \o SubSeq(t, n + 1, Len(t)) = SubSeq(t, 1, Len(t))
        BY <4>1, ConcatAdjacentSubSeq
      <4> QED BY <4>2
    <3>3. SubSeq(t, 1, Len(t)) = t
      BY SubSeqFull
    <3> QED BY <3>1, <3>2, <3>3, Zenon
  <2> HIDE DEF a, b, c
  <2>11. Spoken(t) = Spoken(b)
    <3>1. a \o b \in Seq(Parts)
      BY <2>7
    <3>2. Spoken((a \o b) \o c) = (Spoken(a) \o Spoken(b)) \o Spoken(c)
      BY <2>7, <3>1, SpokenJoins
    <3>3. Spoken(b) \in Seq(Parts)
      BY <2>7, MarksIs, FlattenType
    <3>4. (<<>> \o Spoken(b)) \o <<>> = Spoken(b)
      BY <3>3
    <3> QED BY <2>8, <2>9, <2>10, <3>2, <3>4, Zenon
  <2>12. b = Strip(t)
    BY <2>3, Zenon DEF b
  <2> QED BY <2>6, <2>7, <2>11, <2>12
<1> QED BY <1>1, <1>2

(* Both halves are shorter, the first can be played, and together they say it all. *)
LEMMA HalvesAre ==
  ASSUME NEW t \in Seq(Parts), Len(t) > MaxLength
  PROVE  \E a, b \in Seq(Parts) :
           /\ Halves(t) = <<a, b>> /\ a # <<>> /\ Len(a) <= MaxLength /\ Len(b) < Len(t)
           /\ Spoken(a) \o Spoken(b) = Spoken(t)
<1> HIDE DEF Parts
<1> DEFINE stops == {i \in 1..MaxLength : t[i] = "."}
           u(k) == SubSeq(t, 1, k)
           v(k) == SubSeq(t, k + 1, Len(t))
<1>0. MaxLength \in Nat /\ MaxLength >= 1
  BY ReplyAssumption
<1>1. ASSUME NEW k \in 1..MaxLength
      PROVE  /\ u(k) \in Seq(Parts) /\ v(k) \in Seq(Parts) /\ Len(u(k)) = k /\ Len(v(k)) < Len(t)
             /\ \A i \in 1..k : u(k)[i] = t[i]
             /\ Spoken(u(k)) \o Spoken(v(k)) = Spoken(t)
  <2>1. k \in Nat /\ 1 <= k /\ k < Len(t) /\ Len(t) \in Nat
    BY <1>0
  <2>2. /\ u(k) \in Seq(Parts) /\ v(k) \in Seq(Parts) /\ Len(u(k)) = k /\ Len(v(k)) < Len(t)
        /\ \A i \in 1..k : u(k)[i] = t[i]
    BY <2>1
  <2>3. u(k) \o v(k) = t
    <3>1. 1 \in 1..Len(t) + 1 /\ k \in (1 - 1)..Len(t) /\ Len(t) \in k..Len(t)
      BY <2>1
    <3>2. u(k) \o v(k) = SubSeq(t, 1, Len(t))
      BY <3>1, ConcatAdjacentSubSeq
    <3> QED BY <3>2, SubSeqFull
  <2> HIDE DEF u, v
  <2> QED BY <2>2, <2>3, SpokenJoins
<1>2. CASE stops # {}
  <2>1. PICK k : k = Max(stops)
    OBVIOUS
  <2>2. k \in stops
    <3>1. stops \in SUBSET (0..MaxLength)
      BY <1>0
    <3> HIDE DEF stops
    <3> QED BY <1>0, <1>2, <2>1, <3>1, MaxOfNats, Zenon
  <2>3. k \in 1..MaxLength /\ t[k] = "."
    BY <2>2
  <2>4. Halves(t) = <<Strip(u(k)), Strip(v(k))>>
    BY <1>2, <2>1, Zenon DEF Halves, CutBehind
  <2>5. PICK x, y \in Seq(Parts) : x = u(k) /\ y = v(k)
    BY <1>1, <2>3
  <2>6. /\ Len(x) = k /\ Len(y) < Len(t) /\ x[k] = "." /\ Spoken(x) \o Spoken(y) = Spoken(t)
    <3>1. \A i \in 1..k : u(k)[i] = t[i]
      BY <1>1, <2>3
    <3>2. k \in 1..k
      BY <2>3
    <3> HIDE DEF u, v
    <3> QED BY <1>1, <2>3, <2>5, <3>1, <3>2
  <2>7. /\ Strip(x) \in Seq(Parts) /\ Len(Strip(x)) <= Len(x) /\ Spoken(Strip(x)) = Spoken(x)
        /\ (\E i \in 1..Len(x) : ~Blank(x[i])) => Strip(x) # <<>>
    BY <2>5, StripIs, Zenon
  <2>8. /\ Strip(y) \in Seq(Parts) /\ Len(Strip(y)) <= Len(y) /\ Spoken(Strip(y)) = Spoken(y)
    BY <2>5, StripIs, Zenon
  <2>9. k \in 1..Len(x) /\ ~Blank(x[k])
    BY <2>3, <2>6 DEF Blank
  <2>10. Halves(t) = <<Strip(x), Strip(y)>>
    BY <2>4, <2>5, Zenon
  <2>11. Len(Strip(x)) <= MaxLength /\ Len(Strip(y)) < Len(t) /\ Spoken(Strip(x)) \o Spoken(Strip(y)) = Spoken(t)
    <3>1. Len(Strip(x)) \in Nat /\ Len(Strip(y)) \in Nat /\ Len(y) \in Nat /\ Len(t) \in Nat
      BY <2>5, <2>7, <2>8
    <3> QED BY <1>0, <2>3, <2>6, <2>7, <2>8, <3>1
  <2> QED BY <2>7, <2>8, <2>9, <2>10, <2>11, Zenon
<1>3. CASE stops = {}
  <2>1. Halves(t) = <<u(MaxLength), v(MaxLength)>>
    BY <1>3, Zenon DEF Halves, CutAnywhere
  <2>2. MaxLength \in 1..MaxLength
    BY <1>0
  <2>3. PICK x, y \in Seq(Parts) : x = u(MaxLength) /\ y = v(MaxLength)
    BY <1>1, <2>2
  <2>4. Len(x) = MaxLength /\ Len(y) < Len(t) /\ Spoken(x) \o Spoken(y) = Spoken(t)
    <3> HIDE DEF u, v
    <3> QED BY <1>1, <2>2, <2>3
  <2>5. x # <<>> /\ Len(x) <= MaxLength
    BY <1>0, <2>4
  <2> QED BY <2>1, <2>3, <2>4, <2>5, Zenon
<1> QED BY <1>2, <1>3

LEMMA SplitIs ==
  \A t \in Seq(Parts) :
    /\ Split[t] \in Seq(Seq(Parts))
    /\ Split[t] = IF Len(t) <= MaxLength THEN <<t>>
                  ELSE <<Halves(t)[1]>> \o (IF Halves(t)[2] = <<>> THEN <<>> ELSE Split[Halves(t)[2]])
<1> HIDE DEF Parts
<1> DEFINE D == Seq(Parts)
           S == Seq(Seq(Parts))
           size == [t \in D |-> Len(t)]
           rule(t, f) == IF Len(t) <= MaxLength THEN <<t>>
                         ELSE <<Halves(t)[1]>> \o (IF Halves(t)[2] = <<>> THEN <<>> ELSE f[Halves(t)[2]])
           step == [t \in D |-> [f \in [D -> S] |-> rule(t, f)]]
<1>1. ASSUME NEW t \in D, NEW f \in [D -> S] PROVE rule(t, f) \in S
  <2>1. CASE Len(t) <= MaxLength
    <3>1. <<t>> \in S
      OBVIOUS
    <3> QED BY <2>1, <3>1, Zenon
  <2>2. CASE ~(Len(t) <= MaxLength)
    <3>1. PICK a, b \in D : Halves(t) = <<a, b>>
      <4>1. Len(t) > MaxLength
        BY <2>2, ReplyAssumption
      <4> QED BY <4>1, HalvesAre, Zenon
    <3>2. rule(t, f) = <<a>> \o (IF b = <<>> THEN <<>> ELSE f[b])
      <4>1. <<a, b>>[1] = a /\ <<a, b>>[2] = b
        OBVIOUS
      <4> QED BY <2>2, <3>1, <4>1, Zenon
    <3>3. PICK g : g = IF b = <<>> THEN <<>> ELSE f[b]
      OBVIOUS
    <3>4. g \in S
      <4>1. f[b] \in S /\ <<>> \in S
        OBVIOUS
      <4> QED BY <3>3, <4>1, Zenon
    <3>5. <<a>> \o g \in S
      BY <3>4
    <3> QED BY <3>2, <3>3, <3>5, Zenon
  <2> QED BY <2>1, <2>2
<1>2. size \in [D -> Nat] /\ step \in [D -> [[D -> S] -> S]] /\ S # {}
  <2>1. size \in [D -> Nat]
    OBVIOUS
  <2>2. step \in [D -> [[D -> S] -> S]]
    <3> HIDE DEF D, S, rule
    <3> QED BY <1>1, Zenon
  <2>3. <<>> \in S
    OBVIOUS
  <2> QED BY <2>1, <2>2, <2>3
<1>3. ASSUME NEW t \in D, NEW f \in [D -> S], NEW g \in [D -> S],
             \A e \in D : size[e] < size[t] => f[e] = g[e]
      PROVE  step[t][f] = step[t][g]
  <2>1. step[t][f] = rule(t, f) /\ step[t][g] = rule(t, g)
    <3> HIDE DEF D, S, rule
    <3> QED BY Zenon
  <2>2. rule(t, f) = rule(t, g)
    <3>1. CASE Len(t) <= MaxLength
      BY <3>1, Zenon
    <3>2. CASE ~(Len(t) <= MaxLength)
      <4>1. PICK a, b \in D : Halves(t) = <<a, b>> /\ Len(b) < Len(t)
        <5>1. Len(t) > MaxLength
          BY <3>2, ReplyAssumption
        <5> QED BY <5>1, HalvesAre, Zenon
      <4>2. Halves(t)[2] = b
        BY <4>1
      <4>3. size[b] = Len(b) /\ size[t] = Len(t)
        OBVIOUS
      <4>4. f[b] = g[b]
        BY <1>3, <4>1, <4>3
      <4> QED BY <4>2, <4>4, Zenon
    <3> QED BY <3>1, <3>2
  <2> QED BY <2>1, <2>2, Zenon
<1>4. PICK f \in [D -> S] : Obeys(f, D, step)
  <2> HIDE DEF D, S, size, step
  <2>1. LooksBack(D, S, size, step)
    BY <1>3, Zenon DEF LooksBack
  <2> QED BY <1>2, <2>1, MeasureRecursion, Zenon
<1>5. \A t \in D : f[t] = rule(t, f)
  <2> SUFFICES ASSUME NEW t \in D PROVE f[t] = rule(t, f)
    OBVIOUS
  <2>1. step[t][f] = rule(t, f)
    <3> HIDE DEF D, S, rule
    <3> QED BY Zenon
  <2> QED BY <1>4, <2>1, Zenon DEF Obeys
<1> DEFINE Def(h) == h = [t \in D |-> rule(t, h)]
<1>6. Def(f)
  <2> HIDE DEF D, S, rule, step
  <2> QED BY <1>5
<1>7. Def(Split)
  <2>1. Split = CHOOSE h : Def(h)
    BY Zenon DEF Split
  <2> HIDE DEF Def
  <2> QED BY <1>6, <2>1, Zenon
<1>8. \A t \in D : Split[t] = rule(t, Split)
  <2> HIDE DEF D, S, rule, step
  <2> QED BY <1>7, Zenon
<1> HIDE DEF step, Def
<1> DEFINE T == {n \in Nat : \A t \in D : Len(t) <= n => Split[t] \in S}
<1>9. ASSUME NEW t \in D, Len(t) > MaxLength,
             \A e \in D : Len(e) < Len(t) => Split[e] \in S
      PROVE  Split[t] \in S
  <2>1. PICK a, b \in D : Halves(t) = <<a, b>> /\ Len(b) < Len(t)
    BY <1>9, HalvesAre, Zenon
  <2>2. Split[t] = <<a>> \o (IF b = <<>> THEN <<>> ELSE Split[b])
    <3>1. <<a, b>>[1] = a /\ <<a, b>>[2] = b /\ ~(Len(t) <= MaxLength)
      BY <1>9, ReplyAssumption
    <3> QED BY <1>8, <2>1, <3>1, Zenon
  <2>3. PICK g : g = IF b = <<>> THEN <<>> ELSE Split[b]
    OBVIOUS
  <2>4. g \in S
    <3>1. Split[b] \in S /\ <<>> \in S
      BY <1>9, <2>1
    <3> QED BY <2>3, <3>1, Zenon
  <2>5. <<a>> \o g \in S
    BY <2>4
  <2> QED BY <2>2, <2>3, <2>5, Zenon
<1>10. ASSUME NEW t \in D, Len(t) <= MaxLength PROVE Split[t] \in S
  <2>1. <<t>> \in S
    OBVIOUS
  <2> QED BY <1>8, <1>10, <2>1, Zenon
<1>11. T = Nat
  <2>1. 0 \in T
    <3> SUFFICES ASSUME NEW t \in D, Len(t) <= 0 PROVE Split[t] \in S
      OBVIOUS
    <3>1. Len(t) <= MaxLength
      BY ReplyAssumption
    <3> QED BY <1>10, <3>1, Zenon
  <2>2. ASSUME NEW n \in T PROVE n + 1 \in T
    <3> SUFFICES ASSUME NEW t \in D, Len(t) <= n + 1 PROVE Split[t] \in S
      OBVIOUS
    <3>1. CASE Len(t) <= MaxLength
      BY <1>10, <3>1, Zenon
    <3>2. CASE ~(Len(t) <= MaxLength)
      <4>1. Len(t) > MaxLength
        BY <3>2, ReplyAssumption
      <4>2. \A e \in D : Len(e) < Len(t) => Split[e] \in S
        <5> SUFFICES ASSUME NEW e \in D, Len(e) < Len(t) PROVE Split[e] \in S
          OBVIOUS
        <5>1. Len(e) \in Nat /\ Len(t) \in Nat /\ n \in Nat
          OBVIOUS
        <5>2. Len(e) <= n
          BY <5>1
        <5> QED BY <5>2
      <4> QED BY <1>9, <4>1, <4>2, Zenon
    <3> QED BY <3>1, <3>2
  <2> HIDE DEF T, D, S, rule
  <2> QED BY <2>1, <2>2, SetInduction DEF T
<1>12. \A t \in D : Split[t] \in S
  <2> SUFFICES ASSUME NEW t \in D PROVE Split[t] \in S
    OBVIOUS
  <2>1. Len(t) \in Nat /\ Len(t) <= Len(t)
    OBVIOUS
  <2> HIDE DEF D, S, rule
  <2> QED BY <1>11, <2>1 DEF T
<1> QED BY <1>8, <1>12, Zenon

(* Every piece can be played, and the pieces together say what the text says. *)
Plays(pieces, t) ==
  /\ pieces \in Seq(Seq(Parts)) /\ Spoken(FlattenSeq(pieces)) = Spoken(t)
  /\ \A i \in 1..Len(pieces) : pieces[i] # <<>> /\ Len(pieces[i]) <= MaxLength

LEMMA OnePiecePlays ==
  ASSUME NEW t \in Seq(Parts), t # <<>>, Len(t) <= MaxLength
  PROVE  Plays(<<t>>, t)
<1> HIDE DEF Parts
<1>1. FlattenSeq(<<t>>) = t
  BY FlattenOne, Zenon
<1>2. <<t>> \in Seq(Seq(Parts)) /\ Len(<<t>>) = 1 /\ <<t>>[1] = t
  OBVIOUS
<1>3. \A i \in 1..Len(<<t>>) : <<t>>[i] = t
  BY <1>2
<1> QED BY <1>1, <1>2, <1>3 DEF Plays

LEMMA MorePiecesPlay ==
  ASSUME NEW t \in Seq(Parts), NEW a \in Seq(Parts), NEW b \in Seq(Parts), NEW p,
         a # <<>>, Len(a) <= MaxLength, Spoken(a) \o Spoken(b) = Spoken(t), Plays(p, b)
  PROVE  Plays(<<a>> \o p, t)
<1> HIDE DEF Parts
<1>1. p \in Seq(Seq(Parts)) /\ <<a>> \in Seq(Seq(Parts)) /\ Len(<<a>>) = 1 /\ <<a>>[1] = a
  BY DEF Plays
<1>2. FlattenSeq(<<a>> \o p) = a \o FlattenSeq(p)
  <2>1. FlattenSeq(<<a>>) = a
    BY FlattenOne, Zenon
  <2>2. FlattenSeq(<<a>> \o p) = FlattenSeq(<<a>>) \o FlattenSeq(p)
    BY <1>1, FlattenConcat
  <2> QED BY <2>1, <2>2, Zenon
<1>3. FlattenSeq(p) \in Seq(Parts)
  BY <1>1, FlattenType
<1>4. Spoken(a \o FlattenSeq(p)) = Spoken(a) \o Spoken(FlattenSeq(p))
  BY <1>3, SpokenJoins
<1>5. Spoken(FlattenSeq(<<a>> \o p)) = Spoken(t)
  BY <1>2, <1>4, Zenon DEF Plays
<1>6. PICK q : q = <<a>> \o p
  OBVIOUS
<1>7. q \in Seq(Seq(Parts)) /\ Len(q) = Len(p) + 1 /\ q[1] = a /\ \A i \in 1..Len(p) : q[i + 1] = p[i]
  BY <1>1, <1>6
<1>8. ASSUME NEW i \in 1..Len(q) PROVE q[i] # <<>> /\ Len(q[i]) <= MaxLength
  <2>1. CASE i = 1
    BY <1>7, <2>1
  <2>2. CASE i # 1
    <3>1. PICK k \in 1..Len(p) : i = k + 1
      <4>1. i - 1 \in 1..Len(p) /\ i = (i - 1) + 1
        BY <1>1, <1>7, <2>2
      <4> QED BY <4>1
    <3>2. q[i] = p[k]
      BY <1>7, <3>1
    <3> QED BY <3>2 DEF Plays
  <2> QED BY <2>1, <2>2
<1> QED BY <1>5, <1>6, <1>7, <1>8, Zenon DEF Plays

LEMMA SplitPlays ==
  \A t \in Seq(Parts) : t # <<>> => Plays(Split[t], t)
<1> HIDE DEF Parts
<1> DEFINE T == {n \in Nat : \A t \in Seq(Parts) : t # <<>> /\ Len(t) <= n => Plays(Split[t], t)}
<1>1. 0 \in T
  OBVIOUS
<1>2. ASSUME NEW n \in T PROVE n + 1 \in T
  <2> SUFFICES ASSUME NEW t \in Seq(Parts), t # <<>>, Len(t) <= n + 1 PROVE Plays(Split[t], t)
    OBVIOUS
  <2>1. CASE Len(t) <= MaxLength
    BY <2>1, SplitIs, OnePiecePlays, Zenon
  <2>2. CASE ~(Len(t) <= MaxLength)
    <3>1. PICK a, b \in Seq(Parts) :
           /\ Halves(t) = <<a, b>> /\ a # <<>> /\ Len(a) <= MaxLength /\ Len(b) < Len(t)
           /\ Spoken(a) \o Spoken(b) = Spoken(t)
      <4>1. Len(t) > MaxLength
        BY <2>2, ReplyAssumption
      <4> QED BY <4>1, HalvesAre, Zenon
    <3>2. Split[t] = <<a>> \o (IF b = <<>> THEN <<>> ELSE Split[b])
      <4>1. <<a, b>>[1] = a /\ <<a, b>>[2] = b
        OBVIOUS
      <4> QED BY <2>2, <3>1, <4>1, SplitIs, Zenon
    <3>3. CASE b = <<>>
      <4>1. Split[t] = <<a>>
        <5>1. <<a>> \o <<>> = <<a>>
          OBVIOUS
        <5> QED BY <3>2, <3>3, <5>1, Zenon
      <4>2. Spoken(a) = Spoken(t)
        <5>1. Spoken(b) = <<>>
          <6>1. \A i \in 1..Len(b) : Blank(b[i])
            BY <3>3
          <6> QED BY <6>1, BlankIsSilent, Zenon
        <5>2. Spoken(a) \in Seq(Parts)
          BY MarksIs, FlattenType
        <5>3. Spoken(a) \o <<>> = Spoken(a)
          BY <5>2
        <5> QED BY <3>1, <5>1, <5>3, Zenon
      <4>3. Plays(<<a>>, a)
        BY <3>1, OnePiecePlays, Zenon
      <4> QED BY <4>1, <4>2, <4>3, Zenon DEF Plays
    <3>4. CASE b # <<>>
      <4>1. Len(b) <= n
        <5>1. Len(b) \in Nat /\ Len(t) \in Nat /\ n \in Nat
          OBVIOUS
        <5> QED BY <3>1, <5>1
      <4>2. Plays(Split[b], b)
        BY <3>4, <4>1
      <4>3. Split[t] = <<a>> \o Split[b]
        BY <3>2, <3>4, Zenon
      <4>4. Plays(<<a>> \o Split[b], t)
        BY <3>1, <4>2, MorePiecesPlay
      <4> QED BY <4>3, <4>4, Zenon
    <3> QED BY <3>3, <3>4
  <2> QED BY <2>1, <2>2
<1> HIDE DEF T
<1>3. T = Nat
  BY <1>1, <1>2, SetInduction DEF T
<1> QED
  <2> SUFFICES ASSUME NEW t \in Seq(Parts), t # <<>> PROVE Plays(Split[t], t)
    OBVIOUS
  <2>1. Len(t) \in T /\ Len(t) <= Len(t)
    BY <1>3
  <2> QED BY <2>1 DEF T

(* ResponseSplitter.split, for texts and limits of any length: its pieces are short      *)
(* enough and not empty, and no word is lost between them.                               *)
LEMMA SplitKeepsWords == \A t \in Seq(Parts) : LET pieces == Split[t] IN
  /\ \A i \in DOMAIN pieces : Len(pieces[i]) <= MaxLength /\ (Len(pieces) > 1 => pieces[i] # <<>>)
  /\ Spoken(FlattenSeq(pieces)) = Spoken(t)
<1> HIDE DEF Parts
<1> SUFFICES ASSUME NEW t \in Seq(Parts), NEW p, p = Split[t]
             PROVE  /\ \A i \in DOMAIN p : Len(p[i]) <= MaxLength /\ (Len(p) > 1 => p[i] # <<>>)
                    /\ Spoken(FlattenSeq(p)) = Spoken(t)
  BY Zenon
<1>1. CASE t = <<>>
  <2>1. Len(t) <= MaxLength
    BY <1>1, ReplyAssumption
  <2>2. p = <<t>>
    BY <2>1, SplitIs, Zenon
  <2>3. FlattenSeq(p) = t
    BY <2>2, FlattenOne, Zenon
  <2>4. Len(<<t>>) = 1 /\ DOMAIN <<t>> = {1} /\ <<t>>[1] = t
    OBVIOUS
  <2> QED BY <2>1, <2>2, <2>3, <2>4
<1>2. CASE t # <<>>
  <2>1. Plays(p, t)
    BY <1>2, SplitPlays, Zenon
  <2>2. DOMAIN p = 1..Len(p)
    BY <2>1 DEF Plays
  <2> QED BY <2>1, <2>2, Zenon DEF Plays
<1> QED BY <1>1, <1>2

(* Whatever the model has answered so far: split, it can be spoken piece by piece, every *)
(* piece short enough and none empty, and all its words in their order.                  *)
THEOREM PiecesArePlayable == ReplySpec => []SplitIsPlayable
<1>1. ReplyInv => SplitIsPlayable
  <2> SUFFICES ASSUME ReplyInv PROVE SplitIsPlayable
    OBVIOUS
  <2>1. parts \in Seq(Parts)
    <3> HIDE DEF Parts
    <3>1. parts \in SeqOf(Parts, MaxParts) /\ MaxParts \in Nat
      BY ReplyAssumption DEF ReplyInv, Texts
    <3> QED BY <3>1, BoundedSeqs
  <2> QED BY <2>1, SplitKeepsWords, Zenon DEF SplitIsPlayable
<1> QED BY <1>1, ReplyAlways, PTL

-------------------------------------------------------------------------------
(* Utterances: the order of the rules                                        *)

(* An utterance that the rule at place i matches is taken for the intent of that rule or *)
(* of one before it.                                                                     *)
LEMMA EarlierRuleWins ==
  ASSUME NEW u, NEW i \in 1..13, Matches(PatternIntents[i], u)
  PROVE  \E k \in 1..i : Primary(u) = PatternIntents[k]
<1> DEFINE I == {k \in 1..Len(PatternIntents) : Matches(PatternIntents[k], u)}
<1>1. Len(PatternIntents) = 13
  BY DEF PatternIntents
<1>2. I \in SUBSET Nat /\ i \in I
  BY <1>1
<1>3. PICK k \in Nat : k = Min(I)
  BY <1>2, MinOfNats
<1>4. k \in 1..13 /\ k <= i
  BY <1>1, <1>2, <1>3, MinOfNats
<1>5. FirstOf(PatternIntents, LAMBDA j : Matches(j, u)) = PatternIntents[k]
  <2>1. FirstOf(PatternIntents, LAMBDA j : Matches(j, u)) = IF (IF I # {} THEN Min(I) ELSE 0) = 0 THEN "UNCLASSIFIED" ELSE PatternIntents[IF I # {} THEN Min(I) ELSE 0]
    BY Zenon DEF FirstOf, SelectInSeq
  <2> HIDE DEF I
  <2> QED BY <1>2, <1>3, <1>4, <2>1
<1>6. PatternIntents[k] # "UNCLASSIFIED"
  BY <1>4 DEF PatternIntents
<1>7. Primary(u) = PatternIntents[k]
  BY <1>5, <1>6, Zenon DEF Primary
<1> QED BY <1>4, <1>7

(* What is said is an utterance of at most MaxWords words. *)
THEOREM UtterancesTypeCorrect == SaidSpec => []UtterancesTypeOK
<1>1. SaidInit => UtterancesTypeOK
  BY EmptyBounded, UtterancesAssumption DEF SaidInit, UtterancesTypeOK
<1>2. UtterancesTypeOK /\ [Speak]_saidVars => UtterancesTypeOK'
  <2> SUFFICES ASSUME UtterancesTypeOK, [Speak]_saidVars PROVE UtterancesTypeOK'
    OBVIOUS
  <2>1. CASE Speak
    <3> HIDE DEF Words
    <3> QED BY <2>1, AppendBounded, UtterancesAssumption DEF Speak, UtterancesTypeOK
  <2>2. CASE UNCHANGED saidVars
    BY <2>2, Zenon DEF saidVars, UtterancesTypeOK
  <2> QED BY <2>1, <2>2
<1> QED BY <1>1, <1>2, PTL DEF SaidSpec

(* Of the narrow rules of patterns.py each stands before the broader one: whatever is    *)
(* said, and however much, the narrow rule wins.                                         *)
THEOREM NarrowRulesWin == SaidSpec => []NarrowWins
<1>1. NarrowWins
  <2>1. \A i, j \in 1..13 : i < j => PatternIntents[i] # PatternIntents[j]
    BY DEF PatternIntents
  <2>2. ASSUME NEW i \in 1..13, NEW j \in 1..13, i < j, Matches(PatternIntents[i], said)
        PROVE  Primary(said) # PatternIntents[j]
    <3>1. PICK k \in 1..i : Primary(said) = PatternIntents[k]
      BY <2>2, EarlierRuleWins
    <3> QED BY <2>1, <2>2, <3>1
  <2>3. /\ PatternIntents[1] = "PLAN_CHANGE" /\ PatternIntents[2] = "PLAN_INQUIRY"
        /\ PatternIntents[3] = "PAYMENT_CHECK" /\ PatternIntents[4] = "BILLING_INQUIRY"
        /\ PatternIntents[6] = "ADDON_CANCEL" /\ PatternIntents[9] = "END_CALL"
        /\ PatternIntents[10] = "CANCELLATION"
    BY DEF PatternIntents
  <2>4. \A p \in Narrower : \E i, j \in 1..13 : i < j /\ p[1] = PatternIntents[i] /\ p[2] = PatternIntents[j]
    <3>1. 1 < 2 /\ 2 < 4 /\ 3 < 4 /\ 6 < 10 /\ 6 < 9 /\ 9 < 10
      OBVIOUS
    <3> QED BY <2>3, <3>1 DEF Narrower
  <2> QED BY <2>2, <2>4, Zenon DEF NarrowWins
<1> QED BY <1>1, PTL

-------------------------------------------------------------------------------
(* CallbackDesk: business days and bookings                                  *)

LEMMA HoursOfDays ==
  \A t \in Nat : DayOf(t) \in Nat /\ HourOf(t) \in 0..23 /\ t = DayOf(t) * 24 + HourOf(t)
BY DEF DayOf, HourOf

LEMMA DaysAndHours ==
  \A d \in Nat, h \in 0..23 : DayOf(d * 24 + h) = d /\ HourOf(d * 24 + h) = h
BY DEF DayOf, HourOf

(* _next_business_day passes at most one weekend. *)
LEMMA NextWeekdayIs ==
  ASSUME NEW d \in Nat
  PROVE  NextWeekday[d] \in Nat /\ NextWeekday[d] > d /\ Weekday(NextWeekday[d]) < 5
<1> DEFINE f == [n \in Nat |-> IF Weekday(n + 1) < 5 THEN n + 1
                               ELSE IF Weekday(n + 2) < 5 THEN n + 2 ELSE n + 3]
<1>1. \A n \in Nat : Weekday(n + 1) < 5 \/ Weekday(n + 2) < 5 \/ Weekday(n + 3) < 5
  BY DEF Weekday
<1>2. f = [n \in Nat |-> IF Weekday(n + 1) < 5 THEN n + 1 ELSE f[n + 1]]
  <2> SUFFICES ASSUME NEW n \in Nat
               PROVE  f[n] = IF Weekday(n + 1) < 5 THEN n + 1 ELSE f[n + 1]
    OBVIOUS
  <2>1. /\ f[n] = IF Weekday(n + 1) < 5 THEN n + 1 ELSE IF Weekday(n + 2) < 5 THEN n + 2 ELSE n + 3
        /\ f[n + 1] = IF Weekday(n + 2) < 5 THEN n + 2 ELSE IF Weekday(n + 3) < 5 THEN n + 3 ELSE n + 4
    BY DEF Weekday
  <2> HIDE DEF f
  <2> QED BY <1>1, <2>1
<1> HIDE DEF f
<1>3. NextWeekday = [n \in Nat |-> IF Weekday(n + 1) < 5 THEN n + 1 ELSE NextWeekday[n + 1]]
  BY <1>2 DEF NextWeekday
<1>4. \A n \in Nat : NextWeekday[n] = IF Weekday(n + 1) < 5 THEN n + 1 ELSE NextWeekday[n + 1]
  BY <1>3
<1>5. /\ NextWeekday[d] = IF Weekday(d + 1) < 5 THEN d + 1 ELSE NextWeekday[d + 1]
      /\ NextWeekday[d + 1] = IF Weekday(d + 2) < 5 THEN d + 2 ELSE NextWeekday[d + 2]
      /\ NextWeekday[d + 2] = IF Weekday(d + 3) < 5 THEN d + 3 ELSE NextWeekday[d + 3]
  <2>1. d + 1 \in Nat /\ d + 2 \in Nat /\ (d + 1) + 1 = d + 2 /\ (d + 2) + 1 = d + 3
    OBVIOUS
  <2> QED BY <1>4, <2>1
<1> QED BY <1>1, <1>5

(* Finitely many holidays leave a business day after every day: not every Monday is one. *)
LEMMA BusinessDayToCome ==
  ASSUME NEW d \in Nat, holidays \subseteq Nat, IsFiniteSet(holidays)
  PROVE  \E m \in Nat : m > d /\ BusinessDay(m)
<1> SUFFICES ASSUME \A m \in Nat : m > d => ~BusinessDay(m) PROVE FALSE
  OBVIOUS
<1>1. PICK n \in Nat : n = Cardinality(holidays)
  BY FS_CardinalityType
<1> DEFINE S == (d + 1)..(d + 1 + n)
           f == [k \in S |-> 7 * k]
<1>2. IsFiniteSet(S) /\ Cardinality(S) = n + 1
  <2>1. d + 1 \in Int /\ d + 1 + n \in Int /\ ~(d + 1 > d + 1 + n) /\ (d + 1 + n) - (d + 1) + 1 = n + 1
    OBVIOUS
  <2> QED BY <2>1, FS_Interval
<1>3. \A k \in S : 7 * k \in holidays
  <2> SUFFICES ASSUME NEW k \in S PROVE 7 * k \in holidays
    OBVIOUS
  <2>1. 7 * k \in Nat /\ 7 * k > d
    OBVIOUS
  <2>2. Weekday(7 * k) <= 4
    BY DEF Weekday
  <2> QED BY <2>1, <2>2 DEF BusinessDay
<1>4. f \in [S -> holidays]
  BY <1>3
<1>5. n < n + 1
  OBVIOUS
<1>6. \E x, y \in S : x # y /\ f[x] = f[y]
  <2> HIDE DEF S, f
  <2> QED BY <1>1, <1>2, <1>4, <1>5, FS_PigeonHole
<1> QED BY <1>6

(* _next_open_time's loop ends at the first business day after d. *)
LEMMA NextDayIs ==
  ASSUME NEW d \in Nat, holidays \subseteq Nat, IsFiniteSet(holidays)
  PROVE  /\ NextDay[d] \in Nat /\ NextDay[d] > d /\ BusinessDay(NextDay[d])
         /\ \A m \in Nat : m > d /\ BusinessDay(m) => NextDay[d] <= m
<1> DEFINE First(n, m) == /\ m \in Nat /\ m > n /\ BusinessDay(m)
                          /\ \A k \in Nat : k > n /\ BusinessDay(k) => m <= k
           f == [n \in Nat |-> CHOOSE m \in Nat : First(n, m)]
<1>1. ASSUME NEW n \in Nat PROVE \E m \in Nat : First(n, m)
  <2> DEFINE T == {m \in Nat : m > n /\ BusinessDay(m)}
  <2>1. T # {}
    BY BusinessDayToCome
  <2>2. T \in SUBSET Nat
    OBVIOUS
  <2>3. \E m \in T : \A k \in T : m <= k
    <3> HIDE DEF T
    <3> QED BY <2>1, <2>2, LeastNumber
  <2> QED BY <2>3
<1>2. \A n \in Nat : First(n, f[n])
  BY <1>1
<1>3. \A n \in Nat, a, b \in Nat : First(n, a) /\ First(n, b) => a = b
  OBVIOUS
<1>4. \A n \in Nat : BusinessDay(n + 1) => First(n, n + 1)
  OBVIOUS
<1>5. \A n, m \in Nat : ~BusinessDay(n + 1) => (First(n, m) <=> First(n + 1, m))
  <2> SUFFICES ASSUME NEW n \in Nat, NEW m \in Nat, ~BusinessDay(n + 1)
               PROVE  First(n, m) <=> First(n + 1, m)
    OBVIOUS
  <2>1. \A k \in Nat : k > n /\ BusinessDay(k) <=> k > n + 1 /\ BusinessDay(k)
    <3> SUFFICES ASSUME NEW k \in Nat PROVE k > n /\ BusinessDay(k) => k > n + 1
      OBVIOUS
    <3>1. k > n => k = n + 1 \/ k > n + 1
      OBVIOUS
    <3> QED BY <3>1
  <2> QED BY <2>1
<1>6. f = [n \in Nat |-> IF BusinessDay(n + 1) THEN n + 1 ELSE f[n + 1]]
  <2> SUFFICES ASSUME NEW n \in Nat
               PROVE  f[n] = IF BusinessDay(n + 1) THEN n + 1 ELSE f[n + 1]
    OBVIOUS
  <2>1. n + 1 \in Nat /\ First(n, f[n]) /\ First(n + 1, f[n + 1])
    BY <1>2
  <2>2. f[n] \in Nat /\ f[n + 1] \in Nat
    BY <2>1
  <2> HIDE DEF First, f
  <2> QED BY <1>3, <1>4, <1>5, <2>1, <2>2
<1> HIDE DEF f
<1>7. NextDay = [n \in Nat |-> IF BusinessDay(n + 1) THEN n + 1 ELSE NextDay[n + 1]]
  BY <1>6 DEF NextDay
<1>8. \A n \in Nat : NextDay[n] = IF BusinessDay(n + 1) THEN n + 1 ELSE NextDay[n + 1]
  BY <1>7
<1> DEFINE Right(k) == \A n, m \in Nat : First(n, m) /\ m = n + 1 + k => NextDay[n] = m
           T == {k \in Nat : Right(k)}
<1>9. T = Nat
  <2>1. Right(0)
    <3> SUFFICES ASSUME NEW n \in Nat, NEW m \in Nat, First(n, m), m = n + 1 + 0
                 PROVE  NextDay[n] = m
      OBVIOUS
    <3>1. m = n + 1 /\ BusinessDay(n + 1)
      OBVIOUS
    <3> QED BY <1>8, <3>1
  <2>2. ASSUME NEW k \in Nat, Right(k) PROVE Right(k + 1)
    <3> SUFFICES ASSUME NEW n \in Nat, NEW m \in Nat, First(n, m), m = n + 1 + (k + 1)
                 PROVE  NextDay[n] = m
      OBVIOUS
    <3>1. n + 1 \in Nat /\ m = (n + 1) + 1 + k /\ m # n + 1 /\ m > n + 1
      OBVIOUS
    <3>2. ~BusinessDay(n + 1)
      BY <3>1
    <3> HIDE DEF First
    <3>3. First(n + 1, m)
      BY <1>5, <3>2
    <3>4. NextDay[n + 1] = m
      BY <2>2, <3>1, <3>3
    <3> QED BY <1>8, <3>2, <3>4
  <2> HIDE DEF Right
  <2>3. 0 \in T /\ \A k \in T : k + 1 \in T
    BY <2>1, <2>2
  <2> HIDE DEF T
  <2> QED BY <2>3, SetInduction DEF T
<1>10. NextDay[d] = f[d]
  <2>1. f[d] \in Nat /\ First(d, f[d]) /\ f[d] > d
    BY <1>2
  <2>2. PICK k \in Nat : f[d] = d + 1 + k
    <3>1. f[d] - (d + 1) \in Nat /\ f[d] = d + 1 + (f[d] - (d + 1))
      BY <2>1
    <3> QED BY <3>1
  <2>3. Right(k)
    BY <1>9
  <2> HIDE DEF First
  <2> QED BY <2>1, <2>2, <2>3
<1> QED BY <1>2, <1>10

LEMMA OpenAt ==
  ASSUME NEW t \in Nat
  PROVE  IsOpen(t) <=> BusinessDay(DayOf(t)) /\ 9 <= HourOf(t) /\ HourOf(t) < 18
<1>1. HourOf(t) \in 0..23 /\ OpenHour = 9 /\ CloseHour - 1 = 17
  BY HoursOfDays DEF OpenHour, CloseHour
<1>2. HourOf(t) \in OpenHour..(CloseHour - 1) <=> 9 <= HourOf(t) /\ HourOf(t) < 18
  BY <1>1
<1> QED BY <1>2 DEF IsOpen

LEMMA NextOpen ==
  ASSUME NEW time \in Nat, ~IsOpen(time), holidays \subseteq Nat, IsFiniteSet(holidays)
  PROVE  /\ IsOpen(NextOpenTime(time)) /\ NextOpenTime(time) > time
         /\ \A t \in time..(NextOpenTime(time) - 1) : ~IsOpen(t)
<1>1. PICK d \in Nat, h \in 0..23 : d = DayOf(time) /\ h = HourOf(time) /\ time = d * 24 + h
  BY HoursOfDays
<1>2. PICK n : n = NextDay[d]
  OBVIOUS
<1>3. n \in Nat /\ n > d /\ BusinessDay(n) /\ \A m \in Nat : m > d /\ BusinessDay(m) => n <= m
  BY <1>2, NextDayIs
<1>4. ~(BusinessDay(d) /\ 9 <= h /\ h < 18)
  BY <1>1, OpenAt
<1>5. CASE BusinessDay(d) /\ h < 9
  <2>1. NextOpenTime(time) = d * 24 + 9
    BY <1>1, <1>5 DEF NextOpenTime, OpenHour
  <2>2. d * 24 + 9 \in Nat /\ DayOf(d * 24 + 9) = d /\ HourOf(d * 24 + 9) = 9
    <3>1. 9 \in 0..23 /\ d * 24 + 9 \in Nat
      OBVIOUS
    <3> QED BY <3>1, DaysAndHours
  <2>3. IsOpen(d * 24 + 9)
    BY <1>5, <2>2, OpenAt
  <2>4. ASSUME NEW t \in time..(d * 24 + 9 - 1) PROVE ~IsOpen(t)
    <3>1. t \in Nat /\ t >= d * 24 /\ t < d * 24 + 9
      BY <1>1
    <3>2. PICK o \in 0..23 : t = d * 24 + o /\ o < 9
      <4>1. t - d * 24 \in 0..23 /\ t = d * 24 + (t - d * 24) /\ t - d * 24 < 9
        BY <3>1
      <4> QED BY <4>1
    <3>3. HourOf(t) = o
      BY <3>2, DaysAndHours
    <3> QED BY <3>1, <3>2, <3>3, OpenAt
  <2> QED BY <1>1, <1>5, <2>1, <2>3, <2>4
<1>6. CASE ~(BusinessDay(d) /\ h < 9)
  <2>1. NextOpenTime(time) = n * 24 + 9
    BY <1>1, <1>2, <1>6 DEF NextOpenTime, OpenHour
  <2>2. n * 24 + 9 \in Nat /\ DayOf(n * 24 + 9) = n /\ HourOf(n * 24 + 9) = 9
    <3>1. 9 \in 0..23 /\ n * 24 + 9 \in Nat
      BY <1>3
    <3> QED BY <1>3, <3>1, DaysAndHours
  <2>3. IsOpen(n * 24 + 9)
    BY <1>3, <2>2, OpenAt
  <2>4. n * 24 + 9 > time
    BY <1>1, <1>3
  <2>5. ASSUME NEW t \in time..(n * 24 + 9 - 1), IsOpen(t) PROVE FALSE
    <3>1. t \in Nat /\ t >= time /\ t < n * 24 + 9
      BY <1>1, <1>3
    <3>2. PICK e \in Nat, g \in 0..23 : e = DayOf(t) /\ g = HourOf(t) /\ t = e * 24 + g
      BY <3>1, HoursOfDays
    <3>3. BusinessDay(e) /\ 9 <= g /\ g < 18
      BY <2>5, <3>1, <3>2, OpenAt
    <3>4. e >= d /\ (e = d => g >= h)
      BY <1>1, <3>1, <3>2
    <3>5. e < n
      BY <1>3, <3>1, <3>2, <3>3
    <3>6. e = d
      BY <1>3, <3>3, <3>4, <3>5
    <3> QED BY <1>4, <1>6, <3>3, <3>4, <3>6
  <2> QED BY <1>3, <2>1, <2>3, <2>4, <2>5
<1> QED BY <1>5, <1>6

(* A time that was collected is in weekly business hours and after the hour in which it  *)
(* was named; so is one that is booked.                                                  *)
Agreed(time, heard) == WeekHours(time) /\ heard < time
DeskInv ==
  /\ DeskTypeOK /\ holidays \in HolidayChoices
  /\ preferred # NoTime => Agreed(preferred, heardAt)
  /\ \A r \in reservations : r.consent /\ Agreed(r.time, r.heard)

LEMMA WeekdayHours ==
  ASSUME NEW d \in Nat, NEW h \in {10, 14}
  PROVE  WeekHours(NextWeekday[d] * 24 + h) /\ NextWeekday[d] * 24 + h \in Nat
         /\ \A t \in Nat : DayOf(t) = d => t < NextWeekday[d] * 24 + h
<1>1. PICK n \in Nat : n = NextWeekday[d] /\ n > d /\ Weekday(n) < 5
  BY NextWeekdayIs
<1>2. n * 24 + h \in Nat /\ DayOf(n * 24 + h) = n /\ HourOf(n * 24 + h) = h
  <2>1. h \in 0..23 /\ n * 24 + h \in Nat
    OBVIOUS
  <2> QED BY <2>1, DaysAndHours
<1>3. WeekHours(n * 24 + h)
  BY <1>1, <1>2 DEF WeekHours, OpenHour, CloseHour
<1>4. ASSUME NEW t \in Nat, DayOf(t) = d PROVE t < n * 24 + h
  <2>1. PICK e \in Nat, g \in 0..23 : e = DayOf(t) /\ t = e * 24 + g
    BY HoursOfDays
  <2> QED BY <1>1, <1>4, <2>1
<1> QED BY <1>1, <1>2, <1>3, <1>4

LEMMA DeskInvInit == DeskInit => DeskInv
<1> SUFFICES ASSUME DeskInit PROVE DeskInv
  OBVIOUS
<1>1. clock \in 0..(Days * 24) /\ heardAt \in 0..(Days * 24)
  BY DeskAssumption DEF DeskInit
<1>2. phoneRetry \in 0..1 /\ timeRetry \in 0..2
  BY DEF DeskInit
<1> QED BY <1>1, <1>2, Zenon DEF DeskInit, DeskInv, DeskTypeOK

LEMMA DeskInvStep == DeskInv /\ [DeskNext]_deskVars => DeskInv'
<1> SUFFICES ASSUME DeskInv, [DeskNext]_deskVars PROVE DeskInv'
  OBVIOUS
<1> USE DEF DeskInv, DeskTypeOK
<1>1. CASE RouteToAgent
  BY <1>1, Zenon DEF RouteToAgent
<1>2. CASE CollectPhone
  <2>1. phoneRetry' \in 0..1
    BY <1>2 DEF CollectPhone
  <2> QED BY <1>2, <2>1, Zenon DEF CollectPhone
<1>3. CASE CollectTime
  <2>1. CASE TimeRefused
    <3>1. timeRetry' \in 0..2
      BY <2>1 DEF TimeRefused
    <3> QED BY <1>3, <2>1, <3>1, Zenon DEF CollectTime, TimeRefused
  <2>2. ASSUME NEW t, TimeTaken(t), t \in Nat, Agreed(t, clock) PROVE DeskInv'
    BY <1>3, <2>2, Zenon DEF CollectTime, TimeTaken
  <2>3. clock \in Nat /\ DayOf(clock) \in Nat
    BY HoursOfDays, DeskAssumption
  <2>4. ASSUME NEW hour \in {10, 14}, TimeTaken(NextWeekday[DayOf(clock)] * 24 + hour) PROVE DeskInv'
    <3>1. /\ NextWeekday[DayOf(clock)] * 24 + hour \in Nat
          /\ Agreed(NextWeekday[DayOf(clock)] * 24 + hour, clock)
      BY <2>3, WeekdayHours, Zenon DEF Agreed
    <3> QED BY <2>2, <2>4, <3>1, Zenon
  <2>5. ASSUME NEW a \in Asked, TimeTaken(clock + a), IsFutureBusinessHours(clock + a) PROVE DeskInv'
    <3>1. clock + a \in Nat /\ (clock + a > clock => clock < clock + a)
      BY <2>3, DeskAssumption
    <3>2. Agreed(clock + a, clock)
      BY <2>5, <3>1, Zenon DEF Agreed, IsFutureBusinessHours
    <3> QED BY <2>2, <2>5, <3>1, <3>2, Zenon
  <2> QED BY <1>3, <2>1, <2>4, <2>5, Zenon DEF CollectTime
<1>4. ASSUME NEW consent \in BOOLEAN, Schedule(consent) PROVE DeskInv'
  <2>1. 0 \in 0..(Days * 24)
    BY DeskAssumption
  <2>2. ASSUME NEW r \in reservations' PROVE r.consent /\ Agreed(r.time, r.heard)
    <3>1. consent /\ r = [time |-> preferred, heard |-> heardAt, consent |-> consent]
      BY <1>4, <2>2, Zenon DEF Schedule
    <3>2. r.time = preferred /\ r.heard = heardAt /\ r.consent = consent
      BY <3>1, Zenon
    <3> QED BY <1>4, <3>1, <3>2, Zenon DEF Schedule
  <2> QED BY <1>4, <2>1, <2>2, Zenon DEF Schedule
<1>5. CASE Hour
  <2>1. clock' \in 0..(Days * 24)
    BY <1>5, DeskAssumption DEF Hour
  <2> QED BY <1>5, <2>1, Zenon DEF Hour
<1>6. CASE UNCHANGED deskVars
  BY <1>6, Zenon DEF deskVars
<1> QED BY <1>1, <1>2, <1>3, <1>4, <1>5, <1>6, Zenon DEF DeskNext

LEMMA DeskAlways == DeskSpec => []DeskInv
BY DeskInvInit, DeskInvStep, PTL DEF DeskSpec

(* Retries, numbers and times keep their types, for every set of offsets a caller asks for. *)
THEOREM DeskTypeCorrect == DeskSpec => []DeskTypeOK
<1>1. DeskInv => DeskTypeOK
  BY Zenon DEF DeskInv
<1> QED BY <1>1, DeskAlways, PTL

(* The next opening of RoutingEngine is right at every hour for every finite set of      *)
(* holidays: its loop over the days ends at the first business day.                      *)
THEOREM OpeningIsNext == DeskSpec => []NextOpenIsNext
<1>1. DeskInv => NextOpenIsNext
  <2> SUFFICES ASSUME DeskInv, ~IsOpen(clock)
               PROVE  /\ IsOpen(NextOpenTime(clock)) /\ NextOpenTime(clock) > clock
                      /\ \A t \in clock..(NextOpenTime(clock) - 1) : ~IsOpen(t)
    BY Zenon DEF NextOpenIsNext
  <2>1. clock \in Nat
    BY DeskAssumption DEF DeskInv, DeskTypeOK
  <2>2. holidays \subseteq Nat /\ IsFiniteSet(holidays)
    BY DeskAssumption, Zenon DEF DeskInv
  <2> QED BY <2>1, <2>2, NextOpen, Zenon
<1> QED BY <1>1, DeskAlways, PTL

(* CallbackScheduler books only with consent, for a time in weekly business hours that   *)
(* was still to come when the caller named it, whatever he asked for and misunderstood.  *)
THEOREM BookingsAreAgreed == DeskSpec => []BookedAsAgreed
<1>1. DeskInv => BookedAsAgreed
  BY Zenon DEF DeskInv, BookedAsAgreed, Agreed
<1> QED BY <1>1, DeskAlways, PTL

-------------------------------------------------------------------------------
(* IntentCache: an ordered dictionary of bounded size                        *)

(* s with its element at p moved to the end *)
Moved(s, p) == [i \in 1..Len(s) |-> IF i < p THEN s[i] ELSE IF i < Len(s) THEN s[i + 1] ELSE s[p]]

LEMMA ToEndMoves ==
  ASSUME NEW S, NEW s \in Seq(S), IsInjective(s), NEW p \in 1..Len(s)
  PROVE  ToEnd(s, s[p]) = Moved(s, p)
<1>1. {i \in 1..Len(s) : s[i] = s[p]} = {p}
  BY DEF IsInjective
<1>2. Min({p}) = p
  <2>1. {p} \in SUBSET Nat /\ {p} # {}
    OBVIOUS
  <2>2. Min({p}) \in {p}
    BY <2>1, MinOfNats, Zenon
  <2> QED BY <2>2
<1>3. SelectInSeq(s, LAMBDA v : v = s[p]) = p
  BY <1>1, <1>2, Zenon DEF SelectInSeq
<1>4. RemoveFirst(s, s[p]) = SubSeq(s, 1, p - 1) \o SubSeq(s, p + 1, Len(s))
  BY <1>3, Zenon DEF RemoveFirst, RemoveAt
<1> DEFINE a == SubSeq(s, 1, p - 1)
           b == SubSeq(s, p + 1, Len(s))
<1>5. /\ a \in Seq(S) /\ Len(a) = p - 1 /\ \A i \in 1..(p - 1) : a[i] = s[i]
      /\ b \in Seq(S) /\ Len(b) = Len(s) - p /\ \A i \in 1..(Len(s) - p) : b[i] = s[p + i]
  OBVIOUS
<1> HIDE DEF a, b
<1>6. /\ a \o b \in Seq(S) /\ Len(a \o b) = Len(s) - 1
      /\ \A i \in 1..(Len(s) - 1) : (a \o b)[i] = IF i < p THEN s[i] ELSE s[i + 1]
  <2>1. /\ a \o b \in Seq(S) /\ Len(a \o b) = Len(a) + Len(b)
        /\ \A i \in 1..(Len(a) + Len(b)) : (a \o b)[i] = IF i <= Len(a) THEN a[i] ELSE b[i - Len(a)]
    BY <1>5, ConcatProperties, Zenon
  <2>2. Len(a) + Len(b) = Len(s) - 1
    BY <1>5
  <2>3. ASSUME NEW i \in 1..(Len(s) - 1)
        PROVE  (a \o b)[i] = IF i < p THEN s[i] ELSE s[i + 1]
    <3>1. (a \o b)[i] = IF i <= Len(a) THEN a[i] ELSE b[i - Len(a)]
      BY <2>1, <2>2
    <3>2. CASE i < p
      BY <1>5, <3>1, <3>2
    <3>3. CASE ~(i < p)
      <4>1. i - (p - 1) \in 1..(Len(s) - p) /\ p + (i - (p - 1)) = i + 1 /\ ~(i <= p - 1)
        BY <3>3
      <4> QED BY <1>5, <3>1, <3>3, <4>1
    <3> QED BY <3>2, <3>3
  <2> QED BY <2>1, <2>2, <2>3
<1>7. PICK c : c = a \o b
  OBVIOUS
<1>8. /\ Append(c, s[p]) \in Seq(S) /\ Len(Append(c, s[p])) = Len(s)
      /\ \A i \in 1..Len(s) : Append(c, s[p])[i] = IF i < p THEN s[i] ELSE IF i < Len(s) THEN s[i + 1] ELSE s[p]
  <2>1. c \in Seq(S) /\ Len(c) = Len(s) - 1 /\ s[p] \in S
        /\ \A i \in 1..(Len(s) - 1) : c[i] = IF i < p THEN s[i] ELSE s[i + 1]
    BY <1>6, <1>7
  <2>2. /\ Append(c, s[p]) \in Seq(S) /\ Len(Append(c, s[p])) = Len(s)
        /\ \A i \in 1..(Len(s) - 1) : Append(c, s[p])[i] = c[i]
        /\ Append(c, s[p])[Len(s)] = s[p]
    BY <2>1
  <2> QED BY <2>1, <2>2
<1>9. Append(c, s[p]) = Moved(s, p)
  BY <1>8 DEF Moved
<1> QED BY <1>4, <1>7, <1>9 DEF ToEnd, a, b

LEMMA ToEndAppends ==
  ASSUME NEW S, NEW s \in Seq(S), NEW t, t \notin ToSet(s)
  PROVE  ToEnd(s, t) = Append(s, t)
<1>1. \A i \in 1..Len(s) : s[i] # t
  BY DEF ToSet
<1> QED BY <1>1, Zenon DEF ToEnd, RemoveFirst

LEMMA MovedIs ==
  ASSUME NEW S, NEW s \in Seq(S), IsInjective(s), NEW p \in 1..Len(s)
  PROVE  /\ Moved(s, p) \in Seq(S) /\ Len(Moved(s, p)) = Len(s)
         /\ IsInjective(Moved(s, p)) /\ s[p] \in ToSet(Moved(s, p))
<1>1. Moved(s, p) \in Seq(S) /\ Len(Moved(s, p)) = Len(s)
  BY DEF Moved
<1>2. DOMAIN Moved(s, p) = 1..Len(s) /\ Moved(s, p)[Len(s)] = s[p]
  BY DEF Moved
<1>3. IsInjective(Moved(s, p))
  BY DEF Moved, IsInjective
<1>4. s[p] \in ToSet(Moved(s, p))
  BY <1>2 DEF ToSet
<1> QED BY <1>1, <1>3, <1>4

LEMMA AppendIs ==
  ASSUME NEW S, NEW s \in Seq(S), IsInjective(s), NEW t \in S, t \notin ToSet(s)
  PROVE  /\ Append(s, t) \in Seq(S) /\ Len(Append(s, t)) = Len(s) + 1
         /\ IsInjective(Append(s, t)) /\ t \in ToSet(Append(s, t))
<1>1. \A i \in 1..Len(s) : s[i] # t
  BY DEF ToSet
<1>2. /\ Append(s, t) \in Seq(S) /\ Len(Append(s, t)) = Len(s) + 1
      /\ DOMAIN Append(s, t) = 1..(Len(s) + 1)
      /\ Append(s, t)[Len(s) + 1] = t /\ \A i \in 1..Len(s) : Append(s, t)[i] = s[i]
  OBVIOUS
<1>3. IsInjective(Append(s, t))
  BY <1>1, <1>2 DEF IsInjective
<1>4. t \in ToSet(Append(s, t))
  BY <1>2 DEF ToSet
<1> QED BY <1>2, <1>3, <1>4

(* how many elements the cache has let go of *)
Dropped(r) == IF Len(r) > CacheSize THEN Len(r) - CacheSize ELSE 0

LEMMA LastOfIs ==
  ASSUME NEW S, NEW r \in Seq(S)
  PROVE  /\ LastOf(r) \in Seq(S) /\ Len(LastOf(r)) = Len(r) - Dropped(r) /\ Len(LastOf(r)) <= CacheSize
         /\ Dropped(r) \in Nat /\ Dropped(r) <= Len(r)
         /\ \A i \in 1..(Len(r) - Dropped(r)) : LastOf(r)[i] = r[i + Dropped(r)]
<1>1. Dropped(r) \in Nat /\ Dropped(r) <= Len(r) /\ Len(r) - Dropped(r) <= CacheSize
  BY CacheAssumption DEF Dropped
<1>2. LastOf(r) = SubSeq(r, Dropped(r) + 1, Len(r))
  BY CacheAssumption DEF LastOf, Dropped
<1> QED BY <1>1, <1>2

LEMMA LastOfInjective ==
  ASSUME NEW S, NEW r \in Seq(S), IsInjective(r)
  PROVE  IsInjective(LastOf(r))
<1>1. PICK k \in Nat, m \in Nat : k = Dropped(r) /\ m = Len(r) /\ k <= m
  <2>1. Dropped(r) \in Nat /\ Dropped(r) <= Len(r)
    BY LastOfIs, Zenon
  <2> QED BY <2>1
<1>2. /\ LastOf(r) \in Seq(S) /\ Len(LastOf(r)) = m - k
      /\ \A i \in 1..(m - k) : LastOf(r)[i] = r[i + k]
  BY <1>1, LastOfIs
<1> SUFFICES ASSUME NEW i \in 1..(m - k), NEW j \in 1..(m - k), LastOf(r)[i] = LastOf(r)[j]
             PROVE  i = j
  <2>1. DOMAIN LastOf(r) = 1..(m - k)
    BY <1>2
  <2> QED BY <2>1, Zenon DEF IsInjective
<1>3. i + k \in 1..m /\ j + k \in 1..m /\ r[i + k] = r[j + k]
  BY <1>1, <1>2
<1>4. i + k = j + k
  BY <1>1, <1>3 DEF IsInjective
<1> QED BY <1>4

(* A hit moves its text to the end of what was used, and of what is left of it. *)
LEMMA LastOfMoved ==
  ASSUME NEW S, NEW r \in Seq(S), IsInjective(r), NEW p \in 1..Len(r), p > Dropped(r)
  PROVE  Moved(LastOf(r), p - Dropped(r)) = LastOf(Moved(r, p))
<1>1. PICK k \in Nat, m \in Nat : k = Dropped(r) /\ m = Len(r) /\ k <= m
  <2>1. Dropped(r) \in Nat /\ Dropped(r) <= Len(r)
    BY LastOfIs, Zenon
  <2> QED BY <2>1
<1>2. Moved(r, p) \in Seq(S) /\ Len(Moved(r, p)) = m /\ Dropped(Moved(r, p)) = k
  BY <1>1, MovedIs DEF Dropped
<1>3. /\ LastOf(r) \in Seq(S) /\ Len(LastOf(r)) = m - k
      /\ \A i \in 1..(m - k) : LastOf(r)[i] = r[i + k]
  BY <1>1, LastOfIs
<1>4. /\ LastOf(Moved(r, p)) \in Seq(S) /\ Len(LastOf(Moved(r, p))) = m - k
      /\ \A i \in 1..(m - k) : LastOf(Moved(r, p))[i] = Moved(r, p)[i + k]
  BY <1>1, <1>2, LastOfIs
<1>5. \A i \in 1..(m - k) :
        Moved(LastOf(r), p - k)[i] = IF i < p - k THEN r[i + k] ELSE IF i < m - k THEN r[i + k + 1] ELSE r[p]
  <2> SUFFICES ASSUME NEW i \in 1..(m - k)
               PROVE  Moved(LastOf(r), p - k)[i] = IF i < p - k THEN r[i + k] ELSE IF i < m - k THEN r[i + k + 1] ELSE r[p]
    OBVIOUS
  <2>1. Moved(LastOf(r), p - k)[i] = IF i < p - k THEN LastOf(r)[i] ELSE IF i < m - k THEN LastOf(r)[i + 1] ELSE LastOf(r)[p - k]
    BY <1>1, <1>3 DEF Moved
  <2>2. LastOf(r)[p - k] = r[p]
    <3>1. p - k \in 1..(m - k) /\ (p - k) + k = p
      BY <1>1
    <3> QED BY <1>3, <3>1
  <2>3. i < m - k => LastOf(r)[i + 1] = r[i + k + 1]
    <3>1. i < m - k => i + 1 \in 1..(m - k) /\ (i + 1) + k = i + k + 1
      BY <1>1
    <3> QED BY <1>3, <3>1
  <2> QED BY <1>3, <2>1, <2>2, <2>3
<1>6. \A i \in 1..(m - k) :
        Moved(r, p)[i + k] = IF i < p - k THEN r[i + k] ELSE IF i < m - k THEN r[i + k + 1] ELSE r[p]
  <2> SUFFICES ASSUME NEW i \in 1..(m - k)
               PROVE  Moved(r, p)[i + k] = IF i < p - k THEN r[i + k] ELSE IF i < m - k THEN r[i + k + 1] ELSE r[p]
    OBVIOUS
  <2>1. i + k \in 1..m /\ (i + k < p <=> i < p - k) /\ (i + k < m <=> i < m - k)
    BY <1>1
  <2>2. Moved(r, p)[i + k] = IF i + k < p THEN r[i + k] ELSE IF i + k < m THEN r[i + k + 1] ELSE r[p]
    BY <1>1, <2>1 DEF Moved
  <2> QED BY <2>1, <2>2
<1>7. Moved(LastOf(r), p - k) \in Seq(S) /\ Len(Moved(LastOf(r), p - k)) = m - k
  <2>1. p - k \in 1..Len(LastOf(r))
    BY <1>1, <1>3
  <2>2. IsInjective(LastOf(r))
    BY LastOfInjective, Zenon
  <2> QED BY <1>3, <2>1, <2>2, MovedIs, Zenon
<1>8. Moved(LastOf(r), p - k) = LastOf(Moved(r, p))
  <2>1. \A i \in 1..(m - k) : Moved(LastOf(r), p - k)[i] = LastOf(Moved(r, p))[i]
    BY <1>4, <1>5, <1>6
  <2> QED BY <1>4, <1>7, <2>1, SeqEqual
<1> QED BY <1>1, <1>8

(* A text pushed into a full cache drops the oldest one, wherever it was before. *)
LEMMA LastOfPushed ==
  ASSUME NEW S, NEW r \in Seq(S), NEW t \in S, CacheSize <= Len(r)
  PROVE  Tail(Append(LastOf(r), t)) = LastOf(Append(r, t))
<1>1. PICK k \in Nat, m \in Nat : k = Dropped(r) /\ m = Len(r) /\ k = m - CacheSize /\ CacheSize \in Nat
  BY LastOfIs, CacheAssumption DEF Dropped
<1>2. /\ Append(r, t) \in Seq(S) /\ Len(Append(r, t)) = m + 1 /\ Dropped(Append(r, t)) = k + 1
      /\ Append(r, t)[m + 1] = t /\ \A i \in 1..m : Append(r, t)[i] = r[i]
  BY <1>1, CacheAssumption DEF Dropped
<1>3. /\ LastOf(r) \in Seq(S) /\ Len(LastOf(r)) = CacheSize
      /\ \A i \in 1..CacheSize : LastOf(r)[i] = r[i + k]
  <2>1. /\ LastOf(r) \in Seq(S) /\ Len(LastOf(r)) = Len(r) - Dropped(r)
        /\ \A i \in 1..(Len(r) - Dropped(r)) : LastOf(r)[i] = r[i + Dropped(r)]
    BY LastOfIs, Zenon
  <2>2. Len(r) - Dropped(r) = CacheSize
    BY <1>1, <1>2
  <2> QED BY <1>1, <2>1, <2>2
<1>4. /\ LastOf(Append(r, t)) \in Seq(S) /\ Len(LastOf(Append(r, t))) = CacheSize
      /\ \A i \in 1..CacheSize : LastOf(Append(r, t))[i] = Append(r, t)[i + (k + 1)]
  <2>1. /\ LastOf(Append(r, t)) \in Seq(S) /\ Len(LastOf(Append(r, t))) = Len(Append(r, t)) - Dropped(Append(r, t))
        /\ \A i \in 1..(Len(Append(r, t)) - Dropped(Append(r, t))) : LastOf(Append(r, t))[i] = Append(r, t)[i + Dropped(Append(r, t))]
    BY <1>2, LastOfIs, Zenon
  <2>2. Len(Append(r, t)) - Dropped(Append(r, t)) = CacheSize
    BY <1>1, <1>2
  <2> QED BY <1>1, <1>2, <2>1, <2>2
<1>5. PICK a : a = Tail(Append(LastOf(r), t))
  OBVIOUS
<1>6. /\ a \in Seq(S) /\ Len(a) = CacheSize
      /\ \A i \in 1..CacheSize : a[i] = IF i = CacheSize THEN t ELSE LastOf(r)[i + 1]
  <2>1. CacheSize # 0
    BY CacheAssumption
  <2>2. PICK l \in Seq(S) : l = LastOf(r) /\ Len(l) = CacheSize
    BY <1>3
  <2>3. /\ Tail(Append(l, t)) \in Seq(S) /\ Len(Tail(Append(l, t))) = Len(l)
        /\ \A i \in 1..Len(l) : Tail(Append(l, t))[i] = IF i = Len(l) THEN t ELSE l[i + 1]
    BY <2>1, <2>2, ShiftIn
  <2> QED BY <1>5, <2>2, <2>3, Zenon
<1>7. \A i \in 1..CacheSize : a[i] = LastOf(Append(r, t))[i]
  <2> SUFFICES ASSUME NEW i \in 1..CacheSize PROVE a[i] = LastOf(Append(r, t))[i]
    OBVIOUS
  <2>1. LastOf(Append(r, t))[i] = Append(r, t)[i + (k + 1)]
    BY <1>4
  <2>2. CASE i = CacheSize
    <3>1. i + (k + 1) = m + 1
      BY <1>1, <2>2
    <3> QED BY <1>2, <1>6, <2>1, <2>2, <3>1, Zenon
  <2>3. CASE i # CacheSize
    <3>1. i + 1 \in 1..CacheSize /\ i + (k + 1) \in 1..m /\ (i + 1) + k = i + (k + 1)
      BY <1>1, <2>3
    <3> QED BY <1>2, <1>3, <1>6, <2>1, <2>3, <3>1, Zenon
  <2> QED BY <2>2, <2>3
<1> QED BY <1>4, <1>5, <1>6, <1>7, SeqEqual

LEMMA LastOfRaised ==
  ASSUME NEW S, NEW r \in Seq(S), IsInjective(r), CacheSize <= Len(r), NEW p \in 1..Dropped(r)
  PROVE  Tail(Append(LastOf(r), r[p])) = LastOf(Moved(r, p))
<1>1. PICK k \in Nat, m \in Nat : k = Dropped(r) /\ m = Len(r) /\ k = m - CacheSize /\ CacheSize \in Nat \ {0}
  BY LastOfIs, CacheAssumption DEF Dropped
<1>2. /\ Moved(r, p) \in Seq(S) /\ Len(Moved(r, p)) = m /\ Dropped(Moved(r, p)) = k
      /\ \A i \in 1..m : Moved(r, p)[i] = IF i < p THEN r[i] ELSE IF i < m THEN r[i + 1] ELSE r[p]
  <2>1. p \in 1..Len(r)
    BY <1>1
  <2>2. Moved(r, p) \in Seq(S) /\ Len(Moved(r, p)) = m
    BY <1>1, <2>1, MovedIs
  <2> QED BY <1>1, <2>2 DEF Dropped, Moved
<1>3. /\ LastOf(r) \in Seq(S) /\ Len(LastOf(r)) = CacheSize
      /\ \A i \in 1..CacheSize : LastOf(r)[i] = r[i + k]
  <2>1. /\ LastOf(r) \in Seq(S) /\ Len(LastOf(r)) = Len(r) - Dropped(r)
        /\ \A i \in 1..(Len(r) - Dropped(r)) : LastOf(r)[i] = r[i + Dropped(r)]
    BY LastOfIs, Zenon
  <2>2. Len(r) - Dropped(r) = CacheSize
    BY <1>1, <1>2
  <2> QED BY <1>1, <2>1, <2>2
<1>4. /\ LastOf(Moved(r, p)) \in Seq(S) /\ Len(LastOf(Moved(r, p))) = CacheSize
      /\ \A i \in 1..CacheSize : LastOf(Moved(r, p))[i] = Moved(r, p)[i + k]
  <2>1. /\ LastOf(Moved(r, p)) \in Seq(S) /\ Len(LastOf(Moved(r, p))) = Len(Moved(r, p)) - Dropped(Moved(r, p))
        /\ \A i \in 1..(Len(Moved(r, p)) - Dropped(Moved(r, p))) : LastOf(Moved(r, p))[i] = Moved(r, p)[i + Dropped(Moved(r, p))]
    BY <1>2, LastOfIs, Zenon
  <2>2. Len(Moved(r, p)) - Dropped(Moved(r, p)) = CacheSize
    BY <1>1, <1>2
  <2> QED BY <1>1, <1>2, <2>1, <2>2
<1>5. PICK a : a = Tail(Append(LastOf(r), r[p]))
  OBVIOUS
<1>6. /\ a \in Seq(S) /\ Len(a) = CacheSize
      /\ \A i \in 1..CacheSize : a[i] = IF i = CacheSize THEN r[p] ELSE LastOf(r)[i + 1]
  <2>1. CacheSize # 0 /\ r[p] \in S
    BY <1>1
  <2>2. PICK l \in Seq(S) : l = LastOf(r) /\ Len(l) = CacheSize
    BY <1>3
  <2>3. /\ Tail(Append(l, r[p])) \in Seq(S) /\ Len(Tail(Append(l, r[p]))) = Len(l)
        /\ \A i \in 1..Len(l) : Tail(Append(l, r[p]))[i] = IF i = Len(l) THEN r[p] ELSE l[i + 1]
    BY <2>1, <2>2, ShiftIn
  <2> QED BY <1>5, <2>2, <2>3, Zenon
<1>7. \A i \in 1..CacheSize : a[i] = LastOf(Moved(r, p))[i]
  <2> SUFFICES ASSUME NEW i \in 1..CacheSize PROVE a[i] = LastOf(Moved(r, p))[i]
    OBVIOUS
  <2>1. LastOf(Moved(r, p))[i] = Moved(r, p)[i + k]
    BY <1>4
  <2>2. CASE i = CacheSize
    <3>1. i + k = m /\ m \in 1..m /\ ~(m < p) /\ ~(m < m)
      BY <1>1, <2>2
    <3> QED BY <1>2, <1>6, <2>1, <2>2, <3>1, Zenon
  <2>3. CASE i # CacheSize
    <3>1. i + 1 \in 1..CacheSize /\ (i + k) + 1 = (i + 1) + k /\ i + k \in 1..m /\ i + k < m /\ ~(i + k < p)
      BY <1>1, <2>3
    <3> QED BY <1>2, <1>3, <1>6, <2>1, <2>3, <3>1, Zenon
  <2> QED BY <2>2, <2>3
<1> QED BY <1>4, <1>5, <1>6, <1>7, SeqEqual

LEMMA LastOfAll ==
  ASSUME NEW S, NEW r \in Seq(S), Len(r) <= CacheSize
  PROVE  LastOf(r) = r
<1>1. Dropped(r) = 0
  BY CacheAssumption DEF Dropped
<1>2. /\ LastOf(r) \in Seq(S) /\ Len(LastOf(r)) = Len(r)
      /\ \A i \in 1..Len(r) : LastOf(r)[i] = r[i]
  BY <1>1, LastOfIs
<1> QED BY <1>2, SeqEqual

LEMMA ToEndIs ==
  ASSUME NEW S, NEW s \in Seq(S), IsInjective(s), NEW t \in S
  PROVE  /\ ToEnd(s, t) \in Seq(S) /\ IsInjective(ToEnd(s, t)) /\ t \in ToSet(ToEnd(s, t))
         /\ t \in ToSet(s) => Len(ToEnd(s, t)) = Len(s)
<1>1. CASE t \in ToSet(s)
  <2>1. PICK p \in 1..Len(s) : s[p] = t
    BY <1>1 DEF ToSet
  <2>2. ToEnd(s, t) = Moved(s, p)
    BY <2>1, ToEndMoves, Zenon
  <2> QED BY <2>1, <2>2, MovedIs, Zenon
<1>2. CASE t \notin ToSet(s)
  <2>1. ToEnd(s, t) = Append(s, t)
    BY <1>2, ToEndAppends, Zenon
  <2> QED BY <1>2, <2>1, AppendIs, Zenon
<1> QED BY <1>1, <1>2

LEMMA HitKeepsOrder ==
  ASSUME NEW S, NEW r \in Seq(S), IsInjective(r), NEW t \in ToSet(LastOf(r))
  PROVE  ToEnd(LastOf(r), t) = LastOf(ToEnd(r, t))
<1>1. PICK k \in Nat, m \in Nat : k = Dropped(r) /\ m = Len(r) /\ k <= m
  <2>1. Dropped(r) \in Nat /\ Dropped(r) <= Len(r)
    BY LastOfIs, Zenon
  <2> QED BY <2>1
<1>2. /\ LastOf(r) \in Seq(S) /\ Len(LastOf(r)) = m - k
      /\ \A i \in 1..(m - k) : LastOf(r)[i] = r[i + k]
  BY <1>1, LastOfIs
<1>3. PICK q \in 1..(m - k) : LastOf(r)[q] = t
  BY <1>2 DEF ToSet
<1>4. PICK p \in 1..m : p = q + k /\ q = p - k /\ p > k /\ r[p] = t
  <2>1. q + k \in 1..m /\ q = (q + k) - k /\ q + k > k
    BY <1>1
  <2> QED BY <1>2, <1>3, <2>1
<1>5. q \in 1..Len(LastOf(r)) /\ p \in 1..Len(r)
  BY <1>1, <1>2
<1>6. ToEnd(LastOf(r), t) = Moved(LastOf(r), q)
  BY <1>2, <1>3, <1>5, LastOfInjective, ToEndMoves, Zenon
<1>7. ToEnd(r, t) = Moved(r, p)
  BY <1>4, <1>5, ToEndMoves, Zenon
<1>8. Moved(LastOf(r), p - Dropped(r)) = LastOf(Moved(r, p))
  BY <1>1, <1>4, <1>5, LastOfMoved, Zenon
<1> QED BY <1>1, <1>4, <1>6, <1>7, <1>8, Zenon

LEMMA MissDropsOldest ==
  ASSUME NEW S, NEW r \in Seq(S), IsInjective(r), CacheSize <= Len(r),
         NEW t \in S, t \notin ToSet(LastOf(r))
  PROVE  Tail(Append(LastOf(r), t)) = LastOf(ToEnd(r, t))
<1>1. CASE t \in ToSet(r)
  <2>1. PICK p \in 1..Len(r) : r[p] = t
    BY <1>1 DEF ToSet
  <2>2. p \in 1..Dropped(r)
    <3>1. PICK k \in Nat, m \in Nat : k = Dropped(r) /\ m = Len(r) /\ k <= m
      <4>1. Dropped(r) \in Nat /\ Dropped(r) <= Len(r)
        BY LastOfIs, Zenon
      <4> QED BY <4>1
    <3>2. /\ LastOf(r) \in Seq(S) /\ Len(LastOf(r)) = m - k
          /\ \A i \in 1..(m - k) : LastOf(r)[i] = r[i + k]
      BY <3>1, LastOfIs
    <3>3. \A i \in 1..(m - k) : LastOf(r)[i] # t
      BY <3>2 DEF ToSet
    <3>4. p > k => p - k \in 1..(m - k) /\ LastOf(r)[p - k] = r[p]
      <4> SUFFICES ASSUME p > k PROVE p - k \in 1..(m - k) /\ LastOf(r)[p - k] = r[p]
        OBVIOUS
      <4>1. p - k \in 1..(m - k) /\ (p - k) + k = p
        BY <3>1
      <4> QED BY <3>2, <4>1
    <3> QED BY <2>1, <3>1, <3>3, <3>4
  <2>3. ToEnd(r, t) = Moved(r, p)
    BY <2>1, ToEndMoves, Zenon
  <2> QED BY <2>1, <2>2, <2>3, LastOfRaised, Zenon
<1>2. CASE t \notin ToSet(r)
  <2>1. ToEnd(r, t) = Append(r, t)
    BY <1>2, ToEndAppends, Zenon
  <2> QED BY <2>1, LastOfPushed, Zenon
<1> QED BY <1>1, <1>2

LEMMA MissFits ==
  ASSUME NEW S, NEW r \in Seq(S), IsInjective(r), Len(r) < CacheSize,
         NEW t \in S, t \notin ToSet(LastOf(r))
  PROVE  Append(LastOf(r), t) = LastOf(ToEnd(r, t))
<1>1. LastOf(r) = r
  <2>1. Len(r) <= CacheSize
    BY CacheAssumption
  <2> QED BY <2>1, LastOfAll, Zenon
<1>2. ToEnd(r, t) = Append(r, t)
  BY <1>1, ToEndAppends, Zenon
<1>3. Append(r, t) \in Seq(S) /\ Len(Append(r, t)) <= CacheSize
  BY CacheAssumption
<1> QED BY <1>1, <1>2, <1>3, LastOfAll, Zenon

(* What a thread is at decides how the dictionary and what was used last differ. *)
CachePoints == {"free", "touch", "read", "invoke", "put", "check", "evict"}
CacheJobs   == [at : CachePoints, text : Sentences \cup {CacheFree.text}]
Shrinking   == {w \in CacheThreads : At(w, "check") \/ At(w, "evict")}
AllFree     == \A w \in CacheThreads : At(w, "free")

CacheTyped ==
  /\ cache \in Seq(Sentences) /\ IsInjective(cache)
  /\ recent \in Seq(Sentences) /\ IsInjective(recent)
  /\ cacheJob \in [CacheThreads -> CacheJobs]
  /\ \A w \in CacheThreads : ~At(w, "free") => cacheJob[w].text \in Sentences

SizeKept == Len(cache) <= CacheSize + Cardinality(Shrinking)

Phase(w) == LET t == cacheJob[w].text IN
  /\ At(w, "touch") => cache = LastOf(recent) /\ t \in ToSet(cache)
  /\ At(w, "read")  => cache = LastOf(ToEnd(recent, t)) /\ t \in ToSet(cache)
  /\ At(w, "invoke") \/ At(w, "put") => cache = LastOf(recent) /\ t \notin ToSet(cache)
  /\ At(w, "check") \/ At(w, "evict") => cache = Append(LastOf(recent), t) /\ t \notin ToSet(LastOf(recent))
  /\ At(w, "evict") => Len(cache) > CacheSize
OneByOne ==
  /\ \A v, w \in CacheThreads : v # w => At(v, "free") \/ At(w, "free")
  /\ AllFree => cache = LastOf(recent)
  /\ \A w \in CacheThreads : Phase(w)

CacheInv == CacheTyped /\ SizeKept /\ (cacheMode = "serial" => OneByOne)

(* A step of w is a step of its job; its text changes only when it begins. *)
Moves(w, at) ==
  /\ cacheJob' \in [CacheThreads -> CacheJobs]
  /\ cacheJob'[w].at = at
  /\ \A v \in CacheThreads \ {w} : cacheJob'[v] = cacheJob[v]
KeepsText(w) == cacheJob'[w].text = cacheJob[w].text

LEMMA FreeJob == CacheFree \in CacheJobs /\ CacheFree.at = "free"
BY Zenon DEF CacheFree, CacheJobs, CachePoints

LEMMA JobGoes ==
  ASSUME CacheTyped, NEW w \in CacheThreads, NEW at \in CachePoints, CacheGoto(w, at)
  PROVE  Moves(w, at) /\ KeepsText(w)
<1> HIDE DEF CachePoints
<1>1. cacheJob \in [CacheThreads -> CacheJobs] /\ cacheJob' = [cacheJob EXCEPT ![w].at = at]
  BY DEF CacheTyped, CacheGoto
<1> DEFINE T == Sentences \cup {CacheFree.text}
<1>2. CacheJobs = [at : CachePoints, text : T]
  BY DEF CacheJobs
<1> HIDE DEF T
<1> QED BY <1>1, <1>2 DEF Moves, KeepsText

LEMMA JobEnds ==
  ASSUME CacheTyped, NEW w \in CacheThreads, cacheJob' = [cacheJob EXCEPT ![w] = CacheFree]
  PROVE  Moves(w, "free")
<1>1. cacheJob \in [CacheThreads -> CacheJobs]
  BY DEF CacheTyped
<1> QED BY <1>1, FreeJob, Zenon DEF Moves

LEMMA JobBegins ==
  ASSUME CacheTyped, NEW w \in CacheThreads, NEW t \in Sentences, NEW at \in CachePoints,
         cacheJob' = [cacheJob EXCEPT ![w] = [at |-> at, text |-> t]]
  PROVE  Moves(w, at) /\ cacheJob'[w].text = t
<1>1. cacheJob \in [CacheThreads -> CacheJobs]
  BY DEF CacheTyped
<1>2. [at |-> at, text |-> t] \in CacheJobs
  BY Zenon DEF CacheJobs
<1>3. cacheJob'[w] = [at |-> at, text |-> t]
  BY <1>1, Zenon
<1> QED BY <1>1, <1>2, <1>3, Zenon DEF Moves

(* What a step of w does to the dictionary and to what was used last. *)
Effect(w) == LET t == cacheJob[w].text IN
  \/ /\ At(w, "free") /\ (cacheMode = "serial" => AllFree) /\ UNCHANGED <<cache, recent>>
     /\ cacheJob'[w].text \in Sentences
     /\ \/ Moves(w, "touch") /\ cacheJob'[w].text \in ToSet(cache)
        \/ Moves(w, "invoke") /\ cacheJob'[w].text \notin ToSet(cache)
  \/ /\ At(w, "touch") /\ t \in ToSet(cache) /\ Moves(w, "read") /\ KeepsText(w)
     /\ cache' = ToEnd(cache, t) /\ UNCHANGED recent
  \/ /\ At(w, "read") /\ t \in ToSet(cache) /\ Moves(w, "free")
     /\ recent' = ToEnd(recent, t) /\ UNCHANGED cache
  \/ /\ (At(w, "touch") \/ At(w, "read")) /\ t \notin ToSet(cache) /\ Moves(w, "free")
     /\ UNCHANGED <<cache, recent>>
  \/ /\ At(w, "invoke") /\ UNCHANGED <<cache, recent>>
     /\ (Moves(w, "put") /\ KeepsText(w)) \/ Moves(w, "free")
  \/ /\ At(w, "put") /\ Moves(w, "check") /\ KeepsText(w) /\ UNCHANGED recent
     /\ \/ t \in ToSet(cache) /\ cache' = cache
        \/ t \notin ToSet(cache) /\ cache' = Append(cache, t)
  \/ /\ At(w, "check") /\ Len(cache) > CacheSize /\ Moves(w, "evict") /\ KeepsText(w)
     /\ UNCHANGED <<cache, recent>>
  \/ /\ At(w, "check") /\ ~(Len(cache) > CacheSize) /\ Moves(w, "free")
     /\ recent' = ToEnd(recent, t) /\ UNCHANGED cache
  \/ /\ At(w, "evict") /\ cache = <<>> /\ Moves(w, "free") /\ UNCHANGED <<cache, recent>>
  \/ /\ At(w, "evict") /\ cache # <<>> /\ Moves(w, "free")
     /\ cache' = Tail(cache) /\ recent' = ToEnd(recent, t)

LEMMA CacheEffects ==
  ASSUME CacheTyped, CacheNext
  PROVE  cacheMode' = cacheMode /\ \E w \in CacheThreads : Effect(w)
<1>1. PICK w \in CacheThreads :
        \/ \E t \in Sentences : Predict(w, t)
        \/ MoveToEnd(w) \/ ReadEntry(w) \/ Invoke(w) \/ Put(w) \/ CheckSize(w) \/ Evict(w)
  BY Zenon DEF CacheNext
<1>2. \A at \in CachePoints : CacheGoto(w, at) => Moves(w, at) /\ KeepsText(w)
  BY JobGoes, Zenon
<1>3. (cacheJob' = [cacheJob EXCEPT ![w] = CacheFree]) => Moves(w, "free")
  BY JobEnds, Zenon
<1>4. {"read", "put", "check", "evict", "touch", "invoke"} \subseteq CachePoints
  BY Zenon DEF CachePoints
<1>5. ASSUME NEW t \in Sentences, Predict(w, t) PROVE Effect(w)
  <2>1. CASE t \in ToSet(cache)
    <3>1. cacheJob' = [cacheJob EXCEPT ![w] = [at |-> "touch", text |-> t]]
      BY <1>5, <2>1, Zenon DEF Predict
    <3>2. Moves(w, "touch") /\ cacheJob'[w].text = t
      BY <1>4, <3>1, JobBegins, Zenon
    <3> QED BY <1>5, <2>1, <3>2, Zenon DEF Predict, Effect, AllFree
  <2>2. CASE t \notin ToSet(cache)
    <3>1. cacheJob' = [cacheJob EXCEPT ![w] = [at |-> "invoke", text |-> t]]
      BY <1>5, <2>2, Zenon DEF Predict
    <3>2. Moves(w, "invoke") /\ cacheJob'[w].text = t
      BY <1>4, <3>1, JobBegins, Zenon
    <3> QED BY <1>5, <2>2, <3>2, Zenon DEF Predict, Effect, AllFree
  <2> QED BY <2>1, <2>2
<1>6. CASE MoveToEnd(w)
  BY <1>2, <1>3, <1>4, <1>6, Zenon DEF MoveToEnd, PatternsAnswer, Cached, Effect
<1>7. CASE ReadEntry(w)
  BY <1>3, <1>7, Zenon DEF ReadEntry, ModelAnswers, PatternsAnswer, Cached, Effect
<1>8. CASE Invoke(w)
  BY <1>2, <1>3, <1>4, <1>8, Zenon DEF Invoke, PatternsAnswer, Effect
<1>9. CASE Put(w)
  BY <1>2, <1>4, <1>9, Zenon DEF Put, Cached, Effect
<1>10. CASE CheckSize(w)
  BY <1>2, <1>3, <1>4, <1>10, Zenon DEF CheckSize, ModelAnswers, Effect
<1>11. CASE Evict(w)
  BY <1>3, <1>11, Zenon DEF Evict, ModelAnswers, PatternsAnswer, Effect
<1>12. cacheMode' = cacheMode
  BY <1>1, Zenon DEF Predict, MoveToEnd, ReadEntry, Invoke, Put, CheckSize, Evict
<1> QED BY <1>1, <1>5, <1>6, <1>7, <1>8, <1>9, <1>10, <1>11, <1>12, Zenon

LEMMA TextIs ==
  ASSUME CacheTyped, NEW w \in CacheThreads, ~At(w, "free")
  PROVE  cacheJob[w].text \in Sentences
BY Zenon DEF CacheTyped

LEMMA TypedStep ==
  ASSUME CacheTyped, NEW w \in CacheThreads, Effect(w)
  PROVE  CacheTyped'
<1>1. PICK t : t = cacheJob[w].text
  OBVIOUS
<1>2. At(w, "free") \/ t \in Sentences
  BY <1>1, TextIs, Zenon
<1>3. /\ cache \in Seq(Sentences) /\ IsInjective(cache)
      /\ recent \in Seq(Sentences) /\ IsInjective(recent)
  BY Zenon DEF CacheTyped
<1>4. t \in Sentences => /\ ToEnd(cache, t) \in Seq(Sentences) /\ IsInjective(ToEnd(cache, t))
                         /\ ToEnd(recent, t) \in Seq(Sentences) /\ IsInjective(ToEnd(recent, t))
                         /\ t \notin ToSet(cache) => /\ Append(cache, t) \in Seq(Sentences)
                                                     /\ IsInjective(Append(cache, t))
  BY <1>3, ToEndIs, AppendIs, Zenon
<1>5. cache # <<>> => Tail(cache) \in Seq(Sentences) /\ IsInjective(Tail(cache))
  BY <1>3 DEF IsInjective
<1>6. "free" # "touch" /\ "free" # "read" /\ "free" # "check" /\ "free" # "evict" /\ "free" # "put"
  OBVIOUS
<1>7. recent' \in Seq(Sentences) /\ IsInjective(recent')
  BY <1>1, <1>2, <1>3, <1>4, <1>6, Zenon DEF Effect, At
<1>8. cache' \in Seq(Sentences) /\ IsInjective(cache')
  BY <1>1, <1>2, <1>3, <1>4, <1>5, <1>6, Zenon DEF Effect, At
<1>9. cacheJob' \in [CacheThreads -> CacheJobs]
  BY Zenon DEF Effect, Moves
<1>10. ASSUME NEW v \in CacheThreads, ~At(v, "free")' PROVE cacheJob'[v].text \in Sentences
  <2>1. CASE v # w
    <3>1. cacheJob'[v] = cacheJob[v]
      BY <2>1, Zenon DEF Effect, Moves
    <3> QED BY <1>10, <3>1, TextIs, Zenon DEF At
  <2>2. CASE v = w
    <3>1. ~Moves(w, "free")
      BY <1>10, <2>2, Zenon DEF Moves, At
    <3>2. cacheJob'[w].text \in Sentences
      BY <1>1, <1>2, <1>6, <3>1, Zenon DEF Effect, KeepsText, At
    <3> QED BY <2>2, <3>2
  <2> QED BY <2>1, <2>2
<1> QED BY <1>7, <1>8, <1>9, <1>10, Zenon DEF CacheTyped

LEMMA ShrinkingMoves ==
  ASSUME NEW w \in CacheThreads, NEW at, Moves(w, at)
  PROVE  /\ IsFiniteSet(Shrinking) /\ IsFiniteSet(Shrinking')
         /\ Cardinality(Shrinking) \in Nat /\ Cardinality(Shrinking') \in Nat
         /\ w \in Shrinking /\ at \in {"check", "evict"} => Shrinking' = Shrinking
         /\ w \notin Shrinking /\ at \notin {"check", "evict"} => Shrinking' = Shrinking
         /\ w \notin Shrinking /\ at \in {"check", "evict"} => Cardinality(Shrinking') = Cardinality(Shrinking) + 1
         /\ w \in Shrinking /\ at \notin {"check", "evict"} => Cardinality(Shrinking') = Cardinality(Shrinking) - 1
<1>1. PICK B : B = Shrinking
  OBVIOUS
<1>2. PICK A : A = Shrinking'
  OBVIOUS
<1>3. \A v \in CacheThreads \ {w} : v \in A <=> v \in B
  BY <1>1, <1>2, Zenon DEF Shrinking, Moves, At
<1>4. w \in A <=> at \in {"check", "evict"}
  BY <1>2, Zenon DEF Shrinking, Moves, At
<1>5. A \subseteq CacheThreads /\ B \subseteq CacheThreads
  BY <1>1, <1>2, Zenon DEF Shrinking
<1>6. IsFiniteSet(A) /\ IsFiniteSet(B)
  BY <1>5, CacheAssumption, FS_Subset
<1>7. Cardinality(A) \in Nat /\ Cardinality(B) \in Nat
  BY <1>6, FS_CardinalityType
<1>8. w \notin B /\ w \in A => A = B \cup {w} /\ Cardinality(A) = Cardinality(B) + 1
  <2>1. w \notin B /\ w \in A => A = B \cup {w}
    BY <1>3, <1>5
  <2> QED BY <1>6, <2>1, FS_AddElement
<1>9. w \in B /\ w \notin A => B = A \cup {w} /\ Cardinality(B) = Cardinality(A) + 1
  <2>1. w \in B /\ w \notin A => B = A \cup {w}
    BY <1>3, <1>5
  <2> QED BY <1>6, <2>1, FS_AddElement
<1>10. (w \in A <=> w \in B) => A = B
  BY <1>3, <1>5
<1>11. w \in B /\ w \notin A => Cardinality(A) = Cardinality(B) - 1
  BY <1>7, <1>9
<1> QED BY <1>1, <1>2, <1>4, <1>6, <1>7, <1>8, <1>10, <1>11, Zenon

LEMMA SizeStep ==
  ASSUME CacheTyped, SizeKept, NEW w \in CacheThreads, Effect(w)
  PROVE  SizeKept'
<1>1. PICK t : t = cacheJob[w].text
  OBVIOUS
<1>2. PICK at : Moves(w, at)
  BY Zenon DEF Effect
<1>3. PICK n \in Nat : n = Cardinality(Shrinking)
  BY <1>2, ShrinkingMoves, Zenon
<1>4. PICK m \in Nat : m = Cardinality(Shrinking')
  BY <1>2, ShrinkingMoves, Zenon
<1>5. /\ w \in Shrinking /\ at \in {"check", "evict"} => m = n
      /\ w \notin Shrinking /\ at \notin {"check", "evict"} => m = n
      /\ w \notin Shrinking /\ at \in {"check", "evict"} => m = n + 1
      /\ w \in Shrinking /\ at \notin {"check", "evict"} => m = n - 1
  BY <1>2, <1>3, <1>4, ShrinkingMoves, Zenon
<1>6. PICK l \in Nat : l = Len(cache) /\ l <= CacheSize + n
  BY <1>3 DEF CacheTyped, SizeKept
<1>7. \A b : Moves(w, b) => b = at
  BY <1>2, Zenon DEF Moves
<1>8. w \in Shrinking <=> At(w, "check") \/ At(w, "evict")
  BY Zenon DEF Shrinking
<1>9. CacheSize \in Nat
  BY CacheAssumption
<1>10. Len(cache') <= CacheSize + m
  <2> USE DEF At
  <2>1. CASE At(w, "free") /\ cache' = cache
    <3>1. m >= n
      BY <1>5, <1>8, <2>1
    <3> QED BY <1>6, <1>9, <2>1, <3>1
  <2>2. CASE At(w, "touch") /\ t \in ToSet(cache) /\ Moves(w, "read") /\ cache' = ToEnd(cache, t)
    <3>1. Len(cache') = Len(cache)
      <4>1. cache \in Seq(Sentences) /\ IsInjective(cache) /\ t \in Sentences
        BY <1>1, <2>2, TextIs, Zenon DEF CacheTyped
      <4> QED BY <2>2, <4>1, ToEndIs, Zenon
    <3>2. m = n
      BY <1>5, <1>7, <1>8, <2>2
    <3> QED BY <1>6, <1>9, <3>1, <3>2
  <2>3. CASE ~At(w, "check") /\ ~At(w, "evict") /\ cache' = cache
    <3>1. m >= n
      BY <1>5, <1>8, <2>3
    <3> QED BY <1>6, <1>9, <2>3, <3>1
  <2>4. CASE At(w, "put") /\ Moves(w, "check") /\ (cache' = cache \/ cache' = Append(cache, t))
    <3>1. m = n + 1
      BY <1>5, <1>7, <1>8, <2>4
    <3>2. Len(cache') <= l + 1
      BY <1>6, <2>4 DEF CacheTyped
    <3> QED BY <1>6, <1>9, <3>1, <3>2, <2>4 DEF CacheTyped
  <2>5. CASE At(w, "check") /\ Moves(w, "evict") /\ cache' = cache
    <3>1. m = n
      BY <1>5, <1>7, <1>8, <2>5
    <3> QED BY <1>6, <1>9, <2>5, <3>1
  <2>6. CASE At(w, "check") /\ ~(Len(cache) > CacheSize) /\ cache' = cache
    BY <1>6, <1>9, <2>6
  <2>7. CASE cache = <<>> /\ cache' = cache
    BY <1>9, <2>7
  <2>8. CASE At(w, "evict") /\ Moves(w, "free") /\ cache # <<>> /\ cache' = Tail(cache)
    <3>1. m = n - 1
      BY <1>5, <1>7, <1>8, <2>8
    <3>2. Len(cache') = l - 1
      BY <1>6, <2>8 DEF CacheTyped
    <3> QED BY <1>6, <1>9, <3>1, <3>2
  <2>9. "touch" # "check" /\ "touch" # "evict" /\ "read" # "check" /\ "read" # "evict"
        /\ "invoke" # "check" /\ "invoke" # "evict"
    OBVIOUS
  <2> QED BY <1>1, <2>1, <2>2, <2>3, <2>4, <2>5, <2>6, <2>7, <2>8, <2>9, Zenon DEF Effect
<1> QED BY <1>4, <1>10 DEF SizeKept

LEMMA CacheSerialStep ==
  ASSUME CacheTyped, OneByOne, cacheMode = "serial", NEW w \in CacheThreads, Effect(w)
  PROVE  OneByOne'
<1>1. PICK t : t = cacheJob[w].text
  OBVIOUS
<1>2. PICK at : Moves(w, at)
  BY Zenon DEF Effect
<1>3. \A v \in CacheThreads \ {w} : At(v, "free")
  <2>1. CASE At(w, "free")
    BY <2>1, Zenon DEF Effect, At, AllFree
  <2>2. CASE ~At(w, "free")
    BY <2>2, Zenon DEF OneByOne
  <2> QED BY <2>1, <2>2
<1>4. \A v \in CacheThreads \ {w} : At(v, "free")'
  BY <1>2, <1>3, Zenon DEF Moves, At
<1>5. \A v \in CacheThreads \ {w} : Phase(v)'
  BY <1>4 DEF Phase, At
<1>6. At(w, "free") => cache = LastOf(recent)
  BY <1>3, Zenon DEF OneByOne, AllFree
<1>7. Phase(w)
  BY Zenon DEF OneByOne
<1>8. \A b : Moves(w, b) => At(w, b)' /\ \A c : At(w, c)' => c = b
  BY Zenon DEF Moves, At
<1>9. /\ recent \in Seq(Sentences) /\ IsInjective(recent)
      /\ ~At(w, "free") => t \in Sentences
  BY <1>1, TextIs, Zenon DEF CacheTyped
<1>10. PICK u : u = cacheJob'[w].text
  OBVIOUS
<1>11. Phase(w)' /\ (At(w, "free")' => cache' = LastOf(recent'))
  <2>1. CASE /\ At(w, "free") /\ UNCHANGED <<cache, recent>>
             /\ \/ Moves(w, "touch") /\ u \in ToSet(cache)
                \/ Moves(w, "invoke") /\ u \notin ToSet(cache)
    BY <1>6, <1>8, <1>10, <2>1 DEF Phase
  <2>2. CASE /\ At(w, "touch") /\ t \in ToSet(cache) /\ Moves(w, "read") /\ KeepsText(w)
             /\ cache' = ToEnd(cache, t) /\ UNCHANGED recent
    <3>1. cache = LastOf(recent) /\ t \in Sentences
      BY <1>1, <1>7, <1>9, <2>2 DEF Phase, At
    <3>2. ToEnd(LastOf(recent), t) = LastOf(ToEnd(recent, t))
      BY <1>9, <2>2, <3>1, HitKeepsOrder, Zenon
    <3>3. t \in ToSet(ToEnd(cache, t))
      BY <2>2, <3>1, ToEndIs, Zenon DEF CacheTyped
    <3> QED BY <1>1, <1>8, <2>2, <3>1, <3>2, <3>3 DEF Phase, KeepsText
  <2>3. CASE /\ At(w, "read") /\ t \in ToSet(cache) /\ Moves(w, "free")
             /\ recent' = ToEnd(recent, t) /\ UNCHANGED cache
    BY <1>1, <1>7, <1>8, <2>3 DEF Phase
  <2>4. CASE (At(w, "touch") \/ At(w, "read")) /\ t \notin ToSet(cache)
    BY <1>1, <1>7, <2>4 DEF Phase
  <2>5. CASE /\ At(w, "invoke") /\ UNCHANGED <<cache, recent>>
             /\ (Moves(w, "put") /\ KeepsText(w)) \/ Moves(w, "free")
    BY <1>1, <1>7, <1>8, <2>5 DEF Phase, KeepsText
  <2>6. CASE At(w, "put") /\ t \in ToSet(cache)
    BY <1>1, <1>7, <2>6 DEF Phase
  <2>7. CASE /\ At(w, "put") /\ Moves(w, "check") /\ KeepsText(w) /\ UNCHANGED recent
             /\ t \notin ToSet(cache) /\ cache' = Append(cache, t)
    BY <1>1, <1>7, <1>8, <2>7 DEF Phase, KeepsText
  <2>8. CASE /\ At(w, "check") /\ Len(cache) > CacheSize /\ Moves(w, "evict") /\ KeepsText(w)
             /\ UNCHANGED <<cache, recent>>
    BY <1>1, <1>7, <1>8, <2>8 DEF Phase, KeepsText
  <2>9. CASE /\ At(w, "check") /\ ~(Len(cache) > CacheSize) /\ Moves(w, "free")
             /\ recent' = ToEnd(recent, t) /\ UNCHANGED cache
    <3>1. cache = Append(LastOf(recent), t) /\ t \notin ToSet(LastOf(recent)) /\ t \in Sentences
      BY <1>1, <1>7, <1>9, <2>9 DEF Phase, At
    <3>2. Len(recent) < CacheSize
      <4>1. PICK r : r = LastOf(recent)
        OBVIOUS
      <4>2. r \in Seq(Sentences) /\ Len(r) = Len(recent) - Dropped(recent)
        BY <1>9, <4>1, LastOfIs, Zenon
      <4>3. Len(cache) = Len(r) + 1
        BY <3>1, <4>1, <4>2
      <4>4. PICK m \in Nat : m = Len(recent)
        BY <1>9
      <4>5. Dropped(recent) = IF m > CacheSize THEN m - CacheSize ELSE 0
        BY <4>4 DEF Dropped
      <4>6. CacheSize \in Nat /\ ~(m - Dropped(recent) + 1 > CacheSize)
        BY <2>9, <4>2, <4>3, <4>4, CacheAssumption
      <4>7. CASE m > CacheSize
        BY <4>4, <4>5, <4>6, <4>7
      <4>8. CASE ~(m > CacheSize)
        <5>1. Dropped(recent) = 0
          BY <4>5, <4>8
        <5> QED BY <4>4, <4>6, <5>1
      <4> QED BY <4>7, <4>8
    <3>3. Append(LastOf(recent), t) = LastOf(ToEnd(recent, t))
      BY <1>9, <3>1, <3>2, MissFits, Zenon
    <3> QED BY <1>8, <2>9, <3>1, <3>3 DEF Phase
  <2>10. CASE At(w, "evict") /\ cache = <<>>
    <3>1. FALSE
      BY <1>7, <2>10, CacheAssumption DEF Phase
    <3> QED BY <3>1
  <2>11. CASE /\ At(w, "evict") /\ cache # <<>> /\ Moves(w, "free")
              /\ cache' = Tail(cache) /\ recent' = ToEnd(recent, t)
    <3>1. /\ cache = Append(LastOf(recent), t) /\ t \notin ToSet(LastOf(recent)) /\ t \in Sentences
          /\ Len(cache) > CacheSize
      BY <1>1, <1>7, <1>9, <2>11 DEF Phase, At
    <3>2. CacheSize <= Len(recent)
      <4>1. PICK r : r = LastOf(recent)
        OBVIOUS
      <4>2. r \in Seq(Sentences) /\ Len(r) = Len(recent) - Dropped(recent) /\ Dropped(recent) \in Nat
        BY <1>9, <4>1, LastOfIs, Zenon
      <4>3. Len(cache) = Len(r) + 1
        BY <3>1, <4>1, <4>2
      <4> QED BY <1>9, <3>1, <4>2, <4>3, CacheAssumption
    <3>3. Tail(Append(LastOf(recent), t)) = LastOf(ToEnd(recent, t))
      BY <1>9, <3>1, <3>2, MissDropsOldest, Zenon
    <3> QED BY <1>8, <2>11, <3>1, <3>3 DEF Phase
  <2> QED BY <1>1, <1>10, <2>1, <2>2, <2>3, <2>4, <2>5, <2>6, <2>7, <2>8, <2>9, <2>10, <2>11, Zenon DEF Effect
<1>12. \A v, x \in CacheThreads : v # x => At(v, "free")' \/ At(x, "free")'
  BY <1>4, Zenon
<1>13. AllFree' => cache' = LastOf(recent')
  BY <1>11, Zenon DEF AllFree
<1>14. \A v \in CacheThreads : Phase(v)'
  BY <1>5, <1>11, Zenon
<1> QED BY <1>12, <1>13, <1>14, Zenon DEF OneByOne

LEMMA CacheInvInit == CacheInit => CacheInv
<1> SUFFICES ASSUME CacheInit PROVE CacheInv
  OBVIOUS
<1>1. cache = <<>> /\ recent = <<>> /\ \A w \in CacheThreads : cacheJob[w] = CacheFree
  BY Zenon DEF CacheInit
<1>2. AllFree /\ cacheJob \in [CacheThreads -> CacheJobs]
  BY <1>1, FreeJob, Zenon DEF CacheInit, AllFree, At
<1>3. <<>> \in Seq(Sentences) /\ IsInjective(<<>>) /\ Len(<<>>) = 0
  BY DEF IsInjective
<1>4. CacheTyped
  BY <1>1, <1>2, <1>3, Zenon DEF CacheTyped, AllFree
<1>5. Shrinking = {}
  BY <1>2 DEF Shrinking, AllFree, At
<1>6. SizeKept
  <2>1. Cardinality({}) = 0
    BY FS_EmptySet
  <2> QED BY <1>1, <1>5, <2>1, CacheAssumption DEF SizeKept
<1>7. LastOf(<<>>) = <<>>
  <2>1. Len(<<>>) <= CacheSize
    BY <1>3, CacheAssumption
  <2> QED BY <1>3, <2>1, LastOfAll, Zenon
<1>8. \A w \in CacheThreads : Phase(w)
  BY <1>2 DEF Phase, AllFree, At
<1> QED BY <1>1, <1>2, <1>4, <1>6, <1>7, <1>8, Zenon DEF CacheInv, OneByOne, AllFree

LEMMA CacheInvStep == CacheInv /\ [CacheNext]_cacheVars => CacheInv'
<1> SUFFICES ASSUME CacheInv, [CacheNext]_cacheVars PROVE CacheInv'
  OBVIOUS
<1>1. CASE CacheNext
  <2>1. cacheMode' = cacheMode
    BY <1>1, CacheEffects, Zenon DEF CacheInv
  <2>2. PICK w \in CacheThreads : Effect(w)
    BY <1>1, CacheEffects, Zenon DEF CacheInv
  <2> QED BY <2>1, <2>2, TypedStep, SizeStep, CacheSerialStep, Zenon DEF CacheInv
<1>2. CASE UNCHANGED cacheVars
  BY <1>2, Zenon DEF cacheVars, CacheInv, CacheTyped, SizeKept, OneByOne, Shrinking, Phase, AllFree, At
<1> QED BY <1>1, <1>2

LEMMA CacheAlways == CacheSpec => []CacheInv
BY CacheInvInit, CacheInvStep, PTL DEF CacheSpec

(* The dictionary holds each text once, and only texts that were asked. *)
THEOREM CacheTypeCorrect == CacheSpec => []CacheTypeOK
<1>1. CacheInv => CacheTypeOK
  <2> SUFFICES ASSUME CacheInv PROVE CacheTypeOK
    OBVIOUS
  <2>1. IsInjective(cache) /\ ToSet(cache) \subseteq Sentences
    <3>1. cache \in Seq(Sentences) /\ IsInjective(cache)
      BY Zenon DEF CacheInv, CacheTyped
    <3> QED BY <3>1 DEF ToSet
  <2>2. \A w \in CacheThreads : cacheJob[w].at \in CachePoints
    BY Zenon DEF CacheInv, CacheTyped, CacheJobs
  <2> QED BY <2>1, <2>2, Zenon DEF CacheTypeOK, CachePoints
<1> QED BY <1>1, CacheAlways, PTL

(* LLMIntentClassifier's cache, for every size and any number of threads: called one     *)
(* after the other it holds the texts used last in their order, hits, misses, failures   *)
(* and evictions included; overlapping threads outgrow it by no more than those of them  *)
(* that have stored a text and not yet answered.                                         *)
THEOREM CacheKeepsRecent == CacheSpec => []KeepsRecent
<1>1. CacheInv => KeepsRecent
  BY Zenon DEF CacheInv, SizeKept, OneByOne, Shrinking, AllFree, KeepsRecent
<1> QED BY <1>1, CacheAlways, PTL

-------------------------------------------------------------------------------
(* Masking: personal data taken out of a text and put back                   *)

(* A value that is found stands where it is found, at or behind the place searched from. *)
LEMMA FindIs ==
  ASSUME NEW t \in Seq(Letters), NEW v, NEW s \in Nat, Find(t, v, s) # 0
  PROVE  Find(t, v, s) \in s..Len(t) /\ StandsAt(t, v, Find(t, v, s))
<1> DEFINE places == {p \in s..Len(t) : StandsAt(t, v, p)}
<1>1. places \in SUBSET Nat
  OBVIOUS
<1>2. Find(t, v, s) = IF places = {} THEN 0 ELSE Min(places)
  BY Zenon DEF Find
<1>3. CASE places = {}
  BY <1>2, <1>3, Zenon
<1>4. CASE places # {}
  <2>1. Min(places) \in places
    <3> HIDE DEF places
    <3> QED BY <1>1, <1>4, MinOfNats, Zenon
  <2> QED BY <1>2, <1>4, <2>1, Zenon
<1> QED BY <1>3, <1>4

(* The places found stand in the text from s on, one behind the other. *)
Apart(t, v, s, F) ==
  /\ F \subseteq s..Len(t) /\ \A p \in F : StandsAt(t, v, p)
  /\ \A p, q \in F : p < q => p + Len(v) <= q

(* The next find, and those behind its end, are apart again. *)
LEMMA NextFind ==
  ASSUME NEW t \in Seq(Letters), NEW v \in Seq(Letters), NEW s \in Nat, NEW p, NEW F, p \in s..Len(t),
         StandsAt(t, v, p), Apart(t, v, p + Len(v), F)
  PROVE  Apart(t, v, s, {p} \cup F)
<1>1. PICK G : G = {p} \cup F
  OBVIOUS
<1>2. G \subseteq s..Len(t)
  BY <1>1 DEF Apart
<1>3. \A q \in G : StandsAt(t, v, q)
  BY <1>1, Zenon DEF Apart
<1>4. \A q \in F : q \in Nat /\ p + Len(v) <= q
  BY DEF Apart
<1>5. ASSUME NEW q \in G, NEW r \in G, q < r PROVE q + Len(v) <= r
  <2>1. CASE q \in F /\ r \in F
    BY <1>5, <2>1, Zenon DEF Apart
  <2>2. CASE q = p
    BY <1>1, <1>4, <1>5, <2>2
  <2>3. CASE q \in F /\ r = p
    BY <1>4, <1>5, <2>3
  <2> QED BY <1>1, <2>1, <2>2, <2>3
<1> QED BY <1>1, <1>2, <1>3, <1>5, Zenon DEF Apart

(* By induction on what is left of the text. *)
LEMMA FindsAreApart ==
  ASSUME NEW t \in Seq(Letters), NEW v \in Seq(Letters), v # <<>>
  PROVE  Apart(t, v, 1, Finds(t, v))
<1> DEFINE D == Nat
           S == SUBSET Nat
           size == [s \in D |-> IF s > Len(t) THEN 0 ELSE Len(t) + 1 - s]
           rule(s, f) == LET p == Find(t, v, s) IN IF p = 0 THEN {} ELSE {p} \cup f[p + Len(v)]
           step == [s \in D |-> [f \in [D -> S] |-> rule(s, f)]]
<1>0. Len(t) \in Nat /\ Len(v) \in Nat /\ Len(v) >= 1
  OBVIOUS
<1>1. ASSUME NEW s \in Nat, Find(t, v, s) # 0
      PROVE  /\ Find(t, v, s) \in Nat /\ Find(t, v, s) + Len(v) \in Nat
             /\ size[Find(t, v, s) + Len(v)] < size[s] /\ Find(t, v, s) \in s..Len(t)
  <2>1. PICK p : p = Find(t, v, s)
    OBVIOUS
  <2>2. p \in s..Len(t)
    BY <1>1, <2>1, FindIs, Zenon
  <2>3. p \in Nat /\ p + Len(v) \in Nat /\ s <= Len(t)
    BY <1>0, <2>2
  <2>4. size[p + Len(v)] = (IF p + Len(v) > Len(t) THEN 0 ELSE Len(t) + 1 - (p + Len(v))) /\ size[s] = Len(t) + 1 - s
    BY <2>3
  <2> HIDE DEF size
  <2>5. size[p + Len(v)] < size[s]
    BY <1>0, <2>2, <2>3, <2>4
  <2> QED BY <2>1, <2>2, <2>3, <2>5
<1>2. size \in [D -> Nat]
  BY <1>0
<1>3. ASSUME NEW s \in D, NEW f \in [D -> S] PROVE rule(s, f) \in S
  <2>1. CASE Find(t, v, s) = 0
    BY <2>1
  <2>2. CASE Find(t, v, s) # 0
    <3>1. PICK p \in Nat : p = Find(t, v, s) /\ p # 0 /\ p + Len(v) \in Nat
      <4> HIDE DEF size
      <4> QED BY <1>1, <2>2
    <3>2. rule(s, f) = {p} \cup f[p + Len(v)]
      BY <3>1, Zenon
    <3>3. {p} \cup f[p + Len(v)] \in S
      BY <3>1
    <3> QED BY <3>2, <3>3, Zenon
  <2> QED BY <2>1, <2>2
<1>4. step \in [D -> [[D -> S] -> S]]
  <2> HIDE DEF D, S, rule
  <2> QED BY <1>3, Zenon
<1>5. ASSUME NEW s \in D, NEW f \in [D -> S], NEW g \in [D -> S],
             \A e \in D : size[e] < size[s] => f[e] = g[e]
      PROVE  step[s][f] = step[s][g]
  <2>1. step[s][f] = rule(s, f) /\ step[s][g] = rule(s, g)
    <3> HIDE DEF D, S, rule
    <3> QED BY Zenon
  <2>2. rule(s, f) = rule(s, g)
    <3> HIDE DEF size, step
    <3>1. CASE Find(t, v, s) = 0
      BY <3>1, Zenon
    <3>2. CASE Find(t, v, s) # 0
      <4>1. f[Find(t, v, s) + Len(v)] = g[Find(t, v, s) + Len(v)]
        BY <1>1, <1>5, <3>2, Zenon
      <4> QED BY <3>2, <4>1, Zenon
    <3> QED BY <3>1, <3>2
  <2> QED BY <2>1, <2>2, Zenon
<1>6. LooksBack(D, S, size, step)
  <2> HIDE DEF D, S, size, step
  <2> QED BY <1>5, Zenon DEF LooksBack
<1>7. PICK f \in [D -> S] : Obeys(f, D, step)
  <2>1. {} \in S
    OBVIOUS
  <2>2. S # {}
    BY <2>1
  <2> HIDE DEF D, S, size, step
  <2> QED BY <1>2, <1>4, <1>6, <2>2, MeasureRecursion, Zenon
<1>8. \A s \in D : f[s] = rule(s, f)
  <2> SUFFICES ASSUME NEW s \in D PROVE f[s] = rule(s, f)
    OBVIOUS
  <2>1. step[s][f] = rule(s, f)
    <3> HIDE DEF D, S, rule
    <3> QED BY Zenon
  <2> QED BY <1>7, <2>1, Zenon DEF Obeys
<1> DEFINE Def(h) == h = [s \in D |-> rule(s, h)]
<1>9. Def(f)
  <2> HIDE DEF D, S, rule, step
  <2> QED BY <1>8
<1>10. PICK from : from = CHOOSE h : Def(h)
  OBVIOUS
<1>11. Finds(t, v) = from[1]
  BY <1>10, Zenon DEF Finds
<1>12. Def(from)
  <2> HIDE DEF Def
  <2> QED BY <1>9, <1>10, Zenon
<1>13. \A s \in D : from[s] = rule(s, from)
  <2> HIDE DEF D, S, rule, step
  <2> QED BY <1>12, Zenon
<1> HIDE DEF step, size, Def
<1> DEFINE T == {n \in Nat : \A s \in Nat : s + n >= Len(t) + 1 => Apart(t, v, s, from[s])}
<1>14. ASSUME NEW s \in Nat, Find(t, v, s) = 0 PROVE Apart(t, v, s, from[s])
  <2>1. from[s] = {}
    BY <1>13, <1>14, Zenon
  <2> QED BY <2>1, Zenon DEF Apart
<1>15. 0 \in T
  <2> SUFFICES ASSUME NEW s \in Nat, s + 0 >= Len(t) + 1 PROVE Apart(t, v, s, from[s])
    OBVIOUS
  <2>1. Find(t, v, s) = 0
    <3> SUFFICES ASSUME Find(t, v, s) # 0 PROVE FALSE
      OBVIOUS
    <3>1. PICK p : p \in s..Len(t)
      BY FindIs, Zenon
    <3> QED BY <1>0, <3>1
  <2> QED BY <1>14, <2>1, Zenon
<1>16. ASSUME NEW n \in T PROVE n + 1 \in T
  <2> SUFFICES ASSUME NEW s \in Nat, s + (n + 1) >= Len(t) + 1 PROVE Apart(t, v, s, from[s])
    OBVIOUS
  <2>1. CASE Find(t, v, s) = 0
    BY <1>14, <2>1, Zenon
  <2>2. CASE Find(t, v, s) # 0
    <3>1. PICK p \in Nat : p = Find(t, v, s) /\ p \in s..Len(t) /\ StandsAt(t, v, p) /\ p + Len(v) \in Nat
      <4>1. Find(t, v, s) \in s..Len(t) /\ StandsAt(t, v, Find(t, v, s))
        BY <2>2, FindIs, Zenon
      <4> QED BY <1>1, <2>2, <4>1
    <3>2. from[s] = {p} \cup from[p + Len(v)]
      BY <1>13, <2>2, <3>1, Zenon
    <3>3. (p + Len(v)) + n >= Len(t) + 1
      BY <1>0, <3>1
    <3>4. Apart(t, v, p + Len(v), from[p + Len(v)])
      BY <3>1, <3>3
    <3>5. Apart(t, v, s, {p} \cup from[p + Len(v)])
      BY <3>1, <3>4, NextFind
    <3> QED BY <3>2, <3>5, Zenon
  <2> QED BY <2>1, <2>2
<1> HIDE DEF T
<1>17. T = Nat
  BY <1>15, <1>16, SetInduction DEF T
<1>18. Len(t) \in T /\ 1 + Len(t) >= Len(t) + 1
  BY <1>0, <1>17
<1>19. Apart(t, v, 1, from[1])
  BY <1>18 DEF T
<1> QED BY <1>11, <1>19, Zenon

(* Each replacement covers a value of its field in the text, and no two overlap. *)
Covers(t, r) ==
  /\ r.field \in FieldNames /\ r.from \in 1..Len(t) /\ r.to \in Nat /\ r.from < r.to /\ r.to <= Len(t) + 1
  /\ SubSeq(t, r.from, r.to - 1) = customer[r.field]
Replaces(t, R) ==
  /\ \A r \in R : Covers(t, r)
  /\ \A r, q \in R : r = q \/ r.to <= q.from \/ q.to <= r.from

CustomerOK == customer \in [FieldNames -> Seq(Letters)]

(* A claim adds only replacements that overlap none of the earlier ones. *)
LEMMA ClaimReplaces ==
  ASSUME CustomerOK, NEW t \in Seq(Letters), NEW f \in FieldNames, customer[f] # <<>>,
         NEW R, Replaces(t, R)
  PROVE  Replaces(t, Claim(t, f, customer[f], R))
<1>1. PICK v \in Seq(Letters) : v = customer[f] /\ v # <<>>
  BY DEF CustomerOK
<1>2. Len(t) \in Nat /\ Len(v) \in Nat /\ Len(v) >= 1
  BY <1>1
<1>3. Apart(t, v, 1, Finds(t, v))
  BY <1>1, FindsAreApart, Zenon
<1> DEFINE a(p) == [from |-> p, to |-> p + Len(v), field |-> f]
           C == Claim(t, f, v, R)
<1>4. \A r \in C : r \in R \/ \E p \in Finds(t, v) : r = a(p) /\ ~Overlaps(r, R)
  BY DEF Claim
<1>5. ASSUME NEW p \in Finds(t, v)
      PROVE  p \in 1..Len(t) /\ p + Len(v) - 1 <= Len(t) /\ SubSeq(t, p, p + Len(v) - 1) = v
  BY <1>3 DEF Apart, StandsAt
<1>6. ASSUME NEW p \in Finds(t, v) PROVE Covers(t, a(p))
  <2>1. PICK x : x = a(p)
    OBVIOUS
  <2>2. x.from = p /\ x.to = p + Len(v) /\ x.field = f
    BY <2>1
  <2>3. p \in 1..Len(t) /\ p + Len(v) \in Nat /\ p < p + Len(v) /\ p + Len(v) <= Len(t) + 1
        /\ (p + Len(v)) - 1 = p + Len(v) - 1
    BY <1>2, <1>5
  <2>4. SubSeq(t, p, (p + Len(v)) - 1) = v
    BY <1>5, <2>3, Zenon
  <2>5. Covers(t, x)
    BY <1>1, <2>2, <2>3, <2>4, Zenon DEF Covers
  <2> QED BY <2>1, <2>5, Zenon
<1> HIDE DEF C
<1>7. ASSUME NEW r \in C PROVE Covers(t, r)
  <2> HIDE DEF a
  <2> QED BY <1>4, <1>6, Zenon DEF Replaces
<1>8. ASSUME NEW p \in Finds(t, v), ~Overlaps(a(p), R), NEW q \in R
      PROVE  p + Len(v) <= q.from \/ q.to <= p
  <2>1. a(p).to <= q.from \/ a(p).from >= q.to
    BY <1>8, Zenon DEF Overlaps
  <2>2. q.to \in Nat /\ p \in Nat
    BY <1>5 DEF Replaces, Covers
  <2> QED BY <2>1, <2>2
<1>9. ASSUME NEW p \in Finds(t, v), NEW q \in Finds(t, v) PROVE p = q \/ p + Len(v) <= q \/ q + Len(v) <= p
  <2>1. p \in Nat /\ q \in Nat
    BY <1>5
  <2>2. p < q => p + Len(v) <= q
    BY <1>3, Zenon DEF Apart
  <2>3. q < p => q + Len(v) <= p
    BY <1>3, Zenon DEF Apart
  <2> QED BY <2>1, <2>2, <2>3
<1>10. ASSUME NEW r \in C, NEW q \in C PROVE r = q \/ r.to <= q.from \/ q.to <= r.from
  <2>1. CASE r \in R /\ q \in R
    BY <2>1, Zenon DEF Replaces
  <2>2. ASSUME NEW p \in Finds(t, v), r = a(p), ~Overlaps(r, R), q \in R
        PROVE  r.to <= q.from \/ q.to <= r.from
    <3>1. p + Len(v) <= q.from \/ q.to <= p
      BY <1>8, <2>2
    <3> QED BY <2>2, <3>1
  <2>3. ASSUME NEW p \in Finds(t, v), q = a(p), ~Overlaps(q, R), r \in R
        PROVE  r.to <= q.from \/ q.to <= r.from
    <3>1. p + Len(v) <= r.from \/ r.to <= p
      BY <1>8, <2>3
    <3> QED BY <2>3, <3>1
  <2>4. ASSUME NEW p \in Finds(t, v), r = a(p), NEW u \in Finds(t, v), q = a(u)
        PROVE  r = q \/ r.to <= q.from \/ q.to <= r.from
    <3>1. p = u \/ p + Len(v) <= u \/ u + Len(v) <= p
      BY <1>9
    <3> QED BY <2>4, <3>1
  <2> HIDE DEF a
  <2> QED BY <1>4, <2>1, <2>2, <2>3, <2>4, Zenon
<1>11. Replaces(t, C)
  BY <1>7, <1>10, Zenon DEF Replaces
<1> QED BY <1>1, <1>11, Zenon DEF C

(* What the fields' names are. *)
LEMMA FieldsAre ==
  /\ Len(Fields) \in Nat /\ \A i \in 1..Len(Fields) : Fields[i] \in FieldNames
  /\ Letters \cap FieldNames = {}
<1>1. FieldNames = Range(Fields)
  BY DEF FieldNames, ToSet, Range
<1>2. Len(Fields) \in Nat /\ \A i \in 1..Len(Fields) : Fields[i] \in Range(Fields)
  BY MaskingAssumption
<1> QED BY <1>1, <1>2, MaskingAssumption, Zenon

(* By induction on the fields: the replacements of all of them cover values, apart. *)
LEMMA ReplacementsReplace ==
  ASSUME CustomerOK, NEW t \in Seq(Letters)
  PROVE  Replaces(t, Replacements(t))
<1> DEFINE n == Len(Fields)
           D == 0..n
           S == SUBSET [from : Nat, to : Nat, field : FieldNames]
           rule(i, f) == IF i = 0 THEN {}
                         ELSE IF customer[Fields[i]] = <<>> THEN f[i - 1]
                         ELSE Claim(t, Fields[i], customer[Fields[i]], f[i - 1])
           size == [i \in D |-> i]
           step == [i \in D |-> [f \in [D -> S] |-> rule(i, f)]]
<1>0. n \in Nat /\ \A i \in D : i # 0 => i - 1 \in D /\ i - 1 < i /\ Fields[i] \in FieldNames
  BY FieldsAre
<1>1. ASSUME NEW g \in FieldNames, NEW R \in S, customer[g] # <<>> PROVE Claim(t, g, customer[g], R) \in S
  <2>1. PICK v \in Seq(Letters) : v = customer[g]
    BY DEF CustomerOK
  <2>2. Apart(t, v, 1, Finds(t, v))
    BY <1>1, <2>1, FindsAreApart, Zenon
  <2>3. \A p \in Finds(t, v) : p \in Nat /\ p + Len(v) \in Nat
    BY <2>2 DEF Apart
  <2>4. \A p \in Finds(t, v) : [from |-> p, to |-> p + Len(v), field |-> g] \in [from : Nat, to : Nat, field : FieldNames]
    BY <2>3
  <2>5. Claim(t, g, v, R) \in S
    BY <2>4 DEF Claim
  <2> QED BY <2>1, <2>5, Zenon
<1>2. ASSUME NEW i \in D, NEW f \in [D -> S] PROVE rule(i, f) \in S
  <2>1. CASE i = 0
    <3>1. {} \in S
      OBVIOUS
    <3> QED BY <2>1, <3>1, Zenon
  <2>2. CASE i # 0
    <3>1. f[i - 1] \in S /\ Fields[i] \in FieldNames
      BY <1>0, <2>2
    <3> HIDE DEF S
    <3> QED BY <1>1, <2>2, <3>1, Zenon
  <2> QED BY <2>1, <2>2
<1>3. step \in [D -> [[D -> S] -> S]] /\ size \in [D -> Nat] /\ S # {}
  <2>1. size \in [D -> Nat]
    BY <1>0
  <2>2. step \in [D -> [[D -> S] -> S]]
    <3> HIDE DEF D, S, rule
    <3> QED BY <1>2, Zenon
  <2>3. {} \in S
    OBVIOUS
  <2> QED BY <2>1, <2>2, <2>3, Zenon
<1>4. ASSUME NEW i \in D, NEW f \in [D -> S], NEW g \in [D -> S],
             \A e \in D : size[e] < size[i] => f[e] = g[e]
      PROVE  step[i][f] = step[i][g]
  <2>1. step[i][f] = rule(i, f) /\ step[i][g] = rule(i, g)
    <3> HIDE DEF D, S, rule
    <3> QED BY Zenon
  <2>2. i # 0 => f[i - 1] = g[i - 1]
    <3>1. \A e \in D : size[e] = e
      BY Zenon
    <3> HIDE DEF size, D, S
    <3> QED BY <1>0, <1>4, <3>1, Zenon
  <2>3. rule(i, f) = rule(i, g)
    BY <2>2, Zenon
  <2> QED BY <2>1, <2>3, Zenon
<1>5. LooksBack(D, S, size, step)
  <2> HIDE DEF D, S, size, step
  <2> QED BY <1>4, Zenon DEF LooksBack
<1>6. PICK f \in [D -> S] : Obeys(f, D, step)
  <2> HIDE DEF D, S, size, step
  <2> QED BY <1>3, <1>5, MeasureRecursion, Zenon
<1>7. \A i \in D : f[i] = rule(i, f)
  <2> SUFFICES ASSUME NEW i \in D PROVE f[i] = rule(i, f)
    OBVIOUS
  <2>1. step[i][f] = rule(i, f)
    <3> HIDE DEF D, S, rule
    <3> QED BY Zenon
  <2> QED BY <1>6, <2>1, Zenon DEF Obeys
<1> DEFINE Def(h) == h = [i \in D |-> rule(i, h)]
<1>8. Def(f)
  <2> HIDE DEF D, S, rule, step
  <2> QED BY <1>7
<1>9. PICK upTo : upTo = CHOOSE h : Def(h)
  OBVIOUS
<1>10. Replacements(t) = upTo[n]
  BY <1>9, Zenon DEF Replacements
<1>11. Def(upTo)
  <2> HIDE DEF Def
  <2> QED BY <1>8, <1>9, Zenon
<1>12. \A i \in D : upTo[i] = rule(i, upTo)
  <2> HIDE DEF D, S, rule, step
  <2> QED BY <1>11, Zenon
<1> HIDE DEF step, size, Def, S
<1> DEFINE T == {i \in Nat : i <= n => Replaces(t, upTo[i])}
<1>13. 0 \in T
  <2>1. 0 \in D
    BY <1>0
  <2>2. upTo[0] = {}
    BY <1>12, <2>1, Zenon
  <2>3. Replaces(t, {})
    BY Zenon DEF Replaces
  <2> QED BY <2>2, <2>3
<1>14. ASSUME NEW i \in T PROVE i + 1 \in T
  <2> SUFFICES ASSUME i + 1 <= n PROVE Replaces(t, upTo[i + 1])
    OBVIOUS
  <2>1. PICK j \in D : j = i + 1 /\ j # 0 /\ j - 1 = i /\ Fields[j] \in FieldNames
    <3>1. i + 1 \in D /\ i + 1 # 0 /\ (i + 1) - 1 = i
      BY <1>0
    <3> QED BY <1>0, <3>1
  <2>2. Replaces(t, upTo[i])
    BY <1>0
  <2>3. upTo[j] = IF customer[Fields[j]] = <<>> THEN upTo[i]
                  ELSE Claim(t, Fields[j], customer[Fields[j]], upTo[i])
    BY <1>12, <2>1, Zenon
  <2>4. CASE customer[Fields[j]] = <<>>
    BY <2>1, <2>2, <2>3, <2>4, Zenon
  <2>5. CASE customer[Fields[j]] # <<>>
    <3>1. Replaces(t, Claim(t, Fields[j], customer[Fields[j]], upTo[i]))
      BY <2>1, <2>2, <2>5, ClaimReplaces, Zenon
    <3> QED BY <2>1, <2>3, <2>5, <3>1, Zenon
  <2> QED BY <2>4, <2>5
<1> HIDE DEF T
<1>15. T = Nat
  BY <1>13, <1>14, SetInduction DEF T
<1>16. n \in T /\ n <= n
  BY <1>0, <1>15
<1>17. Replaces(t, upTo[n])
  BY <1>16 DEF T
<1> QED BY <1>10, <1>17, Zenon

(* What restore makes of an answer that has all tokens. *)
Symbols == Letters \cup FieldNames
Read(m, tokens) == FlattenSeq([i \in DOMAIN m |-> Unmasked(m[i], tokens)])

(* A token that is known is read as its value, a letter as itself. *)
LEMMA UnmaskedIs ==
  ASSUME CustomerOK, NEW tokens \in SUBSET FieldNames, NEW x \in Symbols
  PROVE  Unmasked(x, tokens) \in Seq(Symbols)
<1>1. CASE x \in tokens
  <2>1. customer[x] \in Seq(Letters)
    BY <1>1 DEF CustomerOK
  <2>2. customer[x] \in Seq(Symbols)
    BY <2>1 DEF Symbols
  <2> QED BY <1>1, <2>2, Zenon DEF Unmasked
<1>2. CASE x \notin tokens
  <2>1. <<x>> \in Seq(Symbols)
    OBVIOUS
  <2> QED BY <1>2, <2>1, Zenon DEF Unmasked
<1> QED BY <1>1, <1>2

(* An answer is read piece by piece. *)
LEMMA ReadMore ==
  ASSUME CustomerOK, NEW tokens \in SUBSET FieldNames, NEW m \in Seq(Symbols), NEW x \in Symbols
  PROVE  Read(Append(m, x), tokens) = Read(m, tokens) \o Unmasked(x, tokens)
<1> DEFINE U(s) == [i \in DOMAIN s |-> Unmasked(s[i], tokens)]
<1>1. PICK n : n = Append(m, x)
  OBVIOUS
<1>2. n \in Seq(Symbols) /\ Len(n) = Len(m) + 1 /\ n[Len(m) + 1] = x /\ \A i \in 1..Len(m) : n[i] = m[i]
  BY <1>1
<1>3. ASSUME NEW s \in Seq(Symbols)
      PROVE  U(s) \in Seq(Seq(Symbols)) /\ Len(U(s)) = Len(s) /\ \A i \in 1..Len(s) : U(s)[i] = Unmasked(s[i], tokens)
  <2>1. DOMAIN s = 1..Len(s) /\ Len(s) \in Nat /\ \A i \in 1..Len(s) : s[i] \in Symbols
    OBVIOUS
  <2>2. \A i \in 1..Len(s) : Unmasked(s[i], tokens) \in Seq(Symbols)
    BY <2>1, UnmaskedIs, Zenon
  <2>3. U(s) \in [1..Len(s) -> Seq(Symbols)]
    BY <2>1, <2>2
  <2>4. \A i \in 1..Len(s) : U(s)[i] = Unmasked(s[i], tokens)
    BY <2>1
  <2> HIDE DEF U
  <2>5. U(s) \in Seq(Seq(Symbols)) /\ Len(U(s)) = Len(s)
    BY <2>1, <2>3
  <2> QED BY <2>4, <2>5
<1>4. PICK u : u = U(m)
  OBVIOUS
<1>5. PICK w : w = U(n)
  OBVIOUS
<1>6. u \in Seq(Seq(Symbols)) /\ Len(u) = Len(m) /\ \A i \in 1..Len(m) : u[i] = Unmasked(m[i], tokens)
  <2> HIDE DEF U
  <2> QED BY <1>3, <1>4
<1>7. w \in Seq(Seq(Symbols)) /\ Len(w) = Len(n) /\ \A i \in 1..Len(n) : w[i] = Unmasked(n[i], tokens)
  <2> HIDE DEF U
  <2> QED BY <1>2, <1>3, <1>5
<1>8. PICK y \in Seq(Symbols) : y = Unmasked(x, tokens)
  BY UnmaskedIs, Zenon
<1>9. w = Append(u, y)
  <2>1. PICK z : z = Append(u, y)
    OBVIOUS
  <2>2. z \in Seq(Seq(Symbols)) /\ Len(z) = Len(m) + 1 /\ z[Len(m) + 1] = y /\ \A i \in 1..Len(m) : z[i] = u[i]
    <3>1. PICK Q : Q = Seq(Symbols)
      OBVIOUS
    <3>2. u \in Seq(Q) /\ y \in Q
      BY <1>6, <1>8, <3>1
    <3>3. z \in Seq(Q) /\ Len(z) = Len(u) + 1 /\ z[Len(u) + 1] = y /\ \A i \in 1..Len(u) : z[i] = u[i]
      BY <2>1, <3>2, AppendProperties
    <3> QED BY <1>6, <3>1, <3>3
  <2>3. \A i \in 1..Len(w) : w[i] = z[i]
    <3> SUFFICES ASSUME NEW i \in 1..Len(w) PROVE w[i] = z[i]
      OBVIOUS
    <3>1. CASE i \in 1..Len(m)
      <4>1. w[i] = Unmasked(n[i], tokens) /\ n[i] = m[i] /\ z[i] = u[i] /\ u[i] = Unmasked(m[i], tokens)
        BY <1>2, <1>6, <1>7, <2>2, <3>1, Zenon
      <4> QED BY <4>1, Zenon
    <3>2. CASE i = Len(m) + 1
      <4>1. w[i] = Unmasked(n[i], tokens)
        BY <1>7, Zenon
      <4> QED BY <1>2, <1>8, <2>2, <3>2, <4>1, Zenon
    <3>3. i \in 1..Len(m) \/ i = Len(m) + 1
      BY <1>2, <1>7
    <3> QED BY <3>1, <3>2, <3>3
  <2>4. Len(w) = Len(z)
    BY <1>2, <1>7, <2>2
  <2> QED BY <1>7, <2>1, <2>2, <2>3, <2>4, SeqEqual
<1>10. Read(m, tokens) = FlattenSeq(u) /\ Read(n, tokens) = FlattenSeq(w)
  BY <1>4, <1>5, Zenon DEF Read
<1>11. FlattenSeq(Append(u, y)) = FlattenSeq(u) \o y
  BY <1>6, <1>8, FlattenAppend, Zenon
<1> QED BY <1>1, <1>8, <1>9, <1>10, <1>11, Zenon

(* What each place of a text becomes. *)
LEMMA PieceIs ==
  ASSUME NEW t \in Seq(Letters), NEW R, Replaces(t, R), NEW k \in 1..Len(t)
  PROVE  /\ \A r \in R : r.from = k => Piece(t, R, k) = <<r.field>>
         /\ \A r \in R : r.from < k /\ k < r.to => Piece(t, R, k) = <<>>
         /\ (\A r \in R : r.from # k /\ ~(r.from < k /\ k < r.to)) => Piece(t, R, k) = <<t[k]>>
<1>1. ASSUME NEW r \in R PROVE r.from \in Nat /\ r.to \in Nat /\ r.from < r.to
  BY DEF Replaces, Covers
<1>2. ASSUME NEW r \in R, NEW q \in R, r.from <= k, k < r.to, q.from <= k, k < q.to PROVE r = q
  <2>1. r = q \/ r.to <= q.from \/ q.to <= r.from
    BY Zenon DEF Replaces
  <2>2. k \in Nat
    OBVIOUS
  <2> QED BY <1>1, <1>2, <2>1, <2>2
<1>3. ASSUME NEW r \in R, r.from = k PROVE Piece(t, R, k) = <<r.field>>
  <2>1. \A q \in R : q.from = k => q = r
    <3> SUFFICES ASSUME NEW q \in R, q.from = k PROVE q = r
      OBVIOUS
    <3>1. r.from <= k /\ k < r.to /\ q.from <= k /\ k < q.to
      BY <1>1, <1>3
    <3> QED BY <1>2, <3>1
  <2>2. (CHOOSE q \in R : q.from = k) = r
    BY <1>3, <2>1, Zenon
  <2> QED BY <1>3, <2>2, Zenon DEF Piece
<1>4. ASSUME NEW r \in R, r.from < k, k < r.to PROVE Piece(t, R, k) = <<>>
  <2>1. \A q \in R : q.from # k
    <3> SUFFICES ASSUME NEW q \in R, q.from = k PROVE FALSE
      OBVIOUS
    <3>1. r.from <= k /\ q.from <= k /\ k < q.to
      BY <1>1, <1>4
    <3>2. r = q
      BY <1>2, <1>4, <3>1
    <3> QED BY <1>1, <1>4, <3>2
  <2> QED BY <1>4, <2>1, Zenon DEF Piece
<1>5. (\A r \in R : r.from # k /\ ~(r.from < k /\ k < r.to)) => Piece(t, R, k) = <<t[k]>>
  BY Zenon DEF Piece
<1> QED BY <1>3, <1>4, <1>5

(* The masked text up to the k-th place of the text. *)
Masked(t, R, k) == FlattenSeq([i \in 1..k |-> Piece(t, R, i)])

(* A piece is a sequence of letters and tokens. *)
LEMMA PieceType ==
  ASSUME NEW t \in Seq(Letters), NEW R, Replaces(t, R), NEW k \in 1..Len(t)
  PROVE  Piece(t, R, k) \in Seq(Symbols)
<1>1. ASSUME NEW r \in R PROVE <<r.field>> \in Seq(Symbols)
  <2>1. r.field \in Symbols
    BY DEF Replaces, Covers, Symbols
  <2> QED BY <2>1
<1>2. <<t[k]>> \in Seq(Symbols) /\ <<>> \in Seq(Symbols)
  <2>1. t[k] \in Symbols
    BY DEF Symbols
  <2> QED BY <2>1
<1> QED BY <1>1, <1>2, PieceIs, Zenon

(* The masked text grows by the piece of the next place. *)
LEMMA MaskedMore ==
  ASSUME NEW t \in Seq(Letters), NEW R, Replaces(t, R), NEW k \in Nat, k + 1 <= Len(t)
  PROVE  Masked(t, R, k + 1) = Masked(t, R, k) \o Piece(t, R, k + 1)
<1>1. ASSUME NEW n \in Nat, n <= Len(t)
      PROVE  /\ [i \in 1..n |-> Piece(t, R, i)] \in Seq(Seq(Symbols)) /\ Len([i \in 1..n |-> Piece(t, R, i)]) = n
             /\ \A i \in 1..n : [j \in 1..n |-> Piece(t, R, j)][i] = Piece(t, R, i)
  <2>1. \A i \in 1..n : i \in 1..Len(t)
    BY <1>1
  <2>2. \A i \in 1..n : Piece(t, R, i) \in Seq(Symbols)
    BY <2>1, PieceType, Zenon
  <2>3. [i \in 1..n |-> Piece(t, R, i)] \in [1..n -> Seq(Symbols)]
    BY <2>2
  <2> QED BY <2>3
<1>2. PICK u : u = [i \in 1..k |-> Piece(t, R, i)]
  OBVIOUS
<1>3. PICK w : w = [i \in 1..(k + 1) |-> Piece(t, R, i)]
  OBVIOUS
<1>4. u \in Seq(Seq(Symbols)) /\ Len(u) = k /\ \A i \in 1..k : u[i] = Piece(t, R, i)
  <2>1. k <= Len(t)
    OBVIOUS
  <2> QED BY <1>1, <1>2, <2>1
<1>5. w \in Seq(Seq(Symbols)) /\ Len(w) = k + 1 /\ \A i \in 1..(k + 1) : w[i] = Piece(t, R, i)
  BY <1>1, <1>3
<1>6. PICK y \in Seq(Symbols) : y = Piece(t, R, k + 1)
  <2>1. k + 1 \in 1..Len(t)
    OBVIOUS
  <2> QED BY <2>1, PieceType, Zenon
<1>7. w = Append(u, y)
  <2>1. PICK z : z = Append(u, y)
    OBVIOUS
  <2>2. z \in Seq(Seq(Symbols)) /\ Len(z) = k + 1 /\ z[k + 1] = y /\ \A i \in 1..k : z[i] = u[i]
    <3>1. PICK Q : Q = Seq(Symbols)
      OBVIOUS
    <3>2. u \in Seq(Q) /\ y \in Q
      BY <1>4, <1>6, <3>1
    <3>3. z \in Seq(Q) /\ Len(z) = Len(u) + 1 /\ z[Len(u) + 1] = y /\ \A i \in 1..Len(u) : z[i] = u[i]
      BY <2>1, <3>2, AppendProperties
    <3> QED BY <1>4, <3>1, <3>3
  <2>3. \A i \in 1..Len(w) : w[i] = z[i]
    <3> SUFFICES ASSUME NEW i \in 1..Len(w) PROVE w[i] = z[i]
      OBVIOUS
    <3>1. CASE i \in 1..k
      <4>1. w[i] = Piece(t, R, i) /\ z[i] = u[i] /\ u[i] = Piece(t, R, i)
        BY <1>4, <1>5, <2>2, <3>1
      <4> QED BY <4>1, Zenon
    <3>2. CASE i = k + 1
      BY <1>5, <1>6, <2>2, <3>2
    <3>3. i \in 1..k \/ i = k + 1
      BY <1>5
    <3> QED BY <3>1, <3>2, <3>3
  <2>4. Len(w) = Len(z)
    BY <1>5, <2>2
  <2> QED BY <1>5, <2>1, <2>2, <2>3, <2>4, SeqEqual
<1>8. FlattenSeq(Append(u, y)) = FlattenSeq(u) \o y
  BY <1>4, <1>6, FlattenAppend, Zenon
<1>9. Masked(t, R, k) = FlattenSeq(u) /\ Masked(t, R, k + 1) = FlattenSeq(w)
  BY <1>2, <1>3, Zenon DEF Masked
<1> QED BY <1>6, <1>7, <1>8, <1>9, Zenon

(* Read back, the masked text says what the text says, up to the end of the replacement  *)
(* that covers the k-th place, or up to the k-th place; and every token is in it.        *)
ReadsTo(t, R, tokens, k) ==
  /\ Masked(t, R, k) \in Seq(Symbols)
  /\ \A r \in R : r.from <= k /\ k < r.to => Read(Masked(t, R, k), tokens) = SubSeq(t, 1, r.to - 1)
  /\ (\A r \in R : r.from <= k => r.to <= k + 1) => Read(Masked(t, R, k), tokens) = SubSeq(t, 1, k)
  /\ \A r \in R : r.from <= k => \E i \in DOMAIN Masked(t, R, k) : Masked(t, R, k)[i] = r.field

(* Nothing read back is nothing. *)
LEMMA ReadsNothing ==
  ASSUME NEW t \in Seq(Letters), NEW R, Replaces(t, R), NEW tokens
  PROVE  ReadsTo(t, R, tokens, 0)
<1>1. Masked(t, R, 0) = <<>>
  <2>1. [i \in 1..0 |-> Piece(t, R, i)] = <<>>
    OBVIOUS
  <2>2. <<>> \in Seq(Seq(Symbols))
    OBVIOUS
  <2> QED BY <2>1, <2>2, FlattenIs, Zenon DEF Masked
<1>2. Read(<<>>, tokens) = <<>>
  <2>1. [i \in DOMAIN <<>> |-> Unmasked(<<>>[i], tokens)] = <<>>
    OBVIOUS
  <2>2. <<>> \in Seq(Seq(Symbols))
    OBVIOUS
  <2> QED BY <2>1, <2>2, FlattenIs, Zenon DEF Read
<1>3. \A r \in R : ~(r.from <= 0)
  BY DEF Replaces, Covers
<1>4. <<>> \in Seq(Symbols) /\ SubSeq(t, 1, 0) = <<>>
  OBVIOUS
<1> QED BY <1>1, <1>2, <1>3, <1>4, Zenon DEF ReadsTo

(* The next place keeps it: it opens a replacement, lies within one, or is left as it is.  *)
LEMMA ReadsOn ==
  ASSUME CustomerOK, NEW t \in Seq(Letters), NEW R, Replaces(t, R), NEW tokens, tokens = {r.field : r \in R},
         NEW k \in Nat, k + 1 <= Len(t), ReadsTo(t, R, tokens, k)
  PROVE  ReadsTo(t, R, tokens, k + 1)
<1>0. Len(t) \in Nat /\ k + 1 \in 1..Len(t) /\ k + 1 \in Nat
  OBVIOUS
<1>1. PICK n \in 1..Len(t) : n = k + 1
  BY <1>0
<1>2. PICK m \in Seq(Symbols) : m = Masked(t, R, k)
  BY DEF ReadsTo
<1>3. PICK w : w = Masked(t, R, n)
  OBVIOUS
<1>4. w = m \o Piece(t, R, n)
  BY <1>1, <1>2, <1>3, MaskedMore, Zenon
<1>5. tokens \in SUBSET FieldNames
  BY DEF Replaces, Covers
<1>6. \A r \in R : r.from \in 1..Len(t) /\ r.to \in Nat /\ r.from < r.to /\ r.to <= Len(t) + 1
  BY DEF Replaces, Covers
<1>7. /\ \A r \in R : r.from <= k /\ k < r.to => Read(m, tokens) = SubSeq(t, 1, r.to - 1)
      /\ (\A r \in R : r.from <= k => r.to <= n) => Read(m, tokens) = SubSeq(t, 1, k)
      /\ \A r \in R : r.from <= k => \E i \in DOMAIN m : m[i] = r.field
  BY <1>1, <1>2, Zenon DEF ReadsTo
<1>8. \A r \in R, q \in R : r = q \/ r.to <= q.from \/ q.to <= r.from
  BY Zenon DEF Replaces
<1> DEFINE Goal ==
      /\ w \in Seq(Symbols)
      /\ \A r \in R : r.from <= n /\ n < r.to => Read(w, tokens) = SubSeq(t, 1, r.to - 1)
      /\ (\A r \in R : r.from <= n => r.to <= n + 1) => Read(w, tokens) = SubSeq(t, 1, n)
      /\ \A r \in R : r.from <= n => \E i \in DOMAIN w : w[i] = r.field
<1>9. ASSUME NEW q \in R, q.from = n PROVE Goal
  <2>1. PICK x \in FieldNames : x = q.field
    BY DEF Replaces, Covers
  <2>2. x \in Symbols /\ x \in tokens
    BY <2>1 DEF Symbols
  <2>3. w = Append(m, x)
    <3>1. Piece(t, R, n) = <<x>>
      <4>1. \A r \in R : r.from = n => Piece(t, R, n) = <<r.field>>
        BY PieceIs
      <4> QED BY <1>9, <2>1, <4>1, Zenon
    <3>2. m \o <<x>> = Append(m, x)
      BY <2>2
    <3> QED BY <1>4, <3>1, <3>2, Zenon
  <2>4. w \in Seq(Symbols) /\ Len(w) = Len(m) + 1 /\ w[Len(m) + 1] = x /\ \A i \in 1..Len(m) : w[i] = m[i]
    BY <2>2, <2>3
  <2>5. Read(w, tokens) = Read(m, tokens) \o customer[x]
    <3>1. Read(w, tokens) = Read(m, tokens) \o Unmasked(x, tokens)
      BY <1>5, <2>2, <2>3, ReadMore, Zenon
    <3> QED BY <2>2, <3>1, Zenon DEF Unmasked
  <2>6. Read(m, tokens) = SubSeq(t, 1, k)
    <3>1. ASSUME NEW r \in R, r.from <= k PROVE r.to <= n
      <4>1. r = q \/ r.to <= q.from \/ q.to <= r.from
        BY <1>8
      <4> QED BY <1>1, <1>6, <1>9, <3>1, <4>1
    <3> QED BY <1>7, <3>1, Zenon
  <2>7. customer[x] = SubSeq(t, n, q.to - 1)
    BY <1>9, <2>1, Zenon DEF Replaces, Covers
  <2>8. PICK e \in Nat : e = q.to - 1 /\ k < e /\ e <= Len(t) /\ q.to = e + 1
    <3>1. q.to - 1 \in Nat /\ k < q.to - 1 /\ q.to - 1 <= Len(t) /\ q.to = (q.to - 1) + 1
      BY <1>0, <1>1, <1>6, <1>9
    <3> QED BY <3>1
  <2>9. Read(w, tokens) = SubSeq(t, 1, e)
    <3>1. 1 \in 1..Len(t) + 1 /\ k \in (1 - 1)..Len(t) /\ e \in k..Len(t)
      BY <1>0, <2>8
    <3>2. SubSeq(t, 1, k) \o SubSeq(t, k + 1, e) = SubSeq(t, 1, e)
      BY <3>1, ConcatAdjacentSubSeq
    <3> QED BY <1>1, <2>5, <2>6, <2>7, <2>8, <3>2, Zenon
  <2>10. \A r \in R : r.from <= n /\ n < r.to => Read(w, tokens) = SubSeq(t, 1, r.to - 1)
    <3> SUFFICES ASSUME NEW r \in R, r.from <= n, n < r.to PROVE r = q
      BY <2>8, <2>9, Zenon
    <3>1. r = q \/ r.to <= q.from \/ q.to <= r.from
      BY <1>8
    <3> QED BY <1>1, <1>6, <1>9, <3>1
  <2>11. (\A r \in R : r.from <= n => r.to <= n + 1) => Read(w, tokens) = SubSeq(t, 1, n)
    <3> SUFFICES ASSUME \A r \in R : r.from <= n => r.to <= n + 1 PROVE e = n
      BY <2>9, Zenon
    <3>1. q.from <= n
      BY <1>9
    <3>2. q.to <= n + 1
      BY <3>1
    <3> QED BY <1>1, <2>8, <3>2
  <2>12. ASSUME NEW r \in R, r.from <= n PROVE \E i \in DOMAIN w : w[i] = r.field
    <3>0. DOMAIN w = 1..(Len(m) + 1) /\ DOMAIN m = 1..Len(m) /\ Len(m) \in Nat
      BY <2>4
    <3>1. CASE r = q
      <4>1. Len(m) + 1 \in DOMAIN w
        BY <3>0
      <4> QED BY <2>1, <2>4, <3>1, <4>1, Zenon
    <3>2. CASE r # q
      <4>1. r.from <= k
        <5>1. r.to <= q.from \/ q.to <= r.from
          BY <1>8, <3>2
        <5> QED BY <1>1, <1>6, <1>9, <2>12, <5>1
      <4>2. PICK i \in DOMAIN m : m[i] = r.field
        BY <1>7, <4>1
      <4>3. i \in DOMAIN w /\ i \in 1..Len(m)
        BY <3>0
      <4> QED BY <2>4, <4>2, <4>3, Zenon
    <3> QED BY <3>1, <3>2
  <2> QED BY <2>4, <2>10, <2>11, <2>12, Zenon
<1>10. ASSUME NEW q \in R, q.from < n, n < q.to PROVE Goal
  <2>1. w = m
    <3>1. Piece(t, R, n) = <<>>
      BY <1>10, PieceIs, Zenon
    <3>2. m \o <<>> = m
      OBVIOUS
    <3> QED BY <1>4, <3>1, <3>2, Zenon
  <2>2. q.from <= k /\ k < q.to
    BY <1>1, <1>6, <1>10
  <2>3. Read(w, tokens) = SubSeq(t, 1, q.to - 1)
    BY <1>7, <2>1, <2>2, Zenon
  <2>4. ASSUME NEW r \in R, r.from <= n PROVE r.from <= k /\ (n < r.to => r = q)
    <3>1. r = q \/ r.to <= q.from \/ q.to <= r.from
      BY <1>8
    <3> QED BY <1>1, <1>6, <1>10, <2>4, <3>1
  <2>5. (\A r \in R : r.from <= n => r.to <= n + 1) => q.to - 1 = n
    <3> SUFFICES ASSUME \A r \in R : r.from <= n => r.to <= n + 1 PROVE q.to - 1 = n
      OBVIOUS
    <3>1. q.from <= n
      BY <1>1, <1>6, <1>10
    <3>2. q.to <= n + 1
      BY <3>1
    <3> QED BY <1>1, <1>6, <1>10, <3>2
  <2> QED BY <1>7, <2>1, <2>3, <2>4, <2>5, Zenon
<1>11. ASSUME \A r \in R : r.from # n /\ ~(r.from < n /\ n < r.to) PROVE Goal
  <2>1. PICK x \in Letters : x = t[n]
    OBVIOUS
  <2>2. x \in Symbols /\ x \notin tokens
    BY <1>5, <2>1, FieldsAre DEF Symbols
  <2>3. w = Append(m, x)
    <3>1. Piece(t, R, n) = <<x>>
      BY <1>11, <2>1, PieceIs, Zenon
    <3>2. m \o <<x>> = Append(m, x)
      BY <2>2
    <3> QED BY <1>4, <3>1, <3>2, Zenon
  <2>4. w \in Seq(Symbols) /\ Len(w) = Len(m) + 1 /\ \A i \in 1..Len(m) : w[i] = m[i]
    BY <2>2, <2>3
  <2>5. Read(w, tokens) = Read(m, tokens) \o <<x>>
    <3>1. Read(w, tokens) = Read(m, tokens) \o Unmasked(x, tokens)
      BY <1>5, <2>2, <2>3, ReadMore, Zenon
    <3> QED BY <2>2, <3>1, Zenon DEF Unmasked
  <2>6. ASSUME NEW r \in R, r.from <= n PROVE r.from <= k /\ r.to <= n
    <3>1. r.from # n /\ ~(r.from < n /\ n < r.to)
      BY <1>11
    <3> QED BY <1>1, <1>6, <2>6, <3>1
  <2>7. Read(m, tokens) = SubSeq(t, 1, k)
    <3>1. \A r \in R : r.from <= k => r.to <= n
      <4> SUFFICES ASSUME NEW r \in R, r.from <= k PROVE r.from <= n
        BY <2>6
      <4> QED BY <1>1, <1>6
    <3> QED BY <1>7, <3>1, Zenon
  <2>8. SubSeq(t, 1, k) \o <<x>> = SubSeq(t, 1, n)
    <3>1. n - 1 = k /\ 1 \in 1..Len(t) /\ n \in 1..Len(t)
      BY <1>0, <1>1
    <3>2. SubSeq(t, 1, n) = SubSeq(t, 1, n - 1) \o <<t[n]>>
      BY <3>1, SubSeqRecursiveSecond
    <3> QED BY <2>1, <3>1, <3>2, Zenon
  <2>9. Read(w, tokens) = SubSeq(t, 1, n)
    BY <2>5, <2>7, <2>8, Zenon
  <2>10. ASSUME NEW r \in R, r.from <= n PROVE ~(n < r.to) /\ \E i \in DOMAIN w : w[i] = r.field
    <3>1. r.from <= k /\ r.to <= n
      BY <2>6, <2>10
    <3>2. PICK i \in DOMAIN m : m[i] = r.field
      BY <1>7, <3>1
    <3>3. DOMAIN w = 1..(Len(m) + 1) /\ DOMAIN m = 1..Len(m) /\ Len(m) \in Nat
      BY <2>4
    <3>4. i \in DOMAIN w /\ w[i] = r.field
      BY <2>4, <3>2, <3>3
    <3> QED BY <1>1, <1>6, <3>1, <3>4
  <2> QED BY <2>4, <2>9, <2>10, Zenon
<1>12. Goal
  BY <1>9, <1>10, <1>11, Zenon
<1> QED BY <1>1, <1>3, <1>12, Zenon DEF ReadsTo

(* By induction on the places: the whole masked text reads back as the text. *)
LEMMA MaskedReadsBack ==
  ASSUME CustomerOK, NEW t \in Seq(Letters)
  PROVE  LET m == Mask(t) IN Restore(m.masked, m.tokens) = t
<1>1. PICK R : R = Replacements(t)
  OBVIOUS
<1>2. PICK tokens : tokens = {r.field : r \in R}
  OBVIOUS
<1>3. Replaces(t, R)
  BY <1>1, ReplacementsReplace, Zenon
<1>4. Len(t) \in Nat /\ DOMAIN t = 1..Len(t)
  OBVIOUS
<1> DEFINE T == {k \in Nat : k <= Len(t) => ReadsTo(t, R, tokens, k)}
<1>5. 0 \in T
  BY <1>3, ReadsNothing, Zenon
<1>6. ASSUME NEW k \in T PROVE k + 1 \in T
  <2> SUFFICES ASSUME k + 1 <= Len(t) PROVE ReadsTo(t, R, tokens, k + 1)
    OBVIOUS
  <2>1. k <= Len(t) /\ k \in Nat
    BY <1>4
  <2>2. ReadsTo(t, R, tokens, k)
    BY <2>1
  <2> QED BY <1>2, <1>3, <2>1, <2>2, ReadsOn, Zenon
<1> HIDE DEF T
<1>7. T = Nat
  BY <1>5, <1>6, SetInduction DEF T
<1>8. ReadsTo(t, R, tokens, Len(t))
  <2>1. Len(t) \in T /\ Len(t) <= Len(t)
    BY <1>4, <1>7
  <2> QED BY <2>1 DEF T
<1>9. PICK w : w = Masked(t, R, Len(t))
  OBVIOUS
<1>10. Mask(t).masked = w /\ Mask(t).tokens = tokens
  <2>1. Mask(t) = [masked |-> Masked(t, R, Len(t)), tokens |-> tokens]
    BY <1>1, <1>2, <1>4, Zenon DEF Mask, Masked
  <2> QED BY <1>9, <2>1
<1>11. \A r \in R : r.from <= Len(t) /\ r.to <= Len(t) + 1
  BY <1>3 DEF Replaces, Covers
<1>12. Read(w, tokens) = SubSeq(t, 1, Len(t))
  BY <1>8, <1>9, <1>11, Zenon DEF ReadsTo
<1>13. tokens \subseteq ToSet(w)
  <2> SUFFICES ASSUME NEW r \in R PROVE r.field \in ToSet(w)
    BY <1>2
  <2> QED BY <1>8, <1>9, <1>11, Zenon DEF ReadsTo, ToSet
<1>14. Restore(w, tokens) = Read(w, tokens)
  BY <1>13, Zenon DEF Restore, Read
<1>15. SubSeq(t, 1, Len(t)) = t
  BY SubSeqFull
<1> QED BY <1>10, <1>12, <1>14, <1>15, Zenon

(* The customer's values and the text stay what they are. *)
LEMMA MaskingTyped == MaskSpec => []MaskingTypeOK
<1>1. MaskInit => MaskingTypeOK
  BY EmptyBounded, MaskingAssumption, Zenon DEF MaskInit, MaskingTypeOK
<1>2. MaskingTypeOK /\ [Say]_maskVars => MaskingTypeOK'
  <2> SUFFICES ASSUME MaskingTypeOK, [Say]_maskVars PROVE MaskingTypeOK'
    OBVIOUS
  <2>1. CASE Say
    <3>1. text' \in SeqOf(Letters, MaxText)
      BY <2>1, AppendBounded, MaskingAssumption DEF Say, MaskingTypeOK
    <3> QED BY <2>1, <3>1, Zenon DEF Say, MaskingTypeOK
  <2>2. CASE UNCHANGED maskVars
    BY <2>2, Zenon DEF maskVars, MaskingTypeOK
  <2> QED BY <2>1, <2>2
<1> QED BY <1>1, <1>2, PTL DEF MaskSpec

(* mask and restore, for any fields, values and texts: an answer that repeats the masked *)
(* text is restored to the customer's own words, and the assertion at the end of mask    *)
(* holds.                                                                                *)
THEOREM MaskedIsRestored == MaskSpec => []MaskRestores
<1>1. MaskingTypeOK => MaskRestores
  <2> SUFFICES ASSUME MaskingTypeOK PROVE MaskRestores
    OBVIOUS
  <2>1. text \in Seq(Letters)
    BY BoundedSeqs, MaskingAssumption DEF MaskingTypeOK
  <2>2. CustomerOK
    <3>1. Values \subseteq Seq(Letters)
      BY BoundedSeqs, MaskingAssumption DEF Values
    <3> QED BY <3>1 DEF CustomerOK, MaskingTypeOK
  <2> QED BY <2>1, <2>2, MaskedReadsBack, Zenon DEF MaskRestores
<1> QED BY <1>1, MaskingTyped, PTL

-------------------------------------------------------------------------------
(* SpokenNumbers: how an amount is read                                      *)

(* What can be said, and what a listener makes of it. *)
SaidWords == 0..9 \cup {10, 100, 1000, 10000, 100000000}
Hearings  == [sum : Nat, group : Nat, digit : Nat]

(* A word turns one hearing into another. *)
LEMMA HearIs ==
  ASSUME NEW h \in Hearings, NEW w \in SaidWords
  PROVE  Hear(h, w) \in Hearings
<1>1. w \in Nat
  BY DEF SaidWords
<1>2. PICK x \in Nat, y \in Nat, z \in Nat : h.sum = x /\ h.group = y /\ h.digit = z
  BY DEF Hearings
<1>3. CASE w < 10
  BY <1>1, <1>3 DEF Hear, Hearings
<1>4. CASE ~(w < 10) /\ w < 10000
  <2>1. w \in {10, 100, 1000}
    BY <1>4 DEF SaidWords
  <2>2. y + OneAtLeast(z) * w \in Nat
    BY <2>1 DEF OneAtLeast
  <2>3. PICK e \in Nat : e = y + OneAtLeast(z) * w
    BY <2>2
  <2>4. Hear(h, w) = [h EXCEPT !.group = h.group + OneAtLeast(h.digit) * w, !.digit = 0]
    BY <1>4 DEF Hear
  <2>5. Hear(h, w) = [h EXCEPT !.group = e, !.digit = 0]
    BY <1>2, <2>3, <2>4, Zenon
  <2>6. \A k \in Hearings, d \in Nat : [k EXCEPT !.group = d, !.digit = 0] \in Hearings
    BY DEF Hearings
  <2> QED BY <2>3, <2>5, <2>6, Zenon
<1>5. CASE ~(w < 10) /\ ~(w < 10000)
  <2>1. w \in {10000, 100000000}
    BY <1>5 DEF SaidWords
  <2>2. x + OneAtLeast(y + z) * w \in Nat
    BY <2>1 DEF OneAtLeast
  <2>3. PICK e \in Nat : e = x + OneAtLeast(y + z) * w
    BY <2>2
  <2>4. Hear(h, w) = [sum |-> h.sum + OneAtLeast(h.group + h.digit) * w, group |-> 0, digit |-> 0]
    BY <1>5 DEF Hear
  <2>5. Hear(h, w) = [sum |-> e, group |-> 0, digit |-> 0]
    BY <1>2, <2>3, <2>4, Zenon
  <2> QED BY <2>5 DEF Hearings
<1> QED BY <1>3, <1>4, <1>5

(* The hearings after each of the words; Heard gives the last of them. *)
Hearing(f, words) == f[0] = Silence /\ \A i \in 1..Len(words) : f[i] = Hear(f[i - 1], words[i])

LEMMA HeardIs ==
  ASSUME NEW words \in Seq(SaidWords)
  PROVE  \E f \in [0..Len(words) -> Hearings] : Hearing(f, words) /\ Heard(words) = f[Len(words)]
<1> DEFINE n == Len(words)
           S == Hearings
           step == [i \in 1..n |-> [h \in S |-> Hear(h, words[i])]]
<1>1. n \in Nat /\ Silence \in S
  BY DEF Silence, Hearings
<1>2. step \in [1..n -> [S -> S]]
  <2>1. \A i \in 1..n : words[i] \in SaidWords
    OBVIOUS
  <2>2. \A i \in 1..n, h \in S : Hear(h, words[i]) \in S
    BY <2>1, HearIs, Zenon
  <2> HIDE DEF S
  <2> QED BY <2>2, Zenon
<1>3. PICK f \in [0..n -> S] : Steps(f, n, Silence, step)
  <2> HIDE DEF n, S, step
  <2> QED BY <1>1, <1>2, StepsExist, Zenon
<1>4. \A i \in 0..n : f[i] \in S
  OBVIOUS
<1>5. \A i \in 1..n : i # 0 /\ i \in 0..n /\ i - 1 \in 0..n
  BY <1>1
<1>6. \A i \in 1..n : f[i] = Hear(f[i - 1], words[i])
  <2> SUFFICES ASSUME NEW i \in 1..n PROVE f[i] = Hear(f[i - 1], words[i])
    OBVIOUS
  <2>1. step[i][f[i - 1]] = Hear(f[i - 1], words[i])
    <3> HIDE DEF S, n
    <3> QED BY <1>4, <1>5, Zenon
  <2> QED BY <1>3, <2>1, Zenon DEF Steps
<1>7. f[0] = Silence
  BY <1>3, Zenon DEF Steps
<1> HIDE DEF step
<1> DEFINE Def(h) == h = [i \in 0..Len(words) |-> IF i = 0 THEN Silence ELSE Hear(h[i - 1], words[i])]
<1>8. Def(f)
  <2>1. \A i \in 0..n : f[i] = IF i = 0 THEN Silence ELSE Hear(f[i - 1], words[i])
    <3> SUFFICES ASSUME NEW i \in 0..n, i # 0 PROVE i \in 1..n
      BY <1>6, <1>7, Zenon
    <3> QED BY <1>1
  <2> HIDE DEF S
  <2> QED BY <2>1
<1>9. PICK heard : heard = CHOOSE h : Def(h)
  OBVIOUS
<1>10. Heard(words) = heard[n]
  BY <1>9, Zenon DEF Heard
<1>11. Def(heard)
  <2> HIDE DEF Def
  <2> QED BY <1>8, <1>9, Zenon
<1>12. heard[0] = Silence /\ \A i \in 1..n : heard[i] = Hear(heard[i - 1], words[i])
  <2>1. \A i \in 0..n : heard[i] = IF i = 0 THEN Silence ELSE Hear(heard[i - 1], words[i])
    BY <1>11, Zenon
  <2>2. 0 \in 0..n
    BY <1>1
  <2> QED BY <1>5, <2>1, <2>2, Zenon
<1> DEFINE T == {i \in Nat : i <= n => f[i] = heard[i]}
<1>13. T = Nat
  <2>1. 0 \in T
    BY <1>7, <1>12
  <2>2. ASSUME NEW i \in T PROVE i + 1 \in T
    <3> SUFFICES ASSUME i + 1 <= n PROVE f[i + 1] = heard[i + 1]
      OBVIOUS
    <3>1. i + 1 \in 1..n /\ (i + 1) - 1 = i /\ i <= n
      BY <1>1
    <3>2. f[i] = heard[i]
      BY <3>1
    <3> QED BY <1>6, <1>12, <3>1, <3>2
  <2> HIDE DEF T
  <2> QED BY <2>1, <2>2, SetInduction DEF T
<1>14. n \in T /\ n <= n
  BY <1>1, <1>13
<1>15. f[n] = heard[n]
  BY <1>14
<1> QED BY <1>6, <1>7, <1>10, <1>15, Zenon DEF Hearing

(* Heard word by word. *)
LEMMA HeardNothing == Heard(<<>>) = Silence
<1>1. <<>> \in Seq(SaidWords) /\ Len(<<>>) = 0
  OBVIOUS
<1>2. PICK f : Hearing(f, <<>>) /\ Heard(<<>>) = f[Len(<<>>)]
  BY <1>1, HeardIs, Zenon
<1> QED BY <1>1, <1>2 DEF Hearing

LEMMA HeardMore ==
  ASSUME NEW s \in Seq(SaidWords), NEW w \in SaidWords
  PROVE  Heard(s) \in Hearings /\ Heard(Append(s, w)) = Hear(Heard(s), w)
<1> HIDE DEF SaidWords, Hearings
<1>1. PICK t : t = Append(s, w)
  OBVIOUS
<1>2. t \in Seq(SaidWords) /\ Len(t) = Len(s) + 1 /\ t[Len(s) + 1] = w /\ \A i \in 1..Len(s) : t[i] = s[i]
  BY <1>1
<1>3. PICK f \in [0..Len(s) -> Hearings] : Hearing(f, s) /\ Heard(s) = f[Len(s)]
  BY HeardIs, Zenon
<1>4. PICK g \in [0..Len(t) -> Hearings] : Hearing(g, t) /\ Heard(t) = g[Len(t)]
  BY <1>2, HeardIs, Zenon
<1>5. Len(s) \in Nat /\ Len(s) \in 0..Len(s)
  OBVIOUS
<1> DEFINE T == {i \in Nat : i <= Len(s) => f[i] = g[i]}
<1>6. T = Nat
  <2>1. 0 \in T
    BY <1>3, <1>4 DEF Hearing
  <2>2. ASSUME NEW i \in T PROVE i + 1 \in T
    <3> SUFFICES ASSUME i + 1 <= Len(s) PROVE f[i + 1] = g[i + 1]
      OBVIOUS
    <3>1. i + 1 \in 1..Len(s) /\ i + 1 \in 1..Len(t) /\ (i + 1) - 1 = i /\ i <= Len(s)
      BY <1>2, <1>5
    <3>2. f[i] = g[i] /\ s[i + 1] = t[i + 1]
      BY <1>2, <3>1
    <3>3. f[i + 1] = Hear(f[(i + 1) - 1], s[i + 1]) /\ g[i + 1] = Hear(g[(i + 1) - 1], t[i + 1])
      BY <1>3, <1>4, <3>1, Zenon DEF Hearing
    <3> QED BY <3>1, <3>2, <3>3
  <2> HIDE DEF T
  <2> QED BY <2>1, <2>2, SetInduction DEF T
<1>7. f[Len(s)] = g[Len(s)]
  <2>1. Len(s) \in T
    BY <1>5, <1>6
  <2> QED BY <1>5, <2>1
<1>8. g[Len(t)] = Hear(g[Len(s)], w)
  <2>1. Len(t) \in 1..Len(t) /\ Len(t) - 1 = Len(s)
    BY <1>2, <1>5
  <2>2. g[Len(t)] = Hear(g[Len(t) - 1], t[Len(t)])
    BY <1>4, <2>1, Zenon DEF Hearing
  <2> QED BY <1>2, <2>1, <2>2
<1>9. Heard(s) \in Hearings
  BY <1>3, <1>5
<1> QED BY <1>1, <1>3, <1>4, <1>7, <1>8, <1>9

(* Division of natural numbers, and the units. *)
LEMMA DivMod ==
  ASSUME NEW a \in Nat, NEW b \in Nat \ {0}
  PROVE  a \div b \in Nat /\ a % b \in Nat
<1>1. a % b \in Nat
  OBVIOUS
<1>2. a \div b \in Int
  OBVIOUS
<1>3. a \div b >= 0
  BY <1>2, SMTT(60)
<1> QED BY <1>1, <1>2, <1>3

LEMMA UnitsAre ==
  /\ Len(Units) = 5
  /\ \A i \in 1..5 : Units[i] \in Nat \ {0}
  /\ Units[3] < Units[2] /\ Units[2] < Units[1]
<1>1. /\ Len(Units) = 5 /\ Units[1] = 100000000 /\ Units[2] = 10000 /\ Units[3] = 1000 /\ Units[4] = 100
      /\ Units[5] = 10
  BY SMT DEF Units
<1>2. \A i \in 1..5 : i = 1 \/ i = 2 \/ i = 3 \/ i = 4 \/ i = 5
  OBVIOUS
<1> QED BY <1>1, <1>2, SMT

(* Up to 9999 the two large units are passed over. *)
LEMMA SpeltSmall ==
  ASSUME NEW n \in Nat, n < Units[2]
  PROVE  Spelt(n) = SayUnit(SayUnit(SayUnit([rest |-> n, words |-> <<>>], Units[3]), Units[4]), Units[5])
<1> DEFINE S == [rest : Nat, words : Seq(Nat)]
           start == [rest |-> n, words |-> <<>>]
           step == [i \in 1..5 |-> [x \in S |-> SayUnit(x, Units[i])]]
<1>1. Len(Units) = 5
  BY UnitsAre
<1>2. \A i \in 1..5 : Units[i] \in Nat \ {0}
  BY UnitsAre
<1>3. start \in S
  <2>1. <<>> \in Seq(Nat)
    OBVIOUS
  <2> QED BY <2>1
<1>4. ASSUME NEW x \in S, NEW u \in Nat \ {0} PROVE SayUnit(x, u) \in S
  <2>1. PICK r \in Nat, w \in Seq(Nat) : x = [rest |-> r, words |-> w]
    <3>1. PICK Q : Q = Seq(Nat)
      OBVIOUS
    <3>2. x \in [rest : Nat, words : Q]
      BY <3>1
    <3>3. x.rest \in Nat /\ x.words \in Q /\ x = [rest |-> x.rest, words |-> x.words]
      BY <3>2
    <3> QED BY <3>1, <3>3, Zenon
  <2>2. x.rest = r /\ x.words = w
    BY <2>1
  <2>3. r \div u \in Nat /\ r % u \in Nat
    BY DivMod
  <2>4. PICK d : d = Digit(r \div u)
    OBVIOUS
  <2>5. d \in Seq(Nat)
    BY <2>3, <2>4 DEF Digit, IndexError
  <2>6. w \o d \o <<u>> \in Seq(Nat)
    BY <2>5
  <2>7. SayUnit(x, u) = IF r >= u THEN [rest |-> r % u, words |-> w \o d \o <<u>>] ELSE x
    BY <2>2, <2>4, Zenon DEF SayUnit
  <2>8. [rest |-> r % u, words |-> w \o d \o <<u>>] \in S
    BY <2>3, <2>6
  <2> QED BY <2>7, <2>8, Zenon
<1>5. step \in [1..5 -> [S -> S]]
  <2> HIDE DEF S
  <2> QED BY <1>2, <1>4, Zenon
<1>6. PICK f \in [0..5 -> S] : Steps(f, 5, start, step)
  <2>1. 5 \in Nat
    OBVIOUS
  <2> HIDE DEF S, start, step
  <2> QED BY <1>3, <1>5, <2>1, StepsExist, Zenon
<1>7. f[0] = start /\ \A i \in 1..5 : f[i] = SayUnit(f[i - 1], Units[i])
  <2> SUFFICES ASSUME NEW i \in 1..5 PROVE f[i] = SayUnit(f[i - 1], Units[i])
    BY <1>6, Zenon DEF Steps
  <2>1. f[i - 1] \in S
    <3>1. i - 1 \in 0..5
      OBVIOUS
    <3> QED BY <3>1
  <2>2. step[i][f[i - 1]] = SayUnit(f[i - 1], Units[i])
    <3> HIDE DEF S
    <3> QED BY <2>1, Zenon
  <2> QED BY <1>6, <2>2, Zenon DEF Steps
<1> HIDE DEF step
<1> DEFINE Def(h) == h = [i \in 0..Len(Units) |-> IF i = 0 THEN start ELSE SayUnit(h[i - 1], Units[i])]
<1>8. Def(f)
  <2>1. \A i \in 0..5 : f[i] = IF i = 0 THEN start ELSE SayUnit(f[i - 1], Units[i])
    <3> SUFFICES ASSUME NEW i \in 0..5, i # 0 PROVE i \in 1..5
      BY <1>7, Zenon
    <3> QED OBVIOUS
  <2>2. f = [i \in 0..5 |-> IF i = 0 THEN start ELSE SayUnit(f[i - 1], Units[i])]
    <3> HIDE DEF S, start
    <3> QED BY <2>1
  <2> QED BY <1>1, <2>2, Zenon
<1>9. PICK spelt : spelt = CHOOSE h : Def(h)
  OBVIOUS
<1>10. Spelt(n) = spelt[Len(Units)]
  BY <1>9, Zenon DEF Spelt
<1>11. Def(spelt)
  <2> HIDE DEF Def
  <2> QED BY <1>8, <1>9, Zenon
<1>12. \A i \in 0..5 : spelt[i] = IF i = 0 THEN start ELSE SayUnit(spelt[i - 1], Units[i])
  BY <1>1, <1>11, Zenon
<1>13. spelt[0] = start
  <2>1. 0 \in 0..5
    OBVIOUS
  <2> QED BY <1>12, <2>1, Zenon
<1> HIDE DEF Def
<1>14. /\ spelt[1] = SayUnit(spelt[0], Units[1]) /\ spelt[2] = SayUnit(spelt[1], Units[2])
       /\ spelt[3] = SayUnit(spelt[2], Units[3]) /\ spelt[4] = SayUnit(spelt[3], Units[4])
       /\ spelt[5] = SayUnit(spelt[4], Units[5])
  <2>1. /\ 1 \in 0..5 /\ 1 # 0 /\ 1 - 1 = 0 /\ 2 \in 0..5 /\ 2 # 0 /\ 2 - 1 = 1
        /\ 3 \in 0..5 /\ 3 # 0 /\ 3 - 1 = 2 /\ 4 \in 0..5 /\ 4 # 0 /\ 4 - 1 = 3
        /\ 5 \in 0..5 /\ 5 # 0 /\ 5 - 1 = 4
    OBVIOUS
  <2> HIDE DEF start
  <2> QED BY <1>12, <2>1
<1>15. spelt[2] = start
  <2>1. ~(n >= Units[1]) /\ ~(n >= Units[2]) /\ start.rest = n
    <3>1. 1 \in 1..5 /\ 2 \in 1..5
      OBVIOUS
    <3>2. PICK a \in Nat, c \in Nat : a = Units[1] /\ c = Units[2]
      BY <1>2, <3>1, Zenon
    <3>3. c < a /\ n < c
      BY <3>2, UnitsAre
    <3>4. ~(n >= a) /\ ~(n >= c)
      BY <3>3
    <3>5. start.rest = n
      OBVIOUS
    <3> QED BY <3>2, <3>4, <3>5, Zenon
  <2> HIDE DEF start
  <2> QED BY <1>13, <1>14, <2>1, Zenon DEF SayUnit
<1> QED BY <1>1, <1>10, <1>14, <1>15, Zenon

(* What a digit, a small unit and the name of a group do to what was heard. *)
LEMMA HearDigit ==
  ASSUME NEW a, NEW b, NEW c, NEW d \in 1..9
  PROVE  Hear([sum |-> a, group |-> b, digit |-> c], d) = [sum |-> a, group |-> b, digit |-> d]
<1>1. d < 10
  OBVIOUS
<1>2. PICK h : h = [sum |-> a, group |-> b, digit |-> c]
  OBVIOUS
<1>3. Hear(h, d) = [h EXCEPT !.digit = d]
  BY <1>1, Zenon DEF Hear
<1>4. [h EXCEPT !.digit = d] = [sum |-> a, group |-> b, digit |-> d]
  BY <1>2
<1> QED BY <1>2, <1>3, <1>4, Zenon

Small == {1000, 100, 10}

LEMMA HearSmall ==
  ASSUME NEW a \in Nat, NEW b \in Nat, NEW c \in Nat, NEW u \in Small
  PROVE  Hear([sum |-> a, group |-> b, digit |-> c], u)
           = [sum |-> a, group |-> b + OneAtLeast(c) * u, digit |-> 0]
<1>1. u \in Nat /\ ~(u < 10) /\ u < 10000
  BY SMT DEF Small
<1>2. PICK h : h = [sum |-> a, group |-> b, digit |-> c]
  OBVIOUS
<1>3. h.group = b /\ h.digit = c
  BY <1>2
<1>4. PICK e : e = b + OneAtLeast(c) * u
  OBVIOUS
<1>5. Hear(h, u) = [h EXCEPT !.group = h.group + OneAtLeast(h.digit) * u, !.digit = 0]
  BY <1>1, SMT DEF Hear
<1>6. Hear(h, u) = [h EXCEPT !.group = e, !.digit = 0]
  BY <1>3, <1>4, <1>5, Zenon
<1>7. [h EXCEPT !.group = e, !.digit = 0] = [sum |-> a, group |-> e, digit |-> 0]
  <2>1. PICK k : k = [h EXCEPT !.group = e]
    OBVIOUS
  <2>2. k = [sum |-> a, group |-> e, digit |-> c]
    BY <1>2, <2>1
  <2>3. [k EXCEPT !.digit = 0] = [sum |-> a, group |-> e, digit |-> 0]
    BY <2>2
  <2> QED BY <2>1, <2>3, Zenon
<1> QED BY <1>2, <1>4, <1>6, <1>7, Zenon

(* One of the small units: what is left of the number moves into the listener's group.   *)
Taken(s, x, g, r, w, u) ==
  \E q \in Nat, v \in Seq(SaidWords) :
    /\ SayUnit([rest |-> r, words |-> w], u) = [rest |-> q, words |-> v] /\ q < u /\ q <= r
    /\ Heard(s \o v) = [sum |-> x, group |-> g + (r - q), digit |-> 0]

LEMMA UnitHeard ==
  ASSUME NEW s \in Seq(SaidWords), NEW u \in Small, NEW r \in Nat, r < 10 * u, NEW w \in Seq(SaidWords),
         NEW x \in Nat, NEW g \in Nat, Heard(s \o w) = [sum |-> x, group |-> g, digit |-> 0]
  PROVE  Taken(s, x, g, r, w, u)
<1> USE DEF Taken
<1> u \in Nat /\ u \in SaidWords
  BY SMT DEF Small, SaidWords
<1>1. CASE r < u
  <2>1. ~(r >= u)
    BY <1>1
  <2>2. PICK a : a = [rest |-> r, words |-> w]
    OBVIOUS
  <2>3. a.rest = r
    BY <2>2
  <2>4. SayUnit(a, u) = a
    BY <2>1, <2>3, Zenon DEF SayUnit
  <2>5. g + (r - r) = g /\ r <= r
    OBVIOUS
  <2> QED BY <1>1, <2>2, <2>4, <2>5, Zenon
<1>2. CASE r >= u
  <2>1. PICK d, q : d = r \div u /\ q = r % u
    OBVIOUS
  <2>2. d \in 1..9 /\ q \in Nat /\ q < u /\ q <= r /\ d * u = r - q
    <3>1. CASE u = 1000
      BY <1>2, <2>1, <3>1, SMT
    <3>2. CASE u = 100
      BY <1>2, <2>1, <3>2, SMT
    <3>3. CASE u = 10
      BY <1>2, <2>1, <3>3, SMT
    <3> QED BY <3>1, <3>2, <3>3 DEF Small
  <2>3. PICK v : v = w \o Digit(d) \o <<u>>
    OBVIOUS
  <2>4. SayUnit([rest |-> r, words |-> w], u) = [rest |-> q, words |-> v]
    <3>1. PICK a : a = [rest |-> r, words |-> w]
      OBVIOUS
    <3>2. a.rest = r /\ a.words = w
      BY <3>1
    <3> QED BY <1>2, <2>1, <2>2, <2>3, <3>1, <3>2, Zenon DEF SayUnit
  <2>5. d \in SaidWords
    BY <2>2, SMT DEF SaidWords
  <2>6. PICK t : t = s \o w
    OBVIOUS
  <2>7. t \in Seq(SaidWords) /\ Heard(t) = [sum |-> x, group |-> g, digit |-> 0]
    BY <2>6
  <2>8. CASE d = 1
    <3>1. s \o v = Append(t, u) /\ v \in Seq(SaidWords)
      <4>1. v = w \o <<>> \o <<u>>
        BY <2>3, <2>8 DEF Digit
      <4> HIDE DEF SaidWords
      <4>2. v = Append(w, u)
        BY <4>1
      <4>3. s \o Append(w, u) = Append(s \o w, u) /\ Append(w, u) \in Seq(SaidWords)
        BY ConcatAppend
      <4> QED BY <2>6, <4>2, <4>3, Zenon
    <3>2. Heard(s \o v) = Hear([sum |-> x, group |-> g, digit |-> 0], u)
      BY <2>7, <3>1, HeardMore, Zenon
    <3>3. g + OneAtLeast(0) * u = g + (r - q)
      BY <2>2, <2>8 DEF OneAtLeast
    <3>4. 0 \in Nat
      OBVIOUS
    <3>5. Heard(s \o v) = [sum |-> x, group |-> g + (r - q), digit |-> 0]
      <4>1. Hear([sum |-> x, group |-> g, digit |-> 0], u) = [sum |-> x, group |-> g + OneAtLeast(0) * u, digit |-> 0]
        BY <3>4, HearSmall
      <4> QED BY <3>2, <3>3, <4>1, Zenon
    <3> QED BY <2>2, <2>4, <3>1, <3>5, Zenon
  <2>9. CASE d # 1
    <3>1. PICK k : k = Append(t, d)
      OBVIOUS
    <3>2. s \o v = Append(k, u) /\ v \in Seq(SaidWords) /\ k \in Seq(SaidWords)
      <4>1. v = w \o <<d>> \o <<u>>
        BY <2>2, <2>3, <2>9 DEF Digit
      <4> HIDE DEF SaidWords
      <4>2. v = Append(Append(w, d), u)
        BY <2>5, <4>1
      <4>3. s \o Append(w, d) = Append(s \o w, d) /\ Append(w, d) \in Seq(SaidWords)
        BY <2>5, ConcatAppend
      <4>4. k = s \o Append(w, d)
        BY <2>6, <3>1, <4>3, Zenon
      <4>5. PICK z \in Seq(SaidWords) : z = Append(w, d)
        BY <4>3, Zenon
      <4>6. s \o Append(z, u) = Append(s \o z, u) /\ Append(z, u) \in Seq(SaidWords) /\ s \o z \in Seq(SaidWords)
        BY ConcatAppend
      <4> QED BY <4>2, <4>4, <4>5, <4>6, Zenon
    <3>3. Heard(k) = Hear([sum |-> x, group |-> g, digit |-> 0], d)
      BY <2>5, <2>7, <3>1, HeardMore, Zenon
    <3>4. Heard(k) = [sum |-> x, group |-> g, digit |-> d]
      BY <2>2, <3>3, HearDigit, Zenon
    <3>5. Heard(s \o v) = Hear([sum |-> x, group |-> g, digit |-> d], u)
      BY <3>2, <3>4, HeardMore, Zenon
    <3>6. d \in Nat
      BY <2>2
    <3>7. OneAtLeast(d) = d
      BY <2>2 DEF OneAtLeast
    <3>8. Heard(s \o v) = [sum |-> x, group |-> g + (r - q), digit |-> 0]
      <4>1. Hear([sum |-> x, group |-> g, digit |-> d], u) = [sum |-> x, group |-> g + OneAtLeast(d) * u, digit |-> 0]
        BY <3>6, HearSmall
      <4> QED BY <2>2, <3>5, <3>7, <4>1, Zenon
    <3> QED BY <2>2, <2>4, <3>2, <3>8, Zenon
  <2> QED BY <2>8, <2>9
<1>3. r < u \/ r >= u
  OBVIOUS
<1> QED BY <1>1, <1>2, <1>3, Zenon

(* Each small unit is ten of the next. *)
LEMMA SmallUnits ==
  /\ Units[3] \in Small /\ Units[4] \in Small /\ Units[5] \in Small
  /\ Units[2] = 10 * Units[3] /\ Units[3] = 10 * Units[4] /\ Units[4] = 10 * Units[5] /\ Units[5] = 10
BY SMT DEF Units, Small

(* Below 10^4, korean_number adds its number to the group and the digit of a listener   *)
(* who has just heard the name of a group, or nothing.                                  *)
LEMMA KoreanHeard ==
  ASSUME NEW s \in Seq(SaidWords), NEW x \in Nat, Heard(s) = [sum |-> x, group |-> 0, digit |-> 0],
         NEW n \in Nat, n # 0, n < Units[2]
  PROVE  /\ KoreanNumber(n) \in Seq(SaidWords)
         /\ \E g, d \in Nat : /\ Heard(s \o KoreanNumber(n)) = [sum |-> x, group |-> g, digit |-> d]
                              /\ g + d = n
<1> HIDE DEF SaidWords, Small
<1>1. <<>> \in Seq(SaidWords) /\ Heard(s \o <<>>) = [sum |-> x, group |-> 0, digit |-> 0] /\ 0 \in Nat
  <2>1. s \o <<>> = s
    OBVIOUS
  <2> QED BY <2>1
<1>2. PICK e \in Small, c \in Small, b \in Small : e = Units[3] /\ c = Units[4] /\ b = Units[5]
  BY SmallUnits, Zenon
<1>3. n < 10 * e /\ e = 10 * c /\ c = 10 * b /\ b = 10
  BY <1>2, SmallUnits
<1>4. PICK q1 \in Nat, v1 \in Seq(SaidWords) :
        /\ SayUnit([rest |-> n, words |-> <<>>], e) = [rest |-> q1, words |-> v1] /\ q1 < e /\ q1 <= n
        /\ Heard(s \o v1) = [sum |-> x, group |-> 0 + (n - q1), digit |-> 0]
  <2>1. Taken(s, x, 0, n, <<>>, e)
    BY <1>1, <1>3, UnitHeard
  <2> QED BY <2>1, Zenon DEF Taken
<1>5. PICK g1 \in Nat : g1 = 0 + (n - q1)
  BY <1>4
<1>6. PICK q2 \in Nat, v2 \in Seq(SaidWords) :
        /\ SayUnit([rest |-> q1, words |-> v1], c) = [rest |-> q2, words |-> v2] /\ q2 < c /\ q2 <= q1
        /\ Heard(s \o v2) = [sum |-> x, group |-> g1 + (q1 - q2), digit |-> 0]
  <2>1. q1 < 10 * c
    BY <1>3, <1>4
  <2>2. Heard(s \o v1) = [sum |-> x, group |-> g1, digit |-> 0]
    BY <1>4, <1>5, Zenon
  <2>3. Taken(s, x, g1, q1, v1, c)
    BY <2>1, <2>2, UnitHeard
  <2> QED BY <2>3, Zenon DEF Taken
<1>7. PICK g2 \in Nat : g2 = g1 + (q1 - q2)
  BY <1>6
<1>8. PICK q3 \in Nat, v3 \in Seq(SaidWords) :
        /\ SayUnit([rest |-> q2, words |-> v2], b) = [rest |-> q3, words |-> v3] /\ q3 < b /\ q3 <= q2
        /\ Heard(s \o v3) = [sum |-> x, group |-> g2 + (q2 - q3), digit |-> 0]
  <2>1. q2 < 10 * b
    BY <1>3, <1>6
  <2>2. Heard(s \o v2) = [sum |-> x, group |-> g2, digit |-> 0]
    BY <1>6, <1>7, Zenon
  <2>3. Taken(s, x, g2, q2, v2, b)
    BY <2>1, <2>2, UnitHeard
  <2> QED BY <2>3, Zenon DEF Taken
<1>9. PICK g3 \in Nat : g3 = g2 + (q2 - q3)
  BY <1>8
<1>10. g3 + q3 = n
  BY <1>5, <1>7, <1>9
<1>11. Heard(s \o v3) = [sum |-> x, group |-> g3, digit |-> 0]
  BY <1>8, <1>9, Zenon
<1>12. Spelt(n) = [rest |-> q3, words |-> v3]
  BY <1>2, <1>4, <1>6, <1>8, SpeltSmall, Zenon
<1>13. Spelt(n).rest = q3 /\ Spelt(n).words = v3
  BY <1>12
<1>14. CASE q3 = 0
  <2>1. KoreanNumber(n) = v3
    <3>1. ~(q3 > 0) /\ v3 \o <<>> = v3
      BY <1>14
    <3> QED BY <1>13, <3>1, Zenon DEF KoreanNumber
  <2>2. g3 + 0 = n
    BY <1>10, <1>14
  <2> QED BY <1>1, <1>11, <2>1, <2>2, Zenon
<1>15. CASE q3 # 0
  <2>1. KoreanNumber(n) = v3 \o <<q3>>
    <3>1. q3 > 0
      BY <1>15
    <3> QED BY <1>13, <3>1, Zenon DEF KoreanNumber
  <2>2. q3 \in 1..9
    BY <1>3, <1>8, <1>15
  <2>3. q3 \in SaidWords
    BY <2>2, SMT DEF SaidWords
  <2>4. PICK t \in Seq(SaidWords) : t = s \o v3
    <3>1. s \o v3 \in Seq(SaidWords)
      OBVIOUS
    <3> QED BY <3>1, Zenon
  <2>5. v3 \o <<q3>> \in Seq(SaidWords) /\ s \o (v3 \o <<q3>>) = Append(t, q3)
    <3>1. v3 \o <<q3>> = Append(v3, q3)
      BY <2>3
    <3>2. s \o Append(v3, q3) = Append(s \o v3, q3) /\ Append(v3, q3) \in Seq(SaidWords)
      BY <2>3, ConcatAppend
    <3> QED BY <2>4, <3>1, <3>2, Zenon
  <2>6. Heard(Append(t, q3)) = [sum |-> x, group |-> g3, digit |-> q3]
    <3>1. Heard(Append(t, q3)) = Hear(Heard(t), q3)
      BY <2>3, HeardMore, Zenon
    <3>2. Hear([sum |-> x, group |-> g3, digit |-> 0], q3) = [sum |-> x, group |-> g3, digit |-> q3]
      BY <2>2, HearDigit
    <3> QED BY <1>11, <2>4, <3>1, <3>2, Zenon
  <2> QED BY <1>10, <2>1, <2>5, <2>6, Zenon
<1> QED BY <1>14, <1>15

(* The names of the groups of four digits. *)
Names == {Units[1], Units[2]}

LEMMA NamesAre == Names \subseteq SaidWords /\ Names \subseteq Nat /\ \A name \in Names : ~(name < 10) /\ ~(name < 10000)
<1>1. Units[1] = 100000000 /\ Units[2] = 10000
  BY SMT DEF Units
<1> QED BY <1>1, SMT DEF Names, SaidWords

LEMMA HearName ==
  ASSUME NEW a, NEW b, NEW c, NEW name \in Names
  PROVE  Hear([sum |-> a, group |-> b, digit |-> c], name)
           = [sum |-> a + OneAtLeast(b + c) * name, group |-> 0, digit |-> 0]
<1>1. PICK h : h = [sum |-> a, group |-> b, digit |-> c]
  OBVIOUS
<1>2. h.sum = a /\ h.group = b /\ h.digit = c
  BY <1>1
<1>3. Hear(h, name) = [sum |-> h.sum + OneAtLeast(h.group + h.digit) * name, group |-> 0, digit |-> 0]
  BY NamesAre, SMT DEF Hear
<1> QED BY <1>1, <1>2, <1>3, Zenon

(* A group of four digits adds itself, times its name, to the listener's sum. *)
Adds(s, x, n, name) ==
  /\ Group(n, name) \in Seq(SaidWords)
  /\ Heard(s \o Group(n, name)) = [sum |-> x + n * name, group |-> 0, digit |-> 0]

LEMMA GroupHeard ==
  ASSUME NEW s \in Seq(SaidWords), NEW x \in Nat, Heard(s) = [sum |-> x, group |-> 0, digit |-> 0],
         NEW n \in Nat, n < Units[2], NEW name \in Names
  PROVE  Adds(s, x, n, name)
<1> USE DEF Adds
<1> HIDE DEF SaidWords, Names
<1>1. name \in Nat /\ name \in SaidWords
  BY NamesAre
<1>2. CASE n = 0
  <2>1. Group(n, name) = <<>> /\ s \o <<>> = s /\ <<>> \in Seq(SaidWords)
    BY <1>2 DEF Group
  <2>2. x + n * name = x
    BY <1>1, <1>2
  <2> QED BY <2>1, <2>2, Zenon
<1>3. CASE n = 1
  <2>1. Group(n, name) = <<name>> /\ <<name>> \in Seq(SaidWords) /\ s \o <<name>> = Append(s, name)
    BY <1>1, <1>3 DEF Group
  <2>2. Heard(Append(s, name)) = Hear([sum |-> x, group |-> 0, digit |-> 0], name)
    BY <1>1, HeardMore, Zenon
  <2>3. x + OneAtLeast(0 + 0) * name = x + n * name
    BY <1>1, <1>3 DEF OneAtLeast
  <2>4. Hear([sum |-> x, group |-> 0, digit |-> 0], name) = [sum |-> x + OneAtLeast(0 + 0) * name, group |-> 0, digit |-> 0]
    BY HearName
  <2> QED BY <2>1, <2>2, <2>3, <2>4, Zenon
<1>4. CASE n # 0 /\ n # 1
  <2>1. PICK k : k = KoreanNumber(n)
    OBVIOUS
  <2>2. k \in Seq(SaidWords) /\ \E g, d \in Nat : /\ Heard(s \o k) = [sum |-> x, group |-> g, digit |-> d] /\ g + d = n
    BY <1>4, <2>1, KoreanHeard
  <2>3. PICK g \in Nat, d \in Nat : Heard(s \o k) = [sum |-> x, group |-> g, digit |-> d] /\ g + d = n
    BY <2>2, Zenon
  <2>4. PICK t \in Seq(SaidWords) : t = s \o k
    <3>1. s \o k \in Seq(SaidWords)
      BY <2>2
    <3> QED BY <3>1, Zenon
  <2>5. Group(n, name) = Append(k, name)
    BY <1>4, <2>1, Zenon DEF Group
  <2>6. Append(k, name) \in Seq(SaidWords) /\ s \o Append(k, name) = Append(s \o k, name)
    <3>1. k \in Seq(SaidWords)
      BY <2>2, Zenon
    <3> QED BY <1>1, <3>1, ConcatAppend
  <2>7. Heard(Append(t, name)) = Hear([sum |-> x, group |-> g, digit |-> d], name)
    <3>1. Heard(Append(t, name)) = Hear(Heard(t), name)
      BY <1>1, HeardMore, Zenon
    <3> QED BY <2>3, <2>4, <3>1, Zenon
  <2>8. OneAtLeast(g + d) = n
    BY <1>4, <2>3 DEF OneAtLeast
  <2>9. Hear([sum |-> x, group |-> g, digit |-> d], name) = [sum |-> x + OneAtLeast(g + d) * name, group |-> 0, digit |-> 0]
    BY HearName
  <2> QED BY <2>4, <2>5, <2>6, <2>7, <2>8, <2>9, Zenon
<1> QED BY <1>2, <1>3, <1>4, Zenon

(* format_amount splits a number into groups that add up to it. *)
InGroups(n, e, f) ==
  IF n = 0 THEN <<0>>
  ELSE Group(n \div e, e) \o Group((n % e) \div f, f) \o (IF n % f = 0 THEN <<>> ELSE KoreanNumber(n % f))

LEMMA SaidInGroups ==
  ASSUME NEW n \in Nat, n \div Units[1] < Units[2], n # 0
  PROVE  \E h, m, l \in Nat :
           /\ h < Units[2] /\ m < Units[2] /\ l < Units[2]
           /\ (0 + h * Units[1]) + m * Units[2] + l = n
           /\ FormatAmount(n) = Group(h, Units[1]) \o Group(m, Units[2])
                                  \o (IF l = 0 THEN <<>> ELSE KoreanNumber(l))
<1>1. Units[1] = 100000000 /\ Units[2] = 10000
  BY SMT DEF Units
<1>2. PICK h \in Nat, m \in Nat, l \in Nat :
        h = n \div 100000000 /\ m = (n % 100000000) \div 10000 /\ l = n % 10000
  <2>1. n \div 100000000 \in Nat /\ (n % 100000000) \div 10000 \in Nat /\ n % 10000 \in Nat
    BY SMT
  <2> QED BY <2>1, SMT
<1>3. h < 10000 /\ m < 10000 /\ l < 10000
  BY <1>1, <1>2, SMT
<1>4. h * 100000000 + m * 10000 + l = n
  BY <1>2, SMT
<1>5. h < Units[2] /\ m < Units[2] /\ l < Units[2] /\ (0 + h * Units[1]) + m * Units[2] + l = n
  BY <1>1, <1>3, <1>4, SMT
<1>6. FormatAmount(n) = Group(h, Units[1]) \o Group(m, Units[2]) \o (IF l = 0 THEN <<>> ELSE KoreanNumber(l))
  <2>1. PICK e, f : e = 100000000 /\ f = 10000
    OBVIOUS
  <2>2. FormatAmount(n) = Group(n \div e, e) \o Group((n % e) \div f, f)
                            \o (IF n % f = 0 THEN <<>> ELSE KoreanNumber(n % f))
    <3>1. FormatAmount(n) = InGroups(n, 100000000, 10000)
      BY SMT DEF FormatAmount, InGroups
    <3>2. FormatAmount(n) = InGroups(n, e, f)
      BY <2>1, <3>1, SMT
    <3> QED BY <3>2, Zenon DEF InGroups
  <2>3. h = n \div e /\ m = (n % e) \div f /\ l = n % f /\ e = Units[1] /\ f = Units[2]
    BY <1>1, <1>2, <2>1, SMT
  <2> QED BY <2>2, <2>3, Zenon
<1> QED BY <1>5, <1>6, Zenon

(* Group by group, the listener's sum becomes the amount. *)
LEMMA FormatAmountHeard ==
  ASSUME NEW n \in Nat, n \div Units[1] < Units[2]
  PROVE  FormatAmount(n) \in Seq(SaidWords) /\ Understood(FormatAmount(n)) = n
<1>1. CASE n = 0
  <2>1. FormatAmount(n) = Append(<<>>, 0) /\ <<>> \in Seq(SaidWords)
    BY <1>1, SMT DEF FormatAmount
  <2>2. 0 \in SaidWords
    BY SMT DEF SaidWords
  <2>3. Append(<<>>, 0) \in Seq(SaidWords)
    <3> HIDE DEF SaidWords
    <3> QED BY <2>1, <2>2
  <2>4. Heard(Append(<<>>, 0)) = Hear(Silence, 0)
    BY <2>1, <2>2, HeardNothing, HeardMore, Zenon
  <2>5. PICK h : h = [sum |-> 0, group |-> 0, digit |-> 0]
    OBVIOUS
  <2>6. Hear(h, 0) = [h EXCEPT !.digit = 0]
    BY SMT DEF Hear
  <2>7. [h EXCEPT !.digit = 0] = h /\ h.sum + h.group + h.digit = 0
    BY <2>5, SMT
  <2>8. Heard(FormatAmount(n)) = h
    BY <2>1, <2>4, <2>5, <2>6, <2>7, Zenon DEF Silence
  <2> QED BY <1>1, <2>1, <2>3, <2>7, <2>8, Zenon DEF Understood
<1>2. CASE n # 0
  <2> HIDE DEF SaidWords
  <2>1. PICK h, m, l \in Nat :
           /\ h < Units[2] /\ m < Units[2] /\ l < Units[2]
           /\ (0 + h * Units[1]) + m * Units[2] + l = n
           /\ FormatAmount(n) = Group(h, Units[1]) \o Group(m, Units[2])
                                  \o (IF l = 0 THEN <<>> ELSE KoreanNumber(l))
    BY <1>2, SaidInGroups
  <2>2. Units[1] \in Names /\ Units[2] \in Names /\ Units[1] \in Nat /\ Units[2] \in Nat
    <3>1. Names \subseteq Nat
      BY NamesAre
    <3> QED BY <3>1, Zenon DEF Names
  <2>3. <<>> \in Seq(SaidWords) /\ Heard(<<>>) = [sum |-> 0, group |-> 0, digit |-> 0] /\ 0 \in Nat
    BY HeardNothing DEF Silence
  <2>4. PICK p : p = Group(h, Units[1])
    OBVIOUS
  <2>5. p \in Seq(SaidWords) /\ Heard(p) = [sum |-> 0 + h * Units[1], group |-> 0, digit |-> 0]
    <3>1. p \in Seq(SaidWords) /\ Heard(<<>> \o p) = [sum |-> 0 + h * Units[1], group |-> 0, digit |-> 0]
      <4>1. Adds(<<>>, 0, h, Units[1])
        BY <2>1, <2>2, <2>3, GroupHeard
      <4> QED BY <2>4, <4>1, Zenon DEF Adds
    <3>2. <<>> \o p = p
      BY <3>1
    <3> QED BY <3>1, <3>2, Zenon
  <2>6. PICK a \in Nat : a = 0 + h * Units[1]
    <3>1. 0 + h * Units[1] \in Nat
      BY <2>2
    <3> QED BY <3>1, Zenon
  <2>7. PICK o : o = Group(m, Units[2])
    OBVIOUS
  <2>8. o \in Seq(SaidWords) /\ Heard(p \o o) = [sum |-> a + m * Units[2], group |-> 0, digit |-> 0]
    <3>1. Heard(p) = [sum |-> a, group |-> 0, digit |-> 0] /\ p \in Seq(SaidWords)
      BY <2>5, <2>6, Zenon
    <3>2. Adds(p, a, m, Units[2])
      BY <2>1, <2>2, <3>1, GroupHeard
    <3> QED BY <2>7, <3>2, Zenon DEF Adds
  <2>9. PICK t \in Seq(SaidWords), c \in Nat : t = p \o o /\ c = a + m * Units[2]
    <3>1. p \o o \in Seq(SaidWords) /\ a + m * Units[2] \in Nat
      <4>1. PICK u \in Nat : u = Units[2]
        BY <2>2, Zenon
      <4>2. m * u \in Nat
        OBVIOUS
      <4>3. a + m * Units[2] \in Nat
        BY <4>1, <4>2
      <4>4. p \o o \in Seq(SaidWords)
        BY <2>5, <2>8
      <4> QED BY <4>3, <4>4, Zenon
    <3> QED BY <3>1, Zenon
  <2>10. Heard(t) = [sum |-> c, group |-> 0, digit |-> 0]
    BY <2>8, <2>9, Zenon
  <2>11. c + l = n
    BY <2>1, <2>6, <2>9, Zenon
  <2>12. CASE l = 0
    <3>1. FormatAmount(n) = t
      <4>1. t \o <<>> = t
        OBVIOUS
      <4> QED BY <2>1, <2>4, <2>7, <2>9, <2>12, <4>1, Zenon
    <3>2. c + 0 + 0 = n
      BY <2>11, <2>12
    <3>3. Heard(t).sum = c /\ Heard(t).group = 0 /\ Heard(t).digit = 0
      BY <2>10
    <3> QED BY <3>1, <3>2, <3>3, Zenon DEF Understood
  <2>13. CASE l # 0
    <3>1. PICK k : k = KoreanNumber(l)
      OBVIOUS
    <3>2. k \in Seq(SaidWords) /\ \E g, d \in Nat : /\ Heard(t \o k) = [sum |-> c, group |-> g, digit |-> d] /\ g + d = l
      BY <2>1, <2>10, <2>13, <3>1, KoreanHeard
    <3>3. PICK g \in Nat, d \in Nat : Heard(t \o k) = [sum |-> c, group |-> g, digit |-> d] /\ g + d = l
      BY <3>2, Zenon
    <3>4. FormatAmount(n) = t \o k
      BY <2>1, <2>4, <2>7, <2>9, <2>13, <3>1, Zenon
    <3>5. c + g + d = n
      BY <2>11, <3>3
    <3>6. Heard(t \o k).sum = c /\ Heard(t \o k).group = g /\ Heard(t \o k).digit = d
      BY <3>3
    <3>7. t \o k \in Seq(SaidWords)
      BY <3>2
    <3> QED BY <3>4, <3>5, <3>6, <3>7, Zenon DEF Understood
  <2> QED BY <2>12, <2>13, Zenon
<1> QED BY <1>1, <1>2, Zenon

(* Twelve digits stay below 10^12. *)
LEMMA DigitsBound ==
  ASSUME NEW n \in Nat, n <= 12, NEW value, value[0] = 0,
         \A i \in 1..n : \E k \in 0..9 : value[i] = 10 * value[i - 1] + k
  PROVE  value[n] \in Nat /\ value[n] <= 999999999999
<1> DEFINE G(i, c) == \A j \in 0..i : j <= n => value[j] \in Nat /\ value[j] <= c
<1>1. ASSUME NEW i \in Nat, NEW c \in Nat, G(i, c) PROVE G(i + 1, 10 * c + 9)
  <2> SUFFICES ASSUME NEW j \in 0..(i + 1), j <= n PROVE value[j] \in Nat /\ value[j] <= 10 * c + 9
    OBVIOUS
  <2>1. CASE j <= i
    <3>1. PICK v \in Nat : v = value[j] /\ v <= c
      BY <1>1, <2>1
    <3>2. v <= 10 * c + 9
      BY <3>1
    <3> QED BY <3>1, <3>2, Zenon
  <2>2. CASE j = i + 1
    <3>1. j \in 1..n /\ j - 1 = i /\ i <= n /\ i \in 0..i
      BY <2>2
    <3>2. PICK v \in Nat : v = value[i] /\ v <= c
      BY <1>1, <3>1
    <3>3. PICK k \in 0..9 : value[j] = 10 * value[i] + k
      BY <3>1
    <3>4. 10 * v + k \in Nat /\ 10 * v + k <= 10 * c + 9
      BY <3>2
    <3> QED BY <3>2, <3>3, <3>4, SMT
  <2> QED BY <2>1, <2>2
<1>2. G(0, 0)
  OBVIOUS
<1>3. G(1, 9)
  <2>1. 0 \in Nat /\ 0 \in Nat /\ 0 + 1 = 1 /\ 10 * 0 + 9 = 9
    BY SMT
  <2> HIDE DEF G
  <2> QED BY <1>1, <1>2, <2>1, SMT
<1>4. G(2, 99)
  <2>1. 1 \in Nat /\ 9 \in Nat /\ 1 + 1 = 2 /\ 10 * 9 + 9 = 99
    BY SMT
  <2> HIDE DEF G
  <2> QED BY <1>1, <1>3, <2>1, SMT
<1>5. G(3, 999)
  <2>1. 2 \in Nat /\ 99 \in Nat /\ 2 + 1 = 3 /\ 10 * 99 + 9 = 999
    BY SMT
  <2> HIDE DEF G
  <2> QED BY <1>1, <1>4, <2>1, SMT
<1>6. G(4, 9999)
  <2>1. 3 \in Nat /\ 999 \in Nat /\ 3 + 1 = 4 /\ 10 * 999 + 9 = 9999
    BY SMT
  <2> HIDE DEF G
  <2> QED BY <1>1, <1>5, <2>1, SMT
<1>7. G(5, 99999)
  <2>1. 4 \in Nat /\ 9999 \in Nat /\ 4 + 1 = 5 /\ 10 * 9999 + 9 = 99999
    BY SMT
  <2> HIDE DEF G
  <2> QED BY <1>1, <1>6, <2>1, SMT
<1>8. G(6, 999999)
  <2>1. 5 \in Nat /\ 99999 \in Nat /\ 5 + 1 = 6 /\ 10 * 99999 + 9 = 999999
    BY SMT
  <2> HIDE DEF G
  <2> QED BY <1>1, <1>7, <2>1, SMT
<1>9. G(7, 9999999)
  <2>1. 6 \in Nat /\ 999999 \in Nat /\ 6 + 1 = 7 /\ 10 * 999999 + 9 = 9999999
    BY SMT
  <2> HIDE DEF G
  <2> QED BY <1>1, <1>8, <2>1, SMT
<1>10. G(8, 99999999)
  <2>1. 7 \in Nat /\ 9999999 \in Nat /\ 7 + 1 = 8 /\ 10 * 9999999 + 9 = 99999999
    BY SMT
  <2> HIDE DEF G
  <2> QED BY <1>1, <1>9, <2>1, SMT
<1>11. G(9, 999999999)
  <2>1. 8 \in Nat /\ 99999999 \in Nat /\ 8 + 1 = 9 /\ 10 * 99999999 + 9 = 999999999
    BY SMT
  <2> HIDE DEF G
  <2> QED BY <1>1, <1>10, <2>1, SMT
<1>12. G(10, 9999999999)
  <2>1. 9 \in Nat /\ 999999999 \in Nat /\ 9 + 1 = 10 /\ 10 * 999999999 + 9 = 9999999999
    BY SMT
  <2> HIDE DEF G
  <2> QED BY <1>1, <1>11, <2>1, SMT
<1>13. G(11, 99999999999)
  <2>1. 10 \in Nat /\ 9999999999 \in Nat /\ 10 + 1 = 11 /\ 10 * 9999999999 + 9 = 99999999999
    BY SMT
  <2> HIDE DEF G
  <2> QED BY <1>1, <1>12, <2>1, SMT
<1>14. G(12, 999999999999)
  <2>1. 11 \in Nat /\ 99999999999 \in Nat /\ 11 + 1 = 12 /\ 10 * 99999999999 + 9 = 999999999999
    BY SMT
  <2> HIDE DEF G
  <2> QED BY <1>1, <1>13, <2>1, SMT
<1> QED BY <1>14, SMT

(* int(value) has at most twelve digits. *)
LEMMA AmountBounded ==
  ASSUME keyed \in Seq(0..9), Len(keyed) <= 12
  PROVE  Amount \in Nat /\ Amount <= 999999999999
<1> DEFINE n == Len(keyed)
           step == [i \in 1..n |-> [v \in Nat |-> 10 * v + keyed[i]]]
<1>1. n \in Nat
  OBVIOUS
<1>2. \A i \in 1..n : keyed[i] \in 0..9
  OBVIOUS
<1>3. step \in [1..n -> [Nat -> Nat]]
  <2>1. \A i \in 1..n, v \in Nat : 10 * v + keyed[i] \in Nat
    BY <1>2
  <2> HIDE DEF n
  <2> QED BY <2>1, Zenon
<1>4. PICK f \in [0..n -> Nat] : Steps(f, n, 0, step)
  <2>1. 0 \in Nat
    OBVIOUS
  <2> HIDE DEF n, step
  <2> QED BY <1>1, <1>3, <2>1, StepsExist, Zenon
<1>5. \A i \in 1..n : i # 0 /\ i \in 0..n /\ i - 1 \in 0..n
  BY <1>1
<1>6. f[0] = 0 /\ \A i \in 1..n : f[i] = 10 * f[i - 1] + keyed[i]
  <2> SUFFICES ASSUME NEW i \in 1..n PROVE f[i] = 10 * f[i - 1] + keyed[i]
    BY <1>4, Zenon DEF Steps
  <2>1. f[i - 1] \in Nat
    BY <1>5
  <2>2. step[i][f[i - 1]] = 10 * f[i - 1] + keyed[i]
    <3> HIDE DEF n
    <3> QED BY <2>1, Zenon
  <2> QED BY <1>4, <2>2, Zenon DEF Steps
<1> HIDE DEF step
<1> DEFINE Def(h) == h = [i \in 0..Len(keyed) |-> IF i = 0 THEN 0 ELSE 10 * h[i - 1] + keyed[i]]
<1>7. Def(f)
  <2>1. \A i \in 0..n : f[i] = IF i = 0 THEN 0 ELSE 10 * f[i - 1] + keyed[i]
    <3> SUFFICES ASSUME NEW i \in 0..n, i # 0 PROVE i \in 1..n
      BY <1>6, Zenon
    <3> QED BY <1>1
  <2> QED BY <2>1
<1>8. PICK value : value = CHOOSE h : Def(h)
  OBVIOUS
<1>9. Amount = value[n]
  BY <1>8, Zenon DEF Amount
<1>10. Def(value)
  <2> HIDE DEF Def
  <2> QED BY <1>7, <1>8, Zenon
<1>11. value[0] = 0 /\ \A i \in 1..n : value[i] = 10 * value[i - 1] + keyed[i]
  <2>1. \A i \in 0..n : value[i] = IF i = 0 THEN 0 ELSE 10 * value[i - 1] + keyed[i]
    BY <1>10, Zenon
  <2>2. 0 \in 0..n
    BY <1>1
  <2> QED BY <1>5, <2>1, <2>2, Zenon
<1>12. value[n] \in Nat /\ value[n] <= 999999999999
  <2>1. \A i \in 1..n : \E k \in 0..9 : value[i] = 10 * value[i - 1] + k
    BY <1>2, <1>11, Zenon
  <2>2. n \in Nat /\ n <= 12
    OBVIOUS
  <2>3. value[0] = 0
    BY <1>11, Zenon
  <2> HIDE DEF n
  <2> QED BY <2>1, <2>2, <2>3, DigitsBound, SMT
<1> QED BY <1>9, <1>12, SMT

(* What is keyed is an amount of at most MaxDigits digits. *)
THEOREM SpokenTypeCorrect == SpokenSpec => []SpokenTypeOK
<1>1. MaxDigits \in Nat
  BY SpokenAssumption
<1>2. SpokenInit => SpokenTypeOK
  BY <1>1, EmptyBounded DEF SpokenInit, SpokenTypeOK
<1>3. SpokenTypeOK /\ [Key]_spokenVars => SpokenTypeOK'
  <2> SUFFICES ASSUME SpokenTypeOK, [Key]_spokenVars PROVE SpokenTypeOK'
    OBVIOUS
  <2>1. CASE Key
    BY <1>1, <2>1, AppendBounded DEF Key, SpokenTypeOK
  <2>2. CASE UNCHANGED spokenVars
    BY <2>2 DEF spokenVars, SpokenTypeOK
  <2> QED BY <2>1, <2>2
<1> QED BY <1>2, <1>3, PTL DEF SpokenSpec

(* format_amount: a listener understands every amount below 10^12 as it was given, and  *)
(* no digit is looked up that has no word.                                              *)
THEOREM AmountsAreUnderstood == SpokenSpec => []AmountReads
<1>1. KeyedDigits \subseteq 0..9 /\ MaxDigits \in Nat /\ MaxDigits <= 12
  BY SpokenAssumption
<1>2. SpokenTypeOK => AmountReads
  <2> SUFFICES ASSUME SpokenTypeOK PROVE AmountReads
    OBVIOUS
  <2>1. keyed \in Seq(KeyedDigits) /\ Len(keyed) <= MaxDigits
    BY <1>1, BoundedSeqs DEF SpokenTypeOK
  <2>2. keyed \in Seq(0..9) /\ Len(keyed) <= 12
    <3>1. \A i \in 1..Len(keyed) : keyed[i] \in 0..9
      <4>1. \A i \in 1..Len(keyed) : keyed[i] \in KeyedDigits
        BY <2>1
      <4> QED BY <1>1, <4>1
    <3> QED BY <1>1, <2>1, <3>1
  <2>3. PICK n \in Nat : n = Amount /\ n <= 999999999999
    BY <2>2, AmountBounded
  <2>4. n \div Units[1] < Units[2]
    BY <2>3, SMT DEF Units
  <2>5. PICK w : w = FormatAmount(n)
    OBVIOUS
  <2>6. w \in Seq(SaidWords) /\ Understood(w) = n
    BY <2>4, <2>5, FormatAmountHeard, Zenon
  <2>7. IndexError \notin SaidWords
    BY SMT DEF IndexError, SaidWords
  <2>8. IndexError \notin ToSet(w)
    <3> HIDE DEF SaidWords
    <3>1. \A i \in DOMAIN w : w[i] \in SaidWords
      BY <2>6
    <3> QED BY <2>7, <3>1, Zenon DEF ToSet
  <2>9. n = Amount
    BY <2>3
  <2> QED BY <2>5, <2>6, <2>8, <2>9, Zenon DEF AmountReads
<1> QED BY <1>2, SpokenTypeCorrect, PTL

-------------------------------------------------------------------------------
(* MCComponents: the components one beside the other                         *)

(* A step of one component leaves the others as they are. *)
Steppers ==
  /\ [ServiceNext]_serviceVars
  /\ [PiiNext]_piiVars
  /\ [AuthNext]_authVars
  /\ [DeskNext]_deskVars
  /\ [ControlNext]_controlVars
  /\ [Speak]_saidVars
  /\ [Say]_maskVars
  /\ [ReplyNext]_replyVars
  /\ [Key]_spokenVars
  /\ [CacheNext]_cacheVars

LEMMA OneSteps == [Next]_vars => Steppers
<1> SUFFICES ASSUME [Next]_vars PROVE Steppers
  OBVIOUS
<1>1. CASE Service
  BY <1>1, Zenon DEF Service, Steppers
<1>2. CASE Pii
  BY <1>2, Zenon DEF Pii, Steppers
<1>3. CASE Auth
  BY <1>3, Zenon DEF Auth, Steppers
<1>4. CASE Desk
  BY <1>4, Zenon DEF Desk, Steppers
<1>5. CASE Control_
  BY <1>5, Zenon DEF Control_, Steppers
<1>6. CASE Said
  BY <1>6, Zenon DEF Said, Steppers
<1>7. CASE Mask_
  BY <1>7, Zenon DEF Mask_, Steppers
<1>8. CASE Reply_
  BY <1>8, Zenon DEF Reply_, Steppers
<1>9. CASE Spoken_
  BY <1>9, Zenon DEF Spoken_, Steppers
<1>10. CASE Cache_
  BY <1>10, Zenon DEF Cache_, Steppers
<1>11. CASE UNCHANGED vars
  BY <1>11, Zenon DEF vars, Steppers
<1> QED BY <1>1, <1>2, <1>3, <1>4, <1>5, <1>6, <1>7, <1>8, <1>9, <1>10, <1>11, Zenon DEF Next

(* What is proved of a component holds of it in MCComponents too. *)
THEOREM PartsAreComponents ==
  Spec => /\ ServiceSpec /\ PiiSpec /\ AuthSpec /\ DeskSpec /\ ControlSpec
          /\ SaidSpec /\ MaskSpec /\ ReplySpec /\ SpokenSpec /\ CacheSpec
<1>1. Init => /\ ServiceInit /\ PiiInit /\ AuthInit /\ DeskInit /\ ControlInit
              /\ SaidInit /\ MaskInit /\ ReplyInit /\ SpokenInit /\ CacheInit
  BY Zenon DEF Init
<1> QED BY <1>1, OneSteps, PTL DEF Spec, Steppers, ServiceSpec, PiiSpec, AuthSpec, DeskSpec, ControlSpec, SaidSpec, MaskSpec, ReplySpec, SpokenSpec, CacheSpec

(* The types of every component, as the run checks them. *)
THEOREM TypesAreCorrect == Spec => []TypeOK
<1>1. /\ ServiceTypeOK /\ PiiTypeOK /\ AuthTypeOK /\ DeskTypeOK /\ ControlTypeOK
      /\ UtterancesTypeOK /\ MaskingTypeOK /\ ReplyTypeOK /\ SpokenTypeOK /\ CacheTypeOK
      => TypeOK
  BY Zenon DEF TypeOK
<1> QED BY <1>1, PartsAreComponents, ServiceTypeCorrect, PiiTypeCorrect, AuthTypeCorrect, DeskTypeCorrect,
           ControlTypeCorrect, UtterancesTypeCorrect, MaskingTyped, ReplyTypeCorrect, SpokenTypeCorrect,
           CacheTypeCorrect, PTL
=============================================================================
