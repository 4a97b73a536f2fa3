-------------------------------- MODULE Reply --------------------------------
(***************************************************************************)
(* An answer of the language model on its way to the caller:               *)
(* BedrockClaudeService (llm_engine/bedrock_service.py) streams it and     *)
(* tries again, LLMEngine (llm_engine/llm_engine.py) shortens it and       *)
(* splits it into pieces to speak, HallucinationVerifier                   *)
(* (llm_engine/hallucination_verifier.py) compares it with the customer's  *)
(* data.  A text is a sequence of parts: words, spaces, full stops, a      *)
(* phrase of the system prompt, and two amounts, one of which contains the *)
(* digits of the other.                                                    *)
(***************************************************************************)
EXTENDS Naturals, SequencesExt

CONSTANTS
  MaxRetries,   \* BedrockConfig.max_retries
  MaxParts,     \* bound: parts of a text
  MaxLength     \* the length an answer is cut to, and that of a spoken piece

ASSUME ReplyAssumption == MaxRetries \in Nat /\ MaxParts \in Nat /\ MaxLength \in Nat \ {0}

VARIABLES
  attempt,  \* of the loop of _invoke_with_retry
  waited,   \* seconds slept in it
  outcome,  \* "none", or what generate returned or raised
  parts,    \* text_parts of the attempt
  sent,     \* for the properties: what the service has streamed in this attempt,
  throttles \* and how many attempts it has turned away
replyVars == <<attempt, waited, outcome, parts, sent, throttles>>

Parts    == {"word", " ", ".", "prompt", "5000", "50000"}
Raised   == {"timeout", "refused", "exhausted", "unknown"}
Texts    == SeqOf(Parts, MaxParts)

ReplyTypeOK ==
  /\ attempt \in 0..MaxRetries /\ waited \in 0..(3 * MaxRetries)
  /\ outcome \in {"none", "text"} \cup Raised /\ {parts, sent} \subseteq Texts
  /\ throttles \in 0..(MaxRetries + 1)

ReplyInit == attempt = 0 /\ waited = 0 /\ outcome = "none" /\ parts = <<>> /\ sent = <<>> /\ throttles = 0

(***************************************************************************)
(* _invoke_with_retry and _extract_text.  The stream may break at any      *)
(* part; what it brought is lost.  The time-out of the configuration is    *)
(* not given to the client: "timeout" is the client's own.                 *)
(***************************************************************************)
Delta == /\ outcome = "none" /\ Len(sent) < MaxParts
         /\ \E p \in Parts : parts' = Append(parts, p) /\ sent' = Append(sent, p)
         /\ UNCHANGED <<attempt, waited, outcome, throttles>>

StreamEnds == /\ outcome = "none"
              /\ IF parts = <<>> THEN outcome' = "unknown" ELSE outcome' = "text"
              /\ UNCHANGED <<attempt, waited, parts, sent, throttles>>

Fails == /\ outcome = "none" /\ parts' = <<>> /\ sent' = <<>>
         /\ \E e \in {"timeout", "refused", "unknown"} : outcome' = e
         /\ UNCHANGED <<attempt, waited, throttles>>

(* wait_seconds: 1, 2, and then 3 *)
WaitSeconds(a) == IF a = 0 THEN 1 ELSE IF a = 1 THEN 2 ELSE 3

Retry ==
  IF attempt < MaxRetries
  THEN attempt' = attempt + 1 /\ waited' = waited + WaitSeconds(attempt) /\ UNCHANGED outcome
  ELSE outcome' = "exhausted" /\ UNCHANGED <<attempt, waited>>

KeepsBrokenText ==   \* mutant of Throttled
  outcome = "none" /\ UNCHANGED parts /\ sent' = <<>> /\ throttles' = throttles + 1 /\ Retry
Throttled ==
  outcome = "none" /\ parts' = <<>> /\ sent' = <<>> /\ throttles' = throttles + 1 /\ Retry

ReplyNext == Delta \/ StreamEnds \/ Fails \/ Throttled
ReplySpec == ReplyInit /\ [][ReplyNext]_replyVars

(***************************************************************************)
(* LLMEngine.generate_response: _post_process, then cut.  The rest of a    *)
(* longer answer is dropped (remaining_legal_info stays None); the limit   *)
(* may fall within an amount, of which the first digits stay.              *)
(***************************************************************************)
Apology == <<"word">>
PostProcess(t) == IF "prompt" \in ToSet(t) THEN Apology ELSE t
Begins(p) == IF p = "50000" THEN {p, "5000"} ELSE {p}
Cuts(t) ==
  IF Len(t) > MaxLength
  THEN {Append(SubSeq(t, 1, MaxLength - 1), p) : p \in Begins(t[MaxLength])} ELSE {t}
GenerateResponse(t) == Cuts(PostProcess(t))

(* ResponseSplitter.split: behind the last full stop that fits, or anywhere. *)
Blank(p) == p = " "
Strip(t) == LET S == {i \in DOMAIN t : ~Blank(t[i])} IN IF S = {} THEN <<>> ELSE SubSeq(t, Min(S), Max(S))

CutAtStop(t, s) == <<SubSeq(t, 1, s), SubSeq(t, s + 2, Len(t))>>   \* mutant of CutBehind
CutBehind(t, s) == <<Strip(SubSeq(t, 1, s)), Strip(SubSeq(t, s + 1, Len(t)))>>
CutAnywhere(t) == <<SubSeq(t, 1, MaxLength), SubSeq(t, MaxLength + 1, Len(t))>>

Halves(t) ==
  LET stops == {i \in 1..MaxLength : t[i] = "."}
  IN IF stops # {} THEN CutBehind(t, Max(stops)) ELSE CutAnywhere(t)

Split[t \in Seq(Parts)] ==
  IF Len(t) <= MaxLength THEN <<t>>
  ELSE <<Halves(t)[1]>> \o (IF Halves(t)[2] = <<>> THEN <<>> ELSE Split[Halves(t)[2]])

(***************************************************************************)
(* HallucinationVerifier.verify for an answer about the customer's data,   *)
(* which say 5000.  A number is looked for as a run of digits in the text. *)
(***************************************************************************)
Shows(p, amount) == p = amount \/ (p = "50000" /\ amount = "5000")

Discrepant(t) == \A i \in DOMAIN t : ~Shows(t[i], "5000")

NoDataWhenDown(t, confident, factual, db) ==   \* mutant of Verify
  IF ~confident THEN "BLOCKED"
  ELSE IF factual /\ db = "data" /\ Discrepant(t) THEN "REPLACED" ELSE "PASS"
Verify(t, confident, factual, db) ==
  IF ~confident THEN "BLOCKED"
  ELSE IF ~factual THEN "PASS"
  ELSE IF db = "down" THEN "BLOCKED"
  ELSE IF db = "data" /\ Discrepant(t) THEN "REPLACED" ELSE "PASS"

(* However often the service turns a call away, the caller waits 1, 3, 6, 9, ...  *)
(* seconds for 1, 2, 3, 4, ... retries and none for the refusal after the last;    *)
(* he is told that the attempts are used up exactly when all of them were turned   *)
(* away; and a text he gets is what one attempt streamed, to the end, with nothing *)
(* of the attempts whose streams broke.                                            *)
SleptFor(retries) == IF retries < 2 THEN retries ELSE 3 * (retries - 1)
GivesUpInTime ==
  /\ waited = SleptFor(IF outcome = "exhausted" THEN MaxRetries ELSE throttles)
  /\ outcome = "exhausted" <=> throttles > MaxRetries
  /\ outcome = "text" => parts = sent /\ sent # <<>>

(* The splitter's promise to the speech synthesis: every piece can be spoken   *)
(* at once and is not empty, and together they say what the text says.       *)
Word(p)   == IF Blank(p) THEN <<>> ELSE <<p>>
Spoken(t) == FlattenSeq([i \in DOMAIN t |-> Word(t[i])])
SplitIsPlayable == LET pieces == Split[parts] IN
  /\ \A i \in DOMAIN pieces : Len(pieces[i]) <= MaxLength /\ (Len(pieces) > 1 => pieces[i] # <<>>)
  /\ Spoken(FlattenSeq(pieces)) = Spoken(parts)

(* Nothing is said as true of the customer's data unless the intent was classified *)
(* with confidence, the database could be asked, and the digits of its amount      *)
(* stand in what is left of the answer after it was replaced or cut; where no data *)
(* were loaded, nothing is compared.                                               *)
FactsAreChecked == \A said \in GenerateResponse(parts) :
  \A confident \in BOOLEAN, db \in {"data", "down"} :
    Verify(said, confident, TRUE, db) = "PASS" =>
      confident /\ db = "data" /\ \E p \in ToSet(said) : Shows(p, "5000")

(* "DB 데이터와 LLM 응답 교차 검증" (hallucination_verifier.py:131): a wrong amount  *)
(* does not pass.                                                              *)
PassedIsTrue == \A said \in GenerateResponse(parts) :
  Verify(said, TRUE, TRUE, "data") = "PASS" => "5000" \in ToSet(parts)
=============================================================================
