------------------------------ MODULE Utterances ------------------------------
(***************************************************************************)
(* What MockIntentClassifier (nlu/intent_classifier.py) takes a caller's   *)
(* words for: the first rule of nlu/patterns.py with a matching pattern,   *)
(* and failing that the first keyword rule.  An utterance is a sequence of *)
(* words; a word stands for the alternatives a pattern treats alike, in    *)
(* the form that is said, and words are separated.                         *)
(*                                                                         *)
(*   plan 요금제    fee 요금      change 변경   swap 바꿔    other 다른          *)
(*   tell 알려     what 뭐       much 얼마     month 이번 달  please 좀         *)
(*   pay 납부      check 확인    paid 냈       done 됐어    money 돈           *)
(*   data 데이터    left 잔여     addon 부가서비스 remove 빼줘  cancel 해지       *)
(*   hangup 끊어줘  quit 끊고     agent 상담사   staff 직원   connect 연결       *)
(*   complain 불만 stop 종료     slow 느리게    again 다시   wait 잠깐           *)
(***************************************************************************)
EXTENDS Naturals, SequencesExt

CONSTANTS MaxWords   \* bound: words of an utterance

ASSUME UtterancesAssumption == MaxWords \in Nat

VARIABLE said
saidVars == <<said>>

Words == {"plan", "fee", "change", "swap", "other", "tell", "what", "much", "month", "please",
          "pay", "check", "paid", "done", "money", "data", "left", "addon", "remove", "cancel",
          "hangup", "quit", "agent", "staff", "connect", "complain", "stop", "slow", "again", "wait"}

UtterancesTypeOK == said \in SeqOf(Words, MaxWords)

(* One word may hold another: 요금제 begins with 요금. *)
Has(word, w) == word = w \/ (word = "plan" /\ w = "fee")
SaidAt(u, i, W) == \E w \in W : Has(u[i], w)

(* A pattern asks for one word or for two, the second anywhere later (.* in the *)
(* expression) or next (\s*, which also asks that the first be the whole word).  *)
One(u, W)      == \E i \in DOMAIN u : SaidAt(u, i, W)
Later(u, V, W) == \E i, j \in DOMAIN u : i < j /\ SaidAt(u, i, V) /\ SaidAt(u, j, W)
Next2(u, V, W) == \E i \in 1..(Len(u) - 1) : u[i] \in V /\ SaidAt(u, i + 1, W)

(* 해지(?!.*부가) *)
CancelNoAddon(u) == \E i \in DOMAIN u : u[i] = "cancel" /\ \A j \in (i + 1)..Len(u) : u[j] # "addon"

(***************************************************************************)
(* _PATTERN_RULES, in order.  Patterns that say nothing new about these    *)
(* words are left out.                                                     *)
(***************************************************************************)
PatternIntents == <<"PLAN_CHANGE", "PLAN_INQUIRY", "PAYMENT_CHECK", "BILLING_INQUIRY",
  "DATA_USAGE_INQUIRY", "ADDON_CANCEL", "AGENT_CONNECT", "COMPLAINT", "END_CALL",
  "CANCELLATION", "SPEED_CONTROL", "REPEAT_REQUEST", "WAIT_REQUEST">>

Matches(intent, u) ==
  CASE intent = "PLAN_CHANGE"        -> Later(u, {"plan"}, {"change", "swap"}) \/ Next2(u, {"other"}, {"plan"})
    [] intent = "PLAN_INQUIRY"       -> Later(u, {"plan"}, {"tell", "what"}) \/ Next2(u, {"plan"}, {"please"})
    [] intent = "PAYMENT_CHECK"      -> \/ Later(u, {"pay"}, {"check", "done"})
                                        \/ Later(u, {"money", "fee"}, {"paid", "pay"})
                                        \/ Next2(u, {"pay"}, {"please"})
    [] intent = "BILLING_INQUIRY"    -> \/ Later(u, {"fee"}, {"tell", "much", "check"})
                                        \/ Next2(u, {"month"}, {"fee"}) \/ Next2(u, {"fee"}, {"please"})
                                        \/ Later(u, {"much", "money"}, {"paid"})
    [] intent = "DATA_USAGE_INQUIRY" -> \/ Later(u, {"data"}, {"left", "check"})
                                        \/ Next2(u, {"left"}, {"data"})
                                        \/ Next2(u, {"data"}, {"please", "much"})
    [] intent = "ADDON_CANCEL"       -> Later(u, {"addon"}, {"cancel", "remove", "hangup", "quit"})
    [] intent = "AGENT_CONNECT"      -> One(u, {"agent"}) \/ Later(u, {"staff"}, {"connect", "swap"})
    [] intent = "COMPLAINT"          -> One(u, {"complain"})
    [] intent = "END_CALL"           -> One(u, {"stop", "done"}) \/ (u # <<>> /\ Last(u) = "hangup")
    [] intent = "CANCELLATION"       -> CancelNoAddon(u) \/ One(u, {"quit"})
    [] intent = "SPEED_CONTROL"      -> One(u, {"slow"})
    [] intent = "REPEAT_REQUEST"     -> One(u, {"again"})
    [] intent = "WAIT_REQUEST"       -> One(u, {"wait"})

(* _KEYWORD_RULES, in order *)
KeywordIntents == <<"PLAN_CHANGE", "PLAN_INQUIRY", "BILLING_INQUIRY", "PAYMENT_CHECK",
  "DATA_USAGE_INQUIRY", "ADDON_CANCEL", "AGENT_CONNECT", "COMPLAINT", "CANCELLATION", "END_CALL",
  "SPEED_CONTROL", "REPEAT_REQUEST", "WAIT_REQUEST">>

Mentions(intent, u) ==
  CASE intent = "PLAN_CHANGE"        -> Next2(u, {"plan"}, {"change"})
    [] intent = "PLAN_INQUIRY"       -> One(u, {"plan"})
    [] intent = "BILLING_INQUIRY"    -> One(u, {"fee"})
    [] intent = "PAYMENT_CHECK"      -> One(u, {"pay"})
    [] intent = "DATA_USAGE_INQUIRY" -> One(u, {"data", "left"})
    [] intent = "ADDON_CANCEL"       -> Next2(u, {"addon"}, {"cancel"})
    [] intent = "AGENT_CONNECT"      -> One(u, {"agent"})
    [] intent = "COMPLAINT"          -> One(u, {"complain"})
    [] intent = "CANCELLATION"       -> One(u, {"cancel"})
    [] intent = "END_CALL"           -> One(u, {"stop", "hangup", "quit"})
    [] intent = "SPEED_CONTROL"      -> One(u, {"slow"})
    [] intent = "REPEAT_REQUEST"     -> One(u, {"again"})
    [] intent = "WAIT_REQUEST"       -> One(u, {"wait"})

FirstOf(intents, Holds(_)) ==
  LET hit == SelectInSeq(intents, Holds) IN IF hit = 0 THEN "UNCLASSIFIED" ELSE intents[hit]

(* _match_primary_intent and _match_secondary_intents *)
KeywordsFirst(u) ==   \* mutant of Primary
  LET word == FirstOf(KeywordIntents, LAMBDA i : Mentions(i, u))
  IN IF word # "UNCLASSIFIED" THEN word ELSE FirstOf(PatternIntents, LAMBDA i : Matches(i, u))
Primary(u) ==
  LET match == FirstOf(PatternIntents, LAMBDA i : Matches(i, u))
  IN IF match # "UNCLASSIFIED" THEN match ELSE FirstOf(KeywordIntents, LAMBDA i : Mentions(i, u))

Secondary(u) == {i \in ToSet(KeywordIntents) : i # Primary(u) /\ Mentions(i, u)}

(* The caller goes on speaking. *)
SaidInit == said = <<>>
Speak == Len(said) < MaxWords /\ \E w \in Words : said' = Append(said, w)
SaidSpec == SaidInit /\ [][Speak]_saidVars

(* "더 구체적인 패턴이 앞에 위치" and "BILLING보다 먼저", "CANCELLATION보다 먼저"       *)
(* (patterns.py:13, 33, 79): whatever else is said, an utterance a narrow rule  *)
(* matches is not taken for the broader intent, nor does what is said of an     *)
(* add-on end the contract or the call.                                         *)
Narrower == {<<"PLAN_CHANGE", "PLAN_INQUIRY">>, <<"PLAN_INQUIRY", "BILLING_INQUIRY">>,
             <<"PAYMENT_CHECK", "BILLING_INQUIRY">>, <<"ADDON_CANCEL", "CANCELLATION">>,
             <<"ADDON_CANCEL", "END_CALL">>, <<"END_CALL", "CANCELLATION">>}
NarrowWins == \A p \in Narrower : Matches(p[1], said) => Primary(said) # p[2]

(* "부가" 없는 해지 (patterns.py:88): a caller who wants an add-on cancelled is      *)
(* not taken for one who leaves.                                                *)
CancellationIsNotAddon == Primary(said) = "CANCELLATION" => ~One(said, {"addon"})

(* "복합 발화에서 추가 의도를 탐지한다" (intent_classifier.py:137): what is only part   *)
(* of the words for the first intent is not a second one.                       *)
SecondIsSaid == Primary(said) = "PLAN_CHANGE" /\ Len(said) = 2 => Secondary(said) = {}
=============================================================================
