---------------------------- MODULE SpokenNumbers ----------------------------
(***************************************************************************)
(* How speech synthesis reads an amount: korean_number and format_amount   *)
(* (voice_io/tts_engine.py).  A reading is a sequence of words; a word     *)
(* stands for its number: 0 to 9 for the digits, and 10, 100, 1000, 10^4,  *)
(* 10^8 for the units.                                                     *)
(***************************************************************************)
EXTENDS Naturals, SequencesExt

CONSTANTS
  KeyedDigits,  \* digits the amount may have
  MaxDigits     \* bound: length of an amount, below 10^12

ASSUME SpokenAssumption == KeyedDigits \subseteq 0..9 /\ MaxDigits \in 0..12

VARIABLE keyed   \* the string format_amount is given
spokenVars == <<keyed>>

IndexError == 11   \* _KO_DIGITS[digit] for a digit above nine: no word

Units == <<100000000, 10000, 1000, 100, 10>>

SpokenTypeOK == keyed \in SeqOf(KeyedDigits, MaxDigits)

SpokenInit == keyed = <<>>
Key == Len(keyed) < MaxDigits /\ \E d \in KeyedDigits : keyed' = Append(keyed, d)
SpokenSpec == SpokenInit /\ [][Key]_spokenVars

(* A one before a unit is not said. *)
Digit(d) == IF d = 1 THEN <<>> ELSE IF d > 9 THEN <<IndexError>> ELSE <<d>>

SayUnit(said, unit) ==
  IF said.rest >= unit
  THEN [rest |-> said.rest % unit, words |-> said.words \o Digit(said.rest \div unit) \o <<unit>>]
  ELSE said

(* What has been said, and what is left to say, after each of the units. *)
Spelt(n) ==
  LET said[i \in 0..Len(Units)] ==
        IF i = 0 THEN [rest |-> n, words |-> <<>>] ELSE SayUnit(said[i - 1], Units[i])
  IN said[Len(Units)]
KoreanNumber(n) ==
  IF n = 0 THEN <<0>>
  ELSE Spelt(n).words \o (IF Spelt(n).rest > 0 THEN <<Spelt(n).rest>> ELSE <<>>)

(* A group of four digits and its name; format_amount takes 10^8, 10^4, and the rest. *)
Group(n, name) ==
  IF n = 0 THEN <<>> ELSE IF n = 1 THEN <<name>> ELSE Append(KoreanNumber(n), name)

ReadWhole(n) == KoreanNumber(n)   \* mutant of FormatAmount
FormatAmount(n) ==
  IF n = 0 THEN <<0>>
  ELSE Group(n \div 100000000, 100000000) \o Group((n % 100000000) \div 10000, 10000)
         \o (IF n % 10000 = 0 THEN <<>> ELSE KoreanNumber(n % 10000))

(* int(value) *)
Amount ==
  LET value[i \in 0..Len(keyed)] == IF i = 0 THEN 0 ELSE 10 * value[i - 1] + keyed[i]
  IN value[Len(keyed)]

(* What a listener understands: a small unit multiplies the digit before it, a   *)
(* large one everything since the last large one; nothing before it means one.   *)
OneAtLeast(n) == IF n = 0 THEN 1 ELSE n
Hear(h, w) ==
  IF w < 10 THEN [h EXCEPT !.digit = w]
  ELSE IF w < 10000 THEN [h EXCEPT !.group = @ + OneAtLeast(h.digit) * w, !.digit = 0]
  ELSE [sum |-> h.sum + OneAtLeast(h.group + h.digit) * w, group |-> 0, digit |-> 0]
Silence == [sum |-> 0, group |-> 0, digit |-> 0]
Heard(words) ==
  LET heard[i \in 0..Len(words)] == IF i = 0 THEN Silence ELSE Hear(heard[i - 1], words[i])
  IN heard[Len(words)]
Understood(words) == Heard(words).sum + Heard(words).group + Heard(words).digit

(* format_amount (tts_engine.py:157): a listener understands the amount that was  *)
(* given, with zeros, ones that are not said, and empty groups in every position.*)
AmountReads ==
  /\ IndexError \notin ToSet(FormatAmount(Amount))
  /\ Understood(FormatAmount(Amount)) = Amount

(* korean_number: "정수를 한국어 숫자 읽기로 변환한다 (만, 억 단위 포함)"               *)
(* (tts_engine.py:124): it reads any integer by itself.                           *)
NumberReads == IndexError \notin ToSet(KoreanNumber(Amount))
=============================================================================
