------------------------------- MODULE Masking -------------------------------
(***************************************************************************)
(* MaskingModule (nlu/masking_module.py): a customer's data is replaced by *)
(* one token per field before a text goes to the language model, and put   *)
(* back into its answer.  Texts and values are sequences over a small      *)
(* alphabet, which lets values overlap, repeat and contain each other.     *)
(***************************************************************************)
EXTENDS Naturals, SequencesExt

CONSTANTS
  Letters,
  Fields,     \* in the order of _MASKING_FIELDS: the first takes precedence
  MaxText,    \* bound: length of a text
  MaxValue    \* bound: length of a value

ASSUME MaskingAssumption ==
  /\ MaxText \in Nat /\ MaxValue \in Nat
  /\ Fields \in Seq(Range(Fields)) /\ IsInjective(Fields) /\ Letters \cap Range(Fields) = {}

VARIABLES
  customer,   \* CustomerInfo: the value of each field
  text        \* what the customer said
maskVars == <<customer, text>>

FieldNames == ToSet(Fields)
Values     == SeqOf(Letters, MaxValue)

MaskingTypeOK == customer \in [FieldNames -> Values] /\ text \in SeqOf(Letters, MaxText)

MaskInit == customer \in [FieldNames -> Values] /\ text = <<>>
Say == Len(text) < MaxText /\ \E l \in Letters : text' = Append(text, l) /\ UNCHANGED customer
MaskSpec == MaskInit /\ [][Say]_maskVars

(* str.find from s on: the places where v stands in t; 0 if there is none *)
StandsAt(t, v, p) == p + Len(v) - 1 <= Len(t) /\ SubSeq(t, p, p + Len(v) - 1) = v
Find(t, v, s) ==
  LET places == {p \in s..Len(t) : StandsAt(t, v, p)} IN IF places = {} THEN 0 ELSE Min(places)

(* The search goes on behind each find, also behind one that is given up because *)
(* it overlaps what an earlier field has claimed as a replacement [from, to).     *)
Finds(t, v) ==
  LET from[s \in Nat] == LET p == Find(t, v, s) IN IF p = 0 THEN {} ELSE {p} \cup from[p + Len(v)]
  IN from[1]

NeverOverlaps(a, R) == FALSE   \* mutant of Overlaps
Overlaps(a, R) == \E r \in R : ~(a.to <= r.from \/ a.from >= r.to)

Claim(t, f, v, R) ==
  R \cup {a \in {[from |-> p, to |-> p + Len(v), field |-> f] : p \in Finds(t, v)} : ~Overlaps(a, R)}

Replacements(t) ==
  LET upTo[i \in 0..Len(Fields)] ==
        IF i = 0 THEN {}
        ELSE IF customer[Fields[i]] = <<>> THEN upTo[i - 1]
        ELSE Claim(t, Fields[i], customer[Fields[i]], upTo[i - 1])
  IN upTo[Len(Fields)]

(* mask: the text with a token for each replacement, and token_mapping's tokens *)
Piece(t, R, i) ==
  IF \E r \in R : r.from = i THEN <<(CHOOSE r \in R : r.from = i).field>>
  ELSE IF \E r \in R : r.from < i /\ i < r.to THEN <<>> ELSE <<t[i]>>
Mask(t) ==
  LET R == Replacements(t)
  IN [masked |-> FlattenSeq([i \in DOMAIN t |-> Piece(t, R, i)]), tokens |-> {r.field : r \in R}]

(* restore: every token of the mapping, or a canned answer *)
Fallback == <<"sorry">>
Unmasked(x, tokens) == IF x \in tokens THEN customer[x] ELSE <<x>>
Restore(answer, tokens) ==
  IF tokens \subseteq ToSet(answer)
  THEN FlattenSeq([i \in DOMAIN answer |-> Unmasked(answer[i], tokens)])
  ELSE Fallback

(* The assertion at the end of mask (masking_module.py:145) and the purpose of    *)
(* restore: an answer that repeats the masked text reads as the customer's own    *)
(* words again, however values repeat, overlap or contain each other.             *)
MaskRestores == LET m == Mask(text) IN Restore(m.masked, m.tokens) = text

(* "개인정보를 마스킹 토큰으로 대체한다" (masking_module.py:77): no value of the          *)
(* customer's is left in what goes to the model.                                  *)
NothingLeft == \A f \in FieldNames :
  customer[f] # <<>> => Find(Mask(text).masked, customer[f], 1) = 0
=============================================================================
