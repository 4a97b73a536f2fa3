-------------------------------- MODULE Lemmas --------------------------------
(***************************************************************************)
(* What the proofs about the components keep needing: induction over the   *)
(* natural numbers, functions given by recursion, and sequences.           *)
(*                                                                         *)
(* The theorems of NaturalsInduction speak of a predicate, which is a      *)
(* parameter no back end can instantiate.  Here induction is stated for a  *)
(* set of numbers and recursion for a function, and both come from the     *)
(* well-foundedness of <.                                                  *)
(***************************************************************************)
EXTENDS Naturals, SequencesExt, SequenceTheorems, WellFoundedInduction, TLAPS

(* A set of numbers that is not empty has a least element. *)
LEMMA LeastNumber ==
  ASSUME NEW T \in SUBSET Nat, T # {}
  PROVE  \E m \in T : \A k \in T : m <= k
<1> DEFINE R == {ss \in Nat \X Nat : ss[1] < ss[2]}
<1>1. IsWellFoundedOn(R, Nat)
  BY NatLessThanWellFounded DEF OpToRel
<1>2. \E x \in T : \A y \in T : <<y, x>> \notin R
  <2> HIDE DEF R
  <2> QED BY <1>1, WFMin
<1>3. \A x, y \in Nat : <<y, x>> \notin R => x <= y
  OBVIOUS
<1> QED BY <1>2, <1>3

(* A set that holds zero and with each number the next holds all of them. *)
LEMMA SetInduction ==
  ASSUME NEW T \in SUBSET Nat, 0 \in T, \A n \in T : n + 1 \in T
  PROVE  T = Nat
<1> SUFFICES ASSUME T # Nat PROVE FALSE
  OBVIOUS
<1>1. PICK m \in Nat \ T : \A k \in Nat \ T : m <= k
  BY LeastNumber
<1>2. m - 1 \in Nat /\ m - 1 \in T
  BY <1>1
<1> QED BY <1>1, <1>2

(* A function on the natural numbers may be given by its value at zero and a rule *)
(* that goes from each number to the next.                                        *)
Follows(g, a, step) == g[0] = a /\ \A n \in Nat : g[n + 1] = step[n][g[n]]

LEMMA Recursion ==
  ASSUME NEW S, NEW a \in S, NEW step \in [Nat -> [S -> S]]
  PROVE  \E g \in [Nat -> S] : Follows(g, a, step)
<1> DEFINE Upto(n) == {g \in [0..n -> S] :
                         g[0] = a /\ \A i \in Nat : i < n => g[i + 1] = step[i][g[i]]}
           T == {n \in Nat : Upto(n) # {}}
<1>1. T = Nat
  <2>1. 0 \in T
    <3>1. [i \in 0..0 |-> a] \in Upto(0)
      OBVIOUS
    <3> QED BY <3>1
  <2>2. ASSUME NEW n \in T PROVE n + 1 \in T
    <3>1. PICK g \in Upto(n) : TRUE
      OBVIOUS
    <3> DEFINE h == [i \in 0..(n + 1) |-> IF i = n + 1 THEN step[n][g[n]] ELSE g[i]]
    <3>2. h \in [0..(n + 1) -> S] /\ h[0] = a
      BY <3>1
    <3>3. ASSUME NEW i \in Nat, i < n + 1 PROVE h[i + 1] = step[i][h[i]]
      BY <3>1, <3>3
    <3> HIDE DEF h
    <3>4. h \in Upto(n + 1)
      BY <3>2, <3>3
    <3>5. n + 1 \in Nat
      OBVIOUS
    <3> QED BY <3>4, <3>5
  <2> HIDE DEF T
  <2> QED BY <2>1, <2>2, SetInduction DEF T
<1>2. ASSUME NEW m \in Nat, NEW n \in Nat, NEW g \in Upto(m), NEW h \in Upto(n)
      PROVE  \A i \in Nat : i <= m /\ i <= n => g[i] = h[i]
  <2> DEFINE V == {i \in Nat : i <= m /\ i <= n => g[i] = h[i]}
  <2>1. 0 \in V
    OBVIOUS
  <2>2. \A i \in V : i + 1 \in V
    OBVIOUS
  <2> HIDE DEF V
  <2>3. V = Nat
    BY <2>1, <2>2, SetInduction DEF V
  <2> QED BY <2>3 DEF V
<1> DEFINE G(n) == CHOOSE g \in Upto(n) : TRUE
           f == [n \in Nat |-> G(n)[n]]
<1>3. \A n \in Nat : G(n) \in Upto(n)
  BY <1>1
<1> HIDE DEF G, T
<1>4. f \in [Nat -> S] /\ f[0] = a
  BY <1>3
<1>5. ASSUME NEW n \in Nat PROVE f[n + 1] = step[n][f[n]]
  <2>1. f[n + 1] = G(n + 1)[n + 1] /\ f[n] = G(n)[n]
    OBVIOUS
  <2>2. G(n + 1)[n] = G(n)[n]
    <3> HIDE DEF Upto
    <3>1. n + 1 \in Nat /\ G(n + 1) \in Upto(n + 1) /\ G(n) \in Upto(n)
      BY <1>3
    <3>2. n <= n + 1 /\ n <= n
      OBVIOUS
    <3> QED BY <1>2, <3>1, <3>2
  <2> QED BY <1>3, <2>1, <2>2
<1> QED BY <1>4, <1>5 DEF Follows

(* A function may be given by a rule for each element of its domain that looks back,  *)
(* at the function for smaller elements only.                                         *)
LooksBack(D, S, size, step) == \A d \in D : \A f, g \in [D -> S] :
  (\A e \in D : size[e] < size[d] => f[e] = g[e]) => step[d][f] = step[d][g]
Obeys(f, D, step) == \A d \in D : f[d] = step[d][f]

LEMMA MeasureRecursion ==
  ASSUME NEW D, NEW S, S # {}, NEW size \in [D -> Nat], NEW step \in [D -> [[D -> S] -> S]],
         LooksBack(D, S, size, step)
  PROVE  \E f \in [D -> S] : Obeys(f, D, step)
<1>0. \A d \in D : \A f, g \in [D -> S] :
        (\A e \in D : size[e] < size[d] => f[e] = g[e]) => step[d][f] = step[d][g]
  BY DEF LooksBack
<1> DEFINE F    == [D -> S]
           next == [n \in Nat |-> [f \in F |-> [d \in D |-> step[d][f]]]]
<1>1. PICK a \in F : TRUE
  <2>1. PICK s \in S : TRUE
    OBVIOUS
  <2>2. [d \in D |-> s] \in F
    OBVIOUS
  <2> QED BY <2>2
<1>2. next \in [Nat -> [F -> F]]
  OBVIOUS
<1>3. PICK g \in [Nat -> F] : Follows(g, a, next)
  <2> HIDE DEF F, next
  <2> QED BY <1>2, Recursion, Zenon
<1>4. \A n \in Nat : g[n] \in F /\ g[n + 1] = [d \in D |-> step[d][g[n]]]
  BY <1>3 DEF Follows
<1>5. \A n \in Nat : \A d \in D : g[n + 1][d] = step[d][g[n]]
  <2> SUFFICES ASSUME NEW n \in Nat, NEW d \in D PROVE g[n + 1][d] = step[d][g[n]]
    OBVIOUS
  <2>1. g[n + 1] = [e \in D |-> step[e][g[n]]]
    BY <1>4, Zenon
  <2> QED BY <2>1, Zenon
<1> HIDE DEF next
<1> DEFINE T == {n \in Nat : \A d \in D : size[d] < n => g[n][d] = g[n + 1][d]}
<1>6. T = Nat
  <2>1. 0 \in T
    OBVIOUS
  <2>2. ASSUME NEW n \in T PROVE n + 1 \in T
    <3>1. ASSUME NEW d \in D, size[d] < n + 1 PROVE g[n + 1][d] = g[(n + 1) + 1][d]
      <4>1. \A e \in D : size[e] < size[d] => g[n][e] = g[n + 1][e]
        <5> SUFFICES ASSUME NEW e \in D, size[e] < size[d] PROVE size[e] < n
          OBVIOUS
        <5>1. size[e] \in Nat /\ size[d] \in Nat /\ n \in Nat
          OBVIOUS
        <5> QED BY <3>1, <5>1
      <4>2. step[d][g[n]] = step[d][g[n + 1]]
        <5>1. n \in Nat /\ n + 1 \in Nat
          OBVIOUS
        <5>2. g[n] \in [D -> S] /\ g[n + 1] \in [D -> S]
          BY <1>4, <5>1, Zenon
        <5> QED BY <1>0, <4>1, <5>2, Zenon
      <4> QED BY <1>5, <4>2
    <3> QED BY <3>1
  <2> HIDE DEF T
  <2> QED BY <2>1, <2>2, SetInduction DEF T
<1>7. \A n \in Nat : \A d \in D : size[d] < n => g[n][d] = g[n + 1][d]
  BY <1>6
<1> HIDE DEF T
<1> DEFINE U == {k \in Nat : \A d \in D : g[size[d] + 1][d] = g[size[d] + 1 + k][d]}
<1>8. U = Nat
  <2>1. 0 \in U
    OBVIOUS
  <2>2. ASSUME NEW k \in U PROVE k + 1 \in U
    <3>1. ASSUME NEW d \in D PROVE g[size[d] + 1][d] = g[size[d] + 1 + (k + 1)][d]
      <4>1. PICK m \in Nat : m = size[d] + 1 + k /\ size[d] < m /\ m + 1 = size[d] + 1 + (k + 1)
        OBVIOUS
      <4> QED BY <1>7, <4>1
    <3> QED BY <3>1
  <2> HIDE DEF U
  <2> QED BY <2>1, <2>2, SetInduction DEF U
<1> DEFINE f == [d \in D |-> g[size[d] + 1][d]]
<1>9. f \in F
  BY <1>4
<1>10. ASSUME NEW d \in D PROVE f[d] = step[d][f]
  <2>1. \A e \in D : size[e] < size[d] => f[e] = g[size[d]][e]
    <3> SUFFICES ASSUME NEW e \in D, size[e] < size[d] PROVE f[e] = g[size[d]][e]
      OBVIOUS
    <3>1. PICK k \in Nat : size[d] = size[e] + 1 + k
      <4>1. size[d] - (size[e] + 1) \in Nat /\ size[d] = size[e] + 1 + (size[d] - (size[e] + 1))
        OBVIOUS
      <4> QED BY <4>1
    <3> QED BY <1>8, <3>1
  <2>2. size[d] \in Nat /\ g[size[d]] \in F
    BY <1>4
  <2>3. f[d] = step[d][g[size[d]]]
    BY <1>5, <2>2
  <2> HIDE DEF f
  <2>4. step[d][f] = step[d][g[size[d]]]
    BY <1>0, <1>9, <2>1, <2>2
  <2> QED BY <2>3, <2>4
<1> HIDE DEF f
<1> QED BY <1>9, <1>10 DEF Obeys

-------------------------------------------------------------------------------
(* Sequences                                                                 *)

LEMMA MinOfNats ==
  ASSUME NEW T \in SUBSET Nat, T # {}
  PROVE  Min(T) \in T /\ \A k \in T : Min(T) <= k
BY LeastNumber, Zenon DEF Min

(* The sequences of at most n elements of a set. *)
LEMMA BoundedSeqs ==
  ASSUME NEW S, NEW n \in Nat
  PROVE  SeqOf(S, n) = {s \in Seq(S) : Len(s) <= n}
<1>1. SUFFICES ASSUME NEW s
      PROVE  s \in SeqOf(S, n) <=> s \in Seq(S) /\ Len(s) <= n
  OBVIOUS
<1>2. s \in SeqOf(S, n) <=> \E m \in 0..n : s \in [1..m -> S]
  BY DEF SeqOf
<1>3. s \in Seq(S) <=> \E m \in Nat : s \in [1..m -> S]
  BY SeqDef
<1>4. \A m \in Nat : s \in [1..m -> S] => Len(s) = m
  BY <1>3
<1> QED BY <1>2, <1>3, <1>4

LEMMA EmptyBounded ==
  ASSUME NEW S, NEW n \in Nat
  PROVE  <<>> \in SeqOf(S, n)
<1>1. <<>> \in Seq(S) /\ Len(<<>>) <= n
  OBVIOUS
<1> QED BY <1>1, BoundedSeqs

LEMMA AppendBounded ==
  ASSUME NEW S, NEW n \in Nat, NEW s \in SeqOf(S, n), Len(s) < n, NEW e \in S
  PROVE  Append(s, e) \in SeqOf(S, n)
<1>1. SeqOf(S, n) = {q \in Seq(S) : Len(q) <= n}
  BY BoundedSeqs
<1>2. s \in Seq(S) /\ Len(s) + 1 <= n
  BY <1>1
<1>3. Append(s, e) \in Seq(S) /\ Len(Append(s, e)) <= n
  BY <1>2
<1> QED BY <1>1, <1>3

(* f[i] is the first i sequences of ss, one after the other. *)
Joins(f, ss) == \A i \in 1..Len(ss) : f[i] = IF i = 1 THEN ss[i] ELSE f[i - 1] \o ss[i]

LEMMA JoinsExists ==
  ASSUME NEW S, NEW ss \in Seq(Seq(S)), ss # <<>>
  PROVE  \E f \in [1..Len(ss) -> Seq(S)] : Joins(f, ss)
<1>1. PICK n \in Nat : n = Len(ss) /\ n > 0
  OBVIOUS
<1> DEFINE step == [k \in Nat |-> [s \in Seq(S) |-> IF k + 2 <= n THEN s \o ss[k + 2] ELSE s]]
<1>2. ss[1] \in Seq(S)
  BY <1>1
<1>3. step \in [Nat -> [Seq(S) -> Seq(S)]]
  <2> SUFFICES ASSUME NEW k \in Nat, NEW s \in Seq(S)
               PROVE  (IF k + 2 <= n THEN s \o ss[k + 2] ELSE s) \in Seq(S)
    OBVIOUS
  <2>1. CASE k + 2 <= n
    <3>1. k + 2 \in 1..Len(ss)
      BY <1>1, <2>1
    <3>2. ss[k + 2] \in Seq(S)
      BY <3>1
    <3> QED BY <2>1, <3>2
  <2> QED BY <2>1
<1>4. PICK g \in [Nat -> Seq(S)] : Follows(g, ss[1], step)
  <2> HIDE DEF step
  <2> QED BY <1>2, <1>3, Recursion, Zenon
<1>5. g[0] = ss[1] /\ \A k \in Nat : g[k + 1] = IF k + 2 <= n THEN g[k] \o ss[k + 2] ELSE g[k]
  BY <1>4 DEF Follows
<1> DEFINE f == [i \in 1..n |-> g[i - 1]]
<1>6. f \in [1..n -> Seq(S)]
  BY <1>4
<1>7. ASSUME NEW i \in 1..n PROVE f[i] = IF i = 1 THEN ss[i] ELSE f[i - 1] \o ss[i]
  <2>1. CASE i = 1
    BY <1>5, <2>1
  <2>2. CASE i # 1
    <3>1. PICK k \in Nat : i = k + 2
      <4>1. i - 2 \in Nat /\ i = (i - 2) + 2
        BY <2>2
      <4> QED BY <4>1
    <3>2. k + 2 <= n /\ i - 1 \in 1..n /\ i - 1 = k + 1 /\ (i - 1) - 1 = k
      BY <3>1
    <3>3. g[k + 1] = g[k] \o ss[i]
      BY <1>5, <3>1, <3>2
    <3> QED BY <2>2, <3>2, <3>3
  <2> QED BY <2>1, <2>2
<1> QED BY <1>1, <1>6, <1>7 DEF Joins

LEMMA JoinsIs ==
  ASSUME NEW S, NEW ss \in Seq(Seq(S)), NEW f, Joins(f, ss)
  PROVE  \A i \in 1..Len(ss) : f[i] \in Seq(S)
<1> DEFINE T == {i \in Nat : i + 1 <= Len(ss) => f[i + 1] \in Seq(S)}
<1>1. 0 \in T
  BY DEF Joins
<1>2. ASSUME NEW i \in T PROVE i + 1 \in T
  <2> SUFFICES ASSUME (i + 1) + 1 <= Len(ss) PROVE f[(i + 1) + 1] \in Seq(S)
    OBVIOUS
  <2>1. (i + 1) + 1 \in 1..Len(ss) /\ (i + 1) + 1 # 1 /\ ((i + 1) + 1) - 1 = i + 1 /\ i + 1 <= Len(ss)
    OBVIOUS
  <2>2. f[(i + 1) + 1] = f[i + 1] \o ss[(i + 1) + 1]
    BY <2>1 DEF Joins
  <2>3. f[i + 1] \in Seq(S) /\ ss[(i + 1) + 1] \in Seq(S)
    BY <2>1
  <2> QED BY <2>2, <2>3
<1> HIDE DEF T
<1>3. T = Nat
  BY <1>1, <1>2, SetInduction DEF T
<1> QED
  <2> SUFFICES ASSUME NEW i \in 1..Len(ss) PROVE f[i] \in Seq(S)
    OBVIOUS
  <2>1. i - 1 \in T /\ (i - 1) + 1 = i
    BY <1>3
  <2> QED BY <2>1 DEF T

LEMMA FlattenIs ==
  ASSUME NEW S, NEW ss \in Seq(Seq(S))
  PROVE  /\ ss = <<>> => FlattenSeq(ss) = <<>>
         /\ ss # <<>> => \E f \in [1..Len(ss) -> Seq(S)] : Joins(f, ss) /\ FlattenSeq(ss) = f[Len(ss)]
<1>1. CASE ss = <<>>
  BY <1>1 DEF FlattenSeq
<1>2. CASE ss # <<>>
  <2> DEFINE Def(f) == f = [i \in 1..Len(ss) |-> IF i = 1 THEN ss[i] ELSE f[i - 1] \o ss[i]]
  <2>1. PICK h \in [1..Len(ss) -> Seq(S)] : Joins(h, ss)
    BY <1>2, JoinsExists
  <2>2. Def(h)
    BY <2>1 DEF Joins
  <2>3. PICK f : f = CHOOSE q : Def(q)
    OBVIOUS
  <2>4. FlattenSeq(ss) = f[Len(ss)]
    <3>1. Len(ss) # 0
      BY <1>2
    <3> QED BY <2>3, <3>1, Zenon DEF FlattenSeq
  <2>5. Def(f)
    <3> HIDE DEF Def
    <3> QED BY <2>2, <2>3, Zenon
  <2>6. Joins(f, ss) /\ DOMAIN f = 1..Len(ss)
    <3>1. \A i \in 1..Len(ss) : f[i] = IF i = 1 THEN ss[i] ELSE f[i - 1] \o ss[i]
      BY <2>5, Zenon
    <3>2. DOMAIN f = 1..Len(ss)
      BY <2>5, Zenon
    <3> QED BY <3>1, <3>2, Zenon DEF Joins
  <2>7. \A i \in 1..Len(ss) : f[i] \in Seq(S)
    BY <2>6, JoinsIs, Zenon
  <2>8. f = [i \in 1..Len(ss) |-> f[i]]
    BY <2>5
  <2>9. f \in [1..Len(ss) -> Seq(S)]
    BY <2>7, <2>8
  <2> QED BY <1>2, <2>4, <2>6, <2>9, Zenon
<1> QED BY <1>1, <1>2

LEMMA FlattenType ==
  ASSUME NEW S, NEW ss \in Seq(Seq(S))
  PROVE  FlattenSeq(ss) \in Seq(S)
<1>1. CASE ss = <<>>
  <2>1. FlattenSeq(ss) = <<>>
    BY <1>1, FlattenIs, Zenon
  <2> QED BY <2>1
<1>2. CASE ss # <<>>
  <2>1. PICK f \in [1..Len(ss) -> Seq(S)] : FlattenSeq(ss) = f[Len(ss)]
    BY <1>2, FlattenIs, Zenon
  <2>2. Len(ss) \in 1..Len(ss)
    BY <1>2
  <2> QED BY <2>1, <2>2
<1> QED BY <1>1, <1>2

LEMMA FlattenAppend ==
  ASSUME NEW S, NEW ss \in Seq(Seq(S)), NEW s \in Seq(S)
  PROVE  FlattenSeq(Append(ss, s)) = FlattenSeq(ss) \o s
<1>1. PICK tt : tt = Append(ss, s)
  OBVIOUS
<1>2. /\ tt \in Seq(Seq(S)) /\ Len(tt) = Len(ss) + 1 /\ tt # <<>> /\ tt[Len(ss) + 1] = s
      /\ \A i \in 1..Len(ss) : tt[i] = ss[i]
  <2>1. PICK Q : Q = Seq(S)
    OBVIOUS
  <2>2. ss \in Seq(Q) /\ s \in Q
    BY <2>1
  <2>3. /\ tt \in Seq(Q) /\ tt # <<>> /\ Len(tt) = Len(ss) + 1
        /\ \A i \in 1..Len(ss) : tt[i] = ss[i]
        /\ tt[Len(ss) + 1] = s
    BY <1>1, <2>2, AppendProperties
  <2> QED BY <2>1, <2>3
<1>3. PICK g \in [1..Len(tt) -> Seq(S)] : Joins(g, tt) /\ FlattenSeq(tt) = g[Len(tt)]
  BY <1>2, FlattenIs, Zenon
<1>4. Len(tt) \in 1..Len(tt) /\ Len(tt) = Len(ss) + 1
  BY <1>2
<1>5. CASE ss = <<>>
  <2>1. FlattenSeq(tt) = s
    BY <1>2, <1>3, <1>4, <1>5 DEF Joins
  <2>2. FlattenSeq(ss) = <<>>
    BY <1>5, FlattenIs, Zenon
  <2> QED BY <1>1, <2>1, <2>2
<1>6. CASE ss # <<>>
  <2>1. PICK f \in [1..Len(ss) -> Seq(S)] : Joins(f, ss) /\ FlattenSeq(ss) = f[Len(ss)]
    BY <1>6, FlattenIs, Zenon
  <2>2. Len(ss) \in 1..Len(ss) /\ Len(ss) + 1 # 1 /\ (Len(ss) + 1) - 1 = Len(ss) /\ Len(ss) <= Len(tt)
    BY <1>2, <1>6
  <2>3. f[Len(ss)] = g[Len(ss)]
    <3> DEFINE T == {i \in Nat : i + 1 <= Len(ss) => f[i + 1] = g[i + 1]}
    <3>1. 0 \in T
      <4>1. 1 \in 1..Len(ss) /\ 1 \in 1..Len(tt) /\ 0 + 1 = 1
        BY <1>2, <1>6
      <4>2. f[1] = ss[1] /\ g[1] = tt[1]
        BY <1>3, <2>1, <4>1 DEF Joins
      <4> QED BY <1>2, <4>1, <4>2
    <3>2. ASSUME NEW i \in T PROVE i + 1 \in T
      <4> SUFFICES ASSUME (i + 1) + 1 <= Len(ss) PROVE f[(i + 1) + 1] = g[(i + 1) + 1]
        OBVIOUS
      <4>1. (i + 1) + 1 \in 1..Len(ss) /\ (i + 1) + 1 \in 1..Len(tt) /\ (i + 1) + 1 # 1
            /\ ((i + 1) + 1) - 1 = i + 1 /\ i + 1 <= Len(ss)
        BY <1>2
      <4>2. f[(i + 1) + 1] = f[i + 1] \o ss[(i + 1) + 1] /\ g[(i + 1) + 1] = g[i + 1] \o tt[(i + 1) + 1]
        BY <1>3, <2>1, <4>1 DEF Joins
      <4> QED BY <1>2, <4>1, <4>2
    <3> HIDE DEF T
    <3>3. T = Nat
      BY <3>1, <3>2, SetInduction DEF T
    <3>4. Len(ss) - 1 \in T /\ (Len(ss) - 1) + 1 = Len(ss)
      BY <2>2, <3>3
    <3> QED BY <3>4 DEF T
  <2>4. g[Len(tt)] = g[Len(ss)] \o s
    BY <1>2, <1>3, <1>4, <2>2 DEF Joins
  <2> QED BY <1>1, <1>3, <2>1, <2>3, <2>4
<1> QED BY <1>5, <1>6

LEMMA FlattenOne ==
  ASSUME NEW S, NEW s \in Seq(S)
  PROVE  FlattenSeq(<<s>>) = s
<1>1. <<>> \in Seq(Seq(S)) /\ Append(<<>>, s) = <<s>>
  OBVIOUS
<1>2. FlattenSeq(<<s>>) = FlattenSeq(<<>>) \o s
  BY <1>1, FlattenAppend, Zenon
<1>3. FlattenSeq(<<>>) = <<>>
  BY <1>1, FlattenIs, Zenon
<1> QED BY <1>2, <1>3

LEMMA FlattenConcat ==
  ASSUME NEW S, NEW ss \in Seq(Seq(S)), NEW tt \in Seq(Seq(S))
  PROVE  FlattenSeq(ss \o tt) = FlattenSeq(ss) \o FlattenSeq(tt)
<1>0. \A a, b, c \in Seq(S) : (a \o b) \o c = a \o (b \o c)
  OBVIOUS
<1> DEFINE Q(u) == FlattenSeq(ss \o u) = FlattenSeq(ss) \o FlattenSeq(u)
           T == {n \in Nat : \A u \in Seq(Seq(S)) : Len(u) = n => Q(u)}
<1>1. 0 \in T
  <2> SUFFICES ASSUME NEW u \in Seq(Seq(S)), Len(u) = 0 PROVE Q(u)
    OBVIOUS
  <2>1. u = <<>> /\ ss \o u = ss
    OBVIOUS
  <2>2. FlattenSeq(u) = <<>> /\ FlattenSeq(ss) \in Seq(S)
    BY <2>1, FlattenIs, FlattenType, Zenon
  <2>3. FlattenSeq(ss) \o FlattenSeq(u) = FlattenSeq(ss)
    BY <2>2
  <2> QED BY <2>1, <2>3
<1>2. ASSUME NEW n \in T PROVE n + 1 \in T
  <2> SUFFICES ASSUME NEW u \in Seq(Seq(S)), Len(u) = n + 1 PROVE Q(u)
    OBVIOUS
  <2>1. PICK v \in Seq(Seq(S)), s \in Seq(S) : u = Append(v, s) /\ Len(v) = n
    <3>1. /\ SubSeq(u, 1, n) \in Seq(Seq(S)) /\ u[n + 1] \in Seq(S) /\ Len(SubSeq(u, 1, n)) = n
          /\ u = Append(SubSeq(u, 1, n), u[n + 1])
      OBVIOUS
    <3> QED BY <3>1
  <2>2. FlattenSeq(ss \o v) = FlattenSeq(ss) \o FlattenSeq(v)
    BY <2>1
  <2>3. ss \o u = Append(ss \o v, s) /\ ss \o v \in Seq(Seq(S))
    BY <2>1
  <2>4. FlattenSeq(ss \o u) = FlattenSeq(ss \o v) \o s
    BY <2>3, FlattenAppend, Zenon
  <2>5. FlattenSeq(u) = FlattenSeq(v) \o s
    BY <2>1, FlattenAppend, Zenon
  <2>6. FlattenSeq(ss) \in Seq(S) /\ FlattenSeq(v) \in Seq(S)
    BY <2>1, FlattenType, Zenon
  <2>7. (FlattenSeq(ss) \o FlattenSeq(v)) \o s = FlattenSeq(ss) \o (FlattenSeq(v) \o s)
    <3>1. s \in Seq(S)
      BY <2>1
    <3> QED BY <1>0, <2>6, <3>1, Zenon
  <2> QED BY <2>2, <2>4, <2>5, <2>7
<1> HIDE DEF T
<1>3. T = Nat
  BY <1>1, <1>2, SetInduction DEF T
<1>4. Len(tt) \in T
  BY <1>3
<1> QED BY <1>4 DEF T

LEMMA FlattenEmpties ==
  ASSUME NEW S, NEW ss \in Seq(Seq(S)), \A i \in 1..Len(ss) : ss[i] = <<>>
  PROVE  FlattenSeq(ss) = <<>>
<1>1. CASE ss = <<>>
  BY <1>1, FlattenIs, Zenon
<1>2. CASE ss # <<>>
  <2>1. PICK f \in [1..Len(ss) -> Seq(S)] : Joins(f, ss) /\ FlattenSeq(ss) = f[Len(ss)]
    BY <1>2, FlattenIs, Zenon
  <2> DEFINE T == {i \in Nat : i + 1 <= Len(ss) => f[i + 1] = <<>>}
  <2>2. 0 \in T
    <3>1. 1 \in 1..Len(ss) /\ 0 + 1 = 1
      BY <1>2
    <3>2. f[1] = ss[1]
      BY <2>1, <3>1 DEF Joins
    <3> QED BY <3>1, <3>2
  <2>3. ASSUME NEW i \in T PROVE i + 1 \in T
    <3> SUFFICES ASSUME (i + 1) + 1 <= Len(ss) PROVE f[(i + 1) + 1] = <<>>
      OBVIOUS
    <3>1. (i + 1) + 1 \in 1..Len(ss) /\ (i + 1) + 1 # 1 /\ ((i + 1) + 1) - 1 = i + 1 /\ i + 1 <= Len(ss)
      OBVIOUS
    <3>2. f[(i + 1) + 1] = f[i + 1] \o ss[(i + 1) + 1]
      BY <2>1, <3>1 DEF Joins
    <3>3. f[i + 1] = <<>> /\ ss[(i + 1) + 1] = <<>>
      BY <3>1
    <3> QED BY <3>2, <3>3
  <2> HIDE DEF T
  <2>4. T = Nat
    BY <2>2, <2>3, SetInduction DEF T
  <2>5. Len(ss) - 1 \in T /\ (Len(ss) - 1) + 1 = Len(ss)
    BY <1>2, <2>4
  <2> QED BY <2>1, <2>5 DEF T
<1> QED BY <1>1, <1>2

LEMMA MaxOfNats ==
  ASSUME NEW n \in Nat, NEW T \in SUBSET (0..n), T # {}
  PROVE  Max(T) \in T /\ \A k \in T : k <= Max(T)
<1> DEFINE U == {n - k : k \in T}
<1>1. U \in SUBSET Nat /\ U # {}
  <2>1. \A k \in T : n - k \in Nat
    OBVIOUS
  <2> QED BY <2>1
<1> HIDE DEF U
<1>2. PICK m \in U : \A k \in U : m <= k
  BY <1>1, LeastNumber, Zenon
<1>3. PICK x \in T : m = n - x
  BY DEF U
<1>4. \A k \in T : k <= x
  <2> SUFFICES ASSUME NEW k \in T PROVE k <= x
    OBVIOUS
  <2>1. n - k \in U
    BY DEF U
  <2>2. n - x <= n - k /\ n \in Nat /\ k \in Nat /\ x \in Nat
    BY <1>2, <1>3, <2>1
  <2> QED BY <2>2
<1> QED BY <1>4, Zenon DEF Max

-------------------------------------------------------------------------------
(* Functions on 0..n, each value from the one before                         *)

Steps(f, n, a, step) == f[0] = a /\ \A i \in 1..n : f[i] = step[i][f[i - 1]]

LEMMA StepsExist ==
  ASSUME NEW S, NEW n \in Nat, NEW a \in S, NEW step \in [1..n -> [S -> S]]
  PROVE  \E f \in [0..n -> S] : Steps(f, n, a, step)
<1> DEFINE next == [k \in Nat |-> IF k + 1 \in 1..n THEN step[k + 1] ELSE [x \in S |-> x]]
<1>1. next \in [Nat -> [S -> S]]
  <2>1. [x \in S |-> x] \in [S -> S]
    OBVIOUS
  <2>2. \A k \in Nat : (IF k + 1 \in 1..n THEN step[k + 1] ELSE [x \in S |-> x]) \in [S -> S]
    BY <2>1, Zenon
  <2> QED BY <2>2, Zenon
<1>2. PICK g \in [Nat -> S] : Follows(g, a, next)
  <2> HIDE DEF next
  <2> QED BY <1>1, Recursion, Zenon
<1>3. \A i \in 1..n : i - 1 \in Nat /\ (i - 1) + 1 = i /\ i \in 0..n /\ i - 1 \in 0..n
  OBVIOUS
<1>4. ASSUME NEW i \in 1..n PROVE g[i] = step[i][g[i - 1]]
  <2>1. g[(i - 1) + 1] = next[i - 1][g[i - 1]]
    BY <1>2, <1>3, Zenon DEF Follows
  <2>2. next[i - 1] = step[i]
    BY <1>3, Zenon
  <2> QED BY <1>3, <2>1, <2>2
<1> DEFINE f == [i \in 0..n |-> g[i]]
<1>5. f \in [0..n -> S]
  OBVIOUS
<1>6. f[0] = a
  <2>1. 0 \in 0..n
    OBVIOUS
  <2> QED BY <1>2, <2>1, Zenon DEF Follows
<1>7. \A i \in 1..n : f[i] = g[i] /\ f[i - 1] = g[i - 1]
  BY <1>3, Zenon
<1>8. \A i \in 1..n : f[i] = step[i][f[i - 1]]
  <2> HIDE DEF f
  <2> QED BY <1>4, <1>7
<1> HIDE DEF f
<1> QED BY <1>5, <1>6, <1>8, Zenon DEF Steps

(* Appending, and shifting one in at the end. *)
LEMMA ConcatAppend ==
  ASSUME NEW S, NEW s \in Seq(S), NEW t \in Seq(S), NEW e \in S
  PROVE  s \o Append(t, e) = Append(s \o t, e) /\ Append(t, e) \in Seq(S) /\ s \o t \in Seq(S)
OBVIOUS

LEMMA ShiftIn ==
  ASSUME NEW S, NEW s \in Seq(S), Len(s) # 0, NEW e \in S
  PROVE  /\ Tail(Append(s, e)) \in Seq(S) /\ Len(Tail(Append(s, e))) = Len(s)
         /\ \A i \in 1..Len(s) : Tail(Append(s, e))[i] = IF i = Len(s) THEN e ELSE s[i + 1]
<1>1. PICK a : a = Append(s, e)
  OBVIOUS
<1>2. /\ a \in Seq(S) /\ Len(a) = Len(s) + 1 /\ a[Len(s) + 1] = e
      /\ \A i \in 1..Len(s) : a[i] = s[i]
  BY <1>1
<1>3. a # <<>>
  BY <1>2
<1>4. Tail(a) \in Seq(S) /\ Len(Tail(a)) = Len(s) /\ \A i \in 1..Len(s) : Tail(a)[i] = a[i + 1]
  BY <1>2, <1>3
<1>5. ASSUME NEW i \in 1..Len(s) PROVE Tail(a)[i] = IF i = Len(s) THEN e ELSE s[i + 1]
  <2>1. i # Len(s) => i + 1 \in 1..Len(s)
    OBVIOUS
  <2> QED BY <1>2, <1>4, <2>1, Zenon
<1> QED BY <1>1, <1>4, <1>5, Zenon
=============================================================================
