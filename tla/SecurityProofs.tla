---------------------------- MODULE SecurityProofs ----------------------------
(***************************************************************************)
(* Proofs about the three components of security/ and session/ that guard  *)
(* secrets and callers: ServiceTokens, PiiTokens and CallerAuth, for every *)
(* set of services, tokens, values, callers and threads, every number of   *)
(* rotations, versions and attempts and all times to live.  They share no  *)
(* state.                                                                  *)
(***************************************************************************)
EXTENDS ServiceTokens, PiiTokens, CallerAuth, FiniteSetTheorems, TLAPS

-------------------------------------------------------------------------------
(* ServiceTokens: keys, service tokens and their revocations                 *)

SvcOps    == {"free", "issue", "verify", "revoke", "refresh"}
SvcPoints == {"", "cache", "fetch", "store", "use", "lookup", "forget"} \cup Answers
Svcs == [op : SvcOps, at : SvcPoints, jti : Jtis \cup {""}, key : Nat, asOf : Nat, slow : Nat, late : BOOLEAN]

SvcTyped == ServiceTypeOK /\ svc \in [Services -> Svcs]

(* A cached key that is no longer in force was stored before the rotation. *)
CacheOK ==
  /\ rotated <= now
  /\ \A n \in KeyNames :
       /\ secrets[n].until <= now + CacheTtl
       /\ secrets[n].value # version => secrets[n].until <= rotated + secrets[n].slow + CacheTtl

(* A revocation is known until its token has expired. *)
RevocationsOK == \A j \in Jtis :
  /\ Exists(j) => issued[j].exp # Unknown
  /\ revoked[j] # Unknown => Exists(j) /\ revoked[j] = issued[j].exp
  /\ j \in revocations => Exists(j) /\ (revoked[j] = issued[j].exp \/ issued[j].exp <= now)

(* What a thread holds, and may conclude from it. *)
CallOK(w) ==
  /\ svc[w].op # "free" => svc[w].jti \in Jtis
  /\ svc[w].op = "free" => svc[w].at = "" /\ ~svc[w].late
  /\ svc[w].op \in {"verify", "revoke"} => Exists(svc[w].jti)
  /\ svc[w].late => svc[w].jti \in revocations
  /\ svc[w].at \in {"lookup", "forget"} \cup Answers => svc[w].op \in {"verify", "revoke"}
  /\ svc[w].at = "forget" => issued[svc[w].jti].exp <= now
  /\ svc[w].at = "accepted" /\ svc[w].late => issued[svc[w].jti].exp <= now
KeyOK(w) ==
  /\ svc[w].key <= version /\ svc[w].asOf <= now
  /\ svc[w].at = "store" /\ svc[w].key # version => svc[w].asOf <= rotated
  /\ svc[w].at = "use" /\ svc[w].key # version => svc[w].asOf < rotated + svc[w].slow + CacheTtl
  /\ svc[w].at = "invalid" /\ issued[svc[w].jti].key = version => svc[w].asOf < rotated + svc[w].slow + CacheTtl
ThreadsOK == \A w \in Services : CallOK(w) /\ KeyOK(w)

SvcInv == SvcTyped /\ CacheOK /\ RevocationsOK /\ ThreadsOK

LEMMA NoneIsOld ==
  ASSUME NEW k, k = 0, NEW v \in Nat
  PROVE  k <= v
  OBVIOUS

LEMMA SvcInit == ServiceInit => SvcInv
  <1> SUFFICES ASSUME ServiceInit PROVE SvcInv
    OBVIOUS
  <1>1. Free \in Svcs /\ Free.op = "free" /\ Free.at = "" /\ ~Free.late /\ Free.key = 0 /\ Free.asOf = 0 /\ Free.slow = 0
    BY DEF Free, Svcs, SvcOps, SvcPoints
  <1>2. \A w \in Services : svc[w] = Free
    BY DEF ServiceInit
  <1>3. ServiceTypeOK
    <2>1. now \in 0..MaxNow /\ version \in 1..MaxVersion /\ rotated \in 0..MaxNow
      BY ServiceAssumption DEF ServiceInit
    <2>2. NoEntry \in [value : 0..version, until : 0..(MaxNow + CacheTtl), slow : 0..MaxNow]
      BY <2>1, ServiceAssumption DEF NoEntry
    <2>3. [key |-> 0, exp |-> 0] \in [key : 0..version, exp : 0..(MaxNow + JwtTtl)]
      BY <2>1, ServiceAssumption
    <2>4. Unknown \in 0..(MaxNow + JwtTtl)
      BY ServiceAssumption DEF Unknown
    <2>5. QED
      BY <1>1, <1>2, <2>1, <2>2, <2>3, <2>4 DEF ServiceInit, ServiceTypeOK
  <1>4. SvcTyped
    BY <1>1, <1>3 DEF ServiceInit, SvcTyped
  <1>5. CacheOK
    BY ServiceAssumption DEF ServiceInit, CacheOK, NoEntry
  <1>6. RevocationsOK
    BY DEF ServiceInit, RevocationsOK, Exists, Unknown
  <1>7. ThreadsOK
    <2> SUFFICES ASSUME NEW w \in Services PROVE CallOK(w) /\ KeyOK(w)
      BY DEF ThreadsOK
    <2>1. svc[w] = Free
      BY <1>2
    <2>2. CallOK(w)
      BY <1>1, <2>1 DEF CallOK, Answers
    <2>3. KeyOK(w)
      <3>1. now \in Nat /\ version \in Nat
        BY DEF ServiceInit
      <3>2. svc[w].at = "" /\ svc[w].key = 0 /\ svc[w].asOf = 0 /\ svc[w].slow = 0
        BY <1>1, <2>1
      <3>3. svc[w].key <= version /\ svc[w].asOf <= now
        BY <3>1, <3>2, NoneIsOld
      <3>4. QED
        BY <3>2, <3>3 DEF KeyOK
    <2>4. QED
      BY <2>2, <2>3
  <1>8. QED
    BY <1>4, <1>5, <1>6, <1>7 DEF SvcInv

(* A step gives thread w the call f and leaves the others theirs. *)
TakesCall(w, f) ==
  /\ f \in Svcs
  /\ svc' = [svc EXCEPT ![w] = f]

LEMMA OneCall ==
  ASSUME SvcTyped, NEW w \in Services, NEW f, TakesCall(w, f)
  PROVE  /\ svc'[w] = f /\ svc' \in [Services -> Svcs]
         /\ \A v \in Services : v # w => svc'[v] = svc[v]
         /\ \A v \in Services : svc'[v].op \in SvcOps /\ svc'[v].at \in SvcPoints
  <1>1. svc'[w] = f /\ svc' \in [Services -> Svcs] /\ \A v \in Services : v # w => svc'[v] = svc[v]
    BY DEF SvcTyped, TakesCall
  <1>2. \A v \in Services : svc'[v].op \in SvcOps /\ svc'[v].at \in SvcPoints
    BY <1>1 DEF Svcs
  <1>3. QED
    BY <1>1, <1>2

(* The other threads keep what they may conclude: tokens that exist do not change *)
(* and revocations are not taken back.                                            *)
LEMMA OthersKeep ==
  ASSUME SvcInv, NEW w \in Services, NEW v \in Services,
         svc'[v] = svc[v], UNCHANGED <<now, version, rotated>>,
         \A j \in Jtis : Exists(j) => issued'[j] = issued[j],
         revocations \subseteq revocations'
  PROVE  (CallOK(v) /\ KeyOK(v))'
  <1>1. CallOK(v) /\ KeyOK(v)
    BY DEF SvcInv, ThreadsOK
  <1>2. svc[v].at \in {"lookup", "forget"} \cup Answers \/ svc[v].op \in {"verify", "revoke"}
          => svc[v].jti \in Jtis /\ Exists(svc[v].jti)
    BY <1>1 DEF CallOK
  <1>3. CallOK(v)'
    BY <1>1, <1>2 DEF CallOK, Exists, Answers
  <1>4. KeyOK(v)'
    BY <1>1, <1>2 DEF KeyOK, Answers
  <1>5. QED
    BY <1>3, <1>4

LEMMA ThreadStep ==
  ASSUME SvcInv, NEW w \in Services, NEW f, TakesCall(w, f),
         UNCHANGED <<now, version, rotated>>,
         \A j \in Jtis : Exists(j) => issued'[j] = issued[j],
         revocations \subseteq revocations',
         (CallOK(w) /\ KeyOK(w))'
  PROVE  ThreadsOK'
  <1>1. \A v \in Services : v # w => svc'[v] = svc[v]
    BY OneCall DEF SvcInv
  <1>2. QED
    BY <1>1, OthersKeep DEF ThreadsOK

LEMMA FreeCall == Free \in Svcs /\ Free.op = "free" /\ Free.at = "" /\ ~Free.late /\ Free.key = 0 /\ Free.asOf = 0 /\ Free.slow = 0
  BY DEF Free, Svcs, SvcOps, SvcPoints

(* The call of thread w, its fields and its types. *)
LEMMA CallFields ==
  ASSUME SvcInv, NEW w \in Services
  PROVE  /\ svc[w] \in Svcs /\ svc \in [Services -> Svcs]
         /\ CallOK(w) /\ KeyOK(w) /\ CacheOK /\ RevocationsOK /\ ServiceTypeOK
         /\ Name(w) \in KeyNames
         /\ svc[w].key \in Nat /\ svc[w].asOf \in Nat /\ svc[w].slow \in Nat /\ now \in Nat /\ version \in Nat /\ rotated \in Nat
         /\ CacheTtl \in Nat \ {0} /\ JwtTtl \in Nat \ {0}
  <1>1. CallOK(w) /\ KeyOK(w) /\ CacheOK /\ RevocationsOK /\ ServiceTypeOK /\ svc \in [Services -> Svcs]
    BY DEF SvcInv, ThreadsOK, SvcTyped
  <1>2. now \in Nat /\ version \in Nat /\ rotated \in Nat
    <2>1. now \in 0..MaxNow /\ version \in 1..MaxVersion /\ rotated \in 0..MaxNow
          /\ MaxNow \in Nat /\ MaxVersion \in Nat
      BY <1>1, ServiceAssumption DEF ServiceTypeOK
    <2>2. QED
      BY <2>1
  <1>3. svc[w] \in Svcs /\ svc[w].key \in Nat /\ svc[w].asOf \in Nat /\ svc[w].slow \in Nat
    BY <1>1 DEF Svcs
  <1>4. QED
    BY <1>1, <1>2, <1>3, ServiceAssumption DEF Name, KeyNames

(* A thread that has returned holds nothing. *)
LEMMA FreeOK ==
  ASSUME SvcInv, NEW w \in Services, svc'[w] = Free, UNCHANGED <<now, version>>
  PROVE  CallOK(w)' /\ KeyOK(w)'
  <1>1. svc'[w].op = "free" /\ svc'[w].at = "" /\ ~svc'[w].late /\ svc'[w].key = 0 /\ svc'[w].asOf = 0 /\ svc'[w].slow = 0
    BY FreeCall
  <1>2. CallOK(w)'
    BY <1>1 DEF CallOK, Answers
  <1>3. version' \in Nat /\ now' \in Nat
    BY CallFields
  <1>4. svc'[w].key <= version' /\ svc'[w].asOf <= now'
    BY <1>1, <1>3, NoneIsOld
  <1>5. KeyOK(w)'
    BY <1>1, <1>4 DEF KeyOK
  <1>6. QED
    BY <1>2, <1>5

LEMMA UnknownIsTime == Unknown \in 0..(MaxNow + JwtTtl)
  BY ServiceAssumption DEF Unknown

(* What thread w holds when its call goes on. *)
Took(w, at, key, asOf, slow) ==
  [op |-> svc[w].op, at |-> at, jti |-> svc[w].jti, key |-> key, asOf |-> asOf, slow |-> slow, late |-> svc[w].late]

LEMMA Goes ==
  ASSUME SvcInv, NEW w \in Services, NEW at \in SvcPoints, NEW key \in Nat, NEW asOf \in Nat, NEW slow \in Nat
  PROVE  /\ SvcHolds(w, at, key, asOf, slow) => TakesCall(w, Took(w, at, key, asOf, slow))
         /\ SvcGoto(w, at) => TakesCall(w, Took(w, at, svc[w].key, svc[w].asOf, svc[w].slow))
  <1>1. svc \in [Services -> Svcs] /\ svc[w] \in Svcs
    BY CallFields
  <1>2. Took(w, at, key, asOf, slow) \in Svcs /\ Took(w, at, svc[w].key, svc[w].asOf, svc[w].slow) \in Svcs
    BY <1>1 DEF Took, Svcs
  <1>3. QED
    BY <1>1, <1>2 DEF SvcHolds, SvcGoto, TakesCall, Took

LEMMA Went ==
  ASSUME SvcInv, NEW w \in Services, NEW at, NEW key, NEW asOf, NEW slow, TakesCall(w, Took(w, at, key, asOf, slow))
  PROVE  /\ svc'[w].op = svc[w].op /\ svc'[w].at = at /\ svc'[w].jti = svc[w].jti
         /\ svc'[w].key = key /\ svc'[w].asOf = asOf /\ svc'[w].slow = slow /\ svc'[w].late = svc[w].late
  BY OneCall DEF SvcInv, Took

LEMMA SvcStep == SvcInv /\ [ServiceNext]_serviceVars => SvcInv'
  <1> SUFFICES ASSUME SvcInv, [ServiceNext]_serviceVars PROVE SvcInv'
    OBVIOUS
  <1>0. SvcTyped /\ ServiceTypeOK /\ CacheOK /\ RevocationsOK /\ ThreadsOK
    BY DEF SvcInv, SvcTyped
  <1> DEFINE Frame == UNCHANGED <<now, version, rotated, secrets, issued, revoked, revocations>>
  <1>1. ASSUME NEW w \in Services, NEW f, TakesCall(w, f), Frame, (CallOK(w) /\ KeyOK(w))' PROVE SvcInv'
    <2>1. SvcTyped'
      BY <1>0, <1>1, OneCall DEF SvcTyped, ServiceTypeOK, SvcOps, SvcPoints
    <2>2. CacheOK' /\ RevocationsOK'
      BY <1>0, <1>1 DEF CacheOK, RevocationsOK, Exists
    <2>3. ThreadsOK'
      BY <1>1, ThreadStep
    <2>4. QED
      BY <2>1, <2>2, <2>3 DEF SvcInv
  <1>2. ASSUME NEW w \in Services, NEW op \in SvcOps \ {"free"}, NEW j \in Jtis, Call(w, op, j) PROVE SvcInv'
    <2> DEFINE f == [Free EXCEPT !.op = op, !.jti = j, !.late = op = "verify" /\ j \in revocations,
                                 !.at = IF op = "refresh" THEN "fetch" ELSE "cache"]
    <2>1. /\ f \in Svcs /\ f.op = op /\ f.jti = j /\ f.key = 0 /\ f.asOf = 0 /\ f.slow = 0
          /\ f.late = (op = "verify" /\ j \in revocations) /\ f.at \in {"fetch", "cache"}
      BY DEF Free, Svcs, SvcPoints
    <2>2. TakesCall(w, f)
      BY <1>2, <2>1 DEF Call, TakesCall
    <2> HIDE DEF f
    <2>3. svc'[w] = f /\ UNCHANGED <<now, version, rotated, issued, revoked, revocations>>
      BY <1>0, <1>2, <2>2, OneCall DEF Call
    <2>4. secrets' = secrets \/ secrets' = [secrets EXCEPT !["public"] = NoEntry]
      BY <1>2 DEF Call
    <2>5. op \in {"verify", "revoke"} => Exists(j)
      BY <1>2 DEF Call
    <2>6. CallOK(w)' /\ KeyOK(w)'
      <3>1. CallOK(w)'
        BY <2>1, <2>3, <2>5 DEF CallOK, Exists, Answers
      <3>2. KeyOK(w)'
        BY <2>1, <2>3, CallFields DEF KeyOK
      <3>3. QED
        BY <3>1, <3>2
    <2>7. ThreadsOK'
      BY <2>2, <2>3, <2>6, ThreadStep
    <2>8. NoEntry \in [value : 0..version, until : 0..(MaxNow + CacheTtl), slow : 0..MaxNow] /\ NoEntry.until = 0
      <3>1. version \in Nat /\ MaxNow + CacheTtl \in Nat /\ MaxNow \in Nat
        BY CallFields, ServiceAssumption
      <3>2. QED
        BY <3>1 DEF NoEntry
    <2>9. SvcTyped'
      <3>1. secrets' \in [KeyNames -> [value : 0..version, until : 0..(MaxNow + CacheTtl), slow : 0..MaxNow]]
        BY <1>0, <2>4, <2>8 DEF ServiceTypeOK
      <3>2. QED
        BY <1>0, <2>2, <2>3, <3>1, OneCall DEF SvcTyped, ServiceTypeOK, SvcOps, SvcPoints
    <2>10. CacheOK' /\ RevocationsOK'
      <3>1. RevocationsOK'
        BY <1>0, <2>3 DEF RevocationsOK, Exists
      <3>2. \A n \in KeyNames : secrets'[n] = secrets[n] \/ secrets'[n] = NoEntry
        BY <1>0, <2>4 DEF ServiceTypeOK
      <3>5. NoEntry.until = 0 /\ NoEntry.slow = 0
        BY DEF NoEntry
      <3>3. CacheOK'
        BY <1>0, <2>3, <3>2, <3>5, CallFields DEF CacheOK
      <3>4. QED
        BY <3>1, <3>3
    <2>11. QED
      BY <2>7, <2>9, <2>10 DEF SvcInv
  <1>3. ASSUME NEW w \in Services, Lookup(w) PROVE SvcInv'
    <2>1. Frame /\ svc[w].at = "cache"
      BY <1>3 DEF Lookup
    <2>7. /\ secrets[Name(w)].value \in Nat /\ secrets[Name(w)].until \in Nat
          /\ secrets[Name(w)].slow \in Nat
      <3>1. secrets[Name(w)] \in [value : 0..version, until : 0..(MaxNow + CacheTtl), slow : 0..MaxNow]
        BY CallFields DEF ServiceTypeOK
      <3>2. 0..version \subseteq Nat /\ 0..(MaxNow + CacheTtl) \subseteq Nat /\ 0..MaxNow \subseteq Nat
        BY CallFields
      <3>3. QED
        BY <3>1, <3>2
    <2>2. PICK at \in SvcPoints, key \in Nat, asOf \in Nat, slow \in Nat :
             /\ TakesCall(w, Took(w, at, key, asOf, slow))
             /\ \/ at = "fetch" /\ key = svc[w].key /\ asOf = svc[w].asOf /\ slow = svc[w].slow
                \/ /\ CacheHit(Name(w)) /\ at = "use"
                   /\ key = secrets[Name(w)].value /\ asOf = now /\ slow = secrets[Name(w)].slow
      BY <1>3, <2>7, CallFields, Goes DEF Lookup, SvcPoints
    <2>3. /\ svc'[w].op = svc[w].op /\ svc'[w].at = at /\ svc'[w].jti = svc[w].jti
          /\ svc'[w].key = key /\ svc'[w].asOf = asOf /\ svc'[w].slow = slow /\ svc'[w].late = svc[w].late
      BY <2>2, Went
    <2>4. CallOK(w)'
      BY <2>1, <2>2, <2>3, CallFields DEF CallOK, Exists, Answers
    <2>5. KeyOK(w)'
      <3>1. CacheHit(Name(w)) => /\ secrets[Name(w)].value <= version
                                 /\ secrets[Name(w)].value # version =>
                                      now < rotated + secrets[Name(w)].slow + CacheTtl
        <4>1. secrets[Name(w)].value \in 0..version
          BY CallFields DEF ServiceTypeOK
        <4>2. secrets[Name(w)].value # version => secrets[Name(w)].until <=
                rotated + secrets[Name(w)].slow + CacheTtl
          BY CallFields DEF CacheOK
        <4>3. QED
          BY <2>7, <4>1, <4>2, CallFields DEF CacheHit
      <3>2. QED
        BY <2>1, <2>2, <2>3, <3>1, CallFields DEF KeyOK
    <2>6. QED
      BY <1>1, <2>1, <2>2, <2>4, <2>5
  <1>4. ASSUME NEW w \in Services, Decode(w) PROVE SvcInv'
    <2>1. Frame /\ svc[w].op = "verify" /\ svc[w].at = "use"
      BY <1>4 DEF Decode
    <2>2. PICK at \in SvcPoints, key \in Nat, asOf \in Nat, slow \in Nat :
             /\ TakesCall(w, Took(w, at, key, asOf, slow))
             /\ \/ ~Signed(w) /\ at = "invalid" /\ key = svc[w].key /\ asOf = svc[w].asOf /\ slow = svc[w].slow
                \/ at \in {"expired", "lookup"} /\ key = 0 /\ asOf = 0 /\ slow = 0
      BY <1>4, CallFields, Goes DEF Decode, SvcPoints, Answers
    <2>3. /\ svc'[w].op = svc[w].op /\ svc'[w].at = at /\ svc'[w].jti = svc[w].jti
          /\ svc'[w].key = key /\ svc'[w].asOf = asOf /\ svc'[w].slow = slow /\ svc'[w].late = svc[w].late
      BY <2>2, Went
    <2>4. CallOK(w)'
      BY <2>1, <2>2, <2>3, CallFields DEF CallOK, Exists, Answers
    <2>5. KeyOK(w)'
      BY <2>1, <2>2, <2>3, CallFields DEF KeyOK, Signed
    <2>6. QED
      BY <1>1, <2>1, <2>2, <2>4, <2>5
  <1>5. ASSUME NEW w \in Services, IsRevoked(w) PROVE SvcInv'
    <2>1. Frame /\ svc[w].at = "lookup"
      BY <1>5 DEF IsRevoked
    <2>2. PICK at \in SvcPoints, key \in Nat, asOf \in Nat, slow \in Nat :
             /\ TakesCall(w, Took(w, at, key, asOf, slow))
             /\ key = svc[w].key /\ asOf = svc[w].asOf /\ slow = svc[w].slow
             /\ \/ at = "accepted" /\ revoked[svc[w].jti] = Unknown
                \/ at = "forget" /\ revoked[svc[w].jti] # Unknown /\ Outlived(revoked[svc[w].jti])
                \/ at = "revoked"
      BY <1>5, CallFields, Goes DEF IsRevoked, SvcPoints, Answers
    <2>3. /\ svc'[w].op = svc[w].op /\ svc'[w].at = at /\ svc'[w].jti = svc[w].jti
          /\ svc'[w].key = key /\ svc'[w].asOf = asOf /\ svc'[w].slow = slow /\ svc'[w].late = svc[w].late
      BY <2>2, Went
    <2>4. CallOK(w)'
      BY <2>1, <2>2, <2>3, CallFields DEF CallOK, Exists, Answers, RevocationsOK, Outlived
    <2>5. KeyOK(w)'
      BY <2>1, <2>2, <2>3, CallFields DEF KeyOK
    <2>6. QED
      BY <1>1, <2>1, <2>2, <2>4, <2>5
  <1>6. ASSUME NEW w \in Services, Frame, SvcDone(w) PROVE SvcInv'
    <2>1. TakesCall(w, Free) /\ svc'[w] = Free
      BY <1>6, FreeCall, CallFields DEF SvcDone, TakesCall
    <2>2. CallOK(w)' /\ KeyOK(w)'
      BY <1>6, <2>1, FreeOK
    <2>3. QED
      BY <1>1, <1>6, <2>1, <2>2
  <1>7. ASSUME NEW w \in Services, Fetch(w) PROVE SvcInv'
    <2>1. Frame /\ svc[w].at = "fetch" /\ (SvcHolds(w, "store", version, now, 0) \/ SvcDone(w))
      BY <1>7 DEF Fetch
    <2>2. CASE SvcHolds(w, "store", version, now, 0)
      <3>1. TakesCall(w, Took(w, "store", version, now, 0))
        BY <2>2, CallFields, Goes DEF SvcPoints
      <3>2. /\ svc'[w].op = svc[w].op /\ svc'[w].at = "store" /\ svc'[w].jti = svc[w].jti
            /\ svc'[w].key = version /\ svc'[w].asOf = now /\ svc'[w].slow = 0 /\ svc'[w].late = svc[w].late
        BY <3>1, Went
      <3>3. CallOK(w)'
        BY <2>1, <3>2, CallFields DEF CallOK, Exists, Answers
      <3>4. KeyOK(w)'
        BY <2>1, <3>2, CallFields DEF KeyOK
      <3>5. QED
        BY <1>1, <2>1, <3>1, <3>3, <3>4
    <2>3. QED
      BY <1>6, <2>1, <2>2
  <1>8. ASSUME NEW w \in Services, ForgetRevocation(w) PROVE SvcInv'
    <2>1. /\ UNCHANGED <<now, version, rotated, secrets, issued, revocations>>
          /\ svc[w].at = "forget" /\ revoked' = [revoked EXCEPT ![svc[w].jti] = Unknown]
      BY <1>8 DEF ForgetRevocation
    <2>2. PICK at \in SvcPoints : /\ at \in {"raised", "accepted"}
                                  /\ TakesCall(w, Took(w, at, svc[w].key, svc[w].asOf, svc[w].slow))
      BY <1>8, CallFields, Goes DEF ForgetRevocation, SvcPoints, Answers
    <2>3. /\ svc'[w].op = svc[w].op /\ svc'[w].at = at /\ svc'[w].jti = svc[w].jti
          /\ svc'[w].key = svc[w].key /\ svc'[w].asOf = svc[w].asOf /\ svc'[w].slow = svc[w].slow /\ svc'[w].late = svc[w].late
      BY <2>2, Went
    <2>4. svc[w].jti \in Jtis /\ Exists(svc[w].jti) /\ issued[svc[w].jti].exp <= now
      BY <2>1, CallFields DEF CallOK
    <2>5. CallOK(w)'
      BY <2>1, <2>2, <2>3, <2>4, CallFields DEF CallOK, Exists, Answers
    <2>6. KeyOK(w)'
      BY <2>1, <2>2, <2>3, CallFields DEF KeyOK
    <2>7. ThreadsOK'
      BY <2>1, <2>2, <2>5, <2>6, ThreadStep
    <2>8. RevocationsOK'
      BY <1>0, <2>1, <2>4 DEF RevocationsOK, Exists, ServiceTypeOK
    <2>9. SvcTyped'
      <3>1. revoked' \in [Jtis -> 0..(MaxNow + JwtTtl)]
        BY <1>0, <2>1, UnknownIsTime DEF ServiceTypeOK
      <3>2. QED
        BY <1>0, <2>1, <2>2, <3>1, OneCall DEF SvcTyped, ServiceTypeOK, SvcOps, SvcPoints
    <2>10. QED
      BY <1>0, <2>1, <2>7, <2>8, <2>9 DEF SvcInv, CacheOK
  <1>9. ASSUME NEW w \in Services, Revoke(w) PROVE SvcInv'
    <2>1. UNCHANGED <<now, version, rotated, secrets, issued>> /\ svc[w].op = "revoke" /\ svc[w].at = "use"
      BY <1>9 DEF Revoke
    <2>2. svc[w].jti \in Jtis /\ Exists(svc[w].jti)
      BY <2>1, CallFields DEF CallOK
    <2>3. CASE Signed(w)
      <3>1. /\ revoked' = [revoked EXCEPT ![svc[w].jti] = issued[svc[w].jti].exp]
            /\ revocations' = revocations \cup {svc[w].jti} /\ SvcDone(w)
        BY <1>9, <2>3 DEF Revoke
      <3>2. TakesCall(w, Free) /\ svc'[w] = Free
        BY <3>1, FreeCall, CallFields DEF SvcDone, TakesCall
      <3>3. CallOK(w)' /\ KeyOK(w)'
        BY <2>1, <3>2, FreeOK
      <3>5. ThreadsOK'
        BY <2>1, <3>1, <3>2, <3>3, ThreadStep
      <3>6. RevocationsOK'
        BY <1>0, <2>1, <2>2, <3>1 DEF RevocationsOK, Exists, ServiceTypeOK
      <3>7. SvcTyped'
        <4>1. revoked' \in [Jtis -> 0..(MaxNow + JwtTtl)] /\ revocations' \subseteq Jtis
          BY <1>0, <2>2, <3>1 DEF ServiceTypeOK
        <4>2. QED
          BY <1>0, <2>1, <3>2, <4>1, OneCall DEF SvcTyped, ServiceTypeOK, SvcOps, SvcPoints
      <3>8. QED
        BY <1>0, <2>1, <3>5, <3>6, <3>7 DEF SvcInv, CacheOK
    <2>4. CASE ~Signed(w)
      <3>1. Frame /\ SvcGoto(w, "invalid")
        BY <1>9, <2>1, <2>4 DEF Revoke
      <3>2. TakesCall(w, Took(w, "invalid", svc[w].key, svc[w].asOf, svc[w].slow))
        BY <3>1, CallFields, Goes DEF SvcPoints, Answers
      <3>3. /\ svc'[w].op = svc[w].op /\ svc'[w].at = "invalid" /\ svc'[w].jti = svc[w].jti
            /\ svc'[w].key = svc[w].key /\ svc'[w].asOf = svc[w].asOf /\ svc'[w].slow = svc[w].slow /\ svc'[w].late = svc[w].late
        BY <3>2, Went
      <3>4. CallOK(w)'
        BY <2>1, <2>2, <3>1, <3>3, CallFields DEF CallOK, Exists, Answers
      <3>5. KeyOK(w)'
        BY <2>1, <2>4, <3>1, <3>3, CallFields DEF KeyOK, Signed
      <3>6. QED
        BY <1>1, <3>1, <3>2, <3>4, <3>5
    <2>5. QED
      BY <2>3, <2>4
  <1>10. ASSUME NEW w \in Services, Answered(w) PROVE SvcInv'
    BY <1>6, <1>10 DEF Answered
  <1>11. ASSUME NEW w \in Services, Issue(w) PROVE SvcInv'
    <2>1. UNCHANGED <<now, version, rotated, secrets, revoked, revocations>> /\ SvcDone(w)
          /\ svc[w].op = "issue"
      BY <1>11 DEF Issue
    <2>2. CASE Exists(svc[w].jti)
      BY <1>6, <1>11, <2>1, <2>2 DEF Issue
    <2>3. CASE ~Exists(svc[w].jti)
      <3>1. issued' = [issued EXCEPT ![svc[w].jti] = [key |-> svc[w].key, exp |-> now + JwtTtl]]
        BY <1>11, <2>3 DEF Issue
      <3>2. svc[w].jti \in Jtis /\ svc[w].key \in 0..version /\ now + JwtTtl \in 0..(MaxNow + JwtTtl)
            /\ now + JwtTtl # Unknown
        <4>1. svc[w].jti \in Jtis /\ svc[w].key <= version
          BY <2>1, CallFields DEF CallOK, KeyOK
        <4>2. now \in 0..MaxNow /\ MaxNow \in Nat /\ JwtTtl \in Nat \ {0}
          BY CallFields, ServiceAssumption DEF ServiceTypeOK
        <4>3. QED
          BY <4>1, <4>2, CallFields DEF Unknown
      <3>3. issued' \in [Jtis -> [key : 0..version, exp : 0..(MaxNow + JwtTtl)]]
        BY <1>0, <3>1, <3>2 DEF ServiceTypeOK
      <3>4. \A j \in Jtis : /\ Exists(j) => issued'[j] = issued[j]
                            /\ issued'[j] = issued[j] \/ issued'[j].exp # Unknown
        BY <1>0, <2>3, <3>1, <3>2 DEF ServiceTypeOK, Exists
      <3>5. TakesCall(w, Free) /\ svc'[w] = Free
        BY <2>1, FreeCall, CallFields DEF SvcDone, TakesCall
      <3>6. CallOK(w)' /\ KeyOK(w)'
        BY <2>1, <3>5, FreeOK
      <3>8. ThreadsOK'
        BY <2>1, <3>4, <3>5, <3>6, ThreadStep
      <3>9. RevocationsOK'
        BY <1>0, <2>1, <3>4 DEF RevocationsOK, Exists
      <3>10. SvcTyped'
        BY <1>0, <2>1, <3>3, <3>5, OneCall DEF SvcTyped, ServiceTypeOK, SvcOps, SvcPoints
      <3>11. QED
        BY <1>0, <2>1, <3>8, <3>9, <3>10 DEF SvcInv, CacheOK
    <2>4. QED
      BY <2>2, <2>3
  <1>12. ASSUME NEW w \in Services, StoreSecret(w) PROVE SvcInv'
    <2>1. /\ UNCHANGED <<now, version, rotated, issued, revoked, revocations>> /\ svc[w].at = "store"
          /\ secrets' = [secrets EXCEPT ![Name(w)] =
               [value |-> svc[w].key, until |-> now + CacheTtl, slow |-> now - svc[w].asOf]]
      BY <1>12 DEF StoreSecret
    <2>2. /\ svc[w].key <= version /\ (svc[w].key # version => svc[w].asOf <= rotated)
          /\ svc[w].asOf <= now /\ now - svc[w].asOf \in Nat
      BY <2>1, CallFields DEF KeyOK
    <2>3. secrets' \in [KeyNames -> [value : 0..version, until : 0..(MaxNow + CacheTtl), slow : 0..MaxNow]]
      <3>1. now \in 0..MaxNow /\ MaxNow \in Nat
        BY CallFields, ServiceAssumption DEF ServiceTypeOK
      <3>2. /\ now + CacheTtl \in 0..(MaxNow + CacheTtl) /\ svc[w].key \in 0..version
            /\ now - svc[w].asOf \in 0..MaxNow
        BY <2>2, <3>1, CallFields
      <3>3. QED
        BY <1>0, <2>1, <3>2, CallFields DEF ServiceTypeOK
    <2>4. CacheOK'
      <3>1. \A n \in KeyNames :
              \/ secrets'[n] = secrets[n]
              \/ /\ secrets'[n].value = svc[w].key /\ secrets'[n].until = now + CacheTtl
                 /\ secrets'[n].slow = now - svc[w].asOf
        BY <1>0, <2>1, CallFields DEF ServiceTypeOK
      <3>2. QED
        BY <1>0, <2>1, <2>2, <3>1, CallFields DEF CacheOK
    <2>5. ASSUME NEW f, TakesCall(w, f), CallOK(w)' /\ KeyOK(w)' PROVE SvcInv'
      <3>1. ThreadsOK'
        BY <2>1, <2>5, ThreadStep
      <3>2. SvcTyped' /\ RevocationsOK'
        BY <1>0, <2>1, <2>3, <2>5, OneCall DEF SvcTyped, ServiceTypeOK, SvcOps, SvcPoints, RevocationsOK, Exists
      <3>3. QED
        BY <2>4, <3>1, <3>2 DEF SvcInv
    <2>6. CASE SvcDone(w)
      <3>1. TakesCall(w, Free) /\ svc'[w] = Free
        BY <2>6, FreeCall, CallFields DEF SvcDone, TakesCall
      <3>2. QED
        BY <2>1, <2>5, <3>1, FreeOK
    <2>7. CASE SvcHolds(w, "use", svc[w].key, now, now - svc[w].asOf)
      <3>1. TakesCall(w, Took(w, "use", svc[w].key, now, now - svc[w].asOf))
        BY <2>2, <2>7, CallFields, Goes DEF SvcPoints
      <3>2. /\ svc'[w].op = svc[w].op /\ svc'[w].at = "use" /\ svc'[w].jti = svc[w].jti
            /\ svc'[w].key = svc[w].key /\ svc'[w].asOf = now /\ svc'[w].slow = now - svc[w].asOf
            /\ svc'[w].late = svc[w].late
        BY <3>1, Went
      <3>3. CallOK(w)'
        BY <2>1, <3>2, CallFields DEF CallOK, Exists, Answers
      <3>4. KeyOK(w)'
        BY <2>1, <2>2, <3>2, CallFields DEF KeyOK
      <3>5. QED
        BY <2>5, <3>1, <3>3, <3>4
    <2>8. QED
      BY <1>12, <2>6, <2>7 DEF StoreSecret
  <1>13. CASE PurgeExpired
    <2>1. /\ UNCHANGED <<now, version, rotated, secrets, issued, revocations, svc>>
          /\ revoked' = [j \in Jtis |-> IF Outlived(revoked[j]) THEN Unknown ELSE revoked[j]]
      BY <1>13 DEF PurgeExpired
    <2>2. SvcTyped'
      <3>1. revoked' \in [Jtis -> 0..(MaxNow + JwtTtl)]
        BY <1>0, <2>1, UnknownIsTime DEF ServiceTypeOK
      <3>2. QED
        BY <1>0, <2>1, <3>1 DEF SvcTyped, ServiceTypeOK
    <2>3. CacheOK' /\ ThreadsOK'
      BY <1>0, <2>1 DEF CacheOK, ThreadsOK, CallOK, KeyOK, Exists
    <2>4. RevocationsOK'
      BY <1>0, <2>1 DEF RevocationsOK, Exists, Outlived, Unknown
    <2>5. QED
      BY <2>2, <2>3, <2>4 DEF SvcInv
  <1>14. CASE Rotate
    <2>1. /\ UNCHANGED <<now, secrets, issued, revoked, revocations, svc>>
          /\ version < MaxVersion /\ version' = version + 1 /\ rotated' = now
      BY <1>14 DEF Rotate
    <2>2. version \in Nat /\ now \in Nat /\ CacheTtl \in Nat \ {0} /\ MaxVersion \in Nat
          /\ version \in 1..MaxVersion /\ now \in 0..MaxNow
      <3>1. version \in 1..MaxVersion /\ now \in 0..MaxNow /\ MaxVersion \in Nat /\ MaxNow \in Nat
            /\ CacheTtl \in Nat \ {0}
        BY <1>0, ServiceAssumption DEF ServiceTypeOK
      <3>2. QED
        BY <3>1
    <2>3. SvcTyped'
      <3>1. 0..version \subseteq 0..version' /\ version' \in 1..MaxVersion
        BY <2>1, <2>2
      <3>2. QED
        BY <1>0, <2>1, <2>2, <3>1 DEF SvcTyped, ServiceTypeOK
    <2>4. CacheOK' /\ RevocationsOK'
      <3>1. \A n \in KeyNames : secrets[n].slow \in 0..MaxNow /\ secrets[n].until \in 0..(MaxNow + CacheTtl)
        BY <1>0 DEF ServiceTypeOK
      <3>2. MaxNow \in Nat
        BY ServiceAssumption
      <3>3. \A n \in KeyNames : secrets[n].slow \in Nat /\ secrets[n].until \in Nat
        BY <2>2, <3>1, <3>2
      <3>4. CacheOK'
        BY <1>0, <2>1, <2>2, <3>3 DEF CacheOK
      <3>5. RevocationsOK'
        BY <1>0, <2>1 DEF RevocationsOK, Exists
      <3>6. QED
        BY <3>4, <3>5
    <2>5. ThreadsOK'
      <3> SUFFICES ASSUME NEW w \in Services PROVE (CallOK(w) /\ KeyOK(w))'
        BY DEF ThreadsOK
      <3>1. CallOK(w)'
        BY <2>1, CallFields DEF CallOK, Exists
      <3>2. svc[w].at = "invalid" => issued[svc[w].jti].key # version'
        <4>1. svc[w].at = "invalid" => svc[w].jti \in Jtis
          BY CallFields DEF CallOK, Answers
        <4>2. \A j \in Jtis : issued[j].key \in 0..version
          BY <1>0 DEF ServiceTypeOK
        <4>3. \A j \in Jtis : issued[j].key # version'
          BY <2>1, <2>2, <4>2
        <4>4. QED
          BY <4>1, <4>3
      <3>3. KeyOK(w)'
        BY <2>1, <2>2, <3>2, CallFields DEF KeyOK
      <3>4. QED
        BY <3>1, <3>3
    <2>6. QED
      BY <2>3, <2>4, <2>5 DEF SvcInv
  <1>15. CASE ServiceTick
    <2>1. /\ UNCHANGED <<version, rotated, secrets, issued, revoked, revocations, svc>>
          /\ now < MaxNow /\ now' = now + 1
      BY <1>15 DEF ServiceTick
    <2>2. now \in Nat /\ MaxNow \in Nat /\ CacheTtl \in Nat
      <3>1. now \in 0..MaxNow /\ MaxNow \in Nat /\ CacheTtl \in Nat
        BY <1>0, ServiceAssumption DEF ServiceTypeOK
      <3>2. QED
        BY <3>1
    <2>3. SvcTyped'
      <3>1. now' \in 0..MaxNow
        BY <2>1, <2>2
      <3>2. QED
        BY <1>0, <2>1, <3>1 DEF SvcTyped, ServiceTypeOK
    <2>4. CacheOK'
      <3>1. rotated \in 0..MaxNow /\ \A n \in KeyNames : secrets[n].until \in 0..(MaxNow + CacheTtl)
        BY <1>0 DEF ServiceTypeOK
      <3>2. QED
        BY <1>0, <2>1, <2>2, <3>1 DEF CacheOK
    <2>5. RevocationsOK'
      <3>1. \A j \in Jtis : issued[j].exp \in 0..(MaxNow + JwtTtl) /\ JwtTtl \in Nat
        BY <1>0, ServiceAssumption DEF ServiceTypeOK
      <3>2. QED
        BY <1>0, <2>1, <2>2, <3>1 DEF RevocationsOK, Exists
    <2>6. ThreadsOK'
      <3> SUFFICES ASSUME NEW w \in Services PROVE (CallOK(w) /\ KeyOK(w))'
        BY DEF ThreadsOK
      <3>1. \A j \in Jtis : issued[j].exp <= now => issued[j].exp <= now'
        <4>1. \A j \in Jtis : issued[j].exp \in 0..(MaxNow + JwtTtl) /\ JwtTtl \in Nat
          BY <1>0, ServiceAssumption DEF ServiceTypeOK
        <4>2. QED
          BY <2>1, <2>2, <4>1
      <3>2. CallOK(w)'
        BY <2>1, <3>1, CallFields DEF CallOK, Exists, Answers
      <3>3. KeyOK(w)'
        BY <2>1, <2>2, CallFields DEF KeyOK
      <3>4. QED
        BY <3>2, <3>3
    <2>7. QED
      BY <2>3, <2>4, <2>5, <2>6 DEF SvcInv
  <1>16. CASE UNCHANGED serviceVars
    BY <1>0, <1>16 DEF serviceVars, SvcInv, SvcTyped, ServiceTypeOK, CacheOK, RevocationsOK, ThreadsOK, CallOK, KeyOK, Exists
  <1>17. QED
    BY <1>2, <1>3, <1>4, <1>5, <1>7, <1>8, <1>9, <1>10, <1>11, <1>12, <1>13, <1>14, <1>15, <1>16
       DEF ServiceNext, SvcOps

LEMMA SvcAlways == ServiceSpec => []SvcInv
  BY SvcInit, SvcStep, PTL DEF ServiceSpec

(* RevokedRefused (verify_token, InMemoryTokenStore): however checks, revocations, *)
(* purges and other threads interleave, a token revoked before verify_token was   *)
(* called is accepted only if it has expired since the look at exp.               *)
THEOREM RevokedAreRefused == ServiceSpec => []RevokedRefused
  <1>1. SvcInv => RevokedRefused
    BY DEF SvcInv, ThreadsOK, CallOK, RevokedRefused
  <1>2. QED
    BY <1>1, SvcAlways, PTL

(* CurrentVerifies (get_secret, refresh, verify_token): after a rotation the old  *)
(* public key is served for less than the cache's time to live and the time its   *)
(* own fetch took.                                                                *)
THEOREM CurrentKeysVerify == ServiceSpec => []CurrentVerifies
  <1>1. SvcInv => CurrentVerifies
    BY DEF SvcInv, ThreadsOK, KeyOK, CurrentVerifies
  <1>2. QED
    BY <1>1, SvcAlways, PTL

(* ServiceTypeOK: cached keys, expiry times and revocations keep their ranges. *)
THEOREM ServiceTypeCorrect == ServiceSpec => []ServiceTypeOK
  <1>1. SvcInv => ServiceTypeOK
    BY DEF SvcInv, SvcTyped
  <1>2. QED
    BY <1>1, SvcAlways, PTL

-------------------------------------------------------------------------------
(* PiiTokens: ciphers, tokens and the index                                  *)

Ciphers == [pii : Piis \cup {NoToken}, key : Nat, version : Nat, magic : BOOLEAN]
PiiJobs == [at : {"idle", "encrypt", "index"}, pii : Piis \cup {NoToken}, token : Tokens \cup {NoToken}]

PiiTyped ==
  /\ PiiTypeOK
  /\ ciphers \in [Tokens -> Ciphers]
  /\ piiJob \in [PiiThreads -> PiiJobs]

(* Under token t there is a ciphertext of p. *)
Keeps(t, p) == t \in Tokens /\ p \in Piis /\ ciphers[t] # NoCipher /\ ciphers[t].pii = p

(* What may have been made of a value under a key. *)
HeaderOK(t) ==
  LET c == ciphers[t] IN
    IF HasHeader(c)
    THEN /\ c.magic /\ c.version <= keyVersion
         /\ c.version \notin lateKeys /\ t \notin fellBack => c.key = KeyOf(c.version)
         /\ t \in fellBack => c.key = LegacyKey /\ c.version \in ownKeys
    ELSE c.key = LegacyKey /\ t \notin fellBack

HeadersOK  == \A t \in Tokens : HeaderOK(t)
JobsOK     == \A w \in PiiThreads :
  /\ piiJob[w].at = "encrypt" => piiJob[w].pii \in Piis
  /\ piiJob[w].at = "index" => Keeps(piiJob[w].token, piiJob[w].pii)
IndexOK    == \A p \in Piis : hashToToken[p] # NoToken => Keeps(hashToToken[p], p)
ReturnedOK == \A r \in returned : Keeps(r[2], r[1])

KeepInv == PiiTyped /\ HeadersOK /\ JobsOK /\ IndexOK /\ ReturnedOK

(***************************************************************************)
(* Calls that do not overlap.                                              *)
(***************************************************************************)
Busy(w) == piiJob[w].at # "idle"
OneAtATime    == \A v, w \in PiiThreads : Busy(v) /\ Busy(w) => v = w
NotYetIndexed == \A w \in PiiThreads : Busy(w) => hashToToken[piiJob[w].pii] = NoToken
AllIndexed    == \A r \in returned : hashToToken[r[1]] = r[2]

SerialInv == piiMode = "serial" => OneAtATime /\ NotYetIndexed /\ AllIndexed

LEMMA IdleJob == PiiIdle \in PiiJobs /\ PiiIdle.at = "idle"
  BY DEF PiiIdle, PiiJobs

LEMMA MadeCiphers ==
  ASSUME NEW p \in Piis, NEW magic \in BOOLEAN
  PROVE  /\ NoCipher \in Ciphers /\ ~HasHeader(NoCipher) /\ NoCipher.key = LegacyKey
         /\ LegacyCipher(p, magic) \in Ciphers /\ LegacyCipher(p, magic) # NoCipher
         /\ ~HasHeader(LegacyCipher(p, magic)) /\ LegacyCipher(p, magic).pii = p
         /\ LegacyCipher(p, magic).key = LegacyKey /\ LegacyCipher(p, magic).version = 0
  <1>1. NoCipher.pii = NoToken /\ p # NoToken
    BY PiiAssumption DEF NoCipher
  <1>2. NoCipher \in Ciphers /\ ~HasHeader(NoCipher) /\ NoCipher.key = LegacyKey
    BY DEF NoCipher, Ciphers, HasHeader, LegacyKey
  <1>3. /\ LegacyCipher(p, magic) \in Ciphers /\ LegacyCipher(p, magic).pii = p
        /\ ~HasHeader(LegacyCipher(p, magic)) /\ LegacyCipher(p, magic).key = LegacyKey
        /\ LegacyCipher(p, magic).version = 0
    BY DEF LegacyCipher, Ciphers, HasHeader, LegacyKey
  <1>4. QED
    BY <1>1, <1>2, <1>3

LEMMA MadeCipher ==
  ASSUME NEW p \in Piis, NEW key \in KeysHad(keyVersion), keyVersion \in Nat \ {0}, ownKeys \subseteq Nat
  PROVE  /\ Cipher(p, key) \in Ciphers /\ Cipher(p, key) # NoCipher /\ HasHeader(Cipher(p, key))
         /\ Cipher(p, key).pii = p /\ Cipher(p, key).magic /\ Cipher(p, key).version = keyVersion
         /\ Cipher(p, key).key = key
  <1>1. key \in Nat
    BY DEF KeysHad, KeyOf, LegacyKey
  <1>2. NoCipher.pii = NoToken /\ p # NoToken
    BY PiiAssumption DEF NoCipher
  <1>3. /\ Cipher(p, key) \in Ciphers /\ HasHeader(Cipher(p, key)) /\ Cipher(p, key).pii = p
        /\ Cipher(p, key).magic /\ Cipher(p, key).version = keyVersion /\ Cipher(p, key).key = key
    BY <1>1 DEF Cipher, Ciphers, HasHeader
  <1>4. QED
    BY <1>2, <1>3

LEMMA KeepInit == PiiInit => KeepInv
  <1> SUFFICES ASSUME PiiInit PROVE KeepInv
    OBVIOUS
  <1>1. keyVersion = 1 /\ ownKeys \subseteq 1..MaxKey /\ ownKeys \subseteq Nat /\ lateKeys = {} /\ fellBack = {}
        /\ keyVersion \in 1..MaxKey /\ piiJob = [w \in PiiThreads |-> PiiIdle]
    BY PiiAssumption DEF PiiInit
  <1>2. piiJob \in [PiiThreads -> PiiJobs] /\ JobsOK
    BY <1>1, IdleJob DEF JobsOK
  <1>3. CASE /\ hashToToken = [p \in Piis |-> NoToken]
             /\ ciphers = [t \in Tokens |-> NoCipher]
             /\ returned = {}
    <2>1. NoCipher \in Ciphers /\ ~HasHeader(NoCipher) /\ NoCipher.key = LegacyKey
      BY DEF NoCipher, Ciphers, HasHeader, LegacyKey
    <2>2. HeadersOK /\ IndexOK /\ ReturnedOK
      BY <1>1, <1>3, <2>1 DEF HeadersOK, HeaderOK, IndexOK, ReturnedOK
    <2>3. PiiTyped
      BY <1>1, <1>2, <1>3, <2>1 DEF PiiTyped, PiiTypeOK
    <2>4. QED
      BY <1>2, <2>2, <2>3 DEF KeepInv
  <1>4. ASSUME NEW p \in Piis, NEW magic \in BOOLEAN, NEW t \in Tokens,
               hashToToken = [q \in Piis |-> IF q = p THEN t ELSE NoToken],
               ciphers = [u \in Tokens |-> IF u = t THEN LegacyCipher(p, magic) ELSE NoCipher],
               returned = {<<p, t>>}
        PROVE  KeepInv
    <2> DEFINE c == LegacyCipher(p, magic)
    <2>1. /\ NoCipher \in Ciphers /\ ~HasHeader(NoCipher) /\ NoCipher.key = LegacyKey
          /\ c \in Ciphers /\ c # NoCipher /\ ~HasHeader(c) /\ c.pii = p /\ c.key = LegacyKey
          /\ c.version = 0
      BY MadeCiphers
    <2> HIDE DEF c
    <2>2. ciphers = [u \in Tokens |-> IF u = t THEN c ELSE NoCipher]
      BY <1>4 DEF c
    <2>3. Keeps(t, p)
      BY <2>1, <2>2 DEF Keeps
    <2>4. HeadersOK
      BY <1>1, <2>1, <2>2 DEF HeadersOK, HeaderOK
    <2>5. IndexOK /\ ReturnedOK
      BY <1>4, <2>3 DEF IndexOK, ReturnedOK
    <2>6. PiiTyped
      <3>1. \A u \in Tokens : ciphers[u] = NoCipher \/ (ciphers[u].pii \in Piis /\ ciphers[u].version \in 0..keyVersion)
        BY <1>1, <2>1, <2>2
      <3>2. hashToToken \in [Piis -> Tokens \cup {NoToken}] /\ returned \subseteq Piis \X Tokens
        BY <1>4
      <3>3. QED
        BY <1>1, <1>2, <2>1, <2>2, <3>1, <3>2 DEF PiiTyped, PiiTypeOK
    <2>7. QED
      BY <1>2, <2>4, <2>5, <2>6 DEF KeepInv
  <1>5. QED
    BY <1>3, <1>4 DEF PiiInit

LEMMA KeepTypes ==
  ASSUME KeepInv
  PROVE  /\ keyVersion \in Nat \ {0} /\ MaxKey \in Nat /\ keyVersion \in 1..MaxKey
         /\ ownKeys \subseteq Nat /\ ownKeys \subseteq 1..MaxKey /\ lateKeys \subseteq ownKeys
         /\ ciphers \in [Tokens -> Ciphers] /\ piiJob \in [PiiThreads -> PiiJobs]
         /\ hashToToken \in [Piis -> Tokens \cup {NoToken}] /\ returned \subseteq Piis \X Tokens
         /\ NoToken \notin Tokens /\ NoToken \notin Piis
  <1>1. keyVersion \in 1..MaxKey /\ MaxKey \in 1..255 /\ ownKeys \subseteq 1..MaxKey /\ lateKeys \subseteq ownKeys
    BY PiiAssumption DEF KeepInv, PiiTyped, PiiTypeOK
  <1>2. MaxKey \in Nat /\ keyVersion \in Nat \ {0} /\ ownKeys \subseteq Nat
    BY <1>1
  <1>3. QED
    BY <1>1, <1>2, PiiAssumption DEF KeepInv, PiiTyped, PiiTypeOK

(* While ciphertexts only come to tokens that have none, each keeps its value. *)
LEMMA KeepsStays ==
  ASSUME NEW t, NEW p, Keeps(t, p), ciphers[t] # NoCipher => ciphers'[t] = ciphers[t]
  PROVE  Keeps(t, p)'
  BY DEF Keeps

(* A thread that takes up a job or returns, and nothing is stored. *)
LEMMA KeepJob ==
  ASSUME KeepInv, NEW w \in PiiThreads, NEW j \in PiiJobs,
         piiJob' = [piiJob EXCEPT ![w] = j], j.at = "encrypt" => j.pii \in Piis, j.at # "index",
         UNCHANGED <<keyVersion, ownKeys, lateKeys, hashToToken, ciphers, fellBack, returned>>
  PROVE  KeepInv'
  <1>1. piiJob' \in [PiiThreads -> PiiJobs] /\ piiJob'[w] = j
        /\ \A v \in PiiThreads : v # w => piiJob'[v] = piiJob[v]
    BY KeepTypes
  <1>2. PiiTyped'
    BY <1>1 DEF KeepInv, PiiTyped, PiiTypeOK
  <1>3. \A t, p : Keeps(t, p) => Keeps(t, p)'
    BY KeepsStays
  <1>4. HeadersOK'
    BY DEF KeepInv, HeadersOK, HeaderOK, HasHeader, KeyOf
  <1>5. JobsOK'
    BY <1>1, <1>3 DEF KeepInv, JobsOK
  <1>6. IndexOK' /\ ReturnedOK'
    BY <1>3 DEF KeepInv, IndexOK, ReturnedOK
  <1>7. QED
    BY <1>2, <1>4, <1>5, <1>6 DEF KeepInv

LEMMA KeepGetToken ==
  ASSUME KeepInv, NEW w \in PiiThreads, NEW p \in Piis, GetToken(w, p)
  PROVE  KeepInv'
  <1>1. UNCHANGED <<keyVersion, ownKeys, lateKeys, hashToToken, ciphers, fellBack>>
    BY DEF GetToken
  <1>2. CASE hashToToken[p] # NoToken
    <2>1. piiJob' = [piiJob EXCEPT ![w] = PiiIdle] /\ returned' = returned \cup {<<p, hashToToken[p]>>}
      BY <1>2 DEF GetToken, PiiReturn
    <2>2. Keeps(hashToToken[p], p)
      BY <1>2 DEF KeepInv, IndexOK
    <2>3. piiJob' \in [PiiThreads -> PiiJobs] /\ piiJob'[w].at = "idle"
          /\ \A v \in PiiThreads : v # w => piiJob'[v] = piiJob[v]
      BY <2>1, IdleJob, KeepTypes
    <2>4. \A t, q : Keeps(t, q) => Keeps(t, q)'
      BY <1>1, KeepsStays
    <2>5. PiiTyped'
      BY <1>1, <2>1, <2>2, <2>3 DEF KeepInv, PiiTyped, PiiTypeOK, Keeps
    <2>6. HeadersOK'
      BY <1>1 DEF KeepInv, HeadersOK, HeaderOK, HasHeader, KeyOf
    <2>7. JobsOK'
      BY <2>3, <2>4 DEF KeepInv, JobsOK
    <2>8. IndexOK'
      BY <1>1, <2>4 DEF KeepInv, IndexOK
    <2>9. ReturnedOK'
      BY <2>1, <2>2, <2>4 DEF KeepInv, ReturnedOK
    <2>10. QED
      BY <2>5, <2>6, <2>7, <2>8, <2>9 DEF KeepInv
  <1>3. CASE hashToToken[p] = NoToken
    <2> DEFINE j == [at |-> "encrypt", pii |-> p, token |-> NoToken]
    <2>1. j \in PiiJobs /\ j.at = "encrypt" /\ j.pii = p
      BY DEF PiiJobs
    <2>2. piiJob' = [piiJob EXCEPT ![w] = j] /\ UNCHANGED returned
      BY <1>3 DEF GetToken, PiiGoto
    <2> HIDE DEF j
    <2>3. QED
      BY <1>1, <2>1, <2>2, KeepJob
  <1>4. QED
    BY <1>2, <1>3

(* Encrypt writes a new ciphertext of its value under a token that had none. *)
LEMMA EncryptWrites ==
  ASSUME KeepInv, NEW w \in PiiThreads, Encrypt(w)
  PROVE  \E t \in Tokens, p \in Piis, key \in KeysHad(keyVersion) :
           /\ ciphers[t] = NoCipher /\ p = piiJob[w].pii /\ Busy(w)
           /\ fellBack' = IF key = KeyOf(keyVersion) THEN fellBack ELSE fellBack \cup {t}
           /\ ciphers' = [ciphers EXCEPT ![t] = Cipher(p, key)]
           /\ piiJob' = [piiJob EXCEPT ![w] = [at |-> "index", pii |-> p, token |-> t]]
           /\ UNCHANGED <<keyVersion, ownKeys, lateKeys, hashToToken, piiMode, returned>>
  BY DEF KeepInv, JobsOK, Encrypt, Drawn, PiiGoto, Busy

LEMMA KeepEncrypt ==
  ASSUME KeepInv, NEW w \in PiiThreads, Encrypt(w)
  PROVE  KeepInv'
  <1>1. PICK t \in Tokens, p \in Piis, key \in KeysHad(keyVersion) :
           /\ ciphers[t] = NoCipher
           /\ fellBack' = IF key = KeyOf(keyVersion) THEN fellBack ELSE fellBack \cup {t}
           /\ ciphers' = [ciphers EXCEPT ![t] = Cipher(p, key)]
           /\ piiJob' = [piiJob EXCEPT ![w] = [at |-> "index", pii |-> p, token |-> t]]
           /\ UNCHANGED <<keyVersion, ownKeys, lateKeys, hashToToken, piiMode, returned>>
    BY EncryptWrites
  <1> DEFINE c == Cipher(p, key)
             j == [at |-> "index", pii |-> p, token |-> t]
  <1>2. /\ c \in Ciphers /\ c # NoCipher /\ HasHeader(c) /\ c.pii = p /\ c.magic
        /\ c.version = keyVersion /\ c.key = key
    <2>1. keyVersion \in Nat \ {0} /\ ownKeys \subseteq Nat
      BY KeepTypes
    <2>2. QED
      BY <1>1, <2>1, MadeCipher
  <1>3. j \in PiiJobs /\ j.at = "index" /\ j.pii = p /\ j.token = t
    BY <1>1 DEF PiiJobs
  <1>4. ciphers' = [ciphers EXCEPT ![t] = c] /\ piiJob' = [piiJob EXCEPT ![w] = j] /\ p \in Piis
    BY <1>1
  <1> HIDE DEF c, j
  <1>5. /\ ciphers' \in [Tokens -> Ciphers] /\ ciphers'[t] = c
        /\ \A u \in Tokens : u # t => ciphers'[u] = ciphers[u]
    BY <1>2, <1>4, KeepTypes
  <1>6. /\ piiJob' \in [PiiThreads -> PiiJobs] /\ piiJob'[w] = j
        /\ \A v \in PiiThreads : v # w => piiJob'[v] = piiJob[v]
    BY <1>3, <1>4, KeepTypes
  <1>7. \A u, q : Keeps(u, q) => Keeps(u, q)'
    BY <1>1, <1>5, KeepsStays DEF Keeps
  <1>8. Keeps(t, p)'
    BY <1>2, <1>4, <1>5 DEF Keeps
  <1>9. PiiTyped'
    <2>1. keyVersion \in 0..keyVersion
      BY KeepTypes
    <2>2. \A u \in Tokens : ciphers'[u] = NoCipher \/ (ciphers'[u].pii \in Piis /\ ciphers'[u].version \in 0..keyVersion)
      BY <1>2, <1>4, <1>5, <2>1 DEF KeepInv, PiiTyped, PiiTypeOK
    <2>3. QED
      BY <1>1, <1>5, <1>6, <2>2 DEF KeepInv, PiiTyped, PiiTypeOK
  <1>10. HeadersOK'
    <2> SUFFICES ASSUME NEW u \in Tokens PROVE HeaderOK(u)'
      BY DEF HeadersOK
    <2>1. CASE u = t
      <3>1. keyVersion <= keyVersion
        BY KeepTypes
      <3>2. ~HasHeader(NoCipher)
        BY DEF HasHeader, NoCipher
      <3>3. t \notin fellBack
        BY <1>1, <3>2 DEF KeepInv, HeadersOK, HeaderOK
      <3>4. key # KeyOf(keyVersion) => key = LegacyKey /\ keyVersion \in ownKeys
        BY DEF KeysHad, KeyOf
      <3>5. t \in fellBack' <=> key # KeyOf(keyVersion)
        BY <1>1, <3>3
      <3>6. QED
        BY <1>1, <1>2, <1>5, <2>1, <3>1, <3>4, <3>5 DEF HeaderOK, HasHeader, KeyOf
    <2>2. CASE u # t
      <3>1. u \in fellBack' <=> u \in fellBack
        BY <1>1, <2>2
      <3>2. QED
        BY <1>1, <1>5, <2>2, <3>1 DEF KeepInv, HeadersOK, HeaderOK, HasHeader, KeyOf
    <2>3. QED
      BY <2>1, <2>2
  <1>11. JobsOK'
    <2> SUFFICES ASSUME NEW v \in PiiThreads
                 PROVE  /\ piiJob'[v].at = "encrypt" => piiJob'[v].pii \in Piis
                        /\ piiJob'[v].at = "index" => Keeps(piiJob[v].token, piiJob[v].pii)'
      BY DEF JobsOK
    <2>1. CASE v = w
      BY <1>3, <1>6, <1>8, <2>1
    <2>2. CASE v # w
      BY <1>6, <1>7, <2>2 DEF KeepInv, JobsOK
    <2>3. QED
      BY <2>1, <2>2
  <1>12. IndexOK' /\ ReturnedOK'
    BY <1>1, <1>7 DEF KeepInv, IndexOK, ReturnedOK
  <1>13. QED
    BY <1>9, <1>10, <1>11, <1>12 DEF KeepInv

LEMMA KeepIndex ==
  ASSUME KeepInv, NEW w \in PiiThreads, Index(w)
  PROVE  KeepInv'
  <1> DEFINE p == piiJob[w].pii
             t == piiJob[w].token
  <1>1. /\ hashToToken' = [hashToToken EXCEPT ![p] = t] /\ returned' = returned \cup {<<p, t>>}
        /\ piiJob' = [piiJob EXCEPT ![w] = PiiIdle] /\ UNCHANGED <<keyVersion, ownKeys, lateKeys, ciphers, fellBack>>
    BY DEF Index, PiiReturn
  <1>2. Keeps(t, p)
    BY DEF Index, KeepInv, JobsOK
  <1> HIDE DEF p, t
  <1>3. p \in Piis /\ t \in Tokens
    BY <1>2 DEF Keeps
  <1>4. /\ piiJob' \in [PiiThreads -> PiiJobs] /\ piiJob'[w].at = "idle"
        /\ \A v \in PiiThreads : v # w => piiJob'[v] = piiJob[v]
    BY <1>1, IdleJob, KeepTypes
  <1>5. \A u, q : Keeps(u, q) => Keeps(u, q)'
    BY <1>1, KeepsStays
  <1>6. PiiTyped'
    BY <1>1, <1>3, <1>4 DEF KeepInv, PiiTyped, PiiTypeOK
  <1>7. HeadersOK'
    BY <1>1 DEF KeepInv, HeadersOK, HeaderOK, HasHeader, KeyOf
  <1>8. JobsOK'
    BY <1>4, <1>5 DEF KeepInv, JobsOK
  <1>9. \A q \in Piis : hashToToken'[q] = hashToToken[q] \/ (q = p /\ hashToToken'[q] = t)
    BY <1>1, KeepTypes
  <1>10. IndexOK'
    BY <1>2, <1>5, <1>9 DEF KeepInv, IndexOK
  <1>11. ReturnedOK'
    BY <1>1, <1>2, <1>5 DEF KeepInv, ReturnedOK
  <1>12. QED
    BY <1>6, <1>7, <1>8, <1>10, <1>11 DEF KeepInv

LEMMA KeepInstallKey ==
  ASSUME KeepInv, NEW v \in 1..MaxKey, InstallKey(v)
  PROVE  KeepInv'
  <1>1. /\ v \notin ownKeys /\ ownKeys' = ownKeys \cup {v}
        /\ lateKeys' = IF v <= keyVersion THEN lateKeys \cup {v} ELSE lateKeys
        /\ UNCHANGED <<keyVersion, hashToToken, ciphers, fellBack, piiMode, piiJob, returned>>
    BY DEF InstallKey
  <1>2. PiiTyped'
    BY <1>1 DEF KeepInv, PiiTyped, PiiTypeOK
  <1>3. HeadersOK'
    <2> SUFFICES ASSUME NEW t \in Tokens PROVE HeaderOK(t)'
      BY DEF HeadersOK
    <2>1. HeaderOK(t)
      BY DEF KeepInv, HeadersOK
    <2>2. ASSUME HasHeader(ciphers[t]), ciphers[t].version \notin lateKeys', t \notin fellBack
          PROVE  ciphers[t].key = KeyOf(ciphers[t].version)'
      <3>1. /\ ciphers[t].version <= keyVersion /\ ciphers[t].version \notin lateKeys
            /\ ciphers[t].key = KeyOf(ciphers[t].version)
        BY <1>1, <2>1, <2>2 DEF HeaderOK
      <3>2. ciphers[t].version # v
        BY <1>1, <2>2, <3>1
      <3>3. QED
        BY <1>1, <3>1, <3>2 DEF KeyOf
    <2>3. QED
      BY <1>1, <2>1, <2>2 DEF HeaderOK, HasHeader
  <1>4. JobsOK' /\ IndexOK' /\ ReturnedOK'
    BY <1>1 DEF KeepInv, JobsOK, IndexOK, ReturnedOK, Keeps
  <1>5. QED
    BY <1>2, <1>3, <1>4 DEF KeepInv

LEMMA KeepRedeploy ==
  ASSUME KeepInv, Redeploy
  PROVE  KeepInv'
  <1>1. /\ keyVersion' = keyVersion + 1 /\ keyVersion' \in 1..MaxKey /\ keyVersion \in Nat
        /\ piiJob' = [w \in PiiThreads |-> PiiIdle] /\ UNCHANGED <<ownKeys, lateKeys>>
    BY KeepTypes DEF Redeploy
  <1>2. piiJob' \in [PiiThreads -> PiiJobs] /\ JobsOK'
    BY <1>1, IdleJob DEF JobsOK
  <1>3. CASE UNCHANGED <<hashToToken, ciphers, fellBack, returned>>
    <2>1. PiiTyped'
      <3>1. \A n \in 0..keyVersion : n \in 0..keyVersion'
        BY <1>1
      <3>2. QED
        BY <1>1, <1>2, <1>3, <3>1 DEF KeepInv, PiiTyped, PiiTypeOK
    <2>2. HeadersOK'
      <3> SUFFICES ASSUME NEW t \in Tokens PROVE HeaderOK(t)'
        BY DEF HeadersOK
      <3>1. HeaderOK(t) /\ ciphers[t].version \in Nat
        BY KeepTypes DEF KeepInv, HeadersOK, Ciphers
      <3>2. ciphers[t].version <= keyVersion => ciphers[t].version <= keyVersion'
        BY <1>1, <3>1
      <3>3. QED
        BY <1>1, <1>3, <3>1, <3>2 DEF HeaderOK, HasHeader, KeyOf
    <2>3. IndexOK' /\ ReturnedOK'
      BY <1>3 DEF KeepInv, IndexOK, ReturnedOK, Keeps
    <2>4. QED
      BY <1>2, <2>1, <2>2, <2>3 DEF KeepInv
  <1>4. CASE /\ hashToToken' = [p \in Piis |-> NoToken]
             /\ ciphers' = [t \in Tokens |-> NoCipher] /\ fellBack' = {} /\ returned' = {}
    <2>1. NoCipher \in Ciphers /\ ~HasHeader(NoCipher) /\ NoCipher.key = LegacyKey
      BY DEF NoCipher, Ciphers, HasHeader, LegacyKey
    <2>2. HeadersOK'
      BY <1>4, <2>1 DEF HeadersOK, HeaderOK, HasHeader
    <2>3. IndexOK' /\ ReturnedOK'
      BY <1>4 DEF IndexOK, ReturnedOK
    <2>4. PiiTyped'
      BY <1>1, <1>2, <1>4, <2>1 DEF KeepInv, PiiTyped, PiiTypeOK
    <2>5. QED
      BY <1>2, <2>2, <2>3, <2>4 DEF KeepInv
  <1>5. QED
    BY <1>3, <1>4 DEF Redeploy

LEMMA KeepSecretMissing ==
  ASSUME KeepInv, NEW w \in PiiThreads, SecretMissing(w)
  PROVE  KeepInv'
  BY IdleJob, KeepJob DEF SecretMissing

LEMMA KeepStep == KeepInv /\ [PiiNext]_piiVars => KeepInv'
  <1> SUFFICES ASSUME KeepInv, [PiiNext]_piiVars PROVE KeepInv'
    OBVIOUS
  <1>1. CASE PiiNext
    BY <1>1, KeepGetToken, KeepEncrypt, KeepSecretMissing, KeepIndex, KeepInstallKey, KeepRedeploy DEF PiiNext
  <1>2. CASE UNCHANGED piiVars
    BY <1>2 DEF piiVars, KeepInv, PiiTyped, PiiTypeOK, HeadersOK, HeaderOK, HasHeader, KeyOf,
                JobsOK, IndexOK, ReturnedOK, Keeps
  <1>3. QED
    BY <1>1, <1>2

(***************************************************************************)
(* Calls that do not overlap.                                              *)
(***************************************************************************)
LEMMA SerialInit == PiiInit => SerialInv
  <1>1. PiiInit => \A w \in PiiThreads : ~Busy(w)
    BY IdleJob DEF PiiInit, Busy
  <1>2. PiiInit => AllIndexed
    BY DEF PiiInit, AllIndexed
  <1>3. QED
    BY <1>1, <1>2 DEF SerialInv, OneAtATime, NotYetIndexed

LEMMA SerialStep == KeepInv /\ SerialInv /\ [PiiNext]_piiVars => SerialInv'
  <1> SUFFICES ASSUME KeepInv, SerialInv, [PiiNext]_piiVars, piiMode' = "serial"
               PROVE  OneAtATime' /\ NotYetIndexed' /\ AllIndexed'
    BY DEF SerialInv
  <1>0. piiMode = "serial" /\ OneAtATime /\ NotYetIndexed /\ AllIndexed
    BY DEF PiiNext, GetToken, Encrypt, SecretMissing, Index, InstallKey, Redeploy, piiVars, SerialInv
  <1>1. ASSUME NEW w \in PiiThreads, NEW j \in PiiJobs, piiJob' = [piiJob EXCEPT ![w] = j],
               UNCHANGED hashToToken, AllIndexed',
               j.at = "idle" \/ /\ \A v \in PiiThreads : Busy(v) => v = w
                                /\ hashToToken[j.pii] = NoToken
        PROVE  OneAtATime' /\ NotYetIndexed' /\ AllIndexed'
    <2>1. piiJob'[w] = j /\ \A v \in PiiThreads : v # w => piiJob'[v] = piiJob[v]
      BY <1>1, KeepTypes
    <2>2. OneAtATime'
      BY <1>0, <1>1, <2>1 DEF OneAtATime, Busy
    <2>3. NotYetIndexed'
      BY <1>0, <1>1, <2>1 DEF NotYetIndexed, Busy
    <2>4. QED
      BY <1>1, <2>2, <2>3
  <1>2. ASSUME NEW w \in PiiThreads, NEW p \in Piis, GetToken(w, p)
        PROVE  OneAtATime' /\ NotYetIndexed' /\ AllIndexed'
    <2>1. UNCHANGED hashToToken /\ \A v \in PiiThreads : ~Busy(v)
      BY <1>0, <1>2 DEF GetToken, Busy
    <2>2. CASE hashToToken[p] # NoToken
      <3>1. piiJob' = [piiJob EXCEPT ![w] = PiiIdle] /\ returned' = returned \cup {<<p, hashToToken[p]>>}
        BY <1>2, <2>2 DEF GetToken, PiiReturn
      <3>2. AllIndexed'
        BY <1>0, <2>1, <3>1 DEF AllIndexed
      <3>3. QED
        BY <1>1, <2>1, <3>1, <3>2, IdleJob
    <2>3. CASE hashToToken[p] = NoToken
      <3> DEFINE j == [at |-> "encrypt", pii |-> p, token |-> NoToken]
      <3>1. j \in PiiJobs /\ j.pii = p
        BY DEF PiiJobs
      <3>2. piiJob' = [piiJob EXCEPT ![w] = j] /\ UNCHANGED returned
        BY <1>2, <2>3 DEF GetToken, PiiGoto
      <3> HIDE DEF j
      <3>3. AllIndexed'
        BY <1>0, <2>1, <3>2 DEF AllIndexed
      <3>4. QED
        BY <1>1, <2>1, <2>3, <3>1, <3>2, <3>3
    <2>4. QED
      BY <2>2, <2>3
  <1>3. ASSUME NEW w \in PiiThreads, Encrypt(w)
        PROVE  OneAtATime' /\ NotYetIndexed' /\ AllIndexed'
    <2>1. PICK t \in Tokens, p \in Piis, key \in KeysHad(keyVersion) :
             /\ p = piiJob[w].pii /\ Busy(w)
             /\ piiJob' = [piiJob EXCEPT ![w] = [at |-> "index", pii |-> p, token |-> t]]
             /\ UNCHANGED <<hashToToken, returned>>
      BY <1>3, EncryptWrites
    <2> DEFINE j == [at |-> "index", pii |-> p, token |-> t]
    <2>2. j \in PiiJobs /\ j.pii = p /\ piiJob' = [piiJob EXCEPT ![w] = j]
      BY <2>1 DEF PiiJobs
    <2> HIDE DEF j
    <2>3. hashToToken[p] = NoToken /\ \A v \in PiiThreads : Busy(v) => v = w
      BY <1>0, <2>1 DEF OneAtATime, NotYetIndexed
    <2>4. AllIndexed'
      BY <1>0, <2>1 DEF AllIndexed
    <2>5. QED
      BY <1>1, <2>1, <2>2, <2>3, <2>4
  <1>4. ASSUME NEW w \in PiiThreads, SecretMissing(w)
        PROVE  OneAtATime' /\ NotYetIndexed' /\ AllIndexed'
    <2>1. piiJob' = [piiJob EXCEPT ![w] = PiiIdle] /\ UNCHANGED <<hashToToken, returned>>
      BY <1>4 DEF SecretMissing
    <2>2. AllIndexed'
      BY <1>0, <2>1 DEF AllIndexed
    <2>3. QED
      BY <1>1, <2>1, <2>2, IdleJob
  <1>5. ASSUME NEW w \in PiiThreads, Index(w)
        PROVE  OneAtATime' /\ NotYetIndexed' /\ AllIndexed'
    <2>1. PICK p \in Piis, t \in Tokens :
             /\ hashToToken' = [hashToToken EXCEPT ![p] = t] /\ returned' = returned \cup {<<p, t>>}
             /\ piiJob' = [piiJob EXCEPT ![w] = PiiIdle]
             /\ p = piiJob[w].pii /\ Busy(w)
      BY <1>5 DEF Index, PiiReturn, KeepInv, JobsOK, Keeps, Busy
    <2>2. \A v \in PiiThreads : piiJob'[v].at = "idle"
      <3>1. \A v \in PiiThreads : v # w => ~Busy(v)
        BY <1>0, <2>1 DEF OneAtATime
      <3>2. QED
        BY <2>1, <3>1, IdleJob, KeepTypes DEF Busy
    <2>3. hashToToken[p] = NoToken
      BY <1>0, <2>1 DEF NotYetIndexed
    <2>4. \A r \in returned : r[1] \in Piis /\ r[2] \in Tokens
      BY KeepTypes
    <2>5. \A r \in returned : r[1] # p
      BY <1>0, <2>3, <2>4, KeepTypes DEF AllIndexed
    <2>6. AllIndexed'
      BY <1>0, <2>1, <2>4, <2>5, KeepTypes DEF AllIndexed
    <2>7. QED
      BY <2>2, <2>6 DEF OneAtATime, NotYetIndexed, Busy
  <1>6. ASSUME NEW v \in 1..MaxKey, InstallKey(v)
        PROVE  OneAtATime' /\ NotYetIndexed' /\ AllIndexed'
    BY <1>0, <1>6 DEF InstallKey, OneAtATime, NotYetIndexed, AllIndexed, Busy
  <1>7. CASE Redeploy
    <2>1. \A w \in PiiThreads : piiJob'[w].at = "idle"
      BY <1>7, IdleJob DEF Redeploy
    <2>2. AllIndexed'
      BY <1>0, <1>7 DEF Redeploy, AllIndexed
    <2>3. QED
      BY <2>1, <2>2 DEF OneAtATime, NotYetIndexed, Busy
  <1>8. CASE UNCHANGED piiVars
    BY <1>0, <1>8 DEF piiVars, OneAtATime, NotYetIndexed, AllIndexed, Busy
  <1>9. QED
    BY <1>2, <1>3, <1>4, <1>5, <1>6, <1>7, <1>8 DEF PiiNext

LEMMA KeepAlways == PiiSpec => [](KeepInv /\ SerialInv)
  <1>1. KeepInv /\ SerialInv /\ [PiiNext]_piiVars => (KeepInv /\ SerialInv)'
    BY KeepStep, SerialStep
  <1>2. QED
    BY <1>1, KeepInit, SerialInit, PTL DEF PiiSpec

(* The types of PIIEncryptor and TokenStore. *)
THEOREM PiiTypeCorrect == PiiSpec => []PiiTypeOK
  <1>1. KeepInv => PiiTypeOK
    BY DEF KeepInv, PiiTyped
  <1>2. QED
    BY <1>1, KeepAlways, PTL

(* TokensRestore (encrypt, decrypt, tokenize, detokenize): however calls overlap,  *)
(* however often the key is renewed and whichever fetches of it fail, detokenize   *)
(* gives back the value, with the three exceptions the property names.             *)
THEOREM TokensAreRestored == PiiSpec => []TokensRestore
  <1>1. KeepInv => TokensRestore
    <2> SUFFICES ASSUME KeepInv PROVE TokensRestore
      OBVIOUS
    <2>1. \A p \in Piis : hashToToken[p] # NoToken => ciphers[hashToToken[p]].pii = p
      BY DEF KeepInv, IndexOK, Keeps
    <2>2. ASSUME NEW r \in returned
          PROVE  r[2] \in Tokens /\ ciphers[r[2]].pii = r[1] /\ HeaderOK(r[2])
      BY DEF KeepInv, ReturnedOK, HeadersOK, Keeps
    <2>3. ASSUME NEW r \in returned, Restorable(r[2]) PROVE Detokenize(r[2]) = r[1]
      <3>1. Decrypts(ciphers[r[2]])
        BY <2>2, <2>3 DEF HeaderOK, Restorable, Decrypts, KeyOf
      <3>2. QED
        BY <2>2, <3>1 DEF Detokenize
    <2>4. ASSUME NEW r \in returned, r[2] \in fellBack PROVE Detokenize(r[2]) = NoToken
      <3> DEFINE c == ciphers[r[2]]
      <3>1. HasHeader(c) /\ c.magic /\ c.key = LegacyKey /\ KeyOf(c.version) = c.version
        BY <2>2, <2>4 DEF HeaderOK, KeyOf
      <3>2. c.key # KeyOf(c.version)
        BY <3>1 DEF HasHeader, LegacyKey
      <3>3. QED
        BY <3>1, <3>2 DEF Detokenize, Decrypts
    <2>5. QED
      BY <2>1, <2>3, <2>4 DEF TokensRestore
  <1>2. QED
    BY <1>1, KeepAlways, PTL

(* SerialOneToken (tokenize): without overlapping calls a value gets one token, *)
(* also when a call fails between the lookup and the store.                     *)
THEOREM OneTokenPerValue == PiiSpec => []SerialOneToken
  <1>1. SerialInv => SerialOneToken
    BY DEF SerialInv, AllIndexed, SerialOneToken, OneToken
  <1>2. QED
    BY <1>1, KeepAlways, PTL

-------------------------------------------------------------------------------
(* CallerAuth: attempts, lookups and the counts of failures                  *)

AuthOps  == {"free", "authenticate", "lookup", "asking"}
AuthJobs == [op : AuthOps, s : Callers \cup {""}, type : AuthTypes \cup {""}, count : Nat]
Results  == [answer : AuthAnswers, count : Nat, switch : BOOLEAN]

(* The types, without the bound on the attempts. *)
AuthTyped ==
  /\ failureCounts \in [Callers -> Nat] /\ lookupCounts \in [Callers -> Nat]
  /\ refused \in [Callers -> Nat] /\ lookups \in [Callers -> Nat]
  /\ result \in [Callers -> Results]
  /\ authJob \in [AuthThreads -> AuthJobs]
  /\ \A w \in AuthThreads : authJob[w].op # "free" => authJob[w].s \in Callers

(* A caller is served by one thread, *)
Alone == \A v, w \in AuthThreads :
  v # w /\ authJob[v].op # "free" /\ authJob[w].op # "free" => authJob[v].s # authJob[w].s

(* which still knows the count, *)
CountKnown == \A w \in AuthThreads :
  /\ authJob[w].op = "authenticate" => authJob[w].count = failureCounts[authJob[w].s]
  /\ authJob[w].op = "lookup" => authJob[w].count = 0 /\ lookupCounts[authJob[w].s] = 0

(* and the counts are those of the database. *)
Refusals == \A s \in Callers :
  /\ failureCounts[s] = refused[s]
  /\ result[s].answer = "accepted" \/ result[s].switch => refused[s] < MaxAttempts

Lookups == \A s \in Callers :
  /\ lookups[s] <= lookupCounts[s] /\ lookupCounts[s] <= 1
  /\ \A w \in AuthThreads :
       authJob[w].op = "asking" /\ authJob[w].s = s => lookups[s] = 0 /\ lookupCounts[s] = 1

AuthInv == AuthTyped /\ (authMode = "serial" => Alone /\ CountKnown /\ Refusals /\ Lookups)

LEMMA AuthInvInit == AuthInit => AuthInv
  <1> SUFFICES ASSUME AuthInit PROVE AuthInv
    OBVIOUS
  <1>1. AuthFree \in AuthJobs /\ AuthFree.op = "free"
    BY DEF AuthFree, AuthJobs, AuthOps
  <1>2. NoResult \in Results /\ ~NoResult.switch /\ NoResult.answer # "accepted"
    BY DEF NoResult, Results, AuthAnswers
  <1>3. \A w \in AuthThreads : authJob[w] = AuthFree
    BY DEF AuthInit
  <1>4. AuthTyped
    BY <1>1, <1>2, <1>3 DEF AuthInit, AuthTyped
  <1>5. Alone /\ CountKnown
    BY <1>1, <1>3 DEF Alone, CountKnown
  <1>6. Refusals
    BY <1>2 DEF AuthInit, Refusals
  <1>7. Lookups
    BY <1>1, <1>3 DEF AuthInit, Lookups
  <1>8. QED
    BY <1>4, <1>5, <1>6, <1>7 DEF AuthInv

(* A step gives a thread another job and leaves the others theirs. *)
TakesJob(w, j) ==
  /\ j \in AuthJobs /\ (j.op # "free" => j.s \in Callers)
  /\ authJob' = [authJob EXCEPT ![w] = j]

LEMMA JobsTyped ==
  ASSUME AuthTyped, NEW w \in AuthThreads, NEW j, TakesJob(w, j)
  PROVE  /\ authJob' \in [AuthThreads -> AuthJobs]
         /\ \A v \in AuthThreads : authJob'[v].op # "free" => authJob'[v].s \in Callers
         /\ authJob'[w] = j
         /\ \A v \in AuthThreads : v # w => authJob'[v] = authJob[v]
  <1>1. authJob \in [AuthThreads -> AuthJobs]
    BY DEF AuthTyped
  <1>2. authJob'[w] = j /\ \A v \in AuthThreads : v # w => authJob'[v] = authJob[v]
    BY <1>1 DEF TakesJob
  <1>3. authJob' \in [AuthThreads -> AuthJobs]
    BY <1>1 DEF TakesJob
  <1>4. QED
    BY <1>2, <1>3 DEF TakesJob, AuthTyped

LEMMA JobFields ==
  ASSUME AuthTyped, NEW w \in AuthThreads
  PROVE  /\ authJob[w] \in AuthJobs /\ authJob[w].count \in Nat
         /\ authJob[w].op # "free" => authJob[w].s \in Callers
         /\ AuthFree \in AuthJobs /\ AuthFree.op = "free"
  BY DEF AuthTyped, AuthJobs, AuthFree, AuthOps

LEMMA AuthTypedStep == AuthTyped /\ [AuthNext]_authVars => AuthTyped'
  <1> SUFFICES ASSUME AuthTyped, [AuthNext]_authVars PROVE AuthTyped'
    OBVIOUS
  <1>1. ASSUME NEW w \in AuthThreads, NEW s \in Callers, LookupByNumber(w, s) PROVE AuthTyped'
    <2> DEFINE j == [op |-> "lookup", s |-> s, type |-> "", count |-> lookupCounts[s]]
    <2>1. TakesJob(w, j)
      BY <1>1 DEF LookupByNumber, TakesJob, AuthJobs, AuthOps, AuthTyped
    <2> HIDE DEF j
    <2>2. QED
      BY <1>1, <2>1, JobsTyped DEF LookupByNumber, AuthTyped
  <1>2. ASSUME NEW w \in AuthThreads, NEW s \in Callers, NEW type \in AuthTypes, Authenticate(w, s, type)
        PROVE AuthTyped'
    <2> DEFINE j == [op |-> "authenticate", s |-> s, type |-> type, count |-> failureCounts[s]]
    <2>1. TakesJob(w, j)
      BY <1>2 DEF Authenticate, TakesJob, AuthJobs, AuthOps, AuthTyped
    <2> HIDE DEF j
    <2>2. QED
      BY <1>2, <2>1, JobsTyped DEF Authenticate, AuthTyped
  <1>3. ASSUME NEW w \in AuthThreads, Verified(w) PROVE AuthTyped'
    <2>1. TakesJob(w, AuthFree)
      BY <1>3, JobFields DEF Verified, TakesJob
    <2>2. [answer |-> IF authJob[w].count < MaxAttempts THEN "accepted" ELSE "raised",
           count |-> authJob[w].count, switch |-> FALSE] \in Results
      BY JobFields DEF Results, AuthAnswers
    <2>3. QED
      BY <1>3, <2>1, <2>2, JobsTyped DEF Verified, AuthTyped
  <1>4. ASSUME NEW w \in AuthThreads, Refused(w) PROVE AuthTyped'
    <2>1. TakesJob(w, AuthFree)
      BY <1>4, JobFields DEF Refused, TakesJob
    <2>2. NewCount(w) \in Nat /\ Least(NewCount(w), MaxAttempts) \in Nat
      BY JobFields, AuthAssumption DEF NewCount, Least
    <2>3. result' \in [Callers -> Results]
      <3>1. PICK hasPassword \in BOOLEAN :
              result' = [result EXCEPT ![authJob[w].s] =
                [answer |-> "refused", count |-> Least(NewCount(w), MaxAttempts),
                 switch |-> hasPassword /\ authJob[w].type = "birthdate" /\ NewCount(w) < MaxAttempts]]
        BY <1>4 DEF Refused
      <3>2. QED
        BY <2>2, <3>1 DEF AuthTyped, Results, AuthAnswers
    <2>4. QED
      BY <1>4, <2>1, <2>2, <2>3, JobsTyped DEF Refused, AuthTyped
  <1>5. ASSUME NEW w \in AuthThreads, CountLookup(w) PROVE AuthTyped'
    <2> DEFINE j == [authJob[w] EXCEPT !.op = "asking"]
    <2>1. TakesJob(w, j)
      BY <1>5, JobFields DEF CountLookup, Ask, TakesJob, AuthJobs, AuthOps
    <2> HIDE DEF j
    <2>2. QED
      BY <1>5, <2>1, JobsTyped, JobFields DEF CountLookup, AuthTyped
  <1>6. ASSUME NEW w \in AuthThreads, LookupAnswered(w) PROVE AuthTyped'
    <2>1. TakesJob(w, AuthFree)
      BY <1>6, JobFields DEF LookupAnswered, TakesJob
    <2>2. QED
      BY <1>6, <2>1, JobsTyped DEF LookupAnswered, AuthTyped
  <1>7. CASE UNCHANGED authVars
    BY <1>7 DEF authVars, AuthTyped
  <1>8. QED
    BY <1>1, <1>2, <1>3, <1>4, <1>5, <1>6, <1>7 DEF AuthNext


LEMMA AuthInvStep == AuthInv /\ [AuthNext]_authVars => AuthInv'
  <1> SUFFICES ASSUME AuthInv, [AuthNext]_authVars PROVE AuthInv'
    OBVIOUS
  <1>0. AuthTyped /\ AuthTyped'
    BY AuthTypedStep DEF AuthInv
  <1>1. SUFFICES ASSUME authMode = "serial", Alone, CountKnown, Refusals, Lookups
                 PROVE Alone' /\ CountKnown' /\ Refusals' /\ Lookups'
    <2>1. authMode' = authMode
      BY DEF AuthNext, authVars, LookupByNumber, Authenticate, Verified, Refused, CountLookup, LookupAnswered
    <2>2. QED
      BY <1>0, <2>1 DEF AuthInv
  <1>2. ASSUME NEW w \in AuthThreads, NEW s \in Callers, LookupByNumber(w, s)
        PROVE Alone' /\ CountKnown' /\ Refusals' /\ Lookups'
    <2> DEFINE j == [op |-> "lookup", s |-> s, type |-> "", count |-> lookupCounts[s]]
    <2>1. TakesJob(w, j)
      BY <1>0, <1>2 DEF LookupByNumber, TakesJob, AuthJobs, AuthOps, AuthTyped
    <2>2. /\ j.op = "lookup" /\ j.s = s /\ j.count = lookupCounts[s]
          /\ authJob'[w] = j /\ \A v \in AuthThreads : v # w => authJob'[v] = authJob[v]
      BY <1>0, <2>1, JobsTyped
    <2> HIDE DEF j
    <2>3. \A v \in AuthThreads : authJob[v].op = "free" \/ authJob[v].s # s
      BY <1>1, <1>2 DEF LookupByNumber, MayAuth
    <2>4. lookupCounts[s] \in Nat /\ lookupCounts[s] < 1
      BY <1>0, <1>2 DEF LookupByNumber, AuthTyped
    <2>5. lookupCounts[s] = 0
      BY <2>4
    <2>6. UNCHANGED <<failureCounts, lookupCounts, refused, lookups, result>>
      BY <1>2 DEF LookupByNumber
    <2>7. Alone' /\ Refusals'
      BY <1>1, <2>2, <2>3, <2>6 DEF Alone, Refusals
    <2>8. CountKnown' /\ Lookups'
      BY <1>1, <2>2, <2>5, <2>6 DEF CountKnown, Lookups
    <2>9. QED
      BY <2>7, <2>8
  <1>3. ASSUME NEW w \in AuthThreads, NEW s \in Callers, NEW type \in AuthTypes, Authenticate(w, s, type)
        PROVE Alone' /\ CountKnown' /\ Refusals' /\ Lookups'
    <2> DEFINE j == [op |-> "authenticate", s |-> s, type |-> type, count |-> failureCounts[s]]
    <2>1. TakesJob(w, j)
      BY <1>0, <1>3 DEF Authenticate, TakesJob, AuthJobs, AuthOps, AuthTyped
    <2>2. /\ j.op = "authenticate" /\ j.s = s /\ j.count = failureCounts[s]
          /\ authJob'[w] = j /\ \A v \in AuthThreads : v # w => authJob'[v] = authJob[v]
      BY <1>0, <2>1, JobsTyped
    <2> HIDE DEF j
    <2>3. \A v \in AuthThreads : authJob[v].op = "free" \/ authJob[v].s # s
      BY <1>1, <1>3 DEF Authenticate, MayAuth
    <2>4. QED
      BY <1>1, <1>3, <2>2, <2>3 DEF Authenticate, Alone, CountKnown, Refusals, Lookups
  <1>4. ASSUME NEW w \in AuthThreads, Verified(w)
        PROVE Alone' /\ CountKnown' /\ Refusals' /\ Lookups'
    <2>1. TakesJob(w, AuthFree)
      BY <1>0, <1>4, JobFields DEF Verified, TakesJob
    <2>2. /\ authJob'[w].op = "free" /\ \A v \in AuthThreads : v # w => authJob'[v] = authJob[v]
      BY <1>0, <2>1, JobsTyped, JobFields
    <2>3. \A s \in Callers : result'[s].switch => result[s].switch
      BY <1>0, <1>4 DEF Verified, AuthTyped
    <2>4. \A s \in Callers : result'[s].answer = "accepted" =>
            result[s].answer = "accepted" \/ refused[s] < MaxAttempts
      BY <1>0, <1>1, <1>4, JobFields DEF Verified, AuthTyped, CountKnown, Refusals
    <2>5. Alone' /\ CountKnown' /\ Lookups'
      BY <1>1, <1>4, <2>2 DEF Verified, Alone, CountKnown, Lookups
    <2>6. Refusals'
      BY <1>1, <1>4, <2>3, <2>4 DEF Verified, Refusals
    <2>7. QED
      BY <2>5, <2>6
  <1>5. ASSUME NEW w \in AuthThreads, Refused(w)
        PROVE Alone' /\ CountKnown' /\ Refusals' /\ Lookups'
    <2> DEFINE s == authJob[w].s
    <2>1. TakesJob(w, AuthFree)
      BY <1>0, <1>5, JobFields DEF Refused, TakesJob
    <2>2. /\ authJob'[w].op = "free" /\ \A v \in AuthThreads : v # w => authJob'[v] = authJob[v]
      BY <1>0, <2>1, JobsTyped, JobFields
    <2>3. s \in Callers /\ authJob[w].op = "authenticate" /\ NewCount(w) = refused[s] + 1
      BY <1>0, <1>1, <1>5, JobFields DEF Refused, NewCount, CountKnown, Refusals
    <2>4. /\ failureCounts' = [failureCounts EXCEPT ![s] = NewCount(w)]
          /\ refused' = [refused EXCEPT ![s] = @ + 1]
          /\ \A r \in Callers \ {s} : result'[r] = result[r]
          /\ result'[s].answer = "refused" /\ (result'[s].switch => NewCount(w) < MaxAttempts)
      BY <1>0, <1>5, <2>3 DEF Refused, AuthTyped
    <2>5. Refusals'
      BY <1>0, <1>1, <2>3, <2>4 DEF Refusals, AuthTyped
    <2>6. Alone' /\ Lookups'
      BY <1>1, <1>5, <2>2 DEF Refused, Alone, Lookups
    <2>7. CountKnown'
      <3>1. \A v \in AuthThreads : v # w /\ authJob[v].op # "free" => authJob[v].s # s
        BY <1>1, <2>3 DEF Alone
      <3>2. \A r \in Callers : r # s => failureCounts'[r] = failureCounts[r]
        BY <1>0, <2>4 DEF AuthTyped
      <3>3. QED
        BY <1>0, <1>1, <1>5, <2>2, <3>1, <3>2 DEF Refused, CountKnown, AuthTyped
    <2>8. QED
      BY <2>5, <2>6, <2>7
  <1>6. ASSUME NEW w \in AuthThreads, CountLookup(w)
        PROVE Alone' /\ CountKnown' /\ Refusals' /\ Lookups'
    <2> DEFINE j == [authJob[w] EXCEPT !.op = "asking"]
               s == authJob[w].s
    <2>1. TakesJob(w, j)
      BY <1>0, <1>6, JobFields DEF CountLookup, Ask, TakesJob, AuthJobs, AuthOps
    <2>2. /\ j.op = "asking" /\ j.s = s
          /\ authJob'[w] = j /\ \A v \in AuthThreads : v # w => authJob'[v] = authJob[v]
      BY <1>0, <2>1, JobsTyped, JobFields DEF AuthJobs
    <2> HIDE DEF j
    <2>3. s \in Callers /\ authJob[w].op = "lookup" /\ authJob[w].count = 0 /\ lookupCounts[s] = 0
      BY <1>0, <1>1, <1>6, JobFields DEF CountLookup, CountKnown
    <2>4. lookups[s] \in Nat /\ lookups[s] <= 0
      BY <1>0, <1>1, <2>3 DEF Lookups, AuthTyped
    <2>5. lookups[s] = 0 /\ lookupCounts'[s] = 1 /\ \A r \in Callers : r # s => lookupCounts'[r] = lookupCounts[r]
      BY <1>0, <1>6, <2>3, <2>4 DEF CountLookup, AuthTyped
    <2>6. \A v \in AuthThreads : v # w /\ authJob[v].op # "free" => authJob[v].s # s
      BY <1>1, <2>3 DEF Alone
    <2>7. UNCHANGED <<failureCounts, refused, lookups, result>>
      BY <1>6 DEF CountLookup
    <2>8. Alone' /\ Refusals'
      BY <1>1, <2>2, <2>6, <2>7 DEF Alone, Refusals
    <2>9. CountKnown'
      BY <1>0, <1>1, <2>2, <2>5, <2>6, <2>7 DEF CountKnown, AuthTyped
    <2>10. Lookups'
      BY <1>1, <2>2, <2>5, <2>6, <2>7 DEF Lookups
    <2>11. QED
      BY <2>8, <2>9, <2>10
  <1>7. ASSUME NEW w \in AuthThreads, LookupAnswered(w)
        PROVE Alone' /\ CountKnown' /\ Refusals' /\ Lookups'
    <2> DEFINE s == authJob[w].s
    <2>1. TakesJob(w, AuthFree)
      BY <1>0, <1>7, JobFields DEF LookupAnswered, TakesJob
    <2>2. /\ authJob'[w].op = "free" /\ \A v \in AuthThreads : v # w => authJob'[v] = authJob[v]
      BY <1>0, <2>1, JobsTyped, JobFields
    <2>3. s \in Callers /\ authJob[w].op = "asking" /\ lookupCounts[s] = 1 /\ lookups[s] = 0
      BY <1>0, <1>1, <1>7, JobFields DEF LookupAnswered, Lookups
    <2>4. lookups'[s] = 1 /\ \A r \in Callers : r # s => lookups'[r] = lookups[r]
      BY <1>0, <1>7, <2>3 DEF LookupAnswered, AuthTyped
    <2>5. \A v \in AuthThreads : v # w /\ authJob[v].op # "free" => authJob[v].s # s
      BY <1>1, <2>3 DEF Alone
    <2>6. UNCHANGED <<failureCounts, lookupCounts, refused, result>>
      BY <1>7 DEF LookupAnswered
    <2>7. Alone' /\ Refusals' /\ CountKnown'
      BY <1>1, <2>2, <2>6 DEF Alone, Refusals, CountKnown
    <2>8. Lookups'
      BY <1>1, <2>2, <2>3, <2>4, <2>5, <2>6 DEF Lookups
    <2>9. QED
      BY <2>7, <2>8
  <1>8. CASE UNCHANGED authVars
    BY <1>1, <1>8 DEF authVars, Alone, CountKnown, Refusals, Lookups
  <1>9. QED
    BY <1>2, <1>3, <1>4, <1>5, <1>6, <1>7, <1>8 DEF AuthNext

(* At most one thread is asking for a caller. *)
LEMMA AskingCounted ==
  ASSUME AuthInv, authMode = "serial", NEW s \in Callers
  PROVE  lookups[s] + Cardinality(Asking(s)) <= lookupCounts[s]
  <1>1. CASE Asking(s) = {}
    BY <1>1, FS_EmptySet DEF AuthInv, AuthTyped, Lookups
  <1>2. CASE Asking(s) # {}
    <2>1. PICK w \in AuthThreads : authJob[w].op = "asking" /\ authJob[w].s = s
      BY <1>2 DEF Asking
    <2>2. Asking(s) = {w}
      BY <2>1 DEF Asking, AuthInv, Alone
    <2>3. Cardinality(Asking(s)) = 1
      BY <2>2, FS_Singleton
    <2>4. QED
      BY <2>1, <2>3 DEF AuthInv, Lookups
  <1>3. QED
    BY <1>1, <1>2

(* CountsHold (authenticate, lookup_by_provided_number): with one call of a       *)
(* session at a time the counts of attempts and lookups are exact.                *)
THEOREM CountsAreExact == AuthSpec => []CountsHold
  <1>1. AuthInv => CountsHold
    BY AskingCounted DEF AuthInv, CountsHold, Refusals, Lookups
  <1>2. QED
    BY <1>1, AuthInvInit, AuthInvStep, PTL DEF AuthSpec

(* However calls overlap, no count passes the attempts that were made: a call has read *)
(* a count that was written after fewer attempts than there are now.                    *)
CountsBound ==
  /\ asks \in [Callers -> 0..MaxAsks]
  /\ \A s \in Callers : failureCounts[s] <= asks[s] /\ lookupCounts[s] <= 1 /\ result[s].count <= MaxAsks
  /\ \A w \in AuthThreads :
       /\ authJob[w].op = "authenticate" => authJob[w].count < asks[authJob[w].s]
       /\ authJob[w].op = "lookup" => authJob[w].count = 0

LEMMA CountsBoundInit == AuthInit => CountsBound
  <1> SUFFICES ASSUME AuthInit PROVE CountsBound
    OBVIOUS
  <1>1. AuthFree.op = "free" /\ NoResult.count = 0 /\ MaxAsks \in Nat
    BY AuthAssumption DEF AuthFree, NoResult
  <1>2. \A w \in AuthThreads : authJob[w] = AuthFree
    BY DEF AuthInit
  <1>3. \A s \in Callers : failureCounts[s] = 0 /\ lookupCounts[s] = 0 /\ asks[s] = 0 /\ result[s].count = 0
    BY <1>1 DEF AuthInit
  <1>4. asks \in [Callers -> 0..MaxAsks]
    BY <1>1 DEF AuthInit
  <1>5. QED
    BY <1>1, <1>2, <1>3, <1>4 DEF CountsBound

LEMMA CountsBoundStep == AuthTyped /\ CountsBound /\ [AuthNext]_authVars => CountsBound'
  <1> SUFFICES ASSUME AuthTyped, CountsBound, [AuthNext]_authVars PROVE CountsBound'
    OBVIOUS
  <1>0. MaxAsks \in Nat /\ MaxAttempts \in Nat
    BY AuthAssumption
  <1>1. /\ asks \in [Callers -> 0..MaxAsks]
        /\ \A s \in Callers : failureCounts[s] \in Nat /\ lookupCounts[s] \in Nat /\ result[s].count \in Nat
    BY DEF CountsBound, AuthTyped, Results
  <1>2. ASSUME NEW w \in AuthThreads, NEW s \in Callers, LookupByNumber(w, s) PROVE CountsBound'
    <2> DEFINE j == [op |-> "lookup", s |-> s, type |-> "", count |-> lookupCounts[s]]
    <2>1. TakesJob(w, j)
      BY <1>2 DEF LookupByNumber, TakesJob, AuthJobs, AuthOps, AuthTyped
    <2>2. j.op = "lookup" /\ j.count = 0
      <3>1. lookupCounts[s] < 1
        BY <1>2, Zenon DEF LookupByNumber
      <3>2. lookupCounts[s] = 0
        BY <1>1, <3>1
      <3>3. QED
        BY <3>2
    <2> HIDE DEF j
    <2>3. authJob'[w] = j /\ \A v \in AuthThreads : v # w => authJob'[v] = authJob[v]
      BY <2>1, JobsTyped
    <2>4. QED
      BY <1>2, <2>2, <2>3 DEF LookupByNumber, CountsBound
  <1>3. ASSUME NEW w \in AuthThreads, NEW s \in Callers, NEW type \in AuthTypes, Authenticate(w, s, type)
        PROVE  CountsBound'
    <2> DEFINE j == [op |-> "authenticate", s |-> s, type |-> type, count |-> failureCounts[s]]
    <2>1. TakesJob(w, j)
      BY <1>3 DEF Authenticate, TakesJob, AuthJobs, AuthOps, AuthTyped
    <2>2. j.op = "authenticate" /\ j.s = s /\ j.count = failureCounts[s]
      OBVIOUS
    <2> HIDE DEF j
    <2>3. authJob'[w] = j /\ \A v \in AuthThreads : v # w => authJob'[v] = authJob[v]
      BY <2>1, JobsTyped
    <2>4. asks' \in [Callers -> 0..MaxAsks] /\ asks'[s] = asks[s] + 1 /\ \A c \in Callers : asks[c] <= asks'[c]
      BY <1>0, <1>1, <1>3 DEF Authenticate
    <2>5. \A v \in AuthThreads : authJob[v].op = "authenticate" =>
                                    authJob[v].s \in Callers /\ authJob[v].count \in Nat
      BY JobFields
    <2>6. \A c \in Callers : asks[c] \in Nat /\ asks'[c] \in Nat
      BY <1>0, <1>1, <2>4
    <2>7. \A c \in Callers : failureCounts'[c] <= asks'[c] /\ lookupCounts'[c] <= 1 /\ result'[c].count <= MaxAsks
      BY <1>1, <1>3, <2>4, <2>6 DEF Authenticate, CountsBound
    <2>8. ASSUME NEW v \in AuthThreads
          PROVE  /\ authJob'[v].op = "authenticate" => authJob'[v].count < asks'[authJob'[v].s]
                 /\ authJob'[v].op = "lookup" => authJob'[v].count = 0
      <3>1. CASE v = w
        BY <1>1, <2>2, <2>3, <2>4, <2>6, <3>1 DEF CountsBound
      <3>2. CASE v # w
        BY <2>3, <2>4, <2>5, <2>6, <3>2 DEF CountsBound
      <3>3. QED
        BY <3>1, <3>2
    <2>9. QED
      BY <2>4, <2>7, <2>8 DEF CountsBound
  <1>4. ASSUME NEW w \in AuthThreads, authJob' = [authJob EXCEPT ![w] = AuthFree], UNCHANGED asks,
               \A c \in Callers : /\ failureCounts'[c] <= asks[c] /\ lookupCounts'[c] <= 1
                                  /\ result'[c].count <= MaxAsks
        PROVE  CountsBound'
    <2>1. TakesJob(w, AuthFree) /\ AuthFree.op = "free"
      BY <1>4, JobFields DEF TakesJob
    <2>2. authJob'[w] = AuthFree /\ \A v \in AuthThreads : v # w => authJob'[v] = authJob[v]
      BY <2>1, JobsTyped
    <2>3. QED
      BY <1>4, <2>1, <2>2 DEF CountsBound
  <1>5. ASSUME NEW w \in AuthThreads, authJob[w].op = "authenticate"
        PROVE  /\ authJob[w].s \in Callers /\ authJob[w].count \in Nat
               /\ authJob[w].count < asks[authJob[w].s]
               /\ authJob[w].count + 1 <= MaxAsks
    <2>1. authJob[w].s \in Callers /\ authJob[w].count \in Nat
      BY <1>5, JobFields
    <2>2. authJob[w].count < asks[authJob[w].s]
      BY <1>5 DEF CountsBound
    <2>3. QED
      BY <1>0, <1>1, <2>1, <2>2
  <1>6. ASSUME NEW w \in AuthThreads, Verified(w) PROVE CountsBound'
    <2>1. authJob[w].op = "authenticate"
      BY <1>6 DEF Verified
    <2> DEFINE s == authJob[w].s
    <2>2. \A c \in Callers : result'[c].count <= MaxAsks
      <3>1. PICK answer : result' = [result EXCEPT ![s] =
                             [answer |-> answer, count |-> authJob[w].count, switch |-> FALSE]]
        BY <1>6 DEF Verified
      <3>2. authJob[w].count <= MaxAsks
        BY <1>0, <1>5, <2>1
      <3>3. \A c \in Callers : result[c].count <= MaxAsks /\ DOMAIN result = Callers
        BY DEF CountsBound, AuthTyped
      <3>4. QED
        BY <3>1, <3>2, <3>3
    <2>3. QED
      BY <1>4, <1>6, <2>2 DEF Verified, CountsBound
  <1>7. ASSUME NEW w \in AuthThreads, Refused(w) PROVE CountsBound'
    <2> DEFINE s == authJob[w].s
    <2>1. authJob[w].op = "authenticate"
      BY <1>7 DEF Refused
    <2>2. /\ s \in Callers /\ NewCount(w) \in Nat /\ NewCount(w) <= asks[s] /\ NewCount(w) <= MaxAsks
      BY <1>0, <1>1, <1>5, <2>1 DEF NewCount
    <2>3. Least(NewCount(w), MaxAttempts) <= MaxAsks
      BY <1>0, <2>2 DEF Least
    <2>4. PICK switch : result' = [result EXCEPT ![s] =
                          [answer |-> "refused", count |-> Least(NewCount(w), MaxAttempts), switch |-> switch]]
      BY <1>7 DEF Refused
    <2>5. \A c \in Callers : result'[c].count <= MaxAsks
      <3>1. \A c \in Callers : result[c].count <= MaxAsks /\ DOMAIN result = Callers
        BY DEF CountsBound, AuthTyped
      <3>2. QED
        BY <2>3, <2>4, <3>1
    <2>6. \A c \in Callers : failureCounts'[c] <= asks[c]
      <3>1. failureCounts' = [failureCounts EXCEPT ![s] = NewCount(w)]
        BY <1>7 DEF Refused
      <3>2. \A c \in Callers : failureCounts[c] <= asks[c] /\ DOMAIN failureCounts = Callers
        BY DEF CountsBound, AuthTyped
      <3>3. QED
        BY <2>2, <3>1, <3>2
    <2>7. QED
      BY <1>4, <1>7, <2>5, <2>6 DEF Refused, CountsBound
  <1>8. ASSUME NEW w \in AuthThreads, CountLookup(w) PROVE CountsBound'
    <2> DEFINE j == [authJob[w] EXCEPT !.op = "asking"]
    <2>1. authJob[w] \in AuthJobs /\ authJob[w].op = "lookup" /\ authJob[w].s \in Callers /\ authJob[w].count = 0
      BY <1>8, JobFields DEF CountLookup, CountsBound
    <2>2. j \in AuthJobs /\ j.op = "asking" /\ j.s \in Callers
      BY <2>1 DEF AuthJobs, AuthOps
    <2>3. TakesJob(w, j)
      BY <1>8, <2>2 DEF CountLookup, Ask, TakesJob
    <2> HIDE DEF j
    <2>4. authJob'[w] = j /\ \A v \in AuthThreads : v # w => authJob'[v] = authJob[v]
      BY <2>3, JobsTyped
    <2>5. \A c \in Callers : lookupCounts'[c] <= 1
      <3>1. lookupCounts' = [lookupCounts EXCEPT ![authJob[w].s] = authJob[w].count + 1]
        BY <1>8 DEF CountLookup
      <3>2. \A c \in Callers : lookupCounts[c] <= 1 /\ DOMAIN lookupCounts = Callers
        BY DEF CountsBound, AuthTyped
      <3>3. QED
        BY <2>1, <3>1, <3>2
    <2>6. QED
      BY <1>8, <2>2, <2>4, <2>5 DEF CountLookup, CountsBound
  <1>9. ASSUME NEW w \in AuthThreads, LookupAnswered(w) PROVE CountsBound'
    BY <1>4, <1>9 DEF LookupAnswered, CountsBound
  <1>10. CASE UNCHANGED authVars
    BY <1>10 DEF authVars, CountsBound
  <1>11. QED
    BY <1>2, <1>3, <1>6, <1>7, <1>8, <1>9, <1>10 DEF AuthNext

(* The types of AuthenticationModule, calls overlapping or not. *)
THEOREM AuthTypeCorrect == AuthSpec => []AuthTypeOK
  <1>1. AuthInv /\ CountsBound => AuthTypeOK
    <2> SUFFICES ASSUME AuthInv, CountsBound PROVE AuthTypeOK
      OBVIOUS
    <2>1. MaxAsks \in Nat /\ AuthTyped
      BY AuthAssumption DEF AuthInv
    <2>2. \A s \in Callers : /\ failureCounts[s] \in Nat /\ lookupCounts[s] \in Nat
                             /\ result[s].count \in Nat /\ result[s].answer \in AuthAnswers
      BY <2>1 DEF AuthTyped, Results
    <2>3. \A s \in Callers : asks[s] \in 0..MaxAsks
      BY DEF CountsBound
    <2>4. \A s \in Callers : failureCounts[s] <= asks[s] /\ lookupCounts[s] <= 1 /\ result[s].count <= MaxAsks
      BY DEF CountsBound
    <2>5. \A s \in Callers : failureCounts[s] \in 0..MaxAsks /\ lookupCounts[s] \in 0..1
                             /\ result[s].count \in 0..MaxAsks
      BY <2>1, <2>2, <2>3, <2>4
    <2>6. \A w \in AuthThreads : authJob[w].op \in AuthOps
      BY <2>1 DEF AuthTyped, AuthJobs
    <2>7. QED
      BY <2>1, <2>2, <2>5, <2>6 DEF AuthTyped, AuthTypeOK, AuthOps
  <1>2. AuthInv /\ CountsBound /\ [AuthNext]_authVars => (AuthInv /\ CountsBound)'
    BY AuthInvStep, CountsBoundStep DEF AuthInv
  <1>3. QED
    BY <1>1, <1>2, AuthInvInit, CountsBoundInit, PTL DEF AuthSpec

===============================================================================
