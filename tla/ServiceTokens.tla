---------------------------- MODULE ServiceTokens ----------------------------
(***************************************************************************)
(* The tokens by which services know each other: ServiceAuthenticator      *)
(* (security/service_authenticator.py) over the keys SecretsManager caches *)
(* (security/secrets_manager.py) and the revocations InMemoryTokenStore    *)
(* keeps (security/token_store.py), shared by threads without a lock.      *)
(* Each read and each write of the shared dictionaries is a step, and time *)
(* passes between steps.                                                   *)
(***************************************************************************)
EXTENDS Naturals, FiniteSets

CONSTANTS
  Services,   \* threads that issue, verify and revoke
  Jtis,       \* token ids that issue_token will draw
  CacheTtl,   \* cache_ttl_seconds
  JwtTtl,     \* jwt_ttl_seconds
  MaxNow,     \* bound: the time
  MaxVersion  \* bound: key pairs the operator installs

ASSUME ServiceAssumption ==
  {CacheTtl, JwtTtl, MaxNow, MaxVersion} \subseteq Nat \ {0}

VARIABLES
  now,        \* time.time() and time.monotonic()
  version,    \* the key pair in the secrets backend
  rotated,    \* when it was installed
  secrets,    \* SecretsManager._cache: for each name the value and expires_at;
              \* for the properties, how slow its fetch was: the time from the
              \* backend's answer to the store
  issued,     \* the tokens that exist: the key they are signed with and exp
  revoked,    \* InMemoryTokenStore._revoked: exp of the jti, or Unknown
  revocations, \* for the properties: tokens whose revoke has returned
  svc         \* what each thread is doing

serviceVars == <<now, version, rotated, secrets, issued, revoked, revocations, svc>>

Unknown == 0
KeyNames == {"private", "public"}
NoEntry == [value |-> 0, until |-> 0, slow |-> 0]
Free == [op |-> "free", at |-> "", jti |-> "", key |-> 0, asOf |-> 0, slow |-> 0, late |-> FALSE]
Answers == {"accepted", "expired", "revoked", "invalid", "raised"}

ServiceTypeOK ==
  /\ now \in 0..MaxNow /\ version \in 1..MaxVersion /\ rotated \in 0..MaxNow
  /\ secrets \in [KeyNames -> [value : 0..version, until : 0..(MaxNow + CacheTtl), slow : 0..MaxNow]]
  /\ issued \in [Jtis -> [key : 0..version, exp : 0..(MaxNow + JwtTtl)]]
  /\ revoked \in [Jtis -> 0..(MaxNow + JwtTtl)]
  /\ revocations \subseteq Jtis
  /\ \A w \in Services :
       /\ svc[w].op \in {"free", "issue", "verify", "revoke", "refresh"}
       /\ svc[w].at \in {"", "cache", "fetch", "store", "use", "lookup", "forget"} \cup Answers

ServiceInit ==
  /\ now = 0 /\ version = 1 /\ rotated = 0
  /\ secrets = [n \in KeyNames |-> NoEntry]
  /\ issued = [j \in Jtis |-> [key |-> 0, exp |-> 0]]
  /\ revoked = [j \in Jtis |-> Unknown]
  /\ revocations = {}
  /\ svc = [w \in Services |-> Free]

SvcDone(w) == svc' = [svc EXCEPT ![w] = Free]
SvcHolds(w, at, key, asOf, slow) ==   \* goes on with this key, had at asOf
  svc' = [svc EXCEPT ![w] = [op |-> svc[w].op, at |-> at, jti |-> svc[w].jti, key |-> key,
                             asOf |-> asOf, slow |-> slow, late |-> svc[w].late]]
SvcGoto(w, at) == SvcHolds(w, at, svc[w].key, svc[w].asOf, svc[w].slow)
Name(w) == IF svc[w].op = "issue" THEN "private" ELSE "public"
Exists(j) == issued[j].key # 0

(* A call begins with its key.  refresh throws the cached one away first. *)
Call(w, op, j) ==
  /\ svc[w].op = "free"
  /\ op \in {"verify", "revoke"} => Exists(j)
  /\ op = "issue" => ~Exists(j)
  /\ svc' = [svc EXCEPT ![w] = [Free EXCEPT !.op = op, !.jti = j, !.late = op = "verify" /\ j \in revocations,
                                !.at = IF op = "refresh" THEN "fetch" ELSE "cache"]]
  /\ secrets' = IF op = "refresh" THEN [secrets EXCEPT !["public"] = NoEntry] ELSE secrets
  /\ UNCHANGED <<now, version, rotated, issued, revoked, revocations>>

(***************************************************************************)
(* SecretsManager.get_secret and refresh                                   *)
(***************************************************************************)
FreshUntilUsed(n) == secrets[n].value # 0   \* mutant of CacheHit
CacheHit(n) == now < secrets[n].until

Lookup(w) ==
  /\ svc[w].at = "cache"
  /\ IF CacheHit(Name(w)) THEN SvcHolds(w, "use", secrets[Name(w)].value, now, secrets[Name(w)].slow)
                           ELSE SvcGoto(w, "fetch")
  /\ UNCHANGED <<now, version, rotated, secrets, issued, revoked, revocations>>

Fetch(w) ==
  /\ svc[w].at = "fetch"
  /\ \/ SvcHolds(w, "store", version, now, 0)
     \/ SvcDone(w)   \* SecretNotFoundError
  /\ UNCHANGED <<now, version, rotated, secrets, issued, revoked, revocations>>

(* expires_at is counted from here, however old the answer is by now. *)
StoreSecret(w) ==
  /\ svc[w].at = "store"
  /\ secrets' = [secrets EXCEPT ![Name(w)] =
       [value |-> svc[w].key, until |-> now + CacheTtl, slow |-> now - svc[w].asOf]]
  /\ IF svc[w].op = "refresh" THEN SvcDone(w)
     ELSE SvcHolds(w, "use", svc[w].key, now, now - svc[w].asOf)
  /\ UNCHANGED <<now, version, rotated, issued, revoked, revocations>>

(***************************************************************************)
(* ServiceAuthenticator.  Of decoding only the signature and exp are kept; *)
(* the claims of a token issued here are always complete.                  *)
(***************************************************************************)
Issue(w) ==
  /\ svc[w].op = "issue" /\ svc[w].at = "use"
  /\ IF Exists(svc[w].jti) THEN UNCHANGED issued
     ELSE issued' = [issued EXCEPT ![svc[w].jti] = [key |-> svc[w].key, exp |-> now + JwtTtl]]
  /\ SvcDone(w)
  /\ UNCHANGED <<now, version, rotated, secrets, revoked, revocations>>

Signed(w) == issued[svc[w].jti].key = svc[w].key

Decode(w) ==
  /\ svc[w].op = "verify" /\ svc[w].at = "use"
  /\ IF ~Signed(w) THEN SvcGoto(w, "invalid")
     ELSE SvcHolds(w, IF issued[svc[w].jti].exp <= now THEN "expired" ELSE "lookup", 0, 0, 0)
  /\ UNCHANGED <<now, version, rotated, secrets, issued, revoked, revocations>>

(* InMemoryTokenStore.is_revoked forgets a revocation that has expired; the *)
(* del raises if another thread has done so in between.                     *)
ForgottenEarly(exp) == exp <= now + 1   \* mutant of Outlived
Outlived(exp) == exp <= now

IsRevoked(w) ==
  /\ svc[w].at = "lookup"
  /\ LET exp == revoked[svc[w].jti] IN
       SvcGoto(w, IF exp = Unknown THEN "accepted"
                  ELSE IF Outlived(exp) THEN "forget" ELSE "revoked")
  /\ UNCHANGED <<now, version, rotated, secrets, issued, revoked, revocations>>

ForgetRevocation(w) ==
  /\ svc[w].at = "forget"
  /\ SvcGoto(w, IF revoked[svc[w].jti] = Unknown THEN "raised" ELSE "accepted")
  /\ revoked' = [revoked EXCEPT ![svc[w].jti] = Unknown]
  /\ UNCHANGED <<now, version, rotated, secrets, issued, revocations>>

Answered(w) ==
  /\ svc[w].at \in Answers
  /\ SvcDone(w)
  /\ UNCHANGED <<now, version, rotated, secrets, issued, revoked, revocations>>

Revoke(w) ==
  /\ svc[w].op = "revoke" /\ svc[w].at = "use"
  /\ IF Signed(w)
     THEN /\ revoked' = [revoked EXCEPT ![svc[w].jti] = issued[svc[w].jti].exp]
          /\ revocations' = revocations \cup {svc[w].jti}
          /\ SvcDone(w)
     ELSE SvcGoto(w, "invalid") /\ UNCHANGED <<revoked, revocations>>
  /\ UNCHANGED <<now, version, rotated, secrets, issued>>

(* purge_expired, seldom and by one thread. *)
PurgeExpired ==
  /\ \E j \in Jtis : revoked[j] # Unknown /\ Outlived(revoked[j])
  /\ revoked' = [j \in Jtis |-> IF Outlived(revoked[j]) THEN Unknown ELSE revoked[j]]
  /\ UNCHANGED <<now, version, rotated, secrets, issued, revocations, svc>>

(* The operator installs a new key pair, also while fetches are under way. *)
Rotate ==
  /\ version < MaxVersion
  /\ version' = version + 1 /\ rotated' = now
  /\ UNCHANGED <<now, secrets, issued, revoked, revocations, svc>>

ServiceTick ==
  /\ now < MaxNow
  /\ now' = now + 1
  /\ UNCHANGED <<version, rotated, secrets, issued, revoked, revocations, svc>>

ServiceNext ==
  \/ \E w \in Services :
       \/ \E op \in {"issue", "verify", "revoke", "refresh"}, j \in Jtis : Call(w, op, j)
       \/ Lookup(w) \/ Fetch(w) \/ StoreSecret(w)
       \/ Issue(w) \/ Decode(w) \/ IsRevoked(w) \/ ForgetRevocation(w) \/ Answered(w) \/ Revoke(w)
  \/ PurgeExpired \/ Rotate \/ ServiceTick

ServiceSpec == ServiceInit /\ [][ServiceNext]_serviceVars

(* "폐기된 JWT" raises RevokedTokenError (service_authenticator.py:109): a token    *)
(* revoked before verify_token was called is accepted only if it expired between  *)
(* the check of exp and the look at the store, which forgets it then.             *)
RevokedRefused == \A w \in Services :
  svc[w].at = "accepted" /\ svc[w].late => issued[svc[w].jti].exp <= now

(* A token signed with the key pair in force is found invalid only while a public *)
(* key from before the rotation may be cached: for CacheTtl after the rotation,   *)
(* and for as long again as the fetch of that key was slow, since expires_at is   *)
(* counted from its store.  One slow fetch is all that adds to it, also when      *)
(* get_secret stores its old value over what refresh has just stored.             *)
CurrentVerifies == \A w \in Services :
  svc[w].at = "invalid" /\ issued[svc[w].jti].key = version
    => svc[w].asOf < rotated + svc[w].slow + CacheTtl

=============================================================================
