------------------------------ MODULE PiiTokens ------------------------------
(***************************************************************************)
(* Masking tokens for personal data: PIIEncryptor                          *)
(* (security/pii_encryptor.py) over a TokenMappingStore                    *)
(* (security/token_mapping_store.py).  A ciphertext is modelled by what    *)
(* decrypt can make of it: the key it was made with, the version in its    *)
(* header, and whether its first byte is the magic one.                    *)
(* tokenize looks the hash up, encrypts, and stores in two assignments;    *)
(* threads interleave between them.  The HMAC salt does not change, so the *)
(* hash of a value stands for the value.                                   *)
(***************************************************************************)
EXTENDS Naturals, FiniteSets

CONSTANTS
  Piis,        \* values
  Tokens,      \* ids that uuid4 will draw
  PiiThreads,  \* callers
  PiiCallers,  \* "serial", "overlap"
  MaxKey,      \* bound: current_key_version
  NoToken

ASSUME PiiAssumption == MaxKey \in 1..255 /\ NoToken \notin Tokens \cup Piis
                        /\ PiiCallers \subseteq {"serial", "overlap"}

VARIABLES
  keyVersion,  \* _current_key_version
  ownKeys,     \* versions whose secret exists and is not a copy of the legacy key
  lateKeys,    \* for the properties: of these, those installed after their version's deployment
  hashToToken, \* _pii_hash_to_token
  ciphers,     \* _token_to_cipher
  fellBack,    \* for the properties: tokens encrypted under the legacy key although the
               \* secret of the version was there
  piiMode,     \* whether calls of tokenize overlap
  piiJob,      \* what each thread is doing
  returned     \* pairs of a value and a token that tokenize returned for it

piiVars == <<keyVersion, ownKeys, lateKeys, hashToToken, ciphers, fellBack, piiMode, piiJob, returned>>

(* _get_key: the secret of the version, and the legacy one when get_secret raises *)
(* SecretNotFoundError: there is none, or its fetch failed (_fetch_aws raises the  *)
(* same error for every failure, and only what was fetched is cached).             *)
LegacyKey == 0
KeyOf(v)   == IF v \in ownKeys THEN v ELSE LegacyKey
KeysHad(v) == {KeyOf(v), LegacyKey}

(* In the legacy format the first byte is random, and may be the magic one. *)
NoCipher == [pii |-> NoToken, key |-> LegacyKey, version |-> 0, magic |-> FALSE]
Cipher(p, key) == [pii |-> p, key |-> key, version |-> keyVersion, magic |-> TRUE]
LegacyCipher(p, magic) == [pii |-> p, key |-> LegacyKey, version |-> 0, magic |-> magic]
HasHeader(c) == c.version # 0
PiiIdle == [at |-> "idle", pii |-> NoToken, token |-> NoToken]

PiiTypeOK ==
  /\ keyVersion \in 1..MaxKey
  /\ hashToToken \in [Piis -> Tokens \cup {NoToken}]
  /\ ownKeys \subseteq 1..MaxKey /\ lateKeys \subseteq ownKeys /\ fellBack \subseteq Tokens
  /\ \A t \in Tokens : ciphers[t] = NoCipher \/ (ciphers[t].pii \in Piis /\ ciphers[t].version \in 0..keyVersion)
  /\ returned \subseteq Piis \X Tokens

(* The store may hold one legacy ciphertext from before the format had a header. *)
PiiInit ==
  /\ keyVersion = 1 /\ ownKeys \in {{}, {1}} /\ lateKeys = {} /\ fellBack = {} /\ piiMode \in PiiCallers
  /\ piiJob = [w \in PiiThreads |-> PiiIdle]
  /\ \/ /\ hashToToken = [p \in Piis |-> NoToken]
        /\ ciphers = [t \in Tokens |-> NoCipher]
        /\ returned = {}
     \/ \E p \in Piis, magic \in BOOLEAN, t \in Tokens :
          /\ hashToToken = [q \in Piis |-> IF q = p THEN t ELSE NoToken]
          /\ ciphers = [u \in Tokens |-> IF u = t THEN LegacyCipher(p, magic) ELSE NoCipher]
          /\ returned = {<<p, t>>}

PiiGoto(w, at, p, t) == piiJob' = [piiJob EXCEPT ![w] = [at |-> at, pii |-> p, token |-> t]]
PiiReturn(w, p, t) ==
  /\ piiJob' = [piiJob EXCEPT ![w] = PiiIdle]
  /\ returned' = returned \cup {<<p, t>>}

(* tokenize *)
GetToken(w, p) ==
  /\ piiJob[w].at = "idle"
  /\ piiMode = "serial" => \A v \in PiiThreads : piiJob[v].at = "idle"
  /\ IF hashToToken[p] # NoToken
     THEN PiiReturn(w, p, hashToToken[p])
     ELSE PiiGoto(w, "encrypt", p, NoToken) /\ UNCHANGED returned
  /\ UNCHANGED <<keyVersion, ownKeys, lateKeys, hashToToken, ciphers, fellBack, piiMode>>

Drawn(t) == ciphers[t] # NoCipher \/ \E w \in PiiThreads : piiJob[w].token = t

Encrypt(w) ==
  /\ piiJob[w].at = "encrypt"
  /\ \E t \in Tokens, key \in KeysHad(keyVersion) :
       /\ ~Drawn(t)
       /\ ciphers' = [ciphers EXCEPT ![t] = Cipher(piiJob[w].pii, key)]
       /\ fellBack' = IF key = KeyOf(keyVersion) THEN fellBack ELSE fellBack \cup {t}
       /\ PiiGoto(w, "index", piiJob[w].pii, t)
  /\ UNCHANGED <<keyVersion, ownKeys, lateKeys, hashToToken, piiMode, returned>>

SecretMissing(w) ==   \* the legacy secret cannot be had either, or the key is not 32 bytes
  /\ piiJob[w].at = "encrypt"
  /\ piiJob' = [piiJob EXCEPT ![w] = PiiIdle]
  /\ UNCHANGED <<keyVersion, ownKeys, lateKeys, hashToToken, ciphers, fellBack, piiMode, returned>>

IndexKeptIfThere(w) ==   \* mutant of Index
  /\ piiJob[w].at = "index"
  /\ UNCHANGED hashToToken
  /\ PiiReturn(w, piiJob[w].pii, piiJob[w].token)
  /\ UNCHANGED <<keyVersion, ownKeys, lateKeys, ciphers, fellBack, piiMode>>
Index(w) ==
  /\ piiJob[w].at = "index"
  /\ hashToToken' = [hashToToken EXCEPT ![piiJob[w].pii] = piiJob[w].token]
  /\ PiiReturn(w, piiJob[w].pii, piiJob[w].token)
  /\ UNCHANGED <<keyVersion, ownKeys, lateKeys, ciphers, fellBack, piiMode>>

(* The operator installs the secret of a version, before or after its deployment. *)
InstallKey(v) ==
  /\ v \notin ownKeys
  /\ ownKeys' = ownKeys \cup {v}
  /\ lateKeys' = IF v <= keyVersion THEN lateKeys \cup {v} ELSE lateKeys
  /\ UNCHANGED <<keyVersion, hashToToken, ciphers, fellBack, piiMode, piiJob, returned>>

(* A deployment with a newer key; the store outlives it (the in-memory one does *)
(* not, and starts empty).                                                      *)
Redeploy ==
  /\ keyVersion < MaxKey
  /\ keyVersion' = keyVersion + 1
  /\ piiJob' = [w \in PiiThreads |-> PiiIdle]
  /\ \/ UNCHANGED <<hashToToken, ciphers, fellBack, returned>>
     \/ /\ hashToToken' = [p \in Piis |-> NoToken]
        /\ ciphers' = [t \in Tokens |-> NoCipher]
        /\ fellBack' = {} /\ returned' = {}
  /\ UNCHANGED <<ownKeys, lateKeys, piiMode>>

PiiNext ==
  \/ \E w \in PiiThreads : (\E p \in Piis : GetToken(w, p)) \/ Encrypt(w) \/ SecretMissing(w) \/ Index(w)
  \/ \E v \in 1..MaxKey : InstallKey(v)
  \/ Redeploy

PiiSpec == PiiInit /\ [][PiiNext]_piiVars

(* decrypt, while the secrets service answers, takes the version from the header,  *)
(* or the current one.  A legacy ciphertext that begins with the magic byte is     *)
(* taken for one with a header.  Under another key, which is what a failing fetch  *)
(* may give it, decrypt raises: the authentication tag is that of one key.         *)
CurrentKeyAlways(c) == HasHeader(c) /\ c.key = KeyOf(keyVersion)   \* mutant of Decrypts
Decrypts(c) == IF c.magic THEN HasHeader(c) /\ c.key = KeyOf(c.version)
               ELSE c.key = KeyOf(keyVersion)
Detokenize(t) == IF Decrypts(ciphers[t]) THEN ciphers[t].pii ELSE NoToken

(* detokenize gives back the value of every token that tokenize has returned or   *)
(* will return from the index, whatever overlaps and however often the key is     *)
(* renewed.  There are three exceptions: the key of a version is installed when   *)
(* ciphertexts have been made under the legacy key in its name; a fetch failed    *)
(* and tokenize went on with the legacy key, and then the value is never given    *)
(* back while the service answers; and a ciphertext without a header begins with  *)
(* the magic byte (one in 256) or a version with a key of its own is deployed.    *)
Restorable(t) ==
  LET c == ciphers[t] IN
    IF HasHeader(c) THEN c.version \notin lateKeys /\ t \notin fellBack
    ELSE ~c.magic /\ keyVersion \notin ownKeys

TokensRestore ==
  /\ \A p \in Piis : hashToToken[p] # NoToken => ciphers[hashToToken[p]].pii = p
  /\ \A r \in returned :
       /\ Restorable(r[2]) => Detokenize(r[2]) = r[1]
       /\ r[2] \in fellBack => Detokenize(r[2]) = NoToken

(* "동일 PII는 항상 동일 토큰 반환" (pii_encryptor.py:140): no two tokens were        *)
(* returned for one value.                                                        *)
OneToken == \A r, q \in returned : r[1] = q[1] => r[2] = q[2]

(* That holds while calls of tokenize do not overlap, also after one of them      *)
(* failed between lookup and store.                                               *)
SerialOneToken == piiMode = "serial" => OneToken
=============================================================================
