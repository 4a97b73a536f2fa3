----------------------------- MODULE IntentCache -----------------------------
(***************************************************************************)
(* LLMIntentClassifier and FallbackIntentClassifier                        *)
(* (nlu/llm_intent_classifier.py): the language model is asked what a      *)
(* caller wants, its answers are kept in an OrderedDict of bounded size,   *)
(* and if anything is raised the patterns answer instead.  Threads of the  *)
(* executor and the event loop share the dictionary without a lock; each   *)
(* of its operations is a step.                                            *)
(***************************************************************************)
EXTENDS Naturals, SequencesExt

CONSTANTS
  Sentences,     \* normalized texts
  CacheSize,     \* _CACHE_MAX_SIZE
  CacheThreads,
  CacheModes     \* "serial": one call at a time; "overlap"

ASSUME CacheAssumption ==
  /\ CacheSize \in Nat \ {0} /\ CacheModes \subseteq {"serial", "overlap"}
  /\ IsFiniteSet(CacheThreads)

VARIABLES
  cache,      \* the keys of _cache in their order
  cacheMode,
  cacheJob,   \* what each thread is doing, and for which text
  recent      \* for the properties: texts the model has answered, the last used last

cacheVars == <<cache, cacheMode, cacheJob, recent>>

CacheFree == [at |-> "free", text |-> ""]

CacheTypeOK ==
  /\ IsInjective(cache) /\ ToSet(cache) \subseteq Sentences
  /\ \A w \in CacheThreads : cacheJob[w].at \in {"free", "touch", "read", "invoke", "put", "check", "evict"}

CacheInit ==
  /\ cache = <<>> /\ cacheMode \in CacheModes
  /\ cacheJob = [w \in CacheThreads |-> CacheFree]
  /\ recent = <<>>

At(w, at)     == cacheJob[w].at = at
CacheGoto(w, at) == cacheJob' = [cacheJob EXCEPT ![w].at = at]
Cached(w)     == cacheJob[w].text \in ToSet(cache)
ToEnd(s, t)   == Append(RemoveFirst(s, t), t)

(* predict returns what the model has said, or raises and the patterns answer. *)
ModelAnswers(w) ==
  /\ recent' = ToEnd(recent, cacheJob[w].text)
  /\ cacheJob' = [cacheJob EXCEPT ![w] = CacheFree]
PatternsAnswer(w) ==
  /\ UNCHANGED recent
  /\ cacheJob' = [cacheJob EXCEPT ![w] = CacheFree]

Predict(w, t) ==
  /\ At(w, "free")
  /\ cacheMode = "serial" => \A v \in CacheThreads : At(v, "free")
  /\ cacheJob' = [cacheJob EXCEPT ![w] = [at |-> IF t \in ToSet(cache) THEN "touch" ELSE "invoke",
                                         text |-> t]]
  /\ UNCHANGED <<cache, cacheMode, recent>>

NotMoved(w) ==   \* mutant of MoveToEnd
  /\ At(w, "touch")
  /\ IF Cached(w) THEN CacheGoto(w, "read") /\ UNCHANGED <<cache, recent>>
     ELSE PatternsAnswer(w) /\ UNCHANGED cache
  /\ UNCHANGED cacheMode
MoveToEnd(w) ==
  /\ At(w, "touch")
  /\ IF Cached(w)
     THEN /\ cache' = ToEnd(cache, cacheJob[w].text)
          /\ CacheGoto(w, "read") /\ UNCHANGED recent
     ELSE PatternsAnswer(w) /\ UNCHANGED cache   \* KeyError
  /\ UNCHANGED cacheMode

ReadEntry(w) ==
  /\ At(w, "read")
  /\ IF Cached(w) THEN ModelAnswers(w) ELSE PatternsAnswer(w)
  /\ UNCHANGED <<cache, cacheMode>>

(* The service fails, or its answer is no JSON with a number for a confidence. *)
Invoke(w) ==
  /\ At(w, "invoke")
  /\ \/ CacheGoto(w, "put") /\ UNCHANGED recent
     \/ PatternsAnswer(w)
  /\ UNCHANGED <<cache, cacheMode>>

(* A key that is there already keeps its place. *)
Put(w) ==
  /\ At(w, "put")
  /\ cache' = IF Cached(w) THEN cache ELSE Append(cache, cacheJob[w].text)
  /\ CacheGoto(w, "check")
  /\ UNCHANGED <<cacheMode, recent>>

CheckSize(w) ==
  /\ At(w, "check")
  /\ IF Len(cache) > CacheSize THEN CacheGoto(w, "evict") /\ UNCHANGED recent
     ELSE ModelAnswers(w)
  /\ UNCHANGED <<cache, cacheMode>>

Evict(w) ==
  /\ At(w, "evict")
  /\ IF cache = <<>> THEN PatternsAnswer(w) /\ UNCHANGED cache
     ELSE cache' = Tail(cache) /\ ModelAnswers(w)
  /\ UNCHANGED cacheMode

CacheNext == \E w \in CacheThreads :
  \/ \E t \in Sentences : Predict(w, t)
  \/ MoveToEnd(w) \/ ReadEntry(w) \/ Invoke(w) \/ Put(w) \/ CheckSize(w) \/ Evict(w)

CacheSpec == CacheInit /\ [][CacheNext]_cacheVars

(* One call after the other, the dictionary holds the CacheSize texts used last,  *)
(* in that order, whatever failed in between; whatever overlaps, it never outgrows *)
(* its size by more than the threads that are about to shrink it.                 *)
LastOf(r) == SubSeq(r, IF Len(r) > CacheSize THEN Len(r) - CacheSize + 1 ELSE 1, Len(r))
KeepsRecent ==
  /\ cacheMode = "serial" /\ (\A w \in CacheThreads : At(w, "free")) => cache = LastOf(recent)
  /\ Len(cache) <= CacheSize + Cardinality({w \in CacheThreads : At(w, "check") \/ At(w, "evict")})
=============================================================================
