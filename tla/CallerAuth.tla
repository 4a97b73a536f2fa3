------------------------------ MODULE CallerAuth ------------------------------
(***************************************************************************)
(* AuthenticationModule (business/auth_module.py): one more lookup of a    *)
(* caller by a number he gives, and at most MAX_ATTEMPTS tries to prove    *)
(* who he is.  The counts of a session are read before the customer        *)
(* database is called and written before (lookup) or after (authenticate)  *)
(* the call; calls for one session may overlap.                            *)
(***************************************************************************)
EXTENDS Naturals, FiniteSets

CONSTANTS
  Callers,      \* session ids
  AuthThreads,
  AuthModes,    \* "serial", "overlap": calls for one session
  MaxAttempts,  \* MAX_ATTEMPTS
  MaxAsks       \* bound: attempts made for a session

ASSUME AuthAssumption == MaxAttempts \in Nat \ {0} /\ MaxAsks \in Nat
                         /\ AuthModes \subseteq {"serial", "overlap"}

VARIABLES
  failureCounts, lookupCounts,   \* the module's dictionaries, 0 for no entry
  authMode,
  authJob,     \* per thread: the call under way, the count it has read
  refused,     \* for the properties: attempts the database did not confirm
  asks,        \* attempts made
  lookups,     \* lookups that reached the database
  result       \* how the last attempt of each session was answered

authVars == <<failureCounts, lookupCounts, authMode, authJob, refused, asks, lookups, result>>

AuthFree == [op |-> "free", s |-> "", type |-> "", count |-> 0]
AuthTypes == {"birthdate", "password"}
AuthAnswers == {"none", "accepted", "refused", "raised"}
NoResult == [answer |-> "none", count |-> 0, switch |-> FALSE]

AuthTypeOK ==
  /\ failureCounts \in [Callers -> 0..MaxAsks] /\ lookupCounts \in [Callers -> 0..1]
  /\ \A s \in Callers : result[s].answer \in AuthAnswers /\ result[s].count \in 0..MaxAsks
  /\ \A w \in AuthThreads : authJob[w].op \in {"free", "authenticate", "lookup", "asking"}

AuthInit ==
  /\ failureCounts = [s \in Callers |-> 0] /\ lookupCounts = [s \in Callers |-> 0]
  /\ authMode \in AuthModes
  /\ authJob = [w \in AuthThreads |-> AuthFree]
  /\ refused = [s \in Callers |-> 0] /\ asks = [s \in Callers |-> 0]
  /\ lookups = [s \in Callers |-> 0]
  /\ result = [s \in Callers |-> NoResult]

MayAuth(w, s) ==
  /\ authJob[w].op = "free"
  /\ authMode = "serial" => \A v \in AuthThreads : authJob[v].op = "free" \/ authJob[v].s # s

(* authenticate: read the count and ask, *)
Authenticate(w, s, type) ==
  /\ MayAuth(w, s) /\ asks[s] < MaxAsks
  /\ asks' = [asks EXCEPT ![s] = @ + 1]
  /\ authJob' = [authJob EXCEPT ![w] = [op |-> "authenticate", s |-> s, type |-> type,
                                       count |-> failureCounts[s]]]
  /\ UNCHANGED <<failureCounts, lookupCounts, authMode, refused, lookups, result>>

Least(m, n) == IF m < n THEN m ELSE n

(* confirmed: an AuthResult refuses to be made for an accepted caller who is at   *)
(* the limit (AuthResult.__post_init__), and the call of authenticate ends in its *)
(* ValueError; nothing else changes either way,                                   *)
Verified(w) ==
  /\ authJob[w].op = "authenticate"
  /\ LET n == authJob[w].count IN
       result' = [result EXCEPT ![authJob[w].s] =
         [answer |-> IF n < MaxAttempts THEN "accepted" ELSE "raised", count |-> n, switch |-> FALSE]]
  /\ authJob' = [authJob EXCEPT ![w] = AuthFree]
  /\ UNCHANGED <<failureCounts, lookupCounts, authMode, refused, asks, lookups>>

(* or not, which includes a database that does not answer. *)
CountAnew(w) == 1   \* mutant of NewCount
NewCount(w) == authJob[w].count + 1

Refused(w) ==
  /\ authJob[w].op = "authenticate"
  /\ LET s == authJob[w].s IN
       /\ failureCounts' = [failureCounts EXCEPT ![s] = NewCount(w)]
       /\ \E hasPassword \in BOOLEAN :
            result' = [result EXCEPT ![s] =
              [answer |-> "refused", count |-> Least(NewCount(w), MaxAttempts),
               switch |-> /\ hasPassword /\ authJob[w].type = "birthdate"
                          /\ NewCount(w) < MaxAttempts]]
       /\ refused' = [refused EXCEPT ![s] = @ + 1]
  /\ authJob' = [authJob EXCEPT ![w] = AuthFree]
  /\ UNCHANGED <<lookupCounts, authMode, asks, lookups>>

(* lookup_by_provided_number: a second lookup of the session is answered without *)
(* asking.  identify_by_caller_id keeps no count and changes nothing.            *)
LookupByNumber(w, s) ==
  /\ MayAuth(w, s) /\ lookupCounts[s] < 1
  /\ authJob' = [authJob EXCEPT ![w] = [op |-> "lookup", s |-> s, type |-> "", count |-> lookupCounts[s]]]
  /\ UNCHANGED <<failureCounts, lookupCounts, authMode, refused, asks, lookups, result>>

Ask(w) == authJob' = [authJob EXCEPT ![w].op = "asking"]

CountLookup(w) ==
  /\ authJob[w].op = "lookup" /\ Ask(w)
  /\ lookupCounts' = [lookupCounts EXCEPT ![authJob[w].s] = authJob[w].count + 1]
  /\ UNCHANGED <<failureCounts, authMode, refused, asks, lookups, result>>

LookupAnswered(w) ==
  /\ authJob[w].op = "asking" /\ lookups[authJob[w].s] < MaxAsks
  /\ lookups' = [lookups EXCEPT ![authJob[w].s] = @ + 1]
  /\ authJob' = [authJob EXCEPT ![w] = AuthFree]
  /\ UNCHANGED <<failureCounts, lookupCounts, authMode, refused, asks, result>>

AuthNext == \E w \in AuthThreads :
  \/ \E s \in Callers : LookupByNumber(w, s) \/ \E type \in AuthTypes : Authenticate(w, s, type)
  \/ Verified(w) \/ Refused(w) \/ CountLookup(w) \/ LookupAnswered(w)

AuthSpec == AuthInit /\ [][AuthNext]_authVars

(* While calls of a session do not overlap, the count is the number of attempts   *)
(* that were not confirmed, by whichever means they were made, nobody is accepted *)
(* after MAX_ATTEMPTS of them, a change of means is offered only to a caller who  *)
(* still has an attempt for it, and a session has one lookup by a number, found   *)
(* or not: both counts are taken back by no path through the calls of the         *)
(* database.  Calls that overlap may each read a count before the other writes it.*)
Asking(s) == {w \in AuthThreads : authJob[w].op = "asking" /\ authJob[w].s = s}
CountsHold == authMode = "serial" => \A s \in Callers :
  /\ failureCounts[s] = refused[s]
  /\ result[s].answer = "accepted" \/ result[s].switch => refused[s] < MaxAttempts
  /\ lookups[s] + Cardinality(Asking(s)) <= lookupCounts[s]
  /\ lookupCounts[s] <= 1

(* authenticate: "누적 실패 횟수가 MAX_ATTEMPTS(3)에 도달하면 is_authenticated=False   *)
(* 를 반환한다" (auth_module.py:109): every attempt of a caller at the limit is       *)
(* answered by a refusal.                                                           *)
AttemptsEnd == \A s \in Callers : result[s].count >= MaxAttempts => result[s].answer = "refused"
=============================================================================
