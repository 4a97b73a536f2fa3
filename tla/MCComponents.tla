----------------------------- MODULE MCComponents -----------------------------
(***************************************************************************)
(* The components that share no state, model-checked one beside the other: *)
(* the initial state chooses one of them, and only that one takes steps.   *)
(* What a component may freely begin with is fixed while another runs.     *)
(***************************************************************************)
EXTENDS ServiceTokens, PiiTokens, CallerAuth, CallbackDesk, CallControl, Utterances, Masking, Reply, SpokenNumbers,
        IntentCache, TLC

VARIABLE part

FieldsDef == <<"name", "phone">>
HolidayChoicesDef == {{}, {1, 4}}
ServiceSymmetry == Permutations(Services)

(* A component that takes no steps stays as it began. *)
TypeOK ==
  /\ part = "service" => ServiceTypeOK
  /\ part = "pii"     => PiiTypeOK
  /\ part = "auth"    => AuthTypeOK
  /\ part = "desk"    => DeskTypeOK
  /\ part = "control" => ControlTypeOK
  /\ part = "said"    => UtterancesTypeOK
  /\ part = "mask"    => MaskingTypeOK
  /\ part = "reply"   => ReplyTypeOK
  /\ part = "spoken"  => SpokenTypeOK
  /\ part = "cache"   => CacheTypeOK

Init ==
  /\ part \in {"service", "pii", "auth", "desk", "control", "said", "mask", "reply", "spoken",
               "cache"}
  /\ ServiceInit /\ PiiInit /\ AuthInit /\ DeskInit /\ ControlInit /\ SaidInit /\ MaskInit /\ ReplyInit
  /\ SpokenInit /\ CacheInit
  /\ part # "pii"  => piiMode = "serial" /\ returned = {} /\ ownKeys = {}
  /\ part # "auth" => authMode = "serial"
  /\ part # "cache" => cacheMode = "serial"
  /\ part # "desk" => holidays = {}
  /\ part # "mask" => \A f \in FieldNames : customer[f] = <<>>

Service ==
  /\ part = "service" /\ ServiceNext
  /\ UNCHANGED <<part, piiVars, authVars, deskVars, controlVars, saidVars,
                 maskVars, replyVars, spokenVars, cacheVars>>
Pii ==
  /\ part = "pii" /\ PiiNext
  /\ UNCHANGED <<part, serviceVars, authVars, deskVars, controlVars, saidVars,
                 maskVars, replyVars, spokenVars, cacheVars>>
Auth ==
  /\ part = "auth" /\ AuthNext
  /\ UNCHANGED <<part, serviceVars, piiVars, deskVars, controlVars, saidVars,
                 maskVars, replyVars, spokenVars, cacheVars>>
Desk ==
  /\ part = "desk" /\ DeskNext
  /\ UNCHANGED <<part, serviceVars, piiVars, authVars, controlVars, saidVars,
                 maskVars, replyVars, spokenVars, cacheVars>>
Control_ ==
  /\ part = "control" /\ ControlNext
  /\ UNCHANGED <<part, serviceVars, piiVars, authVars, deskVars, saidVars,
                 maskVars, replyVars, spokenVars, cacheVars>>
Said ==
  /\ part = "said" /\ Speak
  /\ UNCHANGED <<part, serviceVars, piiVars, authVars, deskVars, controlVars,
                 maskVars, replyVars, spokenVars, cacheVars>>
Mask_ ==
  /\ part = "mask" /\ Say
  /\ UNCHANGED <<part, serviceVars, piiVars, authVars, deskVars, controlVars,
                 saidVars, replyVars, spokenVars, cacheVars>>
Reply_ ==
  /\ part = "reply" /\ ReplyNext
  /\ UNCHANGED <<part, serviceVars, piiVars, authVars, deskVars, controlVars,
                 saidVars, maskVars, spokenVars, cacheVars>>
Spoken_ ==
  /\ part = "spoken" /\ Key
  /\ UNCHANGED <<part, serviceVars, piiVars, authVars, deskVars, controlVars,
                 saidVars, maskVars, replyVars, cacheVars>>
Cache_ ==
  /\ part = "cache" /\ CacheNext
  /\ UNCHANGED <<part, serviceVars, piiVars, authVars, deskVars, controlVars,
                 saidVars, maskVars, replyVars, spokenVars>>

Next == Service \/ Pii \/ Auth \/ Desk \/ Control_ \/ Said \/ Mask_ \/ Reply_ \/ Spoken_ \/ Cache_
vars == <<part, serviceVars, piiVars, authVars, deskVars, controlVars, saidVars, maskVars, replyVars,
          spokenVars, cacheVars>>
Spec == Init /\ [][Next]_vars
=============================================================================
