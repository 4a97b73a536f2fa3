--------------------------- MODULE MCTurnPipeline ---------------------------
(* Utterances for the model checker, each with one the tests use.  The intents *)
(* are what IntentClassifier with its keyword model returns for them.          *)
EXTENDS TurnPipelineProps, TLC

Say(intent) ==
  [short |-> FALSE, yes |-> FALSE, cancel |-> FALSE, no |-> FALSE, safe |-> TRUE,
   intent |-> intent, plan |-> None, addon |-> None]

Yes       == [Say("UNCLASSIFIED") EXCEPT !.short = TRUE, !.yes = TRUE]  \* "ne"
No        == [Say("UNCLASSIFIED") EXCEPT !.short = TRUE, !.no = TRUE]   \* "anio"
CancelIt  == [Say("UNCLASSIFIED") EXCEPT !.cancel = TRUE]               \* "chwiso"
Pick(p)   == [Say("UNCLASSIFIED") EXCEPT !.short = TRUE, !.plan = p]    \* "1"
Drop(a)   == [Say("CANCELLATION") EXCEPT !.addon = a]  \* "<add-on> haeji"
Mumble    == Say("UNCLASSIFIED")
Change    == Say("PLAN_CHANGE")
DropAddon == Say("ADDON_CANCEL")
Ask       == Say("BILLING_INQUIRY")
HangUp    == Say("END_CALL")
Inject    == [Say("UNCLASSIFIED") EXCEPT !.safe = FALSE]

AllTexts == {Yes, No, CancelIt, Mumble, Change, DropAddon, Ask, HangUp, Inject}
            \cup {Pick(p) : p \in Plans} \cup {Drop(a) : a \in Addons}
\* For runs with two turns in flight: what moves the flows, and no more.
FlowTexts == {Yes, CancelIt, Change, DropAddon}
             \cup {Pick(p) : p \in Plans} \cup {Drop(a) : a \in Addons}

Symmetric == Permutations(Workers) \cup Permutations(Sessions)
=============================================================================
