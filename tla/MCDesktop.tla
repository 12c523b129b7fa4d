----------------------------- MODULE MCDesktop -------------------------------
(* Instances of SharedSettings and Authenticator for TLC. The two share no     *)
(* state, so a behaviour is one or the other; of the calls one at most saves a *)
(* schedule or exports a text, which differ from the rest in the history only, *)
(* and the others come in one order, since the calls are alike.                *)
EXTENDS SharedSettings, Authenticator, TLC

CONSTANTS Clerk, Second

VARIABLE scene

Init == SettingsInit /\ Cardinality({shown[a] : a \in Apps}) = 1 /\ AuthInit /\ scene \in {"settings", "security"}

Keepers == \A c \in Calls \ {Clerk} : call'[c].at = "idle" \/ call'[c].does \in {"import", "delete"}
InOrder == call'[Second].at = "idle" \/ \A c \in Calls \ {Second, Clerk} : call[c].at # "idle"

Next ==
  /\ UNCHANGED scene
  /\ \/ scene = "settings" /\ SettingsNext /\ UNCHANGED authVars
     \/ scene = "security" /\ AuthNext /\ Keepers /\ InOrder /\ UNCHANGED settingsVars

Spec == Init /\ [][Next]_<<settingsVars, authVars, scene>> /\ SettingsFairness
=============================================================================
