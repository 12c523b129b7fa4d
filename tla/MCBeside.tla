------------------------------ MODULE MCBeside -------------------------------
(* Instances for TLC of four components that work beside the game and share no  *)
(* state: the two files of the main process written as books, DieselLedger and  *)
(* SaveHistory, and the window's Updates and PurchaseFx. A behaviour is one of  *)
(* the four.                                                                    *)
EXTENDS DieselLedger, SaveHistory, Updates, PurchaseFx, TLC

VARIABLE scene

(* What is not on begins in one of its initial states, not in each. *)
Init ==
  /\ LedgerInit /\ HistoryInit /\ UpdatesInit /\ FxInit
  /\ scene \in {"ledger", "history", "updates", "feedback"}
  /\ scene # "history" => saving = CHOOSE s \in Saves : TRUE
  /\ scene # "ledger" => fileKind = "absent"
  /\ scene # "updates" => latest = 1 /\ status = INITIAL_UPDATE_STATUS
  /\ scene # "feedback" => ~reducedMotion

Next ==
  /\ UNCHANGED scene
  /\ \/ scene = "ledger" /\ LedgerNext /\ UNCHANGED <<historyVars, updatesVars, fxVars>>
     \/ scene = "history" /\ HistoryNext /\ UNCHANGED <<ledgerVars, updatesVars, fxVars>>
     \/ scene = "updates" /\ UpdatesNext /\ UNCHANGED <<ledgerVars, historyVars, fxVars>>
     \/ scene = "feedback" /\ FxNext /\ UNCHANGED <<ledgerVars, historyVars, updatesVars>>

(* The components' own fairness, in their scenes. *)
Fairness ==
  /\ WF_updatesVars(scene = "updates" /\ Check)
  /\ WF_updatesVars(scene = "updates" /\ (NothingNew \/ Found \/ Downloaded))
  /\ WF_updatesVars(scene = "updates" /\ Mount)
  /\ WF_updatesVars(scene = "updates" /\ AnswerRequest)
  /\ WF_updatesVars(scene = "updates" /\ Receive)
  /\ FxFairness

Spec == Init /\ [][Next]_<<ledgerVars, historyVars, updatesVars, fxVars, scene>> /\ Fairness
=============================================================================
