----------------------------- MODULE ApiServer -----------------------------
(***************************************************************************)
(* The web server, cascadia-api/src/lib.rs: its three parts run in one     *)
(* process and share no state, so a behaviour of one of them with the      *)
(* others at rest shows all it can do; "part" names it.                    *)
(***************************************************************************)
EXTENDS ClusterHistory, ChampionSlot, SavedGames

VARIABLE part

apiVars == <<part, historyVars, slotVars, saved>>

ApiInit ==
  /\ part \in {"history", "champion", "games"}
  /\ HistoryInit /\ SlotInit /\ SavedInit

ApiNext ==
  /\ \/ part = "history" /\ HistoryNext /\ UNCHANGED <<slotVars, saved>>
     \/ part = "champion" /\ SlotNext /\ UNCHANGED <<historyVars, saved>>
     \/ part = "games" /\ SavedNext /\ UNCHANGED <<historyVars, slotVars>>
  /\ UNCHANGED part

ApiSpec == ApiInit /\ [][ApiNext]_apiVars /\ SlotFairness
=============================================================================
