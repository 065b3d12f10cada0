---------------------------- MODULE Environment ----------------------------
(***************************************************************************)
(* A player's environment in cascadia-game: its wildlife scores, and the   *)
(* turns that can be made on it with their habitat scores.  The two share  *)
(* no state, so a behaviour of one with the other at rest shows all it can *)
(* do; "part" names it.                                                    *)
(***************************************************************************)
EXTENDS WildlifeProfiles, LegalTurns

VARIABLE part

environmentVars == <<part, scoringVars, turnVars>>

\* The part at rest starts in one way only.
EnvironmentInit ==
  /\ part \in {"scores", "turns"}
  /\ ScoringInit
  /\ part = "turns" => cards = CHOOSE ruleset \in Rulesets : TRUE
  /\ TurnsInit
  /\ part = "scores" => game.market = CHOOSE market \in Offers : TRUE

EnvironmentNext ==
  /\ \/ part = "scores" /\ ScoringNext /\ UNCHANGED turnVars
     \/ part = "turns" /\ TurnsNext /\ UNCHANGED scoringVars
  /\ UNCHANGED part

EnvironmentSpec == EnvironmentInit /\ [][EnvironmentNext]_environmentVars
=============================================================================
