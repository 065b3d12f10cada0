----------------------------- MODULE SavedGames -----------------------------
(***************************************************************************)
(* The game handlers of cascadia-api/src/lib.rs keep no state: a client    *)
(* sends the saved game, the server replays it (cascadia-game's replay.rs) *)
(* and returns the next one.  A saved game of a completed game is sealed   *)
(* with the hash of its final state.                                       *)
(*                                                                         *)
(* The engine is deterministic, so the turns stand for the state they lead *)
(* to, and for its hash.                                                   *)
(***************************************************************************)
EXTENDS Sequences, Naturals, SequencesExt

CONSTANTS
  TotalTurns,
  Actions,
  Legal(_)   \* the actions that are legal after a sequence of turns

ASSUME SavedGamesAssumption ==
  /\ TotalTurns \in Nat \ {0}
  /\ \A turns \in BoundedSeq(Actions, TotalTurns) : Legal(turns) \subseteq Actions

VARIABLE saved   \* the saved games the server has returned

Unsealed == << >>
Sealed(turns) == <<turns>>
Game(turns, hash) == [turns |-> turns, final_state_hash |-> hash]
GameOver(turns) == Len(turns) = TotalTurns

\* load_saved_game and Replay::play.
Loads(g) ==
  /\ \A n \in 1..Len(g.turns) :
       ~GameOver(SubSeq(g.turns, 1, n - 1)) /\ g.turns[n] \in Legal(SubSeq(g.turns, 1, n - 1))
  /\ g.final_state_hash \in {Unsealed, Sealed(g.turns)}

\* view_game, of a game that loads.
View(g) == IF GameOver(g.turns) THEN [g EXCEPT !.final_state_hash = Sealed(g.turns)] ELSE g

SavedInit == saved = {}

NewGame == saved' = saved \cup {View(Game(<<>>, Unsealed))}

ViewGame(g) ==
  /\ Loads(g)
  /\ saved' = saved \cup {View(g)}

ApplyTurn(g, a) ==
  /\ Loads(g)
  /\ ~GameOver(g.turns)
  /\ a \in Legal(g.turns)
  /\ saved' = saved \cup {View(Game(Append(g.turns, a), Unsealed))}

\* Wrong: the hash of the completed game is kept.
UndoKeepingHash(g) ==
  /\ Loads(g)
  /\ g.turns # <<>>
  /\ saved' = saved \cup {View(Game(Front(g.turns), g.final_state_hash))}

UndoTurn(g) ==
  /\ Loads(g)
  /\ g.turns # <<>>
  /\ saved' = saved \cup {View(Game(Front(g.turns), Unsealed))}

SavedNext ==
  \/ NewGame
  \/ \E g \in saved : ViewGame(g) \/ UndoTurn(g) \/ \E a \in Actions : ApplyTurn(g, a)

\* Whatever the clients apply and undo, every saved game the server returned
\* loads again, and it is sealed exactly when its game is over.
SavedGamesLoad ==
  \A g \in saved : Loads(g) /\ (g.final_state_hash # Unsealed <=> GameOver(g.turns))
=============================================================================
