---------------------------- MODULE CascadiaGame ----------------------------
(***************************************************************************)
(* The turn engine of crates/cascadia-game: GameState::new, transition and *)
(* apply, with the market, the cloth bag, the tile stack and the automatic *)
(* overpopulation rule.                                                    *)
(*                                                                         *)
(* apply clones the game, mutates the clone step by step and replaces the  *)
(* game only when every step and the final validation succeeded.  `game`   *)
(* is the caller's value, `work` the clone, `pc` the place in the code.    *)
(* Tokens and tiles are counted by species and by pile.  The order of the  *)
(* bag and of the stack is a hash of an unknown seed, so a pop yields any  *)
(* token the bag holds.  Coordinates, rotations, scoring and which tile    *)
(* hosts which species are abstracted: the board accepts or rejects a      *)
(* placement, and a token may or may not land on a keystone tile.          *)
(***************************************************************************)
EXTENDS Integers, Functions

CONSTANTS
  Players,         \* seats (config.player_count)
  TurnsPerPlayer,  \* 20 in the game
  Solo,            \* config.mode = Solo
  Supply,          \* tokens of each species, 20 in the game
  TileCount,       \* habitat tiles in the box, 85 in the game
  WipeLimit        \* automatic wipes tolerated in one replacement, 100 in the game

Wildlife == {"Bear", "Elk", "Salmon", "Hawk", "Fox"}
None == "none"
Slots == {0, 1, 2, 3}
Seats == 0..(Players - 1)
Piles == [Wildlife -> Nat]

StarterTiles == 3
MaxBoardTiles == StarterTiles + TurnsPerPlayer

ASSUME ParameterAssumption ==
  /\ Players \in Nat \ {0}
  /\ TurnsPerPlayer \in Nat \ {0}
  /\ Solo \in BOOLEAN
  /\ Solo <=> Players = 1
  /\ Supply \in Piles
  /\ TileCount \in Nat
  /\ WipeLimit \in Nat

TotalTurns == TurnsPerPlayer * Players

\* 43, 43, 63 and 83 tiles for one to four players: the four face up at the
\* start and one for every later turn; solo also discards one a turn.
TileStackSize == TotalTurns + 3 + (IF Solo THEN TurnsPerPlayer ELSE 0)

ASSUME StackAssumption == TileCount >= TileStackSize

NoTokens == [s \in Wildlife |-> 0]
Size(b) == b["Bear"] + b["Elk"] + b["Salmon"] + b["Hawk"] + b["Fox"]
Add(b, c) == [s \in Wildlife |-> b[s] + c[s]]

\* Tokens on boards and discarded when the market is refilled for the last time:
\* at most one of each per turn already taken.
MostOut == IF Solo THEN 2 * (TotalTurns - 1) ELSE TotalTurns - 1

\* 79 of 100 tokens are out at the latest: a shown market and a full wipe leave
\* none over only if 92 were, and 20 of one species are not all the 21 left.
ASSUME SupplyAssumption ==
  /\ Size(Supply) >= MostOut + 8
  /\ \A s \in Wildlife : Supply[s] < Size(Supply) - MostOut

\* How many market slots show species s; how many slots hold a tile.
Is(m, k, s) == IF m[k] = s THEN 1 ELSE 0
Shown(m, s) == Is(m, 0, s) + Is(m, 1, s) + Is(m, 2, s) + Is(m, 3, s)
TilesShown(g) == Shown(g.tiles, TRUE)
Tokens(m) == [s \in Wildlife |-> Shown(m, s)]

ThreeOfAKind(m) == {s \in Wildlife : Shown(m, s) = 3}
FourOfAKind(m) == \E s \in Wildlife : Shown(m, s) = 4

Board == [tiles : 0..MaxBoardTiles, nature : Nat]
GameState ==
  [boards : [Seats -> Board],
   tiles : [Slots -> BOOLEAN],                \* market.tiles: is there one
   wildlife : [Slots -> Wildlife \cup {None}],  \* market.wildlife
   stack : Nat, lostTiles : Nat,              \* tile_stack, discarded_tiles
   bag : Piles, placed : Piles, lost : Piles, \* bag, on boards, discarded
   player : Seats, turns : Nat]

IsOver(g) == g.turns = TotalTurns

Steps == {"idle", "three", "wipes", "fill", "settle", "draft", "place",
          "finish", "refill", "advance", "validate", "failed"}
\* Errors a player's own action can cause, and those the engine promises never
\* to raise.
PlayerErrors == {"GameOver", "NoThreeOfAKind", "InvalidWipe",
                 "NoNatureTokens", "Board"}
Exhausted == {"WildlifeBagEmpty", "TileStackEmpty", "UnavailableMarketSlot"}
EngineErrors == Exhausted \cup {"TileLimitReached", "Invariant"}
Unsettled == "AutomaticOverpopulationDidNotResolve"
Results == {"none", "ok", Unsettled} \cup PlayerErrors \cup EngineErrors

VARIABLES
  game,    \* the caller's GameState
  work,    \* the clone the call mutates
  aside,   \* tokens off the market that are in neither the bag nor a board
  op,      \* the call in progress, or the last one: "new" or "apply"
  pc,      \* its next step
  ret,     \* the step replace_wildlife returns to
  wipes,   \* automatic_wipes of the replacement in progress
  result   \* what the last call returned

vars == <<game, work, aside, op, pc, ret, wipes, result>>

-----------------------------------------------------------------------------
(* Control: an error drops the clone, and a failed `new` leaves no game.    *)

\* Wrong: the caller's own value is mutated, and an error leaves it half done.
RaiseInPlace(e) ==
  /\ game' = work
  /\ aside' = NoTokens
  /\ pc' = IF op = "new" THEN "failed" ELSE "idle"
  /\ ret' = "idle"
  /\ wipes' = 0
  /\ result' = e
  /\ UNCHANGED <<work, op>>

Raise(e) ==
  /\ work' = game
  /\ aside' = NoTokens
  /\ pc' = IF op = "new" THEN "failed" ELSE "idle"
  /\ ret' = "idle"
  /\ wipes' = 0
  /\ result' = e
  /\ UNCHANGED <<game, op>>

Goto(step) ==
  /\ pc' = step
  /\ ret' = "idle"
  /\ wipes' = 0
  /\ UNCHANGED <<game, op, result>>

Me == work.player
Nature == work.boards[Me].nature
Spend(g) == [g EXCEPT !.boards[g.player].nature = @ - 1]

-----------------------------------------------------------------------------
(* replace_wildlife: set the tokens of S aside, refill from the bag, return *)
(* the set-aside tokens, and repeat while the market shows four of a kind.  *)

Without(m, S) == [k \in Slots |-> IF k \in S THEN None ELSE m[k]]
Picked(m, S) == [s \in Wildlife |-> Shown(m, s) - Shown(Without(m, S), s)]

Replace(g, S, then) ==
  /\ work' = [g EXCEPT !.wildlife = Without(@, S)]
  /\ aside' = Picked(g.wildlife, S)
  /\ pc' = "fill"
  /\ ret' = then
  /\ wipes' = 0
  /\ UNCHANGED <<game, op, result>>

Gaps(g) == {k \in Slots : g.wildlife[k] = None}
Lowest(K) == CHOOSE k \in K : \A j \in K : k <= j
Draw(g, k, s) == [g EXCEPT !.wildlife[k] = s, !.bag[s] = @ - 1]

FillEmptyWildlife ==
  /\ pc = "fill"
  /\ Gaps(work) # {}
  /\ IF Size(work.bag) = 0
     THEN Raise("WildlifeBagEmpty")
     ELSE /\ \E s \in Wildlife :
               /\ work.bag[s] > 0
               /\ work' = Draw(work, Lowest(Gaps(work)), s)
          /\ UNCHANGED <<game, aside, op, pc, ret, wipes, result>>

\* Wrong: the wiped tokens are dropped.
ReturnNothing ==
  /\ pc = "fill"
  /\ Gaps(work) = {}
  /\ aside' = NoTokens
  /\ pc' = "settle"
  /\ UNCHANGED <<game, work, op, ret, wipes, result>>

ReturnSetAside ==
  /\ pc = "fill"
  /\ Gaps(work) = {}
  /\ work' = [work EXCEPT !.bag = Add(@, aside)]
  /\ aside' = NoTokens
  /\ pc' = "settle"
  /\ UNCHANGED <<game, op, ret, wipes, result>>

\* Wrong: the limit is compared one wipe late, or the wipes are not counted.
WipeAgain(limit, counted) ==
  /\ pc = "settle"
  /\ FourOfAKind(work.wildlife)
  /\ IF wipes = limit
     THEN Raise(Unsettled)
     ELSE /\ work' = [work EXCEPT !.wildlife = Without(@, Slots)]
          /\ aside' = Picked(work.wildlife, Slots)
          /\ pc' = "fill"
          /\ wipes' = wipes + counted
          /\ UNCHANGED <<game, op, ret, result>>
AutomaticWipeLate == WipeAgain(WipeLimit + 1, 1)
AutomaticWipeUncounted == WipeAgain(WipeLimit, 0)

AutomaticWipe ==
  /\ pc = "settle"
  /\ FourOfAKind(work.wildlife)
  /\ IF wipes = WipeLimit
     THEN Raise(Unsettled)
     ELSE /\ work' = [work EXCEPT !.wildlife = Without(@, Slots)]
          /\ aside' = Picked(work.wildlife, Slots)
          /\ pc' = "fill"
          /\ wipes' = wipes + 1
          /\ UNCHANGED <<game, op, ret, result>>

Settled ==
  /\ pc = "settle"
  /\ ~FourOfAKind(work.wildlife)
  /\ Goto(ret)
  /\ UNCHANGED <<work, aside>>

\* resolve_automatic_overpopulation
ResolveOverpopulation(then) ==
  IF FourOfAKind(work.wildlife)
  THEN Replace(work, Slots, then)
  ELSE Goto(then) /\ UNCHANGED <<work, aside>>

-----------------------------------------------------------------------------
(* apply_market_prelude and the draft.                                      *)

BeginApply ==
  /\ pc = "idle"
  /\ IF IsOver(game)
     THEN result' = "GameOver" /\ UNCHANGED <<game, work, aside, op, pc, ret, wipes>>
     ELSE /\ op' = "apply"
          /\ pc' = "three"
          /\ work' = game
          /\ result' = "none"
          /\ UNCHANGED <<game, aside, ret, wipes>>

ReplaceThreeOfAKind ==
  /\ pc = "three"
  /\ IF ThreeOfAKind(work.wildlife) = {}
     THEN Raise("NoThreeOfAKind")
     ELSE \E s \in ThreeOfAKind(work.wildlife) :
            Replace(work, {k \in Slots : work.wildlife[k] = s}, "wipes")

DeclineThreeOfAKind ==
  /\ pc = "three"
  /\ Goto("wipes")
  /\ UNCHANGED <<work, aside>>

\* One entry of prelude.wildlife_wipes; S is empty or has a repeated slot in a
\* malformed action.
PaidWipe ==
  /\ pc = "wipes"
  /\ \E S \in SUBSET Slots :
       IF S = {} THEN Raise("InvalidWipe")
       ELSE IF Nature = 0 THEN Raise("NoNatureTokens")
       ELSE Replace(Spend(work), S, "wipes")

EndPrelude ==
  /\ pc = "wipes"
  /\ Goto("draft")
  /\ UNCHANGED <<work, aside>>

\* The drafted tile and token leave the market; the token is in hand.
Take(g, t, w) ==
  IF g.tiles[t] /\ g.wildlife[w] # None
  THEN /\ work' = [g EXCEPT !.tiles[t] = FALSE, !.wildlife[w] = None]
       /\ aside' = Picked(g.wildlife, {w})
       /\ Goto("place")
  ELSE Raise("UnavailableMarketSlot")

DraftPaired ==
  /\ pc = "draft"
  /\ \E slot \in Slots : Take(work, slot, slot)

DraftIndependent ==
  /\ pc = "draft"
  /\ \E t, w \in Slots :
       IF Nature = 0 THEN Raise("NoNatureTokens") ELSE Take(Spend(work), t, w)

-----------------------------------------------------------------------------
(* The placement. A token on a keystone tile awards a nature token.         *)

WithTile(g) == [g EXCEPT !.boards[g.player].tiles = @ + 1]

PlaceTileOnly ==
  /\ pc = "place"
  /\ IF work.boards[Me].tiles = MaxBoardTiles
     THEN Raise("TileLimitReached")
     ELSE /\ work' = WithTile(work)
          /\ Goto("finish")
          /\ UNCHANGED aside

PlaceTileAndWildlife ==
  /\ pc = "place"
  /\ IF work.boards[Me].tiles = MaxBoardTiles
     THEN Raise("TileLimitReached")
     ELSE /\ \E award \in 0..1 :
               work' = [WithTile(work) EXCEPT !.boards[Me].nature = @ + award,
                                              !.placed = Add(@, aside)]
          /\ aside' = NoTokens
          /\ Goto("finish")

\* Out of bounds, occupied or detached cell; no tile, or a tile that is taken
\* or cannot host the species.
PlacementRejected ==
  /\ pc = "place"
  /\ Raise("Board")

-----------------------------------------------------------------------------
(* finish_turn: an unplaced token goes back before the market is refilled,  *)
(* and the last turn of the game refills nothing.                           *)

\* compact_away_from_draw_stack: the occupied slots move to the end.
Held(m, j, k, gap) == IF j <= k /\ m[k] # gap THEN 1 ELSE 0
Behind(m, j, gap) ==
  Held(m, j, 0, gap) + Held(m, j, 1, gap) + Held(m, j, 2, gap) + Held(m, j, 3, gap)
MovesTo(m, gap, k) == {j \in Slots : m[j] # gap /\ Behind(m, j, gap) = 4 - k}
Compact(m, gap) ==
  [k \in Slots |-> IF MovesTo(m, gap, k) = {} THEN gap
                   ELSE m[CHOOSE j \in MovesTo(m, gap, k) : TRUE]]

Highest(K) == CHOOSE k \in K : \A j \in K : j <= k
LastTile(g) == Highest({k \in Slots : g.tiles[k]})
LastToken(g) == Highest({k \in Slots : g.wildlife[k] # None})

\* Wrong: the discarded token is not recorded.
SoloDiscardUnrecorded(g) ==
  [g EXCEPT
     !.tiles = Compact([@ EXCEPT ![LastTile(g)] = FALSE], FALSE),
     !.wildlife = Compact([@ EXCEPT ![LastToken(g)] = None], None),
     !.lostTiles = @ + 1]

\* The head of refill_solo_market: the pair nearest the draw stack is discarded.
SoloDiscard(g) ==
  [g EXCEPT
     !.tiles = Compact([@ EXCEPT ![LastTile(g)] = FALSE], FALSE),
     !.wildlife = Compact([@ EXCEPT ![LastToken(g)] = None], None),
     !.lostTiles = @ + 1,
     !.lost = Add(@, Picked(g.wildlife, {LastToken(g)}))]

\* Wrong: a token that was not placed is not put back.
TurnDoneKeepsToken(g, hand) == [g EXCEPT !.turns = @ + 1]

TurnDone(g, hand) == [g EXCEPT !.bag = Add(@, hand), !.turns = @ + 1]

EndTurn(g, step) ==
  /\ work' = g
  /\ aside' = NoTokens
  /\ Goto(step)

StartRefill(g) ==
  IF ~Solo THEN EndTurn(g, "refill")
  ELSE IF TilesShown(g) = 0 THEN Raise("TileStackEmpty")
  ELSE IF Gaps(g) = Slots THEN Raise("WildlifeBagEmpty")
  ELSE EndTurn(SoloDiscard(g), "refill")

\* Wrong: the market is refilled after the last turn, or the move is not passed
\* on when the game ends.
FinishTurnRefillsAlways == pc = "finish" /\ StartRefill(TurnDone(work, aside))
FinishTurnKeepsSeat ==
  /\ pc = "finish"
  /\ LET g == TurnDone(work, aside) IN
       IF IsOver(g) THEN EndTurn(g, "validate") ELSE StartRefill(g)

FinishTurn ==
  /\ pc = "finish"
  /\ LET g == TurnDone(work, aside) IN
       IF IsOver(g) THEN EndTurn(g, "advance") ELSE StartRefill(g)

Incomplete(g) == {k \in Slots : ~g.tiles[k] \/ g.wildlife[k] = None}

\* One slot of refill_standard_market, and of the loop of refill_solo_market.
RefillSlot ==
  /\ pc = "refill"
  /\ Incomplete(work) # {}
  /\ LET k == Lowest(Incomplete(work))
         g == IF work.tiles[k] THEN work
              ELSE [work EXCEPT !.tiles[k] = TRUE, !.stack = @ - 1]
     IN IF ~work.tiles[k] /\ work.stack = 0 THEN Raise("TileStackEmpty")
        ELSE IF g.wildlife[k] = None /\ Size(g.bag) = 0 THEN Raise("WildlifeBagEmpty")
        ELSE /\ \/ g.wildlife[k] # None /\ work' = g
                \/ /\ g.wildlife[k] = None
                   /\ \E s \in Wildlife : g.bag[s] > 0 /\ work' = Draw(g, k, s)
             /\ UNCHANGED <<game, aside, op, pc, ret, wipes, result>>

RefillDone ==
  /\ pc = "refill"
  /\ Incomplete(work) = {}
  /\ ResolveOverpopulation("advance")

AdvancePlayer ==
  /\ pc = "advance"
  /\ work' = IF op = "new" THEN work
             ELSE [work EXCEPT !.player = (@ + 1) % Players]
  /\ UNCHANGED aside
  /\ Goto("validate")

-----------------------------------------------------------------------------
(* GameState::validate and the replacement of the caller's value.           *)

BoardTiles(g) == [p \in Seats |-> g.boards[p].tiles - StarterTiles]

Valid(g) ==
  /\ g.turns <= TotalTurns
  /\ g.player \in Seats
  /\ \A p \in Seats : g.boards[p].tiles <= MaxBoardTiles
  /\ IsOver(g) \/ (Incomplete(g) = {})
  /\ ~FourOfAKind(g.wildlife)
  /\ g.stack + (TileCount - TileStackSize) + g.lostTiles + TilesShown(g)
       + SumFunction(BoardTiles(g)) = TileCount
  /\ Size(g.bag) + Size(g.lost) + Size(Tokens(g.wildlife)) + Size(g.placed)
       = Size(Supply)

Commit ==
  /\ pc = "validate"
  /\ IF Valid(work)
     THEN /\ game' = work
          /\ pc' = "idle"
          /\ result' = "ok"
          /\ UNCHANGED <<work, aside, op, ret, wipes>>
     ELSE Raise("Invariant")

-----------------------------------------------------------------------------
\* GameState::new up to its overpopulation check: the shuffled box is dealt.
Dealt(m) ==
  [boards |-> [p \in Seats |-> [tiles |-> StarterTiles, nature |-> 0]],
   tiles |-> [k \in Slots |-> TRUE],
   wildlife |-> m,
   stack |-> TileStackSize - 4, lostTiles |-> 0,
   bag |-> [s \in Wildlife |-> Supply[s] - Shown(m, s)],
   placed |-> NoTokens, lost |-> NoTokens,
   player |-> 0, turns |-> 0]

Init ==
  /\ \E m \in [Slots -> Wildlife] :
       /\ \A s \in Wildlife : Shown(m, s) <= Supply[s]
       /\ work = Dealt(m)
  /\ game = work
  /\ aside = NoTokens
  /\ op = "new"
  /\ pc = "refill"
  /\ ret = "idle"
  /\ wipes = 0
  /\ result = "none"

\* Everything a call does once it has begun.
Step ==
  \/ FillEmptyWildlife \/ ReturnSetAside \/ AutomaticWipe \/ Settled
  \/ ReplaceThreeOfAKind \/ DeclineThreeOfAKind \/ PaidWipe \/ EndPrelude
  \/ DraftPaired \/ DraftIndependent
  \/ PlaceTileOnly \/ PlaceTileAndWildlife \/ PlacementRejected
  \/ FinishTurn \/ RefillSlot \/ RefillDone \/ AdvancePlayer \/ Commit

Next == BeginApply \/ Step

Spec == Init /\ [][Next]_vars /\ WF_vars(Step)

\* turns_remaining_for_player; wrong when the seat to move counts as done.
TurnsRemainingEarly(turns, p) ==
  LET done == turns \div Players + (IF p <= turns % Players THEN 1 ELSE 0)
  IN IF done > TurnsPerPlayer THEN 0 ELSE TurnsPerPlayer - done

TurnsRemaining(turns, p) ==
  LET done == turns \div Players + (IF p < turns % Players THEN 1 ELSE 0)
  IN IF done > TurnsPerPlayer THEN 0 ELSE TurnsPerPlayer - done

-----------------------------------------------------------------------------
(* Properties.                                                              *)

\* Every variable has the type its declaration says.
TypeOK ==
  /\ game \in GameState
  /\ work \in GameState
  /\ aside \in Piles
  /\ op \in {"new", "apply"}
  /\ pc \in Steps
  /\ ret \in {"idle", "wipes", "advance"}
  /\ wipes \in 0..WipeLimit
  /\ result \in Results

\* No species gains or loses a token, at any point inside a call: what has left
\* the market is in the bag, on a board, discarded or in hand. validate checks
\* the total alone, and only at the end (replace_wildlife, finish_turn).
Accounted(g, hand, s) ==
  g.bag[s] + Shown(g.wildlife, s) + g.placed[s] + g.lost[s] + hand[s] = Supply[s]
TokenConservation ==
  \A s \in Wildlife : Accounted(work, aside, s) /\ Accounted(game, NoTokens, s)

\* The bag and the stack are never empty when the engine pops, and the market is
\* full whenever a player drafts: 100 tokens and 43, 63 or 83 tiles are enough
\* to the last turn (fill_empty_wildlife, refill_*_market, take_*).
SupplyNeverRunsDry == result \notin Exhausted

\* The only errors a call can return are the player's, and a hopeless run of
\* draws: a board never overflows and the final validation never fails.
NoEngineErrors == result \notin EngineErrors

\* A market of four equal tokens can always be broken up: the bag still holds
\* another species, so the automatic wipe is not a hopeless loop
\* (replace_wildlife, and finish_turn's return before the last refill).
WipeCanResolve ==
  \A s \in Wildlife :
    pc = "settle" /\ Shown(work.wildlife, s) = 4
      => \E t \in Wildlife \ {s} : work.bag[t] > 0

\* turns_remaining_for_player agrees with the turns a seat has really taken.
TurnLedger ==
  \A p \in Seats :
    game.boards[p].tiles - StarterTiles + TurnsRemaining(game.turns, p) = TurnsPerPlayer

\* A refused action leaves the game as it was, tokens spent on the way included
\* (transition works on a clone).
FailedCallIsFree ==
  [][result' \notin {"none", "ok"} => game' = game /\ work' = game]_vars

\* An accepted action is one turn of the seat to move: it passes the move on and
\* touches no other board.
OneTurnOfTheMover ==
  [][game' # game /\ op = "apply" =>
       /\ game'.turns = game.turns + 1
       /\ game'.player = (game.player + 1) % Players
       /\ \A p \in Seats \ {game.player} : game'.boards[p] = game.boards[p]]_vars

\* Every call returns: no sequence of draws keeps the overpopulation loop going.
CallReturns == (pc # "idle") ~> (pc \in {"idle", "failed"})
=============================================================================
