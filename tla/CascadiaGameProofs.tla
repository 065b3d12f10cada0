------------------------- MODULE CascadiaGameProofs -------------------------
(***************************************************************************)
(* Theorems about the turn engine, for every number of seats and turns and *)
(* every supply that meets SupplyAssumption.                               *)
(*                                                                         *)
(* The bag and the tile stack never run dry, and four equal tokens can     *)
(* always be broken up: both follow from one ledger, in which a turn takes *)
(* a fixed number of tiles, and no more tokens, out of the market.  With   *)
(* the place of every tile it follows that no call fails by itself.        *)
(***************************************************************************)
EXTENDS CascadiaGame, SequenceLemmas

USE DEF None, Slots, Piles

-----------------------------------------------------------------------------
(* Helpers.                                                                 *)

Market == [Slots -> Wildlife \cup {None}]

LEMMA TotalTurnsType == TotalTurns \in Nat \ {0}
BY ParameterAssumption DEF TotalTurns

LEMMA TileStackType == TileStackSize \in Nat /\ TileStackSize >= 4
BY TotalTurnsType, ParameterAssumption DEF TileStackSize

LEMMA NextSeatType == ASSUME NEW p \in Seats PROVE (p + 1) % Players \in Seats
<1>1. \A a \in Nat, n \in Nat \ {0} : a % n \in 0..(n - 1)
  OBVIOUS
<1>2. p + 1 \in Nat
  BY ParameterAssumption DEF Seats
<1>3. (p + 1) % Players \in 0..(Players - 1)
  BY <1>1, <1>2, ParameterAssumption
<1> QED
  BY <1>3 DEF Seats

LEMMA NoTokensType == NoTokens \in Piles
BY DEF NoTokens

LEMMA AddType == ASSUME NEW b \in Piles, NEW c \in Piles PROVE Add(b, c) \in Piles
BY DEF Add

LEMMA WithoutType ==
  ASSUME NEW m \in Market, NEW S PROVE Without(m, S) \in Market
BY DEF Without, Market

\* Setting slots aside only removes tokens from view.
LEMMA PickedType ==
  ASSUME NEW m \in Market, NEW S PROVE Picked(m, S) \in Piles
<1>1. \A s \in Wildlife, k \in Slots : Is(Without(m, S), k, s) \in 0..1
                                    /\ Is(m, k, s) \in 0..1
                                    /\ Is(Without(m, S), k, s) <= Is(m, k, s)
  BY DEF Is, Without, Wildlife
<1>2. \A s \in Wildlife : Shown(m, s) - Shown(Without(m, S), s) \in Nat
  BY <1>1 DEF Shown
<1> QED
  BY <1>2 DEF Picked

\* The first gap is a slot.
LEMMA FirstInSet ==
  ASSUME NEW K \in SUBSET Slots, K # {}
  PROVE  Lowest(K) \in K /\ \A j \in K : Lowest(K) <= j
<1>1. \E k \in K : \A j \in K : k <= j
  <2>1. CASE 0 \in K BY <2>1
  <2>2. CASE 0 \notin K /\ 1 \in K BY <2>2
  <2>3. CASE 0 \notin K /\ 1 \notin K /\ 2 \in K BY <2>3
  <2>4. CASE 0 \notin K /\ 1 \notin K /\ 2 \notin K
    <3>1. 3 \in K /\ \A j \in K : j = 3 BY <2>4
    <3> QED BY <3>1
  <2> QED BY <2>1, <2>2, <2>3, <2>4
<1> QED
  BY <1>1 DEF Lowest

LEMMA LastInSet ==
  ASSUME NEW K \in SUBSET Slots, K # {} PROVE Highest(K) \in K
<1>1. \E k \in K : \A j \in K : j <= k
  <2>1. CASE 3 \in K BY <2>1
  <2>2. CASE 3 \notin K /\ 2 \in K BY <2>2
  <2>3. CASE 3 \notin K /\ 2 \notin K /\ 1 \in K BY <2>3
  <2>4. CASE 3 \notin K /\ 2 \notin K /\ 1 \notin K
    <3>1. 0 \in K /\ \A j \in K : j = 0 BY <2>4
    <3> QED BY <3>1
  <2> QED BY <2>1, <2>2, <2>3, <2>4
<1> QED
  BY <1>1 DEF Highest

LEMMA DrawType ==
  ASSUME NEW g \in GameState, NEW k \in Slots, NEW s \in Wildlife, g.bag[s] > 0
  PROVE  Draw(g, k, s) \in GameState
<1>1. [g.bag EXCEPT ![s] = @ - 1] \in Piles
  BY DEF GameState
<1>2. [g.wildlife EXCEPT ![k] = s] \in Market
  BY DEF GameState, Market
<1> QED
  BY <1>1, <1>2 DEF Draw, GameState, Market

LEMMA SpendType ==
  ASSUME NEW g \in GameState, g.boards[g.player].nature # 0
  PROVE  Spend(g) \in GameState
<1>1. g.boards \in [Seats -> Board] /\ g.player \in Seats
  BY DEF GameState
<1>2. [g.boards[g.player] EXCEPT !.nature = @ - 1] \in Board
  BY <1>1 DEF Board
<1>3. [g.boards EXCEPT ![g.player].nature = @ - 1] \in [Seats -> Board]
  BY <1>1, <1>2
<1> QED
  BY <1>3 DEF Spend, GameState

LEMMA WithTileType ==
  ASSUME NEW g \in GameState, g.boards[g.player].tiles # MaxBoardTiles
  PROVE  WithTile(g) \in GameState
<1>1. g.boards \in [Seats -> Board] /\ g.player \in Seats
  BY DEF GameState
<1>2. [g.boards[g.player] EXCEPT !.tiles = @ + 1] \in Board
  BY <1>1, ParameterAssumption DEF Board, MaxBoardTiles, StarterTiles
<1>3. [g.boards EXCEPT ![g.player].tiles = @ + 1] \in [Seats -> Board]
  BY <1>1, <1>2
<1> QED
  BY <1>3 DEF WithTile, GameState

LEMMA AwardType ==
  ASSUME NEW g \in GameState, NEW p \in Seats, NEW award \in 0..1, NEW hand \in Piles
  PROVE  [g EXCEPT !.boards[p].nature = @ + award, !.placed = Add(@, hand)] \in GameState
<1>1. g.boards \in [Seats -> Board] /\ g.placed \in Piles
  BY DEF GameState
<1>2. [g.boards[p] EXCEPT !.nature = @ + award] \in Board
  BY <1>1 DEF Board
<1>3. [g.boards EXCEPT ![p].nature = @ + award] \in [Seats -> Board]
  BY <1>1, <1>2
<1>4. Add(g.placed, hand) \in Piles
  BY <1>1, AddType
<1> QED
  BY <1>3, <1>4 DEF GameState

LEMMA CompactTokensType ==
  ASSUME NEW m \in Market PROVE Compact(m, None) \in Market
<1>1. \A k \in Slots : MovesTo(m, None, k) # {}
        => (CHOOSE j \in MovesTo(m, None, k) : TRUE) \in Slots
  BY DEF MovesTo
<1> QED
  BY <1>1 DEF Compact, Market

LEMMA CompactTilesType ==
  ASSUME NEW m \in [Slots -> BOOLEAN] PROVE Compact(m, FALSE) \in [Slots -> BOOLEAN]
<1>1. \A k \in Slots : MovesTo(m, FALSE, k) # {}
        => (CHOOSE j \in MovesTo(m, FALSE, k) : TRUE) \in Slots
  BY DEF MovesTo
<1> QED
  BY <1>1 DEF Compact

LEMMA SoloDiscardType ==
  ASSUME NEW g \in GameState, TilesShown(g) # 0, Gaps(g) # Slots
  PROVE  SoloDiscard(g) \in GameState
<1> DEFINE t == LastTile(g)
           w == LastToken(g)
<1>0. {k \in Slots : g.tiles[k]} # {} /\ {k \in Slots : g.wildlife[k] # None} # {}
  BY DEF TilesShown, Shown, Is, Gaps
<1>1. t \in Slots /\ w \in Slots
  BY <1>0, LastInSet DEF LastTile, LastToken
<1>2. g.wildlife \in Market /\ g.tiles \in [Slots -> BOOLEAN] /\ g.lost \in Piles
  BY DEF GameState, Market
<1>3. Compact([g.tiles EXCEPT ![t] = FALSE], FALSE) \in [Slots -> BOOLEAN]
  BY <1>1, <1>2, CompactTilesType
<1>4. Compact([g.wildlife EXCEPT ![w] = None], None) \in Market
  <2>1. [g.wildlife EXCEPT ![w] = None] \in Market BY <1>1, <1>2 DEF Market
  <2> QED BY <2>1, CompactTokensType
<1>5. Add(g.lost, Picked(g.wildlife, {w})) \in Piles
  BY <1>2, PickedType, AddType
<1>6. g.lostTiles + 1 \in Nat
  BY DEF GameState
<1>7. ASSUME NEW a \in [Slots -> BOOLEAN], NEW b \in Market, NEW c \in Nat, NEW d \in Piles
      PROVE  [g EXCEPT !.tiles = a, !.wildlife = b, !.lostTiles = c, !.lost = d] \in GameState
  BY DEF GameState, Market
<1> HIDE DEF t, w
<1> QED
  BY <1>3, <1>4, <1>5, <1>6, <1>7 DEF SoloDiscard, t, w

-----------------------------------------------------------------------------
(* Type correctness.                                                        *)

LEMMA RaiseTypeOK ==
  ASSUME TypeOK, NEW e \in Results, Raise(e) PROVE TypeOK'
BY NoTokensType, ParameterAssumption DEF TypeOK, Raise, Steps

LEMMA ReplaceTypeOK ==
  ASSUME TypeOK, NEW g \in GameState, NEW S, NEW then \in {"wipes", "advance"},
         Replace(g, S, then)
  PROVE  TypeOK'
<1>1. [g EXCEPT !.wildlife = Without(@, S)] \in GameState
  BY WithoutType DEF GameState, Market
<1>2. Picked(g.wildlife, S) \in Piles
  BY PickedType DEF GameState, Market
<1> QED
  BY <1>1, <1>2, ParameterAssumption DEF Replace, TypeOK, Steps

LEMMA GotoTypeOK ==
  ASSUME TypeOK, NEW step \in Steps, Goto(step), work' \in GameState, aside' \in Piles
  PROVE  TypeOK'
BY ParameterAssumption DEF Goto, TypeOK

LEMMA InitTypeOK == Init => TypeOK
<1> SUFFICES ASSUME Init PROVE TypeOK
  OBVIOUS
<1>1. PICK m \in [Slots -> Wildlife] :
        /\ \A s \in Wildlife : Shown(m, s) <= Supply[s]
        /\ work = Dealt(m)
  BY DEF Init
<1>2. [s \in Wildlife |-> Supply[s] - Shown(m, s)] \in Piles
  <2>1. \A s \in Wildlife : Shown(m, s) \in Nat
    BY DEF Shown, Is
  <2> QED BY <1>1, <2>1, ParameterAssumption
<1>3. [p \in Seats |-> [tiles |-> StarterTiles, nature |-> 0]] \in [Seats -> Board]
  BY ParameterAssumption DEF Board, StarterTiles, MaxBoardTiles
<1>4. 0 \in Seats
  BY ParameterAssumption DEF Seats
<1>5. Dealt(m) \in GameState
  BY <1>2, <1>3, <1>4, NoTokensType, TileStackType DEF Dealt, GameState
<1> QED
  BY <1>1, <1>5, NoTokensType, ParameterAssumption DEF Init, TypeOK, Steps, Results

LEMMA NextTypeOK == TypeOK /\ [Next]_vars => TypeOK'
<1> SUFFICES ASSUME TypeOK, [Next]_vars PROVE TypeOK'
  OBVIOUS
<1>0. /\ work \in GameState /\ game \in GameState /\ aside \in Piles
      /\ work.wildlife \in Market /\ work.bag \in Piles /\ work.player \in Seats
  BY DEF TypeOK, GameState, Market
<1>1. CASE FillEmptyWildlife
  <2>1. CASE Raise("WildlifeBagEmpty")
    BY <2>1, RaiseTypeOK DEF Results, EngineErrors, Exhausted
  <2>2. ASSUME NEW s \in Wildlife, work.bag[s] > 0,
               work' = Draw(work, Lowest(Gaps(work)), s)
        PROVE  work' \in GameState
    <3>1. Lowest(Gaps(work)) \in Slots
      BY <1>1, FirstInSet DEF FillEmptyWildlife, Gaps
    <3> QED BY <3>1, <2>2, <1>0, DrawType
  <2> QED BY <1>1, <2>1, <2>2 DEF FillEmptyWildlife, TypeOK
<1>2. CASE ReturnSetAside
  <2>1. [work EXCEPT !.bag = Add(@, aside)] \in GameState
    BY <1>0, AddType DEF GameState
  <2> QED BY <1>2, <2>1, NoTokensType DEF ReturnSetAside, TypeOK, Steps
<1>3. CASE AutomaticWipe
  <2>1. CASE Raise(Unsettled)
    BY <2>1, RaiseTypeOK DEF Results
  <2>2. [work EXCEPT !.wildlife = Without(@, Slots)] \in GameState
    BY <1>0, WithoutType DEF GameState, Market
  <2>3. Picked(work.wildlife, Slots) \in Piles
    BY <1>0, PickedType
  <2> QED
    BY <1>3, <2>1, <2>2, <2>3, ParameterAssumption DEF AutomaticWipe, TypeOK, Steps
<1>4. CASE Settled
  BY <1>4, ParameterAssumption DEF Settled, Goto, TypeOK, Steps
<1>5. CASE BeginApply
  BY <1>5 DEF BeginApply, TypeOK, Steps, Results, PlayerErrors
<1>6. CASE ReplaceThreeOfAKind
  <2>1. CASE Raise("NoThreeOfAKind")
    BY <2>1, RaiseTypeOK DEF Results, PlayerErrors
  <2> QED
    BY <1>6, <2>1, <1>0, ReplaceTypeOK DEF ReplaceThreeOfAKind
<1>7. CASE DeclineThreeOfAKind
  BY <1>7, <1>0, GotoTypeOK DEF DeclineThreeOfAKind, Steps
<1>8. CASE PaidWipe
  <2>1. PICK S \in SUBSET Slots :
          IF S = {} THEN Raise("InvalidWipe")
          ELSE IF Nature = 0 THEN Raise("NoNatureTokens")
          ELSE Replace(Spend(work), S, "wipes")
    BY <1>8 DEF PaidWipe
  <2>2. CASE Raise("InvalidWipe") \/ Raise("NoNatureTokens")
    BY <2>2, RaiseTypeOK DEF Results, PlayerErrors
  <2>3. CASE Nature # 0 /\ Replace(Spend(work), S, "wipes")
    BY <2>3, <1>0, SpendType, ReplaceTypeOK DEF Nature, Me
  <2> QED BY <2>1, <2>2, <2>3
<1>9. CASE EndPrelude
  BY <1>9, <1>0, GotoTypeOK DEF EndPrelude, Steps
<1>10. ASSUME NEW g \in GameState, NEW t \in Slots, NEW w \in Slots, Take(g, t, w)
       PROVE  TypeOK'
  <2>1. CASE Raise("UnavailableMarketSlot")
    BY <2>1, RaiseTypeOK DEF Results, EngineErrors, Exhausted
  <2>2. [g EXCEPT !.tiles[t] = FALSE, !.wildlife[w] = None] \in GameState
    <3>1. [g.tiles EXCEPT ![t] = FALSE] \in [Slots -> BOOLEAN]
      BY DEF GameState
    <3>2. [g.wildlife EXCEPT ![w] = None] \in [Slots -> Wildlife \cup {None}]
      BY DEF GameState
    <3> QED BY <3>1, <3>2 DEF GameState
  <2>3. Picked(g.wildlife, {w}) \in Piles
    BY PickedType DEF GameState, Market
  <2> QED
    BY <1>10, <2>1, <2>2, <2>3, GotoTypeOK DEF Take, Steps
<1>11. CASE DraftPaired
  BY <1>11, <1>10, <1>0 DEF DraftPaired
<1>12. CASE DraftIndependent
  <2>1. CASE Raise("NoNatureTokens")
    BY <2>1, RaiseTypeOK DEF Results, PlayerErrors
  <2> QED
    BY <1>12, <2>1, <1>10, <1>0, SpendType DEF DraftIndependent, Nature, Me
<1>13. CASE PlaceTileOnly
  <2>1. CASE Raise("TileLimitReached")
    BY <2>1, RaiseTypeOK DEF Results, EngineErrors
  <2>2. CASE work.boards[Me].tiles # MaxBoardTiles
    BY <1>13, <2>2, <1>0, WithTileType, GotoTypeOK DEF PlaceTileOnly, Me, Steps
  <2> QED BY <1>13, <2>1, <2>2 DEF PlaceTileOnly
<1>14. CASE PlaceTileAndWildlife
  <2>1. CASE Raise("TileLimitReached")
    BY <2>1, RaiseTypeOK DEF Results, EngineErrors
  <2>2. CASE work.boards[Me].tiles # MaxBoardTiles
    <3>1. PICK award \in 0..1 :
            work' = [WithTile(work) EXCEPT !.boards[Me].nature = @ + award,
                                           !.placed = Add(@, aside)]
      BY <1>14, <2>2 DEF PlaceTileAndWildlife
    <3>2. WithTile(work) \in GameState
      BY <2>2, <1>0, WithTileType DEF Me
    <3>3. work' \in GameState
      BY <3>1, <3>2, <1>0, AwardType DEF Me
    <3> QED BY <1>14, <2>2, <3>3, NoTokensType, GotoTypeOK DEF PlaceTileAndWildlife, Steps
  <2> QED BY <1>14, <2>1, <2>2 DEF PlaceTileAndWildlife
<1>15. CASE PlacementRejected
  BY <1>15, RaiseTypeOK DEF PlacementRejected, Results, PlayerErrors
<1>16. CASE FinishTurn
  <2> DEFINE g == TurnDone(work, aside)
  <2>1. g \in GameState
    <3>1. Add(work.bag, aside) \in Piles /\ work.turns + 1 \in Nat
      BY <1>0, AddType DEF GameState
    <3> QED BY <3>1, <1>0 DEF TurnDone, GameState
  <2>2. CASE Raise("TileStackEmpty") \/ Raise("WildlifeBagEmpty")
    BY <2>2, RaiseTypeOK DEF Results, EngineErrors, Exhausted
  <2>3. CASE EndTurn(g, "advance") \/ EndTurn(g, "refill")
    <3> HIDE DEF g
    <3> QED BY <2>1, <2>3, NoTokensType, GotoTypeOK DEF EndTurn, Steps
  <2>4. CASE TilesShown(g) # 0 /\ Gaps(g) # Slots /\ EndTurn(SoloDiscard(g), "refill")
    <3> HIDE DEF g
    <3>1. SoloDiscard(g) \in GameState BY <2>1, <2>4, SoloDiscardType
    <3> QED BY <3>1, <2>4, NoTokensType, GotoTypeOK DEF EndTurn, Steps
  <2> QED BY <1>16, <2>2, <2>3, <2>4 DEF FinishTurn, StartRefill
<1>17. CASE RefillSlot
  <2> DEFINE k == Lowest(Incomplete(work))
             g == IF work.tiles[k] THEN work
                  ELSE [work EXCEPT !.tiles[k] = TRUE, !.stack = @ - 1]
  <2>1. k \in Slots
    BY <1>17, FirstInSet DEF RefillSlot, Incomplete
  <2>2. CASE Raise("TileStackEmpty") \/ Raise("WildlifeBagEmpty")
    BY <2>2, RaiseTypeOK DEF Results, EngineErrors, Exhausted
  <2>3. CASE work.tiles[k] \/ work.stack # 0
    <3>1. g \in GameState
      <4>1. [work.tiles EXCEPT ![k] = TRUE] \in [Slots -> BOOLEAN]
        BY <2>1, <1>0 DEF GameState
      <4>2. CASE work.tiles[k] BY <4>2, <1>0
      <4>3. CASE ~work.tiles[k]
        <5>1. work.stack - 1 \in Nat BY <2>3, <4>3, <1>0 DEF GameState
        <5> HIDE DEF k
        <5> QED BY <4>1, <4>3, <5>1, <1>0 DEF GameState
      <4> QED BY <4>2, <4>3
    <3>2. CASE /\ \/ work' = g
                  \/ \E s \in Wildlife : g.bag[s] > 0 /\ work' = Draw(g, k, s)
               /\ UNCHANGED <<game, aside, op, pc, ret, wipes, result>>
      <4> HIDE DEF g, k
      <4>1. work' \in GameState BY <3>1, <3>2, <2>1, DrawType
      <4> QED BY <4>1, <3>2 DEF TypeOK
    <3> QED BY <1>17, <2>2, <3>2 DEF RefillSlot
  <2> QED BY <1>17, <2>2, <2>3 DEF RefillSlot
<1>18. CASE RefillDone
  BY <1>18, <1>0, ReplaceTypeOK, GotoTypeOK DEF RefillDone, ResolveOverpopulation, Steps
<1>19. CASE AdvancePlayer
  <2>1. (work.player + 1) % Players \in Seats
    BY <1>0, NextSeatType
  <2>2. work' \in GameState
    BY <1>19, <2>1, <1>0 DEF AdvancePlayer, GameState
  <2> QED BY <1>19, <2>2, <1>0, GotoTypeOK DEF AdvancePlayer, Steps
<1>20. CASE Commit
  <2>1. CASE Raise("Invariant")
    BY <2>1, RaiseTypeOK DEF Results, EngineErrors
  <2> QED BY <1>20, <2>1 DEF Commit, TypeOK, Steps, Results
<1>21. CASE UNCHANGED vars
  BY <1>21 DEF vars, TypeOK
<1> QED
  BY <1>1, <1>2, <1>3, <1>4, <1>5, <1>6, <1>7, <1>8, <1>9, <1>11, <1>12, <1>13, <1>14,
     <1>15, <1>16, <1>17, <1>18, <1>19, <1>20, <1>21 DEF Next, Step

\* Every variable keeps its type.
THEOREM TypeCorrect == Spec => []TypeOK
  BY InitTypeOK, NextTypeOK, PTL DEF Spec

-----------------------------------------------------------------------------
(* Conservation of the wildlife tokens.                                     *)

LEMMA ShownType ==
  ASSUME NEW m \in Market, NEW s PROVE Shown(m, s) \in 0..4
BY DEF Shown, Is

\* Showing a token in an empty slot adds it to its species alone.
LEMMA ShownAfterFill ==
  ASSUME NEW m \in Market, NEW k \in Slots, m[k] = None, NEW s \in Wildlife,
         NEW t \in Wildlife
  PROVE  Shown([m EXCEPT ![k] = s], t) = Shown(m, t) + (IF t = s THEN 1 ELSE 0)
<1>1. None \notin Wildlife
  BY DEF Wildlife
<1>2. CASE k = 0 BY <1>1, <1>2 DEF Shown, Is, Market
<1>3. CASE k = 1 BY <1>1, <1>3 DEF Shown, Is, Market
<1>4. CASE k = 2 BY <1>1, <1>4 DEF Shown, Is, Market
<1>5. CASE k = 3 BY <1>1, <1>5 DEF Shown, Is, Market
<1> QED BY <1>2, <1>3, <1>4, <1>5

LEMMA ClearSlot ==
  ASSUME NEW m \in Market, NEW w \in Slots
  PROVE  [m EXCEPT ![w] = None] = Without(m, {w})
BY DEF Market, Without

\* Every occupied slot moves to exactly one slot, and no two to the same one.
LEMMA CompactKeepsShown ==
  ASSUME NEW T, NEW gap, NEW m \in [Slots -> T], NEW v, v # gap
  PROVE  Shown(Compact(m, gap), v) = Shown(m, v)
<1> DEFINE h == [k \in Slots |-> IF m[k] # gap THEN 1 ELSE 0]
<1>1. /\ Behind(m, 3, gap) = h[3]
      /\ Behind(m, 2, gap) = h[2] + h[3]
      /\ Behind(m, 1, gap) = h[1] + h[2] + h[3]
      /\ Behind(m, 0, gap) = h[0] + h[1] + h[2] + h[3]
  BY DEF Behind, Held
<1> DEFINE c == Compact(m, gap)
<1>2. ASSUME NEW j \in Slots, m[j] # gap PROVE c[4 - Behind(m, j, gap)] = m[j]
  <2>1. /\ 4 - Behind(m, j, gap) \in Slots
        /\ \A i \in Slots \ {j} : m[i] # gap => Behind(m, i, gap) # Behind(m, j, gap)
    BY <1>1, <1>2
  <2>2. \A i \in Slots : Behind(m, i, gap) \in 0..4
    BY <1>1
  <2>3. \A i \in Slots : Behind(m, i, gap) = 4 - (4 - Behind(m, j, gap))
                        <=> Behind(m, i, gap) = Behind(m, j, gap)
    BY <2>2
  <2>4. MovesTo(m, gap, 4 - Behind(m, j, gap)) = {j}
    BY <1>2, <2>1, <2>3 DEF MovesTo
  <2> QED BY <2>1, <2>4 DEF Compact
<1>3. ASSUME NEW k \in Slots, k < 4 - Behind(m, 0, gap) PROVE c[k] = gap
  <2>1. MovesTo(m, gap, k) = {}
    BY <1>1, <1>3 DEF MovesTo
  <2> QED BY <2>1 DEF Compact
<1> HIDE DEF c
<1> SUFFICES Shown(c, v) = Shown(m, v)
  BY DEF c
<1>4. \A j \in Slots : m[j] # gap => c[4 - Behind(m, j, gap)] = m[j]
  BY <1>2
<1>5. \A k \in Slots : k < 4 - Behind(m, 0, gap) => c[k] = gap
  BY <1>3
<1> USE <1>1, <1>4, <1>5 DEF Shown, Is
<1>6. CASE m[3] # gap /\ m[2] # gap /\ m[1] # gap BY <1>6
<1>7. CASE m[3] # gap /\ m[2] # gap /\ m[1] = gap BY <1>7
<1>8. CASE m[3] # gap /\ m[2] = gap /\ m[1] # gap BY <1>8
<1>9. CASE m[3] # gap /\ m[2] = gap /\ m[1] = gap BY <1>9
<1>10. CASE m[3] = gap /\ m[2] # gap /\ m[1] # gap BY <1>10
<1>11. CASE m[3] = gap /\ m[2] # gap /\ m[1] = gap BY <1>11
<1>12. CASE m[3] = gap /\ m[2] = gap /\ m[1] # gap BY <1>12
<1>13. CASE m[3] = gap /\ m[2] = gap /\ m[1] = gap BY <1>13
<1> QED BY <1>6, <1>7, <1>8, <1>9, <1>10, <1>11, <1>12, <1>13

\* Outside a replacement and a placement nothing is in hand.
HandEmpty == pc \notin {"fill", "place", "finish"} => aside = NoTokens

Conserved(g, hand) == \A s \in Wildlife : Accounted(g, hand, s)

LEMMA DrawConserves ==
  ASSUME NEW g \in GameState, NEW k \in Slots, g.wildlife[k] = None,
         NEW d \in Wildlife, NEW hand \in Piles, Conserved(g, hand)
  PROVE  Conserved(Draw(g, k, d), hand)
<1> SUFFICES ASSUME NEW s \in Wildlife PROVE Accounted(Draw(g, k, d), hand, s)
  BY DEF Conserved
<1>1. g.wildlife \in Market /\ g.bag \in Piles
  BY DEF GameState, Market
<1>2. /\ Draw(g, k, d).wildlife = [g.wildlife EXCEPT ![k] = d]
      /\ Draw(g, k, d).bag[s] = g.bag[s] - (IF s = d THEN 1 ELSE 0)
      /\ Draw(g, k, d).placed = g.placed
      /\ Draw(g, k, d).lost = g.lost
  BY <1>1 DEF Draw, GameState
<1>3. Shown(Draw(g, k, d).wildlife, s) = Shown(g.wildlife, s) + (IF s = d THEN 1 ELSE 0)
  BY <1>1, <1>2, ShownAfterFill
<1>4. /\ g.bag[s] \in Nat /\ g.placed[s] \in Nat /\ g.lost[s] \in Nat /\ hand[s] \in Nat
      /\ Shown(g.wildlife, s) \in Nat
  BY <1>1, ShownType DEF GameState
<1>5. Accounted(g, hand, s)
  BY DEF Conserved
<1> QED
  BY <1>2, <1>3, <1>4, <1>5 DEF Accounted

\* Setting slots aside moves their tokens to the hand.
LEMMA PickedConserves ==
  ASSUME NEW g \in GameState, NEW h \in GameState, NEW S, Conserved(g, NoTokens),
         h.wildlife = Without(g.wildlife, S), h.bag = g.bag,
         h.placed = g.placed, h.lost = g.lost
  PROVE  Conserved(h, Picked(g.wildlife, S))
<1> SUFFICES ASSUME NEW s \in Wildlife PROVE Accounted(h, Picked(g.wildlife, S), s)
  BY DEF Conserved
<1>1. g.wildlife \in Market /\ h.wildlife \in Market
  BY DEF GameState, Market
<1>2. /\ g.bag[s] \in Nat /\ g.placed[s] \in Nat /\ g.lost[s] \in Nat
      /\ Shown(g.wildlife, s) \in Nat /\ Shown(h.wildlife, s) \in Nat
  BY <1>1, ShownType DEF GameState
<1>3. Picked(g.wildlife, S)[s] = Shown(g.wildlife, s) - Shown(h.wildlife, s)
  BY DEF Picked
<1>4. Accounted(g, NoTokens, s)
  BY DEF Conserved
<1> QED
  BY <1>2, <1>3, <1>4 DEF Accounted, NoTokens

\* What is in hand goes to one of the piles.
LEMMA HandConserves ==
  ASSUME NEW g \in GameState, NEW h \in GameState, NEW hand \in Piles,
         Conserved(g, hand), h.wildlife = g.wildlife,
         \/ h.bag = Add(g.bag, hand) /\ h.placed = g.placed /\ h.lost = g.lost
         \/ h.placed = Add(g.placed, hand) /\ h.bag = g.bag /\ h.lost = g.lost
  PROVE  Conserved(h, NoTokens)
<1> SUFFICES ASSUME NEW s \in Wildlife PROVE Accounted(h, NoTokens, s)
  BY DEF Conserved
<1>1. /\ g.bag[s] \in Nat /\ g.placed[s] \in Nat /\ g.lost[s] \in Nat /\ hand[s] \in Nat
      /\ Shown(g.wildlife, s) \in Nat
  BY ShownType DEF GameState, Market
<1>2. Accounted(g, hand, s)
  BY DEF Conserved
<1> QED
  BY <1>1, <1>2 DEF Accounted, NoTokens, Add

LEMMA SoloDiscardConserves ==
  ASSUME NEW g \in GameState, Gaps(g) # Slots, Conserved(g, NoTokens)
  PROVE  Conserved(SoloDiscard(g), NoTokens)
<1> DEFINE w == LastToken(g)
           m == [g.wildlife EXCEPT ![w] = None]
<1> SUFFICES ASSUME NEW s \in Wildlife PROVE Accounted(SoloDiscard(g), NoTokens, s)
  BY DEF Conserved
<1>1. w \in Slots
  <2>1. {k \in Slots : g.wildlife[k] # None} # {} BY DEF Gaps
  <2> QED BY <2>1, LastInSet DEF LastToken
<1>2. g.wildlife \in Market /\ m \in Market
  BY <1>1 DEF GameState, Market
<1>3. m = Without(g.wildlife, {w})
  BY <1>1, <1>2, ClearSlot
<1>4. Shown(Compact(m, None), s) = Shown(m, s)
  <2>1. s # None BY DEF Wildlife
  <2>2. m \in [Slots -> Wildlife \cup {None}] BY <1>2 DEF Market
  <2> HIDE DEF m
  <2>3. \A T, gap, v : m \in [Slots -> T] /\ v # gap
                     => Shown(Compact(m, gap), v) = Shown(m, v)
    BY CompactKeepsShown
  <2> QED BY <2>1, <2>2, <2>3
<1> HIDE DEF w, m
<1>5. /\ SoloDiscard(g).wildlife = Compact(m, None)
      /\ SoloDiscard(g).lost = Add(g.lost, Picked(g.wildlife, {w}))
      /\ SoloDiscard(g).bag = g.bag
      /\ SoloDiscard(g).placed = g.placed
  BY DEF SoloDiscard, GameState, w, m
<1>6. /\ g.bag[s] \in Nat /\ g.placed[s] \in Nat /\ g.lost[s] \in Nat
      /\ Shown(g.wildlife, s) \in Nat /\ Shown(m, s) \in Nat
  BY <1>2, ShownType DEF GameState
<1>7. SoloDiscard(g).lost[s] = g.lost[s] + (Shown(g.wildlife, s) - Shown(m, s))
  BY <1>5, <1>3 DEF Add, Picked
<1>8. Accounted(g, NoTokens, s)
  BY DEF Conserved
<1> QED
  BY <1>4, <1>5, <1>6, <1>7, <1>8 DEF Accounted, NoTokens

\* The strengthening of TokenConservation that a step preserves.
ConservationInv ==
  /\ Conserved(work, aside)
  /\ Conserved(game, NoTokens)
  /\ HandEmpty

LEMMA RaiseConserves ==
  ASSUME TypeOK, ConservationInv, NEW e, Raise(e) PROVE ConservationInv'
BY DEF ConservationInv, Conserved, Accounted, Raise, HandEmpty

LEMMA GotoConserves ==
  ASSUME ConservationInv, NEW step, Goto(step),
         Conserved(work', aside'),
         step \in {"place", "finish"} \/ aside' = NoTokens
  PROVE  ConservationInv'
BY DEF ConservationInv, Conserved, Accounted, Goto, HandEmpty

LEMMA ReplaceConserves ==
  ASSUME ConservationInv, NEW g \in GameState, NEW S, NEW then,
         Conserved(g, NoTokens), Replace(g, S, then)
  PROVE  ConservationInv'
<1>1. [g EXCEPT !.wildlife = Without(@, S)] \in GameState
  BY WithoutType DEF GameState, Market
<1>2. Conserved(work', aside')
  <2> DEFINE h == [g EXCEPT !.wildlife = Without(@, S)]
  <2>1. /\ h.wildlife = Without(g.wildlife, S) /\ h.bag = g.bag
        /\ h.placed = g.placed /\ h.lost = g.lost
    BY DEF GameState
  <2>2. h \in GameState BY <1>1
  <2> HIDE DEF h
  <2>3. Conserved(h, Picked(g.wildlife, S)) BY <2>1, <2>2, PickedConserves
  <2> QED BY <2>3 DEF Replace, h
<1> QED
  BY <1>2 DEF ConservationInv, Conserved, Accounted, Replace, HandEmpty

LEMMA SpendConserves ==
  ASSUME NEW g \in GameState, NEW hand, Conserved(g, hand)
  PROVE  Conserved(Spend(g), hand)
<1>1. /\ Spend(g).bag = g.bag /\ Spend(g).wildlife = g.wildlife
      /\ Spend(g).placed = g.placed /\ Spend(g).lost = g.lost
  BY DEF Spend, GameState
<1> QED BY <1>1 DEF Conserved, Accounted

LEMMA InitConserves == Init => ConservationInv
<1> SUFFICES ASSUME Init PROVE ConservationInv
  OBVIOUS
<1>1. PICK m \in [Slots -> Wildlife] :
        /\ \A s \in Wildlife : Shown(m, s) <= Supply[s]
        /\ work = Dealt(m)
  BY DEF Init
<1>2. ASSUME NEW s \in Wildlife PROVE Accounted(work, NoTokens, s)
  <2>1. Shown(m, s) \in Nat
    BY DEF Shown, Is
  <2>2. /\ work.bag[s] = Supply[s] - Shown(m, s) /\ work.wildlife = m
        /\ work.placed[s] = 0 /\ work.lost[s] = 0 /\ NoTokens[s] = 0
    BY <1>1 DEF Dealt, NoTokens
  <2>3. Supply[s] \in Nat
    BY ParameterAssumption
  <2> QED BY <2>1, <2>2, <2>3 DEF Accounted
<1> QED
  BY <1>2 DEF Init, ConservationInv, Conserved, HandEmpty

LEMMA NextConserves ==
  TypeOK /\ TypeOK' /\ ConservationInv /\ [Next]_vars => ConservationInv'
<1> SUFFICES ASSUME TypeOK, TypeOK', ConservationInv, [Next]_vars
             PROVE  ConservationInv'
  OBVIOUS
<1>0. /\ work \in GameState /\ work' \in GameState /\ aside \in Piles
      /\ work.wildlife \in Market
      /\ Conserved(work, aside) /\ Conserved(game, NoTokens)
  BY DEF TypeOK, GameState, Market, ConservationInv
<1>a. pc \notin {"fill", "place", "finish"} => Conserved(work, NoTokens)
  BY DEF ConservationInv, HandEmpty
<1>1. CASE FillEmptyWildlife
  <2>1. CASE Raise("WildlifeBagEmpty") BY <2>1, RaiseConserves
  <2>2. ASSUME NEW s \in Wildlife, work' = Draw(work, Lowest(Gaps(work)), s)
        PROVE  Conserved(work', aside)
    <3>1. Lowest(Gaps(work)) \in Slots /\ work.wildlife[Lowest(Gaps(work))] = None
      BY <1>1, FirstInSet DEF FillEmptyWildlife, Gaps
    <3> QED BY <3>1, <2>2, <1>0, DrawConserves
  <2> QED BY <1>1, <2>1, <2>2
    DEF FillEmptyWildlife, ConservationInv, Conserved, Accounted, HandEmpty
<1>2. CASE ReturnSetAside
  <2>1. Conserved(work', NoTokens)
    <3>1. /\ work'.wildlife = work.wildlife /\ work'.bag = Add(work.bag, aside)
          /\ work'.placed = work.placed /\ work'.lost = work.lost
      BY <1>2, <1>0 DEF ReturnSetAside, GameState
    <3> QED BY <3>1, <1>0, HandConserves
  <2> QED BY <1>2, <2>1
    DEF ReturnSetAside, ConservationInv, Conserved, Accounted, HandEmpty
<1>3. CASE AutomaticWipe
  <2>1. CASE Raise(Unsettled) BY <2>1, RaiseConserves
  <2>2. CASE /\ work' = [work EXCEPT !.wildlife = Without(@, Slots)]
             /\ aside' = Picked(work.wildlife, Slots)
             /\ pc' = "fill" /\ game' = game
    <3>1. /\ work'.wildlife = Without(work.wildlife, Slots) /\ work'.bag = work.bag
          /\ work'.placed = work.placed /\ work'.lost = work.lost
      BY <2>2, <1>0 DEF GameState
    <3>2. Conserved(work', aside')
      BY <1>3, <3>1, <2>2, <1>0, <1>a, PickedConserves DEF AutomaticWipe
    <3> QED BY <3>2, <2>2 DEF ConservationInv, Conserved, Accounted, HandEmpty
  <2> QED BY <1>3, <2>1, <2>2 DEF AutomaticWipe
<1>4. CASE Settled
  <2>1. Conserved(work', aside') /\ aside' = NoTokens
    BY <1>4, <1>0 DEF Settled, ConservationInv, HandEmpty
  <2> QED BY <1>4, <2>1, GotoConserves DEF Settled
<1>5. CASE BeginApply
  BY <1>5 DEF BeginApply, ConservationInv, Conserved, Accounted, HandEmpty
<1>6. CASE ReplaceThreeOfAKind
  <2>1. CASE Raise("NoThreeOfAKind") BY <2>1, RaiseConserves
  <2> QED BY <1>6, <2>1, <1>0, <1>a, ReplaceConserves DEF ReplaceThreeOfAKind
<1>7. CASE DeclineThreeOfAKind
  <2>1. Conserved(work', aside') /\ aside' = NoTokens
    BY <1>7, <1>0 DEF DeclineThreeOfAKind, ConservationInv, HandEmpty
  <2> QED BY <1>7, <2>1, GotoConserves DEF DeclineThreeOfAKind
<1>8. CASE PaidWipe
  <2>1. PICK S \in SUBSET Slots :
          IF S = {} THEN Raise("InvalidWipe")
          ELSE IF Nature = 0 THEN Raise("NoNatureTokens")
          ELSE Replace(Spend(work), S, "wipes")
    BY <1>8 DEF PaidWipe
  <2>2. CASE Raise("InvalidWipe") \/ Raise("NoNatureTokens")
    BY <2>2, RaiseConserves
  <2>3. CASE Nature # 0 /\ Replace(Spend(work), S, "wipes")
    <3>1. Spend(work) \in GameState
      BY <2>3, <1>0, SpendType DEF Nature, Me
    <3>2. Conserved(Spend(work), NoTokens)
      BY <1>8, <1>0, <1>a, SpendConserves DEF PaidWipe
    <3> QED BY <2>3, <3>1, <3>2, ReplaceConserves
  <2> QED BY <2>1, <2>2, <2>3
<1>9. CASE EndPrelude
  <2>1. Conserved(work', aside') /\ aside' = NoTokens
    BY <1>9, <1>0 DEF EndPrelude, ConservationInv, HandEmpty
  <2> QED BY <1>9, <2>1, GotoConserves DEF EndPrelude
<1>10. ASSUME NEW g \in GameState, NEW t \in Slots, NEW w \in Slots,
              Conserved(g, NoTokens), Take(g, t, w)
       PROVE  ConservationInv'
  <2>1. CASE Raise("UnavailableMarketSlot") BY <2>1, RaiseConserves
  <2>2. CASE /\ work' = [g EXCEPT !.tiles[t] = FALSE, !.wildlife[w] = None]
             /\ aside' = Picked(g.wildlife, {w}) /\ Goto("place")
    <3>1. /\ work'.wildlife = [g.wildlife EXCEPT ![w] = None] /\ work'.bag = g.bag
          /\ work'.placed = g.placed /\ work'.lost = g.lost
      BY <2>2 DEF GameState
    <3>2. [g.wildlife EXCEPT ![w] = None] = Without(g.wildlife, {w})
      BY ClearSlot DEF GameState, Market
    <3>3. Conserved(work', aside')
      <4> DEFINE S == {w}
      <4>1. work'.wildlife = Without(g.wildlife, S) BY <3>1, <3>2
      <4> HIDE DEF S
      <4>2. Conserved(work', Picked(g.wildlife, S))
        BY <4>1, <3>1, <1>10, <1>0, PickedConserves
      <4> QED BY <4>2, <2>2 DEF S
    <3> QED BY <3>3, <2>2, GotoConserves
  <2> QED BY <1>10, <2>1, <2>2 DEF Take
<1>11. CASE DraftPaired
  BY <1>11, <1>10, <1>0, <1>a DEF DraftPaired
<1>12. CASE DraftIndependent
  <2>1. CASE Raise("NoNatureTokens") BY <2>1, RaiseConserves
  <2>2. CASE Nature # 0
    <3>1. Spend(work) \in GameState
      BY <2>2, <1>0, SpendType DEF Nature, Me
    <3>2. Conserved(Spend(work), NoTokens)
      BY <1>12, <1>0, <1>a, SpendConserves DEF DraftIndependent
    <3> QED BY <1>12, <2>2, <3>1, <3>2, <1>10 DEF DraftIndependent
  <2> QED BY <1>12, <2>1, <2>2 DEF DraftIndependent
<1>13. CASE PlaceTileOnly
  <2>1. CASE Raise("TileLimitReached") BY <2>1, RaiseConserves
  <2>2. CASE work' = WithTile(work) /\ Goto("finish") /\ UNCHANGED aside
    <3>1. /\ work'.wildlife = work.wildlife /\ work'.bag = work.bag
          /\ work'.placed = work.placed /\ work'.lost = work.lost
      BY <2>2, <1>0 DEF WithTile, GameState
    <3>2. Conserved(work', aside')
      BY <3>1, <2>2, <1>0 DEF Conserved, Accounted
    <3> QED BY <2>2, <3>2, GotoConserves
  <2> QED BY <1>13, <2>1, <2>2 DEF PlaceTileOnly
<1>14. CASE PlaceTileAndWildlife
  <2>1. CASE Raise("TileLimitReached") BY <2>1, RaiseConserves
  <2>2. CASE /\ \E award \in 0..1 :
                  work' = [WithTile(work) EXCEPT !.boards[Me].nature = @ + award,
                                                 !.placed = Add(@, aside)]
             /\ aside' = NoTokens /\ Goto("finish")
    <3>1. /\ work'.wildlife = work.wildlife /\ work'.bag = work.bag
          /\ work'.placed = Add(work.placed, aside) /\ work'.lost = work.lost
      BY <2>2, <1>0 DEF WithTile, GameState
    <3>2. Conserved(work', NoTokens)
      BY <3>1, <1>0, HandConserves
    <3> QED BY <2>2, <3>2, GotoConserves
  <2> QED BY <1>14, <2>1, <2>2 DEF PlaceTileAndWildlife
<1>15. CASE PlacementRejected
  BY <1>15, RaiseConserves DEF PlacementRejected
<1>16. CASE FinishTurn
  <2> DEFINE g == TurnDone(work, aside)
  <2>1. g \in GameState
    <3>1. Add(work.bag, aside) \in Piles /\ work.turns + 1 \in Nat
      BY <1>0, AddType DEF GameState
    <3> QED BY <3>1, <1>0 DEF TurnDone, GameState
  <2>2. Conserved(g, NoTokens)
    <3>1. /\ g.wildlife = work.wildlife /\ g.bag = Add(work.bag, aside)
          /\ g.placed = work.placed /\ g.lost = work.lost
      BY <1>0 DEF TurnDone, GameState
    <3> HIDE DEF g
    <3> QED BY <3>1, <2>1, <1>0, HandConserves
  <2>3. CASE Raise("TileStackEmpty") \/ Raise("WildlifeBagEmpty")
    BY <2>3, RaiseConserves
  <2>4. CASE EndTurn(g, "advance") \/ EndTurn(g, "refill")
    <3> HIDE DEF g
    <3> QED BY <2>2, <2>4, GotoConserves DEF EndTurn
  <2>5. CASE Gaps(g) # Slots /\ EndTurn(SoloDiscard(g), "refill")
    <3> HIDE DEF g
    <3>1. Conserved(SoloDiscard(g), NoTokens)
      BY <2>1, <2>2, <2>5, SoloDiscardConserves
    <3> QED BY <3>1, <2>5, GotoConserves DEF EndTurn
  <2> QED BY <1>16, <2>3, <2>4, <2>5 DEF FinishTurn, StartRefill
<1>17. CASE RefillSlot
  <2> DEFINE k == Lowest(Incomplete(work))
             g == IF work.tiles[k] THEN work
                  ELSE [work EXCEPT !.tiles[k] = TRUE, !.stack = @ - 1]
  <2>1. k \in Slots
    BY <1>17, FirstInSet DEF RefillSlot, Incomplete
  <2>2. CASE Raise("TileStackEmpty") \/ Raise("WildlifeBagEmpty")
    BY <2>2, RaiseConserves
  <2>3. CASE work.tiles[k] \/ work.stack # 0
    <3>1. g \in GameState
      <4>1. [work.tiles EXCEPT ![k] = TRUE] \in [Slots -> BOOLEAN]
        BY <2>1, <1>0 DEF GameState
      <4>2. CASE work.tiles[k] BY <4>2, <1>0
      <4>3. CASE ~work.tiles[k]
        <5>1. work.stack - 1 \in Nat BY <2>3, <4>3, <1>0 DEF GameState
        <5> HIDE DEF k
        <5> QED BY <4>1, <4>3, <5>1, <1>0 DEF GameState
      <4> QED BY <4>2, <4>3
    <3>2. Conserved(g, NoTokens)
      <4>1. /\ g.bag = work.bag /\ g.wildlife = work.wildlife
            /\ g.placed = work.placed /\ g.lost = work.lost
        BY <1>0 DEF GameState
      <4> HIDE DEF g
      <4>2. Conserved(work, NoTokens) BY <1>17, <1>a DEF RefillSlot
      <4> QED BY <4>1, <4>2 DEF Conserved, Accounted
    <3>3. CASE /\ \/ work' = g
                  \/ \E s \in Wildlife :
                       g.wildlife[k] = None /\ work' = Draw(g, k, s)
               /\ UNCHANGED <<game, aside, op, pc, ret, wipes, result>>
      <4> HIDE DEF g, k
      <4>1. Conserved(work', NoTokens)
        BY <3>1, <3>2, <3>3, <2>1, NoTokensType, DrawConserves
      <4>2. aside = NoTokens BY <1>17 DEF RefillSlot, ConservationInv, HandEmpty
      <4> QED BY <4>1, <4>2, <3>3
        DEF ConservationInv, Conserved, Accounted, HandEmpty
    <3> QED BY <1>17, <2>2, <3>3 DEF RefillSlot
  <2> QED BY <1>17, <2>2, <2>3 DEF RefillSlot
<1>18. CASE RefillDone
  <2>1. CASE Replace(work, Slots, "advance")
    BY <1>18, <2>1, <1>0, <1>a, ReplaceConserves DEF RefillDone
  <2>2. CASE Goto("advance") /\ UNCHANGED <<work, aside>>
    <3>1. Conserved(work', aside') /\ aside' = NoTokens
      BY <1>18, <2>2, <1>0 DEF RefillDone, ConservationInv, HandEmpty
    <3> QED BY <2>2, <3>1, GotoConserves
  <2> QED BY <1>18, <2>1, <2>2 DEF RefillDone, ResolveOverpopulation
<1>19. CASE AdvancePlayer
  <2>1. /\ work'.wildlife = work.wildlife /\ work'.bag = work.bag
        /\ work'.placed = work.placed /\ work'.lost = work.lost
    BY <1>19, <1>0 DEF AdvancePlayer, GameState
  <2>2. aside' = NoTokens /\ Conserved(work', aside')
    BY <1>19, <2>1, <1>0 DEF AdvancePlayer, ConservationInv, HandEmpty, Conserved, Accounted
  <2> QED BY <1>19, <2>2, GotoConserves DEF AdvancePlayer
<1>20. CASE Commit
  <2>1. CASE Raise("Invariant") BY <2>1, RaiseConserves
  <2> QED BY <1>20, <1>a, <2>1
    DEF Commit, ConservationInv, Conserved, Accounted, HandEmpty
<1>21. CASE UNCHANGED vars
  BY <1>21 DEF vars, ConservationInv, Conserved, Accounted, HandEmpty
<1> QED
  BY <1>1, <1>2, <1>3, <1>4, <1>5, <1>6, <1>7, <1>8, <1>9, <1>11, <1>12, <1>13, <1>14,
     <1>15, <1>16, <1>17, <1>18, <1>19, <1>20, <1>21 DEF Next, Step

\* No step of any call gains or loses a token of any species.
THEOREM TokensConserved == Spec => []TokenConservation
<1>1. ConservationInv => TokenConservation
  BY DEF ConservationInv, Conserved, TokenConservation
<1> QED
  BY <1>1, InitTypeOK, NextTypeOK, InitConserves, NextConserves, PTL DEF Spec

-----------------------------------------------------------------------------
(* A refused call changes nothing.                                          *)

Calling == pc \notin {"idle", "failed"}
CallInv ==
  /\ IF Calling THEN result = "none" ELSE work = game
  /\ pc \in {"fill", "settle"} => ret # "idle"

LEMMA NextCallInv ==
  TypeOK /\ CallInv /\ [Next]_vars =>
    CallInv' /\ (result' \notin {"none", "ok"} => game' = game /\ work' = game)
<1> SUFFICES ASSUME TypeOK, CallInv, [Next]_vars
             PROVE  CallInv' /\ (result' \notin {"none", "ok"} => game' = game /\ work' = game)
  OBVIOUS
<1> USE DEF CallInv, Calling
<1>1. ASSUME NEW e, Raise(e)
      PROVE  CallInv' /\ (result' \notin {"none", "ok"} => game' = game /\ work' = game)
  BY <1>1 DEF Raise
<1>2. ASSUME Calling, result' = result, pc' \in Steps \ {"idle", "failed"},
             pc' \in {"fill", "settle"} => ret' # "idle"
      PROVE  CallInv' /\ (result' \notin {"none", "ok"} => game' = game /\ work' = game)
  BY <1>2
<1>3. CASE FillEmptyWildlife
  BY <1>1, <1>2, <1>3 DEF FillEmptyWildlife, Steps
<1>4. CASE ReturnSetAside \/ AutomaticWipe
  BY <1>1, <1>2, <1>4 DEF ReturnSetAside, AutomaticWipe, Steps
<1>5. CASE Settled
  BY <1>2, <1>5 DEF Settled, Goto, TypeOK, Steps
<1>6. CASE BeginApply
  BY <1>6 DEF BeginApply
<1>7. CASE ReplaceThreeOfAKind \/ DeclineThreeOfAKind
  BY <1>1, <1>2, <1>7 DEF ReplaceThreeOfAKind, DeclineThreeOfAKind, Replace, Goto, Steps
<1>8. CASE PaidWipe \/ EndPrelude
  BY <1>1, <1>2, <1>8 DEF PaidWipe, EndPrelude, Replace, Goto, Steps
<1>9. CASE DraftPaired \/ DraftIndependent
  BY <1>1, <1>2, <1>9 DEF DraftPaired, DraftIndependent, Take, Goto, Steps
<1>10. CASE PlaceTileOnly \/ PlaceTileAndWildlife \/ PlacementRejected
  BY <1>1, <1>2, <1>10
  DEF PlaceTileOnly, PlaceTileAndWildlife, PlacementRejected, Goto, Steps
<1>11. CASE FinishTurn
  BY <1>1, <1>2, <1>11 DEF FinishTurn, StartRefill, EndTurn, Goto, Steps
<1>12. CASE RefillSlot
  BY <1>1, <1>2, <1>12 DEF RefillSlot, Steps
<1>13. CASE RefillDone \/ AdvancePlayer
  BY <1>2, <1>13 DEF RefillDone, ResolveOverpopulation, AdvancePlayer, Replace, Goto, Steps
<1>14. CASE Commit
  BY <1>1, <1>14 DEF Commit
<1>15. CASE UNCHANGED vars
  BY <1>15 DEF vars
<1> QED
  BY <1>3, <1>4, <1>5, <1>6, <1>7, <1>8, <1>9, <1>10, <1>11, <1>12, <1>13, <1>14, <1>15
  DEF Next, Step

\* transition and apply are atomic: an error leaves the caller's game as it was.
THEOREM ApplyIsAtomic == Spec => FailedCallIsFree
<1>1. Init => CallInv
  BY DEF Init, CallInv, Calling
<1>2. TypeOK /\ CallInv /\ [Next]_vars
        => [result' \notin {"none", "ok"} => game' = game /\ work' = game]_vars
  BY NextCallInv
<1> QED
  BY <1>1, <1>2, InitTypeOK, NextTypeOK, NextCallInv, PTL DEF Spec, FailedCallIsFree

-----------------------------------------------------------------------------
(* Turns taken by a seat.                                                   *)

HIDE DEF None, Slots, Piles

LEMMA DivMod ==
  ASSUME NEW t \in Nat, NEW n \in Nat \ {0}
  PROVE  /\ t \div n \in Nat /\ t % n \in 0..(n - 1)
         /\ t = n * (t \div n) + (t % n)
<1>1. t \div n \in Nat
  OBVIOUS
<1>2. t % n \in 0..(n - 1)
  OBVIOUS
<1>3. t = n * (t \div n) + (t % n)
  OBVIOUS
<1> QED BY <1>1, <1>2, <1>3

LEMMA DivModUnique ==
  ASSUME NEW n \in Nat \ {0}, NEW a \in Nat, NEW b \in Nat,
         NEW r \in 0..(n - 1), NEW s \in 0..(n - 1), n * a + r = n * b + s
  PROVE  a = b /\ r = s
<1>1. \A x, y \in Nat : x < y => n * x + n <= n * y
  <2> SUFFICES ASSUME NEW x \in Nat, NEW y \in Nat, x < y PROVE n * x + n <= n * y
    OBVIOUS
  <2>1. PICK d \in Nat : y = x + 1 + d
    <3>1. y - x - 1 \in Nat OBVIOUS
    <3> QED BY <3>1
  <2>2. n * y = n * x + n + n * d
    BY <2>1
  <2>3. n * d \in Nat /\ n * x \in Nat
    OBVIOUS
  <2> QED BY <2>2, <2>3
<1>2. n * a \in Nat /\ n * b \in Nat
  OBVIOUS
<1>3. ~(a < b) /\ ~(b < a)
  BY <1>1, <1>2
<1> QED BY <1>2, <1>3

Taken(t, q) == t \div Players + (IF q < t % Players THEN 1 ELSE 0)

\* One more turn of the game is one more turn of the seat to move.
LEMMA NextTurn ==
  ASSUME NEW t \in Nat
  PROVE  /\ (t + 1) % Players = ((t % Players) + 1) % Players
         /\ \A q \in Seats : Taken(t + 1, q) = Taken(t, q) + (IF q = t % Players THEN 1 ELSE 0)
<1> DEFINE d == t \div Players m == t % Players e == (t + 1) \div Players k == (t + 1) % Players
<1>0. Players \in Nat \ {0}
  BY ParameterAssumption
<1>1. d \in Nat /\ m \in 0..(Players - 1) /\ t = Players * d + m
  BY <1>0, DivMod
<1>2. e \in Nat /\ k \in 0..(Players - 1) /\ t + 1 = Players * e + k
  <2>1. t + 1 \in Nat
    OBVIOUS
  <2> QED BY <1>0, <2>1, DivMod
<1>3. CASE m + 1 < Players
  <2>1. e = d /\ k = m + 1
    <3> HIDE DEF d, m, e, k
    <3>1. m + 1 \in 0..(Players - 1) /\ Players * d + (m + 1) = Players * e + k
      BY <1>0, <1>1, <1>2, <1>3
    <3> QED BY <1>0, <1>1, <1>2, <3>1, DivModUnique
  <2>2. (m + 1) % Players = m + 1
    <3> HIDE DEF m
    <3> QED BY <1>0, <1>1, <1>3
  <2> QED BY <1>0, <1>1, <2>1, <2>2 DEF Taken, Seats
<1>4. CASE m + 1 = Players
  <2>1. e = d + 1 /\ k = 0
    <3> HIDE DEF d, m, e, k
    <3>1. Players * (d + 1) + 0 = Players * e + k /\ 0 \in 0..(Players - 1) /\ d + 1 \in Nat
      BY <1>0, <1>1, <1>2, <1>4
    <3> QED BY <1>0, <1>2, <3>1, DivModUnique
  <2>2. (m + 1) % Players = 0
    <3> HIDE DEF m
    <3> QED BY <1>0, <1>4
  <2> QED BY <1>0, <1>1, <2>1, <2>2 DEF Taken, Seats
<1> QED
  <2> HIDE DEF m
  <2> QED BY <1>0, <1>1, <1>3, <1>4

LEMMA NoTurns == 0 % Players = 0 /\ \A q \in Seats : Taken(0, q) = 0
<1>1. 0 \div Players = 0 /\ 0 % Players = 0
  <2>1. 0 \div Players \in Nat /\ 0 % Players \in 0..(Players - 1)
        /\ 0 = Players * (0 \div Players) + (0 % Players)
    BY ParameterAssumption, DivMod
  <2>2. Players * 0 + 0 = 0 /\ 0 \in 0..(Players - 1)
    BY ParameterAssumption
  <2> QED BY <2>1, <2>2, DivModUnique, ParameterAssumption
<1> QED BY <1>1 DEF Taken, Seats
-----------------------------------------------------------------------------
(* The turn in progress, related to the game it was begun from.             *)

\* The places before and after the steps of a turn: its tile is placed, it is
\* counted, the move is passed on.
Replacing == pc \in {"fill", "settle"}
Drafting == pc \in {"three", "wipes", "draft", "place"} \/ (Replacing /\ ret = "wipes")
Replenishing == pc \in {"refill", "advance"} \/ (Replacing /\ ret # "wipes")
Counted == op = "apply" /\ (Replenishing \/ pc = "validate")
Placed == Counted \/ pc = "finish"
Passed == op = "apply" /\ pc = "validate"

One(b) == IF b THEN 1 ELSE 0

SeatLedger ==
  /\ \A q \in Seats : game.boards[q].tiles = StarterTiles + Taken(game.turns, q)
  /\ game.player = game.turns % Players

InTurn ==
  /\ Drafting \/ pc = "finish" => op = "apply"
  /\ Replacing => ret # "idle"
  /\ \A q \in Seats \ {game.player} : work.boards[q] = game.boards[q]
  /\ work.boards[game.player].tiles = game.boards[game.player].tiles + One(Placed)
  /\ work.turns = game.turns + One(Counted)
  /\ work.player = IF Passed THEN (game.player + 1) % Players ELSE game.player

TurnInv == TypeOK /\ SeatLedger /\ InTurn

OneTurn ==
  game' # game /\ op = "apply" =>
    /\ game'.turns = game.turns + 1
    /\ game'.player = (game.player + 1) % Players
    /\ \A p \in Seats \ {game.player} : game'.boards[p] = game.boards[p]

Good == TurnInv' /\ OneTurn

LEMMA Boards ==
  ASSUME TypeOK
  PROVE  /\ work.boards \in [Seats -> Board] /\ game.boards \in [Seats -> Board]
         /\ work.player \in Seats /\ game.player \in Seats
         /\ work.turns \in Nat /\ game.turns \in Nat
         /\ work.bag \in Piles /\ work.wildlife \in [Slots -> Wildlife \cup {None}]
BY DEF TypeOK, GameState

\* A step that leaves the turn where it was.
LEMMA Quiet ==
  ASSUME TurnInv, TypeOK', UNCHANGED <<game, op>>,
         work'.boards = work.boards, work'.player = work.player, work'.turns = work.turns,
         Placed' <=> Placed, Counted' <=> Counted, Passed' <=> Passed,
         Drafting' \/ pc' = "finish" => op = "apply", Replacing' => ret' # "idle"
  PROVE  Good
BY DEF Good, OneTurn, TurnInv, SeatLedger, InTurn, One

\* The seat to move changes its own board and nothing else.
LEMMA OwnBoard ==
  ASSUME TurnInv, TypeOK', UNCHANGED <<game, op>>,
         work'.player = work.player, work'.turns = work.turns, ~Passed, ~Passed',
         \A q \in Seats \ {work.player} : work'.boards[q] = work.boards[q],
         work'.boards[work.player].tiles - One(Placed') = work.boards[work.player].tiles - One(Placed),
         Counted' <=> Counted, op = "apply", Replacing' => ret' # "idle"
  PROVE  Good
<1>1. work.player = game.player /\ One(Placed) \in 0..1 /\ One(Placed') \in 0..1
  BY DEF TurnInv, InTurn, One
<1>2. /\ work.boards[game.player].tiles \in Nat /\ game.boards[game.player].tiles \in Nat
      /\ work'.boards[game.player].tiles \in Nat
  BY Boards DEF TurnInv, TypeOK, GameState, Board
<1>3. work'.boards[game.player].tiles = game.boards[game.player].tiles + One(Placed')
  <2>1. work.boards[game.player].tiles = game.boards[game.player].tiles + One(Placed)
    BY DEF TurnInv, InTurn
  <2> QED BY <1>1, <1>2, <2>1
<1>4. InTurn'
  BY <1>1, <1>3 DEF TurnInv, InTurn, One
<1> QED
  BY <1>4 DEF Good, OneTurn, TurnInv, SeatLedger

\* A refused call leaves the game and drops the clone.
LEMMA RaiseGood ==
  ASSUME TurnInv, TypeOK', NEW e, Raise(e) PROVE Good
<1>1. /\ game' = game /\ op' = op /\ work' = game /\ pc' \in {"failed", "idle"}
  BY DEF Raise
<1>2. ~Drafting' /\ pc' # "finish" /\ One(Placed') = 0 /\ One(Counted') = 0 /\ ~Passed'
  BY <1>1 DEF Drafting, Replacing, Replenishing, Placed, Counted, Passed, One
<1>3. InTurn'
  BY <1>1, <1>2, Boards DEF InTurn, TurnInv, Board, Replacing
<1> QED
  BY <1>1, <1>3 DEF Good, OneTurn, TurnInv, SeatLedger

-----------------------------------------------------------------------------
(* One step of the engine.                                                  *)

LEMMA InitTurn == Init => TurnInv
<1> SUFFICES ASSUME Init PROVE TurnInv
  OBVIOUS
<1>1. TypeOK
  BY InitTypeOK
<1>2. /\ game = work /\ op = "new" /\ pc = "refill"
      /\ \A q \in Seats : game.boards[q].tiles = StarterTiles
      /\ game.turns = 0 /\ game.player = 0
  BY DEF Init, Dealt
<1>3. SeatLedger
  BY <1>2, NoTurns DEF SeatLedger, StarterTiles
<1>4. InTurn
  BY <1>1, <1>2, Boards DEF InTurn, Drafting, Replacing, Placed, Counted, Passed, One, Board
<1> QED BY <1>1, <1>3, <1>4 DEF TurnInv

\* The wildlife loop is entered and left with ret naming the place to return to.
LEMMA ReplaceStep ==
  ASSUME TurnInv, TypeOK', FillEmptyWildlife \/ ReturnSetAside \/ AutomaticWipe \/ Settled
  PROVE  Good
<1>1. CASE Raise("WildlifeBagEmpty") \/ Raise(Unsettled)
  BY <1>1, RaiseGood
<1>2. CASE Settled
  <2>1. pc = "settle" /\ pc' = ret /\ ret \in {"idle", "wipes", "advance"}
        /\ UNCHANGED <<game, op, work>>
    BY <1>2 DEF Settled, Goto, TurnInv, TypeOK
  <2>2. ret # "idle"
    BY <2>1 DEF TurnInv, InTurn, Replacing
  <2> QED
    BY <2>1, <2>2, Quiet DEF Drafting, Replacing, Replenishing, Placed, Counted, Passed, TurnInv, InTurn
<1>3. CASE ~Raise("WildlifeBagEmpty") /\ ~Raise(Unsettled) /\ ~Settled
  <2>1. /\ pc \in {"fill", "settle"} /\ pc' \in {"fill", "settle"}
        /\ UNCHANGED <<game, op, ret>>
        /\ work'.boards = work.boards /\ work'.player = work.player
        /\ work'.turns = work.turns
    BY <1>3, Boards DEF FillEmptyWildlife, ReturnSetAside, AutomaticWipe, Draw, TurnInv, TypeOK, GameState
  <2> QED
    BY <2>1, Quiet DEF Drafting, Replacing, Replenishing, Placed, Counted, Passed, TurnInv, InTurn
<1> QED BY <1>1, <1>2, <1>3

\* The prelude: wipes may be paid with a token of the mover.
LEMMA SpendBoards ==
  ASSUME NEW g \in GameState
  PROVE  /\ Spend(g).player = g.player /\ Spend(g).turns = g.turns
         /\ Spend(g).boards[g.player].tiles = g.boards[g.player].tiles
         /\ \A q \in Seats \ {g.player} : Spend(g).boards[q] = g.boards[q]
         /\ Spend(g).tiles = g.tiles /\ Spend(g).wildlife = g.wildlife
BY DEF Spend, GameState, Board

LEMMA PreludeStep ==
  ASSUME TurnInv, TypeOK', ReplaceThreeOfAKind \/ DeclineThreeOfAKind \/ PaidWipe \/ EndPrelude
  PROVE  Good
<1> USE DEF Drafting, Replacing, Replenishing, Placed, Counted, Passed
<1>0. pc \in {"three", "wipes"} /\ op = "apply"
  BY DEF ReplaceThreeOfAKind, DeclineThreeOfAKind, PaidWipe, EndPrelude, TurnInv, InTurn
<1>1. CASE DeclineThreeOfAKind \/ EndPrelude
  BY <1>0, <1>1, Quiet DEF DeclineThreeOfAKind, EndPrelude, Goto
<1>2. CASE ReplaceThreeOfAKind
  <2>1. CASE Raise("NoThreeOfAKind")
    BY <2>1, RaiseGood
  <2>2. ASSUME NEW S, Replace(work, S, "wipes") PROVE Good
    <3>1. /\ pc' = "fill" /\ ret' = "wipes" /\ UNCHANGED <<game, op>>
          /\ work'.boards = work.boards /\ work'.player = work.player
          /\ work'.turns = work.turns
      BY <2>2 DEF Replace, TurnInv, TypeOK, GameState
    <3> QED BY <1>0, <3>1, Quiet
  <2> QED BY <1>2, <2>1, <2>2 DEF ReplaceThreeOfAKind
<1>3. CASE PaidWipe
  <2>1. CASE Raise("InvalidWipe") \/ Raise("NoNatureTokens")
    BY <2>1, RaiseGood
  <2>2. ASSUME NEW S, Replace(Spend(work), S, "wipes") PROVE Good
    <3>1. /\ pc' = "fill" /\ ret' = "wipes" /\ UNCHANGED <<game, op>>
          /\ work'.boards = Spend(work).boards /\ work'.player = Spend(work).player
          /\ work'.turns = Spend(work).turns
      BY <2>2 DEF Replace, Spend, TurnInv, TypeOK, GameState
    <3>2. One(Placed) = One(Placed') /\ One(Placed) = 0
      BY <1>0, <3>1 DEF One
    <3>3. /\ work'.player = work.player /\ work'.turns = work.turns
          /\ \A q \in Seats \ {work.player} : work'.boards[q] = work.boards[q]
          /\ work'.boards[work.player].tiles = work.boards[work.player].tiles
      BY <3>1, SpendBoards DEF TurnInv, TypeOK
    <3> QED BY <1>0, <3>1, <3>2, <3>3, OwnBoard
  <2> QED BY <1>3, <2>1, <2>2 DEF PaidWipe
<1> QED BY <1>1, <1>2, <1>3

LEMMA TakeStep ==
  ASSUME TurnInv, TypeOK', NEW t \in Slots, NEW w \in Slots, pc = "draft",
         Take(work, t, w) \/ Take(Spend(work), t, w)
  PROVE  Good
<1> USE DEF Drafting, Replacing, Replenishing, Placed, Counted, Passed
<1>0. op = "apply"
  BY DEF TurnInv, InTurn
<1>1. CASE Raise("UnavailableMarketSlot")
  BY <1>1, RaiseGood
<1>2. CASE ~Raise("UnavailableMarketSlot")
  <2>1. PICK g \in {work, Spend(work)} :
          /\ work' = [g EXCEPT !.tiles[t] = FALSE, !.wildlife[w] = None]
          /\ Goto("place")
    BY <1>2 DEF Take
  <2>2. work'.boards = g.boards /\ work'.player = g.player /\ work'.turns = g.turns
    BY <2>1 DEF Spend, TurnInv, TypeOK, GameState
  <2>3. /\ work'.player = work.player /\ work'.turns = work.turns
        /\ \A q \in Seats \ {work.player} : work'.boards[q] = work.boards[q]
        /\ work'.boards[work.player].tiles = work.boards[work.player].tiles
    BY <2>1, <2>2, SpendBoards DEF TurnInv, TypeOK
  <2>4. pc' = "place" /\ UNCHANGED <<game, op>>
    BY <2>1 DEF Goto
  <2>5. One(Placed) = 0 /\ One(Placed') = 0
    BY <2>4, <1>0 DEF One
  <2> QED BY <1>0, <2>3, <2>4, <2>5, OwnBoard
<1> QED BY <1>1, <1>2

LEMMA DraftStep == ASSUME TurnInv, TypeOK', DraftPaired \/ DraftIndependent PROVE Good
<1>1. CASE Raise("NoNatureTokens")
  BY <1>1, RaiseGood
<1> QED BY <1>1, TakeStep DEF DraftPaired, DraftIndependent

\* A token on a keystone tile changes the mover's board alone.
LEMMA AwardBoards ==
  ASSUME NEW g \in GameState, NEW p \in Seats, NEW award \in 0..1, NEW hand
  PROVE  LET h == [g EXCEPT !.boards[p].nature = @ + award, !.placed = hand] IN
         /\ h.player = g.player /\ h.turns = g.turns
         /\ h.boards[p].tiles = g.boards[p].tiles
         /\ \A q \in Seats \ {p} : h.boards[q] = g.boards[q]
BY DEF GameState, Board

LEMMA PlaceStep ==
  ASSUME TurnInv, TypeOK', PlaceTileOnly \/ PlaceTileAndWildlife \/ PlacementRejected
  PROVE  Good
<1> USE DEF Drafting, Replacing, Replenishing, Placed, Counted, Passed
<1>0. pc = "place" /\ op = "apply"
  BY DEF PlaceTileOnly, PlaceTileAndWildlife, PlacementRejected, TurnInv, InTurn
<1>1. CASE Raise("Board") \/ Raise("TileLimitReached")
  BY <1>1, RaiseGood
<1>2. CASE ~Raise("Board") /\ ~Raise("TileLimitReached")
  <2>1. /\ pc' = "finish" /\ UNCHANGED <<game, op>>
        /\ work.boards[work.player].tiles # MaxBoardTiles
        /\ \/ work' = WithTile(work)
           \/ \E award \in 0..1 :
                work' = [WithTile(work) EXCEPT !.boards[Me].nature = @ + award,
                                               !.placed = Add(@, aside)]
    BY <1>2 DEF PlaceTileOnly, PlaceTileAndWildlife, PlacementRejected, Goto, Me
  <2>2. /\ WithTile(work).player = work.player /\ WithTile(work).turns = work.turns
        /\ WithTile(work).boards[work.player].tiles = work.boards[work.player].tiles + 1
        /\ \A q \in Seats \ {work.player} : WithTile(work).boards[q] = work.boards[q]
        /\ DOMAIN WithTile(work).boards = Seats
    BY DEF WithTile, TurnInv, TypeOK, GameState, Board
  <2>3. /\ work'.player = work.player /\ work'.turns = work.turns
        /\ work'.boards[work.player].tiles = work.boards[work.player].tiles + 1
        /\ \A q \in Seats \ {work.player} : work'.boards[q] = work.boards[q]
    <3>1. ASSUME NEW award \in 0..1,
                 work' = [WithTile(work) EXCEPT !.boards[Me].nature = @ + award,
                                                !.placed = Add(@, aside)]
          PROVE  /\ work'.player = WithTile(work).player /\ work'.turns = WithTile(work).turns
                 /\ work'.boards[Me].tiles = WithTile(work).boards[Me].tiles
                 /\ \A q \in Seats \ {Me} : work'.boards[q] = WithTile(work).boards[q]
      <4>1. WithTile(work) \in GameState /\ Me \in Seats
        BY <2>1, WithTileType, Boards DEF TurnInv, TypeOK, Me
      <4>2. [WithTile(work) EXCEPT !.boards[Me].nature = @ + award, !.placed = Add(@, aside)]
              = [WithTile(work) EXCEPT !.boards[Me].nature = @ + award,
                                       !.placed = Add(WithTile(work).placed, aside)]
        OBVIOUS
      <4> QED BY <3>1, <4>1, <4>2, AwardBoards
    <3> QED BY <2>1, <2>2, <3>1 DEF Me
  <2>4. One(Placed) = 0 /\ One(Placed') = 1
    BY <1>0, <2>1 DEF One
  <2>5. work.boards[work.player].tiles \in Nat
    BY Boards DEF TurnInv, Board
  <2>6. work'.boards[work.player].tiles - One(Placed') = work.boards[work.player].tiles - One(Placed)
    BY <2>3, <2>4, <2>5
  <2> QED BY <1>0, <2>1, <2>3, <2>6, OwnBoard
<1> QED BY <1>1, <1>2

\* The turn is counted, unless the market cannot be refilled.
LEMMA FinishStep == ASSUME TurnInv, TypeOK', FinishTurn PROVE Good
<1> USE DEF Drafting, Replacing, Replenishing, Placed, Counted, Passed
<1>0. pc = "finish" /\ op = "apply"
  BY DEF FinishTurn, TurnInv, InTurn
<1>1. CASE Raise("TileStackEmpty") \/ Raise("WildlifeBagEmpty")
  BY <1>1, RaiseGood
<1>2. CASE ~Raise("TileStackEmpty") /\ ~Raise("WildlifeBagEmpty")
  <2> DEFINE g == TurnDone(work, aside)
  <2>1. PICK h \in {g, SoloDiscard(g)}, step \in {"refill", "advance"} : EndTurn(h, step)
    BY <1>2 DEF FinishTurn, StartRefill
  <2>2. g.boards = work.boards /\ g.player = work.player /\ g.turns = work.turns + 1
    BY DEF TurnDone, TurnInv, TypeOK, GameState
  <2>3. h.boards = g.boards /\ h.player = g.player /\ h.turns = g.turns
    BY <2>1 DEF SoloDiscard, TurnDone, TurnInv, TypeOK, GameState
  <2>4. /\ work'.boards = work.boards /\ work'.player = work.player
        /\ work'.turns = work.turns + 1
        /\ pc' \in {"refill", "advance"} /\ UNCHANGED <<game, op>>
    BY <2>1, <2>2, <2>3 DEF EndTurn, Goto
  <2>5. One(Counted) = 0 /\ One(Counted') = 1 /\ One(Placed) = 1 /\ One(Placed') = 1
    BY <1>0, <2>4 DEF One
  <2>6. InTurn'
    BY <1>0, <2>4, <2>5, Boards DEF TurnInv, InTurn
  <2> QED BY <2>4, <2>6 DEF Good, OneTurn, TurnInv, SeatLedger
<1> QED BY <1>1, <1>2

LEMMA RefillStep ==
  ASSUME TurnInv, TypeOK', RefillSlot \/ RefillDone
  PROVE  Good
<1> USE DEF Drafting, Replacing, Replenishing, Placed, Counted, Passed
<1>1. CASE Raise("TileStackEmpty") \/ Raise("WildlifeBagEmpty")
  BY <1>1, RaiseGood
<1>2. CASE RefillSlot /\ ~Raise("TileStackEmpty") /\ ~Raise("WildlifeBagEmpty")
  <2>1. /\ UNCHANGED <<game, op, pc, ret>>
        /\ work'.boards = work.boards /\ work'.player = work.player /\ work'.turns = work.turns
    <3> DEFINE k == Lowest(Incomplete(work))
               g == IF work.tiles[k] THEN work
                    ELSE [work EXCEPT !.tiles[k] = TRUE, !.stack = @ - 1]
    <3>1. /\ g.boards = work.boards /\ g.player = work.player /\ g.turns = work.turns
          /\ \A s \in Wildlife : /\ Draw(g, k, s).boards = g.boards
                                /\ Draw(g, k, s).player = g.player
                                /\ Draw(g, k, s).turns = g.turns
      BY DEF Draw, TurnInv, TypeOK, GameState
    <3>2. /\ UNCHANGED <<game, op, pc, ret>>
          /\ work' = g \/ \E s \in Wildlife : work' = Draw(g, k, s)
      BY <1>2 DEF RefillSlot
    <3> HIDE DEF g, k
    <3> QED BY <3>1, <3>2
  <2> QED BY <2>1, Quiet DEF TurnInv, InTurn
<1>3. CASE RefillDone
  <2>1. /\ pc = "refill" /\ UNCHANGED <<game, op>>
        /\ pc' = "advance" \/ (pc' = "fill" /\ ret' = "advance")
        /\ work'.boards = work.boards /\ work'.player = work.player /\ work'.turns = work.turns
    BY <1>3 DEF RefillDone, ResolveOverpopulation, Replace, Goto, TurnInv, TypeOK, GameState
  <2> QED BY <2>1, Quiet
<1> QED BY <1>1, <1>2, <1>3

LEMMA AdvanceStep == ASSUME TurnInv, TypeOK', AdvancePlayer PROVE Good
<1> USE DEF Drafting, Replacing, Replenishing, Placed, Counted, Passed
<1>1. /\ pc = "advance" /\ pc' = "validate" /\ UNCHANGED <<game, op>>
      /\ work'.boards = work.boards /\ work'.turns = work.turns
      /\ work'.player = IF op = "new" THEN work.player ELSE (work.player + 1) % Players
  BY DEF AdvancePlayer, Goto, TurnInv, TypeOK, GameState
<1>2. op \in {"new", "apply"}
  BY DEF TurnInv, TypeOK
<1>3. One(Placed') = One(Placed) /\ One(Counted') = One(Counted)
  BY <1>1 DEF One
<1>4. InTurn'
  BY <1>1, <1>2, <1>3 DEF TurnInv, InTurn
<1> QED BY <1>1, <1>4 DEF Good, OneTurn, TurnInv, SeatLedger

\* The clone of an accepted action becomes the game.
LEMMA CommitStep == ASSUME TurnInv, TypeOK', Commit PROVE Good
<1> USE DEF Drafting, Replacing, Replenishing, Placed, Counted, Passed
<1>1. CASE Raise("Invariant")
  BY <1>1, RaiseGood
<1>2. CASE ~Raise("Invariant")
  <2>1. pc = "validate" /\ pc' = "idle" /\ game' = work /\ UNCHANGED <<work, op>>
    BY <1>2 DEF Commit
  <2>2. op \in {"new", "apply"}
    BY DEF TurnInv, TypeOK
  <2>3. One(Placed') = 0 /\ One(Counted') = 0 /\ ~Passed'
    BY <2>1 DEF One
  <2>4. InTurn'
    BY <2>1, <2>3, Boards DEF TurnInv, InTurn, Board
  <2>5. CASE op = "apply"
    <3>1. One(Placed) = 1 /\ One(Counted) = 1 /\ Passed
      BY <2>1, <2>5 DEF One
    <3>2. /\ game'.turns = game.turns + 1
          /\ game'.player = (game.player + 1) % Players
          /\ \A q \in Seats \ {game.player} : game'.boards[q] = game.boards[q]
          /\ game'.boards[game.player].tiles = game.boards[game.player].tiles + 1
      BY <2>1, <3>1 DEF TurnInv, InTurn
    <3>3. SeatLedger'
      <4>1. game.turns \in Nat /\ game.player = game.turns % Players /\ game.player \in Seats
        BY Boards DEF TurnInv, SeatLedger
      <4>2. game'.player = game'.turns % Players
        BY <3>2, <4>1, NextTurn
      <4>3. ASSUME NEW q \in Seats
            PROVE  game'.boards[q].tiles = StarterTiles + Taken(game'.turns, q)
        <5>1. Taken(game.turns, q) \in Int /\ game.boards[q].tiles = StarterTiles + Taken(game.turns, q)
          BY <4>1, ParameterAssumption DEF Taken, TurnInv, SeatLedger
        <5>2. Taken(game'.turns, q) = Taken(game.turns, q) + (IF q = game.player THEN 1 ELSE 0)
          BY <3>2, <4>1, NextTurn
        <5>3. CASE q = game.player
          BY <3>2, <5>1, <5>2, <5>3 DEF StarterTiles
        <5>4. CASE q # game.player
          BY <3>2, <5>1, <5>2, <5>4 DEF StarterTiles
        <5> QED BY <5>3, <5>4
      <4> QED BY <4>2, <4>3 DEF SeatLedger
    <3> QED BY <2>4, <3>2, <3>3 DEF Good, OneTurn, TurnInv
  <2>6. CASE op = "new"
    <3>1. One(Placed) = 0 /\ One(Counted) = 0 /\ ~Passed
      BY <2>1, <2>6 DEF One
    <3>2. /\ game'.turns = game.turns /\ game'.player = game.player
          /\ \A q \in Seats : game'.boards[q].tiles = game.boards[q].tiles
      BY <2>1, <3>1, Boards DEF TurnInv, InTurn, Board
    <3> QED BY <2>4, <2>6, <3>2 DEF Good, OneTurn, TurnInv, SeatLedger
  <2> QED BY <2>2, <2>5, <2>6
<1> QED BY <1>1, <1>2

LEMMA BeginStep == ASSUME TurnInv, TypeOK', BeginApply PROVE Good
<1> USE DEF Drafting, Replacing, Replenishing, Placed, Counted, Passed
<1>1. CASE IsOver(game)
  BY <1>1, Quiet DEF BeginApply, TurnInv, InTurn
<1>2. CASE ~IsOver(game)
  <2>1. pc' = "three" /\ op' = "apply" /\ work' = game /\ UNCHANGED game
    BY <1>2 DEF BeginApply
  <2>2. One(Placed') = 0 /\ One(Counted') = 0
    BY <2>1 DEF One
  <2>3. InTurn'
    BY <2>1, <2>2, Boards DEF TurnInv, InTurn, Board
  <2> QED BY <2>1, <2>3 DEF Good, OneTurn, TurnInv, SeatLedger
<1> QED BY <1>1, <1>2

LEMMA NextTurnInv == TurnInv /\ [Next]_vars => Good
<1> SUFFICES ASSUME TurnInv, [Next]_vars PROVE Good
  OBVIOUS
<1>0. TypeOK'
  BY NextTypeOK DEF TurnInv
<1>1. CASE UNCHANGED vars
  <2>1. (Drafting' <=> Drafting) /\ (Replacing' <=> Replacing) /\ (Placed' <=> Placed)
        /\ (Counted' <=> Counted) /\ (Passed' <=> Passed)
    BY <1>1 DEF vars, Drafting, Replacing, Replenishing, Placed, Counted, Passed
  <2> QED BY <1>0, <1>1, <2>1, Quiet DEF vars, TurnInv, InTurn
<1> QED
  BY <1>0, <1>1, ReplaceStep, PreludeStep, DraftStep, PlaceStep, FinishStep, RefillStep,
     AdvanceStep, CommitStep, BeginStep
  DEF Next, Step

-----------------------------------------------------------------------------
(* The theorems.                                                            *)

LEMMA LedgerAgrees == TurnInv => TurnLedger
<1> SUFFICES ASSUME TurnInv, NEW q \in Seats
             PROVE  game.boards[q].tiles - StarterTiles + TurnsRemaining(game.turns, q) = TurnsPerPlayer
  BY DEF TurnLedger
<1>1. game.boards[q].tiles = StarterTiles + Taken(game.turns, q)
  BY DEF TurnInv, SeatLedger
<1>2. game.boards[q].tiles \in 0..(StarterTiles + TurnsPerPlayer)
  BY Boards DEF TurnInv, Board, MaxBoardTiles
<1>3. Taken(game.turns, q) \in Int
  BY Boards, ParameterAssumption DEF Taken, TurnInv
<1>4. Taken(game.turns, q) <= TurnsPerPlayer /\ TurnsPerPlayer \in Nat
  BY <1>1, <1>2, <1>3, ParameterAssumption DEF StarterTiles
<1>5. TurnsRemaining(game.turns, q) = TurnsPerPlayer - Taken(game.turns, q)
  BY <1>3, <1>4 DEF TurnsRemaining, Taken
<1> QED BY <1>1, <1>3, <1>4, <1>5 DEF StarterTiles

\* turns_remaining_for_player agrees with the turns a seat has really taken, for
\* every number of seats and turns (game.rs turns_remaining_for_player).
THEOREM LedgerHolds == Spec => []TurnLedger
<1>1. TurnInv /\ [Next]_vars => TurnInv'
  BY NextTurnInv DEF Good
<1> QED
  BY <1>1, InitTurn, LedgerAgrees, PTL DEF Spec

\* An accepted action is one turn of the seat to move, and changes no other board
\* (game.rs apply, finish_turn, advance_player).
THEOREM MoverAlone == Spec => OneTurnOfTheMover
<1>1. TurnInv /\ [Next]_vars => TurnInv'
  BY NextTurnInv DEF Good
<1>2. TurnInv /\ [Next]_vars => [OneTurn]_vars
  BY NextTurnInv DEF Good
<1>3. Spec => [][OneTurn]_vars
  BY <1>1, <1>2, InitTurn, PTL DEF Spec
<1> QED
  BY <1>3, PTL DEF OneTurnOfTheMover, OneTurn

-----------------------------------------------------------------------------
(* Supplies: the inductive invariant.                                       *)

USE DEF None, Slots, Piles

\* Tiles that leave the market, and tokens at most, in t turns.
Spent(t) == IF Solo THEN 2 * t ELSE t
Out(g) == Size(g.placed) + Size(g.lost)

\* In a turn the stack and the market hold what the past turns left, less
\* `more` tiles already drafted.
Ledger(g, more) ==
  /\ g.turns < TotalTurns
  /\ g.stack + TilesShown(g) + more = TileStackSize - Spent(g.turns)

Full(g) == Incomplete(g) = {} /\ Ledger(g, 0)

\* A game between two calls.
Sound(g) ==
  /\ Out(g) <= Spent(g.turns)
  /\ IsOver(g) \/ Full(g)

Wiping ==
  /\ Out(work) <= Spent(work.turns)
  /\ Size(aside) <= 4
  /\ Ledger(work, 0)
  /\ \A k \in Slots : work.tiles[k]
  /\ pc = "settle" => Gaps(work) = {}
Drafted ==
  /\ Out(work) + Size(aside) <= Spent(work.turns) + 1
  /\ Ledger(work, 1)
  /\ TilesShown(work) = 3
  /\ Gaps(work) # Slots
Refilling == Out(work) <= Spent(work.turns) /\ Ledger(work, 0)

SupplyInv ==
  /\ Sound(game)
  /\ pc \in {"idle", "failed", "advance", "validate"} => Sound(work)
  /\ pc \in {"three", "wipes", "draft"} => Sound(work) /\ Full(work)
  /\ pc \in {"fill", "settle"} => Wiping
  /\ pc \in {"place", "finish"} => Drafted
  /\ pc = "refill" => Refilling
  /\ SupplyNeverRunsDry

-----------------------------------------------------------------------------
(* Counting.                                                                *)

LEMMA SpentType ==
  ASSUME NEW t \in Nat
  PROVE  /\ Spent(t) \in Nat
         /\ Spent(t + 1) = Spent(t) + (IF Solo THEN 2 ELSE 1)
BY ParameterAssumption DEF Spent

LEMMA BoxIsLargeEnough ==
  ASSUME NEW t \in Nat, t < TotalTurns
  PROVE  TileStackSize - Spent(t) >= 4 /\ Spent(t) <= MostOut /\ MostOut \in Nat
<1>1. Solo => TotalTurns = TurnsPerPlayer
  BY ParameterAssumption DEF TotalTurns
<1>2. TotalTurns \in Nat /\ TurnsPerPlayer \in Nat
  BY TotalTurnsType, ParameterAssumption
<1> QED
  BY <1>1, <1>2, ParameterAssumption DEF TileStackSize, Spent, MostOut

LEMMA SizeType == ASSUME NEW b \in Piles PROVE Size(b) \in Nat
BY DEF Size, Wildlife

LEMMA SizeOfAdd ==
  ASSUME NEW b \in Piles, NEW c \in Piles
  PROVE  Size(Add(b, c)) = Size(b) + Size(c)
BY DEF Size, Add, Wildlife

LEMMA NoTokensSize == Size(NoTokens) = 0
BY DEF Size, NoTokens, Wildlife

LEMMA OutType == ASSUME NEW g \in GameState PROVE Out(g) \in Nat
BY SizeType DEF Out, GameState

\* A slot shows one token or none.
LEMMA SlotSize ==
  ASSUME NEW m \in Market, NEW k \in Slots
  PROVE  Is(m, k, "Bear") + Is(m, k, "Elk") + Is(m, k, "Salmon") + Is(m, k, "Hawk")
           + Is(m, k, "Fox") = (IF m[k] = None THEN 0 ELSE 1)
BY DEF Is, Market, Wildlife

LEMMA TokensSize ==
  ASSUME NEW m \in Market
  PROVE  /\ Tokens(m) \in Piles
         /\ Size(Tokens(m)) \in 0..4
         /\ (\E k \in Slots : m[k] = None) => Size(Tokens(m)) <= 3
<1>1. Tokens(m) \in Piles
  BY ShownType DEF Tokens
<1>2. \A k \in Slots, s \in Wildlife : Is(m, k, s) \in 0..1
  BY DEF Is
<1>3. Size(Tokens(m)) = (IF m[0] = None THEN 0 ELSE 1) + (IF m[1] = None THEN 0 ELSE 1)
                         + (IF m[2] = None THEN 0 ELSE 1) + (IF m[3] = None THEN 0 ELSE 1)
  BY <1>2, SlotSize DEF Size, Tokens, Shown, Wildlife
<1> QED BY <1>1, <1>3

LEMMA PickedSize ==
  ASSUME NEW m \in Market, NEW S PROVE Size(Picked(m, S)) \in 0..4
<1>1. \A s \in Wildlife : /\ Picked(m, S)[s] \in Nat
                          /\ Picked(m, S)[s] <= Tokens(m)[s] /\ Tokens(m)[s] \in Nat
  <2>1. Without(m, S) \in Market BY WithoutType
  <2>2. \A s \in Wildlife : Shown(m, s) \in Nat /\ Shown(Without(m, S), s) \in Nat
    BY <2>1, ShownType
  <2>3. Picked(m, S) \in Piles BY PickedType
  <2> QED BY <2>2, <2>3 DEF Picked, Tokens
<1>2. Size(Picked(m, S)) \in Nat /\ Size(Picked(m, S)) <= Size(Tokens(m))
  BY <1>1 DEF Size, Wildlife
<1> QED BY <1>2, TokensSize

LEMMA PickedOneSize ==
  ASSUME NEW m \in Market, NEW w \in Slots PROVE Size(Picked(m, {w})) <= 1
<1>1. ASSUME NEW s \in Wildlife PROVE Picked(m, {w})[s] = Is(m, w, s)
  <2>1. \A k \in Slots : Is(Without(m, {w}), k, s) = (IF k = w THEN 0 ELSE Is(m, k, s))
    BY DEF Is, Without, Wildlife
  <2>2. \A k \in Slots : Is(m, k, s) \in 0..1 BY DEF Is
  <2> QED BY <2>1, <2>2 DEF Picked, Shown
<1>2. Size(Picked(m, {w})) = (IF m[w] = None THEN 0 ELSE 1)
  BY <1>1, SlotSize DEF Size, Wildlife
<1> QED BY <1>2

LEMMA TilesAfterTake ==
  ASSUME NEW m \in [Slots -> BOOLEAN], NEW t \in Slots, m[t]
  PROVE  /\ Shown(m, TRUE) \in 0..4
         /\ Shown([m EXCEPT ![t] = FALSE], TRUE) = Shown(m, TRUE) - 1
<1>1. CASE t = 0 BY <1>1 DEF Shown, Is
<1>2. CASE t = 1 BY <1>2 DEF Shown, Is
<1>3. CASE t = 2 BY <1>3 DEF Shown, Is
<1>4. CASE t = 3 BY <1>4 DEF Shown, Is
<1> QED BY <1>1, <1>2, <1>3, <1>4

LEMMA TilesAfterDeal ==
  ASSUME NEW m \in [Slots -> BOOLEAN], NEW t \in Slots, ~m[t]
  PROVE  /\ Shown(m, TRUE) \in 0..3
         /\ Shown([m EXCEPT ![t] = TRUE], TRUE) = Shown(m, TRUE) + 1
<1>1. CASE t = 0 BY <1>1 DEF Shown, Is
<1>2. CASE t = 1 BY <1>2 DEF Shown, Is
<1>3. CASE t = 2 BY <1>3 DEF Shown, Is
<1>4. CASE t = 3 BY <1>4 DEF Shown, Is
<1> QED BY <1>1, <1>2, <1>3, <1>4

LEMMA AllTiles ==
  ASSUME NEW m \in [Slots -> BOOLEAN], \A k \in Slots : m[k]
  PROVE  Shown(m, TRUE) = 4
BY DEF Shown, Is

\* Conservation, summed over the species.
LEMMA ConservedSize ==
  ASSUME NEW g \in GameState, NEW hand \in Piles, Conserved(g, hand)
  PROVE  Size(g.bag) + Size(Tokens(g.wildlife)) + Out(g) + Size(hand) = Size(Supply)
<1>1. /\ g.bag \in Piles /\ g.placed \in Piles /\ g.lost \in Piles
      /\ Tokens(g.wildlife) \in Piles
  BY TokensSize DEF GameState, Market
<1>2. \A s \in Wildlife : g.bag[s] + Tokens(g.wildlife)[s] + g.placed[s] + g.lost[s]
                            + hand[s] = Supply[s]
  BY DEF Conserved, Accounted, Tokens
<1> HIDE DEF Conserved
<1> QED
  BY <1>1, <1>2, ParameterAssumption DEF Size, Out, Wildlife

\* An incomplete market can be filled.
LEMMA BagNotEmpty ==
  ASSUME NEW g \in GameState, NEW hand \in Piles, Conserved(g, hand),
         Out(g) <= Spent(g.turns), g.turns < TotalTurns, Size(hand) <= 4,
         \E k \in Slots : g.wildlife[k] = None
  PROVE  Size(g.bag) # 0
<1>1. /\ Size(g.bag) \in Nat /\ Size(hand) \in Nat /\ Size(Supply) \in Nat
      /\ Out(g) \in Nat /\ g.turns \in Nat
  BY SizeType, OutType, ParameterAssumption DEF GameState
<1>2. Size(Tokens(g.wildlife)) \in 0..3
  BY TokensSize DEF GameState, Market
<1>3. Spent(g.turns) <= MostOut /\ MostOut \in Nat /\ Spent(g.turns) \in Nat
  BY <1>1, BoxIsLargeEnough, SpentType
<1> QED
  BY <1>1, <1>2, <1>3, ConservedSize, SupplyAssumption

LEMMA StackNotEmpty ==
  ASSUME NEW g \in GameState, Ledger(g, 0), NEW k \in Slots, ~g.tiles[k]
  PROVE  g.stack # 0
<1>1. TilesShown(g) \in 0..3
  BY TilesAfterDeal DEF TilesShown, GameState
<1>2. g.turns \in Nat /\ g.stack \in Nat
  BY DEF GameState
<1>3. TileStackSize - Spent(g.turns) >= 4 /\ Spent(g.turns) \in Nat /\ TileStackSize \in Nat
  BY <1>2, BoxIsLargeEnough, SpentType, TileStackType DEF Ledger
<1> QED
  BY <1>1, <1>2, <1>3 DEF Ledger

\* Discarding the pair nearest the draw stack.
LEMMA SoloDiscardSpends ==
  ASSUME NEW g \in GameState, TilesShown(g) # 0, Gaps(g) # Slots
  PROVE  /\ TilesShown(SoloDiscard(g)) = TilesShown(g) - 1
         /\ SoloDiscard(g).stack = g.stack
         /\ SoloDiscard(g).turns = g.turns
         /\ Out(SoloDiscard(g)) <= Out(g) + 1
<1> DEFINE t == LastTile(g)
           w == LastToken(g)
           h == SoloDiscard(g)
           m == [g.tiles EXCEPT ![t] = FALSE]
<1>0. {k \in Slots : g.tiles[k]} # {} /\ {k \in Slots : g.wildlife[k] # None} # {}
  BY DEF TilesShown, Shown, Is, Gaps
<1>1. t \in Slots /\ w \in Slots /\ g.tiles[t]
  BY <1>0, LastInSet DEF LastTile, LastToken
<1>2. g.wildlife \in Market /\ g.tiles \in [Slots -> BOOLEAN] /\ g.lost \in Piles
      /\ g.placed \in Piles
  BY DEF GameState, Market
<1>3. /\ h.tiles = Compact(m, FALSE)
      /\ h.lost = Add(g.lost, Picked(g.wildlife, {w}))
      /\ h.placed = g.placed /\ h.stack = g.stack /\ h.turns = g.turns
  BY DEF SoloDiscard, GameState
<1>4. m \in [Slots -> BOOLEAN] /\ Shown(m, TRUE) = TilesShown(g) - 1
  BY <1>1, <1>2, TilesAfterTake DEF TilesShown
<1> HIDE DEF t, w, h, m
<1>5. Shown(Compact(m, FALSE), TRUE) = Shown(m, TRUE)
  <2>1. \A T, gap, v : m \in [Slots -> T] /\ v # gap
                     => Shown(Compact(m, gap), v) = Shown(m, v)
    BY CompactKeepsShown
  <2> QED BY <2>1, <1>4
<1>6. Size(h.lost) <= Size(g.lost) + 1
  <2>1. Picked(g.wildlife, {w}) \in Piles BY <1>2, PickedType
  <2>2. Size(Picked(g.wildlife, {w})) <= 1 BY <1>1, <1>2, PickedOneSize
  <2>3. Size(h.lost) = Size(g.lost) + Size(Picked(g.wildlife, {w}))
    BY <1>2, <1>3, <2>1, SizeOfAdd
  <2>4. Size(g.lost) \in Nat /\ Size(Picked(g.wildlife, {w})) \in Nat
    BY <1>2, <2>1, SizeType
  <2> QED BY <2>2, <2>3, <2>4
<1>7. Size(g.lost) \in Nat /\ Size(h.lost) \in Nat /\ Size(g.placed) \in Nat
  <2>1. h.lost \in Piles BY <1>2, <1>3, PickedType, AddType
  <2> QED BY <2>1, <1>2, SizeType
<1>8. TilesShown(h) = TilesShown(g) - 1
  BY <1>3, <1>4, <1>5 DEF TilesShown
<1>9. Out(h) <= Out(g) + 1
  BY <1>3, <1>6, <1>7 DEF Out
<1> QED BY <1>3, <1>8, <1>9 DEF h

-----------------------------------------------------------------------------
(* The steps.                                                               *)

\* The fields of a game the ledger reads.
LEMMA SameLedger ==
  ASSUME NEW g, NEW h, h.tiles = g.tiles, h.stack = g.stack, h.turns = g.turns,
         NEW more
  PROVE  /\ TilesShown(h) = TilesShown(g)
         /\ Ledger(h, more) <=> Ledger(g, more)
BY DEF Ledger, TilesShown

LEMMA RaiseSupply ==
  ASSUME SupplyInv, NEW e, e \notin Exhausted, Raise(e) PROVE SupplyInv'
<1>1. Sound(work') /\ Sound(game')
  BY DEF Raise, SupplyInv
<1> QED
  BY <1>1 DEF Raise, SupplyInv, SupplyNeverRunsDry

LEMMA GotoSupply ==
  ASSUME SupplyInv, NEW step, Goto(step), step \in Steps,
         step \in {"idle", "failed", "advance", "validate"} => Sound(work'),
         step \in {"three", "wipes", "draft"} => Sound(work') /\ Full(work'),
         step \notin {"fill", "settle"},
         step \in {"place", "finish"} => Drafted',
         step = "refill" => Refilling'
  PROVE  SupplyInv'
BY DEF Goto, SupplyInv, SupplyNeverRunsDry

\* A replacement starts from a full market.
LEMMA ReplaceSupply ==
  ASSUME SupplyInv, NEW g \in GameState, NEW S, NEW then, Replace(g, S, then),
         Incomplete(g) = {}, Ledger(g, 0), Out(g) <= Spent(g.turns)
  PROVE  SupplyInv'
<1>1. /\ work'.tiles = g.tiles /\ work'.stack = g.stack /\ work'.turns = g.turns
      /\ work'.placed = g.placed /\ work'.lost = g.lost
  BY DEF Replace, GameState
<1>2. Ledger(work', 0) /\ Out(work') <= Spent(work'.turns)
  BY <1>1, SameLedger DEF Out
<1>3. Size(aside') <= 4
  <2>1. Size(Picked(g.wildlife, S)) \in 0..4
    BY PickedSize DEF GameState, Market
  <2> QED BY <2>1 DEF Replace
<1>4. \A k \in Slots : work'.tiles[k]
  BY <1>1 DEF Incomplete
<1> QED
  BY <1>2, <1>3, <1>4 DEF Replace, SupplyInv, SupplyNeverRunsDry, Wiping, Ledger, TilesShown,
     Out, Spent, Size, Shown, Is, Sound, Full, IsOver, Incomplete

LEMMA InitSupply == Init => SupplyInv
<1> SUFFICES ASSUME Init PROVE SupplyInv
  OBVIOUS
<1>1. PICK m \in [Slots -> Wildlife] : work = Dealt(m)
  BY DEF Init
<1>2. /\ \A k \in Slots : work.tiles[k] /\ work.wildlife[k] # None
      /\ work.tiles \in [Slots -> BOOLEAN]
      /\ work.stack = TileStackSize - 4 /\ work.turns = 0
      /\ work.placed = NoTokens /\ work.lost = NoTokens
  BY <1>1 DEF Dealt, Wildlife
<1>3. TilesShown(work) = 4
  BY <1>2, AllTiles DEF TilesShown
<1>4. Incomplete(work) = {}
  BY <1>2 DEF Incomplete
<1>5. Out(work) = 0 /\ Spent(work.turns) = 0
  BY <1>2, NoTokensSize DEF Out, Spent
<1>6. Ledger(work, 0)
  BY <1>2, <1>3, <1>5, TileStackType, TotalTurnsType DEF Ledger
<1> QED
  BY <1>4, <1>5, <1>6
  DEF Init, SupplyInv, SupplyNeverRunsDry, Exhausted, Sound, Full, Refilling

LEMMA NextSupply ==
  TypeOK /\ TypeOK' /\ ConservationInv /\ SupplyInv /\ [Next]_vars => SupplyInv'
<1> SUFFICES ASSUME TypeOK, TypeOK', ConservationInv, SupplyInv, [Next]_vars
             PROVE  SupplyInv'
  OBVIOUS
<1>0. /\ work \in GameState /\ work' \in GameState /\ aside \in Piles
      /\ work.wildlife \in Market /\ work.tiles \in [Slots -> BOOLEAN]
      /\ work.turns \in Nat /\ Conserved(work, aside)
  BY DEF TypeOK, GameState, Market, ConservationInv
<1>1. CASE FillEmptyWildlife
  <2>1. Wiping
    BY <1>1 DEF FillEmptyWildlife, SupplyInv
  <2>2. Size(work.bag) # 0
    BY <1>0, <1>1, <2>1, BagNotEmpty DEF FillEmptyWildlife, Gaps, Wiping, Ledger
  <2>3. PICK s \in Wildlife : work' = Draw(work, Lowest(Gaps(work)), s)
    BY <1>1, <2>2 DEF FillEmptyWildlife
  <2>4. /\ work'.tiles = work.tiles /\ work'.stack = work.stack
        /\ work'.turns = work.turns
        /\ work'.placed = work.placed /\ work'.lost = work.lost
    BY <2>3, <1>0 DEF Draw, GameState
  <2>5. Ledger(work', 0) /\ Out(work') <= Spent(work'.turns)
    BY <2>1, <2>4, SameLedger DEF Wiping, Out
  <2>6. /\ pc = "fill" /\ pc' = pc /\ aside' = aside /\ game' = game /\ result' = result
    BY <1>1, <2>2 DEF FillEmptyWildlife
  <2> QED
    BY <2>1, <2>4, <2>5, <2>6 DEF SupplyInv, Wiping, SupplyNeverRunsDry, Ledger,
       TilesShown, Out, Spent, Size, Sound, Full, IsOver, Incomplete
<1>2. CASE ReturnSetAside
  <2>1. Wiping
    BY <1>2 DEF ReturnSetAside, SupplyInv
  <2>2. /\ work'.tiles = work.tiles /\ work'.stack = work.stack
        /\ work'.turns = work.turns /\ work'.wildlife = work.wildlife
        /\ work'.placed = work.placed /\ work'.lost = work.lost
    BY <1>2, <1>0 DEF ReturnSetAside, GameState
  <2>3. Ledger(work', 0) /\ Out(work') <= Spent(work'.turns) /\ Gaps(work') = {}
    BY <1>2, <2>1, <2>2, SameLedger DEF Wiping, Out, Gaps, ReturnSetAside
  <2>4. Size(aside') <= 4
    BY <1>2, NoTokensSize DEF ReturnSetAside
  <2> QED
    BY <1>2, <2>1, <2>2, <2>3, <2>4 DEF ReturnSetAside, SupplyInv, Wiping,
       SupplyNeverRunsDry, Ledger, TilesShown, Out, Spent, Size, Sound, Full, IsOver,
       Incomplete, Gaps
<1>3. ASSUME pc = "settle"
      PROVE  Incomplete(work) = {} /\ Ledger(work, 0) /\ Out(work) <= Spent(work.turns)
  BY <1>3 DEF SupplyInv, Wiping, Incomplete, Gaps
<1>4. CASE AutomaticWipe
  <2>1. CASE Raise(Unsettled)
    BY <2>1, RaiseSupply DEF Exhausted, Unsettled
  <2>2. CASE /\ work' = [work EXCEPT !.wildlife = Without(@, Slots)]
             /\ aside' = Picked(work.wildlife, Slots)
             /\ pc' = "fill" /\ game' = game /\ result' = result
    <3>1. /\ work'.tiles = work.tiles /\ work'.stack = work.stack
          /\ work'.turns = work.turns
          /\ work'.placed = work.placed /\ work'.lost = work.lost
      BY <2>2, <1>0 DEF GameState
    <3>2. Ledger(work', 0) /\ Out(work') <= Spent(work'.turns)
      BY <1>3, <1>4, <3>1, SameLedger DEF AutomaticWipe, Out
    <3>3. \A k \in Slots : work'.tiles[k]
      BY <1>3, <1>4, <3>1 DEF AutomaticWipe, Incomplete
    <3>4. Size(aside') <= 4
      BY <2>2, <1>0, PickedSize
    <3> QED
      BY <2>2, <3>2, <3>3, <3>4 DEF SupplyInv, Wiping, SupplyNeverRunsDry, Ledger,
         TilesShown, Out, Spent, Size, Sound, Full, IsOver, Incomplete
  <2> QED BY <1>4, <2>1, <2>2 DEF AutomaticWipe
<1>5. CASE Settled
  <2>1. Sound(work) /\ Full(work)
    BY <1>3, <1>5 DEF Settled, Sound, Full
  <2>2. Sound(work') /\ Full(work')
    BY <1>5, <2>1 DEF Settled
  <2>3. ret \in {"idle", "wipes", "advance"}
    BY DEF TypeOK
  <2> QED BY <1>5, <2>2, <2>3, GotoSupply DEF Settled, Steps
<1>6. CASE BeginApply
  <2>1. CASE IsOver(game)
    BY <1>6, <2>1 DEF BeginApply, SupplyInv, SupplyNeverRunsDry, Exhausted, Wiping, Drafted,
       Refilling
  <2>2. CASE ~IsOver(game)
    <3>1. Sound(work') /\ Full(work') /\ Sound(game')
      BY <1>6, <2>2 DEF BeginApply, SupplyInv, Sound
    <3> QED
      BY <1>6, <2>2, <3>1 DEF BeginApply, SupplyInv, SupplyNeverRunsDry, Exhausted
  <2> QED BY <2>1, <2>2
<1>7. ASSUME pc \in {"three", "wipes", "draft"}
      PROVE  /\ Sound(work) /\ Full(work)
             /\ Incomplete(work) = {} /\ Ledger(work, 0) /\ Out(work) <= Spent(work.turns)
  BY <1>7 DEF SupplyInv, Sound, Full
<1>8. CASE ReplaceThreeOfAKind
  <2>1. CASE Raise("NoThreeOfAKind")
    BY <2>1, RaiseSupply DEF Exhausted
  <2> QED BY <1>8, <2>1, <1>0, <1>7, ReplaceSupply DEF ReplaceThreeOfAKind
<1>9. CASE DeclineThreeOfAKind
  <2>1. Sound(work') /\ Full(work')
    BY <1>7, <1>9 DEF DeclineThreeOfAKind
  <2> QED BY <1>9, <2>1, GotoSupply DEF DeclineThreeOfAKind, Steps
<1>10. ASSUME pc \in {"three", "wipes", "draft"}, Nature # 0
       PROVE  /\ Spend(work) \in GameState /\ Incomplete(Spend(work)) = {}
              /\ Ledger(Spend(work), 0) /\ Out(Spend(work)) <= Spent(Spend(work).turns)
  <2>1. Spend(work) \in GameState
    BY <1>10, <1>0, SpendType DEF Nature, Me
  <2>2. /\ Spend(work).tiles = work.tiles /\ Spend(work).stack = work.stack
        /\ Spend(work).turns = work.turns /\ Spend(work).wildlife = work.wildlife
        /\ Spend(work).placed = work.placed /\ Spend(work).lost = work.lost
    BY <1>0 DEF Spend, GameState
  <2> HIDE DEF Spend
  <2>3. Ledger(Spend(work), 0)
    BY <1>7, <1>10, <2>2, SameLedger
  <2> QED BY <1>7, <1>10, <2>1, <2>2, <2>3 DEF Incomplete, Out
<1>11. CASE PaidWipe
  <2>1. PICK S \in SUBSET Slots :
          IF S = {} THEN Raise("InvalidWipe")
          ELSE IF Nature = 0 THEN Raise("NoNatureTokens")
          ELSE Replace(Spend(work), S, "wipes")
    BY <1>11 DEF PaidWipe
  <2>2. CASE Raise("InvalidWipe") \/ Raise("NoNatureTokens")
    BY <2>2, RaiseSupply DEF Exhausted
  <2>3. CASE Nature # 0 /\ Replace(Spend(work), S, "wipes")
    BY <2>3, <1>10, <1>11, ReplaceSupply DEF PaidWipe
  <2> QED BY <2>1, <2>2, <2>3
<1>12. CASE EndPrelude
  <2>1. Sound(work') /\ Full(work')
    BY <1>7, <1>12 DEF EndPrelude
  <2> QED BY <1>12, <2>1, GotoSupply DEF EndPrelude, Steps
<1>13. ASSUME NEW g \in GameState, NEW t \in Slots, NEW w \in Slots, Take(g, t, w),
              Incomplete(g) = {}, Ledger(g, 0), Out(g) <= Spent(g.turns)
       PROVE  SupplyInv'
  <2>1. \A k \in Slots : g.tiles[k] /\ g.wildlife[k] # None
    BY <1>13 DEF Incomplete
  <2>2. /\ work' = [g EXCEPT !.tiles[t] = FALSE, !.wildlife[w] = None]
        /\ aside' = Picked(g.wildlife, {w}) /\ Goto("place")
    BY <1>13, <2>1 DEF Take
  <2>3. /\ work'.tiles = [g.tiles EXCEPT ![t] = FALSE] /\ work'.stack = g.stack
        /\ work'.wildlife = [g.wildlife EXCEPT ![w] = None]
        /\ work'.turns = g.turns /\ work'.placed = g.placed /\ work'.lost = g.lost
    BY <2>2 DEF GameState
  <2>4. TilesShown(g) = 4 /\ TilesShown(work') = 3
    <3>1. g.tiles \in [Slots -> BOOLEAN] BY DEF GameState
    <3>2. TilesShown(g) = 4
      BY <3>1, <2>1, AllTiles DEF TilesShown
    <3>3. TilesShown(work') = TilesShown(g) - 1
      <4>1. \A m \in [Slots -> BOOLEAN] :
              m[t] => Shown([m EXCEPT ![t] = FALSE], TRUE) = Shown(m, TRUE) - 1
        BY TilesAfterTake
      <4>2. Shown([g.tiles EXCEPT ![t] = FALSE], TRUE) = Shown(g.tiles, TRUE) - 1
        BY <4>1, <3>1, <2>1
      <4> QED BY <4>2, <2>3 DEF TilesShown
    <3> QED BY <3>2, <3>3
  <2>5. Ledger(work', 1)
    BY <1>13, <2>3, <2>4 DEF Ledger, GameState
  <2>6. Gaps(work') # Slots
    <3>1. PICK k \in Slots : k # w OBVIOUS
    <3>2. work'.wildlife[k] # None
      BY <3>1, <2>1, <2>3 DEF GameState
    <3> QED BY <3>2 DEF Gaps
  <2>7. Out(work') + Size(aside') <= Spent(work'.turns) + 1
    <3>1. Size(aside') <= 1
      BY <2>2, PickedOneSize DEF GameState, Market
    <3>2. Out(work') = Out(g) /\ work'.turns = g.turns
      BY <2>3 DEF Out
    <3>3. g.turns \in Nat BY DEF GameState
    <3>4. aside' \in Piles BY DEF TypeOK
    <3>5. Out(g) \in Nat /\ Size(aside') \in Nat /\ Spent(g.turns) \in Nat
      BY <3>3, <3>4, OutType, SizeType, SpentType
    <3> QED BY <3>1, <3>2, <3>5, <1>13
  <2>8. Drafted'
    BY <2>4, <2>5, <2>6, <2>7
    DEF Drafted, Out, Size, Ledger, Spent, TilesShown, Gaps, Shown, Is
  <2> QED BY <2>2, <2>8, GotoSupply DEF Steps
<1>14. CASE DraftPaired
  BY <1>14, <1>0, <1>7, <1>13 DEF DraftPaired
<1>15. CASE DraftIndependent
  <2>1. CASE Raise("NoNatureTokens")
    BY <2>1, RaiseSupply DEF Exhausted
  <2> QED BY <1>15, <2>1, <1>10, <1>13 DEF DraftIndependent
<1>16. ASSUME pc = "place", work'.tiles = work.tiles, work'.stack = work.stack,
              work'.turns = work.turns, work'.wildlife = work.wildlife,
              Out(work') + Size(aside') = Out(work) + Size(aside), Goto("finish")
       PROVE  SupplyInv'
  <2>1. Drafted
    BY <1>16 DEF SupplyInv
  <2>2. Ledger(work', 1) /\ TilesShown(work') = 3 /\ Gaps(work') # Slots
    BY <1>16, <2>1, SameLedger DEF Drafted, Gaps
  <2>3. Drafted'
    BY <1>16, <2>1, <2>2 DEF Drafted, Out, Size, Ledger, Spent, TilesShown, Gaps, Shown, Is
  <2> QED BY <1>16, <2>3, GotoSupply DEF Steps
<1>17. CASE PlaceTileOnly
  <2>1. CASE Raise("TileLimitReached")
    BY <2>1, RaiseSupply DEF Exhausted
  <2>2. CASE work' = WithTile(work) /\ Goto("finish") /\ UNCHANGED aside
    <3>1. /\ work'.tiles = work.tiles /\ work'.stack = work.stack
          /\ work'.turns = work.turns /\ work'.wildlife = work.wildlife
          /\ work'.placed = work.placed /\ work'.lost = work.lost
      BY <2>2, <1>0 DEF WithTile, GameState
    <3> QED BY <1>16, <1>17, <2>2, <3>1 DEF PlaceTileOnly, Out
  <2> QED BY <1>17, <2>1, <2>2 DEF PlaceTileOnly
<1>18. CASE PlaceTileAndWildlife
  <2>1. CASE Raise("TileLimitReached")
    BY <2>1, RaiseSupply DEF Exhausted
  <2>2. CASE /\ \E award \in 0..1 :
                  work' = [WithTile(work) EXCEPT !.boards[Me].nature = @ + award,
                                                 !.placed = Add(@, aside)]
             /\ aside' = NoTokens /\ Goto("finish")
    <3>1. /\ work'.tiles = work.tiles /\ work'.stack = work.stack
          /\ work'.turns = work.turns /\ work'.wildlife = work.wildlife
          /\ work'.placed = Add(work.placed, aside) /\ work'.lost = work.lost
      BY <2>2, <1>0 DEF WithTile, GameState
    <3>2. work.placed \in Piles /\ work.lost \in Piles
      BY <1>0 DEF GameState
    <3>3. Size(work'.placed) = Size(work.placed) + Size(aside)
      BY <3>1, <3>2, <1>0, SizeOfAdd
    <3>4. Size(aside') = 0
      BY <2>2, NoTokensSize
    <3>5. Size(work.placed) \in Nat /\ Size(work.lost) \in Nat /\ Size(aside) \in Nat
      BY <3>2, <1>0, SizeType
    <3>6. Out(work') + Size(aside') = Out(work) + Size(aside)
      BY <3>1, <3>3, <3>4, <3>5 DEF Out
    <3> QED BY <1>16, <1>18, <2>2, <3>1, <3>6 DEF PlaceTileAndWildlife
  <2> QED BY <1>18, <2>1, <2>2 DEF PlaceTileAndWildlife
<1>19. CASE PlacementRejected
  BY <1>19, RaiseSupply DEF PlacementRejected, Exhausted
<1>20. CASE FinishTurn
  <2> DEFINE g == TurnDone(work, aside)
  <2>1. Drafted
    BY <1>20 DEF FinishTurn, SupplyInv
  <2>2. g \in GameState
    <3>1. Add(work.bag, aside) \in Piles /\ work.turns + 1 \in Nat
      BY <1>0, AddType DEF GameState
    <3> QED BY <3>1, <1>0 DEF TurnDone, GameState
  <2>3. /\ g.tiles = work.tiles /\ g.stack = work.stack /\ g.turns = work.turns + 1
        /\ g.wildlife = work.wildlife /\ g.placed = work.placed /\ g.lost = work.lost
    BY <1>0 DEF TurnDone, GameState
  <2> HIDE DEF g
  <2>4. /\ Out(g) = Out(work) /\ TilesShown(g) = 3 /\ Gaps(g) # Slots
        /\ Out(g) \in Nat /\ g.stack \in Nat
    BY <2>1, <2>2, <2>3, OutType DEF Drafted, Out, TilesShown, Gaps, GameState
  <2>5. /\ Spent(work.turns) \in Nat /\ Spent(g.turns) \in Nat
        /\ Spent(g.turns) = Spent(work.turns) + (IF Solo THEN 2 ELSE 1)
    BY <1>0, <2>3, SpentType
  <2>6. Out(g) <= Spent(work.turns) + 1
    <3>1. Size(aside) \in Nat BY <1>0, SizeType
    <3> QED BY <2>1, <2>4, <2>5, <3>1 DEF Drafted
  <2>7. g.stack + 3 + 1 = TileStackSize - Spent(work.turns)
    BY <2>1, <2>3, <2>4 DEF Drafted, Ledger
  <2>8. CASE IsOver(g)
    <3>1. EndTurn(g, "advance")
      BY <1>20, <2>8 DEF FinishTurn, g
    <3>2. Sound(g)
      BY <2>4, <2>5, <2>6, <2>8 DEF Sound
    <3> QED BY <3>1, <3>2, GotoSupply DEF EndTurn, Steps
  <2>9. ~IsOver(g) => g.turns < TotalTurns
    BY <2>1, <2>3, <1>0, TotalTurnsType DEF Drafted, Ledger, IsOver
  <2>10. CASE ~IsOver(g) /\ ~Solo
    <3>1. EndTurn(g, "refill")
      BY <1>20, <2>10 DEF FinishTurn, StartRefill, g
    <3>2. Ledger(g, 0)
      BY <2>4, <2>5, <2>7, <2>9, <2>10, TileStackType DEF Ledger
    <3>3. Out(g) <= Spent(g.turns)
      BY <2>5, <2>6, <2>10
    <3>4. Refilling'
      BY <3>1, <3>2, <3>3 DEF EndTurn, Refilling, Ledger, Out, Spent, Size, TilesShown,
         Shown, Is
    <3> QED BY <3>1, <3>4, GotoSupply DEF EndTurn, Steps
  <2>11. CASE ~IsOver(g) /\ Solo
    <3> DEFINE h == SoloDiscard(g)
    <3>1. EndTurn(h, "refill")
      BY <1>20, <2>4, <2>11 DEF FinishTurn, StartRefill, g
    <3>2. /\ TilesShown(h) = 2 /\ h.stack = g.stack /\ h.turns = g.turns
          /\ Out(h) <= Out(g) + 1 /\ h \in GameState
      BY <2>2, <2>4, SoloDiscardSpends, SoloDiscardType
    <3> HIDE DEF h
    <3>3. Out(h) \in Nat
      BY <3>2, OutType
    <3>4. Ledger(h, 0)
      BY <2>4, <2>5, <2>7, <2>9, <2>11, <3>2, TileStackType DEF Ledger
    <3>5. Out(h) <= Spent(h.turns)
      BY <2>4, <2>5, <2>6, <2>11, <3>2, <3>3
    <3>6. Refilling'
      BY <3>1, <3>4, <3>5 DEF EndTurn, Refilling, Ledger, Out, Spent, Size, TilesShown,
         Shown, Is
    <3> QED BY <3>1, <3>6, GotoSupply DEF EndTurn, Steps
  <2> QED BY <2>8, <2>10, <2>11
<1>21. CASE RefillSlot
  <2> DEFINE k == Lowest(Incomplete(work))
             g == IF work.tiles[k] THEN work
                  ELSE [work EXCEPT !.tiles[k] = TRUE, !.stack = @ - 1]
  <2>1. Refilling /\ aside = NoTokens
    BY <1>21 DEF RefillSlot, SupplyInv, ConservationInv, HandEmpty
  <2>2. k \in Slots
    BY <1>21, FirstInSet DEF RefillSlot, Incomplete
  <2>3. work.tiles[k] \/ work.stack # 0
    BY <1>0, <2>1, <2>2, StackNotEmpty DEF Refilling
  <2>4. /\ g \in GameState /\ g.bag = work.bag /\ g.wildlife = work.wildlife
        /\ g.placed = work.placed /\ g.lost = work.lost /\ g.turns = work.turns
        /\ g.stack + TilesShown(g) = work.stack + TilesShown(work)
    <3> HIDE DEF k
    <3>1. CASE work.tiles[k]
      BY <3>1, <1>0
    <3>2. CASE ~work.tiles[k]
      <4>1. work.stack - 1 \in Nat /\ work.stack \in Nat
        BY <2>3, <3>2, <1>0 DEF GameState
      <4>2. [work.tiles EXCEPT ![k] = TRUE] \in [Slots -> BOOLEAN]
        BY <2>2, <1>0
      <4>3. g \in GameState
        BY <3>2, <4>1, <4>2, <1>0 DEF GameState
      <4>4. /\ g.tiles = [work.tiles EXCEPT ![k] = TRUE] /\ g.stack = work.stack - 1
            /\ g.bag = work.bag /\ g.wildlife = work.wildlife
            /\ g.placed = work.placed /\ g.lost = work.lost /\ g.turns = work.turns
        BY <3>2, <1>0 DEF GameState
      <4> HIDE DEF g
      <4>5. TilesShown(g) = TilesShown(work) + 1 /\ TilesShown(work) \in 0..3
        <5>1. \A m \in [Slots -> BOOLEAN] :
                ~m[k] => /\ Shown([m EXCEPT ![k] = TRUE], TRUE) = Shown(m, TRUE) + 1
                         /\ Shown(m, TRUE) \in 0..3
          BY <2>2, TilesAfterDeal
        <5>2. /\ Shown([work.tiles EXCEPT ![k] = TRUE], TRUE) = Shown(work.tiles, TRUE) + 1
              /\ Shown(work.tiles, TRUE) \in 0..3
          BY <5>1, <3>2, <1>0
        <5> QED BY <5>2, <4>4 DEF TilesShown
      <4> QED BY <4>1, <4>3, <4>4, <4>5
    <3> QED BY <3>1, <3>2
  <2>5. Ledger(g, 0) /\ Out(g) <= Spent(g.turns)
    <3>1. TilesShown(work) + 0 = TilesShown(work) /\ TilesShown(g) + 0 = TilesShown(g)
      <4>1. g.tiles \in [Slots -> BOOLEAN] BY <2>4 DEF GameState
      <4> HIDE DEF g
      <4>2. TilesShown(work) \in Int /\ TilesShown(g) \in Int
        BY <4>1, <1>0 DEF TilesShown, Shown, Is
      <4> QED BY <4>2
    <3>2. work.stack \in Nat /\ g.stack \in Nat
      BY <2>4, <1>0 DEF GameState
    <3> HIDE DEF g, k
    <3>3. TilesShown(work) \in Int /\ TilesShown(g) \in Int
      <4>1. g.tiles \in [Slots -> BOOLEAN] BY <2>4 DEF GameState
      <4> QED BY <4>1, <1>0 DEF TilesShown, Shown, Is
    <3> QED BY <2>1, <2>4, <3>2, <3>3 DEF Refilling, Ledger, Out
  <2> HIDE DEF g
  <2>6. g.wildlife[k] # None \/ Size(g.bag) # 0
    <3>1. Conserved(g, NoTokens) /\ Size(NoTokens) <= 4
      BY <1>0, <2>1, <2>4, NoTokensSize DEF Conserved, Accounted
    <3> QED BY <2>2, <2>4, <2>5, <3>1, NoTokensType, BagNotEmpty DEF Ledger
  <2>7. /\ \/ work' = g
           \/ \E s \in Wildlife : work' = Draw(g, k, s)
        /\ UNCHANGED <<game, aside, op, pc, ret, wipes, result>>
    BY <1>21, <2>3, <2>6 DEF RefillSlot, g
  <2> HIDE DEF k
  <2>8. /\ work'.tiles = g.tiles /\ work'.stack = g.stack /\ work'.turns = g.turns
        /\ work'.placed = g.placed /\ work'.lost = g.lost
    BY <2>4, <2>7 DEF Draw, GameState
  <2>9. Ledger(work', 0) /\ Out(work') <= Spent(work'.turns)
    BY <2>5, <2>8, SameLedger DEF Out
  <2> QED
    BY <1>21, <2>7, <2>9 DEF RefillSlot, SupplyInv, SupplyNeverRunsDry, Refilling, Ledger,
       TilesShown, Out, Spent, Size, Sound, Full, IsOver, Incomplete, Shown, Is
<1>22. CASE RefillDone
  <2>1. Incomplete(work) = {} /\ Ledger(work, 0) /\ Out(work) <= Spent(work.turns)
    BY <1>22 DEF RefillDone, SupplyInv, Refilling
  <2>2. CASE Replace(work, Slots, "advance")
    BY <2>1, <2>2, <1>0, ReplaceSupply
  <2>3. CASE Goto("advance") /\ UNCHANGED <<work, aside>>
    <3>1. Sound(work') BY <2>1, <2>3 DEF Sound, Full
    <3> QED BY <2>3, <3>1, GotoSupply DEF Steps
  <2> QED BY <1>22, <2>2, <2>3 DEF RefillDone, ResolveOverpopulation
<1>23. CASE AdvancePlayer
  <2>1. /\ work'.tiles = work.tiles /\ work'.stack = work.stack
        /\ work'.turns = work.turns /\ work'.wildlife = work.wildlife
        /\ work'.placed = work.placed /\ work'.lost = work.lost
    BY <1>23, <1>0 DEF AdvancePlayer, GameState
  <2>2. Sound(work)
    BY <1>23 DEF AdvancePlayer, SupplyInv
  <2>3. Sound(work')
    <3>1. Ledger(work', 0) <=> Ledger(work, 0) BY <2>1, SameLedger
    <3> QED BY <2>1, <2>2, <3>1 DEF Sound, Full, Out, IsOver, Incomplete
  <2> QED BY <1>23, <2>3, GotoSupply DEF AdvancePlayer, Steps
<1>24. CASE Commit
  <2>1. CASE Raise("Invariant")
    BY <2>1, RaiseSupply DEF Exhausted
  <2>2. CASE game' = work /\ work' = work /\ pc' = "idle" /\ result' = "ok"
    <3>1. Sound(work') /\ Sound(game')
      BY <1>24, <2>2 DEF Commit, SupplyInv
    <3> QED BY <2>2, <3>1 DEF SupplyInv, SupplyNeverRunsDry, Exhausted
  <2> QED BY <1>24, <2>1, <2>2 DEF Commit
<1>25. CASE UNCHANGED vars
  BY <1>25 DEF vars, SupplyInv, SupplyNeverRunsDry, Wiping, Drafted, Refilling
<1> QED
  BY <1>1, <1>2, <1>4, <1>5, <1>6, <1>8, <1>9, <1>11, <1>12, <1>14, <1>15, <1>17, <1>18,
     <1>19, <1>20, <1>21, <1>22, <1>23, <1>24, <1>25 DEF Next, Step

\* The bag and the stack are never empty when the engine draws, and a drafted
\* market slot is never empty, whatever the players do and the shuffles give.
THEOREM SuppliesSuffice == Spec => []SupplyNeverRunsDry
<1>1. SupplyInv => SupplyNeverRunsDry
  BY DEF SupplyInv
<1> QED
  BY <1>1, InitTypeOK, NextTypeOK, InitConserves, NextConserves, InitSupply, NextSupply,
     PTL DEF Spec

-----------------------------------------------------------------------------
(* Four of a kind.                                                          *)

LEMMA FourCanResolve ==
  TypeOK /\ ConservationInv /\ SupplyInv => WipeCanResolve
<1> SUFFICES ASSUME TypeOK, ConservationInv, SupplyInv, NEW s \in Wildlife,
                    pc = "settle", Shown(work.wildlife, s) = 4
             PROVE  \E t \in Wildlife \ {s} : work.bag[t] > 0
  BY DEF WipeCanResolve
<1>1. /\ work \in GameState /\ work.bag \in Piles /\ work.wildlife \in Market
      /\ work.placed \in Piles /\ work.lost \in Piles /\ work.turns \in Nat
  BY DEF TypeOK, GameState, Market
<1>2. Conserved(work, NoTokens) /\ Wiping
  BY DEF ConservationInv, HandEmpty, SupplyInv
<1>3. Size(work.bag) + Size(Tokens(work.wildlife)) + Out(work) = Size(Supply)
  <2>1. Size(work.bag) + Size(Tokens(work.wildlife)) + Out(work) + 0 = Size(Supply)
    BY <1>1, <1>2, NoTokensType, NoTokensSize, ConservedSize
  <2>2. Out(work) \in Nat /\ Size(work.bag) \in Nat /\ Size(Tokens(work.wildlife)) \in Nat
    BY <1>1, OutType, SizeType, TokensSize
  <2> QED BY <2>1, <2>2
<1>4. Out(work) <= MostOut /\ Out(work) \in Nat /\ MostOut \in Nat
  <2>1. Spent(work.turns) <= MostOut /\ MostOut \in Nat
    BY <1>1, <1>2, BoxIsLargeEnough DEF Wiping, Ledger
  <2>2. Spent(work.turns) \in Nat /\ Out(work) \in Nat
    BY <1>1, SpentType, OutType
  <2> QED BY <2>1, <2>2, <1>2 DEF Wiping
<1>5. work.bag[s] + 4 <= Supply[s]
  <2>1. Accounted(work, NoTokens, s)
    BY <1>2 DEF Conserved
  <2> QED BY <1>1, <2>1, ParameterAssumption DEF Accounted, NoTokens
<1>6. Size(Tokens(work.wildlife)) \in 0..4
  BY <1>1, TokensSize
<1>7. Supply[s] < Size(Supply) - MostOut /\ Supply[s] \in Nat /\ Size(Supply) \in Nat
  BY SupplyAssumption, ParameterAssumption, SizeType
<1>8. work.bag[s] < Size(work.bag)
  <2>1. work.bag[s] \in Nat /\ Size(work.bag) \in Nat
    BY <1>1, SizeType
  <2> QED BY <2>1, <1>3, <1>4, <1>5, <1>6, <1>7
<1>9. ASSUME \A t \in Wildlife \ {s} : work.bag[t] = 0 PROVE FALSE
  <2>1. Size(work.bag) = work.bag[s]
    BY <1>1, <1>9 DEF Size, Wildlife
  <2> QED BY <2>1, <1>8, <1>1
<1> QED
  BY <1>9, <1>1

\* Whenever the market shows four of a kind the bag holds another species, so a
\* replacement that draws at random cannot be stuck.
THEOREM OverpopulationResolvable == Spec => []WipeCanResolve
BY FourCanResolve, InitTypeOK, NextTypeOK, InitConserves, NextConserves, InitSupply,
   NextSupply, PTL DEF Spec

-----------------------------------------------------------------------------
(* What validate demands holds when it is asked: the engine's own errors.   *)

\* Every habitat tile dealt for this game is in the stack, shown, discarded, on
\* a board, or (n = 1) in hand.
OnBoards(g) == SumFunction(BoardTiles(g))
TilesHeld(g, n) == g.stack + g.lostTiles + TilesShown(g) + OnBoards(g) + n = TileStackSize

InHand == IF pc = "place" THEN 1 ELSE 0

ValidInv ==
  /\ TilesHeld(game, 0)
  /\ TilesHeld(work, InHand)
  /\ pc \in {"place", "finish"} => Gaps(work) # {}
  /\ pc \in {"advance", "validate"} => ~FourOfAKind(work.wildlife)
  /\ NoEngineErrors

LEMMA SeatsFinite == IsFiniteSet(Seats)
<1>1. 0 \in Int /\ Players - 1 \in Int
  BY ParameterAssumption
<1> QED BY <1>1, FS_Interval DEF Seats

LEMMA BoardTilesType ==
  ASSUME NEW g \in GameState
  PROVE  BoardTiles(g) \in [Seats -> Int]
BY DEF BoardTiles, GameState, Board, StarterTiles

LEMMA OnBoardsType ==
  ASSUME NEW g \in GameState PROVE OnBoards(g) \in Int
<1>1. PICK it \in [SUBSET Seats -> Int] : SumFunction(BoardTiles(g)) = it[Seats]
  BY SeatsFinite, BoardTilesType, SumUnfolds
<1> QED BY <1>1 DEF OnBoards

\* The fields the count of tiles reads.
SameTiles(g, h) ==
  /\ h.tiles = g.tiles /\ h.stack = g.stack /\ h.lostTiles = g.lostTiles
  /\ \A q \in Seats : h.boards[q].tiles = g.boards[q].tiles

LEMMA SameTilesHeld ==
  ASSUME NEW g, NEW h, NEW n, SameTiles(g, h) PROVE TilesHeld(h, n) <=> TilesHeld(g, n)
<1>1. BoardTiles(h) = BoardTiles(g)
  BY DEF BoardTiles, SameTiles
<1> QED BY <1>1 DEF TilesHeld, OnBoards, TilesShown, SameTiles

LEMMA TilePlaced ==
  ASSUME NEW g \in GameState, NEW h \in GameState, NEW p \in Seats,
         h.boards[p].tiles = g.boards[p].tiles + 1,
         \A q \in Seats \ {p} : h.boards[q].tiles = g.boards[q].tiles
  PROVE  OnBoards(h) = OnBoards(g) + 1
<1> DEFINE f == BoardTiles(g) k == BoardTiles(h)
<1>1. f \in [Seats -> Int] /\ k \in [Seats -> Int]
  BY BoardTilesType
<1>2. k[p] = f[p] + 1 /\ \A q \in Seats \ {p} : k[q] = f[q]
  BY DEF BoardTiles, GameState, Board, StarterTiles
<1> HIDE DEF f, k
<1>3. SumFunction(k) = SumFunction(f) + 1
  BY <1>1, <1>2, SeatsFinite, SumOfOneMore
<1> QED BY <1>3 DEF f, k, OnBoards

LEMMA NothingPlaced ==
  ASSUME NEW g, \A q \in Seats : g.boards[q].tiles = StarterTiles PROVE OnBoards(g) = 0
<1> DEFINE f == BoardTiles(g)
<1>1. f \in [Seats -> Int] /\ \A q \in Seats : f[q] = 0
  BY DEF BoardTiles, StarterTiles
<1> HIDE DEF f
<1>2. SumFunction(f) = 0
  BY <1>1, SeatsFinite, SumOfZeros
<1> QED BY <1>2 DEF f, OnBoards

LEMMA GapBreaksFour ==
  ASSUME NEW m \in Market, NEW k \in Slots, m[k] = None PROVE ~FourOfAKind(m)
<1> SUFFICES ASSUME NEW s \in Wildlife, Shown(m, s) = 4 PROVE FALSE
  BY DEF FourOfAKind
<1>1. \A j \in Slots : Is(m, j, s) \in 0..1
  BY DEF Is
<1>2. Is(m, k, s) = 0
  BY DEF Is, Wildlife
<1> QED BY <1>1, <1>2 DEF Shown

LEMMA InitValid == Init => ValidInv
<1> SUFFICES ASSUME Init PROVE ValidInv
  OBVIOUS
<1>1. PICK m \in [Slots -> Wildlife] : work = Dealt(m)
  BY DEF Init
<1>2. /\ \A k \in Slots : work.tiles[k]
      /\ work.tiles \in [Slots -> BOOLEAN]
      /\ work.stack = TileStackSize - 4 /\ work.lostTiles = 0
      /\ \A q \in Seats : work.boards[q].tiles = StarterTiles
  BY <1>1 DEF Dealt
<1>3. TilesShown(work) = 4
  BY <1>2, AllTiles DEF TilesShown
<1>4. OnBoards(work) = 0
  BY <1>2, NothingPlaced
<1>5. TilesHeld(work, 0)
  BY <1>2, <1>3, <1>4, TileStackType DEF TilesHeld
<1> QED BY <1>5 DEF Init, ValidInv, InHand, NoEngineErrors, EngineErrors, Exhausted

LEMMA RaiseValid ==
  ASSUME ValidInv, SupplyInv', NEW e, e \notin {"TileLimitReached", "Invariant"}, Raise(e)
  PROVE  ValidInv'
<1>1. game' = game /\ work' = game /\ pc' \in {"failed", "idle"} /\ result' = e
  BY DEF Raise
<1>2. e \notin Exhausted
  BY <1>1 DEF SupplyInv, SupplyNeverRunsDry
<1>3. TilesHeld(game', 0) /\ TilesHeld(work', InHand')
  BY <1>1 DEF ValidInv, InHand
<1> QED
  BY <1>1, <1>2, <1>3 DEF ValidInv, NoEngineErrors, EngineErrors

\* A step that moves no tile.
LEMMA StillValid ==
  ASSUME ValidInv, UNCHANGED <<game, result>>, SameTiles(work, work'),
         pc = "place" <=> pc' = "place",
         pc' \in {"place", "finish"} => Gaps(work') # {},
         pc' \in {"advance", "validate"} => ~FourOfAKind(work'.wildlife)
  PROVE  ValidInv'
<1>1. TilesHeld(work, InHand) /\ InHand' = InHand /\ TilesHeld(game, 0)
  BY DEF ValidInv, InHand
<1>2. TilesHeld(work', InHand)
  BY <1>1, SameTilesHeld
<1>3. TilesHeld(work', InHand') /\ TilesHeld(game', 0)
  BY <1>1, <1>2
<1> QED BY <1>3 DEF ValidInv, NoEngineErrors

\* A step that moves tiles between the places TilesHeld counts.
LEMMA TilesMove ==
  ASSUME ValidInv, UNCHANGED <<game, result>>,
         work' \in GameState, TilesHeld(work', IF pc' = "place" THEN 1 ELSE 0),
         pc' \in {"place", "finish"} => Gaps(work') # {},
         pc' \in {"advance", "validate"} => ~FourOfAKind(work'.wildlife)
  PROVE  ValidInv'
<1>1. TilesHeld(work', InHand') /\ TilesHeld(game', 0)
  BY DEF ValidInv, InHand
<1> QED BY <1>1 DEF ValidInv, NoEngineErrors

-----------------------------------------------------------------------------
(* The steps.                                                               *)

LEMMA ReplaceValid ==
  ASSUME TypeOK, TypeOK', TurnInv, ValidInv, SupplyInv',
         FillEmptyWildlife \/ ReturnSetAside \/ AutomaticWipe \/ Settled
  PROVE  ValidInv'
<1>0. work \in GameState
  BY DEF TypeOK
<1>1. CASE Raise("WildlifeBagEmpty") \/ Raise(Unsettled)
  BY <1>1, RaiseValid DEF Unsettled
<1>2. CASE Settled
  <2>1. UNCHANGED <<game, work, result>> /\ pc = "settle" /\ pc' \in {"idle", "wipes", "advance"}
        /\ ~FourOfAKind(work.wildlife)
    BY <1>2 DEF Settled, Goto, TypeOK
  <2>2. SameTiles(work, work') /\ ~FourOfAKind(work'.wildlife)
    BY <2>1 DEF SameTiles
  <2> QED BY <2>1, <2>2, StillValid
<1>3. CASE ~Raise("WildlifeBagEmpty") /\ ~Raise(Unsettled) /\ ~Settled
  <2>1. /\ pc \in {"fill", "settle"} /\ pc' \in {"fill", "settle"}
        /\ UNCHANGED <<game, result>>
        /\ work'.boards = work.boards /\ work'.tiles = work.tiles
        /\ work'.stack = work.stack /\ work'.lostTiles = work.lostTiles
    BY <1>0, <1>3 DEF FillEmptyWildlife, ReturnSetAside, AutomaticWipe, Draw, GameState
  <2>2. SameTiles(work, work')
    BY <2>1 DEF SameTiles
  <2> QED BY <2>1, <2>2, StillValid
<1> QED BY <1>1, <1>2, <1>3

LEMMA SpendKeepsTiles ==
  ASSUME NEW g \in GameState PROVE SameTiles(g, Spend(g))
<1>1. /\ Spend(g).tiles = g.tiles /\ Spend(g).stack = g.stack
      /\ Spend(g).lostTiles = g.lostTiles
  BY DEF Spend, GameState
<1>2. ASSUME NEW q \in Seats PROVE Spend(g).boards[q].tiles = g.boards[q].tiles
  BY SpendBoards
<1> QED BY <1>1, <1>2 DEF SameTiles

LEMMA PreludeValid ==
  ASSUME TypeOK, TypeOK', ValidInv, SupplyInv',
         ReplaceThreeOfAKind \/ DeclineThreeOfAKind \/ PaidWipe \/ EndPrelude
  PROVE  ValidInv'
<1>0. work \in GameState /\ pc \in {"three", "wipes"}
  BY DEF TypeOK, ReplaceThreeOfAKind, DeclineThreeOfAKind, PaidWipe, EndPrelude
<1>1. CASE DeclineThreeOfAKind \/ EndPrelude
  <2>1. UNCHANGED <<game, work, result>> /\ pc' \in {"wipes", "draft"}
    BY <1>1 DEF DeclineThreeOfAKind, EndPrelude, Goto
  <2>2. SameTiles(work, work')
    BY <2>1 DEF SameTiles
  <2> QED BY <1>0, <2>1, <2>2, StillValid
<1>2. ASSUME NEW g \in {work, Spend(work)}, NEW S, Replace(g, S, "wipes") PROVE ValidInv'
  <2>1. /\ pc' = "fill" /\ UNCHANGED <<game, result>>
        /\ work'.boards = g.boards /\ work'.tiles = g.tiles
        /\ work'.stack = g.stack /\ work'.lostTiles = g.lostTiles
    BY <1>0, <1>2 DEF Replace, Spend, GameState
  <2>2. SameTiles(work, g)
    <3>1. SameTiles(work, work)
      BY DEF SameTiles
    <3> QED BY <1>0, <3>1, SpendKeepsTiles
  <2>3. SameTiles(work, work')
    BY <2>1, <2>2 DEF SameTiles
  <2> QED BY <1>0, <2>1, <2>3, StillValid
<1>3. CASE ReplaceThreeOfAKind
  <2>1. CASE Raise("NoThreeOfAKind")
    BY <2>1, RaiseValid
  <2> QED BY <1>2, <1>3, <2>1 DEF ReplaceThreeOfAKind
<1>4. CASE PaidWipe
  <2>1. CASE Raise("InvalidWipe") \/ Raise("NoNatureTokens")
    BY <2>1, RaiseValid
  <2> QED BY <1>2, <1>4, <2>1 DEF PaidWipe
<1> QED BY <1>1, <1>3, <1>4

LEMMA TakeValid ==
  ASSUME TypeOK, TypeOK', ValidInv, SupplyInv', pc = "draft",
         NEW g \in {work, Spend(work)}, NEW t \in Slots, NEW w \in Slots, Take(g, t, w)
  PROVE  ValidInv'
<1>0. work \in GameState /\ work' \in GameState
  BY DEF TypeOK
<1>1. CASE Raise("UnavailableMarketSlot")
  BY <1>1, RaiseValid
<1>2. CASE ~Raise("UnavailableMarketSlot")
  <2>1. /\ g.tiles[t] /\ work' = [g EXCEPT !.tiles[t] = FALSE, !.wildlife[w] = None]
        /\ pc' = "place" /\ UNCHANGED <<game, result>>
    BY <1>2 DEF Take, Goto
  <2>2. SameTiles(work, g)
    <3>1. SameTiles(work, work)
      BY DEF SameTiles
    <3> QED BY <1>0, <3>1, SpendKeepsTiles
  <2>3. /\ g.tiles \in [Slots -> BOOLEAN] /\ g.wildlife \in Market
        /\ g.boards = work.boards \/ g = Spend(work)
    BY <1>0 DEF Spend, GameState, Market
  <2>4. /\ work'.tiles = [g.tiles EXCEPT ![t] = FALSE]
        /\ work'.wildlife = [g.wildlife EXCEPT ![w] = None]
        /\ work'.stack = g.stack /\ work'.lostTiles = g.lostTiles /\ work'.boards = g.boards
    BY <1>0, <2>1 DEF Spend, GameState
  <2>5. BoardTiles(work') = BoardTiles(work)
    BY <2>2, <2>4 DEF SameTiles, BoardTiles
  <2>6. TilesShown(work') = TilesShown(work) - 1 /\ TilesShown(work) \in 0..4
    <3>1. g.tiles = work.tiles
      BY <2>2 DEF SameTiles
    <3>2. \A m \in [Slots -> BOOLEAN] : m[t] => /\ Shown(m, TRUE) \in 0..4
                         /\ Shown([m EXCEPT ![t] = FALSE], TRUE) = Shown(m, TRUE) - 1
      BY TilesAfterTake
    <3>3. /\ Shown(g.tiles, TRUE) \in 0..4
          /\ Shown([g.tiles EXCEPT ![t] = FALSE], TRUE) = Shown(g.tiles, TRUE) - 1
      BY <2>1, <2>3, <3>2
    <3> QED BY <2>4, <3>1, <3>3 DEF TilesShown
  <2>7. TilesHeld(work, 0)
    BY DEF ValidInv, InHand
  <2>8. TilesHeld(work', 1)
    <3>1. /\ work.stack \in Nat /\ work.lostTiles \in Nat /\ OnBoards(work) \in Int
          /\ work'.stack = work.stack /\ work'.lostTiles = work.lostTiles
          /\ OnBoards(work') = OnBoards(work)
      BY <1>0, <2>2, <2>4, <2>5, OnBoardsType DEF SameTiles, OnBoards, GameState
    <3> QED BY <2>6, <2>7, <3>1 DEF TilesHeld
  <2>9. Gaps(work') # {}
    BY <2>3, <2>4 DEF Gaps, Market
  <2> QED BY <1>0, <2>1, <2>8, <2>9, TilesMove
<1> QED BY <1>1, <1>2

LEMMA DraftValid ==
  ASSUME TypeOK, TypeOK', ValidInv, SupplyInv', DraftPaired \/ DraftIndependent
  PROVE  ValidInv'
<1>1. CASE Raise("NoNatureTokens")
  BY <1>1, RaiseValid
<1> QED BY <1>1, TakeValid DEF DraftPaired, DraftIndependent

\* A seat that is to move has turns left.
LEMMA RoomForATile ==
  ASSUME TurnInv, SupplyInv, pc = "place"
  PROVE  work.boards[Me].tiles # MaxBoardTiles
<1>1. /\ work.player = game.player /\ work.turns = game.turns /\ game.player \in Seats
      /\ work.boards[game.player].tiles = game.boards[game.player].tiles + 0
      /\ game.turns \in Nat
  BY Boards DEF TurnInv, InTurn, Passed, Placed, Counted, Replenishing, Replacing, One
<1>2. game.turns < TotalTurns
  BY <1>1 DEF SupplyInv, Drafted, Ledger
<1>3. /\ game.player = game.turns % Players
      /\ game.boards[game.player].tiles = StarterTiles + Taken(game.turns, game.player)
  BY <1>1 DEF TurnInv, SeatLedger
<1> DEFINE d == game.turns \div Players m == game.turns % Players
<1>4. d \in Nat /\ m \in 0..(Players - 1) /\ game.turns = Players * d + m
  BY <1>1, ParameterAssumption, DivMod
<1>5. Taken(game.turns, game.player) = d
  BY <1>3, <1>4, ParameterAssumption DEF Taken
<1> HIDE DEF d, m
<1>6. d < TurnsPerPlayer
  <2> SUFFICES ASSUME d >= TurnsPerPlayer PROVE FALSE
    BY <1>4, ParameterAssumption
  <2>1. PICK e \in Nat : d = TurnsPerPlayer + e
    <3>1. d - TurnsPerPlayer \in Nat /\ d = TurnsPerPlayer + (d - TurnsPerPlayer)
      BY <1>4, ParameterAssumption
    <3> QED BY <3>1
  <2>2. Players * d = Players * TurnsPerPlayer + Players * e
    BY <2>1, ParameterAssumption
  <2>3. Players * e \in Nat /\ Players * TurnsPerPlayer \in Nat
        /\ TotalTurns = Players * TurnsPerPlayer
    BY ParameterAssumption DEF TotalTurns
  <2> DEFINE x == Players * e y == Players * TurnsPerPlayer z == Players * d
  <2>4. x \in Nat /\ y \in Nat /\ z = y + x /\ game.turns = z + m /\ TotalTurns = y
    BY <1>4, <2>2, <2>3
  <2> HIDE DEF x, y, z
  <2> QED BY <1>2, <1>4, <2>4, ParameterAssumption
<1>7. work.boards[Me].tiles = StarterTiles + d
  BY <1>1, <1>3, <1>4, <1>5 DEF Me, StarterTiles
<1> QED BY <1>4, <1>6, <1>7, ParameterAssumption DEF MaxBoardTiles, StarterTiles

LEMMA PlaceValid ==
  ASSUME TypeOK, TypeOK', TurnInv, ValidInv, SupplyInv, SupplyInv',
         PlaceTileOnly \/ PlaceTileAndWildlife \/ PlacementRejected
  PROVE  ValidInv'
<1>0. work \in GameState /\ work' \in GameState /\ pc = "place" /\ Me \in Seats
  BY DEF TypeOK, GameState, Me, PlaceTileOnly, PlaceTileAndWildlife, PlacementRejected
<1>1. CASE Raise("Board")
  BY <1>1, RaiseValid
<1>2. CASE PlaceTileOnly \/ PlaceTileAndWildlife
  <2>0. work.boards[Me].tiles # MaxBoardTiles
    BY <1>0, RoomForATile
  <2>1. /\ pc' = "finish" /\ UNCHANGED <<game, result>>
        /\ \/ work' = WithTile(work)
           \/ \E award \in 0..1 :
                work' = [WithTile(work) EXCEPT !.boards[Me].nature = @ + award,
                                               !.placed = Add(@, aside)]
    BY <1>2, <2>0 DEF PlaceTileOnly, PlaceTileAndWildlife, Goto
  <2>2. /\ work'.tiles = work.tiles /\ work'.stack = work.stack
        /\ work'.lostTiles = work.lostTiles /\ work'.wildlife = work.wildlife
    BY <1>0, <2>1 DEF WithTile, GameState
  <2>3. /\ work'.boards[Me].tiles = work.boards[Me].tiles + 1
        /\ \A q \in Seats \ {Me} : work'.boards[q].tiles = work.boards[q].tiles
    <3>1. /\ WithTile(work) \in GameState
          /\ WithTile(work).boards[Me].tiles = work.boards[Me].tiles + 1
          /\ \A q \in Seats \ {Me} : WithTile(work).boards[q] = work.boards[q]
      <4>1. WithTile(work) \in GameState
        BY <1>0, <2>0, WithTileType DEF Me
      <4>2. /\ WithTile(work).boards[Me].tiles = work.boards[Me].tiles + 1
            /\ \A q \in Seats \ {Me} : WithTile(work).boards[q] = work.boards[q]
        BY <1>0 DEF WithTile, GameState, Board, Me
      <4> QED BY <4>1, <4>2
    <3>2. ASSUME NEW award \in 0..1,
                 work' = [WithTile(work) EXCEPT !.boards[Me].nature = @ + award,
                                                !.placed = Add(@, aside)]
          PROVE  /\ work'.boards[Me].tiles = WithTile(work).boards[Me].tiles
                 /\ \A q \in Seats \ {Me} : work'.boards[q] = WithTile(work).boards[q]
      <4>1. [WithTile(work) EXCEPT !.boards[Me].nature = @ + award, !.placed = Add(@, aside)]
              = [WithTile(work) EXCEPT !.boards[Me].nature = @ + award,
                                       !.placed = Add(WithTile(work).placed, aside)]
        OBVIOUS
      <4> QED BY <1>0, <3>1, <3>2, <4>1, AwardBoards
    <3> QED BY <2>1, <3>1, <3>2
  <2>4. OnBoards(work') = OnBoards(work) + 1
    BY <1>0, <2>3, TilePlaced
  <2>5. TilesHeld(work, 1)
    BY <1>0 DEF ValidInv, InHand
  <2>6. TilesHeld(work', 0)
    <3>1. /\ work.stack \in Nat /\ work.lostTiles \in Nat /\ OnBoards(work) \in Int
          /\ TilesShown(work') = TilesShown(work)
      BY <1>0, <2>2, OnBoardsType DEF GameState, TilesShown
    <3>2. TilesShown(work) \in Int
      BY DEF TilesShown, Shown, Is
    <3> QED BY <2>2, <2>4, <2>5, <3>1, <3>2 DEF TilesHeld
  <2>7. Gaps(work') # {}
    BY <1>0, <2>2 DEF ValidInv, Gaps
  <2> QED BY <1>0, <2>1, <2>6, <2>7, TilesMove
<1> QED BY <1>1, <1>2 DEF PlacementRejected

\* The turn is counted; solo discards the pair nearest the draw stack.
LEMMA FinishValid ==
  ASSUME TypeOK, TypeOK', ValidInv, SupplyInv, SupplyInv', FinishTurn
  PROVE  ValidInv'
<1>0. /\ work \in GameState /\ work' \in GameState /\ pc = "finish" /\ aside \in Piles
      /\ Gaps(work) # Slots /\ TilesShown(work) = 3 /\ Gaps(work) # {}
      /\ TilesHeld(work, 0)
  BY DEF TypeOK, FinishTurn, SupplyInv, Drafted, ValidInv, InHand
<1>1. CASE Raise("TileStackEmpty") \/ Raise("WildlifeBagEmpty")
  BY <1>1, RaiseValid
<1> DEFINE g == TurnDone(work, aside)
<1>2. g \in GameState
  <2>1. Add(work.bag, aside) \in Piles /\ work.turns + 1 \in Nat
    BY <1>0, AddType DEF GameState
  <2> QED BY <1>0, <2>1 DEF TurnDone, GameState
<1>3. SameTiles(work, g) /\ g.wildlife = work.wildlife
  BY <1>0 DEF TurnDone, SameTiles, GameState
<1>4. TilesHeld(g, 0)
  BY <1>0, <1>3, SameTilesHeld
<1>5. CASE EndTurn(g, "advance")
  <2>1. work' = g /\ pc' = "advance" /\ UNCHANGED <<game, result>>
    BY <1>5 DEF EndTurn, Goto
  <2>2. PICK k \in Slots : work.wildlife[k] = None
    BY <1>0 DEF Gaps
  <2>3. work.wildlife \in Market
    BY <1>0 DEF GameState, Market
  <2>4. ~FourOfAKind(work.wildlife)
    BY <2>2, <2>3, GapBreaksFour
  <2>5. ~FourOfAKind(work'.wildlife)
    BY <1>3, <2>1, <2>4
  <2> HIDE DEF g
  <2>6. TilesHeld(work', 0)
    BY <1>4, <2>1
  <2> QED BY <1>0, <2>1, <2>5, <2>6, TilesMove
<1>6. CASE EndTurn(g, "refill")
  <2>1. work' = g /\ pc' = "refill" /\ UNCHANGED <<game, result>>
    BY <1>6 DEF EndTurn, Goto
  <2> HIDE DEF g
  <2>2. TilesHeld(work', 0)
    BY <1>4, <2>1
  <2> QED BY <1>0, <2>1, <2>2, TilesMove
<1>7. CASE EndTurn(SoloDiscard(g), "refill")
  <2> DEFINE h == SoloDiscard(g)
  <2>1. work' = h /\ pc' = "refill" /\ UNCHANGED <<game, result>>
    BY <1>7 DEF EndTurn, Goto
  <2>2. h.boards = g.boards /\ h.stack = g.stack /\ h.lostTiles = g.lostTiles + 1
    <3> HIDE DEF g
    <3> QED BY <1>2 DEF SoloDiscard, GameState
  <2>3. TilesShown(g) = 3 /\ Gaps(g) # Slots
    BY <1>0, <1>3 DEF SameTiles, TilesShown, Gaps
  <2>4. TilesShown(h) = TilesShown(g) - 1
    <3> HIDE DEF g
    <3> QED BY <1>2, <2>3, SoloDiscardSpends
  <2> HIDE DEF h, g
  <2>5. OnBoards(h) = OnBoards(g) /\ OnBoards(g) \in Int
    BY <1>2, <2>2, OnBoardsType DEF OnBoards, BoardTiles
  <2>6. g.stack \in Nat /\ g.lostTiles \in Nat
    BY <1>2 DEF GameState
  <2>7. TilesHeld(h, 0)
    BY <1>4, <2>2, <2>3, <2>4, <2>5, <2>6 DEF TilesHeld
  <2>8. TilesHeld(work', 0)
    BY <2>1, <2>7
  <2> QED BY <1>0, <2>1, <2>8, TilesMove
<1> QED BY <1>1, <1>5, <1>6, <1>7 DEF FinishTurn, StartRefill

LEMMA RefillValid ==
  ASSUME TypeOK, TypeOK', ValidInv, SupplyInv', RefillSlot \/ RefillDone
  PROVE  ValidInv'
<1>0. work \in GameState /\ work' \in GameState /\ pc = "refill" /\ TilesHeld(work, 0)
  BY DEF TypeOK, RefillSlot, RefillDone, ValidInv, InHand
<1>1. CASE Raise("TileStackEmpty") \/ Raise("WildlifeBagEmpty")
  BY <1>1, RaiseValid
<1>2. CASE RefillSlot /\ ~Raise("TileStackEmpty") /\ ~Raise("WildlifeBagEmpty")
  <2> DEFINE k == Lowest(Incomplete(work))
             g == IF work.tiles[k] THEN work
                  ELSE [work EXCEPT !.tiles[k] = TRUE, !.stack = @ - 1]
  <2>1. k \in Slots
    BY <1>2, FirstInSet DEF RefillSlot, Incomplete
  <2>2. /\ work.tiles[k] \/ work.stack # 0
        /\ work' = g \/ \E s \in Wildlife : work' = Draw(g, k, s)
        /\ UNCHANGED <<game, result, pc>>
    BY <1>2 DEF RefillSlot
  <2> HIDE DEF k
  <2>3. /\ g.boards = work.boards /\ g.lostTiles = work.lostTiles
        /\ work.tiles[k] => g.tiles = work.tiles /\ g.stack = work.stack
        /\ ~work.tiles[k] => g.tiles = [work.tiles EXCEPT ![k] = TRUE] /\ g.stack = work.stack - 1
    BY <1>0 DEF GameState
  <2>4. /\ work'.boards = g.boards /\ work'.lostTiles = g.lostTiles
        /\ work'.tiles = g.tiles /\ work'.stack = g.stack
    <3>1. \A s : /\ Draw(g, k, s).boards = g.boards /\ Draw(g, k, s).lostTiles = g.lostTiles
                 /\ Draw(g, k, s).tiles = g.tiles /\ Draw(g, k, s).stack = g.stack
      BY <1>0 DEF Draw, GameState
    <3> HIDE DEF g
    <3> QED BY <2>2, <3>1
  <2> HIDE DEF g
  <2>5. work.tiles \in [Slots -> BOOLEAN] /\ work.stack \in Nat /\ work.lostTiles \in Nat
        /\ OnBoards(work) \in Int
    BY <1>0, OnBoardsType DEF GameState
  <2>6. work'.stack + TilesShown(work') = work.stack + TilesShown(work)
        /\ TilesShown(work) \in Int /\ TilesShown(work') \in Int /\ work'.stack \in Int
    <3>1. CASE work.tiles[k]
      <4>1. TilesShown(work') = TilesShown(work)
        BY <2>3, <2>4, <3>1 DEF TilesShown
      <4>2. TilesShown(work) \in Int
        BY DEF TilesShown, Shown, Is
      <4> QED BY <2>3, <2>4, <2>5, <3>1, <4>1, <4>2
    <3>2. CASE ~work.tiles[k]
      <4>1. \A m \in [Slots -> BOOLEAN] :
              ~m[k] => /\ Shown([m EXCEPT ![k] = TRUE], TRUE) = Shown(m, TRUE) + 1
                       /\ Shown(m, TRUE) \in 0..3
        BY <2>1, TilesAfterDeal
      <4>2. /\ Shown([work.tiles EXCEPT ![k] = TRUE], TRUE) = Shown(work.tiles, TRUE) + 1
            /\ Shown(work.tiles, TRUE) \in 0..3
        BY <2>5, <3>2, <4>1
      <4>3. TilesShown(work') = TilesShown(work) + 1 /\ TilesShown(work) \in 0..3
        BY <2>3, <2>4, <3>2, <4>2 DEF TilesShown
      <4> QED BY <2>3, <2>4, <2>5, <3>2, <4>3
    <3> QED BY <3>1, <3>2
  <2>7. OnBoards(work') = OnBoards(work) /\ work'.lostTiles = work.lostTiles
    BY <2>3, <2>4 DEF OnBoards, BoardTiles
  <2>8. TilesHeld(work', 0)
    BY <1>0, <2>5, <2>6, <2>7 DEF TilesHeld
  <2> QED BY <1>0, <2>2, <2>8, TilesMove
<1>3. CASE RefillDone
  <2>1. /\ pc' = "fill" \/ (pc' = "advance" /\ work' = work /\ ~FourOfAKind(work.wildlife))
        /\ UNCHANGED <<game, result>>
        /\ work'.boards = work.boards /\ work'.tiles = work.tiles
        /\ work'.stack = work.stack /\ work'.lostTiles = work.lostTiles
    BY <1>0, <1>3 DEF RefillDone, ResolveOverpopulation, Replace, Goto, GameState
  <2>2. SameTiles(work, work')
    BY <2>1 DEF SameTiles
  <2> QED BY <1>0, <2>1, <2>2, StillValid
<1> QED BY <1>1, <1>2, <1>3

LEMMA AdvanceValid ==
  ASSUME TypeOK, ValidInv, AdvancePlayer PROVE ValidInv'
<1>1. /\ pc = "advance" /\ pc' = "validate" /\ UNCHANGED <<game, result>>
      /\ work'.boards = work.boards /\ work'.tiles = work.tiles /\ work'.wildlife = work.wildlife
      /\ work'.stack = work.stack /\ work'.lostTiles = work.lostTiles
  BY DEF AdvancePlayer, Goto, TypeOK, GameState
<1>2. SameTiles(work, work') /\ ~FourOfAKind(work'.wildlife)
  BY <1>1 DEF SameTiles, ValidInv
<1> QED BY <1>1, <1>2, StillValid

\* What validate looks at is what the invariants say.
LEMMA AlwaysValid ==
  ASSUME TypeOK, ConservationInv, SupplyInv, ValidInv, pc = "validate"
  PROVE  Valid(work)
<1>1. work \in GameState /\ aside = NoTokens /\ Conserved(work, NoTokens)
  BY DEF TypeOK, ConservationInv, HandEmpty
<1>2. IsOver(work) \/ Incomplete(work) = {}
  BY DEF SupplyInv, Sound, Full
<1>3. ~FourOfAKind(work.wildlife)
  BY DEF ValidInv
<1>4. work.stack + (TileCount - TileStackSize) + work.lostTiles + TilesShown(work)
        + SumFunction(BoardTiles(work)) = TileCount
  <2>1. TilesHeld(work, 0)
    BY DEF ValidInv, InHand
  <2>2. /\ work.stack \in Nat /\ work.lostTiles \in Nat /\ OnBoards(work) \in Int
        /\ TilesShown(work) \in Int /\ TileCount \in Nat /\ TileStackSize \in Nat
    BY <1>1, OnBoardsType, ParameterAssumption, TileStackType DEF GameState, TilesShown, Shown, Is
  <2> DEFINE x == work.stack l == work.lostTiles t == TilesShown(work) b == OnBoards(work)
             m == TileStackSize
  <2>3. x \in Int /\ l \in Int /\ t \in Int /\ b \in Int /\ m \in Int /\ TileCount \in Int
    BY <2>2
  <2>4. x + l + t + b + 0 = m
    BY <2>1 DEF TilesHeld
  <2> HIDE DEF x, l, t, b, m
  <2>5. x + (TileCount - m) + l + t + b = TileCount
    BY <2>3, <2>4
  <2> QED BY <2>5 DEF x, l, t, b, m, OnBoards
<1>5. Size(work.bag) + Size(work.lost) + Size(Tokens(work.wildlife)) + Size(work.placed)
        = Size(Supply)
  <2>1. Size(work.bag) + Size(Tokens(work.wildlife)) + Out(work) + Size(NoTokens) = Size(Supply)
    BY <1>1, NoTokensType, ConservedSize
  <2>2. /\ Size(work.bag) \in Nat /\ Size(work.lost) \in Nat /\ Size(work.placed) \in Nat
        /\ Size(Tokens(work.wildlife)) \in 0..4
    BY <1>1, SizeType, TokensSize DEF GameState, Market
  <2> QED BY <2>1, <2>2, NoTokensSize DEF Out
<1>6. work.turns <= TotalTurns
  <2>1. work.turns = TotalTurns \/ work.turns < TotalTurns
    BY DEF SupplyInv, Sound, Full, Ledger, IsOver
  <2> QED BY <1>1, <2>1, TotalTurnsType DEF GameState
<1>7. work.player \in Seats /\ \A p \in Seats : work.boards[p].tiles <= MaxBoardTiles
  <2>1. work.boards \in [Seats -> Board] /\ work.player \in Seats
    BY <1>1 DEF GameState
  <2>2. \A p \in Seats : work.boards[p].tiles \in 0..MaxBoardTiles
    BY <2>1 DEF Board
  <2> QED BY <2>1, <2>2, ParameterAssumption DEF MaxBoardTiles, StarterTiles
<1> QED BY <1>2, <1>3, <1>4, <1>5, <1>6, <1>7 DEF Valid

LEMMA CommitValid ==
  ASSUME TypeOK, ConservationInv, SupplyInv, ValidInv, Commit PROVE ValidInv'
<1>1. pc = "validate" /\ Valid(work)
  BY AlwaysValid DEF Commit
<1>2. game' = work /\ work' = work /\ pc' = "idle" /\ result' = "ok"
  BY <1>1 DEF Commit
<1>3. TilesHeld(work, 0)
  BY <1>1 DEF ValidInv, InHand
<1>4. TilesHeld(work', 0) /\ TilesHeld(game', 0) /\ InHand' = 0
  BY <1>2, <1>3 DEF InHand
<1> QED BY <1>2, <1>4 DEF ValidInv, NoEngineErrors, EngineErrors, Exhausted

LEMMA BeginValid == ASSUME ValidInv, BeginApply PROVE ValidInv'
<1>1. CASE IsOver(game)
  <2>1. UNCHANGED <<game, work, pc>> /\ result' = "GameOver" /\ pc = "idle"
    BY <1>1 DEF BeginApply
  <2>2. TilesHeld(work', 0) /\ TilesHeld(game', 0) /\ InHand' = 0
    BY <2>1 DEF ValidInv, InHand
  <2> QED BY <2>1, <2>2 DEF ValidInv, NoEngineErrors, EngineErrors, Exhausted
<1>2. CASE ~IsOver(game)
  <2>1. game' = game /\ work' = game /\ result' = "none" /\ pc' = "three"
    BY <1>2 DEF BeginApply
  <2>2. TilesHeld(work', 0) /\ TilesHeld(game', 0) /\ InHand' = 0
    BY <2>1 DEF ValidInv, InHand
  <2> QED BY <2>1, <2>2 DEF ValidInv, NoEngineErrors, EngineErrors, Exhausted
<1> QED BY <1>1, <1>2

LEMMA NextValid ==
  TypeOK /\ ConservationInv /\ TurnInv /\ SupplyInv /\ SupplyInv' /\ ValidInv /\ [Next]_vars
    => ValidInv'
<1> SUFFICES ASSUME TypeOK, ConservationInv, TurnInv, SupplyInv, SupplyInv', ValidInv, [Next]_vars
             PROVE  ValidInv'
  OBVIOUS
<1>0. TypeOK'
  BY NextTypeOK
<1>1. CASE UNCHANGED vars
  <2>1. SameTiles(work, work') /\ UNCHANGED <<game, work, pc, result>>
    BY <1>1 DEF vars, SameTiles
  <2>2. /\ pc' \in {"place", "finish"} => Gaps(work') # {}
        /\ pc' \in {"advance", "validate"} => ~FourOfAKind(work'.wildlife)
    BY <2>1 DEF ValidInv
  <2> QED BY <2>1, <2>2, StillValid
<1> QED
  BY <1>0, <1>1, ReplaceValid, PreludeValid, DraftValid, PlaceValid, FinishValid, RefillValid,
     AdvanceValid, CommitValid, BeginValid
  DEF Next, Step

\* A call fails only for what the player did or for a hopeless run of draws: no
\* board overflows, and validate accepts whatever the engine made.
THEOREM EngineNeverFails == Spec => []NoEngineErrors
<1>1. TurnInv /\ [Next]_vars => TurnInv'
  BY NextTurnInv DEF Good
<1>2. ValidInv => NoEngineErrors
  BY DEF ValidInv
<1> QED
  BY <1>1, <1>2, InitTypeOK, NextTypeOK, InitConserves, NextConserves, InitSupply, NextSupply,
     InitTurn, InitValid, NextValid, PTL DEF Spec
=============================================================================
