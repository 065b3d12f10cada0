----------------------------- MODULE LegalTurns -----------------------------
(***************************************************************************)
(* The legal turns of a player: visit_legal_turn_actions_with_tile_context *)
(* of cascadia-game/src/game.rs.  One clone of the board, the probe, is    *)
(* changed in place through all drafts, cells, rotations and wildlife      *)
(* placements, and changed back; the visitor sees it at every turn and     *)
(* scores it from the analysis of the board it was cloned from.  The game  *)
(* is then played on by any turn its own rules accept.                     *)
(*                                                                         *)
(* The market is full, as it is before every turn.  The market prelude is  *)
(* in CascadiaGame: the turns listed here have the default one, and every  *)
(* draft is accepted.                                                      *)
(***************************************************************************)
EXTENDS PlayerBoard

CONSTANTS
  Slots,     \* MarketSlot::ALL is 1..Slots
  Offers,    \* what the market may show: slot -> [tile, wildlife]
  Starters,  \* starter clusters
  Turns      \* the game is over after this many

\* A starter cluster lies on cells of its own about the origin, and a full game fits
\* on a board.
ASSUME TurnsAssumption ==
  /\ Slots \in Nat /\ Turns \in Nat \ {0}
  /\ Offers \subseteq [1..Slots -> [tile : Tiles, wildlife : Wildlife]]
  /\ \A starter \in Starters :
       /\ starter \in Seq(Hexes \X Tiles \X Edges) \ {<<>>}
       /\ \A i, j \in 1..Len(starter) : i # j => starter[i][1] # starter[j][1]
       /\ \A i \in 1..Len(starter) : Distance(starter[i][1]) < Len(starter)
       /\ Len(starter) + Turns <= MaxBoardTiles

VARIABLES
  game,     \* [board, market, completed_turns]
  habitat,  \* the habitat score of its board, kept from turn to turn
  probe,
  phase,    \* "draft", "hex", "visit", "done" or "error"
  draft,    \* indices of the draft, the frontier cell, the rotation and the
  hex,      \* wildlife placement that are visited; no wildlife is placed at 0
  rotation,
  token,
  visits

cursor == <<draft, hex, rotation, token>>
turnVars == <<game, habitat, probe, phase, cursor, visits>>

-----------------------------------------------------------------------------
(* What can be drafted and placed.                                          *)

Nowhere == <<>>

Paired(slot) == [tile_slot |-> slot, wildlife_slot |-> slot, independent |-> FALSE]
IndependentDraft(k) ==
  [tile_slot |-> ((k - 1) \div Slots) + 1, wildlife_slot |-> ((k - 1) % Slots) + 1, independent |-> TRUE]

Drafts(g) ==
  [slot \in 1..Slots |-> Paired(slot)]
  \o (IF g.board.tokens > 0 THEN [k \in 1..(Slots * Slots) |-> IndependentDraft(k)] ELSE <<>>)

TileOf(g, d) == g.market[d.tile_slot].tile
TokenOf(g, d) == g.market[d.wildlife_slot].wildlife

\* Both lists are made before the probe is first changed.
FrontierOf(g) == SetToSeq(Frontier(g.board))

Placements(g, d, c) ==
  WildlifePlacements(g.board, TokenOf(g, d))
  \o (IF TokenOf(g, d) \in TileOf(g, d).wildlife THEN <<c>> ELSE <<>>)

Capacity(g) ==
  SumFunction([i \in DOMAIN Drafts(g) |->
    LET d == Drafts(g)[i]
        placements == Len(WildlifePlacements(g.board, TokenOf(g, d)))
                      + (IF TokenOf(g, d) \in TileOf(g, d).wildlife THEN 1 ELSE 0)
    IN Len(RotationsOf(TileOf(g, d))) * Len(FrontierOf(g)) * (1 + placements)])

-----------------------------------------------------------------------------
(* The rules: apply_in_place of a turn, up to the refill.                   *)

Accepts(g, turn) ==
  LET d == turn.draft
      paid == [g.board EXCEPT !.tokens = @ - 1]
      board == IF d.independent THEN paid ELSE g.board
      placed == WithTile(board, turn.coord, TileOf(g, d), turn.rotation)
  IN /\ g.completed_turns < Turns
     /\ d.independent => g.board.tokens > 0
     /\ CanPlaceTile(board, turn.coord)
     /\ turn.wildlife # Nowhere => CanPlaceWildlife(placed, turn.wildlife, TokenOf(g, d))

Preview(g, turn) ==
  LET d == turn.draft
      board == IF d.independent THEN [g.board EXCEPT !.tokens = @ - 1] ELSE g.board
      placed == WithTile(board, turn.coord, TileOf(g, d), turn.rotation)
  IN IF turn.wildlife = Nowhere THEN placed ELSE WithWildlife(placed, turn.wildlife, TokenOf(g, d))

\* A keystone tile looks the same in every rotation.
AcceptedTurns(g) ==
  {turn \in [draft : {Paired(s) : s \in 1..Slots} \cup {IndependentDraft(k) : k \in 1..(Slots * Slots)},
             coord : Hexes, rotation : 0..5, wildlife : Hexes \cup {Nowhere}] :
     /\ turn.rotation \in ToSet(RotationsOf(TileOf(g, turn.draft)))
     /\ Accepts(g, turn)}

\* The turn on the board turned about the origin.
RotatedTurn(turn, steps) ==
  [draft |-> turn.draft,
   coord |-> RotatedHex(turn.coord, steps),
   rotation |-> RotatedTile(turn.rotation, steps),
   wildlife |-> IF turn.wildlife = Nowhere THEN Nowhere ELSE RotatedHex(turn.wildlife, steps)]

\* rescore_after_placement_with: only the terrains of the tile are looked at.
RescoreHabitat(kept, tile, largest) ==
  [t \in Terrains |-> IF ContainsTerrain(tile, t) THEN largest[t] ELSE kept[t]]

ScoreHabitat(b) == [t \in Terrains |-> LargestHabitat(b, t)]

-----------------------------------------------------------------------------
(* The visitor.                                                             *)

Draft == Drafts(game)[draft]
Tile == TileOf(game, Draft)
Coord == FrontierOf(game)[hex]
Spots == Placements(game, Draft, Coord)

\* The turn that is visited, and whether there is one.
Visited ==
  [draft |-> Draft, coord |-> Coord, rotation |-> RotationsOf(Tile)[rotation],
   wildlife |-> IF token = 0 THEN Nowhere ELSE Spots[token]]

\* The probe without the wildlife of the last visit.
Unsettled == IF token = 0 THEN probe ELSE WithoutWildlife(probe, Spots[token])

TurnsInit ==
  /\ \E starter \in Starters, market \in Offers :
       game = [board |-> FromStarter(starter), market |-> market, completed_turns |-> 0]
  /\ habitat = ScoreHabitat(game.board)
  /\ probe = game.board
  /\ phase = "draft"
  /\ draft = 1 /\ hex = 1 /\ rotation = 1 /\ token = 0
  /\ visits = 0

BeginDraft ==
  /\ phase = "draft"
  /\ draft <= Len(Drafts(game))
  /\ IF Draft.independent /\ probe.tokens = 0
     THEN phase' = "error" /\ UNCHANGED probe
     ELSE /\ phase' = "hex"
          /\ probe' = IF Draft.independent THEN [probe EXCEPT !.tokens = @ - 1] ELSE probe
  /\ hex' = 1
  /\ UNCHANGED <<game, habitat, draft, rotation, token, visits>>

\* place_tile_attached, and the visit without wildlife.
PlaceProbe ==
  /\ phase = "hex"
  /\ hex <= Len(FrontierOf(game))
  /\ IF CanPlaceTile(probe, Coord)
     THEN /\ probe' = WithTile(probe, Coord, Tile, RotationsOf(Tile)[1])
          /\ phase' = "visit"
          /\ visits' = visits + 1
     ELSE phase' = "error" /\ UNCHANGED <<probe, visits>>
  /\ rotation' = 1 /\ token' = 0
  /\ UNCHANGED <<game, habitat, draft, hex>>

SettleNext ==
  /\ phase = "visit"
  /\ token < Len(Spots)
  /\ IF CanPlaceWildlife(Unsettled, Spots[token + 1], TokenOf(game, Draft))
     THEN /\ probe' = WithWildlife(Unsettled, Spots[token + 1], TokenOf(game, Draft))
          /\ visits' = visits + 1
          /\ UNCHANGED phase
     ELSE phase' = "error" /\ UNCHANGED <<probe, visits>>
  /\ token' = token + 1
  /\ UNCHANGED <<game, habitat, draft, hex, rotation>>

TurnProbe ==
  /\ phase = "visit"
  /\ token = Len(Spots)
  /\ rotation < Len(RotationsOf(Tile))
  /\ probe' = SetPlacedRotation(Unsettled, Coord, RotationsOf(Tile)[rotation + 1])
  /\ rotation' = rotation + 1
  /\ token' = 0
  /\ visits' = visits + 1
  /\ UNCHANGED <<game, habitat, phase, draft, hex>>

\* undo of the tile, which must be the last one.
LiftProbe ==
  /\ phase = "visit"
  /\ token = Len(Spots)
  /\ rotation = Len(RotationsOf(Tile))
  /\ IF Last(probe.placed) = Coord
     THEN probe' = WithoutTile(Unsettled, Coord) /\ phase' = "hex"
     ELSE phase' = "error" /\ UNCHANGED probe
  /\ hex' = hex + 1
  /\ token' = 0 /\ rotation' = 1
  /\ UNCHANGED <<game, habitat, draft, visits>>

EndDraft ==
  /\ phase = "hex"
  /\ hex > Len(FrontierOf(game))
  /\ probe' = IF Draft.independent THEN [probe EXCEPT !.tokens = @ + 1] ELSE probe
  /\ draft' = draft + 1
  /\ hex' = 1
  /\ phase' = "draft"
  /\ UNCHANGED <<game, habitat, rotation, token, visits>>

EndVisits ==
  /\ phase = "draft"
  /\ draft > Len(Drafts(game))
  /\ phase' = "done"
  /\ UNCHANGED <<game, habitat, probe, cursor, visits>>

\* The game goes on with the board of the turn and what the market shows next.
Play(turn) ==
  /\ phase = "done"
  /\ game.completed_turns + 1 < Turns
  /\ \E market \in Offers :
       game' = [board |-> Preview(game, turn), market |-> market,
                completed_turns |-> game.completed_turns + 1]
  /\ habitat' = RescoreHabitat(habitat, TileOf(game, turn.draft), ScoreHabitat(game'.board))
  /\ probe' = game'.board
  /\ phase' = "draft"
  /\ draft' = 1 /\ hex' = 1 /\ rotation' = 1 /\ token' = 0
  /\ visits' = 0

Visit == BeginDraft \/ PlaceProbe \/ SettleNext \/ TurnProbe \/ LiftProbe \/ EndDraft \/ EndVisits

TurnsNext == Visit \/ (phase = "done" /\ \E turn \in AcceptedTurns(game) : Play(turn))

TurnsSpec == TurnsInit /\ [][TurnsNext]_turnVars

-----------------------------------------------------------------------------
(* Properties.                                                              *)

\* However often the probe was changed and changed back, the visitor sees the
\* board that the rules make of the turn, and no turn twice or not at all.
EnumerationExact ==
  /\ phase # "error"
  /\ phase = "visit" =>
       /\ Accepts(game, Visited)
       /\ probe = Preview(game, Visited)
       /\ token = 0 => Spots = WildlifePlacements(probe, TokenOf(game, Draft))
  /\ phase = "done" =>
       /\ probe = game.board
       /\ visits = Cardinality(AcceptedTurns(game))
       /\ visits = Capacity(game)

\* What the analysis of the board says of a tile is true of the board with the
\* tile: each of the three ways to ask for a habitat (of the board, of a cell's
\* context, of its terrain masks), and the matching edges.
RescoreExact ==
  phase = "visit" /\ token = 0 =>
    LET analysis == HabitatAnalysis(game.board)
        context == TileNeighborContext(analysis, probe, Coord)
        query == CellHabitatQuery(analysis, context)
        r == Visited.rotation
        read == [t \in Terrains |-> LargestAfterTile(analysis, probe, Coord, Tile, r, t)]
        direct == [t \in Terrains |-> LargestAfterTileWithContext(analysis, context, Tile, r, t)]
        queried == [t \in Terrains |-> LargestAfterTerrainEdges(analysis, query, t, TerrainEdges(Tile, r, t))]
    IN /\ RescoreHabitat(habitat, Tile, read) = ScoreHabitat(probe)
       /\ RescoreHabitat(habitat, Tile, direct) = ScoreHabitat(probe)
       /\ RescoreHabitat(habitat, Tile, queried) = ScoreHabitat(probe)
       /\ MatchingEdgesAfterTile(analysis, game.board, Coord, Tile, r) = MatchingEdges(probe)

\* A board and a turn that are turned together score and play the same.
RotationCommutes ==
  phase = "visit" => \A steps \in 1..5 :
    LET turned == [game EXCEPT !.board = RotatedBoard(@, steps)]
        turn == RotatedTurn(Visited, steps)
        board == RotatedBoard(probe, steps)
    IN /\ Accepts(turned, turn)
       /\ Preview(turned, turn) = board
       /\ token = 0 => ScoreHabitat(board) = ScoreHabitat(probe) /\ MatchingEdges(board) = MatchingEdges(probe)
=============================================================================
