----------------------------- MODULE PlayerBoard -----------------------------
(***************************************************************************)
(* A player's board: cascadia-game/src/board.rs, with the coordinates of   *)
(* hex.rs and the tiles of types.rs.  Tiles are placed next to others and  *)
(* wildlife on tiles that support it; both can be undone in reverse order. *)
(* A habitat is connected through edges that show its terrain on both      *)
(* sides.  HabitatAnalysis tells what a further tile would do to the       *)
(* habitats without placing it.                                            *)
(*                                                                         *)
(* Operators only; a component is the set of its cells instead of an id.   *)
(***************************************************************************)
EXTENDS Integers, Sequences, FiniteSets, FiniteSetsExt, SequencesExt, Functions

CONSTANTS
  Hexes,         \* the coordinates that have an index
  MaxBoardTiles  \* MAX_BOARD_TILES

\* The distance from the origin.
Distance(c) ==
  LET abs(n) == IF n < 0 THEN -n ELSE n
  IN (abs(c[1]) + abs(c[2]) + abs(c[1] + c[2])) \div 2

RotatedHex(c, steps) ==
  LET once(d) == <<-d[2], d[1] + d[2]>>
      turned[n \in 0..5] == IF n = 0 THEN c ELSE once(turned[n - 1])
  IN turned[steps % 6]

ASSUME BoardAssumption ==
  /\ Hexes \subseteq Int \X Int /\ IsFiniteSet(Hexes)
  /\ MaxBoardTiles \in Nat

\* The corners of the grid turn out of it, but a board does not reach that far.
ASSUME RotationAssumption ==
  \A c \in Hexes, steps \in 0..5 : Distance(c) < MaxBoardTiles => RotatedHex(c, steps) \in Hexes

Edges == 0..5
EdgeSteps == << <<1, 0>>, <<1, -1>>, <<0, -1>>, <<-1, 0>>, <<-1, 1>>, <<0, 1>> >>
Neighbor(c, edge) == <<c[1] + EdgeSteps[edge + 1][1], c[2] + EdgeSteps[edge + 1][2]>>
Opposite(edge) == (edge + 3) % 6

-----------------------------------------------------------------------------
(* Tiles: a keystone tile has one terrain, the others two, of three edges.  *)

None == "none"
Terrains == {"mountain", "forest", "prairie", "wetland", "river"}
Wildlife == {"bear", "elk", "salmon", "hawk", "fox"}
Tiles ==
  {tile \in [terrain_a : Terrains, terrain_b : Terrains \cup {None}, wildlife : SUBSET Wildlife] :
     tile.terrain_a # tile.terrain_b}
ContainsTerrain(tile, t) == t \in {tile.terrain_a, tile.terrain_b}

TerrainOnEdge(tile, rotation, edge) ==
  IF tile.terrain_b = None \/ (edge + 6 - rotation) % 6 < 3 THEN tile.terrain_a ELSE tile.terrain_b

\* The mask of the edges that show a terrain of the tile.
TerrainEdges(tile, rotation, t) ==
  LET a == IF tile.terrain_b = None THEN Edges ELSE {(i + rotation) % 6 : i \in 0..2}
  IN IF t = tile.terrain_a THEN a ELSE Edges \ a

RotationsOf(tile) == IF tile.terrain_b = None THEN <<0>> ELSE <<0, 1, 2, 3, 4, 5>>

-----------------------------------------------------------------------------
(* Placing and undoing.                                                     *)

EmptyBoard == [cells |-> << >>, placed |-> <<>>, tokens |-> 0]
Occupied(b) == DOMAIN b.cells
Shows(b, c, edge) == TerrainOnEdge(b.cells[c].tile, b.cells[c].rotation, edge)

Frontier(b) == {c \in Hexes \ Occupied(b) : \E edge \in Edges : Neighbor(c, edge) \in Occupied(b)}

\* In the order in which the tiles were placed.
WildlifePlacements(b, w) ==
  LET open(c) == b.cells[c].wildlife = None /\ w \in b.cells[c].tile.wildlife
      upTo[n \in 0..Len(b.placed)] ==
        IF n = 0 THEN <<>>
        ELSE upTo[n - 1] \o (IF open(b.placed[n]) THEN <<b.placed[n]>> ELSE <<>>)
  IN upTo[Len(b.placed)]

CanPlaceTile(b, c) ==
  /\ c \in Hexes \ Occupied(b)
  /\ Len(b.placed) < MaxBoardTiles
  /\ b.placed = <<>> \/ c \in Frontier(b)

WithTile(b, c, tile, rotation) ==
  LET cell == [tile |-> tile, rotation |-> rotation, wildlife |-> None]
  IN [cells |-> [x \in Occupied(b) \cup {c} |-> IF x = c THEN cell ELSE b.cells[x]],
      placed |-> Append(b.placed, c), tokens |-> b.tokens]

SetPlacedRotation(b, c, rotation) == [b EXCEPT !.cells[c].rotation = rotation]

CanPlaceWildlife(b, c, w) ==
  c \in Occupied(b) /\ b.cells[c].wildlife = None /\ w \in b.cells[c].tile.wildlife

Award(b, c) == IF b.cells[c].tile.terrain_b = None THEN 1 ELSE 0

WithWildlife(b, c, w) ==
  [cells |-> [b.cells EXCEPT ![c].wildlife = w], placed |-> b.placed, tokens |-> b.tokens + Award(b, c)]

WithoutTile(b, c) ==
  [cells |-> Restrict(b.cells, Occupied(b) \ {c}), placed |-> Front(b.placed), tokens |-> b.tokens]

\* Wrong: the nature token of a keystone tile stays.
TakeWildlifeOnly(b, c) == [b EXCEPT !.cells[c].wildlife = None]

WithoutWildlife(b, c) ==
  [cells |-> [b.cells EXCEPT ![c].wildlife = None], placed |-> b.placed, tokens |-> b.tokens - Award(b, c)]

\* Board::from_starter: the tiles of a starter cluster are not checked.
FromStarter(starter) ==
  LET upTo[n \in 0..Len(starter)] ==
        IF n = 0 THEN EmptyBoard
        ELSE WithTile(upTo[n - 1], starter[n][1], starter[n][2], starter[n][3])
  IN upTo[Len(starter)]

-----------------------------------------------------------------------------
(* Habitats.                                                                *)

Connects(b, c, edge, t) ==
  /\ Neighbor(c, edge) \in Occupied(b)
  /\ Shows(b, c, edge) = t
  /\ Shows(b, Neighbor(c, edge), Opposite(edge)) = t

HabitatComponents(b, t) ==
  FoldSet(LAMBDA c, found :
            LET touched == {K \in found : \E edge \in Edges : Connects(b, c, edge, t) /\ Neighbor(c, edge) \in K}
            IN (found \ touched) \cup {(UNION touched) \cup {c}},
          {}, {c \in Occupied(b) : ContainsTerrain(b.cells[c].tile, t)})

LargestHabitat(b, t) == Max({0} \cup {Cardinality(K) : K \in HabitatComponents(b, t)})

MatchingEdges(b) ==
  Cardinality({x \in Occupied(b) \X Edges :
                 /\ Neighbor(x[1], x[2]) \in Occupied(b)
                 /\ Shows(b, x[1], x[2]) = Shows(b, Neighbor(x[1], x[2]), Opposite(x[2]))}) \div 2

HabitatAnalysis(b) ==
  [components |-> [t \in Terrains |-> HabitatComponents(b, t)],
   largest |-> [t \in Terrains |-> LargestHabitat(b, t)],
   matching_edges |-> MatchingEdges(b)]

ComponentAt(analysis, t, c) == CHOOSE K \in analysis.components[t] : c \in K

\* The largest habitat with a tile: the tile and each component it touches.
LargestAfterTile(analysis, b, c, tile, rotation, t) ==
  LET touching == {e \in Edges : /\ TerrainOnEdge(tile, rotation, e) = t
                                 /\ Neighbor(c, e) \in Occupied(b)
                                 /\ Shows(b, Neighbor(c, e), Opposite(e)) = t}
      joined == {ComponentAt(analysis, t, Neighbor(c, e)) : e \in touching}
  IN IF ~ContainsTerrain(tile, t) THEN analysis.largest[t]
     ELSE Max({analysis.largest[t], 1 + SumFunction([K \in joined |-> Cardinality(K)])})

\* What each neighbor of a cell shows towards it, and the component that is of.
TileNeighborContext(analysis, b, c) ==
  [edge \in {e \in Edges : Neighbor(c, e) \in Occupied(b)} |->
     LET facing == Shows(b, Neighbor(c, edge), Opposite(edge))
     IN [terrain |-> facing, component |-> ComponentAt(analysis, facing, Neighbor(c, edge))]]

\* Wrong: a component that touches the tile twice counts twice.
SizePerEdge(context, edges, t) ==
  1 + SumFunction([e \in {e \in edges \cap DOMAIN context : context[e].terrain = t} |->
                     Cardinality(context[e].component)])

\* The same, asked of the context.
SizeWithTile(context, edges, t) ==
  LET joined == {context[e].component : e \in {e \in edges \cap DOMAIN context : context[e].terrain = t}}
  IN 1 + SumFunction([K \in joined |-> Cardinality(K)])

LargestAfterTileWithContext(analysis, context, tile, rotation, t) ==
  IF ~ContainsTerrain(tile, t) THEN analysis.largest[t]
  ELSE Max({analysis.largest[t],
            SizeWithTile(context, {e \in Edges : TerrainOnEdge(tile, rotation, e) = t}, t)})

\* The components that face a cell, each with its edges and size.
CellHabitatQuery(analysis, context) ==
  [t \in Terrains |->
     LET facing == {e \in DOMAIN context : context[e].terrain = t}
     IN {[size |-> Cardinality(K), of |-> K, edges |-> {e \in facing : context[e].component = K}] :
           K \in {context[e].component : e \in facing}}]

LargestAfterTerrainEdges(analysis, query, t, mask) ==
  Max({analysis.largest[t],
       1 + SumFunction([q \in {q \in query[t] : q.edges \cap mask # {}} |-> q.size])})

MatchingEdgesAfterTile(analysis, b, c, tile, rotation) ==
  analysis.matching_edges +
  Cardinality({e \in Edges : /\ Neighbor(c, e) \in Occupied(b)
                             /\ TerrainOnEdge(tile, rotation, e) = Shows(b, Neighbor(c, e), Opposite(e))})

-----------------------------------------------------------------------------
(* The board turned about the origin.                                       *)

\* Wrong: the tile turns against its neighbors.
RotatedBack(rotation, steps) == (rotation + steps) % 6

RotatedTile(rotation, steps) == (rotation + 6 - steps) % 6

RotatedBoard(b, steps) ==
  LET back == [c \in {RotatedHex(d, steps) : d \in Occupied(b)} |->
                 CHOOSE d \in Occupied(b) : RotatedHex(d, steps) = c]
  IN [cells |-> [c \in DOMAIN back |->
                   [b.cells[back[c]] EXCEPT !.rotation = RotatedTile(@, steps)]],
      placed |-> [i \in DOMAIN b.placed |-> RotatedHex(b.placed[i], steps)],
      tokens |-> b.tokens]
=============================================================================
