------------------------- MODULE EnvironmentProofs --------------------------
(***************************************************************************)
(* Theorems about LegalTurns, for every patch of cells, tile, market and   *)
(* starter cluster:                                                        *)
(*   - the enumeration of legal turns visits what the rules accept, each   *)
(*     turn once, on a probe board that is changed and changed back;       *)
(*   - what the analysis of a board says of a tile is what the board with  *)
(*     the tile scores, so the habitat score that is kept is exact;        *)
(*   - a turn and its board can be turned together about the origin.       *)
(* With what ScoringProofs shows of the wildlife scores they hold of       *)
(* Environment, the two side by side. Its last part puts the bounds of the *)
(* single species together: the bounds of WildlifeProfiles hold of every   *)
(* board that is reached.                                                  *)
(***************************************************************************)
EXTENDS Environment, ScoringProofs

-----------------------------------------------------------------------------
(* LegalTurns: drafts, cells, rotations and placements as sequences.        *)

\* The sequence of a finite set holds each of its members once.
LEMMA SetToSeqIs ==
  ASSUME NEW S, IsFiniteSet(S)
  PROVE  /\ SetToSeq(S) \in Seq(S) /\ IsInjective(SetToSeq(S))
         /\ \A x \in S : \E i \in 1..Len(SetToSeq(S)) : SetToSeq(S)[i] = x
<1> DEFINE n == Cardinality(S)
           q == SetToSeq(S)
<1>1. n \in Nat /\ ExistsBijection(1..n, S)
  BY FS_CardinalityType
<1>2. PICK f : f \in Bijection(1..n, S)
  BY <1>1 DEF ExistsBijection
<1>3. f \in [1..n -> S] /\ IsInjective(f)
  BY <1>2 DEF Bijection, Injection, IsInjective
<1>4. q \in [1..n -> S] /\ IsInjective(q)
  BY <1>3 DEF SetToSeq
<1> HIDE DEF q
<1>5. q \in Injection(1..n, S)
  BY <1>4 DEF Injection, IsInjective
<1>6. IsFiniteSet(1..n) /\ Cardinality(1..n) = n
  BY <1>1, FS_Interval
<1>7. q \in Surjection(1..n, S)
  BY <1>5, <1>6, FS_Injection
<1>8. q \in Seq(S) /\ Len(q) = n
  BY <1>1, <1>4
<1>9. \A x \in S : \E i \in 1..n : q[i] = x
  BY <1>7 DEF Surjection
<1> QED BY <1>4, <1>8, <1>9 DEF q

-----------------------------------------------------------------------------
(* Boards.                                                                  *)

Cell == [tile : Tiles, rotation : Edges, wildlife : Wildlife \cup {None}]

\* The cells are those that were placed, each once.
IsBoard(b) ==
  /\ b \in [cells : [ToSet(b.placed) -> Cell], placed : Seq(Hexes), tokens : Nat]
  /\ IsInjective(b.placed)

Open(b, w) == {c \in Occupied(b) : b.cells[c].wildlife = None /\ w \in b.cells[c].tile.wildlife}

\* The cells that hold a tile are those in the order of placement.
LEMMA OccupiedIs ==
  ASSUME NEW b, IsBoard(b)
  PROVE  Occupied(b) = ToSet(b.placed) /\ Occupied(b) \subseteq Hexes
<1>1. Occupied(b) = ToSet(b.placed)
  BY DEF IsBoard, Occupied
<1>2. \A x \in ToSet(b.placed) : x \in Hexes
  BY InToSet DEF IsBoard
<1> QED BY <1>1, <1>2

\* A further tile on a free cell.
LEMMA WithTileIs ==
  ASSUME NEW b, IsBoard(b), NEW c \in Hexes \ Occupied(b), NEW tile \in Tiles, NEW r \in Edges
  PROVE  LET t == WithTile(b, c, tile, r)
         IN  /\ IsBoard(t)
             /\ t.placed = Append(b.placed, c) /\ t.tokens = b.tokens
             /\ Occupied(t) = Occupied(b) \cup {c}
             /\ t.cells[c] = [tile |-> tile, rotation |-> r, wildlife |-> None]
             /\ \A x \in Occupied(b) : t.cells[x] = b.cells[x]
<1> DEFINE t == WithTile(b, c, tile, r)
           cell == [tile |-> tile, rotation |-> r, wildlife |-> None]
           cells == [x \in Occupied(b) \cup {c} |-> IF x = c THEN cell ELSE b.cells[x]]
<1>0. b.cells \in [Occupied(b) -> Cell] /\ b.placed \in Seq(Hexes) /\ b.tokens \in Nat
  BY OccupiedIs DEF IsBoard
<1>1. t = [cells |-> cells, placed |-> Append(b.placed, c), tokens |-> b.tokens]
  BY DEF WithTile, IsBoard
<1>2. cell \in Cell
  BY DEF Cell
<1>3. cells \in [Occupied(b) \cup {c} -> Cell] /\ cells[c] = cell /\ \A x \in Occupied(b) : cells[x] = b.cells[x]
  <2> HIDE DEF cell
  <2> QED BY <1>0, <1>2
<1>4. ToSet(Append(b.placed, c)) = Occupied(b) \cup {c}
  BY <1>0, ToSetAppend, OccupiedIs
<1>5. IsInjective(Append(b.placed, c)) /\ Append(b.placed, c) \in Seq(Hexes)
  <2>1. \A i \in 1..Len(b.placed) : b.placed[i] # c
    BY <1>0, OccupiedIs, ToSetPlaces
  <2> QED BY <1>0, <2>1 DEF IsBoard, IsInjective
<1> HIDE DEF cells
<1>6. IsBoard(t)
  <2>1. t.placed = Append(b.placed, c) /\ t.cells = cells
    BY <1>1
  <2>2. cells \in [ToSet(t.placed) -> Cell]
    BY <1>3, <1>4, <2>1
  <2> QED BY <1>0, <1>1, <1>5, <2>1, <2>2 DEF IsBoard
<1> QED BY <1>1, <1>3, <1>6 DEF Occupied

\* In particular it is a board, with the cell placed last.
LEMMA WithTileKeeps ==
  ASSUME NEW b, IsBoard(b), NEW c \in Hexes \ Occupied(b), NEW tile \in Tiles, NEW r \in Edges
  PROVE  IsBoard(WithTile(b, c, tile, r)) /\ WithTile(b, c, tile, r).placed = Append(b.placed, c)
BY WithTileIs, ZenonT(30)

\* Lifting it again, and turning it.
LEMMA TileUndone ==
  ASSUME NEW b, IsBoard(b), NEW c \in Hexes \ Occupied(b), NEW tile \in Tiles, NEW r \in Edges, NEW q \in Edges
  PROVE  /\ WithoutTile(WithTile(b, c, tile, r), c) = b
         /\ Last(WithTile(b, c, tile, r).placed) = c
         /\ SetPlacedRotation(WithTile(b, c, tile, r), c, q) = WithTile(b, c, tile, q)
<1> DEFINE cell(s) == [tile |-> tile, rotation |-> s, wildlife |-> None]
           cells(s) == [x \in Occupied(b) \cup {c} |-> IF x = c THEN cell(s) ELSE b.cells[x]]
           t(s) == [cells |-> cells(s), placed |-> Append(b.placed, c), tokens |-> b.tokens]
<1>0. b.cells \in [Occupied(b) -> Cell] /\ b.placed \in Seq(Hexes) /\ b.tokens \in Nat
  BY OccupiedIs DEF IsBoard
<1>1. \A s : WithTile(b, c, tile, s) = t(s)
  BY DEF WithTile, IsBoard
<1>2. WithoutTile(t(r), c) = b
  <2>1. b = [cells |-> b.cells, placed |-> b.placed, tokens |-> b.tokens]
    BY DEF IsBoard
  <2>2. Restrict(cells(r), Occupied(t(r)) \ {c}) = b.cells
    <3>1. Occupied(t(r)) \ {c} = Occupied(b)
      BY DEF Occupied
    <3> QED BY <1>0, <3>1 DEF Restrict
  <2>3. Front(Append(b.placed, c)) = b.placed
    BY <1>0 DEF Front
  <2> HIDE DEF cells
  <2> QED BY <2>1, <2>2, <2>3 DEF WithoutTile
<1>3. Last(t(r).placed) = c
  BY <1>0 DEF Last
<1>4. SetPlacedRotation(t(r), c, q) = t(q)
  <2>1. cells(r)[c] = cell(r) /\ [cell(r) EXCEPT !.rotation = q] = cell(q)
    OBVIOUS
  <2>2. [cells(r) EXCEPT ![c] = cell(q)] = cells(q)
    <3> HIDE DEF cell
    <3> QED OBVIOUS
  <2>3. [cells(r) EXCEPT ![c].rotation = q] = cells(q)
    <3> HIDE DEF cell, cells
    <3> QED BY <2>1, <2>2
  <2>4. ASSUME NEW C, NEW P, NEW T
        PROVE  [[cells |-> C, placed |-> P, tokens |-> T] EXCEPT !.cells[c].rotation = q]
               = [cells |-> [C EXCEPT ![c].rotation = q], placed |-> P, tokens |-> T]
    OBVIOUS
  <2>5. SetPlacedRotation(t(r), c, q)
        = [cells |-> [cells(r) EXCEPT ![c].rotation = q], placed |-> Append(b.placed, c), tokens |-> b.tokens]
    <3> HIDE DEF cells
    <3> QED BY <2>4 DEF SetPlacedRotation
  <2> QED BY <2>3, <2>5
<1> HIDE DEF t
<1> QED BY <1>1, <1>2, <1>3, <1>4

\* A wildlife token on a cell of the board, and taken off again.
LEMMA WithWildlifeIs ==
  ASSUME NEW b, IsBoard(b), NEW w \in Wildlife, NEW c, CanPlaceWildlife(b, c, w)
  PROVE  /\ IsBoard(WithWildlife(b, c, w))
         /\ WithWildlife(b, c, w).placed = b.placed
         /\ WithoutWildlife(WithWildlife(b, c, w), c) = b
<1> DEFINE cell == [b.cells[c] EXCEPT !.wildlife = w]
           cells == [b.cells EXCEPT ![c] = cell]
           t == [cells |-> cells, placed |-> b.placed, tokens |-> b.tokens + Award(b, c)]
<1>0. /\ b.cells \in [Occupied(b) -> Cell] /\ b.placed \in Seq(Hexes) /\ b.tokens \in Nat
      /\ b = [cells |-> b.cells, placed |-> b.placed, tokens |-> b.tokens]
      /\ c \in Occupied(b) /\ b.cells[c].wildlife = None
  BY OccupiedIs DEF IsBoard, CanPlaceWildlife
<1>1. WithWildlife(b, c, w) = t
  BY <1>0 DEF WithWildlife
<1>2. Award(b, c) \in Nat
  BY DEF Award
<1>3. cell \in Cell /\ cell.tile = b.cells[c].tile /\ [cell EXCEPT !.wildlife = None] = b.cells[c]
  BY <1>0 DEF Cell
<1> HIDE DEF cell
<1>4. cells \in [Occupied(b) -> Cell] /\ cells[c] = cell /\ [cells EXCEPT ![c] = b.cells[c]] = b.cells
  BY <1>0, <1>3
<1> HIDE DEF cells
<1>5. IsBoard(t)
  BY <1>0, <1>2, <1>4, OccupiedIs DEF IsBoard
<1>6. Award(t, c) = Award(b, c)
  BY <1>3, <1>4 DEF Award
<1>7. WithoutWildlife(t, c) = b
  <2>1. [t.cells EXCEPT ![c].wildlife = None] = b.cells
    BY <1>3, <1>4
  <2>2. t.tokens - Award(t, c) = b.tokens
    BY <1>0, <1>2, <1>6
  <2> QED BY <1>0, <2>1, <2>2 DEF WithoutWildlife
<1> QED BY <1>1, <1>5, <1>7

AnyBoard == [cells : UNION {[S -> Cell] : S \in SUBSET Hexes}, placed : Seq(Hexes), tokens : Nat]

\* The starter's board is reached one tile at a time.
LEMMA StarterUnfolds ==
  ASSUME NEW starter \in Seq(Hexes \X Tiles \X Edges)
  PROVE  \E f \in [0..Len(starter) -> AnyBoard] :
           /\ f[0] = EmptyBoard
           /\ \A i \in 1..Len(starter) : f[i] = WithTile(f[i - 1], starter[i][1], starter[i][2], starter[i][3])
           /\ FromStarter(starter) = f[Len(starter)]
<1> DEFINE N == Len(starter)
           with(x, i) == WithTile(x, starter[i][1], starter[i][2], starter[i][3])
           step == [p \in (1..N) \X AnyBoard |-> with(p[2], p[1])]
           Eqn(h) == h = [n \in 0..N |-> IF n = 0 THEN EmptyBoard ELSE with(h[n - 1], n)]
           upTo == CHOOSE h : Eqn(h)
<1>0. N \in Nat
  OBVIOUS
<1>1. \A x \in AnyBoard, i \in 1..N : with(x, i) \in AnyBoard
  <2> SUFFICES ASSUME NEW x \in AnyBoard, NEW i \in 1..N PROVE with(x, i) \in AnyBoard
    OBVIOUS
  <2> DEFINE c == starter[i][1]
             cell == [tile |-> starter[i][2], rotation |-> starter[i][3], wildlife |-> None]
             cells == [y \in Occupied(x) \cup {c} |-> IF y = c THEN cell ELSE x.cells[y]]
  <2>1. c \in Hexes /\ cell \in Cell
    BY DEF Cell
  <2>2. PICK S \in SUBSET Hexes : x.cells \in [S -> Cell]
    BY DEF AnyBoard
  <2>3. Occupied(x) = S
    BY <2>2 DEF Occupied
  <2>4. cells \in [S \cup {c} -> Cell] /\ S \cup {c} \in SUBSET Hexes
    <3> HIDE DEF cell, c
    <3> QED BY <2>1, <2>2, <2>3
  <2>5. with(x, i) = [cells |-> cells, placed |-> Append(x.placed, c), tokens |-> x.tokens]
    BY DEF WithTile
  <2>6. Append(x.placed, c) \in Seq(Hexes) /\ x.tokens \in Nat
    <3> HIDE DEF c
    <3> QED BY <2>1 DEF AnyBoard
  <2>7. cells \in UNION {[T -> Cell] : T \in SUBSET Hexes}
    <3> HIDE DEF cells
    <3> QED BY <2>4
  <2> HIDE DEF with, cells, c
  <2> QED BY <2>5, <2>6, <2>7 DEF AnyBoard
<1>2. EmptyBoard \in AnyBoard
  <2>1. << >> \in [{} -> Cell] /\ {} \in SUBSET Hexes /\ <<>> \in Seq(Hexes)
    OBVIOUS
  <2>2. << >> \in UNION {[T -> Cell] : T \in SUBSET Hexes}
    BY <2>1
  <2> QED BY <2>1, <2>2 DEF EmptyBoard, AnyBoard
<1>3. step \in [(1..N) \X AnyBoard -> AnyBoard]
  <2> HIDE DEF with
  <2> QED BY <1>1
<1>4. PICK f \in [0..N -> AnyBoard] : Follows(f, EmptyBoard, step, N)
  <2> HIDE DEF step
  <2> QED BY <1>0, <1>2, <1>3, Recursion
<1>5. f[0] = EmptyBoard /\ \A i \in 1..N : f[i] = with(f[i - 1], i)
  <2>1. ASSUME NEW i \in 1..N PROVE f[i] = with(f[i - 1], i)
    <3>1. i - 1 \in 0..N
      OBVIOUS
    <3> HIDE DEF with
    <3> QED BY <1>4, <3>1 DEF Follows
  <2> QED BY <1>4, <2>1 DEF Follows
<1>6. Eqn(f)
  <2> HIDE DEF with
  <2>1. ASSUME NEW n \in 0..N PROVE f[n] = IF n = 0 THEN EmptyBoard ELSE with(f[n - 1], n)
    BY <1>5
  <2> QED BY <2>1
<1>7. Eqn(upTo)
  <2> HIDE DEF Eqn
  <2> QED BY <1>6
<1>8. FromStarter(starter) = upTo[N]
  BY DEF FromStarter
<1> HIDE DEF upTo
<1>9. upTo[0] = EmptyBoard /\ \A i \in 1..N : upTo[i] = with(upTo[i - 1], i)
  <2> HIDE DEF with
  <2>1. \A n \in 0..N : upTo[n] = IF n = 0 THEN EmptyBoard ELSE with(upTo[n - 1], n)
    BY <1>7
  <2> QED BY <1>0, <2>1
<1> DEFINE Same == {n \in 0..N : upTo[n] = f[n]}
<1>10. 0 \in Same
  BY <1>0, <1>5, <1>9
<1>11. ASSUME NEW n \in 0..(N - 1), n \in Same PROVE n + 1 \in Same
  <2>1. n + 1 \in 1..N /\ (n + 1) - 1 = n
    OBVIOUS
  <2>2. upTo[n + 1] = with(upTo[n], n + 1) /\ f[n + 1] = with(f[n], n + 1)
    <3> HIDE DEF with
    <3> QED BY <2>1, <1>5, <1>9
  <2> HIDE DEF with
  <2> QED BY <1>11, <2>1, <2>2
<1>12. N \in Same
  <2> HIDE DEF Same
  <2> QED BY <1>0, <1>10, <1>11, ReachesEnd
<1> QED BY <1>5, <1>8, <1>12

\* A starter cluster makes a board of as many tiles.
LEMMA StarterIs ==
  ASSUME NEW starter \in Starters
  PROVE  LET placed == FromStarter(starter).placed
         IN  /\ IsBoard(FromStarter(starter)) /\ placed # <<>> /\ Len(placed) + Turns <= MaxBoardTiles
             /\ \A i \in 1..Len(placed) : Distance(placed[i]) < Len(placed)
<1>1. /\ starter \in Seq(Hexes \X Tiles \X Edges) /\ starter # <<>>
      /\ \A i, j \in 1..Len(starter) : i # j => starter[i][1] # starter[j][1]
      /\ \A i \in 1..Len(starter) : Distance(starter[i][1]) < Len(starter)
      /\ Len(starter) + Turns <= MaxBoardTiles
  BY TurnsAssumption
<1> DEFINE N == Len(starter)
<1>2. N \in Nat /\ N # 0
  BY <1>1
<1>3. PICK f \in [0..N -> AnyBoard] :
        /\ f[0] = EmptyBoard
        /\ \A i \in 1..N : f[i] = WithTile(f[i - 1], starter[i][1], starter[i][2], starter[i][3])
        /\ FromStarter(starter) = f[N]
  BY <1>1, StarterUnfolds
<1> DEFINE Good(n) == /\ IsBoard(f[n]) /\ Len(f[n].placed) = n
                      /\ \A i \in 1..n : f[n].placed[i] = starter[i][1]
           K == {n \in 0..N : Good(n)}
<1>4. 0 \in K
  <2>1. << >> \in [{} -> Cell] /\ <<>> \in Seq(Hexes)
    OBVIOUS
  <2>2. ToSet(<<>>) = {}
    BY DEF ToSet
  <2>3. IsBoard(EmptyBoard)
    BY <2>1, <2>2 DEF EmptyBoard, IsBoard, IsInjective
  <2>4. EmptyBoard.placed = <<>>
    BY DEF EmptyBoard
  <2> QED BY <1>2, <1>3, <2>3, <2>4
<1>5. ASSUME NEW n \in 0..(N - 1), n \in K PROVE n + 1 \in K
  <2> DEFINE c == starter[n + 1][1]
             tile == starter[n + 1][2]
             r == starter[n + 1][3]
             b == f[n]
  <2>1. n + 1 \in 1..N /\ (n + 1) - 1 = n /\ n + 1 \in 0..N
    OBVIOUS
  <2>2. c \in Hexes /\ tile \in Tiles /\ r \in Edges
    BY <1>1, <2>1
  <2>3. f[n + 1] = WithTile(b, c, tile, r)
    BY <1>3, <2>1
  <2>4. IsBoard(b) /\ b.placed \in Seq(Hexes)
    BY <1>5 DEF IsBoard
  <2>5. c \notin Occupied(b)
    <3>1. \A i \in 1..n : b.placed[i] # c
      BY <1>1, <1>5, <2>1
    <3>2. Len(b.placed) = n
      BY <1>5
    <3> HIDE DEF b, c
    <3>3. Occupied(b) = ToSet(b.placed) /\ \A x \in ToSet(b.placed) : \E i \in 1..Len(b.placed) : x = b.placed[i]
      BY <2>4, OccupiedIs, ToSetPlaces
    <3> QED BY <3>1, <3>2, <3>3
  <2>6. IsBoard(f[n + 1]) /\ f[n + 1].placed = Append(b.placed, c)
    <3> HIDE DEF c, tile, r, b
    <3>1. IsBoard(b) /\ c \in Hexes \ Occupied(b) /\ tile \in Tiles /\ r \in Edges
      BY <2>2, <2>4, <2>5
    <3>2. IsBoard(WithTile(b, c, tile, r)) /\ WithTile(b, c, tile, r).placed = Append(b.placed, c)
      BY <3>1, WithTileKeeps
    <3> QED BY <2>3, <3>2
  <2>7. Len(f[n + 1].placed) = n + 1
    BY <1>5, <2>4, <2>6
  <2>8. ASSUME NEW i \in 1..(n + 1) PROVE f[n + 1].placed[i] = starter[i][1]
    BY <1>5, <2>4, <2>6
  <2> QED BY <2>1, <2>6, <2>7, <2>8
<1>6. N \in K
  <2> HIDE DEF K
  <2> QED BY <1>2, <1>4, <1>5, ReachesEnd
<1> QED BY <1>1, <1>2, <1>3, <1>6

-----------------------------------------------------------------------------
(* Wildlife placements.                                                     *)

If1(p, x) == IF p THEN <<x>> ELSE <<>>
Accumulates(f, s, A) == f[0] = <<>> /\ \A i \in 1..Len(s) : f[i] = f[i - 1] \o If1(s[i] \in A, s[i])

\* The cells that are open to a species, one placed cell at a time.
LEMMA PlacementsUnfold ==
  ASSUME NEW b, IsBoard(b), NEW w
  PROVE  \E f \in [0..Len(b.placed) -> Seq(Hexes)] :
           Accumulates(f, b.placed, Open(b, w)) /\ WildlifePlacements(b, w) = f[Len(b.placed)]
<1> DEFINE N == Len(b.placed)
           s == b.placed
           open(c) == b.cells[c].wildlife = None /\ w \in b.cells[c].tile.wildlife
           more(i) == IF open(b.placed[i]) THEN <<b.placed[i]>> ELSE <<>>
           with(x, i) == x \o more(i)
           T == Seq(Hexes)
           step == [p \in (1..N) \X T |-> with(p[2], p[1])]
           Eqn(h) == h = [n \in 0..N |-> IF n = 0 THEN <<>>
                                         ELSE with(h[n - 1], n)]
           upTo == CHOOSE h : Eqn(h)
<1>0. s \in Seq(Hexes) /\ N \in Nat /\ <<>> \in T
  BY DEF IsBoard
<1>1. ASSUME NEW i \in 1..N PROVE more(i) \in T
  <2>1. s[i] \in Hexes
    BY <1>0
  <2>2. <<s[i]>> \in Seq(Hexes)
    BY <2>1
  <2> QED BY <1>0, <2>2
<1>2. step \in [(1..N) \X T -> T]
  <2>1. \A x \in T, i \in 1..N : with(x, i) \in T
    <3> HIDE DEF more
    <3> QED BY <1>1
  <2> HIDE DEF with
  <2> QED BY <2>1
<1>3. PICK f \in [0..N -> T] : Follows(f, <<>>, step, N)
  <2> HIDE DEF step, T
  <2> QED BY <1>0, <1>2, Recursion
<1>4. f[0] = <<>> /\ \A i \in 1..N : f[i] = with(f[i - 1], i)
  <2>1. ASSUME NEW i \in 1..N PROVE f[i] = with(f[i - 1], i)
    <3>1. i - 1 \in 0..N
      OBVIOUS
    <3> HIDE DEF with
    <3> QED BY <1>3, <3>1 DEF Follows
  <2> QED BY <1>3, <2>1 DEF Follows
<1>5. Eqn(f)
  <2> HIDE DEF with
  <2>1. ASSUME NEW n \in 0..N PROVE f[n] = IF n = 0 THEN <<>> ELSE with(f[n - 1], n)
    BY <1>4
  <2> QED BY <2>1
<1>6. Eqn(upTo)
  <2> HIDE DEF Eqn
  <2> QED BY <1>5
<1>7. WildlifePlacements(b, w) = upTo[N]
  BY DEF WildlifePlacements
<1> HIDE DEF upTo
<1>8. upTo[0] = <<>> /\ \A i \in 1..N : upTo[i] = with(upTo[i - 1], i)
  <2> HIDE DEF with
  <2>1. \A n \in 0..N : upTo[n] = IF n = 0 THEN <<>> ELSE with(upTo[n - 1], n)
    BY <1>6
  <2> QED BY <1>0, <2>1
<1> DEFINE Same == {n \in 0..N : upTo[n] = f[n]}
<1>10. 0 \in Same
  <2>1. 0 \in 0..N /\ upTo[0] = f[0]
    <3> HIDE DEF with
    <3> QED BY <1>0, <1>4, <1>8
  <2> QED BY <2>1
<1>11. ASSUME NEW n \in 0..(N - 1), n \in Same PROVE n + 1 \in Same
  <2>1. n + 1 \in 1..N /\ (n + 1) - 1 = n
    OBVIOUS
  <2>2. upTo[n + 1] = with(upTo[n], n + 1) /\ f[n + 1] = with(f[n], n + 1)
    <3> HIDE DEF with
    <3> QED BY <2>1, <1>4, <1>8
  <2> HIDE DEF with
  <2> QED BY <1>11, <2>1, <2>2
<1>12. N \in Same
  <2> HIDE DEF Same
  <2> QED BY <1>0, <1>10, <1>11, ReachesEnd
<1>13. \A i \in 1..N : more(i) = If1(s[i] \in Open(b, w), s[i])
  <2>1. \A i \in 1..N : s[i] \in Occupied(b)
    BY <1>0, OccupiedIs, ToSetPlaces
  <2> QED BY <2>1 DEF Open, If1
<1>14. Accumulates(f, s, Open(b, w))
  <2> HIDE DEF more
  <2> QED BY <1>4, <1>13 DEF Accumulates
<1> QED BY <1>7, <1>12, <1>14

\* Each open cell once.
LEMMA PlacementsAre ==
  ASSUME NEW b, IsBoard(b), NEW w
  PROVE  /\ WildlifePlacements(b, w) \in Seq(Hexes) /\ IsInjective(WildlifePlacements(b, w))
         /\ ToSet(WildlifePlacements(b, w)) = Open(b, w)
<1> DEFINE s == b.placed
           N == Len(s)
           A == Open(b, w)
<1>0. s \in Seq(Hexes) /\ N \in Nat /\ IsInjective(s) /\ A \subseteq ToSet(s)
  BY OccupiedIs DEF IsBoard, Open
<1>1. PICK f \in [0..N -> Seq(Hexes)] : Accumulates(f, s, A) /\ WildlifePlacements(b, w) = f[N]
  BY PlacementsUnfold
<1> HIDE DEF A
<1> DEFINE Upto(n) == {s[i] : i \in 1..n} \cap A
           K == {n \in 0..N : IsInjective(f[n]) /\ ToSet(f[n]) = Upto(n)}
<1>2. 0 \in K
  <2>1. f[0] = <<>> /\ 1..0 = {}
    BY <1>1 DEF Accumulates
  <2>2. ToSet(<<>>) = {} /\ IsInjective(<<>>)
    BY DEF ToSet, IsInjective
  <2>3. Upto(0) = {}
    BY <2>1
  <2> HIDE DEF Upto
  <2> QED BY <1>0, <2>1, <2>2, <2>3, SMTT(30)
<1>3. ASSUME NEW n \in 0..(N - 1), n \in K PROVE n + 1 \in K
  <2> DEFINE x == s[n + 1]
  <2>1. n + 1 \in 1..N /\ (n + 1) - 1 = n /\ n \in 0..N /\ n + 1 \in 0..N
    OBVIOUS
  <2>2. x \in Hexes /\ f[n] \in Seq(Hexes)
    BY <1>0, <2>1
  <2>3. f[n + 1] = f[n] \o If1(x \in A, x)
    BY <1>1, <2>1 DEF Accumulates
  <2>4. \A i \in 1..n : s[i] # x
    BY <1>0, <2>1 DEF IsInjective
  <2>5. 1..(n + 1) = (1..n) \cup {n + 1}
    OBVIOUS
  <2>6. CASE x \in A
    <3>1. f[n + 1] = f[n] \o <<x>> /\ <<x>> \in Seq(Hexes)
      BY <2>2, <2>3, <2>6 DEF If1
    <3>2. ToSet(<<x>>) = {x} /\ IsInjective(<<x>>)
      BY DEF ToSet, IsInjective
    <3>3. ToSet(f[n]) \cap {x} = {} /\ IsInjective(f[n])
      BY <1>3, <2>4
    <3> HIDE DEF x
    <3>4. IsInjective(f[n + 1])
      BY <2>2, <3>1, <3>2, <3>3, InjectiveConcat
    <3>5. ToSet(f[n + 1]) = ToSet(f[n]) \cup {x}
      <4> DEFINE u == <<x>>
      <4>1. ToSet(f[n] \o u) = ToSet(f[n]) \cup ToSet(u)
        <5>1. f[n] \in Seq(Hexes) /\ u \in Seq(Hexes)
          BY <2>2, <3>1
        <5> HIDE DEF u
        <5> QED BY <5>1, ToSetConcat
      <4> HIDE DEF Upto
      <4> QED BY <3>1, <3>2, <4>1
    <3>6. Upto(n + 1) = Upto(n) \cup {x}
      BY <2>5, <2>6 DEF x
    <3> HIDE DEF Upto
    <3> QED BY <1>3, <2>1, <3>4, <3>5, <3>6
  <2>7. CASE x \notin A
    <3>1. f[n + 1] = f[n] \o <<>>
      BY <2>3, <2>7 DEF If1
    <3>2. f[n + 1] = f[n]
      BY <2>2, <3>1, ConcatEmptySeq
    <3>3. Upto(n + 1) = Upto(n)
      BY <2>5, <2>7
    <3> HIDE DEF Upto
    <3> QED BY <1>3, <2>1, <3>2, <3>3
  <2> QED BY <2>6, <2>7
<1>4. N \in K
  <2> HIDE DEF K
  <2> QED BY <1>0, <1>2, <1>3, ReachesEnd
<1>5. Upto(N) = A
  <2>1. \A x \in A : \E i \in 1..N : x = s[i]
    BY <1>0, ToSetPlaces
  <2> QED BY <2>1
<1> HIDE DEF Upto
<1> QED BY <1>0, <1>1, <1>4, <1>5 DEF A

\* What a further tile adds.
LEMMA PlacementsWithTile ==
  ASSUME NEW b, IsBoard(b), NEW c \in Hexes \ Occupied(b), NEW tile \in Tiles, NEW r \in Edges, NEW w
  PROVE  WildlifePlacements(WithTile(b, c, tile, r), w)
         = WildlifePlacements(b, w) \o (IF w \in tile.wildlife THEN <<c>> ELSE <<>>)
<1> DEFINE t == WithTile(b, c, tile, r)
           N == Len(b.placed)
<1>1. /\ IsBoard(t) /\ t.placed = Append(b.placed, c)
      /\ Occupied(t) = Occupied(b) \cup {c}
      /\ t.cells[c] = [tile |-> tile, rotation |-> r, wildlife |-> None]
      /\ \A x \in Occupied(b) : t.cells[x] = b.cells[x]
  BY WithTileIs
<1> HIDE DEF t
<1>2. b.placed \in Seq(Hexes) /\ N \in Nat /\ Len(t.placed) = N + 1 /\ t.placed[N + 1] = c
      /\ \A i \in 1..N : t.placed[i] = b.placed[i] /\ b.placed[i] \in Occupied(b)
  BY <1>1, OccupiedIs, ToSetPlaces DEF IsBoard
<1>3. PICK f \in [0..N -> Seq(Hexes)] :
        Accumulates(f, b.placed, Open(b, w)) /\ WildlifePlacements(b, w) = f[N]
  BY PlacementsUnfold
<1>4. PICK g \in [0..Len(t.placed) -> Seq(Hexes)] :
        Accumulates(g, t.placed, Open(t, w)) /\ WildlifePlacements(t, w) = g[N + 1]
  <2>1. \E g \in [0..Len(t.placed) -> Seq(Hexes)] :
          Accumulates(g, t.placed, Open(t, w)) /\ WildlifePlacements(t, w) = g[Len(t.placed)]
    BY <1>1, PlacementsUnfold
  <2> QED BY <1>2, <2>1
<1>5. \A x \in Occupied(b) : x \in Open(t, w) <=> x \in Open(b, w)
  BY <1>1 DEF Open
<1>6. c \in Open(t, w) <=> w \in tile.wildlife
  BY <1>1 DEF Open
<1> DEFINE Same == {n \in 0..N : g[n] = f[n]}
<1>7. 0 \in Same
  BY <1>2, <1>3, <1>4 DEF Accumulates
<1>8. ASSUME NEW n \in 0..(N - 1), n \in Same PROVE n + 1 \in Same
  <2>1. n + 1 \in 1..N /\ (n + 1) - 1 = n /\ n + 1 \in 0..N /\ n + 1 \in 1..Len(t.placed)
    BY <1>2
  <2> DEFINE x == b.placed[n + 1]
  <2>2. t.placed[n + 1] = x /\ (x \in Open(t, w) <=> x \in Open(b, w))
    BY <1>2, <1>5, <2>1
  <2>3. f[n + 1] = f[n] \o If1(x \in Open(b, w), x)
    BY <1>3, <2>1 DEF Accumulates
  <2>4. g[n + 1] = g[n] \o If1(x \in Open(t, w), x)
    BY <1>4, <2>1, <2>2 DEF Accumulates
  <2> HIDE DEF x
  <2>5. If1(x \in Open(t, w), x) = If1(x \in Open(b, w), x)
    BY <2>2 DEF If1
  <2> QED BY <1>8, <2>1, <2>3, <2>4, <2>5
<1>9. N \in Same
  <2> HIDE DEF Same
  <2> QED BY <1>2, <1>7, <1>8, ReachesEnd
<1>10. g[N + 1] = g[N] \o If1(c \in Open(t, w), c)
  <2>1. N + 1 \in 1..Len(t.placed) /\ (N + 1) - 1 = N
    BY <1>2
  <2> QED BY <1>2, <1>4, <2>1 DEF Accumulates
<1>11. If1(c \in Open(t, w), c) = IF w \in tile.wildlife THEN <<c>> ELSE <<>>
  BY <1>6 DEF If1
<1> QED BY <1>3, <1>4, <1>9, <1>10, <1>11 DEF t

-----------------------------------------------------------------------------
(* What can be drafted and placed.                                          *)

Kinds == {Paired(s) : s \in 1..Slots} \cup {IndependentDraft(k) : k \in 1..(Slots * Slots)}

\* An independent draft names two slots, and its number is known from them.
LEMMA IndependentIs ==
  ASSUME NEW k \in 1..(Slots * Slots)
  PROVE  LET d == IndependentDraft(k)
         IN  /\ d.tile_slot \in 1..Slots /\ d.wildlife_slot \in 1..Slots /\ d.independent = TRUE
             /\ k = (Slots * (d.tile_slot - 1)) + d.wildlife_slot
<1> DEFINE n == k - 1
           q == n \div Slots
           r == n % Slots
<1>0. Slots \in Nat
  BY TurnsAssumption
<1>1. Slots # 0
  <2>1. Slots = 0 => Slots * Slots = 0
    OBVIOUS
  <2> QED BY <1>0, <2>1
<1>2. n \in Nat /\ n < Slots * Slots
  BY <1>0
<1> HIDE DEF n
<1>3. n = (Slots * q) + r
  BY <1>0, <1>1, <1>2
<1>4. r \in 0..(Slots - 1) /\ q \in Nat
  BY <1>0, <1>1, <1>2
<1> HIDE DEF q, r
<1>5. q < Slots
  <2> SUFFICES ASSUME q >= Slots PROVE FALSE
    BY <1>0, <1>4
  <2>1. Slots * q >= Slots * Slots
    BY <1>0, <1>4
  <2>2. Slots * q \in Nat /\ Slots * Slots \in Nat
    BY <1>0, <1>4
  <2> QED BY <1>2, <1>3, <1>4, <2>1, <2>2
<1>6. q + 1 \in 1..Slots /\ r + 1 \in 1..Slots
  BY <1>0, <1>4, <1>5
<1>7. IndependentDraft(k) = [tile_slot |-> q + 1, wildlife_slot |-> r + 1, independent |-> TRUE]
  BY DEF IndependentDraft, n, q, r
<1>8. k = (Slots * ((q + 1) - 1)) + (r + 1)
  <2>1. (q + 1) - 1 = q /\ Slots * q \in Nat
    BY <1>0, <1>4
  <2>2. k = n + 1
    BY DEF n
  <2> QED BY <1>3, <1>4, <2>1, <2>2
<1> HIDE DEF IndependentDraft
<1> QED BY <1>6, <1>7, <1>8

\* A paired draft names one slot.
LEMMA PairedIs ==
  ASSUME NEW s \in 1..Slots
  PROVE  Paired(s).tile_slot = s /\ Paired(s).wildlife_slot = s /\ Paired(s).independent = FALSE
BY DEF Paired

IsGame(g) ==
  /\ IsBoard(g.board) /\ g.board.placed # <<>>
  /\ g.market \in Offers
  /\ g.completed_turns \in 0..(Turns - 1)
  /\ Len(g.board.placed) + (Turns - g.completed_turns) <= MaxBoardTiles

\* What a draft takes from the market is a tile and a species.
LEMMA KindIs ==
  ASSUME NEW g, IsGame(g), NEW d \in Kinds
  PROVE  TileOf(g, d) \in Tiles /\ TokenOf(g, d) \in Wildlife /\ d.independent \in BOOLEAN
<1>1. d.tile_slot \in 1..Slots /\ d.wildlife_slot \in 1..Slots /\ d.independent \in BOOLEAN
  <2>1. CASE d \in {Paired(s) : s \in 1..Slots}
    BY <2>1, PairedIs
  <2>2. CASE d \in {IndependentDraft(k) : k \in 1..(Slots * Slots)}
    <3>1. PICK k \in 1..(Slots * Slots) : d = IndependentDraft(k)
      BY <2>2
    <3> QED BY <3>1, IndependentIs
  <2> QED BY <2>1, <2>2 DEF Kinds
<1>2. g.market \in [1..Slots -> [tile : Tiles, wildlife : Wildlife]]
  BY TurnsAssumption DEF IsGame
<1> QED BY <1>1, <1>2 DEF TileOf, TokenOf

Affordable(g, d) == d.independent => g.board.tokens > 0

\* Each draft that can be paid is listed once.
LEMMA DraftsAre ==
  ASSUME NEW g, IsGame(g)
  PROVE  /\ Drafts(g) \in Seq(Kinds) /\ IsInjective(Drafts(g))
         /\ \A i \in 1..Len(Drafts(g)) : Affordable(g, Drafts(g)[i])
         /\ \A d \in Kinds : Affordable(g, d) => \E i \in 1..Len(Drafts(g)) : Drafts(g)[i] = d
<1> DEFINE S == Slots * Slots
           p == [s \in 1..Slots |-> Paired(s)]
           a == [k \in 1..S |-> IndependentDraft(k)]
           e == IF g.board.tokens > 0 THEN a ELSE <<>>
<1>0. Slots \in Nat /\ S \in Nat
  BY TurnsAssumption
<1>1. Drafts(g) = p \o e
  BY DEF Drafts
<1>2. \A k \in 1..S : IndependentDraft(k) \in Kinds /\ IndependentDraft(k).independent = TRUE
  BY IndependentIs DEF Kinds
<1>3. \A s \in 1..Slots : Paired(s) \in Kinds /\ Paired(s).independent = FALSE
  BY PairedIs DEF Kinds
<1>4. p \in Seq(Kinds) /\ Len(p) = Slots /\ IsInjective(p)
  <2>1. p \in [1..Slots -> Kinds]
    BY <1>3
  <2>2. IsInjective(p)
    <3> SUFFICES ASSUME NEW s \in 1..Slots, NEW t \in 1..Slots, Paired(s) = Paired(t) PROVE s = t
      BY DEF IsInjective
    <3> QED BY PairedIs
  <2> QED BY <1>0, <2>1, <2>2
<1>5. a \in Seq(Kinds) /\ Len(a) = S /\ IsInjective(a)
  <2>1. a \in [1..S -> Kinds]
    BY <1>2
  <2>2. IsInjective(a)
    <3> SUFFICES ASSUME NEW k \in 1..S, NEW l \in 1..S, IndependentDraft(k) = IndependentDraft(l) PROVE k = l
      BY DEF IsInjective
    <3> QED BY IndependentIs
  <2> QED BY <1>0, <2>1, <2>2
<1>6. e \in Seq(Kinds) /\ IsInjective(e) /\ \A k \in 1..Len(e) : e[k].independent = TRUE /\ g.board.tokens > 0
  <2>1. CASE g.board.tokens > 0
    BY <1>2, <1>5, <2>1
  <2>2. CASE ~(g.board.tokens > 0)
    <3>1. e = <<>>
      BY <2>2
    <3>2. <<>> \in Seq(Kinds) /\ IsInjective(<<>>) /\ 1..Len(<<>>) = {}
      BY DEF IsInjective
    <3> HIDE DEF e
    <3> QED BY <3>1, <3>2
  <2> QED BY <2>1, <2>2
<1>7. \A k \in 1..Len(p) : p[k].independent = FALSE
  BY <1>3, <1>4
<1>8. \A d \in Kinds : Affordable(g, d) => \/ \E i \in 1..Len(p) : p[i] = d
                                           \/ \E i \in 1..Len(e) : e[i] = d
  <2> SUFFICES ASSUME NEW d \in Kinds, Affordable(g, d)
               PROVE  (\E i \in 1..Len(p) : p[i] = d) \/ (\E i \in 1..Len(e) : e[i] = d)
    OBVIOUS
  <2>1. CASE \E s \in 1..Slots : d = Paired(s)
    BY <1>4, <2>1
  <2>2. CASE \E k \in 1..S : d = IndependentDraft(k)
    BY <1>2, <1>5, <2>2 DEF Affordable
  <2> QED BY <2>1, <2>2 DEF Kinds
<1> HIDE DEF p, e
<1>9. ToSet(p) \cap ToSet(e) = {}
  BY <1>4, <1>6, <1>7, ToSetPlaces
<1>10. IsInjective(p \o e)
  BY <1>4, <1>6, <1>9, InjectiveConcat
<1>11. /\ p \o e \in Seq(Kinds) /\ Len(p \o e) = Len(p) + Len(e) /\ Len(p) \in Nat /\ Len(e) \in Nat
       /\ \A i \in 1..Len(p) : (p \o e)[i] = p[i]
       /\ \A i \in 1..Len(e) : (p \o e)[Len(p) + i] = e[i]
  <2>1. p \in Seq(Kinds) /\ e \in Seq(Kinds)
    BY <1>4, <1>6
  <2> HIDE DEF Kinds
  <2> QED BY <2>1, ConcatAt
<1> DEFINE D == p \o e
<1>12. ASSUME NEW i \in 1..Len(D) PROVE Affordable(g, D[i])
  <2>1. i \in 1..Len(p) \/ (i - Len(p) \in 1..Len(e) /\ Len(p) + (i - Len(p)) = i)
    BY <1>11
  <2>2. CASE i \in 1..Len(p)
    BY <1>7, <1>11, <2>2 DEF Affordable
  <2>3. CASE i - Len(p) \in 1..Len(e) /\ Len(p) + (i - Len(p)) = i
    <3>1. D[i] = e[i - Len(p)]
      BY <1>11, <2>3
    <3> QED BY <1>6, <2>3, <3>1 DEF Affordable
  <2> QED BY <2>1, <2>2, <2>3
<1>13. ASSUME NEW d \in Kinds, Affordable(g, d) PROVE \E i \in 1..Len(D) : D[i] = d
  <2>1. CASE \E i \in 1..Len(p) : p[i] = d
    <3>1. PICK i \in 1..Len(p) : p[i] = d
      BY <2>1
    <3>2. i \in 1..Len(D) /\ D[i] = d
      BY <1>11, <3>1
    <3> QED BY <3>2
  <2>2. CASE \E i \in 1..Len(e) : e[i] = d
    <3>1. PICK i \in 1..Len(e) : e[i] = d
      BY <2>2
    <3>2. Len(p) + i \in 1..Len(D) /\ D[Len(p) + i] = d
      BY <1>11, <3>1
    <3> QED BY <3>2
  <2> QED BY <1>8, <1>13, <2>1, <2>2
<1> QED BY <1>1, <1>10, <1>11, <1>12, <1>13

\* The frontier as a sequence holds each cell of the frontier once.
LEMMA FrontierIs ==
  ASSUME NEW g, IsGame(g)
  PROVE  /\ FrontierOf(g) \in Seq(Hexes) /\ IsInjective(FrontierOf(g))
         /\ \A j \in 1..Len(FrontierOf(g)) : FrontierOf(g)[j] \in Frontier(g.board)
         /\ \A c \in Frontier(g.board) : \E j \in 1..Len(FrontierOf(g)) : FrontierOf(g)[j] = c
<1> DEFINE F == Frontier(g.board)
<1>1. F \in SUBSET Hexes
  BY DEF Frontier
<1> HIDE DEF F
<1>2. IsFiniteSet(F)
  BY <1>1, BoardAssumption, FS_Subset
<1> DEFINE q == SetToSeq(F)
<1>3. q \in Seq(F) /\ IsInjective(q) /\ \A x \in F : \E i \in 1..Len(q) : q[i] = x
  BY <1>2, SetToSeqIs
<1>4. FrontierOf(g) = q
  BY DEF FrontierOf, F
<1> HIDE DEF q
<1>5. q \in Seq(Hexes) /\ \A i \in 1..Len(q) : q[i] \in F
  BY <1>1, <1>3
<1> QED BY <1>3, <1>4, <1>5 DEF F

\* The rotations of a tile are different edges.
LEMMA RotationsAre ==
  ASSUME NEW tile
  PROVE  /\ RotationsOf(tile) \in Seq(Edges) /\ IsInjective(RotationsOf(tile))
         /\ 1 \in 1..Len(RotationsOf(tile))
<1>1. CASE tile.terrain_b = None
  BY <1>1 DEF RotationsOf, Edges, IsInjective
<1>2. CASE tile.terrain_b # None
  <2> DEFINE r == <<0, 1, 2, 3, 4, 5>>
  <2>1. r \in Seq(Edges) /\ Len(r) = 6
    BY DEF Edges
  <2>2. \A i \in 1..6 : r[i] = i - 1
    OBVIOUS
  <2>3. RotationsOf(tile) = r
    BY <1>2 DEF RotationsOf
  <2> HIDE DEF r
  <2>4. IsInjective(r) /\ 1 \in 1..Len(r)
    BY <2>1, <2>2 DEF IsInjective
  <2> QED BY <2>1, <2>3, <2>4
<1> QED BY <1>1, <1>2

-----------------------------------------------------------------------------
(* A draft that is paid, a tile that is placed.                             *)

Charged(g, d) == IF d.independent THEN [g.board EXCEPT !.tokens = @ - 1] ELSE g.board

\* Paying a nature token changes no cell.
LEMMA ChargedIs ==
  ASSUME NEW g, IsGame(g), NEW d \in Kinds, Affordable(g, d)
  PROVE  /\ IsBoard(Charged(g, d))
         /\ Charged(g, d).cells = g.board.cells /\ Charged(g, d).placed = g.board.placed
         /\ Occupied(Charged(g, d)) = Occupied(g.board)
         /\ Frontier(Charged(g, d)) = Frontier(g.board)
         /\ d.independent => [Charged(g, d) EXCEPT !.tokens = @ + 1] = g.board
<1> DEFINE b == g.board
<1>1. /\ b.cells \in [ToSet(b.placed) -> Cell] /\ b.placed \in Seq(Hexes) /\ b.tokens \in Nat
      /\ IsInjective(b.placed) /\ b = [cells |-> b.cells, placed |-> b.placed, tokens |-> b.tokens]
  BY DEF IsGame, IsBoard
<1>2. d.independent \in BOOLEAN
  BY KindIs
<1>3. CASE d.independent
  <2> DEFINE t == [cells |-> b.cells, placed |-> b.placed, tokens |-> b.tokens - 1]
  <2>1. Charged(g, d) = t
    BY <1>1, <1>3 DEF Charged
  <2>2. b.tokens - 1 \in Nat /\ (b.tokens - 1) + 1 = b.tokens
    BY <1>1, <1>3 DEF Affordable
  <2>3. IsBoard(t) /\ t.cells = b.cells /\ t.placed = b.placed
    BY <1>1, <2>2 DEF IsBoard
  <2>4. [t EXCEPT !.tokens = @ + 1] = b
    BY <1>1, <2>2
  <2> QED BY <2>1, <2>3, <2>4 DEF Occupied, Frontier
<1>4. CASE ~d.independent
  BY <1>4 DEF Charged, IsGame
<1> QED BY <1>2, <1>3, <1>4

Rotations(g, i) == RotationsOf(TileOf(g, Drafts(g)[i]))
SpotsAt(g, i, j) == Placements(g, Drafts(g)[i], FrontierOf(g)[j])
InRange(g, i, j, r) ==
  i \in 1..Len(Drafts(g)) /\ j \in 1..Len(FrontierOf(g)) /\ r \in 1..Len(Rotations(g, i))
TileAt(g, i, j, r) ==
  WithTile(Charged(g, Drafts(g)[i]), FrontierOf(g)[j], TileOf(g, Drafts(g)[i]), Rotations(g, i)[r])
TurnAt(g, i, j, r, k) ==
  [draft |-> Drafts(g)[i], coord |-> FrontierOf(g)[j], rotation |-> Rotations(g, i)[r],
   wildlife |-> IF k = 0 THEN Nowhere ELSE SpotsAt(g, i, j)[k]]

\* What is drafted, where it goes and how it is turned.
LEMMA RangeIs ==
  ASSUME NEW g, IsGame(g), NEW i, NEW j, NEW r, InRange(g, i, j, r)
  PROVE  LET d == Drafts(g)[i]
             c == FrontierOf(g)[j]
         IN  /\ d \in Kinds /\ Affordable(g, d)
             /\ TileOf(g, d) \in Tiles /\ TokenOf(g, d) \in Wildlife
             /\ c \in Hexes \ Occupied(g.board) /\ c \in Frontier(g.board)
             /\ Rotations(g, i)[r] \in Edges
<1> DEFINE d == Drafts(g)[i]
<1>1. d \in Kinds /\ Affordable(g, d)
  BY DraftsAre DEF InRange
<1>2. FrontierOf(g)[j] \in Frontier(g.board)
  BY FrontierIs DEF InRange
<1>3. FrontierOf(g)[j] \in Hexes \ Occupied(g.board)
  BY <1>2 DEF Frontier
<1>4. Rotations(g, i)[r] \in Edges
  BY RotationsAre DEF InRange, Rotations
<1> QED BY <1>1, <1>2, <1>3, <1>4, KindIs

\* The probe with the tile.
LEMMA TileAtIs ==
  ASSUME NEW g, IsGame(g), NEW i, NEW j, NEW r, InRange(g, i, j, r)
  PROVE  LET d == Drafts(g)[i]
             c == FrontierOf(g)[j]
             t == TileAt(g, i, j, r)
         IN  /\ IsBoard(t) /\ t.placed = Append(g.board.placed, c)
             /\ CanPlaceTile(Charged(g, d), c)
             /\ WildlifePlacements(t, TokenOf(g, d)) = SpotsAt(g, i, j)
             /\ \A x : CanPlaceWildlife(t, x, TokenOf(g, d)) <=>
                         \/ x \in Open(g.board, TokenOf(g, d))
                         \/ x = c /\ TokenOf(g, d) \in TileOf(g, d).wildlife
<1> DEFINE d == Drafts(g)[i]
           c == FrontierOf(g)[j]
           t == TileAt(g, i, j, r)
           b == Charged(g, d)
           tile == TileOf(g, d)
           w == TokenOf(g, d)
           q == Rotations(g, i)[r]
<1>1. /\ d \in Kinds /\ Affordable(g, d) /\ tile \in Tiles /\ w \in Wildlife
      /\ c \in Hexes \ Occupied(g.board) /\ c \in Frontier(g.board) /\ q \in Edges
  BY RangeIs
<1>2. /\ IsBoard(b) /\ b.cells = g.board.cells /\ b.placed = g.board.placed
      /\ Occupied(b) = Occupied(g.board) /\ Frontier(b) = Frontier(g.board)
  BY <1>1, ChargedIs
<1>3. t = WithTile(b, c, tile, q)
  BY DEF TileAt
<1> HIDE DEF d, c, t, b, tile, w, q
<1>4. /\ IsBoard(t) /\ t.placed = Append(b.placed, c) /\ Occupied(t) = Occupied(b) \cup {c}
      /\ t.cells[c] = [tile |-> tile, rotation |-> q, wildlife |-> None]
      /\ \A x \in Occupied(b) : t.cells[x] = b.cells[x]
  BY <1>1, <1>2, <1>3, WithTileIs, SMTT(30)
<1>5. CanPlaceTile(b, c)
  <2>1. Len(b.placed) < MaxBoardTiles
    <3>1. /\ Len(g.board.placed) + (Turns - g.completed_turns) <= MaxBoardTiles
          /\ g.completed_turns \in 0..(Turns - 1) /\ Turns \in Nat /\ MaxBoardTiles \in Nat
          /\ Len(g.board.placed) \in Nat
      BY TurnsAssumption, BoardAssumption DEF IsGame, IsBoard
    <3> QED BY <1>2, <3>1
  <2> QED BY <1>1, <1>2, <2>1 DEF CanPlaceTile
<1>6. WildlifePlacements(t, w) = SpotsAt(g, i, j)
  <2>1. WildlifePlacements(t, w) = WildlifePlacements(b, w) \o (IF w \in tile.wildlife THEN <<c>> ELSE <<>>)
    BY <1>1, <1>2, <1>3, PlacementsWithTile
  <2>2. WildlifePlacements(b, w) = WildlifePlacements(g.board, w)
    BY <1>2 DEF WildlifePlacements
  <2> QED BY <2>1, <2>2 DEF SpotsAt, Placements, w, tile, c, d
<1>7. ASSUME NEW x PROVE CanPlaceWildlife(t, x, w) <=> (x \in Open(g.board, w) \/ (x = c /\ w \in tile.wildlife))
  <2>1. CASE x = c
    <3>1. x \notin Open(g.board, w)
      BY <1>1, <2>1 DEF Open
    <3> QED BY <1>4, <2>1, <3>1 DEF CanPlaceWildlife
  <2>2. CASE x # c
    BY <1>2, <1>4, <2>2 DEF CanPlaceWildlife, Open
  <2> QED BY <2>1, <2>2
<1> QED BY <1>2, <1>4, <1>5, <1>6, <1>7 DEF d, c, t, b, tile, w, q

\* The wildlife placements: each where a token may go, once; as many for each cell.
LEMMA SpotsAre ==
  ASSUME NEW g, IsGame(g), NEW i, NEW j, NEW r, InRange(g, i, j, r)
  PROVE  LET s == SpotsAt(g, i, j)
             w == TokenOf(g, Drafts(g)[i])
         IN  /\ s \in Seq(Hexes) /\ IsInjective(s)
             /\ \A k \in 1..Len(s) : CanPlaceWildlife(TileAt(g, i, j, r), s[k], w)
             /\ \A x : CanPlaceWildlife(TileAt(g, i, j, r), x, w) => \E k \in 1..Len(s) : s[k] = x
             /\ Len(s) = Len(WildlifePlacements(g.board, w))
                         + (IF w \in TileOf(g, Drafts(g)[i]).wildlife THEN 1 ELSE 0)
<1> DEFINE s == SpotsAt(g, i, j)
           t == TileAt(g, i, j, r)
           w == TokenOf(g, Drafts(g)[i])
           tile == TileOf(g, Drafts(g)[i])
           c == FrontierOf(g)[j]
           v == WildlifePlacements(g.board, w)
           u == IF w \in tile.wildlife THEN <<c>> ELSE <<>>
<1>1. IsBoard(t) /\ WildlifePlacements(t, w) = s
  BY TileAtIs
<1> HIDE DEF t, s
<1>2. s \in Seq(Hexes) /\ IsInjective(s) /\ ToSet(s) = Open(t, w)
  BY <1>1, PlacementsAre
<1>3. \A x : CanPlaceWildlife(t, x, w) <=> x \in ToSet(s)
  BY <1>2 DEF CanPlaceWildlife, Open
<1>4. s = v \o u
  BY DEF s, SpotsAt, Placements
<1>5. v \in Seq(Hexes)
  BY PlacementsAre DEF IsGame
<1>6. u \in Seq(Hexes) /\ Len(u) = IF w \in tile.wildlife THEN 1 ELSE 0
  <2>1. c \in Hexes
    BY RangeIs
  <2>2. <<c>> \in Seq(Hexes) /\ Len(<<c>>) = 1 /\ <<>> \in Seq(Hexes) /\ Len(<<>>) = 0
    BY <2>1
  <2> QED BY <2>2
<1> HIDE DEF u, v
<1>7. Len(s) = Len(v) + Len(u)
  <2>1. u \in Seq(Hexes)
    BY <1>6
  <2> QED BY <1>4, <1>5, <2>1, ConcatAt
<1>8. /\ \A k \in 1..Len(s) : s[k] \in ToSet(s)
      /\ \A x \in ToSet(s) : \E k \in 1..Len(s) : s[k] = x
  BY <1>2, ToSetPlaces
<1> HIDE DEF w, tile
<1> QED BY <1>2, <1>3, <1>6, <1>7, <1>8 DEF s, t, v, w, tile

-----------------------------------------------------------------------------
(* The turns that are visited are those the rules accept, each once.        *)

\* A place in the enumeration: draft, cell, rotation and wildlife placement.
Places(g) ==
  {p \in Nat \X Nat \X Nat \X Nat : InRange(g, p[1], p[2], p[3]) /\ p[4] <= Len(SpotsAt(g, p[1], p[2]))}
TurnOf(g, p) == TurnAt(g, p[1], p[2], p[3], p[4])

\* A place is a tuple of indices in range.
LEMMA PlaceIs ==
  ASSUME NEW g, NEW p \in Places(g)
  PROVE  /\ InRange(g, p[1], p[2], p[3]) /\ p[4] \in 0..Len(SpotsAt(g, p[1], p[2]))
         /\ p = <<p[1], p[2], p[3], p[4]>>
<1>1. p \in Nat \X Nat \X Nat \X Nat /\ InRange(g, p[1], p[2], p[3]) /\ p[4] <= Len(SpotsAt(g, p[1], p[2]))
  BY DEF Places
<1>2. p[4] \in Nat /\ p = <<p[1], p[2], p[3], p[4]>>
  BY <1>1
<1>3. SpotsAt(g, p[1], p[2]) = SpotsAt(g, p[1], p[2])
  OBVIOUS
<1> QED BY <1>1, <1>2

\* The fields of the turn at a place.
LEMMA TurnFields ==
  ASSUME NEW g, NEW i, NEW j, NEW r, NEW k
  PROVE  LET turn == TurnAt(g, i, j, r, k)
         IN  /\ turn.draft = Drafts(g)[i] /\ turn.coord = FrontierOf(g)[j]
             /\ turn.rotation = Rotations(g, i)[r]
             /\ turn.wildlife = IF k = 0 THEN Nowhere ELSE SpotsAt(g, i, j)[k]
BY DEF TurnAt

\* No cell is the missing one.
LEMMA NowhereIs == Nowhere \notin Hexes
<1>1. \A c \in Hexes : c = <<c[1], c[2]>>
  BY BoardAssumption
<1> QED BY <1>1 DEF Nowhere

\* Different places are different turns.
LEMMA PlacesDiffer ==
  ASSUME NEW g, IsGame(g), NEW p \in Places(g), NEW q \in Places(g), TurnOf(g, p) = TurnOf(g, q)
  PROVE  p = q
<1>1. /\ InRange(g, p[1], p[2], p[3]) /\ p[4] \in 0..Len(SpotsAt(g, p[1], p[2])) /\ p = <<p[1], p[2], p[3], p[4]>>
      /\ InRange(g, q[1], q[2], q[3]) /\ q[4] \in 0..Len(SpotsAt(g, q[1], q[2])) /\ q = <<q[1], q[2], q[3], q[4]>>
  BY PlaceIs
<1>2. /\ Drafts(g)[p[1]] = Drafts(g)[q[1]] /\ FrontierOf(g)[p[2]] = FrontierOf(g)[q[2]]
      /\ Rotations(g, p[1])[p[3]] = Rotations(g, q[1])[q[3]]
      /\ (IF p[4] = 0 THEN Nowhere ELSE SpotsAt(g, p[1], p[2])[p[4]])
         = (IF q[4] = 0 THEN Nowhere ELSE SpotsAt(g, q[1], q[2])[q[4]])
  BY TurnFields DEF TurnOf
<1>3. p[1] = q[1]
  <2>1. Drafts(g) \in Seq(Kinds) /\ IsInjective(Drafts(g))
    BY DraftsAre
  <2>2. p[1] \in 1..Len(Drafts(g)) /\ q[1] \in 1..Len(Drafts(g))
    BY <1>1 DEF InRange
  <2> QED BY <1>2, <2>1, <2>2 DEF IsInjective
<1>4. p[2] = q[2]
  <2>1. FrontierOf(g) \in Seq(Hexes) /\ IsInjective(FrontierOf(g))
    BY FrontierIs
  <2>2. p[2] \in 1..Len(FrontierOf(g)) /\ q[2] \in 1..Len(FrontierOf(g))
    BY <1>1 DEF InRange
  <2> QED BY <1>2, <2>1, <2>2 DEF IsInjective
<1>5. p[3] = q[3]
  <2>1. Rotations(g, p[1]) \in Seq(Edges) /\ IsInjective(Rotations(g, p[1]))
    BY RotationsAre DEF Rotations
  <2>2. p[3] \in 1..Len(Rotations(g, p[1])) /\ q[3] \in 1..Len(Rotations(g, p[1]))
    BY <1>1, <1>3 DEF InRange
  <2> QED BY <1>2, <1>3, <2>1, <2>2 DEF IsInjective
<1>6. p[4] = q[4]
  <2> DEFINE s == SpotsAt(g, p[1], p[2])
  <2>1. s \in Seq(Hexes) /\ IsInjective(s)
    BY <1>1, SpotsAre
  <2>2. /\ p[4] \in 0..Len(s) /\ q[4] \in 0..Len(s)
        /\ (IF p[4] = 0 THEN Nowhere ELSE s[p[4]]) = (IF q[4] = 0 THEN Nowhere ELSE s[q[4]])
    BY <1>1, <1>2, <1>3, <1>4
  <2> HIDE DEF s
  <2>3. \A k \in 1..Len(s) : s[k] # Nowhere
    BY <2>1, NowhereIs
  <2> QED BY <2>1, <2>2, <2>3 DEF IsInjective
<1> QED BY <1>1, <1>3, <1>4, <1>5, <1>6

\* What the rules make of a turn that is visited.
LEMMA VisitedIsAccepted ==
  ASSUME NEW g, IsGame(g), NEW i, NEW j, NEW r, InRange(g, i, j, r), NEW k \in 0..Len(SpotsAt(g, i, j))
  PROVE  LET turn == TurnAt(g, i, j, r, k)
             t == TileAt(g, i, j, r)
         IN  /\ Accepts(g, turn) /\ turn \in AcceptedTurns(g)
             /\ Preview(g, turn) = IF k = 0 THEN t
                                   ELSE WithWildlife(t, SpotsAt(g, i, j)[k], TokenOf(g, Drafts(g)[i]))
<1> DEFINE turn == TurnAt(g, i, j, r, k)
           t == TileAt(g, i, j, r)
           d == Drafts(g)[i]
           c == FrontierOf(g)[j]
           q == Rotations(g, i)[r]
           s == SpotsAt(g, i, j)
           x == IF k = 0 THEN Nowhere ELSE s[k]
<1>1. turn.draft = d /\ turn.coord = c /\ turn.rotation = q /\ turn.wildlife = x
  BY TurnFields
<1>2. /\ d \in Kinds /\ Affordable(g, d) /\ c \in Hexes /\ q \in Edges
  BY RangeIs
<1>3. CanPlaceTile(Charged(g, d), c)
  BY TileAtIs
<1>4. s \in Seq(Hexes) /\ \A l \in 1..Len(s) : CanPlaceWildlife(t, s[l], TokenOf(g, d))
  BY SpotsAre
<1>5. t = WithTile(Charged(g, d), c, TileOf(g, d), q)
  BY DEF TileAt
<1>6. q \in ToSet(RotationsOf(TileOf(g, d)))
  <2>1. RotationsOf(TileOf(g, d)) \in Seq(Edges)
    BY RotationsAre
  <2> QED BY <2>1, ToSetPlaces DEF InRange, Rotations
<1>7. turn = [draft |-> d, coord |-> c, rotation |-> q, wildlife |-> x]
  BY DEF TurnAt
<1>8. g.completed_turns < Turns
  BY TurnsAssumption DEF IsGame
<1> HIDE DEF turn, t, d, c, q, s
<1>9. k # 0 => x \in Hexes /\ x # Nowhere /\ CanPlaceWildlife(t, x, TokenOf(g, d))
  BY <1>4, NowhereIs DEF s
<1>10. x \in Hexes \cup {Nowhere} /\ (x # Nowhere => CanPlaceWildlife(t, x, TokenOf(g, d)))
  BY <1>9
<1>11. Accepts(g, turn)
  <2> HIDE DEF x
  <2> QED BY <1>1, <1>2, <1>3, <1>5, <1>8, <1>10 DEF Accepts, Charged, Affordable
<1>12. turn \in AcceptedTurns(g)
  <2>1. turn \in [draft : Kinds, coord : Hexes, rotation : 0..5, wildlife : Hexes \cup {Nowhere}]
    <3> HIDE DEF x
    <3> QED BY <1>2, <1>7, <1>10 DEF Edges
  <2> HIDE DEF x
  <2> QED BY <1>1, <1>6, <1>11, <2>1 DEF AcceptedTurns, Kinds
<1>13. Preview(g, turn) = IF x = Nowhere THEN t ELSE WithWildlife(t, x, TokenOf(g, d))
  <2> HIDE DEF x
  <2> QED BY <1>1, <1>5 DEF Preview, Charged
<1>14. k = 0 => x = Nowhere
  OBVIOUS
<1>15. k # 0 => x = s[k]
  OBVIOUS
<1>16. Preview(g, turn) = IF k = 0 THEN t ELSE WithWildlife(t, s[k], TokenOf(g, d))
  <2> HIDE DEF x
  <2> QED BY <1>9, <1>13, <1>14, <1>15
<1> QED BY <1>11, <1>12, <1>16 DEF turn, t, s, d

\* Every turn the rules accept is at some place.
LEMMA AcceptedIsVisited ==
  ASSUME NEW g, IsGame(g), NEW turn \in AcceptedTurns(g)
  PROVE  \E p \in Places(g) : TurnOf(g, p) = turn
<1>1. /\ turn \in [draft : Kinds, coord : Hexes, rotation : 0..5, wildlife : Hexes \cup {Nowhere}]
      /\ turn.rotation \in ToSet(RotationsOf(TileOf(g, turn.draft))) /\ Accepts(g, turn)
  BY DEF AcceptedTurns, Kinds
<1> DEFINE d == turn.draft
           t == WithTile(Charged(g, d), turn.coord, TileOf(g, d), turn.rotation)
<1>2. d \in Kinds /\ Affordable(g, d)
  BY <1>1 DEF Accepts, Affordable
<1>3. /\ CanPlaceTile(Charged(g, d), turn.coord)
      /\ turn.wildlife # Nowhere => CanPlaceWildlife(t, turn.wildlife, TokenOf(g, d))
  BY <1>1 DEF Accepts, Charged
<1>4. PICK i \in 1..Len(Drafts(g)) : Drafts(g)[i] = d
  BY <1>2, DraftsAre
<1>5. turn.coord \in Frontier(g.board)
  BY <1>2, <1>3, ChargedIs DEF CanPlaceTile, IsGame
<1>6. PICK j \in 1..Len(FrontierOf(g)) : FrontierOf(g)[j] = turn.coord
  BY <1>5, FrontierIs
<1>7. PICK r \in 1..Len(Rotations(g, i)) : Rotations(g, i)[r] = turn.rotation
  <2>1. RotationsOf(TileOf(g, d)) \in Seq(Edges)
    BY RotationsAre
  <2> QED BY <1>1, <1>4, <2>1, ToSetPlaces DEF Rotations
<1>8. InRange(g, i, j, r) /\ t = TileAt(g, i, j, r)
  BY <1>4, <1>6, <1>7 DEF InRange, TileAt
<1>9. PICK k \in 0..Len(SpotsAt(g, i, j)) : turn.wildlife = IF k = 0 THEN Nowhere ELSE SpotsAt(g, i, j)[k]
  <2> DEFINE s == SpotsAt(g, i, j)
  <2>1. s \in Seq(Hexes) /\ \A x : CanPlaceWildlife(t, x, TokenOf(g, d)) => \E k \in 1..Len(s) : s[k] = x
    <3>1. InRange(g, i, j, r)
      BY <1>8
    <3>2. SpotsAt(g, i, j) \in Seq(Hexes)
      BY <3>1, SpotsAre
    <3>3. \A x : CanPlaceWildlife(TileAt(g, i, j, r), x, TokenOf(g, Drafts(g)[i]))
                    => \E k \in 1..Len(SpotsAt(g, i, j)) : SpotsAt(g, i, j)[k] = x
      BY <3>1, SpotsAre
    <3> HIDE DEF t, d
    <3> QED BY <1>4, <1>8, <3>2, <3>3
  <2> HIDE DEF s, t
  <2>2. CASE turn.wildlife = Nowhere
    <3>1. 0 \in 0..Len(s)
      BY <2>1
    <3> QED BY <2>2, <3>1 DEF s
  <2>3. CASE turn.wildlife # Nowhere
    <3>1. PICK k \in 1..Len(s) : s[k] = turn.wildlife
      BY <1>3, <2>1, <2>3
    <3>2. k \in 0..Len(s) /\ k # 0
      BY <2>1
    <3> QED BY <3>1, <3>2 DEF s
  <2> QED BY <2>2, <2>3
<1> DEFINE p == <<i, j, r, k>>
<1>10. p \in Places(g)
  <2>1. i \in Nat /\ j \in Nat /\ r \in Nat /\ k \in Nat /\ k <= Len(SpotsAt(g, i, j))
    <3>1. SpotsAt(g, i, j) \in Seq(Hexes)
      BY <1>8, SpotsAre
    <3> QED BY <3>1
  <2> QED BY <1>8, <2>1 DEF Places
<1>11. TurnOf(g, p) = turn
  <2>1. turn = [draft |-> turn.draft, coord |-> turn.coord, rotation |-> turn.rotation, wildlife |-> turn.wildlife]
    BY <1>1
  <2> QED BY <1>4, <1>6, <1>7, <1>9, <2>1 DEF TurnOf, TurnAt
<1> QED BY <1>10, <1>11

-----------------------------------------------------------------------------
(* The places before a place.                                               *)

Earlier(p, i, j, r, k) ==
  \/ p[1] < i
  \/ p[1] = i /\ p[2] < j
  \/ p[1] = i /\ p[2] = j /\ p[3] < r
  \/ p[1] = i /\ p[2] = j /\ p[3] = r /\ p[4] < k
Before(g, i, j, r, k) == {p \in Places(g) : Earlier(p, i, j, r, k)}

\* The indices of a place are numbers.
LEMMA PlaceTypes ==
  ASSUME NEW g, IsGame(g), NEW p \in Places(g)
  PROVE  /\ p[1] \in 1..Len(Drafts(g)) /\ p[2] \in 1..Len(FrontierOf(g)) /\ p[3] \in 1..Len(Rotations(g, p[1]))
         /\ p[1] \in Nat /\ p[2] \in Nat /\ p[3] \in Nat /\ p[4] \in Nat
         /\ p[4] <= Len(SpotsAt(g, p[1], p[2])) /\ p = <<p[1], p[2], p[3], p[4]>>
<1>1. p \in Nat \X Nat \X Nat \X Nat
  BY DEF Places
<1>2. p[4] <= Len(SpotsAt(g, p[1], p[2])) /\ InRange(g, p[1], p[2], p[3])
  BY DEF Places
<1>3. p[1] \in Nat /\ p[2] \in Nat /\ p[3] \in Nat /\ p[4] \in Nat /\ p = <<p[1], p[2], p[3], p[4]>>
  BY <1>1
<1> QED BY <1>2, <1>3 DEF InRange

\* The lengths of the lists are numbers.
LEMMA LengthsAre ==
  ASSUME NEW g, IsGame(g)
  PROVE  /\ Len(Drafts(g)) \in Nat /\ Len(FrontierOf(g)) \in Nat
         /\ \A i : Len(Rotations(g, i)) \in Nat /\ 1 \in 1..Len(Rotations(g, i))
         /\ \A i, j, r : InRange(g, i, j, r) => Len(SpotsAt(g, i, j)) \in Nat
<1>1. Len(Drafts(g)) \in Nat
  BY DraftsAre
<1>2. Len(FrontierOf(g)) \in Nat
  BY FrontierIs
<1>3. ASSUME NEW i PROVE Len(Rotations(g, i)) \in Nat /\ 1 \in 1..Len(Rotations(g, i))
  BY RotationsAre DEF Rotations
<1>4. ASSUME NEW i, NEW j, NEW r, InRange(g, i, j, r) PROVE Len(SpotsAt(g, i, j)) \in Nat
  <2>1. SpotsAt(g, i, j) \in Seq(Hexes)
    BY <1>4, SpotsAre
  <2> QED BY <2>1
<1> QED BY <1>1, <1>2, <1>3, <1>4

\* One place further.
LEMMA OneFurther ==
  ASSUME NEW g, IsGame(g), NEW i, NEW j, NEW r, InRange(g, i, j, r), NEW k \in 0..Len(SpotsAt(g, i, j))
  PROVE  /\ Before(g, i, j, r, k + 1) = Before(g, i, j, r, k) \cup {<<i, j, r, k>>}
         /\ <<i, j, r, k>> \notin Before(g, i, j, r, k)
<1> DEFINE q == <<i, j, r, k>>
<1>0. /\ i \in 1..Len(Drafts(g)) /\ j \in 1..Len(FrontierOf(g)) /\ r \in 1..Len(Rotations(g, i))
      /\ Len(SpotsAt(g, i, j)) \in Nat
  BY LengthsAre DEF InRange
<1>1. i \in Nat /\ j \in Nat /\ r \in Nat /\ k \in Nat /\ k <= Len(SpotsAt(g, i, j))
  BY <1>0
<1>2. q \in Places(g)
  BY <1>1 DEF Places
<1>3. ~Earlier(q, i, j, r, k) /\ Earlier(q, i, j, r, k + 1)
  BY <1>1 DEF Earlier
<1>4. ASSUME NEW p \in Places(g) PROVE Earlier(p, i, j, r, k + 1) <=> Earlier(p, i, j, r, k) \/ p = q
  <2>1. /\ p[1] \in Nat /\ p[2] \in Nat /\ p[3] \in Nat /\ p[4] \in Nat /\ p = <<p[1], p[2], p[3], p[4]>>
    BY PlaceTypes
  <2>2. p = q <=> (p[1] = i /\ p[2] = j /\ p[3] = r /\ p[4] = k)
    BY <2>1
  <2>3. p[4] < k + 1 <=> (p[4] < k \/ p[4] = k)
    BY <1>1, <2>1
  <2> HIDE DEF q
  <2> QED BY <2>2, <2>3 DEF Earlier
<1> HIDE DEF q
<1> QED BY <1>2, <1>3, <1>4 DEF Before, q

\* T is S with one place more.
Gains(S, T) == \E q : q \notin S /\ T = S \cup {q}

\* One place further, as a gain.
LEMMA PlaceGained ==
  ASSUME NEW g, IsGame(g), NEW i, NEW j, NEW r, InRange(g, i, j, r), NEW k \in 0..Len(SpotsAt(g, i, j)),
         NEW m, m = k + 1
  PROVE  Gains(Before(g, i, j, r, k), Before(g, i, j, r, m))
<1> DEFINE S == Before(g, i, j, r, k)
           T == Before(g, i, j, r, m)
           q == <<i, j, r, k>>
<1>1. T = S \cup {q} /\ q \notin S
  BY OneFurther
<1> HIDE DEF S, T, q
<1>2. Gains(S, T)
  BY <1>1 DEF Gains
<1> QED BY <1>2 DEF S, T

\* Past the last wildlife placement, the last rotation and the last cell.
LEMMA WrapAround ==
  ASSUME NEW g, IsGame(g), NEW i, NEW j, NEW r, InRange(g, i, j, r)
  PROVE  /\ Before(g, i, j, r, Len(SpotsAt(g, i, j)) + 1) = Before(g, i, j, r + 1, 0)
         /\ Before(g, i, j, Len(Rotations(g, i)) + 1, 0) = Before(g, i, j + 1, 1, 0)
<1>0. /\ i \in 1..Len(Drafts(g)) /\ j \in 1..Len(FrontierOf(g)) /\ r \in 1..Len(Rotations(g, i))
      /\ Len(SpotsAt(g, i, j)) \in Nat /\ Len(Rotations(g, i)) \in Nat
  BY LengthsAre DEF InRange
<1>1. i \in Nat /\ j \in Nat /\ r \in Nat
  BY <1>0
<1>2. ASSUME NEW p \in Places(g)
      PROVE  /\ Earlier(p, i, j, r, Len(SpotsAt(g, i, j)) + 1) <=> Earlier(p, i, j, r + 1, 0)
             /\ Earlier(p, i, j, Len(Rotations(g, i)) + 1, 0) <=> Earlier(p, i, j + 1, 1, 0)
  <2>1. /\ p[1] \in Nat /\ p[2] \in Nat /\ p[3] \in Nat /\ p[4] \in Nat
        /\ p[4] <= Len(SpotsAt(g, p[1], p[2])) /\ p[3] \in 1..Len(Rotations(g, p[1]))
    BY PlaceTypes
  <2>2. p[1] = i /\ p[2] = j => p[4] < Len(SpotsAt(g, i, j)) + 1
    BY <1>0, <2>1
  <2>3. p[3] < r + 1 <=> (p[3] < r \/ p[3] = r)
    BY <1>1, <2>1
  <2>4. p[1] = i => p[3] < Len(Rotations(g, i)) + 1 /\ ~(p[3] < 1)
    BY <1>0, <2>1
  <2>5. p[2] < j + 1 <=> (p[2] < j \/ p[2] = j)
    BY <1>1, <2>1
  <2>6. ~(p[4] < 0)
    BY <2>1
  <2> QED BY <2>2, <2>3, <2>4, <2>5, <2>6 DEF Earlier
<1> QED BY <1>2 DEF Before

\* Past the last cell, the next draft.
LEMMA NextDraft ==
  ASSUME NEW g, IsGame(g), NEW i \in 1..Len(Drafts(g))
  PROVE  Before(g, i, Len(FrontierOf(g)) + 1, 1, 0) = Before(g, i + 1, 1, 1, 0)
<1>0. i \in Nat /\ Len(FrontierOf(g)) \in Nat
  BY LengthsAre
<1>1. ASSUME NEW p \in Places(g)
      PROVE  Earlier(p, i, Len(FrontierOf(g)) + 1, 1, 0) <=> Earlier(p, i + 1, 1, 1, 0)
  <2>1. /\ p[1] \in Nat /\ p[2] \in 1..Len(FrontierOf(g)) /\ p[3] \in 1..Len(Rotations(g, p[1])) /\ p[4] \in Nat
        /\ p[3] \in Nat
    BY PlaceTypes
  <2>2. p[2] < Len(FrontierOf(g)) + 1 /\ ~(p[2] < 1) /\ ~(p[4] < 0) /\ p[2] # Len(FrontierOf(g)) + 1
    BY <1>0, <2>1
  <2>3. p[1] < i + 1 <=> (p[1] < i \/ p[1] = i)
    BY <1>0, <2>1
  <2>4. ~(p[3] < 1)
    <3>1. Len(Rotations(g, p[1])) \in Nat
      BY LengthsAre
    <3> QED BY <2>1, <3>1
  <2> QED BY <2>2, <2>3, <2>4 DEF Earlier
<1> QED BY <1>1 DEF Before

\* Before the first place there is none, and past the last draft all are.
LEMMA Ends ==
  ASSUME NEW g, IsGame(g)
  PROVE  /\ Before(g, 1, 1, 1, 0) = {}
         /\ Before(g, Len(Drafts(g)) + 1, 1, 1, 0) = Places(g)
<1>0. Len(Drafts(g)) \in Nat /\ Len(FrontierOf(g)) \in Nat
  BY LengthsAre
<1>1. ASSUME NEW p \in Places(g)
      PROVE  ~Earlier(p, 1, 1, 1, 0) /\ Earlier(p, Len(Drafts(g)) + 1, 1, 1, 0)
  <2>1. /\ p[1] \in 1..Len(Drafts(g)) /\ p[2] \in 1..Len(FrontierOf(g)) /\ p[3] \in 1..Len(Rotations(g, p[1]))
        /\ p[4] \in Nat /\ Len(Rotations(g, p[1])) \in Nat
    BY PlaceTypes, LengthsAre
  <2>2. p[1] < Len(Drafts(g)) + 1 /\ ~(p[1] < 1) /\ ~(p[2] < 1) /\ ~(p[3] < 1) /\ ~(p[4] < 0)
    BY <1>0, <2>1
  <2> QED BY <2>2 DEF Earlier
<1> QED BY <1>1 DEF Before

-----------------------------------------------------------------------------
(* The number of visits, in closed form.                                    *)

\* The visits of a cell, and of all cells before a draft.
PerTile(g, i) == 1 + (Len(WildlifePlacements(g.board, TokenOf(g, Drafts(g)[i])))
                      + (IF TokenOf(g, Drafts(g)[i]) \in TileOf(g, Drafts(g)[i]).wildlife THEN 1 ELSE 0))
PerCell(g, i) == Len(Rotations(g, i)) * PerTile(g, i)
PerDraft(g, i) == Len(FrontierOf(g)) * PerCell(g, i)
DraftsUpTo(g, n) == SumFunction([i \in 1..n |-> PerDraft(g, i)])

\* The visits with one tile in one rotation: without wildlife, and each placement.
LEMMA PerTileIs ==
  ASSUME NEW g, IsGame(g), NEW i \in 1..Len(Drafts(g))
  PROVE  /\ PerTile(g, i) \in Nat /\ PerCell(g, i) \in Nat /\ PerDraft(g, i) \in Nat
         /\ \A j, r : InRange(g, i, j, r) => PerTile(g, i) = Len(SpotsAt(g, i, j)) + 1
<1> DEFINE v == WildlifePlacements(g.board, TokenOf(g, Drafts(g)[i]))
<1>1. v \in Seq(Hexes)
  BY PlacementsAre DEF IsGame
<1>2. Len(v) \in Nat
  BY <1>1
<1>3. PerTile(g, i) \in Nat
  BY <1>2 DEF PerTile
<1>4. Len(Rotations(g, i)) \in Nat /\ Len(FrontierOf(g)) \in Nat
  BY LengthsAre
<1>5. PerCell(g, i) \in Nat
  BY <1>3, <1>4 DEF PerCell
<1>6. PerDraft(g, i) \in Nat
  BY <1>4, <1>5 DEF PerDraft
<1>7. ASSUME NEW j, NEW r, InRange(g, i, j, r) PROVE PerTile(g, i) = Len(SpotsAt(g, i, j)) + 1
  <2> DEFINE n == IF TokenOf(g, Drafts(g)[i]) \in TileOf(g, Drafts(g)[i]).wildlife THEN 1 ELSE 0
  <2>1. Len(SpotsAt(g, i, j)) = Len(v) + n
    BY <1>7, SpotsAre
  <2>2. PerTile(g, i) = 1 + (Len(v) + n) /\ n \in Nat
    BY DEF PerTile
  <2> HIDE DEF v, n
  <2> QED BY <1>2, <2>1, <2>2
<1> QED BY <1>3, <1>5, <1>6, <1>7

\* The visits of the drafts so far are added up one draft at a time.
LEMMA DraftsUpToIs ==
  ASSUME NEW g, IsGame(g)
  PROVE  /\ DraftsUpTo(g, 0) = 0
         /\ \A n \in 1..Len(Drafts(g)) : DraftsUpTo(g, n) = DraftsUpTo(g, n - 1) + PerDraft(g, n)
         /\ \A n \in 0..Len(Drafts(g)) : DraftsUpTo(g, n) \in Int
<1>0. Len(Drafts(g)) \in Nat
  BY LengthsAre
<1>1. DraftsUpTo(g, 0) = 0
  <2> DEFINE f == [i \in 1..0 |-> PerDraft(g, i)]
  <2>1. 1..0 = {} /\ IsFiniteSet({})
    BY FS_EmptySet
  <2>2. f \in [{} -> Int] /\ \A x \in {} : f[x] = 0
    BY <2>1
  <2> HIDE DEF f
  <2>3. SumFunction(f) = 0
    BY <2>1, <2>2, SumOfZeros
  <2> QED BY <2>3 DEF DraftsUpTo, f
<1>2. ASSUME NEW n \in 1..Len(Drafts(g))
      PROVE  DraftsUpTo(g, n) = DraftsUpTo(g, n - 1) + PerDraft(g, n) /\ DraftsUpTo(g, n - 1) \in Int
  <2> DEFINE T == 1..n
             h == [i \in 1..n |-> PerDraft(g, i)]
             f == [i \in 1..(n - 1) |-> PerDraft(g, i)]
  <2>1. \A i \in 1..n : PerDraft(g, i) \in Int
    BY PerTileIs
  <2>2. T \ {n} = 1..(n - 1) /\ n \in T
    OBVIOUS
  <2>3. h \in [T -> Int] /\ f \in [T \ {n} -> Int] /\ (\A x \in T \ {n} : h[x] = f[x]) /\ h[n] = PerDraft(g, n)
    BY <2>1, <2>2
  <2>4. IsFiniteSet(T)
    BY FS_Interval
  <2>5. DraftsUpTo(g, n) = SumFunction(h) /\ DraftsUpTo(g, n - 1) = SumFunction(f)
    BY DEF DraftsUpTo
  <2> HIDE DEF T, h, f
  <2>6. OneLess(h, f, n)
    BY <2>2, <2>3, <2>4, SumWithout
  <2> QED BY <2>3, <2>5, <2>6 DEF OneLess
<1>3. ASSUME NEW n \in 0..Len(Drafts(g)) PROVE DraftsUpTo(g, n) \in Int
  <2>1. CASE n = 0
    BY <1>1, <2>1
  <2>2. CASE n # 0
    <3>1. n \in 1..Len(Drafts(g))
      BY <1>0, <2>2
    <3>2. PerDraft(g, n) \in Int
      BY <3>1, PerTileIs
    <3> QED BY <1>2, <3>1, <3>2
  <2> QED BY <2>1, <2>2
<1> QED BY <1>1, <1>2, <1>3

\* What is announced is the number of visits of all drafts.
LEMMA CapacityIs ==
  ASSUME NEW g, IsGame(g)
  PROVE  Capacity(g) = DraftsUpTo(g, Len(Drafts(g)))
<1> DEFINE N == Len(Drafts(g))
           F == Len(FrontierOf(g))
           share(i) == LET d == Drafts(g)[i]
                          placements == Len(WildlifePlacements(g.board, TokenOf(g, d)))
                                        + (IF TokenOf(g, d) \in TileOf(g, d).wildlife THEN 1 ELSE 0)
                      IN Len(RotationsOf(TileOf(g, d))) * Len(FrontierOf(g)) * (1 + placements)
<1>1. DOMAIN Drafts(g) = 1..N
  BY DraftsAre
<1>2. ASSUME NEW i \in 1..N PROVE share(i) = PerDraft(g, i)
  <2> DEFINE R == Len(Rotations(g, i))
             P == PerTile(g, i)
  <2>1. R \in Nat /\ F \in Nat /\ P \in Nat
    BY LengthsAre, PerTileIs
  <2>2. share(i) = (R * F) * P
    BY DEF Rotations, PerTile
  <2>3. PerDraft(g, i) = F * (R * P)
    BY DEF PerDraft, PerCell
  <2> HIDE DEF R, F, P, share
  <2>4. (R * F) * P = F * (R * P)
    BY <2>1
  <2> QED BY <2>2, <2>3, <2>4
<1>3. Capacity(g) = SumFunction([i \in DOMAIN Drafts(g) |-> share(i)])
  BY DEF Capacity
<1>4. [i \in 1..N |-> share(i)] = [i \in 1..N |-> PerDraft(g, i)]
  <2> HIDE DEF share
  <2> QED BY <1>2
<1> HIDE DEF share
<1> QED BY <1>1, <1>3, <1>4 DEF DraftsUpTo

\* The visits before a place.
Tally(g, i, j, r, k) == DraftsUpTo(g, i - 1) + (((j - 1) * PerCell(g, i)) + (((r - 1) * PerTile(g, i)) + k))

\* The closed form grows by one a visit and carries over at the end of each list.
LEMMA TallyIs ==
  ASSUME NEW g, IsGame(g), NEW i \in 1..Len(Drafts(g)), NEW j \in 1..(Len(FrontierOf(g)) + 1),
         NEW r \in 1..(Len(Rotations(g, i)) + 1), NEW k \in Nat
  PROVE  /\ Tally(g, i, j, r, k + 1) = Tally(g, i, j, r, k) + 1
         /\ Tally(g, i, j, r, PerTile(g, i)) = Tally(g, i, j, r + 1, 0)
         /\ Tally(g, i, j, Len(Rotations(g, i)) + 1, 0) = Tally(g, i, j + 1, 1, 0)
         /\ Tally(g, i, Len(FrontierOf(g)) + 1, 1, 0) = DraftsUpTo(g, i)
         /\ Tally(g, i, 1, 1, 0) = DraftsUpTo(g, i - 1)
<1> DEFINE D == DraftsUpTo(g, i - 1)
           E == DraftsUpTo(g, i)
           P == PerTile(g, i)
           C == PerCell(g, i)
           R == Len(Rotations(g, i))
           F == Len(FrontierOf(g))
           W == PerDraft(g, i)
           L == Len(Drafts(g))
<1>1. R \in Nat /\ F \in Nat /\ L \in Nat
  BY LengthsAre
<1>2. P \in Nat /\ C \in Nat /\ W \in Nat /\ C = R * P /\ W = F * C
  BY PerTileIs DEF PerCell, PerDraft
<1>3. i - 1 \in 0..L
  BY <1>1
<1>4. D \in Int /\ E = D + W
  BY <1>3, DraftsUpToIs
<1>5. i \in Nat /\ j \in Nat /\ r \in Nat
  BY <1>1
<1>6. \A a, b, c : Tally(g, i, a, b, c) = D + (((a - 1) * C) + (((b - 1) * P) + c))
  BY DEF Tally
<1> HIDE DEF D, E, P, C, R, F, W, L
<1>7. (j - 1) * C \in Int /\ (r - 1) * P \in Int
  BY <1>2, <1>5
<1>8. Tally(g, i, j, r, k + 1) = Tally(g, i, j, r, k) + 1
  BY <1>4, <1>6, <1>7, SMTT(30)
<1>9. ((r - 1) * P) + P = (((r + 1) - 1) * P) + 0
  BY <1>2, <1>5
<1>10. (R + 1) - 1 = R /\ R * P = C /\ (1 - 1) * P = 0 /\ (1 - 1) * C = 0 /\ (F + 1) - 1 = F /\ F * C = W
  BY <1>1, <1>2
<1>11. ((j - 1) * C) + C = ((j + 1) - 1) * C
  BY <1>2, <1>5
<1>12. Tally(g, i, j, r, P) = Tally(g, i, j, r + 1, 0)
  BY <1>6, <1>9
<1>13. Tally(g, i, j, R + 1, 0) = Tally(g, i, j + 1, 1, 0)
  <2>1. Tally(g, i, j, R + 1, 0) = D + (((j - 1) * C) + C)
    BY <1>2, <1>6, <1>10
  <2>2. Tally(g, i, j + 1, 1, 0) = D + (((j + 1) - 1) * C)
    <3>1. ((j + 1) - 1) * C \in Int
      BY <1>2, <1>5
    <3> QED BY <1>6, <1>10, <3>1
  <2> QED BY <1>11, <2>1, <2>2
<1>14. Tally(g, i, F + 1, 1, 0) = E
  BY <1>2, <1>4, <1>6, <1>10
<1>15. Tally(g, i, 1, 1, 0) = D
  BY <1>2, <1>4, <1>6, <1>10
<1> QED BY <1>8, <1>12, <1>13, <1>14, <1>15 DEF D, E, P, R, F

-----------------------------------------------------------------------------
(* The enumeration.                                                         *)

\* Where the cursor is, and what the probe is there.
CursorInv ==
  /\ phase \in {"draft", "hex", "visit", "done"}
  /\ phase = "draft" => draft \in 1..(Len(Drafts(game)) + 1) /\ probe = game.board
  /\ phase = "hex" => /\ draft \in 1..Len(Drafts(game)) /\ hex \in 1..(Len(FrontierOf(game)) + 1)
                      /\ probe = Charged(game, Draft)
  /\ phase = "visit" => /\ InRange(game, draft, hex, rotation)
                        /\ token \in 0..Len(SpotsAt(game, draft, hex))
                        /\ probe = Preview(game, Visited)
  /\ phase = "done" => probe = game.board

\* The places that were visited, and their number.
Reached ==
  IF phase = "visit" THEN Before(game, draft, hex, rotation, token + 1)
  ELSE IF phase = "hex" THEN Before(game, draft, hex, 1, 0)
  ELSE IF phase = "draft" THEN Before(game, draft, 1, 1, 0)
  ELSE Places(game)
Counted ==
  IF phase = "visit" THEN Tally(game, draft, hex, rotation, token + 1)
  ELSE IF phase = "hex" THEN Tally(game, draft, hex, 1, 0)
  ELSE IF phase = "draft" THEN DraftsUpTo(game, draft - 1)
  ELSE Capacity(game)

CountInv == IsFiniteSet(Reached) /\ visits = Cardinality(Reached) /\ visits = Counted

EnumerationInv == IsGame(game) /\ CursorInv /\ CountInv

\* The turn that is visited is the one at the cursor's place.
LEMMA VisitedIs == Visited = TurnAt(game, draft, hex, rotation, token) /\ Spots = SpotsAt(game, draft, hex)
BY DEF Visited, TurnAt, Spots, SpotsAt, Draft, Coord, Tile, Rotations

\* So it is in the next state.
LEMMA VisitedNext ==
  Visited' = TurnAt(game', draft', hex', rotation', token') /\ Draft' = Drafts(game')[draft']
BY DEF Visited, TurnAt, Spots, SpotsAt, Draft, Coord, Tile, Rotations

\* The probe during a visit.
LEMMA ProbeIs ==
  ASSUME EnumerationInv, phase = "visit"
  PROVE  LET t == TileAt(game, draft, hex, rotation)
             w == TokenOf(game, Draft)
         IN  /\ Unsettled = t /\ probe.placed = t.placed /\ IsBoard(t)
             /\ Accepts(game, Visited)
             /\ probe = IF token = 0 THEN t ELSE WithWildlife(t, Spots[token], w)
<1> DEFINE t == TileAt(game, draft, hex, rotation)
           w == TokenOf(game, Draft)
           s == SpotsAt(game, draft, hex)
<1>1. /\ IsGame(game) /\ InRange(game, draft, hex, rotation) /\ token \in 0..Len(s)
      /\ probe = Preview(game, Visited)
  BY DEF EnumerationInv, CursorInv
<1>2. Visited = TurnAt(game, draft, hex, rotation, token) /\ Spots = s
  BY VisitedIs
<1>3. Accepts(game, Visited) /\ probe = IF token = 0 THEN t ELSE WithWildlife(t, s[token], w)
  BY <1>1, <1>2, VisitedIsAccepted DEF Draft
<1>4. IsBoard(t)
  BY <1>1, TileAtIs
<1>5. w \in Wildlife /\ s \in Seq(Hexes) /\ \A k \in 1..Len(s) : CanPlaceWildlife(t, s[k], w)
  BY <1>1, RangeIs, SpotsAre DEF Draft
<1> HIDE DEF t, w, s
<1>6. CASE token = 0
  BY <1>2, <1>3, <1>4, <1>6 DEF Unsettled, t, w, s
<1>7. CASE token # 0
  <2>1. token \in 1..Len(s)
    BY <1>1, <1>5, <1>7
  <2>2. /\ WithWildlife(t, s[token], w).placed = t.placed
        /\ WithoutWildlife(WithWildlife(t, s[token], w), s[token]) = t
    BY <1>4, <1>5, <2>1, WithWildlifeIs
  <2> QED BY <1>2, <1>3, <1>4, <1>7, <2>2 DEF Unsettled, t, w, s
<1> QED BY <1>6, <1>7

\* A step that visits no place, or one.
LEMMA Counts ==
  ASSUME CountInv,
         \/ visits' = visits /\ Reached' = Reached /\ Counted' = Counted
         \/ /\ visits' = visits + 1 /\ Counted' = Counted + 1
            /\ Gains(Reached, Reached')
  PROVE  CountInv'
<1>1. CASE visits' = visits /\ Reached' = Reached /\ Counted' = Counted
  BY <1>1 DEF CountInv
<1>2. CASE /\ visits' = visits + 1 /\ Counted' = Counted + 1
           /\ Gains(Reached, Reached')
  <2>1. PICK q : q \notin Reached /\ Reached' = Reached \cup {q}
    BY <1>2 DEF Gains
  <2> DEFINE S == Reached
  <2>2. IsFiniteSet(S) /\ visits = Cardinality(S) /\ visits = Counted
    BY DEF CountInv
  <2>3. q \notin S
    BY <2>1
  <2> HIDE DEF S
  <2>4. IsFiniteSet(S \cup {q}) /\ Cardinality(S \cup {q}) = Cardinality(S) + 1
    BY <2>2, <2>3, FS_AddElement
  <2>5. Reached' = S \cup {q}
    BY <2>1 DEF S
  <2>6. IsFiniteSet(Reached') /\ visits' = Cardinality(Reached') /\ visits' = Counted'
    BY <1>2, <2>2, <2>4, <2>5
  <2> QED BY <2>6 DEF CountInv
<1> QED BY <1>1, <1>2

\* The enumeration begins on the starter's board with no place visited.
LEMMA TurnsInitEnumerates == TurnsInit => EnumerationInv
<1> SUFFICES ASSUME TurnsInit PROVE EnumerationInv
  OBVIOUS
<1>1. PICK starter \in Starters, market \in Offers :
        game = [board |-> FromStarter(starter), market |-> market, completed_turns |-> 0]
  BY DEF TurnsInit
<1>2. /\ IsBoard(FromStarter(starter)) /\ FromStarter(starter).placed # <<>>
      /\ Len(FromStarter(starter).placed) + Turns <= MaxBoardTiles
  BY StarterIs
<1>3. Turns \in Nat \ {0}
  BY TurnsAssumption
<1>4. IsGame(game)
  <2>1. game.board = FromStarter(starter) /\ game.market = market /\ game.completed_turns = 0
    BY <1>1
  <2>2. 0 \in 0..(Turns - 1) /\ Turns - 0 = Turns
    BY <1>3
  <2> QED BY <1>2, <2>1, <2>2 DEF IsGame
<1>5. phase = "draft" /\ draft = 1 /\ probe = game.board /\ visits = 0
  BY DEF TurnsInit
<1>6. CursorInv
  <2>1. 1 \in 1..(Len(Drafts(game)) + 1)
    BY <1>4, LengthsAre
  <2> QED BY <1>5, <2>1 DEF CursorInv
<1>7. CountInv
  <2>1. Reached = {} /\ Counted = DraftsUpTo(game, 0)
    BY <1>4, <1>5, Ends DEF Reached, Counted
  <2> QED BY <1>4, <1>5, <2>1, DraftsUpToIs, FS_EmptySet DEF CountInv
<1> QED BY <1>4, <1>6, <1>7 DEF EnumerationInv

\* A draft is paid for; no place is visited.
LEMMA BeginDraftStep == ASSUME EnumerationInv, BeginDraft PROVE EnumerationInv'
<1>1. /\ phase = "draft" /\ draft <= Len(Drafts(game)) /\ game' = game /\ draft' = draft /\ visits' = visits
      /\ hex' = 1
  BY DEF BeginDraft
<1>2. IsGame(game) /\ draft \in 1..Len(Drafts(game)) /\ probe = game.board
  <2>1. IsGame(game) /\ draft \in 1..(Len(Drafts(game)) + 1) /\ probe = game.board
    BY <1>1 DEF EnumerationInv, CursorInv
  <2>2. Len(Drafts(game)) \in Nat
    BY <2>1, LengthsAre
  <2> QED BY <1>1, <2>1, <2>2
<1>3. Draft \in Kinds /\ Affordable(game, Draft)
  BY <1>2, DraftsAre DEF Draft
<1>4. ~(Draft.independent /\ probe.tokens = 0)
  <2>1. game.board.tokens \in Nat
    BY <1>2 DEF IsGame, IsBoard
  <2> QED BY <1>2, <1>3, <2>1 DEF Affordable
<1>5. phase' = "hex" /\ probe' = Charged(game, Draft)
  BY <1>2, <1>4 DEF BeginDraft, Charged
<1>6. Draft' = Draft
  BY <1>1 DEF Draft
<1>7. CursorInv'
  <2>1. 1 \in 1..(Len(FrontierOf(game)) + 1)
    BY <1>2, LengthsAre
  <2> QED BY <1>1, <1>2, <1>5, <1>6, <2>1 DEF CursorInv
<1>8. Reached' = Reached
  BY <1>1, <1>5 DEF Reached
<1>9. Counted' = Counted
  <2>1. Tally(game, draft, 1, 1, 0) = DraftsUpTo(game, draft - 1)
    <3>1. 1 \in 1..(Len(FrontierOf(game)) + 1) /\ 1 \in 1..(Len(Rotations(game, draft)) + 1) /\ 0 \in Nat
      BY <1>2, LengthsAre
    <3> QED BY <1>2, <3>1, TallyIs
  <2> QED BY <1>1, <1>5, <2>1 DEF Counted
<1>10. CountInv'
  BY <1>1, <1>8, <1>9, Counts DEF EnumerationInv
<1> QED BY <1>1, <1>2, <1>7, <1>10 DEF EnumerationInv

\* A tile on the next cell: the first visit there.
LEMMA PlaceProbeStep == ASSUME EnumerationInv, PlaceProbe PROVE EnumerationInv'
<1>1. /\ phase = "hex" /\ hex <= Len(FrontierOf(game)) /\ rotation' = 1 /\ token' = 0
      /\ game' = game /\ draft' = draft /\ hex' = hex
  BY DEF PlaceProbe
<1>2. /\ IsGame(game) /\ draft \in 1..Len(Drafts(game)) /\ hex \in 1..(Len(FrontierOf(game)) + 1)
      /\ probe = Charged(game, Draft)
  BY <1>1 DEF EnumerationInv, CursorInv
<1>3. InRange(game, draft, hex, 1)
  BY <1>1, <1>2, LengthsAre DEF InRange
<1>4. CanPlaceTile(probe, Coord)
  BY <1>2, <1>3, TileAtIs DEF Draft, Coord
<1>5. phase' = "visit" /\ visits' = visits + 1 /\ probe' = TileAt(game, draft, hex, 1)
  BY <1>2, <1>4 DEF PlaceProbe, TileAt, Tile, Draft, Coord, Rotations
<1>6. Len(SpotsAt(game, draft, hex)) \in Nat
  BY <1>2, <1>3, LengthsAre
<1>7. CursorInv'
  <2>1. Visited' = TurnAt(game, draft, hex, 1, 0)
    BY <1>1, VisitedNext
  <2>2. 0 \in 0..Len(SpotsAt(game, draft, hex))
    BY <1>6
  <2>3. Preview(game, TurnAt(game, draft, hex, 1, 0)) = TileAt(game, draft, hex, 1)
    BY <1>2, <1>3, <2>2, VisitedIsAccepted
  <2> QED BY <1>1, <1>3, <1>5, <2>1, <2>2, <2>3 DEF CursorInv
<1>8. Gains(Reached, Reached')
  <2>1. Reached = Before(game, draft, hex, 1, 0) /\ Reached' = Before(game, draft, hex, 1, 1)
    BY <1>1, <1>5 DEF Reached
  <2>2. 0 \in 0..Len(SpotsAt(game, draft, hex)) /\ 1 = 0 + 1
    BY <1>6
  <2>3. Gains(Before(game, draft, hex, 1, 0), Before(game, draft, hex, 1, 1))
    BY <1>2, <1>3, <2>2, PlaceGained
  <2> QED BY <2>1, <2>3
<1>9. Counted' = Counted + 1
  <2>1. Counted = Tally(game, draft, hex, 1, 0) /\ Counted' = Tally(game, draft, hex, 1, 0 + 1)
    BY <1>1, <1>5 DEF Counted
  <2>2. 1 \in 1..(Len(Rotations(game, draft)) + 1)
    BY <1>2, LengthsAre
  <2> QED BY <1>2, <2>1, <2>2, TallyIs
<1>10. CountInv'
  BY <1>5, <1>8, <1>9, Counts DEF EnumerationInv
<1> QED BY <1>1, <1>2, <1>7, <1>10 DEF EnumerationInv

\* The next wildlife placement is visited, the one before is lifted.
LEMMA SettleNextStep == ASSUME EnumerationInv, SettleNext PROVE EnumerationInv'
<1> DEFINE t == TileAt(game, draft, hex, rotation)
           s == SpotsAt(game, draft, hex)
           w == TokenOf(game, Draft)
           k == token + 1
<1>1. /\ phase = "visit" /\ token < Len(Spots) /\ token' = k
      /\ game' = game /\ draft' = draft /\ hex' = hex /\ rotation' = rotation
  BY DEF SettleNext
<1>2. IsGame(game) /\ InRange(game, draft, hex, rotation) /\ token \in 0..Len(s) /\ Spots = s
  BY <1>1, VisitedIs DEF EnumerationInv, CursorInv
<1>3. Unsettled = t
  BY <1>1, ProbeIs
<1>4. Len(s) \in Nat
  BY <1>2, LengthsAre
<1>5. k \in 1..Len(s) /\ k \in 0..Len(s) /\ k # 0
  <2> HIDE DEF s
  <2> QED BY <1>1, <1>2, <1>4
<1>6. CanPlaceWildlife(t, s[k], w)
  <2>1. \A l \in 1..Len(s) : CanPlaceWildlife(t, s[l], w)
    BY <1>2, SpotsAre DEF Draft
  <2> HIDE DEF t, s, w, k
  <2> QED BY <1>5, <2>1
<1>7. phase' = "visit" /\ visits' = visits + 1 /\ probe' = WithWildlife(t, s[k], w)
  BY <1>1, <1>2, <1>3, <1>6 DEF SettleNext
<1>8. CursorInv'
  <2>1. Visited' = TurnAt(game, draft, hex, rotation, k)
    <3> HIDE DEF k
    <3> QED BY <1>1, VisitedNext
  <2>2. Preview(game, TurnAt(game, draft, hex, rotation, k)) = WithWildlife(t, s[k], w)
    <3> HIDE DEF k
    <3> QED BY <1>2, <1>5, VisitedIsAccepted DEF Draft
  <2> HIDE DEF t, w, k
  <2> QED BY <1>1, <1>2, <1>5, <1>7, <2>1, <2>2 DEF CursorInv
<1>9. Gains(Reached, Reached')
  <2> DEFINE m == k + 1
  <2>1. Reached = Before(game, draft, hex, rotation, k) /\ Reached' = Before(game, draft, hex, rotation, m)
    BY <1>1, <1>7 DEF Reached
  <2>2. m = k + 1
    OBVIOUS
  <2> HIDE DEF k, m
  <2>3. Gains(Before(game, draft, hex, rotation, k), Before(game, draft, hex, rotation, m))
    BY <1>2, <1>5, <2>2, PlaceGained
  <2> QED BY <2>1, <2>3
<1>10. Counted' = Counted + 1
  <2>1. Counted = Tally(game, draft, hex, rotation, k) /\ Counted' = Tally(game, draft, hex, rotation, k + 1)
    BY <1>1, <1>7 DEF Counted
  <2>2. /\ draft \in 1..Len(Drafts(game)) /\ hex \in 1..(Len(FrontierOf(game)) + 1)
        /\ rotation \in 1..(Len(Rotations(game, draft)) + 1) /\ k \in Nat
    BY <1>2, <1>4, <1>5, LengthsAre DEF InRange
  <2> HIDE DEF k
  <2> QED BY <1>2, <2>1, <2>2, TallyIs
<1>11. CountInv'
  BY <1>7, <1>9, <1>10, Counts DEF EnumerationInv
<1> QED BY <1>1, <1>2, <1>8, <1>11 DEF EnumerationInv

\* The tile is turned: the first visit in this rotation.
LEMMA TurnProbeStep == ASSUME EnumerationInv, TurnProbe PROVE EnumerationInv'
<1> DEFINE r == rotation + 1
<1>1. /\ phase = "visit" /\ token = Len(Spots) /\ rotation < Len(RotationsOf(Tile)) /\ token' = 0 /\ rotation' = r
      /\ probe' = SetPlacedRotation(Unsettled, Coord, RotationsOf(Tile)[r])
      /\ game' = game /\ draft' = draft /\ hex' = hex /\ visits' = visits + 1 /\ phase' = "visit"
  BY DEF TurnProbe
<1>2. IsGame(game) /\ InRange(game, draft, hex, rotation) /\ Spots = SpotsAt(game, draft, hex)
  BY <1>1, VisitedIs DEF EnumerationInv, CursorInv
<1>3. Unsettled = TileAt(game, draft, hex, rotation)
  BY <1>1, ProbeIs
<1>4. RotationsOf(Tile) = Rotations(game, draft) /\ Len(Rotations(game, draft)) \in Nat
  BY <1>2, LengthsAre DEF Tile, Draft, Rotations
<1>5. InRange(game, draft, hex, r)
  BY <1>1, <1>2, <1>4 DEF InRange
<1>6. probe' = TileAt(game, draft, hex, r)
  <2> DEFINE b == Charged(game, Draft)
             q == Rotations(game, draft)
  <2>1. /\ Draft \in Kinds /\ Affordable(game, Draft) /\ Tile \in Tiles
        /\ Coord \in Hexes \ Occupied(game.board) /\ q[rotation] \in Edges
    BY <1>2, RangeIs DEF Draft, Tile, Coord
  <2>2. q[r] \in Edges
    <3> HIDE DEF r
    <3> QED BY <1>2, <1>5, RangeIs
  <2>3. IsBoard(b) /\ Occupied(b) = Occupied(game.board)
    BY <1>2, <2>1, ChargedIs
  <2>4. /\ TileAt(game, draft, hex, rotation) = WithTile(b, Coord, Tile, q[rotation])
        /\ TileAt(game, draft, hex, r) = WithTile(b, Coord, Tile, q[r])
    BY DEF TileAt, Draft, Tile, Coord
  <2> HIDE DEF b, q, r
  <2>5. SetPlacedRotation(WithTile(b, Coord, Tile, q[rotation]), Coord, q[r]) = WithTile(b, Coord, Tile, q[r])
    BY <2>1, <2>2, <2>3, TileUndone
  <2> QED BY <1>1, <1>3, <1>4, <2>4, <2>5 DEF q
<1>7. Len(SpotsAt(game, draft, hex)) \in Nat
  BY <1>2, LengthsAre
<1>8. 0 \in 0..Len(SpotsAt(game, draft, hex))
  BY <1>7
<1>9. CursorInv'
  <2>1. Visited' = TurnAt(game, draft, hex, r, 0)
    <3> HIDE DEF r
    <3> QED BY <1>1, VisitedNext
  <2> HIDE DEF r
  <2>2. Preview(game, TurnAt(game, draft, hex, r, 0)) = TileAt(game, draft, hex, r)
    BY <1>2, <1>5, <1>8, VisitedIsAccepted
  <2> QED BY <1>1, <1>5, <1>6, <1>8, <2>1, <2>2 DEF CursorInv
<1> DEFINE n == Len(SpotsAt(game, draft, hex)) + 1
<1>10. Gains(Reached, Reached')
  <2>1. Reached = Before(game, draft, hex, rotation, n) /\ Reached' = Before(game, draft, hex, r, 1)
    BY <1>1, <1>2 DEF Reached
  <2>2. Before(game, draft, hex, rotation, n) = Before(game, draft, hex, r, 0)
    BY <1>2, WrapAround
  <2> HIDE DEF r, n
  <2>3. Gains(Before(game, draft, hex, r, 0), Before(game, draft, hex, r, 1))
    BY <1>2, <1>5, <1>8, 1 = 0 + 1, PlaceGained
  <2> QED BY <2>1, <2>2, <2>3
<1>11. Counted' = Counted + 1
  <2>1. Counted = Tally(game, draft, hex, rotation, n) /\ Counted' = Tally(game, draft, hex, r, 0 + 1)
    BY <1>1, <1>2 DEF Counted
  <2>2. /\ draft \in 1..Len(Drafts(game)) /\ hex \in 1..(Len(FrontierOf(game)) + 1)
        /\ rotation \in 1..(Len(Rotations(game, draft)) + 1) /\ r \in 1..(Len(Rotations(game, draft)) + 1)
    BY <1>2, <1>4, <1>5, LengthsAre DEF InRange
  <2>3. n = PerTile(game, draft)
    BY <1>2, <2>2, PerTileIs
  <2>4. Tally(game, draft, hex, rotation, n) = Tally(game, draft, hex, r, 0)
    <3> HIDE DEF n
    <3> QED BY <1>2, <2>2, <2>3, TallyIs
  <2> HIDE DEF r, n
  <2>5. Tally(game, draft, hex, r, 0 + 1) = Tally(game, draft, hex, r, 0) + 1
    BY <1>2, <2>2, TallyIs
  <2> QED BY <2>1, <2>4, <2>5
<1>12. CountInv'
  BY <1>1, <1>10, <1>11, Counts DEF EnumerationInv
<1> QED BY <1>1, <1>2, <1>9, <1>12 DEF EnumerationInv

\* The tile is taken off, and the probe is the board that was paid for.
LEMMA LiftProbeStep == ASSUME EnumerationInv, LiftProbe PROVE EnumerationInv'
<1>1. /\ phase = "visit" /\ token = Len(Spots) /\ rotation = Len(RotationsOf(Tile)) /\ hex' = hex + 1
      /\ game' = game /\ draft' = draft /\ visits' = visits
  BY DEF LiftProbe
<1>2. IsGame(game) /\ InRange(game, draft, hex, rotation) /\ Spots = SpotsAt(game, draft, hex)
  BY <1>1, VisitedIs DEF EnumerationInv, CursorInv
<1>3. Unsettled = TileAt(game, draft, hex, rotation) /\ probe.placed = TileAt(game, draft, hex, rotation).placed
  BY <1>1, ProbeIs
<1>4. RotationsOf(Tile) = Rotations(game, draft) /\ Len(Rotations(game, draft)) \in Nat
  BY <1>2, LengthsAre DEF Tile, Draft, Rotations
<1>5. phase' = "hex" /\ probe' = Charged(game, Draft)
  <2> DEFINE b == Charged(game, Draft)
             q == Rotations(game, draft)[rotation]
  <2>1. /\ Draft \in Kinds /\ Affordable(game, Draft) /\ Tile \in Tiles
        /\ Coord \in Hexes \ Occupied(game.board) /\ q \in Edges
    BY <1>2, RangeIs DEF Draft, Tile, Coord
  <2>2. IsBoard(b) /\ Occupied(b) = Occupied(game.board)
    BY <1>2, <2>1, ChargedIs
  <2>3. TileAt(game, draft, hex, rotation) = WithTile(b, Coord, Tile, q)
    BY DEF TileAt, Draft, Tile, Coord
  <2> HIDE DEF b, q
  <2>4. /\ WithoutTile(WithTile(b, Coord, Tile, q), Coord) = b
        /\ Last(WithTile(b, Coord, Tile, q).placed) = Coord
    BY <2>1, <2>2, TileUndone
  <2> QED BY <1>3, <2>3, <2>4 DEF LiftProbe, b
<1>6. Draft' = Draft
  BY <1>1 DEF Draft
<1>7. CursorInv'
  <2>1. hex + 1 \in 1..(Len(FrontierOf(game)) + 1) /\ draft \in 1..Len(Drafts(game))
    BY <1>2, LengthsAre DEF InRange
  <2> QED BY <1>1, <1>5, <1>6, <2>1 DEF CursorInv
<1> DEFINE n == Len(SpotsAt(game, draft, hex)) + 1
           r == Len(Rotations(game, draft)) + 1
<1>8. Reached' = Reached
  <2>1. Reached = Before(game, draft, hex, rotation, n) /\ Reached' = Before(game, draft, hex + 1, 1, 0)
    BY <1>1, <1>2, <1>5 DEF Reached
  <2>2. /\ Before(game, draft, hex, rotation, n) = Before(game, draft, hex, rotation + 1, 0)
        /\ Before(game, draft, hex, r, 0) = Before(game, draft, hex + 1, 1, 0)
    BY <1>2, WrapAround
  <2>3. rotation + 1 = r
    BY <1>1, <1>4
  <2> HIDE DEF r, n
  <2> QED BY <2>1, <2>2, <2>3
<1>9. Counted' = Counted
  <2>1. Counted = Tally(game, draft, hex, rotation, n) /\ Counted' = Tally(game, draft, hex + 1, 1, 0)
    BY <1>1, <1>2, <1>5 DEF Counted
  <2>2. /\ draft \in 1..Len(Drafts(game)) /\ hex \in 1..(Len(FrontierOf(game)) + 1)
        /\ rotation \in 1..(Len(Rotations(game, draft)) + 1)
    BY <1>2, <1>4, LengthsAre DEF InRange
  <2>3. n = PerTile(game, draft)
    BY <1>2, <2>2, PerTileIs
  <2>4. /\ Tally(game, draft, hex, rotation, PerTile(game, draft)) = Tally(game, draft, hex, rotation + 1, 0)
        /\ Tally(game, draft, hex, r, 0) = Tally(game, draft, hex + 1, 1, 0)
    <3>1. 0 \in Nat
      OBVIOUS
    <3> QED BY <1>2, <2>2, <3>1, TallyIs
  <2>5. rotation + 1 = r
    BY <1>1, <1>4
  <2> HIDE DEF r, n
  <2> QED BY <2>1, <2>3, <2>4, <2>5
<1>10. CountInv'
  BY <1>1, <1>8, <1>9, Counts DEF EnumerationInv
<1> QED BY <1>1, <1>2, <1>7, <1>10 DEF EnumerationInv

\* The token is given back, and the probe is the game's board.
LEMMA EndDraftStep == ASSUME EnumerationInv, EndDraft PROVE EnumerationInv'
<1>1. /\ phase = "hex" /\ hex > Len(FrontierOf(game)) /\ draft' = draft + 1 /\ phase' = "draft"
      /\ game' = game /\ visits' = visits
      /\ probe' = IF Draft.independent THEN [probe EXCEPT !.tokens = @ + 1] ELSE probe
  BY DEF EndDraft
<1>2. /\ IsGame(game) /\ draft \in 1..Len(Drafts(game)) /\ hex \in 1..(Len(FrontierOf(game)) + 1)
      /\ probe = Charged(game, Draft)
  BY <1>1 DEF EnumerationInv, CursorInv
<1>3. Len(Drafts(game)) \in Nat /\ Len(FrontierOf(game)) \in Nat
  BY <1>2, LengthsAre
<1>4. hex = Len(FrontierOf(game)) + 1
  BY <1>1, <1>2, <1>3
<1>5. probe' = game.board
  <2>1. Draft \in Kinds /\ Affordable(game, Draft)
    BY <1>2, DraftsAre DEF Draft
  <2>2. Draft.independent => [Charged(game, Draft) EXCEPT !.tokens = @ + 1] = game.board
    BY <1>2, <2>1, ChargedIs
  <2> QED BY <1>1, <1>2, <2>2 DEF Charged
<1>6. CursorInv'
  <2>1. draft + 1 \in 1..(Len(Drafts(game)) + 1)
    BY <1>2, <1>3
  <2> QED BY <1>1, <1>5, <2>1 DEF CursorInv
<1>7. Reached' = Reached
  BY <1>1, <1>2, <1>4, NextDraft DEF Reached
<1>8. Counted' = Counted
  <2>1. Tally(game, draft, Len(FrontierOf(game)) + 1, 1, 0) = DraftsUpTo(game, draft)
    <3>1. 1 \in 1..(Len(Rotations(game, draft)) + 1) /\ 0 \in Nat
      BY <1>2, LengthsAre
    <3> QED BY <1>2, <3>1, TallyIs
  <2>2. (draft + 1) - 1 = draft
    BY <1>2
  <2> QED BY <1>1, <1>4, <2>1, <2>2 DEF Counted
<1>9. CountInv'
  BY <1>1, <1>7, <1>8, Counts DEF EnumerationInv
<1> QED BY <1>1, <1>2, <1>6, <1>9 DEF EnumerationInv

\* All places have been visited.
LEMMA EndVisitsStep == ASSUME EnumerationInv, EndVisits PROVE EnumerationInv'
<1>1. /\ phase = "draft" /\ draft > Len(Drafts(game)) /\ phase' = "done"
      /\ game' = game /\ probe' = probe /\ visits' = visits
  BY DEF EndVisits
<1>2. IsGame(game) /\ draft \in 1..(Len(Drafts(game)) + 1) /\ probe = game.board
  BY <1>1 DEF EnumerationInv, CursorInv
<1>3. draft = Len(Drafts(game)) + 1 /\ draft - 1 = Len(Drafts(game))
  <2>1. Len(Drafts(game)) \in Nat
    BY <1>2, LengthsAre
  <2> QED BY <1>1, <1>2, <2>1
<1>4. CursorInv'
  BY <1>1, <1>2 DEF CursorInv
<1>5. Reached' = Reached
  BY <1>1, <1>2, <1>3, Ends DEF Reached
<1>6. Counted' = Counted
  BY <1>1, <1>2, <1>3, CapacityIs DEF Counted
<1>7. CountInv'
  BY <1>1, <1>5, <1>6, Counts DEF EnumerationInv
<1> QED BY <1>1, <1>2, <1>4, <1>7 DEF EnumerationInv

\* The board of a turn the rules accept has a tile more.
LEMMA PreviewIs ==
  ASSUME NEW g, IsGame(g), NEW turn \in AcceptedTurns(g)
  PROVE  /\ IsBoard(Preview(g, turn)) /\ Preview(g, turn).placed = Append(g.board.placed, turn.coord)
         /\ turn.coord \in Frontier(g.board)
<1>1. PICK p \in Places(g) : TurnOf(g, p) = turn
  BY AcceptedIsVisited
<1> DEFINE t == TileAt(g, p[1], p[2], p[3])
           s == SpotsAt(g, p[1], p[2])
           w == TokenOf(g, Drafts(g)[p[1]])
<1>2. InRange(g, p[1], p[2], p[3]) /\ p[4] \in 0..Len(s)
  BY PlaceIs
<1>3. turn.coord = FrontierOf(g)[p[2]] /\ FrontierOf(g)[p[2]] \in Frontier(g.board)
  BY <1>1, <1>2, TurnFields, RangeIs DEF TurnOf
<1>4. Preview(g, turn) = IF p[4] = 0 THEN t ELSE WithWildlife(t, s[p[4]], w)
  BY <1>1, <1>2, VisitedIsAccepted DEF TurnOf
<1>5. IsBoard(t) /\ t.placed = Append(g.board.placed, FrontierOf(g)[p[2]])
  BY <1>2, TileAtIs
<1>6. IsBoard(Preview(g, turn)) /\ Preview(g, turn).placed = t.placed
  <2>1. CASE p[4] = 0
    BY <1>4, <1>5, <2>1
  <2>2. CASE p[4] # 0
    <3>1. s \in Seq(Hexes) /\ (\A k \in 1..Len(s) : CanPlaceWildlife(t, s[k], w)) /\ w \in Wildlife
      BY <1>2, SpotsAre, RangeIs
    <3> HIDE DEF t, s, w
    <3>2. p[4] \in 1..Len(s)
      BY <1>2, <2>2, <3>1
    <3> QED BY <1>4, <1>5, <2>2, <3>1, <3>2, WithWildlifeIs
  <2> QED BY <2>1, <2>2
<1> QED BY <1>3, <1>5, <1>6

\* A turn the rules accept makes a board the enumeration can begin on.
LEMMA PlayStep == ASSUME EnumerationInv, NEW turn \in AcceptedTurns(game), Play(turn) PROVE EnumerationInv'
<1>1. PICK market \in Offers :
        game' = [board |-> Preview(game, turn), market |-> market, completed_turns |-> game.completed_turns + 1]
  BY DEF Play
<1>2. /\ game.completed_turns + 1 < Turns /\ probe' = game'.board /\ phase' = "draft" /\ draft' = 1 /\ visits' = 0
  BY DEF Play
<1>3. IsGame(game)
  BY DEF EnumerationInv
<1>4. /\ IsBoard(Preview(game, turn)) /\ Preview(game, turn).placed = Append(game.board.placed, turn.coord)
      /\ turn.coord \in Frontier(game.board)
  BY <1>3, PreviewIs
<1>5. game'.board.placed # <<>> /\ Len(game'.board.placed) = Len(game.board.placed) + 1
  <2>1. game.board.placed \in Seq(Hexes) /\ turn.coord \in Hexes
    BY <1>3, <1>4 DEF IsGame, IsBoard, Frontier
  <2> QED BY <1>1, <1>4, <2>1
<1>6. IsGame(game')
  <2>1. /\ Turns \in Nat /\ game.completed_turns \in 0..(Turns - 1) /\ Len(game.board.placed) \in Nat
        /\ Len(game.board.placed) + (Turns - game.completed_turns) <= MaxBoardTiles /\ MaxBoardTiles \in Nat
    BY <1>3, TurnsAssumption, BoardAssumption DEF IsGame, IsBoard
  <2>2. /\ game'.board = Preview(game, turn) /\ game'.market \in Offers
        /\ game'.completed_turns = game.completed_turns + 1
    BY <1>1
  <2>3. game'.completed_turns \in 0..(Turns - 1)
    BY <1>2, <2>1, <2>2
  <2>4. Len(game'.board.placed) + (Turns - game'.completed_turns) <= MaxBoardTiles
    BY <1>5, <2>1, <2>2
  <2> QED BY <1>4, <1>5, <2>2, <2>3, <2>4 DEF IsGame
<1>7. CursorInv'
  <2>1. 1 \in 1..(Len(Drafts(game')) + 1)
    BY <1>6, LengthsAre
  <2> QED BY <1>2, <2>1 DEF CursorInv
<1>8. CountInv'
  <2>1. Reached' = {} /\ Counted' = DraftsUpTo(game', 0)
    BY <1>2, <1>6, Ends DEF Reached, Counted
  <2> QED BY <1>2, <1>6, <2>1, DraftsUpToIs, FS_EmptySet DEF CountInv
<1> QED BY <1>6, <1>7, <1>8 DEF EnumerationInv

\* Each place is visited once, so there are as many visits as accepted turns.
LEMMA AcceptedCount ==
  ASSUME NEW g, IsGame(g), IsFiniteSet(Places(g))
  PROVE  Cardinality(Places(g)) = Cardinality(AcceptedTurns(g))
<1> DEFINE P == Places(g)
           A == AcceptedTurns(g)
           f == [p \in P |-> TurnOf(g, p)]
<1>1. \A p \in P : f[p] \in A
  <2> SUFFICES ASSUME NEW p \in P PROVE TurnOf(g, p) \in A
    OBVIOUS
  <2>1. InRange(g, p[1], p[2], p[3]) /\ p[4] \in 0..Len(SpotsAt(g, p[1], p[2]))
    BY PlaceIs
  <2> QED BY <2>1, VisitedIsAccepted DEF TurnOf
<1>2. \A p, q \in P : f[p] = f[q] => p = q
  BY PlacesDiffer
<1>3. \A x \in A : \E p \in P : f[p] = x
  BY AcceptedIsVisited
<1>4. f \in [P -> A]
  BY <1>1
<1> HIDE DEF P, A, f
<1>5. f \in Bijection(P, A)
  BY <1>2, <1>3, <1>4 DEF Bijection, Injection, Surjection, IsInjective
<1>6. IsFiniteSet(P) /\ ExistsBijection(P, A)
  BY <1>5 DEF ExistsBijection, P
<1>7. Cardinality(A) = Cardinality(P)
  BY <1>6, FS_Bijection
<1> QED BY <1>7 DEF P, A

\* The invariant says what the visitor is promised.
LEMMA EnumerationInvIsExact == EnumerationInv => EnumerationExact
<1> SUFFICES ASSUME EnumerationInv PROVE EnumerationExact
  OBVIOUS
<1>1. phase # "error"
  BY DEF EnumerationInv, CursorInv
<1>2. ASSUME phase = "visit"
      PROVE  /\ Accepts(game, Visited) /\ probe = Preview(game, Visited)
             /\ token = 0 => Spots = WildlifePlacements(probe, TokenOf(game, Draft))
  <2>1. IsGame(game) /\ InRange(game, draft, hex, rotation) /\ probe = Preview(game, Visited)
    BY <1>2 DEF EnumerationInv, CursorInv
  <2>2. /\ Accepts(game, Visited)
        /\ token = 0 => probe = TileAt(game, draft, hex, rotation)
    BY <1>2, ProbeIs
  <2>3. WildlifePlacements(TileAt(game, draft, hex, rotation), TokenOf(game, Draft)) = Spots
    BY <2>1, TileAtIs, VisitedIs DEF Draft
  <2> QED BY <2>1, <2>2, <2>3
<1>3. ASSUME phase = "done"
      PROVE  /\ probe = game.board
             /\ visits = Cardinality(AcceptedTurns(game))
             /\ visits = Capacity(game)
  <2>1. probe = game.board /\ IsGame(game)
    BY <1>3 DEF EnumerationInv, CursorInv
  <2>2. Reached = Places(game) /\ Counted = Capacity(game)
    BY <1>3 DEF Reached, Counted
  <2>3. IsFiniteSet(Places(game)) /\ visits = Cardinality(Places(game)) /\ visits = Capacity(game)
    BY <2>2 DEF EnumerationInv, CountInv
  <2> QED BY <2>1, <2>3, AcceptedCount
<1> QED BY <1>1, <1>2, <1>3 DEF EnumerationExact

\* Every step keeps it.
LEMMA EnumerationStep == EnumerationInv /\ [TurnsNext]_turnVars => EnumerationInv'
<1> SUFFICES ASSUME EnumerationInv, [TurnsNext]_turnVars PROVE EnumerationInv'
  OBVIOUS
<1>1. CASE Visit
  BY <1>1, BeginDraftStep, PlaceProbeStep, SettleNextStep, TurnProbeStep, LiftProbeStep, EndDraftStep,
     EndVisitsStep DEF Visit
<1>2. CASE phase = "done" /\ \E turn \in AcceptedTurns(game) : Play(turn)
  BY <1>2, PlayStep
<1>3. CASE UNCHANGED turnVars
  <2>1. /\ game' = game /\ probe' = probe /\ phase' = phase /\ draft' = draft /\ hex' = hex
        /\ rotation' = rotation /\ token' = token /\ visits' = visits
    BY <1>3 DEF turnVars, cursor
  <2>2. Visited' = Visited /\ Draft' = Draft
    BY <2>1, VisitedIs, VisitedNext DEF Draft
  <2>3. CursorInv'
    BY <2>1, <2>2 DEF EnumerationInv, CursorInv
  <2>4. CountInv'
    BY <2>1 DEF EnumerationInv, CountInv, Reached, Counted
  <2> QED BY <2>1, <2>3, <2>4 DEF EnumerationInv
<1> QED BY <1>1, <1>2, <1>3 DEF TurnsNext

\* The enumeration of the legal turns shows the visitor the board of each turn the
\* rules accept, once, as many as were announced, and leaves the board as it was.
THEOREM EnumerationIsExact == TurnsSpec => []EnumerationExact
BY TurnsInitEnumerates, EnumerationStep, EnumerationInvIsExact, PTL DEF TurnsSpec

-----------------------------------------------------------------------------
(* Neighbors.                                                               *)

\* A neighbor is another cell, and its opposite edge leads back.
LEMMA NeighborBack ==
  ASSUME NEW c \in Int \X Int, NEW e \in Edges
  PROVE  /\ Neighbor(c, e) \in Int \X Int /\ Neighbor(c, e) # c
         /\ Opposite(e) \in Edges /\ Opposite(Opposite(e)) = e
         /\ Neighbor(Neighbor(c, e), Opposite(e)) = c
<1>1. PICK x, y \in Int : c = <<x, y>>
  OBVIOUS
<1>4. CASE e = 0
  BY <1>1, <1>4 DEF Neighbor, EdgeSteps, Edges, Opposite
<1>5. CASE e = 1
  BY <1>1, <1>5 DEF Neighbor, EdgeSteps, Edges, Opposite
<1>6. CASE e = 2
  BY <1>1, <1>6 DEF Neighbor, EdgeSteps, Edges, Opposite
<1>7. CASE e = 3
  BY <1>1, <1>7 DEF Neighbor, EdgeSteps, Edges, Opposite
<1>8. CASE e = 4
  BY <1>1, <1>8 DEF Neighbor, EdgeSteps, Edges, Opposite
<1>9. CASE e = 5
  BY <1>1, <1>9 DEF Neighbor, EdgeSteps, Edges, Opposite
<1> QED BY <1>4, <1>5, <1>6, <1>7, <1>8, <1>9 DEF Edges

-----------------------------------------------------------------------------
(* Habitats.                                                                *)

Ground(b, t) == {c \in Occupied(b) : ContainsTerrain(b.cells[c].tile, t)}
Joins(b, t) ==
  {p \in Occupied(b) \X Occupied(b) : \E e \in Edges : Connects(b, p[1], e, t) /\ Neighbor(p[1], e) = p[2]}

\* Which cells a terrain joins.
LEMMA JoinsIs ==
  ASSUME NEW b, NEW t, NEW x, NEW y
  PROVE  <<x, y>> \in Joins(b, t) <=>
           /\ x \in Occupied(b) /\ y \in Occupied(b)
           /\ \E e \in Edges : Connects(b, x, e, t) /\ Neighbor(x, e) = y
BY DEF Joins

\* A terrain joins both ways.
LEMMA JoinsSymmetric ==
  ASSUME NEW b, Occupied(b) \subseteq Int \X Int, NEW t
  PROVE  Symmetric(Joins(b, t))
<1> SUFFICES ASSUME NEW x, NEW y, <<x, y>> \in Joins(b, t) PROVE <<y, x>> \in Joins(b, t)
  BY DEF Symmetric
<1>1. x \in Occupied(b) /\ y \in Occupied(b) /\ x \in Int \X Int
  BY JoinsIs
<1>2. PICK e \in Edges : Connects(b, x, e, t) /\ Neighbor(x, e) = y
  BY JoinsIs
<1> DEFINE f == Opposite(e)
<1>3. f \in Edges /\ Opposite(f) = e /\ Neighbor(y, f) = x
  BY <1>1, <1>2, NeighborBack
<1>4. Shows(b, x, e) = t /\ Shows(b, y, f) = t
  BY <1>2 DEF Connects
<1> HIDE DEF f
<1>5. Connects(b, y, f, t)
  BY <1>1, <1>3, <1>4 DEF Connects
<1> QED BY <1>1, <1>3, <1>5, JoinsIs

\* What FoldSet does with one cell more.
JoinCell(b, t, c, found) ==
  LET touched == {K \in found : \E edge \in Edges : Connects(b, c, edge, t) /\ Neighbor(c, edge) \in K}
  IN (found \ touched) \cup {(UNION touched) \cup {c}}

\* The fold joins a cell to the components it touches.
LEMMA JoinCellIs ==
  ASSUME NEW b, NEW t, NEW c \in Occupied(b), NEW P
  PROVE  JoinCell(b, t, c, P) = JoinedBy(P, c, Joins(b, t))
<1>1. {K \in P : \E edge \in Edges : Connects(b, c, edge, t) /\ Neighbor(c, edge) \in K}
        = Touched(P, c, Joins(b, t))
  <2> SUFFICES ASSUME NEW K \in P
      PROVE  (\E edge \in Edges : Connects(b, c, edge, t) /\ Neighbor(c, edge) \in K)
               <=> \E y \in K : <<c, y>> \in Joins(b, t)
    BY DEF Touched
  <2>1. ASSUME NEW edge \in Edges, Connects(b, c, edge, t), Neighbor(c, edge) \in K
        PROVE  \E y \in K : <<c, y>> \in Joins(b, t)
    <3>1. Neighbor(c, edge) \in Occupied(b)
      BY <2>1 DEF Connects
    <3>2. <<c, Neighbor(c, edge)>> \in Joins(b, t)
      BY <2>1, <3>1, JoinsIs
    <3> QED BY <2>1, <3>2
  <2>2. ASSUME NEW y \in K, <<c, y>> \in Joins(b, t)
        PROVE  \E edge \in Edges : Connects(b, c, edge, t) /\ Neighbor(c, edge) \in K
    BY <2>2, JoinsIs
  <2> QED BY <2>1, <2>2
<1> QED BY <1>1 DEF JoinCell, JoinedBy

\* The habitats of a board are the components of its terrain, in whatever order its
\* cells were added.
LEMMA HabitatsFound ==
  ASSUME NEW b, NEW t, IsFiniteSet(Occupied(b)), Occupied(b) \subseteq Int \X Int
  PROVE  IsComponents(HabitatComponents(b, t), Ground(b, t), Joins(b, t)) /\ IsFiniteSet(Ground(b, t))
<1> DEFINE G == Ground(b, t)
           E == Joins(b, t)
           Eqn(h) == h = [s \in SUBSET G |-> IF s = {} THEN {}
                                             ELSE JoinCell(b, t, CHOOSE x \in s : TRUE, h[s \ {CHOOSE x \in s : TRUE}])]
           found == CHOOSE h : Eqn(h)
<1>0. G \subseteq Occupied(b) /\ IsFiniteSet(G)
  <2>1. G \subseteq Occupied(b)
    BY DEF Ground
  <2> QED BY <2>1, FS_Subset
<1>1. HabitatComponents(b, t) = found[G]
  BY DEF HabitatComponents, FoldSet, MapThenFoldSet, JoinCell, Ground
<1> HIDE DEF G, E
<1>2. PICK it : DOMAIN it = SUBSET G /\ it = [s \in SUBSET G |-> it[s]] /\ FindsAll(it, G, E)
  BY <1>0, FindingExists
<1>3. \A s \in SUBSET G : \A P : s # {} => JoinCell(b, t, Chosen(s), P) = JoinedBy(P, Chosen(s), E)
  <2> SUFFICES ASSUME NEW s \in SUBSET G, NEW P, s # {} PROVE JoinCell(b, t, Chosen(s), P) = JoinedBy(P, Chosen(s), E)
    OBVIOUS
  <2>1. Chosen(s) \in Occupied(b)
    BY <1>0, RestIs
  <2> QED BY <2>1, JoinCellIs DEF E
<1>4. Eqn(it)
  <2>1. it[{}] = {} /\ \A s \in SUBSET G : s # {} => it[s] = JoinedBy(it[Rest(s)], Chosen(s), E)
    BY <1>2 DEF FindsAll
  <2>2. \A s \in SUBSET G : it[s] = IF s = {} THEN {} ELSE JoinCell(b, t, Chosen(s), it[Rest(s)])
    BY <1>3, <2>1
  <2>3. \A s \in SUBSET G : it[s] = IF s = {} THEN {}
          ELSE JoinCell(b, t, CHOOSE x \in s : TRUE, it[s \ {CHOOSE x \in s : TRUE}])
    BY <2>2 DEF Chosen, Rest
  <2> QED BY <1>2, <2>3
<1>5. Eqn(found)
  <2> HIDE DEF Eqn
  <2> QED BY <1>4
<1>6. \A s \in SUBSET G : found[s] = IF s = {} THEN {} ELSE JoinCell(b, t, Chosen(s), found[Rest(s)])
  <2> HIDE DEF found
  <2> QED BY <1>5 DEF Chosen, Rest
<1> HIDE DEF found
<1>7. FindsAll(found, G, E)
  BY <1>3, <1>6 DEF FindsAll
<1>8. Symmetric(E)
  BY JoinsSymmetric DEF E
<1>9. IsComponents(found[G], G, E)
  BY <1>0, <1>7, <1>8, FoundIs
<1> QED BY <1>0, <1>1, <1>9 DEF G, E

\* A board that shows at least what another shows: wildlife and tokens aside.
Keeps(b, p) ==
  /\ IsBoard(b) /\ IsBoard(p) /\ Occupied(b) \subseteq Occupied(p)
  /\ \A x \in Occupied(b) : p.cells[x].tile = b.cells[x].tile /\ p.cells[x].rotation = b.cells[x].rotation

\* A board has finitely many cells.
LEMMA BoardFinite ==
  ASSUME NEW b, IsBoard(b)
  PROVE  IsFiniteSet(Occupied(b)) /\ Occupied(b) \subseteq Int \X Int
<1>1. Occupied(b) \subseteq Hexes
  BY OccupiedIs
<1>2. IsFiniteSet(Hexes) /\ Hexes \subseteq Int \X Int
  BY BoardAssumption
<1> QED BY <1>1, <1>2, FS_Subset

\* The cells that are kept show what they did.
LEMMA KeepsShows ==
  ASSUME NEW b, NEW p, Keeps(b, p), NEW x \in Occupied(b)
  PROVE  \A e : Shows(p, x, e) = Shows(b, x, e)
BY DEF Keeps, Shows

\* They are joined as they were.
LEMMA KeepsJoins ==
  ASSUME NEW b, NEW p, Keeps(b, p), NEW t, NEW x \in Occupied(b), NEW y \in Occupied(b)
  PROVE  <<x, y>> \in Joins(b, t) <=> <<x, y>> \in Joins(p, t)
<1>1. x \in Occupied(p) /\ y \in Occupied(p)
  BY DEF Keeps
<1>2. \A e : Neighbor(x, e) = y => (Connects(b, x, e, t) <=> Connects(p, x, e, t))
  BY <1>1, KeepsShows DEF Connects
<1> QED BY <1>1, <1>2, JoinsIs

\* No cell more with the terrain: the same components.
LEMMA SameGround ==
  ASSUME NEW b, NEW p, Keeps(b, p), NEW t, Ground(p, t) = Ground(b, t)
  PROVE  HabitatComponents(p, t) = HabitatComponents(b, t)
<1>1. IsComponents(HabitatComponents(b, t), Ground(b, t), Joins(b, t))
  BY BoardFinite, HabitatsFound DEF Keeps
<1>2. IsComponents(HabitatComponents(p, t), Ground(b, t), Joins(p, t))
  BY BoardFinite, HabitatsFound DEF Keeps
<1>3. \A x, y \in Ground(b, t) : <<x, y>> \in Joins(b, t) <=> <<x, y>> \in Joins(p, t)
  BY KeepsJoins DEF Ground
<1>4. IsComponents(HabitatComponents(b, t), Ground(b, t), Joins(p, t))
  BY <1>1, <1>3, ComponentsWithin
<1> QED BY <1>2, <1>4, ComponentsUnique

\* One cell more: it joins the components it touches.
LEMMA MoreGround ==
  ASSUME NEW b, NEW p, Keeps(b, p), NEW t, NEW c, c \notin Ground(b, t), Ground(p, t) = Ground(b, t) \cup {c}
  PROVE  HabitatComponents(p, t) = JoinedBy(HabitatComponents(b, t), c, Joins(p, t))
<1>1. IsComponents(HabitatComponents(b, t), Ground(b, t), Joins(b, t))
  BY BoardFinite, HabitatsFound DEF Keeps
<1>2. IsComponents(HabitatComponents(p, t), Ground(b, t) \cup {c}, Joins(p, t))
  BY BoardFinite, HabitatsFound DEF Keeps
<1>3. \A x, y \in Ground(b, t) : <<x, y>> \in Joins(b, t) <=> <<x, y>> \in Joins(p, t)
  BY KeepsJoins DEF Ground
<1>4. IsComponents(HabitatComponents(b, t), Ground(b, t), Joins(p, t))
  BY <1>1, <1>3, ComponentsWithin
<1>5. Symmetric(Joins(p, t))
  BY BoardFinite, JoinsSymmetric DEF Keeps
<1>6. IsComponents(JoinedBy(HabitatComponents(b, t), c, Joins(p, t)), Ground(b, t) \cup {c}, Joins(p, t))
  BY <1>4, <1>5, JoinedIs
<1> QED BY <1>2, <1>6, ComponentsUnique

\* The largest habitat.
LEMMA LargestIs ==
  ASSUME NEW b, IsBoard(b), NEW t
  PROVE  /\ LargestHabitat(b, t) \in Nat
         /\ LargestHabitat(b, t) = 0 \/ \E K \in HabitatComponents(b, t) : LargestHabitat(b, t) = Cardinality(K)
         /\ \A K \in HabitatComponents(b, t) :
              IsFiniteSet(K) /\ Cardinality(K) \in Nat /\ Cardinality(K) <= LargestHabitat(b, t)
<1> DEFINE P == HabitatComponents(b, t)
           G == Ground(b, t)
           N == Cardinality(G)
           A == {0} \cup {Cardinality(K) : K \in P}
<1>1. IsComponents(P, G, Joins(b, t)) /\ IsFiniteSet(G)
  BY BoardFinite, HabitatsFound
<1>2. LargestHabitat(b, t) = Max(A)
  BY DEF LargestHabitat
<1> HIDE DEF P, G
<1>3. N \in Nat
  BY <1>1, FS_CardinalityType
<1>4. \A K \in P : IsFiniteSet(K) /\ Cardinality(K) \in Nat /\ Cardinality(K) <= N
  <2> SUFFICES ASSUME NEW K \in P PROVE IsFiniteSet(K) /\ Cardinality(K) \in Nat /\ Cardinality(K) <= N
    OBVIOUS
  <2>1. K \in SUBSET G
    BY <1>1 DEF IsComponents
  <2>2. IsFiniteSet(K) /\ Cardinality(K) <= N
    BY <1>1, <2>1, FS_Subset
  <2> QED BY <2>2, FS_CardinalityType
<1> HIDE DEF N
<1>5. A \subseteq 0..N
  BY <1>3, <1>4
<1>6. IsFiniteSet(A) /\ A \subseteq Nat /\ A # {}
  <2>1. IsFiniteSet(0..N)
    BY <1>3, FS_Interval
  <2>2. A \subseteq Nat /\ A # {}
    BY <1>5
  <2> HIDE DEF A
  <2> QED BY <1>5, <2>1, <2>2, FS_Subset
<1>7. Max(A) \in A /\ \A x \in A : x <= Max(A)
  <2> HIDE DEF A
  <2> QED BY <1>6, GreatestIn
<1> DEFINE m == Max(A)
<1> HIDE DEF m
<1>8. m \in A /\ \A x \in A : x <= m
  BY <1>7 DEF m
<1>9. m \in Nat
  BY <1>6, <1>8
<1>10. m = 0 \/ \E K \in P : m = Cardinality(K)
  BY <1>8
<1>11. \A K \in P : Cardinality(K) <= m
  BY <1>8
<1>12. LargestHabitat(b, t) = m
  BY <1>2 DEF m
<1> HIDE DEF A
<1> QED BY <1>4, <1>9, <1>10, <1>11, <1>12 DEF P

\* One cell more: the largest habitat is the one before or the one that was joined.
LEMMA LargestJoined ==
  ASSUME NEW b, NEW p, Keeps(b, p), NEW t, NEW c, c \notin Ground(b, t), Ground(p, t) = Ground(b, t) \cup {c},
         NEW M, M = (UNION Touched(HabitatComponents(b, t), c, Joins(p, t))) \cup {c}
  PROVE  /\ Cardinality(M) \in Nat
         /\ LargestHabitat(p, t) = Max({LargestHabitat(b, t), Cardinality(M)})
<1> DEFINE P == HabitatComponents(b, t)
           T == Touched(P, c, Joins(p, t))
           Q == HabitatComponents(p, t)
           l == LargestHabitat(b, t)
           k == LargestHabitat(p, t)
           m == Cardinality(M)
<1>1. Q = (P \ T) \cup {M}
  BY MoreGround DEF JoinedBy
<1>2. T \subseteq P
  BY DEF Touched
<1>3. /\ l \in Nat /\ (l = 0 \/ \E K \in P : l = Cardinality(K))
      /\ \A K \in P : IsFiniteSet(K) /\ Cardinality(K) \in Nat /\ Cardinality(K) <= l
  BY LargestIs DEF Keeps
<1>4. /\ k \in Nat /\ (k = 0 \/ \E K \in Q : k = Cardinality(K))
      /\ \A K \in Q : IsFiniteSet(K) /\ Cardinality(K) \in Nat /\ Cardinality(K) <= k
  BY LargestIs DEF Keeps
<1>5. M \in Q
  BY <1>1
<1>6. \A K \in T : K \subseteq M
  BY DEF T
<1> HIDE DEF P, T, Q, l, k
<1>7. IsFiniteSet(M) /\ m \in Nat /\ m <= k
  BY <1>4, <1>5
<1>8. \A K \in T : Cardinality(K) <= m
  BY <1>6, <1>7, FS_Subset
<1> HIDE DEF m
<1>9. l <= k
  <2>1. ASSUME NEW K \in P, l = Cardinality(K) PROVE l <= k
    <3>1. CASE K \in T
      <4>1. l <= m
        BY <1>8, <2>1, <3>1
      <4> QED BY <1>3, <1>4, <1>7, <4>1
    <3>2. CASE K \notin T
      BY <1>1, <1>4, <2>1, <3>2
    <3> QED BY <3>1, <3>2
  <2>2. l = 0 => l <= k
    BY <1>4
  <2> QED BY <1>3, <2>1, <2>2
<1>10. k = l \/ k = m \/ k = 0
  <2>1. ASSUME NEW K \in Q, k = Cardinality(K) PROVE k = l \/ k = m
    <3>1. CASE K = M
      BY <2>1, <3>1 DEF m
    <3>2. CASE K \in P
      <4>1. k <= l
        BY <1>3, <2>1, <3>2
      <4> QED BY <1>3, <1>4, <1>9, <4>1
    <3> QED BY <1>1, <3>1, <3>2
  <2> QED BY <1>4, <2>1
<1>11. k = IF l >= m THEN l ELSE m
  BY <1>3, <1>4, <1>7, <1>9, <1>10
<1>12. k = Max({l, m})
  BY <1>3, <1>7, <1>11, MaxOfTwo
<1> QED BY <1>7, <1>12 DEF k, l, m

\* p is b with one tile more, wildlife and tokens aside.
Adds(b, p, c, tile, r) ==
  /\ Keeps(b, p) /\ c \in Hexes /\ c \notin Occupied(b) /\ Occupied(p) = Occupied(b) \cup {c}
  /\ tile \in Tiles /\ r \in Edges /\ p.cells[c].tile = tile /\ p.cells[c].rotation = r

\* What an edge shows is a terrain of the tile.
LEMMA TerrainIs ==
  ASSUME NEW tile \in Tiles, NEW r, NEW e
  PROVE  TerrainOnEdge(tile, r, e) \in Terrains /\ ContainsTerrain(tile, TerrainOnEdge(tile, r, e))
<1>1. tile.terrain_a \in Terrains /\ tile.terrain_b \in Terrains \cup {None}
  BY DEF Tiles
<1> QED BY <1>1 DEF TerrainOnEdge, ContainsTerrain

\* The edges that show a terrain of the tile.
LEMMA MaskIs ==
  ASSUME NEW tile \in Tiles, NEW r \in Edges, NEW t, ContainsTerrain(tile, t), t # None
  PROVE  TerrainEdges(tile, r, t) = {e \in Edges : TerrainOnEdge(tile, r, e) = t}
<1>1. tile.terrain_a # None /\ tile.terrain_a # tile.terrain_b /\ t \in {tile.terrain_a, tile.terrain_b}
  BY DEF Tiles, ContainsTerrain, Terrains, None
<1>2. CASE tile.terrain_b = None
  BY <1>1, <1>2 DEF TerrainEdges, TerrainOnEdge
<1>3. CASE tile.terrain_b # None
  <2> DEFINE A == {(i + r) % 6 : i \in 0..2}
  <2>1. \A e \in Edges : e \in A <=> (e + 6 - r) % 6 < 3
    <3>2. r \in {0, 1, 2, 3, 4, 5}
      BY DEF Edges
    <3>0. \A x : x \in A <=> \E i \in 0..2 : x = (i + r) % 6
      OBVIOUS
    <3>1. \A x : x \in A <=> x = (0 + r) % 6 \/ x = (1 + r) % 6 \/ x = (2 + r) % 6
      <4> HIDE DEF A
      <4> QED BY <3>0
    <3> HIDE DEF A
    <3> SUFFICES ASSUME NEW e \in {0, 1, 2, 3, 4, 5} PROVE e \in A <=> (e + 6 - r) % 6 < 3
      BY DEF Edges
    <3>3. CASE r = 0
      BY <3>1, <3>3
    <3>4. CASE r = 1
      BY <3>1, <3>4
    <3>5. CASE r = 2
      BY <3>1, <3>5
    <3>6. CASE r = 3
      BY <3>1, <3>6
    <3>7. CASE r = 4
      BY <3>1, <3>7
    <3>8. CASE r = 5
      BY <3>1, <3>8
    <3> QED BY <3>2, <3>3, <3>4, <3>5, <3>6, <3>7, <3>8
  <2>2. A \subseteq Edges
    BY DEF Edges
  <2>3. TerrainEdges(tile, r, t) = IF t = tile.terrain_a THEN A ELSE Edges \ A
    BY <1>3 DEF TerrainEdges
  <2>4. \A e : TerrainOnEdge(tile, r, e) = IF (e + 6 - r) % 6 < 3 THEN tile.terrain_a ELSE tile.terrain_b
    BY <1>3 DEF TerrainOnEdge
  <2> HIDE DEF A
  <2>5. CASE t = tile.terrain_a
    BY <1>1, <2>1, <2>2, <2>3, <2>4, <2>5
  <2>6. CASE t # tile.terrain_a
    BY <1>1, <2>1, <2>2, <2>3, <2>4, <2>6
  <2> QED BY <2>5, <2>6
<1> QED BY <1>2, <1>3

\* A tile adds its cell to the ground of its terrains.
LEMMA GroundWithTile ==
  ASSUME NEW b, NEW p, NEW c, NEW tile, NEW r, Adds(b, p, c, tile, r), NEW t
  PROVE  /\ c \notin Ground(b, t)
         /\ ContainsTerrain(tile, t) => Ground(p, t) = Ground(b, t) \cup {c}
         /\ ~ContainsTerrain(tile, t) => Ground(p, t) = Ground(b, t)
BY DEF Adds, Keeps, Ground

\* What the neighbors of the cell show towards it.
Facing(b, p, c, e) == Shows(p, Neighbor(c, e), Opposite(e))
Beside(b, c) == {e \in Edges : Neighbor(c, e) \in Occupied(b)}

ContextOf(context, b, p, c) ==
  /\ DOMAIN context = Beside(b, c)
  /\ \A e \in Beside(b, c) :
       /\ context[e].terrain = Facing(b, p, c, e) /\ Facing(b, p, c, e) \in Terrains
       /\ context[e].component \in HabitatComponents(b, Facing(b, p, c, e))
       /\ Neighbor(c, e) \in context[e].component

\* The context of a cell names what each neighbor shows, and its component.
LEMMA ContextIs ==
  ASSUME NEW b, NEW p, NEW c, NEW tile, NEW r, Adds(b, p, c, tile, r)
  PROVE  ContextOf(TileNeighborContext(HabitatAnalysis(b), p, c), b, p, c)
<1> DEFINE context == TileNeighborContext(HabitatAnalysis(b), p, c)
           D == Beside(b, c)
           components == [t \in Terrains |-> HabitatComponents(b, t)]
           face(e) == Facing(b, p, c, e)
           own(e) == CHOOSE K \in components[face(e)] : Neighbor(c, e) \in K
<1>0. c \in Int \X Int
  BY BoardAssumption DEF Adds
<1>1. {e \in Edges : Neighbor(c, e) \in Occupied(p)} = D
  <2>1. \A e \in Edges : Neighbor(c, e) # c
    BY <1>0, NeighborBack
  <2> QED BY <2>1 DEF Adds, Beside
<1>2. HabitatAnalysis(b).components = components
  BY DEF HabitatAnalysis
<1>3. context = [e \in D |-> [terrain |-> face(e), component |-> own(e)]]
  BY <1>1, <1>2 DEF TileNeighborContext, Facing, ComponentAt
<1>4. ASSUME NEW e \in D
      PROVE  face(e) \in Terrains /\ own(e) \in HabitatComponents(b, face(e)) /\ Neighbor(c, e) \in own(e)
  <2> DEFINE n == Neighbor(c, e) f == Opposite(e) t == face(e)
  <2>1. n \in Occupied(b) /\ e \in Edges
    BY DEF Beside
  <2>2. t = Shows(b, n, f)
    BY <2>1, KeepsShows DEF Adds, Facing
  <2>3. b.cells[n].tile \in Tiles
    BY <2>1, OccupiedIs DEF Adds, Keeps, IsBoard, Cell
  <2>4. t \in Terrains /\ ContainsTerrain(b.cells[n].tile, t)
    BY <2>2, <2>3, TerrainIs DEF Shows
  <2>5. n \in Ground(b, t)
    BY <2>1, <2>4 DEF Ground
  <2>6. IsComponents(HabitatComponents(b, t), Ground(b, t), Joins(b, t))
    BY BoardFinite, HabitatsFound DEF Adds, Keeps
  <2> HIDE DEF n, f, t
  <2>7. \E K \in HabitatComponents(b, t) : n \in K
    BY <2>5, <2>6 DEF IsComponents
  <2>8. components[t] = HabitatComponents(b, t)
    BY <2>4
  <2> HIDE DEF components
  <2>9. own(e) \in HabitatComponents(b, t) /\ n \in own(e)
    BY <2>7, <2>8 DEF n, t
  <2> QED BY <2>4, <2>9 DEF n, t
<1> HIDE DEF D, face, own
<1>5. DOMAIN context = D /\ \A e \in D : context[e].terrain = face(e) /\ context[e].component = own(e)
  BY <1>3
<1> HIDE DEF context
<1>6. ContextOf(context, b, p, c)
  BY <1>4, <1>5 DEF ContextOf, D, face
<1> QED BY <1>6 DEF context

\* The components that are joined are those behind an edge that shows their terrain.
Behind(context, t, edges) == {context[e].component : e \in {e \in edges \cap DOMAIN context : context[e].terrain = t}}

\* Which components are behind some edges.
LEMMA BehindIs ==
  ASSUME NEW context, NEW t, NEW edges, NEW K
  PROVE  K \in Behind(context, t, edges) <=>
           \E e \in DOMAIN context : e \in edges /\ context[e].terrain = t /\ context[e].component = K
BY DEF Behind

\* The components that the tile touches are those behind its edges of that terrain.
LEMMA TouchedIs ==
  ASSUME NEW b, NEW p, NEW c, NEW tile, NEW r, Adds(b, p, c, tile, r), NEW t \in Terrains,
         NEW context, ContextOf(context, b, p, c)
  PROVE  Touched(HabitatComponents(b, t), c, Joins(p, t))
           = Behind(context, t, {e \in Edges : TerrainOnEdge(tile, r, e) = t})
<1> DEFINE P == HabitatComponents(b, t)
           edges == {e \in Edges : TerrainOnEdge(tile, r, e) = t}
<1>0. IsComponents(P, Ground(b, t), Joins(b, t))
  BY BoardFinite, HabitatsFound DEF Adds, Keeps
<1>1. \A e : Shows(p, c, e) = TerrainOnEdge(tile, r, e)
  BY DEF Adds, Shows
<1>2. c \in Occupied(p) /\ Occupied(b) \subseteq Occupied(p)
  BY DEF Adds
<1>3. \A e \in Edges : e \in edges <=> TerrainOnEdge(tile, r, e) = t
  OBVIOUS
<1> HIDE DEF P, edges
<1>4. ASSUME NEW K \in P, NEW y \in K, <<c, y>> \in Joins(p, t) PROVE K \in Behind(context, t, edges)
  <2>1. PICK e \in Edges : Connects(p, c, e, t) /\ Neighbor(c, e) = y
    BY <1>4, JoinsIs
  <2>2. y \in Occupied(b)
    BY <1>0 DEF IsComponents, Ground
  <2>3. e \in Beside(b, c)
    BY <2>1, <2>2 DEF Beside
  <2>4. Shows(p, c, e) = t /\ Facing(b, p, c, e) = t
    BY <2>1 DEF Connects, Facing
  <2>5. e \in DOMAIN context /\ context[e].terrain = t /\ context[e].component \in P /\ y \in context[e].component
    BY <2>1, <2>3, <2>4 DEF ContextOf, P
  <2>6. context[e].component = K
    BY <1>0, <2>5 DEF IsComponents
  <2>7. e \in edges
    BY <1>1, <1>3, <2>4
  <2> QED BY <2>5, <2>6, <2>7, BehindIs
<1>5. ASSUME NEW K \in Behind(context, t, edges) PROVE K \in P /\ \E y \in K : <<c, y>> \in Joins(p, t)
  <2>1. PICK e \in DOMAIN context : e \in edges /\ context[e].terrain = t /\ context[e].component = K
    BY BehindIs
  <2> DEFINE y == Neighbor(c, e)
  <2>2. e \in Beside(b, c) /\ Facing(b, p, c, e) = t /\ K \in P /\ y \in K
    BY <2>1 DEF ContextOf, P
  <2>3. e \in Edges /\ y \in Occupied(p)
    BY <1>2, <2>2 DEF Beside
  <2>4. Shows(p, c, e) = t
    BY <1>1, <1>3, <2>1, <2>3
  <2>5. Connects(p, c, e, t)
    BY <2>2, <2>3, <2>4 DEF Connects, Facing
  <2>6. <<c, y>> \in Joins(p, t)
    BY <1>2, <2>3, <2>5, JoinsIs
  <2> QED BY <2>2, <2>6
<1>6. Touched(P, c, Joins(p, t)) = Behind(context, t, edges)
  BY <1>4, <1>5 DEF Touched
<1> QED BY <1>6 DEF P, edges

\* The sizes of components add up.
LEMMA PartsSize ==
  ASSUME NEW P, NEW V, NEW E, IsComponents(P, V, E), IsFiniteSet(V), NEW T, T \subseteq P
  PROVE  /\ IsFiniteSet(T) /\ IsFiniteSet(UNION T)
         /\ Cardinality(UNION T) = SumFunction([K \in T |-> Cardinality(K)])
         /\ \A K \in T : IsFiniteSet(K)
<1> DEFINE U == UNION T
           of == [K \in T |-> K]
<1>1. \A K \in P : K \in SUBSET V
  BY DEF IsComponents
<1>2. IsFiniteSet(T)
  <2>1. IsFiniteSet(SUBSET V) /\ T \subseteq SUBSET V
    BY <1>1, FS_SUBSET
  <2> QED BY <2>1, FS_Subset
<1>3. \A K \in T : IsFiniteSet(of[K])
  BY <1>1, FS_Subset
<1>4. \A K, L \in T : K # L => of[K] \cap of[L] = {}
  BY DEF IsComponents
<1>5. \A y : y \in U <=> \E K \in T : y \in of[K]
  OBVIOUS
<1>6. [K \in T |-> Cardinality(of[K])] = [K \in T |-> Cardinality(K)] /\ \A K \in T : of[K] = K
  OBVIOUS
<1> HIDE DEF of, U
<1>7. IsFiniteSet(U) /\ Cardinality(U) = SumFunction([K \in T |-> Cardinality(of[K])])
  BY <1>2, <1>3, <1>4, <1>5, SizesAddUp
<1>8. Cardinality(U) = SumFunction([K \in T |-> Cardinality(K)])
  BY <1>6, <1>7
<1>9. \A K \in T : IsFiniteSet(K)
  BY <1>3, <1>6
<1> QED BY <1>2, <1>7, <1>8, <1>9 DEF U

\* The joined habitat is the cell and the components it touches.
LEMMA JoinedSize ==
  ASSUME NEW P, NEW V, NEW E, IsComponents(P, V, E), IsFiniteSet(V), NEW T, T \subseteq P, NEW c, c \notin V
  PROVE  Cardinality((UNION T) \cup {c}) = 1 + SumFunction([K \in T |-> Cardinality(K)])
<1> DEFINE U == UNION T
           s == SumFunction([K \in T |-> Cardinality(K)])
<1>1. IsFiniteSet(U) /\ Cardinality(U) = s
  BY PartsSize
<1>2. c \notin U
  BY DEF IsComponents
<1> HIDE DEF s, U
<1>3. Cardinality(U \cup {c}) = Cardinality(U) + 1 /\ Cardinality(U) \in Nat
  BY <1>1, <1>2, FS_AddElement, FS_CardinalityType
<1>4. Cardinality(U \cup {c}) = 1 + s
  BY <1>1, <1>3
<1> QED BY <1>4 DEF s, U

\* The same with a record for each component.
Records(Q, T) ==
  /\ \A q \in Q : q.of \in T /\ q.size = Cardinality(q.of)
  /\ \A K \in T : \E q \in Q : q.of = K
  /\ \A q, s \in Q : q.of = s.of => q = s

\* The sizes of the records add up to those of the components.
LEMMA QueriedSize ==
  ASSUME NEW P, NEW V, NEW E, IsComponents(P, V, E), IsFiniteSet(V), NEW T, T \subseteq P,
         NEW Q, IsFiniteSet(Q), Records(Q, T)
  PROVE  SumFunction([q \in Q |-> q.size]) = SumFunction([K \in T |-> Cardinality(K)])
<1> DEFINE U == UNION T
           of == [q \in Q |-> q.of]
<1>1. \A y : y \in U <=> \E K \in T : y \in K
  OBVIOUS
<1>2. Cardinality(U) = SumFunction([K \in T |-> Cardinality(K)]) /\ \A K \in T : IsFiniteSet(K)
  BY PartsSize
<1>3. \A K, L \in T : K # L => K \cap L = {}
  BY DEF IsComponents
<1>4. \A q \in Q : of[q] = q.of
  OBVIOUS
<1> HIDE DEF U, of
<1>5. \A q \in Q : IsFiniteSet(of[q])
  BY <1>2, <1>4 DEF Records
<1>6. \A q, s \in Q : q # s => of[q] \cap of[s] = {}
  BY <1>3, <1>4 DEF Records
<1>7. \A y : y \in U <=> \E q \in Q : y \in of[q]
  BY <1>1, <1>4 DEF Records
<1>8. [q \in Q |-> Cardinality(of[q])] = [q \in Q |-> q.size]
  BY <1>4 DEF Records
<1>9. IsFiniteSet(U) /\ Cardinality(U) = SumFunction([q \in Q |-> Cardinality(of[q])])
  BY <1>5, <1>6, <1>7, SizesAddUp
<1> QED BY <1>2, <1>8, <1>9

\* Asked of the board, a habitat is what it is asked of the context of the cell.
LEMMA ReadIsDirect ==
  ASSUME NEW a, NEW p, NEW c, NEW tile, NEW r, NEW t
  PROVE  LargestAfterTile(a, p, c, tile, r, t)
           = LargestAfterTileWithContext(a, TileNeighborContext(a, p, c), tile, r, t)
<1> DEFINE D == {e \in Edges : Neighbor(c, e) \in Occupied(p)}
           facing(e) == Shows(p, Neighbor(c, e), Opposite(e))
           context == TileNeighborContext(a, p, c)
           edges == {e \in Edges : TerrainOnEdge(tile, r, e) = t}
           touching == {e \in Edges : /\ TerrainOnEdge(tile, r, e) = t
                                      /\ Neighbor(c, e) \in Occupied(p)
                                      /\ facing(e) = t}
           behind == {e \in edges \cap DOMAIN context : context[e].terrain = t}
           own(e) == ComponentAt(a, t, Neighbor(c, e))
<1>1. /\ DOMAIN context = D
      /\ \A e \in D : /\ context[e].terrain = facing(e)
                       /\ context[e].component = ComponentAt(a, facing(e), Neighbor(c, e))
  BY DEF TileNeighborContext
<1> HIDE DEF context
<1>2. touching = behind
  BY <1>1
<1>3. \A e \in behind : context[e].component = own(e)
  BY <1>1
<1>4. {own(e) : e \in touching} = {context[e].component : e \in behind}
  <2> HIDE DEF own, touching, behind
  <2> QED BY <1>2, <1>3
<1> DEFINE joined == {own(e) : e \in touching}
           size == 1 + SumFunction([K \in joined |-> Cardinality(K)])
<1>5. SizeWithTile(context, edges, t) = size
  BY <1>4 DEF SizeWithTile
<1>6. LargestAfterTile(a, p, c, tile, r, t)
        = IF ~ContainsTerrain(tile, t) THEN a.largest[t] ELSE Max({a.largest[t], size})
  BY DEF LargestAfterTile
<1>7. LargestAfterTileWithContext(a, context, tile, r, t)
        = IF ~ContainsTerrain(tile, t) THEN a.largest[t]
          ELSE Max({a.largest[t], SizeWithTile(context, edges, t)})
  BY DEF LargestAfterTileWithContext
<1> HIDE DEF size, edges
<1> QED BY <1>5, <1>6, <1>7 DEF context

\* The largest habitat with the tile, as it is asked for directly.
LEMMA DirectIs ==
  ASSUME NEW b, NEW p, NEW c, NEW tile, NEW r, Adds(b, p, c, tile, r), NEW t \in Terrains,
         NEW context, ContextOf(context, b, p, c), ContainsTerrain(tile, t)
  PROVE  LargestAfterTileWithContext(HabitatAnalysis(b), context, tile, r, t) = LargestHabitat(p, t)
<1> DEFINE P == HabitatComponents(b, t)
           G == Ground(b, t)
           edges == {e \in Edges : TerrainOnEdge(tile, r, e) = t}
           T == Behind(context, t, edges)
           M == (UNION T) \cup {c}
<1>1. IsComponents(P, G, Joins(b, t)) /\ IsFiniteSet(G)
  BY BoardFinite, HabitatsFound DEF Adds, Keeps
<1>2. c \notin G /\ Ground(p, t) = G \cup {c}
  BY GroundWithTile
<1>3. T = Touched(P, c, Joins(p, t))
  BY TouchedIs
<1>4. T \subseteq P
  BY <1>3 DEF Touched
<1>5. HabitatAnalysis(b).largest[t] = LargestHabitat(b, t)
  BY DEF HabitatAnalysis
<1>6. SizeWithTile(context, edges, t) = 1 + SumFunction([K \in T |-> Cardinality(K)])
  BY DEF SizeWithTile, Behind
<1>7. LargestAfterTileWithContext(HabitatAnalysis(b), context, tile, r, t)
        = Max({LargestHabitat(b, t), SizeWithTile(context, edges, t)})
  BY <1>5 DEF LargestAfterTileWithContext
<1> HIDE DEF edges, T
<1>8. SizeWithTile(context, edges, t) = Cardinality(M)
  <2> HIDE DEF P, G
  <2> QED BY <1>1, <1>2, <1>4, <1>6, JoinedSize
<1>9. LargestHabitat(p, t) = Max({LargestHabitat(b, t), Cardinality(M)})
  <2>1. M = (UNION Touched(HabitatComponents(b, t), c, Joins(p, t))) \cup {c}
    BY <1>3
  <2> HIDE DEF M
  <2> QED BY <1>2, <2>1, LargestJoined DEF Adds, G
<1> QED BY <1>7, <1>8, <1>9

\* And as it is asked for by the edges that face the cell.
LEMMA QueriedIs ==
  ASSUME NEW b, NEW p, NEW c, NEW tile, NEW r, Adds(b, p, c, tile, r), NEW t \in Terrains,
         NEW context, ContextOf(context, b, p, c), ContainsTerrain(tile, t)
  PROVE  LargestAfterTerrainEdges(HabitatAnalysis(b), CellHabitatQuery(HabitatAnalysis(b), context), t,
                                  TerrainEdges(tile, r, t))
           = LargestHabitat(p, t)
<1> DEFINE P == HabitatComponents(b, t)
           G == Ground(b, t)
           edges == {e \in Edges : TerrainOnEdge(tile, r, e) = t}
           T == Behind(context, t, edges)
           M == (UNION T) \cup {c}
           D == {e \in DOMAIN context : context[e].terrain = t}
           behind(K) == {e \in D : context[e].component = K}
           entry(K) == [size |-> Cardinality(K), of |-> K, edges |-> behind(K)]
           A == {context[e].component : e \in D}
           R == {entry(K) : K \in A}
           Q == {q \in R : q.edges \cap edges # {}}
<1>1. IsComponents(P, G, Joins(b, t)) /\ IsFiniteSet(G)
  BY BoardFinite, HabitatsFound DEF Adds, Keeps
<1>2. c \notin G /\ Ground(p, t) = G \cup {c}
  BY GroundWithTile
<1>3. T = Touched(P, c, Joins(p, t))
  BY TouchedIs
<1>4. T \subseteq P
  BY <1>3 DEF Touched
<1>5. HabitatAnalysis(b).largest[t] = LargestHabitat(b, t)
  BY DEF HabitatAnalysis
<1>6. TerrainEdges(tile, r, t) = edges
  <2>1. t # None
    BY DEF Terrains, None
  <2> QED BY <2>1, MaskIs DEF Adds
<1>7. CellHabitatQuery(HabitatAnalysis(b), context)[t] = R
  BY DEF CellHabitatQuery
<1>8. LargestAfterTerrainEdges(HabitatAnalysis(b), CellHabitatQuery(HabitatAnalysis(b), context), t,
                               TerrainEdges(tile, r, t))
        = Max({LargestHabitat(b, t), 1 + SumFunction([q \in Q |-> q.size])})
  BY <1>5, <1>6, <1>7 DEF LargestAfterTerrainEdges
<1>9. SumFunction([q \in Q |-> q.size]) = SumFunction([K \in T |-> Cardinality(K)])
  <2>1. \A K : entry(K).of = K /\ entry(K).size = Cardinality(K) /\ entry(K).edges = behind(K)
    OBVIOUS
  <2>2. \A q : q \in Q <=> \E K \in A : q = entry(K) /\ entry(K).edges \cap edges # {}
    <3> HIDE DEF entry, edges, A
    <3> QED OBVIOUS
  <2>3. \A K : K \in T <=> K \in A /\ behind(K) \cap edges # {}
    <3>1. \A e : e \in D <=> e \in DOMAIN context /\ context[e].terrain = t
      OBVIOUS
    <3>2. \A K : K \in A <=> \E e \in D : context[e].component = K
      OBVIOUS
    <3>3. \A K, e : e \in behind(K) <=> e \in D /\ context[e].component = K
      OBVIOUS
    <3>4. \A K : K \in T <=> \E e \in D : e \in edges /\ context[e].component = K
      <4> HIDE DEF edges, D, T
      <4> QED BY <3>1, BehindIs DEF T
    <3> HIDE DEF edges, D, T, A, behind
    <3> QED BY <3>2, <3>3, <3>4
  <2> HIDE DEF entry, A, T, edges, behind, Q
  <2>4. \A q \in Q : q.of \in T /\ q.size = Cardinality(q.of)
    BY <2>1, <2>2, <2>3
  <2>5. \A K \in T : \E q \in Q : q.of = K
    BY <2>1, <2>2, <2>3
  <2>6. Records(Q, T)
    <3>1. \A q, s \in Q : q.of = s.of => q = s
      BY <2>1, <2>2
    <3> QED BY <2>4, <2>5, <3>1 DEF Records
  <2>7. IsFiniteSet(Q)
    <3> DEFINE f == [K \in T |-> entry(K)]
    <3>1. IsFiniteSet(T)
      BY <1>1, <1>4, PartsSize
    <3>2. \A q \in Q : \E K \in T : f[K] = q
      BY <2>1, <2>2, <2>3
    <3>3. f \in [T -> Q]
      BY <2>1, <2>2, <2>3
    <3> HIDE DEF f
    <3>4. f \in Surjection(T, Q)
      BY <3>2, <3>3 DEF Surjection
    <3> QED BY <3>1, <3>4, FS_Surjection
  <2> HIDE DEF P, G
  <2> QED BY <1>1, <1>4, <2>6, <2>7, QueriedSize
<1> HIDE DEF edges, T, Q, P, G
<1>10. Cardinality(M) = 1 + SumFunction([K \in T |-> Cardinality(K)])
  BY <1>1, <1>2, <1>4, JoinedSize
<1>11. LargestHabitat(p, t) = Max({LargestHabitat(b, t), Cardinality(M)})
  <2>1. M = (UNION Touched(HabitatComponents(b, t), c, Joins(p, t))) \cup {c}
    BY <1>3 DEF P
  <2> HIDE DEF M
  <2> QED BY <1>2, <2>1, LargestJoined DEF Adds, G
<1> QED BY <1>8, <1>9, <1>10, <1>11

Matching(b) ==
  {x \in Occupied(b) \X Edges :
     /\ Neighbor(x[1], x[2]) \in Occupied(b)
     /\ Shows(b, x[1], x[2]) = Shows(b, Neighbor(x[1], x[2]), Opposite(x[2]))}
MatchedBy(b, c, tile, r) ==
  {e \in Edges : /\ Neighbor(c, e) \in Occupied(b)
                 /\ TerrainOnEdge(tile, r, e) = Shows(b, Neighbor(c, e), Opposite(e))}

\* Which edges match.
LEMMA MatchingIs ==
  ASSUME NEW b, NEW a, NEW e
  PROVE  <<a, e>> \in Matching(b) <=>
           /\ a \in Occupied(b) /\ e \in Edges /\ Neighbor(a, e) \in Occupied(b)
           /\ Shows(b, a, e) = Shows(b, Neighbor(a, e), Opposite(e))
BY DEF Matching

\* A cell has finitely many edges.
LEMMA EdgesFinite == IsFiniteSet(Edges)
<1>1. ASSUME NEW a \in Int, NEW b \in Int PROVE IsFiniteSet(a..b)
  BY FS_Interval
<1>2. 0 \in Int /\ 5 \in Int
  OBVIOUS
<1> QED BY <1>1, <1>2 DEF Edges

\* The edges that match with the tile: each is seen from the cell and from its neighbor.
LEMMA MatchingWithTile ==
  ASSUME NEW b, NEW p, NEW c, NEW tile, NEW r, Adds(b, p, c, tile, r)
  PROVE  LET K == MatchedBy(b, c, tile, r)
             here == {<<c, e>> : e \in K}
             there == {<<Neighbor(c, e), Opposite(e)>> : e \in K}
         IN  /\ Matching(p) = Matching(b) \cup here \cup there
             /\ here \cap there = {} /\ Matching(b) \cap (here \cup there) = {}
<1> DEFINE K == MatchedBy(b, c, tile, r)
           here == {<<c, e>> : e \in K}
           there == {<<Neighbor(c, e), Opposite(e)>> : e \in K}
<1>0. /\ c \notin Occupied(b) /\ Occupied(p) = Occupied(b) \cup {c} /\ c \in Int \X Int
      /\ Occupied(b) \subseteq Int \X Int
      /\ \A e : Shows(p, c, e) = TerrainOnEdge(tile, r, e)
  BY BoardAssumption, BoardFinite DEF Adds, Keeps, Shows
<1>1. \A a \in Occupied(b) : \A e : Shows(p, a, e) = Shows(b, a, e)
  BY KeepsShows DEF Adds
<1>2. ASSUME NEW e
      PROVE  e \in K <=> /\ e \in Edges /\ Neighbor(c, e) \in Occupied(b)
                         /\ Shows(p, c, e) = Shows(p, Neighbor(c, e), Opposite(e))
  BY <1>0, <1>1 DEF MatchedBy
<1>3. ASSUME NEW e \in Edges
      PROVE  /\ Neighbor(c, e) # c /\ Opposite(e) \in Edges /\ Opposite(Opposite(e)) = e
             /\ Neighbor(Neighbor(c, e), Opposite(e)) = c
  BY <1>0, NeighborBack
<1> HIDE DEF K
<1>4. \A x : x \in here <=> \E e \in K : x = <<c, e>>
  OBVIOUS
<1>5. \A x : x \in there <=> \E e \in K : x = <<Neighbor(c, e), Opposite(e)>>
  OBVIOUS
<1> HIDE DEF here, there
<1>6. \A b1, x : x \in Matching(b1) => \E a, e : x = <<a, e>>
  BY DEF Matching
<1>7. ASSUME NEW a, NEW f, <<a, f>> \in Matching(p)
      PROVE  <<a, f>> \in Matching(b) \cup here \cup there
  <2>0. /\ a \in Occupied(p) /\ f \in Edges /\ Neighbor(a, f) \in Occupied(p)
        /\ Shows(p, a, f) = Shows(p, Neighbor(a, f), Opposite(f))
    BY <1>7, MatchingIs
  <2>1. CASE a = c
    <3>1. Neighbor(c, f) \in Occupied(b)
      BY <1>0, <1>3, <2>0, <2>1
    <3>2. f \in K
      BY <1>2, <2>0, <2>1, <3>1
    <3> QED BY <1>4, <2>1, <3>2
  <2>2. CASE a # c /\ Neighbor(a, f) # c
    <3>1. a \in Occupied(b) /\ Neighbor(a, f) \in Occupied(b)
      BY <1>0, <2>0, <2>2
    <3>2. Shows(b, a, f) = Shows(b, Neighbor(a, f), Opposite(f))
      BY <1>1, <2>0, <3>1
    <3> QED BY <2>0, <3>1, <3>2, MatchingIs
  <2>3. CASE a # c /\ Neighbor(a, f) = c
    <3> DEFINE e == Opposite(f)
    <3>1. a \in Occupied(b) /\ a \in Int \X Int
      BY <1>0, <2>0, <2>3
    <3>2. e \in Edges /\ Opposite(e) = f /\ Neighbor(c, e) = a
      BY <2>0, <2>3, <3>1, NeighborBack
    <3>3. Shows(p, c, e) = Shows(p, a, f)
      BY <2>0, <2>3
    <3> HIDE DEF e
    <3>4. e \in K
      BY <1>2, <3>1, <3>2, <3>3
    <3> QED BY <1>5, <3>2, <3>4
  <2> QED BY <2>1, <2>2, <2>3
<1>8. ASSUME NEW a, NEW f, <<a, f>> \in Matching(b)
      PROVE  <<a, f>> \in Matching(p) /\ <<a, f>> \notin here /\ <<a, f>> \notin there
  <2>0. /\ a \in Occupied(b) /\ f \in Edges /\ Neighbor(a, f) \in Occupied(b)
        /\ Shows(b, a, f) = Shows(b, Neighbor(a, f), Opposite(f))
    BY <1>8, MatchingIs
  <2>1. a \in Occupied(p) /\ Neighbor(a, f) \in Occupied(p)
    BY <1>0, <2>0
  <2>2. Shows(p, a, f) = Shows(p, Neighbor(a, f), Opposite(f))
    BY <1>1, <2>0
  <2>3. <<a, f>> \notin here
    BY <1>0, <1>4, <2>0
  <2>4. ASSUME NEW e \in K, <<a, f>> = <<Neighbor(c, e), Opposite(e)>> PROVE FALSE
    <3>1. a = Neighbor(c, e) /\ f = Opposite(e) /\ e \in Edges
      BY <1>2, <2>4
    <3>2. Neighbor(a, f) = c
      BY <1>3, <3>1
    <3> QED BY <1>0, <2>0, <3>2
  <2>5. <<a, f>> \notin there
    BY <1>5, <2>4
  <2> QED BY <2>0, <2>1, <2>2, <2>3, <2>5, MatchingIs
<1>9. ASSUME NEW e \in K
      PROVE  /\ <<c, e>> \in Matching(p)
             /\ <<Neighbor(c, e), Opposite(e)>> \in Matching(p)
             /\ Neighbor(c, e) # c
  <2>1. /\ e \in Edges /\ Neighbor(c, e) \in Occupied(b)
        /\ Shows(p, c, e) = Shows(p, Neighbor(c, e), Opposite(e))
    BY <1>2
  <2> DEFINE n == Neighbor(c, e) o == Opposite(e)
  <2>2. n # c /\ o \in Edges /\ Opposite(o) = e /\ Neighbor(n, o) = c
    BY <1>3, <2>1
  <2>3. c \in Occupied(p) /\ n \in Occupied(p)
    BY <1>0, <2>1
  <2>4. <<c, e>> \in Matching(p)
    BY <2>1, <2>3, MatchingIs
  <2>5. Shows(p, n, o) = Shows(p, Neighbor(n, o), Opposite(o))
    BY <2>1, <2>2
  <2> HIDE DEF n, o
  <2>6. <<n, o>> \in Matching(p)
    BY <2>2, <2>3, <2>5, MatchingIs
  <2> QED BY <2>2, <2>4, <2>6 DEF n, o
<1>10. here \cap there = {}
  <2> SUFFICES ASSUME NEW x \in here, x \in there PROVE FALSE
    OBVIOUS
  <2>1. PICK e \in K : x = <<c, e>>
    BY <1>4
  <2>2. PICK f \in K : x = <<Neighbor(c, f), Opposite(f)>>
    BY <1>5
  <2>3. c = Neighbor(c, f)
    BY <2>1, <2>2
  <2> QED BY <1>9, <2>3
<1>11. Matching(p) = Matching(b) \cup here \cup there
  <2>1. ASSUME NEW x \in Matching(p) PROVE x \in Matching(b) \cup here \cup there
    BY <1>6, <1>7
  <2>2. ASSUME NEW x \in Matching(b) PROVE x \in Matching(p)
    BY <1>6, <1>8
  <2>3. ASSUME NEW x \in here \cup there PROVE x \in Matching(p)
    <3>1. CASE x \in here
      BY <1>4, <1>9, <3>1
    <3>2. CASE x \in there
      BY <1>5, <1>9, <3>2
    <3> QED BY <3>1, <3>2
  <2> QED BY <2>1, <2>2, <2>3
<1>12. Matching(b) \cap (here \cup there) = {}
  BY <1>6, <1>8
<1> QED BY <1>10, <1>11, <1>12 DEF here, there, K

\* Their number.
LEMMA MatchedIs ==
  ASSUME NEW b, NEW p, NEW c, NEW tile, NEW r, Adds(b, p, c, tile, r)
  PROVE  MatchingEdgesAfterTile(HabitatAnalysis(b), b, c, tile, r) = MatchingEdges(p)
<1> DEFINE K == MatchedBy(b, c, tile, r)
           A == {<<c, e>> : e \in K}
           B == {<<Neighbor(c, e), Opposite(e)>> : e \in K}
           M == Matching(b)
           n == Cardinality(M)
           k == Cardinality(K)
           fa == [e \in K |-> <<c, e>>]
           fb == [e \in K |-> <<Neighbor(c, e), Opposite(e)>>]
<1>1. Matching(p) = M \cup A \cup B /\ A \cap B = {} /\ M \cap (A \cup B) = {}
  BY MatchingWithTile
<1>2. K \subseteq Edges /\ IsFiniteSet(K)
  <2>1. K \subseteq Edges
    BY DEF MatchedBy
  <2>2. IsFiniteSet(Edges)
    BY EdgesFinite
  <2> QED BY <2>1, <2>2, FS_Subset
<1>3. IsFiniteSet(M)
  <2>1. IsFiniteSet(Occupied(b)) /\ IsFiniteSet(Edges)
    BY BoardFinite, EdgesFinite DEF Adds, Keeps
  <2>2. IsFiniteSet(Occupied(b) \X Edges)
    BY <2>1, FS_Product
  <2>3. M \subseteq Occupied(b) \X Edges
    BY DEF Matching
  <2> QED BY <2>2, <2>3, FS_Subset
<1>4. \A e \in Edges : Opposite(Opposite(e)) = e
  <2>1. c \in Int \X Int
    BY BoardAssumption DEF Adds
  <2> QED BY <2>1, NeighborBack
<1>5. MatchingEdges(p) = Cardinality(Matching(p)) \div 2
  BY DEF MatchingEdges, Matching
<1>6. MatchingEdgesAfterTile(HabitatAnalysis(b), b, c, tile, r) = (n \div 2) + k
  BY DEF MatchingEdgesAfterTile, HabitatAnalysis, MatchingEdges, Matching, MatchedBy
<1> HIDE DEF K, M
<1>7. IsFiniteSet(A) /\ Cardinality(A) = k
  <2>1. /\ \A e \in K : fa[e] \in A
        /\ fa = [e \in K |-> fa[e]]
        /\ \A y \in A : \E e \in K : fa[e] = y
        /\ \A e, f \in K : fa[e] = fa[f] => e = f
    OBVIOUS
  <2> HIDE DEF fa, A
  <2> QED BY <1>2, <2>1, ImageSize
<1>8. IsFiniteSet(B) /\ Cardinality(B) = k
  <2>1. /\ \A e \in K : fb[e] \in B
        /\ fb = [e \in K |-> fb[e]]
        /\ \A y \in B : \E e \in K : fb[e] = y
    OBVIOUS
  <2>2. \A e, f \in K : fb[e] = fb[f] => e = f
    <3> SUFFICES ASSUME NEW e \in K, NEW f \in K, fb[e] = fb[f] PROVE e = f
      OBVIOUS
    <3>1. Opposite(e) = Opposite(f)
      OBVIOUS
    <3> QED BY <1>2, <1>4, <3>1
  <2> HIDE DEF fb, B
  <2> QED BY <1>2, <2>1, <2>2, ImageSize
<1> HIDE DEF A, B
<1> DEFINE C == A \cup B
<1>9. /\ IsFiniteSet(C) /\ Cardinality(C) = Cardinality(A) + Cardinality(B) - Cardinality(A \cap B)
  BY <1>7, <1>8, FS_Union
<1>10. Matching(p) = M \cup C /\ M \cap C = {}
  BY <1>1
<1> HIDE DEF C
<1>11. Cardinality(M \cup C) = Cardinality(M) + Cardinality(C) - Cardinality(M \cap C)
  BY <1>3, <1>9, FS_Union
<1>12. k \in Nat /\ n \in Nat /\ Cardinality({}) = 0
  BY <1>2, <1>3, FS_CardinalityType, FS_EmptySet
<1> HIDE DEF k, n
<1>13. Cardinality(C) = k + k
  <2>1. Cardinality(A \cap B) = 0
    BY <1>1, <1>12
  <2>2. Cardinality(C) = k + k - 0
    BY <1>7, <1>8, <1>9, <2>1
  <2> QED BY <1>12, <2>2
<1>14. Cardinality(Matching(p)) = n + (k + k)
  <2>1. Cardinality(M \cap C) = 0
    BY <1>10, <1>12
  <2>2. Cardinality(M \cup C) = n + (k + k) - 0
    BY <1>11, <1>13, <2>1 DEF n
  <2>3. Cardinality(M \cup C) = n + (k + k)
    BY <1>12, <2>2
  <2> QED BY <1>10, <2>3
<1>15. (n + (k + k)) \div 2 = (n \div 2) + k
  BY <1>12
<1> QED BY <1>5, <1>6, <1>14, <1>15

\* A terrain that the tile does not show keeps its largest habitat.
LEMMA UnseenTerrain ==
  ASSUME NEW b, NEW p, NEW c, NEW tile, NEW r, Adds(b, p, c, tile, r), NEW t, ~ContainsTerrain(tile, t)
  PROVE  LargestHabitat(p, t) = LargestHabitat(b, t)
<1>1. Ground(p, t) = Ground(b, t)
  BY GroundWithTile
<1>2. HabitatComponents(p, t) = HabitatComponents(b, t)
  BY <1>1, SameGround DEF Adds
<1> QED BY <1>2 DEF LargestHabitat

\* So the rescore of an exact score is exact, whatever way the others are asked for.
LEMMA RescoreStays ==
  ASSUME NEW b, NEW p, NEW c, NEW tile, NEW r, Adds(b, p, c, tile, r), NEW largest,
         \A t \in Terrains : ContainsTerrain(tile, t) => largest[t] = LargestHabitat(p, t)
  PROVE  RescoreHabitat(ScoreHabitat(b), tile, largest) = ScoreHabitat(p)
<1>1. \A t \in Terrains : (IF ContainsTerrain(tile, t) THEN largest[t] ELSE ScoreHabitat(b)[t]) = LargestHabitat(p, t)
  BY UnseenTerrain DEF ScoreHabitat
<1> QED BY <1>1 DEF RescoreHabitat, ScoreHabitat

\* So does the visit of a place.
LEMMA TileAtAdds ==
  ASSUME NEW g, IsGame(g), NEW i, NEW j, NEW r, InRange(g, i, j, r)
  PROVE  Adds(g.board, TileAt(g, i, j, r), FrontierOf(g)[j], TileOf(g, Drafts(g)[i]), Rotations(g, i)[r])
<1> DEFINE d == Drafts(g)[i]
           c == FrontierOf(g)[j]
           t == TileAt(g, i, j, r)
           b == Charged(g, d)
           tile == TileOf(g, d)
           q == Rotations(g, i)[r]
<1>1. d \in Kinds /\ Affordable(g, d) /\ tile \in Tiles /\ c \in Hexes \ Occupied(g.board) /\ q \in Edges
  BY RangeIs
<1>2. IsBoard(b) /\ b.cells = g.board.cells /\ Occupied(b) = Occupied(g.board)
  BY <1>1, ChargedIs
<1>3. t = WithTile(b, c, tile, q)
  BY DEF TileAt
<1> HIDE DEF d, c, t, b, tile, q
<1>4. /\ IsBoard(t) /\ Occupied(t) = Occupied(b) \cup {c}
      /\ t.cells[c] = [tile |-> tile, rotation |-> q, wildlife |-> None]
      /\ \A x \in Occupied(b) : t.cells[x] = b.cells[x]
  BY <1>1, <1>2, <1>3, WithTileIs, SMTT(30)
<1>5. Keeps(g.board, t)
  BY <1>2, <1>4 DEF Keeps, IsGame
<1>6. Adds(g.board, t, c, tile, q)
  BY <1>1, <1>2, <1>4, <1>5 DEF Adds
<1> QED BY <1>6 DEF d, c, t, tile, q

\* Wildlife changes no tile.
LEMMA WildlifeAside ==
  ASSUME NEW b, NEW t, NEW c, NEW tile, NEW r, Adds(b, t, c, tile, r),
         NEW w \in Wildlife, NEW x, CanPlaceWildlife(t, x, w)
  PROVE  Adds(b, WithWildlife(t, x, w), c, tile, r)
<1> DEFINE p == WithWildlife(t, x, w)
           cell == [t.cells[x] EXCEPT !.wildlife = w]
<1>1. IsBoard(t) /\ x \in Occupied(t)
  BY DEF Adds, Keeps, CanPlaceWildlife
<1>2. IsBoard(p)
  BY <1>1, WithWildlifeIs
<1>3. t.cells \in [Occupied(t) -> Cell]
  BY <1>1, OccupiedIs DEF IsBoard
<1>4. p.cells = [t.cells EXCEPT ![x] = cell]
  BY <1>1, <1>3 DEF WithWildlife
<1>5. cell.tile = t.cells[x].tile /\ cell.rotation = t.cells[x].rotation
  <2>1. t.cells[x] \in Cell
    BY <1>1, <1>3
  <2> QED BY <2>1 DEF Cell
<1> HIDE DEF p, cell
<1>6. Occupied(p) = Occupied(t)
  BY <1>3, <1>4 DEF Occupied
<1>7. \A y \in Occupied(t) : p.cells[y].tile = t.cells[y].tile /\ p.cells[y].rotation = t.cells[y].rotation
  BY <1>3, <1>4, <1>5
<1>8. Adds(b, p, c, tile, r)
  BY <1>2, <1>6, <1>7 DEF Adds, Keeps
<1> QED BY <1>8 DEF p

\* An accepted turn adds its tile, whatever wildlife it places.
LEMMA PreviewAdds ==
  ASSUME NEW g, IsGame(g), NEW turn \in AcceptedTurns(g)
  PROVE  Adds(g.board, Preview(g, turn), turn.coord, TileOf(g, turn.draft), turn.rotation)
<1>1. PICK p \in Places(g) : TurnOf(g, p) = turn
  BY AcceptedIsVisited
<1> DEFINE t == TileAt(g, p[1], p[2], p[3])
           s == SpotsAt(g, p[1], p[2])
           w == TokenOf(g, Drafts(g)[p[1]])
<1>2. InRange(g, p[1], p[2], p[3]) /\ p[4] \in 0..Len(s)
  BY PlaceIs
<1>3. Preview(g, turn) = IF p[4] = 0 THEN t ELSE WithWildlife(t, s[p[4]], w)
  BY <1>1, <1>2, VisitedIsAccepted DEF TurnOf
<1>4. /\ turn.draft = Drafts(g)[p[1]] /\ turn.coord = FrontierOf(g)[p[2]]
      /\ turn.rotation = Rotations(g, p[1])[p[3]]
  BY <1>1, TurnFields DEF TurnOf
<1>5. Adds(g.board, t, turn.coord, TileOf(g, turn.draft), turn.rotation)
  BY <1>2, <1>4, TileAtAdds
<1>6. s \in Seq(Hexes) /\ (\A k \in 1..Len(s) : CanPlaceWildlife(t, s[k], w)) /\ w \in Wildlife
  BY <1>2, SpotsAre, RangeIs
<1> HIDE DEF t, s, w
<1>7. CASE p[4] = 0
  BY <1>3, <1>5, <1>7
<1>8. CASE p[4] # 0
  <2>1. p[4] \in 1..Len(s)
    BY <1>2, <1>6, <1>8
  <2>2. CanPlaceWildlife(t, s[p[4]], w)
    BY <1>6, <2>1
  <2> DEFINE x == s[p[4]]
  <2> HIDE DEF x
  <2>3. Adds(g.board, WithWildlife(t, x, w), turn.coord, TileOf(g, turn.draft), turn.rotation)
    BY <1>5, <1>6, <2>2, WildlifeAside DEF x
  <2> QED BY <1>3, <1>8, <2>3 DEF x
<1> QED BY <1>7, <1>8

\* The score that is kept is that of the board.
HabitatInv == EnumerationInv /\ habitat = ScoreHabitat(game.board)

\* The invariant says that the three ways to ask agree with the board.
LEMMA HabitatInvRescores == HabitatInv => RescoreExact
<1> SUFFICES ASSUME HabitatInv, phase = "visit", token = 0 PROVE RescoreExact
  BY DEF RescoreExact
<1> DEFINE b == game.board
           r == Visited.rotation
           analysis == HabitatAnalysis(b)
           context == TileNeighborContext(analysis, probe, Coord)
           query == CellHabitatQuery(analysis, context)
           read == [t \in Terrains |-> LargestAfterTile(analysis, probe, Coord, Tile, r, t)]
           direct == [t \in Terrains |-> LargestAfterTileWithContext(analysis, context, Tile, r, t)]
           queried == [t \in Terrains |-> LargestAfterTerrainEdges(analysis, query, t, TerrainEdges(Tile, r, t))]
<1>1. IsGame(game) /\ InRange(game, draft, hex, rotation) /\ habitat = ScoreHabitat(b)
  BY DEF HabitatInv, EnumerationInv, CursorInv
<1>2. probe = TileAt(game, draft, hex, rotation)
  BY ProbeIs DEF HabitatInv
<1>3. r = Rotations(game, draft)[rotation]
  BY VisitedIs, TurnFields
<1>4. Adds(b, probe, Coord, Tile, r)
  BY <1>1, <1>2, <1>3, TileAtAdds DEF Coord, Tile, Draft
<1> HIDE DEF b, r
<1>5. ContextOf(context, b, probe, Coord)
  BY <1>4, ContextIs
<1>6. ASSUME NEW t \in Terrains, ContainsTerrain(Tile, t)
      PROVE  /\ LargestAfterTileWithContext(analysis, context, Tile, r, t) = LargestHabitat(probe, t)
             /\ LargestAfterTerrainEdges(analysis, query, t, TerrainEdges(Tile, r, t)) = LargestHabitat(probe, t)
  <2> HIDE DEF context
  <2>1. LargestAfterTileWithContext(analysis, context, Tile, r, t) = LargestHabitat(probe, t)
    BY <1>4, <1>5, <1>6, DirectIs
  <2>2. LargestAfterTerrainEdges(analysis, query, t, TerrainEdges(Tile, r, t)) = LargestHabitat(probe, t)
    BY <1>4, <1>5, <1>6, QueriedIs
  <2> QED BY <2>1, <2>2
<1>7. MatchingEdgesAfterTile(analysis, b, Coord, Tile, r) = MatchingEdges(probe)
  BY <1>4, MatchedIs
<1>8. /\ \A t \in Terrains : ContainsTerrain(Tile, t) => direct[t] = LargestHabitat(probe, t)
      /\ \A t \in Terrains : ContainsTerrain(Tile, t) => queried[t] = LargestHabitat(probe, t)
  <2> HIDE DEF analysis, context, query
  <2> QED BY <1>6
<1>9. DOMAIN direct = Terrains /\ DOMAIN queried = Terrains
  OBVIOUS
<1>11. read = direct
  <2>1. \A t : LargestAfterTile(analysis, probe, Coord, Tile, r, t)
                = LargestAfterTileWithContext(analysis, context, Tile, r, t)
    <3> HIDE DEF analysis
    <3> QED BY ReadIsDirect
  <2> HIDE DEF analysis, context
  <2> QED BY <2>1
<1> HIDE DEF read, direct, queried
<1>10. /\ RescoreHabitat(habitat, Tile, direct) = ScoreHabitat(probe)
       /\ RescoreHabitat(habitat, Tile, queried) = ScoreHabitat(probe)
  BY <1>1, <1>4, <1>8, RescoreStays
<1> QED BY <1>7, <1>10, <1>11 DEF RescoreExact, read, direct, queried, query, context, analysis, b, r

\* A turn keeps the score exact.
LEMMA PlayRescores ==
  ASSUME HabitatInv, NEW turn \in AcceptedTurns(game), Play(turn)
  PROVE  habitat' = ScoreHabitat(game'.board)
<1> DEFINE b == game.board
           p == Preview(game, turn)
           tile == TileOf(game, turn.draft)
<1>1. game'.board = p /\ habitat' = RescoreHabitat(habitat, tile, ScoreHabitat(p))
  BY DEF Play
<1>2. IsGame(game) /\ habitat = ScoreHabitat(b)
  BY DEF HabitatInv, EnumerationInv
<1>3. Adds(b, p, turn.coord, tile, turn.rotation)
  BY <1>2, PreviewAdds
<1> HIDE DEF b, p, tile
<1>4. \A t \in Terrains : ScoreHabitat(p)[t] = LargestHabitat(p, t)
  BY DEF ScoreHabitat
<1>5. RescoreHabitat(ScoreHabitat(b), tile, ScoreHabitat(p)) = ScoreHabitat(p)
  BY <1>3, <1>4, RescoreStays
<1> QED BY <1>1, <1>2, <1>5

\* What the analysis of the board says of a tile before it is placed, asked in each of the
\* three ways, is what the board with the tile scores; and the score that is kept from turn
\* to turn, in which only the terrains of the tile are looked at again, is that of the board.
THEOREM RescoreIsExact == TurnsSpec => []RescoreExact
<1>1. TurnsInit => HabitatInv
  BY TurnsInitEnumerates DEF TurnsInit, HabitatInv
<1>2. HabitatInv /\ [TurnsNext]_turnVars => HabitatInv'
  <2> SUFFICES ASSUME HabitatInv, [TurnsNext]_turnVars PROVE HabitatInv'
    OBVIOUS
  <2>1. EnumerationInv'
    BY EnumerationStep DEF HabitatInv
  <2>2. CASE Visit
    <3>1. game' = game /\ habitat' = habitat
      BY <2>2 DEF Visit, BeginDraft, PlaceProbe, SettleNext, TurnProbe, LiftProbe, EndDraft, EndVisits
    <3> QED BY <2>1, <3>1 DEF HabitatInv
  <2>3. ASSUME NEW turn \in AcceptedTurns(game), Play(turn) PROVE HabitatInv'
    BY <2>1, <2>3, PlayRescores DEF HabitatInv
  <2>4. CASE UNCHANGED turnVars
    <3>1. game' = game /\ habitat' = habitat
      BY <2>4 DEF turnVars
    <3> QED BY <2>1, <3>1 DEF HabitatInv
  <2> QED BY <2>2, <2>3, <2>4 DEF TurnsNext
<1> QED BY <1>1, <1>2, HabitatInvRescores, PTL DEF TurnsSpec

-----------------------------------------------------------------------------
(* Turning a cell about the origin.                                         *)

\* The six turns, one by one.
TurnedOnce(d) == <<-d[2], d[1] + d[2]>>
TurnedBy(q, r, k) ==
  IF k = 0 THEN <<q, r>> ELSE IF k = 1 THEN <<-r, q + r>> ELSE IF k = 2 THEN <<-(q + r), q>>
  ELSE IF k = 3 THEN <<-q, -r>> ELSE IF k = 4 THEN <<r, -(q + r)>> ELSE <<q + r, -q>>

LEMMA RotatedHexIs ==
  ASSUME NEW q \in Int, NEW r \in Int, NEW k \in Edges
  PROVE  RotatedHex(<<q, r>>, k) = TurnedBy(q, r, k)
<1> DEFINE c == <<q, r>>
           Eqn(h) == h = [n \in 0..5 |-> IF n = 0 THEN c ELSE TurnedOnce(h[n - 1])]
           turned == CHOOSE h : Eqn(h)
           f == [n \in 0..5 |-> TurnedBy(q, r, n)]
<1>1. RotatedHex(c, k) = turned[k % 6]
  BY DEF RotatedHex, TurnedOnce
<1>2. k % 6 = k /\ k \in 0..5
  BY DEF Edges
<1>3. Eqn(f)
  <2>1. ASSUME NEW n \in 0..5 PROVE f[n] = IF n = 0 THEN c ELSE TurnedOnce(f[n - 1])
    <3>0. \A m \in 0..5 : f[m] = TurnedBy(q, r, m)
      OBVIOUS
    <3> HIDE DEF f
    <3>1. CASE n = 0
      BY <3>0, <3>1 DEF TurnedBy
    <3>2. CASE n # 0
      <4>1. n - 1 \in 0..5 /\ n \in {1, 2, 3, 4, 5}
        BY <3>2
      <4>2. TurnedBy(q, r, n) = TurnedOnce(TurnedBy(q, r, n - 1))
        <5>1. CASE n = 1
          BY <5>1 DEF TurnedBy, TurnedOnce
        <5>2. CASE n = 2
          BY <5>2 DEF TurnedBy, TurnedOnce
        <5>3. CASE n = 3
          BY <5>3 DEF TurnedBy, TurnedOnce
        <5>4. CASE n = 4
          BY <5>4 DEF TurnedBy, TurnedOnce
        <5>5. CASE n = 5
          BY <5>5 DEF TurnedBy, TurnedOnce
        <5> QED BY <4>1, <5>1, <5>2, <5>3, <5>4, <5>5
      <4> QED BY <3>0, <3>2, <4>1, <4>2
    <3> QED BY <3>1, <3>2
  <2>2. f = [n \in 0..5 |-> f[n]]
    OBVIOUS
  <2> HIDE DEF f
  <2> QED BY <2>1, <2>2
<1>4. Eqn(turned)
  <2> HIDE DEF Eqn, f
  <2> QED BY <1>3
<1> HIDE DEF turned
<1>5. \A n \in 0..5 : turned[n] = IF n = 0 THEN c ELSE TurnedOnce(turned[n - 1])
  BY <1>4
<1>6. \A n \in 0..5 : f[n] = IF n = 0 THEN c ELSE TurnedOnce(f[n - 1])
  <2> HIDE DEF f
  <2> QED BY <1>3
<1> HIDE DEF Eqn
<1>7. f[k] = TurnedBy(q, r, k)
  BY <1>2
<1> HIDE DEF f, c
<1>8. turned[0] = f[0]
  BY <1>5, <1>6
<1>9. turned[1] = f[1]
  <2>1. 1 \in 0..5 /\ 1 - 1 = 0 /\ 1 # 0
    OBVIOUS
  <2> QED BY <1>5, <1>6, <1>8, <2>1
<1>10. turned[2] = f[2]
  <2>1. 2 \in 0..5 /\ 2 - 1 = 1 /\ 2 # 0
    OBVIOUS
  <2> QED BY <1>5, <1>6, <1>9, <2>1
<1>11. turned[3] = f[3]
  <2>1. 3 \in 0..5 /\ 3 - 1 = 2 /\ 3 # 0
    OBVIOUS
  <2> QED BY <1>5, <1>6, <1>10, <2>1
<1>12. turned[4] = f[4]
  <2>1. 4 \in 0..5 /\ 4 - 1 = 3 /\ 4 # 0
    OBVIOUS
  <2> QED BY <1>5, <1>6, <1>11, <2>1
<1>13. turned[5] = f[5]
  <2>1. 5 \in 0..5 /\ 5 - 1 = 4 /\ 5 # 0
    OBVIOUS
  <2> QED BY <1>5, <1>6, <1>12, <2>1
<1>14. turned[k] = f[k]
  <2>1. k \in {0, 1, 2, 3, 4, 5}
    BY <1>2
  <2> QED BY <1>8, <1>9, <1>10, <1>11, <1>12, <1>13, <2>1
<1> QED BY <1>1, <1>2, <1>7, <1>14 DEF c

\* A turn moves cells and their neighbors alike, and no two to one place.
LEMMA TurnsNeighbors ==
  ASSUME NEW c \in Int \X Int, NEW e \in Edges, NEW k \in Edges
  PROVE  /\ RotatedHex(c, k) \in Int \X Int
         /\ RotatedTile(e, k) \in Edges
         /\ Neighbor(RotatedHex(c, k), RotatedTile(e, k)) = RotatedHex(Neighbor(c, e), k)
         /\ Opposite(RotatedTile(e, k)) = RotatedTile(Opposite(e), k)
<1>1. PICK q, r \in Int : c = <<q, r>>
  OBVIOUS
<1>2. RotatedHex(c, k) = TurnedBy(q, r, k) /\ TurnedBy(q, r, k) \in Int \X Int
  <2>1. TurnedBy(q, r, k) \in Int \X Int
    BY DEF TurnedBy
  <2> QED BY <1>1, <2>1, RotatedHexIs
<1> DEFINE s == EdgeSteps[e + 1]
           f == RotatedTile(e, k)
           u == EdgeSteps[f + 1]
<1>3. e \in {0, 1, 2, 3, 4, 5} /\ k \in {0, 1, 2, 3, 4, 5}
  BY DEF Edges
<1>4. f \in Edges /\ Opposite(f) = RotatedTile(Opposite(e), k)
  BY <1>3 DEF RotatedTile, Opposite, Edges
<1>5. s[1] \in Int /\ s[2] \in Int /\ u[1] \in Int /\ u[2] \in Int /\ u = TurnedBy(s[1], s[2], k)
  <2>1. CASE k = 0
    BY <1>3, <2>1 DEF RotatedTile, EdgeSteps, TurnedBy
  <2>2. CASE k = 1
    BY <1>3, <2>2 DEF RotatedTile, EdgeSteps, TurnedBy
  <2>3. CASE k = 2
    BY <1>3, <2>3 DEF RotatedTile, EdgeSteps, TurnedBy
  <2>4. CASE k = 3
    BY <1>3, <2>4 DEF RotatedTile, EdgeSteps, TurnedBy
  <2>5. CASE k = 4
    BY <1>3, <2>5 DEF RotatedTile, EdgeSteps, TurnedBy
  <2>6. CASE k = 5
    BY <1>3, <2>6 DEF RotatedTile, EdgeSteps, TurnedBy
  <2> QED BY <1>3, <2>1, <2>2, <2>3, <2>4, <2>5, <2>6
<1>6. Neighbor(c, e) = <<q + s[1], r + s[2]>>
  BY <1>1 DEF Neighbor
<1>7. Neighbor(RotatedHex(c, k), f) = <<TurnedBy(q, r, k)[1] + u[1], TurnedBy(q, r, k)[2] + u[2]>>
  BY <1>2 DEF Neighbor
<1> HIDE DEF s, u, f
<1>8. RotatedHex(Neighbor(c, e), k) = TurnedBy(q + s[1], r + s[2], k)
  BY <1>5, <1>6, RotatedHexIs
<1>9. TurnedBy(q + s[1], r + s[2], k) = <<TurnedBy(q, r, k)[1] + u[1], TurnedBy(q, r, k)[2] + u[2]>>
  <2> DEFINE a == s[1] b == s[2]
  <2>1. a \in Int /\ b \in Int /\ u = TurnedBy(a, b, k)
    BY <1>5
  <2> HIDE DEF a, b
  <2>2. TurnedBy(q + a, r + b, k) = <<TurnedBy(q, r, k)[1] + TurnedBy(a, b, k)[1], TurnedBy(q, r, k)[2] + TurnedBy(a, b, k)[2]>>
    BY <2>1 DEF TurnedBy
  <2> QED BY <2>1, <2>2 DEF a, b
<1> QED BY <1>2, <1>4, <1>7, <1>8, <1>9 DEF f

LEMMA TurnsDiffer ==
  ASSUME NEW c \in Int \X Int, NEW d \in Int \X Int, NEW k \in Edges, RotatedHex(c, k) = RotatedHex(d, k)
  PROVE  c = d
<1>1. PICK q, r \in Int : c = <<q, r>>
  OBVIOUS
<1>2. PICK x, y \in Int : d = <<x, y>>
  OBVIOUS
<1>3. TurnedBy(q, r, k) = TurnedBy(x, y, k)
  BY <1>1, <1>2, RotatedHexIs
<1>4. k \in {0, 1, 2, 3, 4, 5}
  BY DEF Edges
<1> QED BY <1>1, <1>2, <1>3, <1>4 DEF TurnedBy

\* An edge shows after the turn what it showed before.
LEMMA TurnsTerrain ==
  ASSUME NEW tile, NEW r \in Edges, NEW e \in Edges, NEW k \in Edges
  PROVE  TerrainOnEdge(tile, RotatedTile(r, k), RotatedTile(e, k)) = TerrainOnEdge(tile, r, e)
<1> DEFINE a == RotatedTile(r, k) b == RotatedTile(e, k)
<1>1. (b + 6 - a) % 6 = (e + 6 - r) % 6
  BY DEF Edges, RotatedTile
<1> HIDE DEF a, b
<1>2. TerrainOnEdge(tile, a, b) = TerrainOnEdge(tile, r, e)
  BY <1>1 DEF TerrainOnEdge
<1> QED BY <1>2 DEF a, b

\* Turning the edges back.
LEMMA TurnsEdges ==
  ASSUME NEW k \in Edges
  PROVE  /\ \A e \in Edges : \E f \in Edges : RotatedTile(f, k) = e
         /\ \A e, f \in Edges : RotatedTile(e, k) = RotatedTile(f, k) => e = f
<1>1. ASSUME NEW e \in Edges PROVE \E f \in Edges : RotatedTile(f, k) = e
  <2>1. (e + k) % 6 \in Edges /\ RotatedTile((e + k) % 6, k) = e
    BY DEF Edges, RotatedTile
  <2> QED BY <2>1
<1>2. ASSUME NEW e \in Edges, NEW f \in Edges, RotatedTile(e, k) = RotatedTile(f, k) PROVE e = f
  BY <1>2 DEF Edges, RotatedTile
<1> QED BY <1>1, <1>2

-----------------------------------------------------------------------------
(* A board turned.                                                          *)

\* d is b turned.
TurnedCell(cell, k) == [tile |-> cell.tile, rotation |-> RotatedTile(cell.rotation, k), wildlife |-> cell.wildlife]
TurnedCells(b, k) == {RotatedHex(x, k) : x \in Occupied(b)}

IsTurned(d, b, k) ==
  /\ d = [cells |-> d.cells, placed |-> d.placed, tokens |-> d.tokens]
  /\ d.cells = [y \in TurnedCells(b, k) |-> d.cells[y]]
  /\ \A x \in Occupied(b) : d.cells[RotatedHex(x, k)] = TurnedCell(b.cells[x], k)
  /\ d.placed = [i \in 1..Len(b.placed) |-> RotatedHex(b.placed[i], k)]
  /\ d.tokens = b.tokens

LEMMA TurnedIs ==
  ASSUME NEW b, IsBoard(b), NEW k \in Edges
  PROVE  IsTurned(RotatedBoard(b, k), b, k)
<1> DEFINE D == TurnedCells(b, k)
           origin(c) == CHOOSE d \in Occupied(b) : RotatedHex(d, k) = c
           back == [c \in D |-> origin(c)]
           cells == [c \in D |-> [b.cells[back[c]] EXCEPT !.rotation = RotatedTile(@, k)]]
           placed == [i \in 1..Len(b.placed) |-> RotatedHex(b.placed[i], k)]
           t == [cells |-> cells, placed |-> placed, tokens |-> b.tokens]
<1>0. b.cells \in [Occupied(b) -> Cell] /\ DOMAIN b.placed = 1..Len(b.placed) /\ Occupied(b) \subseteq Int \X Int
  BY OccupiedIs, BoardFinite DEF IsBoard
<1>1. DOMAIN back = D
  OBVIOUS
<1>2. RotatedBoard(b, k) = t
  BY <1>0 DEF RotatedBoard, TurnedCells
<1>3. ASSUME NEW x \in Occupied(b) PROVE cells[RotatedHex(x, k)] = TurnedCell(b.cells[x], k)
  <2> DEFINE c == RotatedHex(x, k)
  <2>1. c \in D
    BY DEF TurnedCells
  <2>2. origin(c) = x
    <3>1. origin(c) \in Occupied(b) /\ RotatedHex(origin(c), k) = c
      OBVIOUS
    <3> HIDE DEF origin
    <3> QED BY <1>0, <3>1, TurnsDiffer
  <2> HIDE DEF origin, c, D
  <2>3. cells[c] = [b.cells[x] EXCEPT !.rotation = RotatedTile(@, k)]
    BY <2>1, <2>2
  <2>4. b.cells[x] = [tile |-> b.cells[x].tile, rotation |-> b.cells[x].rotation, wildlife |-> b.cells[x].wildlife]
    BY <1>0 DEF Cell
  <2> DEFINE o == b.cells[x]
  <2> HIDE DEF o
  <2>5. [o EXCEPT !.rotation = RotatedTile(@, k)] = TurnedCell(o, k)
    <3>1. o = [tile |-> o.tile, rotation |-> o.rotation, wildlife |-> o.wildlife]
      BY <2>4 DEF o
    <3> QED BY <3>1 DEF TurnedCell
  <2> QED BY <2>3, <2>5 DEF o, c
<1>4. cells = [y \in D |-> cells[y]]
  OBVIOUS
<1> HIDE DEF cells, placed
<1>5. t.cells = cells /\ t.placed = placed /\ t.tokens = b.tokens
  OBVIOUS
<1>6. t = [cells |-> t.cells, placed |-> t.placed, tokens |-> t.tokens]
  OBVIOUS
<1> HIDE DEF t, D
<1>7. IsTurned(t, b, k)
  BY <1>3, <1>4, <1>5, <1>6 DEF IsTurned, D, placed
<1> QED BY <1>2, <1>7

LEMMA TurnedUnique ==
  ASSUME NEW b, NEW k, NEW d, IsTurned(d, b, k), NEW e, IsTurned(e, b, k)
  PROVE  d = e
<1>1. ASSUME NEW y \in TurnedCells(b, k) PROVE d.cells[y] = e.cells[y]
  <2>1. PICK x \in Occupied(b) : y = RotatedHex(x, k)
    BY DEF TurnedCells
  <2>2. d.cells[RotatedHex(x, k)] = TurnedCell(b.cells[x], k)
    BY DEF IsTurned
  <2>3. e.cells[RotatedHex(x, k)] = TurnedCell(b.cells[x], k)
    BY DEF IsTurned
  <2> QED BY <2>1, <2>2, <2>3
<1>2. d.cells = e.cells
  <2>1. d.cells = [y \in TurnedCells(b, k) |-> d.cells[y]] /\ e.cells = [y \in TurnedCells(b, k) |-> e.cells[y]]
    BY DEF IsTurned
  <2>2. [y \in TurnedCells(b, k) |-> d.cells[y]] = [y \in TurnedCells(b, k) |-> e.cells[y]]
    BY <1>1
  <2> QED BY <2>1, <2>2
<1>3. d.placed = e.placed /\ d.tokens = e.tokens
  BY DEF IsTurned
<1>4. /\ d = [cells |-> d.cells, placed |-> d.placed, tokens |-> d.tokens]
      /\ e = [cells |-> e.cells, placed |-> e.placed, tokens |-> e.tokens]
  BY DEF IsTurned
<1> QED BY <1>2, <1>3, <1>4

\* Where a turned board has tiles.
LEMMA TurnedOccupied ==
  ASSUME NEW b, IsBoard(b), NEW k \in Edges, NEW d, IsTurned(d, b, k)
  PROVE  /\ Occupied(d) = TurnedCells(b, k) /\ Occupied(d) \subseteq Int \X Int
         /\ \A c \in Int \X Int : RotatedHex(c, k) \in Occupied(d) <=> c \in Occupied(b)
<1>0. Occupied(b) \subseteq Int \X Int
  BY BoardFinite
<1>1. Occupied(d) = TurnedCells(b, k)
  <2> DEFINE cells == d.cells
  <2>1. cells = [y \in TurnedCells(b, k) |-> cells[y]]
    BY DEF IsTurned
  <2> HIDE DEF cells
  <2>2. DOMAIN cells = TurnedCells(b, k)
    BY <2>1
  <2> QED BY <2>2 DEF Occupied, cells
<1>2. ASSUME NEW c \in Int \X Int PROVE RotatedHex(c, k) \in TurnedCells(b, k) <=> c \in Occupied(b)
  BY <1>0, TurnsDiffer DEF TurnedCells
<1>3. TurnedCells(b, k) \subseteq Int \X Int
  <2>1. 0 \in Edges
    BY DEF Edges
  <2>2. \A x \in Occupied(b) : RotatedHex(x, k) \in Int \X Int
    BY <1>0, <2>1, TurnsNeighbors
  <2> QED BY <2>2 DEF TurnedCells
<1> QED BY <1>1, <1>2, <1>3

\* A tile more.
LEMMA TurnedTile ==
  ASSUME NEW b, IsBoard(b), NEW k \in Edges, NEW d, IsTurned(d, b, k),
         NEW c \in Hexes \ Occupied(b), NEW tile \in Tiles, NEW r \in Edges
  PROVE  IsTurned(WithTile(d, RotatedHex(c, k), tile, RotatedTile(r, k)), WithTile(b, c, tile, r), k)
<1> DEFINE p == WithTile(b, c, tile, r)
           h == RotatedHex(c, k)
           cell == [tile |-> tile, rotation |-> RotatedTile(r, k), wildlife |-> None]
           cells == [x \in Occupied(d) \cup {h} |-> IF x = h THEN cell ELSE d.cells[x]]
           q == WithTile(d, h, tile, RotatedTile(r, k))
<1>0. c \in Int \X Int /\ Occupied(b) \subseteq Int \X Int /\ b.placed \in Seq(Hexes)
  BY BoardAssumption, BoardFinite DEF IsBoard
<1>1. /\ p.placed = Append(b.placed, c) /\ p.tokens = b.tokens /\ Occupied(p) = Occupied(b) \cup {c}
      /\ p.cells[c] = [tile |-> tile, rotation |-> r, wildlife |-> None]
      /\ \A x \in Occupied(b) : p.cells[x] = b.cells[x]
  BY WithTileIs
<1>2. Occupied(d) = TurnedCells(b, k) /\ h \notin Occupied(d)
  BY <1>0, TurnedOccupied
<1>3. q = [cells |-> cells, placed |-> Append(d.placed, h), tokens |-> d.tokens]
  BY DEF WithTile
<1> HIDE DEF p
<1>4. TurnedCells(p, k) = Occupied(d) \cup {h}
  BY <1>1, <1>2 DEF TurnedCells
<1> HIDE DEF h, cell, q
<1>5. cells = [y \in TurnedCells(p, k) |-> cells[y]]
  BY <1>4
<1>6. cells[h] = cell /\ \A y \in Occupied(d) : cells[y] = d.cells[y]
  BY <1>2
<1> HIDE DEF cells
<1>7. ASSUME NEW x \in Occupied(p) PROVE cells[RotatedHex(x, k)] = TurnedCell(p.cells[x], k)
  <2>1. CASE x = c
    BY <1>1, <1>6, <2>1 DEF TurnedCell, h, cell
  <2>2. CASE x # c
    <3>1. x \in Occupied(b)
      BY <1>1, <2>2
    <3>2. RotatedHex(x, k) \in Occupied(d)
      BY <1>2, <3>1 DEF TurnedCells
    <3>3. d.cells[RotatedHex(x, k)] = TurnedCell(b.cells[x], k)
      BY <3>1 DEF IsTurned
    <3>4. p.cells[x] = b.cells[x]
      BY <1>1, <3>1
    <3> QED BY <1>6, <3>2, <3>3, <3>4
  <2> QED BY <2>1, <2>2
<1>8. Append(d.placed, h) = [i \in 1..Len(p.placed) |-> RotatedHex(p.placed[i], k)]
  <2> DEFINE n == Len(b.placed) s == b.placed u == d.placed
  <2>1. n \in Nat /\ s \in Seq(Hexes) /\ Len(p.placed) = n + 1
    BY <1>0, <1>1
  <2>2. \A i \in 1..n : p.placed[i] = s[i]
    BY <1>0, <1>1
  <2>3. p.placed[n + 1] = c
    BY <1>0, <1>1
  <2>4. u = [i \in 1..n |-> RotatedHex(s[i], k)]
    BY DEF IsTurned
  <2> HIDE DEF n, s, u
  <2> DEFINE S == {RotatedHex(s[i], k) : i \in 1..n} \cup {h}
  <2>9. \A i \in 1..n : RotatedHex(s[i], k) \in S
    OBVIOUS
  <2>10. h \in S
    OBVIOUS
  <2> HIDE DEF S
  <2>5. u \in Seq(S) /\ Len(u) = n /\ h \in S
    <3>1. u \in [1..n -> S]
      BY <2>4, <2>9
    <3> QED BY <2>1, <2>4, <2>10, <3>1
  <2>6. /\ Append(u, h) = [i \in 1..(n + 1) |-> Append(u, h)[i]]
        /\ \A i \in 1..n : Append(u, h)[i] = u[i]
        /\ Append(u, h)[n + 1] = h
    <3> HIDE DEF h
    <3>1. Append(u, h) \in Seq(S) /\ Len(Append(u, h)) = n + 1
      BY <2>1, <2>5
    <3>2. \A i \in 1..n : Append(u, h)[i] = u[i]
      BY <2>1, <2>5
    <3>3. Append(u, h)[n + 1] = h
      BY <2>1, <2>5
    <3>4. \A z \in Seq(S) : z = [i \in 1..Len(z) |-> z[i]]
      OBVIOUS
    <3> QED BY <3>1, <3>2, <3>3, <3>4
  <2>7. \A i \in 1..(n + 1) : Append(u, h)[i] = RotatedHex(p.placed[i], k)
    <3> SUFFICES ASSUME NEW i \in 1..(n + 1) PROVE Append(u, h)[i] = RotatedHex(p.placed[i], k)
      OBVIOUS
    <3>1. CASE i = n + 1
      BY <2>3, <2>6, <3>1 DEF h
    <3>2. CASE i # n + 1
      <4>1. i \in 1..n
        BY <2>1, <3>2
      <4> QED BY <2>2, <2>4, <2>6, <4>1
    <3> QED BY <3>1, <3>2
  <2> QED BY <2>1, <2>6, <2>7 DEF u
<1>9. d.tokens = p.tokens
  BY <1>1 DEF IsTurned
<1>10. q.cells = cells /\ q.placed = Append(d.placed, h) /\ q.tokens = d.tokens
       /\ q = [cells |-> q.cells, placed |-> q.placed, tokens |-> q.tokens]
  BY <1>3
<1>11. IsTurned(q, p, k)
  BY <1>5, <1>7, <1>8, <1>9, <1>10 DEF IsTurned
<1> QED BY <1>11 DEF q, p, h

\* A token more.
LEMMA TurnedWildlife ==
  ASSUME NEW b, IsBoard(b), NEW k \in Edges, NEW d, IsTurned(d, b, k),
         NEW w \in Wildlife, NEW x, CanPlaceWildlife(b, x, w)
  PROVE  /\ CanPlaceWildlife(d, RotatedHex(x, k), w)
         /\ IsTurned(WithWildlife(d, RotatedHex(x, k), w), WithWildlife(b, x, w), k)
<1> DEFINE h == RotatedHex(x, k)
           o == b.cells[x]
           n == [o EXCEPT !.wildlife = w]
           u == TurnedCell(o, k)
           v == [u EXCEPT !.wildlife = w]
           C == [b.cells EXCEPT ![x] = n]
           D == [d.cells EXCEPT ![h] = v]
           p == WithWildlife(b, x, w)
           q == WithWildlife(d, h, w)
<1>0. /\ b.cells \in [Occupied(b) -> Cell] /\ Occupied(b) \subseteq Int \X Int
      /\ x \in Occupied(b) /\ o.wildlife = None /\ w \in o.tile.wildlife
  BY OccupiedIs, BoardFinite DEF IsBoard, CanPlaceWildlife
<1>1. Occupied(d) = TurnedCells(b, k) /\ h \in Occupied(d)
  <2>1. Occupied(d) = TurnedCells(b, k)
    BY TurnedOccupied
  <2> QED BY <1>0, <2>1 DEF TurnedCells
<1>2. d.cells[h] = u
  BY <1>0 DEF IsTurned
<1>3. u.tile = o.tile /\ u.wildlife = o.wildlife /\ v = TurnedCell(n, k)
  <2>1. o \in Cell
    BY <1>0
  <2>2. o = [tile |-> o.tile, rotation |-> o.rotation, wildlife |-> o.wildlife]
    BY <2>1 DEF Cell
  <2> HIDE DEF o
  <2> QED BY <2>2 DEF TurnedCell
<1>4. CanPlaceWildlife(d, h, w)
  <2> HIDE DEF h, u, o
  <2> QED BY <1>0, <1>1, <1>2, <1>3 DEF CanPlaceWildlife, o
<1>5. Award(d, h) = Award(b, x)
  BY <1>2, <1>3 DEF Award
<1>6. p = [cells |-> C, placed |-> b.placed, tokens |-> b.tokens + Award(b, x)]
  BY <1>0 DEF WithWildlife
<1>7. q = [cells |-> D, placed |-> d.placed, tokens |-> d.tokens + Award(d, h)]
  BY <1>1, <1>2 DEF WithWildlife
<1>8. d.cells = [y \in TurnedCells(b, k) |-> d.cells[y]]
  BY DEF IsTurned
<1> HIDE DEF n, v, h, u, o, p, q
<1>9. Occupied(p) = Occupied(b) /\ p.cells[x] = n /\ \A y \in Occupied(b) : y # x => p.cells[y] = b.cells[y]
  <2>1. p.cells = C
    BY <1>6
  <2>2. DOMAIN C = Occupied(b) /\ C[x] = n /\ \A y \in Occupied(b) : y # x => C[y] = b.cells[y]
    BY <1>0
  <2> HIDE DEF C
  <2> QED BY <2>1, <2>2 DEF Occupied
<1>10. TurnedCells(p, k) = TurnedCells(b, k)
  BY <1>9 DEF TurnedCells
<1>11. D = [y \in TurnedCells(p, k) |-> D[y]] /\ D[h] = v /\ \A y \in TurnedCells(b, k) : y # h => D[y] = d.cells[y]
  <2> DEFINE T == TurnedCells(b, k) f == d.cells
  <2>1. f = [y \in T |-> f[y]] /\ h \in T
    BY <1>1, <1>8
  <2> HIDE DEF T, f
  <2>2. [f EXCEPT ![h] = v] = [y \in T |-> [f EXCEPT ![h] = v][y]]
    BY <2>1
  <2>3. [f EXCEPT ![h] = v][h] = v /\ \A y \in T : y # h => [f EXCEPT ![h] = v][y] = f[y]
    BY <2>1
  <2> QED BY <1>10, <2>2, <2>3 DEF T, f
<1> HIDE DEF C, D
<1>12. ASSUME NEW y \in Occupied(p) PROVE D[RotatedHex(y, k)] = TurnedCell(p.cells[y], k)
  <2>1. CASE y = x
    <3>1. RotatedHex(y, k) = h
      BY <2>1 DEF h
    <3> QED BY <1>3, <1>9, <1>11, <2>1, <3>1
  <2>2. CASE y # x
    <3>1. y \in Occupied(b) /\ RotatedHex(y, k) \in TurnedCells(b, k)
      BY <1>9 DEF TurnedCells
    <3>2. RotatedHex(y, k) # h
      BY <1>0, <2>2, <3>1, TurnsDiffer DEF h
    <3>3. d.cells[RotatedHex(y, k)] = TurnedCell(b.cells[y], k)
      BY <3>1 DEF IsTurned
    <3>4. D[RotatedHex(y, k)] = d.cells[RotatedHex(y, k)]
      BY <1>11, <3>1, <3>2
    <3>5. p.cells[y] = b.cells[y]
      BY <1>9, <2>2, <3>1
    <3> QED BY <3>3, <3>4, <3>5
  <2> QED BY <2>1, <2>2
<1>13. d.placed = [i \in 1..Len(b.placed) |-> RotatedHex(b.placed[i], k)] /\ d.tokens = b.tokens
  BY DEF IsTurned
<1>14. q.cells = D /\ q.placed = d.placed /\ q.tokens = d.tokens + Award(d, h)
       /\ p.placed = b.placed /\ p.tokens = b.tokens + Award(b, x)
       /\ q = [cells |-> q.cells, placed |-> q.placed, tokens |-> q.tokens]
  BY <1>6, <1>7
<1>15. q.placed = [i \in 1..Len(p.placed) |-> RotatedHex(p.placed[i], k)]
  BY <1>13, <1>14
<1>16. q.tokens = p.tokens
  BY <1>5, <1>13, <1>14
<1>17. IsTurned(q, p, k)
  BY <1>11, <1>12, <1>14, <1>15, <1>16 DEF IsTurned
<1> QED BY <1>4, <1>17 DEF q, p, h

\* A token paid.
LEMMA TurnedPaid ==
  ASSUME NEW b, IsBoard(b), NEW k \in Edges, NEW d, IsTurned(d, b, k)
  PROVE  IsTurned([d EXCEPT !.tokens = @ - 1], [b EXCEPT !.tokens = @ - 1], k)
<1> DEFINE p == [b EXCEPT !.tokens = @ - 1] q == [d EXCEPT !.tokens = @ - 1]
<1>1. p = [cells |-> b.cells, placed |-> b.placed, tokens |-> b.tokens - 1]
  BY DEF IsBoard
<1>2. q = [cells |-> d.cells, placed |-> d.placed, tokens |-> d.tokens - 1]
  <2>1. ASSUME NEW C, NEW P, NEW T
        PROVE  [[cells |-> C, placed |-> P, tokens |-> T] EXCEPT !.tokens = @ - 1]
               = [cells |-> C, placed |-> P, tokens |-> T - 1]
    OBVIOUS
  <2>2. d = [cells |-> d.cells, placed |-> d.placed, tokens |-> d.tokens]
    BY DEF IsTurned
  <2> QED BY <2>1, <2>2
<1>3. /\ p.cells = b.cells /\ p.placed = b.placed /\ p.tokens = b.tokens - 1
      /\ q.cells = d.cells /\ q.placed = d.placed /\ q.tokens = d.tokens - 1
      /\ q = [cells |-> q.cells, placed |-> q.placed, tokens |-> q.tokens]
  BY <1>1, <1>2
<1> HIDE DEF p, q
<1>4. Occupied(p) = Occupied(b) /\ TurnedCells(p, k) = TurnedCells(b, k)
  BY <1>3 DEF Occupied, TurnedCells
<1>5. /\ d.cells = [y \in TurnedCells(b, k) |-> d.cells[y]]
      /\ \A x \in Occupied(b) : d.cells[RotatedHex(x, k)] = TurnedCell(b.cells[x], k)
      /\ d.placed = [i \in 1..Len(b.placed) |-> RotatedHex(b.placed[i], k)]
      /\ d.tokens = b.tokens
  BY DEF IsTurned
<1>6. IsTurned(q, p, k)
  BY <1>3, <1>4, <1>5 DEF IsTurned
<1> QED BY <1>6 DEF p, q

\* What the edges of the turned board show, and which cells a terrain joins.
LEMMA TurnedShows ==
  ASSUME NEW b, IsBoard(b), NEW k \in Edges, NEW d, IsTurned(d, b, k),
         NEW x \in Occupied(b), NEW e \in Edges
  PROVE  Shows(d, RotatedHex(x, k), RotatedTile(e, k)) = Shows(b, x, e)
<1> DEFINE o == b.cells[x] u == d.cells[RotatedHex(x, k)]
<1>1. u = TurnedCell(o, k)
  BY DEF IsTurned
<1>2. o.rotation \in Edges
  BY OccupiedIs DEF IsBoard, Cell
<1> HIDE DEF o, u
<1>3. u.tile = o.tile /\ u.rotation = RotatedTile(o.rotation, k)
  BY <1>1 DEF TurnedCell
<1>4. TerrainOnEdge(u.tile, u.rotation, RotatedTile(e, k)) = TerrainOnEdge(o.tile, o.rotation, e)
  BY <1>2, <1>3, TurnsTerrain
<1> QED BY <1>4 DEF Shows, o, u

\* An edge of the turned board and what lies behind it.
LEMMA TurnedBehind ==
  ASSUME NEW b, IsBoard(b), NEW k \in Edges, NEW d, IsTurned(d, b, k),
         NEW x \in Occupied(b), NEW e \in Edges
  PROVE  LET n == Neighbor(RotatedHex(x, k), RotatedTile(e, k))
         IN  /\ n = RotatedHex(Neighbor(x, e), k)
             /\ n \in Occupied(d) <=> Neighbor(x, e) \in Occupied(b)
             /\ Neighbor(x, e) \in Occupied(b) =>
                  Shows(d, n, Opposite(RotatedTile(e, k))) = Shows(b, Neighbor(x, e), Opposite(e))
<1> DEFINE m == Neighbor(x, e) o == Opposite(e)
           n == Neighbor(RotatedHex(x, k), RotatedTile(e, k))
<1>1. x \in Int \X Int
  BY BoardFinite
<1>2. m \in Int \X Int /\ o \in Edges
  BY <1>1, NeighborBack
<1>3. n = RotatedHex(m, k) /\ Opposite(RotatedTile(e, k)) = RotatedTile(o, k)
  BY <1>1, TurnsNeighbors
<1> HIDE DEF m, o, n
<1>4. n \in Occupied(d) <=> m \in Occupied(b)
  BY <1>2, <1>3, TurnedOccupied
<1>5. ASSUME m \in Occupied(b) PROVE Shows(d, n, RotatedTile(o, k)) = Shows(b, m, o)
  BY <1>2, <1>3, <1>5, TurnedShows
<1> QED BY <1>3, <1>4, <1>5 DEF m, o, n

\* The graph of a terrain is turned with the board.
LEMMA TurnedJoins ==
  ASSUME NEW b, IsBoard(b), NEW k \in Edges, NEW d, IsTurned(d, b, k), NEW t,
         NEW x \in Occupied(b), NEW y \in Occupied(b)
  PROVE  <<RotatedHex(x, k), RotatedHex(y, k)>> \in Joins(d, t) <=> <<x, y>> \in Joins(b, t)
<1> DEFINE X == RotatedHex(x, k) Y == RotatedHex(y, k)
<1>0. X \in Occupied(d) /\ Y \in Occupied(d) /\ Occupied(b) \subseteq Int \X Int
  <2>1. Occupied(b) \subseteq Int \X Int
    BY BoardFinite
  <2> QED BY <2>1, TurnedOccupied
<1>1. ASSUME NEW e \in Edges
      PROVE  Connects(d, X, RotatedTile(e, k), t) /\ Neighbor(X, RotatedTile(e, k)) = Y
               <=> Connects(b, x, e, t) /\ Neighbor(x, e) = y
  <2> DEFINE f == RotatedTile(e, k) m == Neighbor(x, e) n == Neighbor(X, f)
  <2>1. /\ n = RotatedHex(m, k)
        /\ n \in Occupied(d) <=> m \in Occupied(b)
        /\ m \in Occupied(b) => Shows(d, n, Opposite(f)) = Shows(b, m, Opposite(e))
    BY TurnedBehind
  <2>2. Shows(d, X, f) = Shows(b, x, e)
    BY TurnedShows
  <2>3. m \in Int \X Int
    BY <1>0, NeighborBack
  <2>4. n = Y <=> m = y
    <3>1. y \in Int \X Int
      BY <1>0
    <3> HIDE DEF m, n
    <3>2. RotatedHex(m, k) = RotatedHex(y, k) => m = y
      BY <2>3, <3>1, TurnsDiffer
    <3> QED BY <2>1, <3>2
  <2> HIDE DEF X, f, m, n
  <2>5. Connects(d, X, f, t) <=> n \in Occupied(d) /\ Shows(d, X, f) = t /\ Shows(d, n, Opposite(f)) = t
    BY DEF Connects, n
  <2>6. Connects(b, x, e, t) <=> m \in Occupied(b) /\ Shows(b, x, e) = t /\ Shows(b, m, Opposite(e)) = t
    BY DEF Connects, m
  <2> QED BY <2>1, <2>2, <2>4, <2>5, <2>6 DEF f, m, n
<1> HIDE DEF X, Y
<1>2. (\E f \in Edges : Connects(d, X, f, t) /\ Neighbor(X, f) = Y)
        <=> \E e \in Edges : Connects(b, x, e, t) /\ Neighbor(x, e) = y
  <2>1. ASSUME NEW f \in Edges, Connects(d, X, f, t), Neighbor(X, f) = Y
        PROVE  \E e \in Edges : Connects(b, x, e, t) /\ Neighbor(x, e) = y
    <3>1. PICK e \in Edges : RotatedTile(e, k) = f
      BY TurnsEdges
    <3> QED BY <1>1, <2>1, <3>1
  <2>2. ASSUME NEW e \in Edges, Connects(b, x, e, t), Neighbor(x, e) = y
        PROVE  \E f \in Edges : Connects(d, X, f, t) /\ Neighbor(X, f) = Y
    <3>1. RotatedTile(e, k) \in Edges
      BY <1>0, TurnsNeighbors
    <3> QED BY <1>1, <2>2, <3>1
  <2> QED BY <2>1, <2>2
<1>3. <<X, Y>> \in Joins(d, t) <=> \E f \in Edges : Connects(d, X, f, t) /\ Neighbor(X, f) = Y
  BY <1>0, JoinsIs
<1>4. <<x, y>> \in Joins(b, t) <=> \E e \in Edges : Connects(b, x, e, t) /\ Neighbor(x, e) = y
  BY JoinsIs
<1> QED BY <1>2, <1>3, <1>4 DEF X, Y

\* The habitats of the turned board are the habitats turned, so the largest is as large.
LEMMA TurnedLargest ==
  ASSUME NEW b, IsBoard(b), NEW k \in Edges, NEW d, IsTurned(d, b, k), NEW t
  PROVE  LargestHabitat(d, t) = LargestHabitat(b, t)
<1> DEFINE f == [x \in Occupied(b) |-> RotatedHex(x, k)]
           P == HabitatComponents(b, t)
           Q == {Taken(f, K) : K \in P}
           V == Ground(b, t)
<1>0. /\ IsFiniteSet(Occupied(b)) /\ Occupied(b) \subseteq Int \X Int /\ V \subseteq Occupied(b)
      /\ IsComponents(P, V, Joins(b, t)) /\ IsFiniteSet(V)
  <2>1. V \subseteq Occupied(b)
    BY DEF Ground
  <2> QED BY <2>1, BoardFinite, HabitatsFound
<1>1. \A x \in Occupied(b) : f[x] = RotatedHex(x, k)
  OBVIOUS
<1>2. Occupied(d) = TurnedCells(b, k) /\ Occupied(d) \subseteq Int \X Int
  BY TurnedOccupied
<1>3. \A x, y \in Occupied(b) : f[x] = f[y] => x = y
  <2> SUFFICES ASSUME NEW x \in Occupied(b), NEW y \in Occupied(b), f[x] = f[y] PROVE x = y
    OBVIOUS
  <2>1. RotatedHex(x, k) = RotatedHex(y, k) /\ x \in Int \X Int /\ y \in Int \X Int
    BY <1>0, <1>1
  <2> QED BY <2>1, TurnsDiffer
<1>4. IsFiniteSet(Occupied(d))
  <2>1. f = [x \in Occupied(b) |-> f[x]]
    OBVIOUS
  <2>2. \A x \in Occupied(b) : f[x] \in Occupied(d)
    BY <1>1, <1>2 DEF TurnedCells
  <2>3. \A y \in Occupied(d) : \E x \in Occupied(b) : f[x] = y
    BY <1>1, <1>2 DEF TurnedCells
  <2> HIDE DEF f
  <2> QED BY <1>0, <1>3, <2>1, <2>2, <2>3, ImageSize
<1> HIDE DEF f, P, V
<1>5. Taken(f, V) = Ground(d, t)
  <2>1. ASSUME NEW x \in Occupied(b) PROVE d.cells[RotatedHex(x, k)].tile = b.cells[x].tile
    <3>1. d.cells[RotatedHex(x, k)] = TurnedCell(b.cells[x], k)
      BY DEF IsTurned
    <3>2. \A o : TurnedCell(o, k).tile = o.tile
      BY DEF TurnedCell
    <3> QED BY <3>1, <3>2
  <2>2. ASSUME NEW y \in Taken(f, V) PROVE y \in Ground(d, t)
    <3>1. PICK x \in V : y = f[x]
      BY DEF Taken
    <3>2. x \in Occupied(b) /\ y = RotatedHex(x, k) /\ y \in Occupied(d)
      BY <1>0, <1>1, <1>2, <3>1 DEF TurnedCells
    <3>3. ContainsTerrain(b.cells[x].tile, t)
      BY DEF V, Ground
    <3> QED BY <2>1, <3>2, <3>3 DEF Ground
  <2>3. ASSUME NEW y \in Ground(d, t) PROVE y \in Taken(f, V)
    <3>1. y \in Occupied(d) /\ ContainsTerrain(d.cells[y].tile, t)
      BY DEF Ground
    <3>2. PICK x \in Occupied(b) : y = RotatedHex(x, k)
      BY <1>2, <3>1 DEF TurnedCells
    <3>3. x \in V
      BY <2>1, <3>1, <3>2 DEF V, Ground
    <3> QED BY <1>1, <3>2, <3>3 DEF Taken
  <2> QED BY <2>2, <2>3
<1>6. IsComponents(Q, Ground(d, t), Joins(d, t))
  <2>1. \A x, y \in V : f[x] = f[y] => x = y
    BY <1>0, <1>3
  <2>2. ASSUME NEW x \in V, NEW y \in V PROVE <<f[x], f[y]>> \in Joins(d, t) <=> <<x, y>> \in Joins(b, t)
    <3>1. x \in Occupied(b) /\ y \in Occupied(b) /\ f[x] = RotatedHex(x, k) /\ f[y] = RotatedHex(y, k)
      BY <1>0, <1>1
    <3> QED BY <3>1, TurnedJoins
  <2>3. IsComponents(Q, Taken(f, V), Joins(d, t))
    BY <1>0, <2>1, <2>2, ComponentsMoved
  <2> QED BY <1>5, <2>3
<1>7. HabitatComponents(d, t) = Q
  <2>1. IsComponents(HabitatComponents(d, t), Ground(d, t), Joins(d, t))
    BY <1>2, <1>4, HabitatsFound
  <2> HIDE DEF Q
  <2> QED BY <1>6, <2>1, ComponentsUnique
<1>8. ASSUME NEW K \in P PROVE Cardinality(Taken(f, K)) = Cardinality(K)
  <2>1. K \subseteq V /\ IsFiniteSet(K)
    <3>1. K \subseteq V
      BY <1>0 DEF IsComponents
    <3> QED BY <1>0, <3>1, FS_Subset
  <2> DEFINE g == [x \in K |-> f[x]]
  <2>2. /\ g = [x \in K |-> g[x]] /\ (\A x \in K : g[x] \in Taken(f, K))
        /\ \A y \in Taken(f, K) : \E x \in K : g[x] = y
    BY DEF Taken
  <2>3. \A x, y \in K : g[x] = g[y] => x = y
    BY <1>0, <1>3, <2>1
  <2> HIDE DEF g
  <2> QED BY <2>1, <2>2, <2>3, ImageSize
<1>9. {Cardinality(L) : L \in Q} = {Cardinality(K) : K \in P}
  BY <1>8
<1> HIDE DEF Q
<1>10. {Cardinality(L) : L \in HabitatComponents(d, t)} = {Cardinality(K) : K \in HabitatComponents(b, t)}
  BY <1>7, <1>9 DEF P
<1> QED BY <1>10 DEF LargestHabitat

\* The edges that match are turned, so there are as many.
LEMMA TurnedMatching ==
  ASSUME NEW b, IsBoard(b), NEW k \in Edges, NEW d, IsTurned(d, b, k)
  PROVE  MatchingEdges(d) = MatchingEdges(b)
<1> DEFINE M == Matching(b)
           N == Matching(d)
           f == [x \in M |-> <<RotatedHex(x[1], k), RotatedTile(x[2], k)>>]
<1>0. /\ IsFiniteSet(Occupied(b)) /\ Occupied(b) \subseteq Int \X Int
      /\ Occupied(d) = TurnedCells(b, k)
  BY BoardFinite, TurnedOccupied
<1>1. IsFiniteSet(M)
  <2>1. M \subseteq Occupied(b) \X Edges
    BY DEF Matching
  <2>2. IsFiniteSet(Occupied(b) \X Edges)
    BY <1>0, EdgesFinite, FS_Product
  <2> HIDE DEF M
  <2> QED BY <2>1, <2>2, FS_Subset
<1>2. ASSUME NEW a \in Occupied(b), NEW e \in Edges
      PROVE  <<RotatedHex(a, k), RotatedTile(e, k)>> \in N <=> <<a, e>> \in M
  <2> DEFINE A == RotatedHex(a, k) g == RotatedTile(e, k) n == Neighbor(A, g) m == Neighbor(a, e)
  <2>1. A \in Occupied(d) /\ g \in Edges
    <3>1. a \in Int \X Int
      BY <1>0
    <3> QED BY <1>0, <3>1, TurnsNeighbors DEF TurnedCells
  <2>2. Shows(d, A, g) = Shows(b, a, e)
    BY TurnedShows
  <2>3. /\ n \in Occupied(d) <=> m \in Occupied(b)
        /\ m \in Occupied(b) => Shows(d, n, Opposite(g)) = Shows(b, m, Opposite(e))
    BY TurnedBehind
  <2> HIDE DEF A, g, M, N
  <2>4. <<A, g>> \in N <=> n \in Occupied(d) /\ Shows(d, A, g) = Shows(d, n, Opposite(g))
    BY <2>1, MatchingIs DEF N
  <2>5. <<a, e>> \in M <=> m \in Occupied(b) /\ Shows(b, a, e) = Shows(b, m, Opposite(e))
    BY MatchingIs DEF M
  <2> HIDE DEF n, m
  <2> QED BY <2>2, <2>3, <2>4, <2>5 DEF A, g
<1>3. \A b1, x : x \in Matching(b1) => x = <<x[1], x[2]>> /\ x[1] \in Occupied(b1) /\ x[2] \in Edges
  BY DEF Matching
<1>4. \A x \in M : x = <<x[1], x[2]>> /\ x[1] \in Occupied(b) /\ x[2] \in Edges
  BY <1>3
<1>5. \A y \in N : y = <<y[1], y[2]>> /\ y[1] \in Occupied(d) /\ y[2] \in Edges
  BY <1>3
<1> HIDE DEF M, N
<1>6. \A x \in M : f[x] \in N
  BY <1>2, <1>4
<1>7. \A y \in N : \E x \in M : f[x] = y
  <2> SUFFICES ASSUME NEW y \in N PROVE \E x \in M : f[x] = y
    OBVIOUS
  <2>1. PICK a \in Occupied(b) : y[1] = RotatedHex(a, k)
    BY <1>0, <1>5 DEF TurnedCells
  <2>2. PICK e \in Edges : y[2] = RotatedTile(e, k)
    BY <1>5, TurnsEdges
  <2>3. <<a, e>> \in M
    BY <1>2, <1>5, <2>1, <2>2
  <2>4. f[<<a, e>>] = y
    BY <1>5, <2>1, <2>2, <2>3
  <2> QED BY <2>3, <2>4
<1>8. \A x, y \in M : f[x] = f[y] => x = y
  <2> SUFFICES ASSUME NEW x \in M, NEW y \in M, f[x] = f[y] PROVE x = y
    OBVIOUS
  <2>1. /\ x = <<x[1], x[2]>> /\ x[1] \in Int \X Int /\ x[2] \in Edges
        /\ y = <<y[1], y[2]>> /\ y[1] \in Int \X Int /\ y[2] \in Edges
    BY <1>0, <1>4
  <2>2. RotatedHex(x[1], k) = RotatedHex(y[1], k) /\ RotatedTile(x[2], k) = RotatedTile(y[2], k)
    OBVIOUS
  <2>3. x[1] = y[1]
    BY <2>1, <2>2, TurnsDiffer
  <2>4. x[2] = y[2]
    BY <2>1, <2>2, TurnsEdges
  <2> QED BY <2>1, <2>3, <2>4
<1>9. f = [x \in M |-> f[x]]
  OBVIOUS
<1> HIDE DEF f
<1>10. Cardinality(N) = Cardinality(M)
  BY <1>1, <1>6, <1>7, <1>8, <1>9, ImageSize
<1> QED BY <1>10 DEF MatchingEdges, Matching, M, N

-----------------------------------------------------------------------------
(* How far a board reaches.                                                 *)

\* No cell is as far out as there are tiles.
Near(b) == \A c \in Occupied(b) : Distance(c) < Len(b.placed)

\* A neighbor is at most one further.
LEMMA DistanceIs ==
  ASSUME NEW c \in Int \X Int, NEW e \in Edges
  PROVE  Distance(c) \in Nat /\ Distance(c) <= Distance(Neighbor(c, e)) + 1
<1>1. PICK q, r \in Int : c = <<q, r>>
  OBVIOUS
<1> DEFINE abs(n) == IF n < 0 THEN -n ELSE n
           s == EdgeSteps[e + 1]
           far(x, y) == abs(x) + abs(y) + abs(x + y)
<1>2. e \in {0, 1, 2, 3, 4, 5}
  BY DEF Edges
<1>3. /\ s[1] \in {-1, 0, 1} /\ s[2] \in {-1, 0, 1} /\ s[1] + s[2] \in {-1, 0, 1}
      /\ s[1] = 0 \/ s[2] = 0 \/ s[1] + s[2] = 0
  BY <1>2 DEF EdgeSteps
<1>4. Neighbor(c, e) = <<q + s[1], r + s[2]>>
  BY <1>1 DEF Neighbor
<1> HIDE DEF s
<1> DEFINE x == q + s[1] y == r + s[2]
<1>5. x \in Int /\ y \in Int /\ x - q \in {-1, 0, 1} /\ y - r \in {-1, 0, 1} /\ (x + y) - (q + r) \in {-1, 0, 1}
      /\ (x = q \/ y = r \/ x + y = q + r)
  BY <1>3
<1> HIDE DEF x, y
<1>6. far(q, r) \in Nat /\ far(x, y) \in Nat /\ far(q, r) <= far(x, y) + 2
  BY <1>5
<1>7. Distance(c) = far(q, r) \div 2 /\ Distance(Neighbor(c, e)) = far(x, y) \div 2
  BY <1>1, <1>4 DEF Distance, x, y
<1> DEFINE m == far(q, r) n == far(x, y)
<1> HIDE DEF m, n
<1>8. m \in Nat /\ n \in Nat /\ m <= n + 2
  BY <1>6 DEF m, n
<1>9. m \div 2 \in Nat /\ m \div 2 <= (n \div 2) + 1
  BY <1>8
<1> QED BY <1>7, <1>9 DEF m, n

\* So a cell at the frontier is no further out than that.
LEMMA FrontierNear ==
  ASSUME NEW b, IsBoard(b), Near(b), NEW c \in Frontier(b)
  PROVE  Distance(c) \in Nat /\ Distance(c) <= Len(b.placed)
<1>1. c \in Int \X Int /\ \E e \in Edges : Neighbor(c, e) \in Occupied(b)
  BY BoardAssumption DEF Frontier
<1>2. PICK e \in Edges : Neighbor(c, e) \in Occupied(b)
  BY <1>1
<1>3. Distance(c) \in Nat /\ Distance(c) <= Distance(Neighbor(c, e)) + 1
  BY <1>1, DistanceIs
<1>4. Distance(Neighbor(c, e)) < Len(b.placed)
  BY <1>2 DEF Near
<1>5. Neighbor(c, e) \in Int \X Int
  BY <1>2, BoardFinite
<1>6. Distance(Neighbor(c, e)) \in Nat
  BY <1>2, <1>5, DistanceIs
<1>7. Len(b.placed) \in Nat
  BY DEF IsBoard
<1> QED BY <1>3, <1>4, <1>6, <1>7

\* A starter's board is near, and stays so with every turn.
LEMMA StarterNear ==
  ASSUME NEW starter \in Starters
  PROVE  Near(FromStarter(starter))
<1> DEFINE b == FromStarter(starter)
<1>1. IsBoard(b) /\ \A i \in 1..Len(b.placed) : Distance(b.placed[i]) < Len(b.placed)
  BY StarterIs
<1> HIDE DEF b
<1>2. Occupied(b) = ToSet(b.placed) /\ b.placed \in Seq(Hexes)
  BY <1>1, OccupiedIs DEF IsBoard
<1>3. ASSUME NEW c \in Occupied(b) PROVE Distance(c) < Len(b.placed)
  <2>1. PICK i \in 1..Len(b.placed) : c = b.placed[i]
    BY <1>2, ToSetPlaces
  <2> QED BY <1>1, <2>1
<1> QED BY <1>3 DEF Near, b

\* A turn keeps it.
LEMMA PlayNear ==
  ASSUME NEW g, IsGame(g), Near(g.board), NEW turn \in AcceptedTurns(g)
  PROVE  Near(Preview(g, turn))
<1> DEFINE b == g.board p == Preview(g, turn) c == turn.coord
<1>1. IsBoard(b) /\ b.placed \in Seq(Hexes)
  BY DEF IsGame, IsBoard
<1>2. IsBoard(p) /\ p.placed = Append(b.placed, c) /\ c \in Frontier(b)
  BY PreviewIs
<1>3. Occupied(p) = Occupied(b) \cup {c}
  BY PreviewAdds DEF Adds
<1> HIDE DEF b, p, c
<1>4. Len(p.placed) = Len(b.placed) + 1 /\ Len(b.placed) \in Nat
  <2>1. c \in Hexes
    BY <1>2 DEF Frontier
  <2> QED BY <1>1, <1>2, <2>1
<1>5. Distance(c) \in Nat /\ Distance(c) <= Len(b.placed)
  BY <1>1, <1>2, FrontierNear DEF b
<1>6. ASSUME NEW x \in Occupied(b) PROVE Distance(x) < Len(b.placed) + 1
  <2>1. Distance(x) < Len(b.placed)
    BY DEF Near, b
  <2>2. x \in Int \X Int /\ 0 \in Edges
    BY <1>1, BoardFinite DEF Edges
  <2>3. Distance(x) \in Nat
    BY <2>2, DistanceIs
  <2> QED BY <1>4, <2>1, <2>3
<1>7. \A x \in Occupied(p) : Distance(x) < Len(p.placed)
  BY <1>3, <1>4, <1>5, <1>6
<1> QED BY <1>7 DEF Near, p

\* A cell turned is a place.
LEMMA TurnedIsPlace ==
  ASSUME NEW c \in Int \X Int, NEW k \in Edges
  PROVE  RotatedHex(c, k) # Nowhere
<1>1. 0 \in Edges
  BY DEF Edges
<1>2. RotatedHex(c, k) \in Int \X Int
  BY <1>1, TurnsNeighbors
<1>3. \A x \in Int \X Int : x = <<x[1], x[2]>>
  OBVIOUS
<1> QED BY <1>2, <1>3 DEF Nowhere

\* A free cell of the board is one of the turned board.
LEMMA TurnedPlaceable ==
  ASSUME NEW b, IsBoard(b), NEW k \in Edges, NEW d, IsTurned(d, b, k), NEW c, CanPlaceTile(b, c),
         c \in Frontier(b), Near(b)
  PROVE  CanPlaceTile(d, RotatedHex(c, k))
<1> DEFINE h == RotatedHex(c, k)
<1>1. c \in Hexes \ Occupied(b) /\ Len(b.placed) < MaxBoardTiles /\ c \in Int \X Int
  BY BoardAssumption DEF CanPlaceTile
<1>2. Distance(c) < MaxBoardTiles
  <2>1. Distance(c) \in Nat /\ Distance(c) <= Len(b.placed)
    BY FrontierNear
  <2>2. Len(b.placed) \in Nat /\ MaxBoardTiles \in Nat
    BY BoardAssumption DEF IsBoard
  <2> QED BY <1>1, <2>1, <2>2
<1>3. h \in Hexes
  BY <1>1, <1>2, RotationAssumption DEF Edges
<1>4. h \notin Occupied(d)
  BY <1>1, TurnedOccupied
<1>5. Len(d.placed) = Len(b.placed)
  <2> DEFINE n == Len(b.placed) u == d.placed
  <2>1. u = [i \in 1..n |-> RotatedHex(b.placed[i], k)] /\ n \in Nat
    BY DEF IsTurned, IsBoard
  <2> HIDE DEF n, u
  <2>2. Len(u) = n
    BY <2>1
  <2> QED BY <2>2 DEF n, u
<1>6. h \in Frontier(d)
  <2>1. PICK e \in Edges : Neighbor(c, e) \in Occupied(b)
    BY DEF Frontier
  <2>2. Neighbor(c, e) \in Int \X Int
    BY <2>1, BoardFinite
  <2>3. RotatedTile(e, k) \in Edges /\ Neighbor(h, RotatedTile(e, k)) = RotatedHex(Neighbor(c, e), k)
    BY <1>1, TurnsNeighbors
  <2>4. RotatedHex(Neighbor(c, e), k) \in Occupied(d)
    BY <2>1, <2>2, TurnedOccupied
  <2> HIDE DEF h
  <2> QED BY <1>3, <1>4, <2>3, <2>4 DEF Frontier
<1> HIDE DEF h
<1>7. CanPlaceTile(d, h)
  BY <1>1, <1>3, <1>4, <1>5, <1>6 DEF CanPlaceTile
<1> QED BY <1>7 DEF h

-----------------------------------------------------------------------------
(* Turning and playing commute.                                             *)

Whole(g) == g = [board |-> g.board, market |-> g.market, completed_turns |-> g.completed_turns]

\* The game with its board turned.
LEMMA TurnedGame ==
  ASSUME NEW g, Whole(g), NEW k
  PROVE  LET h == [g EXCEPT !.board = RotatedBoard(@, k)]
         IN  /\ h.board = RotatedBoard(g.board, k) /\ h.completed_turns = g.completed_turns
             /\ \A d : TileOf(h, d) = TileOf(g, d) /\ TokenOf(h, d) = TokenOf(g, d)
<1> DEFINE h == [g EXCEPT !.board = RotatedBoard(@, k)]
<1>1. ASSUME NEW B, NEW M, NEW T
      PROVE  [[board |-> B, market |-> M, completed_turns |-> T] EXCEPT !.board = RotatedBoard(@, k)]
             = [board |-> RotatedBoard(B, k), market |-> M, completed_turns |-> T]
  OBVIOUS
<1>2. h = [board |-> RotatedBoard(g.board, k), market |-> g.market, completed_turns |-> g.completed_turns]
  BY <1>1 DEF Whole
<1> HIDE DEF h
<1>3. h.board = RotatedBoard(g.board, k) /\ h.market = g.market /\ h.completed_turns = g.completed_turns
  BY <1>2
<1> QED BY <1>3 DEF TileOf, TokenOf, h

\* A visited turn is accepted on the turned board, and gives the turned board of the turn.
LEMMA VisitTurned ==
  ASSUME NEW g, IsGame(g), Whole(g), Near(g.board), NEW steps \in Edges,
         NEW i, NEW j, NEW r, InRange(g, i, j, r), NEW l \in 0..Len(SpotsAt(g, i, j))
  PROVE  LET turn == TurnAt(g, i, j, r, l)
             turned == [g EXCEPT !.board = RotatedBoard(@, steps)]
         IN  /\ Accepts(turned, RotatedTurn(turn, steps))
             /\ Preview(turned, RotatedTurn(turn, steps)) = RotatedBoard(Preview(g, turn), steps)
<1> DEFINE turn == TurnAt(g, i, j, r, l)
           turned == [g EXCEPT !.board = RotatedBoard(@, steps)]
           other == RotatedTurn(turn, steps)
           d == Drafts(g)[i]
           c == FrontierOf(g)[j]
           q == Rotations(g, i)[r]
           s == SpotsAt(g, i, j)
           t == TileAt(g, i, j, r)
           w == TokenOf(g, d)
           tile == TileOf(g, d)
           b == Charged(g, d)
           o == turned.board
           e == IF d.independent THEN [o EXCEPT !.tokens = @ - 1] ELSE o
           u == WithTile(e, RotatedHex(c, steps), tile, RotatedTile(q, steps))
           x == turn.wildlife
           y == other.wildlife
<1>1. /\ o = RotatedBoard(g.board, steps) /\ turned.completed_turns = g.completed_turns
      /\ TileOf(turned, d) = tile /\ TokenOf(turned, d) = w
  <2>1. /\ turned.board = RotatedBoard(g.board, steps) /\ turned.completed_turns = g.completed_turns
        /\ \A f : TileOf(turned, f) = TileOf(g, f) /\ TokenOf(turned, f) = TokenOf(g, f)
    BY TurnedGame
  <2> HIDE DEF turned
  <2> QED BY <2>1
<1>2. /\ turn.draft = d /\ turn.coord = c /\ turn.rotation = q /\ x = IF l = 0 THEN Nowhere ELSE s[l]
  BY TurnFields
<1>3. /\ other.draft = d /\ other.coord = RotatedHex(c, steps) /\ other.rotation = RotatedTile(q, steps)
      /\ y = IF x = Nowhere THEN Nowhere ELSE RotatedHex(x, steps)
  BY <1>2 DEF RotatedTurn
<1>4. /\ d \in Kinds /\ Affordable(g, d) /\ tile \in Tiles /\ w \in Wildlife
      /\ c \in Hexes \ Occupied(g.board) /\ c \in Frontier(g.board) /\ q \in Edges
  BY RangeIs
<1>5. /\ IsBoard(b) /\ b.placed = g.board.placed
      /\ Occupied(b) = Occupied(g.board) /\ Frontier(b) = Frontier(g.board)
  BY <1>4, ChargedIs
<1>6. CanPlaceTile(b, c) /\ IsBoard(t)
  BY TileAtIs
<1>7. t = WithTile(b, c, tile, q)
  BY DEF TileAt
<1>8. /\ Accepts(g, turn)
      /\ Preview(g, turn) = IF l = 0 THEN t ELSE WithWildlife(t, s[l], w)
  BY VisitedIsAccepted
<1>9. s \in Seq(Hexes) /\ \A n \in 1..Len(s) : CanPlaceWildlife(t, s[n], w)
  BY SpotsAre
<1>10. b = IF d.independent THEN [g.board EXCEPT !.tokens = @ - 1] ELSE g.board
  BY DEF Charged
<1>11. IsBoard(g.board) /\ IsTurned(o, g.board, steps)
  <2>1. IsBoard(g.board)
    BY DEF IsGame
  <2> HIDE DEF o
  <2> QED BY <1>1, <2>1, TurnedIs
<1>12. (g.completed_turns < Turns) /\ (d.independent => g.board.tokens > 0)
  BY <1>2, <1>8 DEF Accepts
<1>13. /\ Accepts(turned, other) <=>
            /\ turned.completed_turns < Turns
            /\ d.independent => o.tokens > 0
            /\ CanPlaceTile(e, RotatedHex(c, steps))
            /\ y # Nowhere => CanPlaceWildlife(u, y, w)
       /\ Preview(turned, other) = IF y = Nowhere THEN u ELSE WithWildlife(u, y, w)
  <2> HIDE DEF turned, other, d, c, q, w, tile
  <2> QED BY <1>1, <1>3 DEF Accepts, Preview
<1> HIDE DEF turned, other, turn, d, c, q, s, t, w, tile, b, o
<1>14. IsTurned(e, b, steps)
  <2>1. CASE d.independent
    BY <1>10, <1>11, <2>1, TurnedPaid
  <2>2. CASE ~d.independent
    BY <1>10, <1>11, <2>2
  <2> QED BY <2>1, <2>2
<1> HIDE DEF e
<1>15. IsTurned(u, t, steps)
  BY <1>4, <1>5, <1>7, <1>14, TurnedTile
<1>16. CanPlaceTile(e, RotatedHex(c, steps))
  <2>1. Near(b) /\ c \in Frontier(b)
    BY <1>4, <1>5 DEF Near
  <2> QED BY <1>5, <1>6, <1>14, <2>1, TurnedPlaceable
<1>17. d.independent => o.tokens > 0
  BY <1>11, <1>12 DEF IsTurned
<1> HIDE DEF u, x, y
<1>18. CASE l = 0
  <2>1. y = Nowhere
    BY <1>2, <1>3, <1>18
  <2>2. Accepts(turned, other) /\ Preview(turned, other) = u
    BY <1>1, <1>12, <1>13, <1>16, <1>17, <2>1
  <2>3. IsTurned(RotatedBoard(t, steps), t, steps)
    BY <1>6, TurnedIs
  <2>4. u = RotatedBoard(t, steps)
    BY <1>15, <2>3, TurnedUnique
  <2> QED BY <1>8, <1>18, <2>2, <2>4 DEF turned, other, turn
<1>19. CASE l # 0
  <2>1. l \in 1..Len(s)
    BY <1>9, <1>19 DEF s
  <2>2. x = s[l] /\ x \in Hexes /\ CanPlaceWildlife(t, x, w)
    BY <1>2, <1>9, <1>19, <2>1
  <2>3. x \in Int \X Int /\ x # Nowhere
    BY <2>2, BoardAssumption, NowhereIs
  <2>4. y = RotatedHex(x, steps) /\ y # Nowhere
    BY <1>3, <2>3, TurnedIsPlace
  <2>5. /\ CanPlaceWildlife(u, y, w)
        /\ IsTurned(WithWildlife(u, y, w), WithWildlife(t, x, w), steps)
    BY <1>4, <1>6, <1>15, <2>2, <2>4, TurnedWildlife
  <2>6. Accepts(turned, other) /\ Preview(turned, other) = WithWildlife(u, y, w)
    BY <1>1, <1>12, <1>13, <1>16, <1>17, <2>4, <2>5
  <2>7. IsBoard(WithWildlife(t, x, w))
    BY <1>4, <1>6, <2>2, WithWildlifeIs
  <2>8. IsTurned(RotatedBoard(WithWildlife(t, x, w), steps), WithWildlife(t, x, w), steps)
    BY <2>7, TurnedIs
  <2>9. WithWildlife(u, y, w) = RotatedBoard(WithWildlife(t, x, w), steps)
    BY <2>5, <2>8, TurnedUnique
  <2>10. Preview(g, turn) = WithWildlife(t, x, w)
    BY <1>8, <1>19, <2>2
  <2> QED BY <2>6, <2>9, <2>10 DEF turned, other, turn
<1> QED BY <1>18, <1>19

\* The invariant: what the enumeration keeps, on a board that is near.
RotationInv == EnumerationInv /\ Whole(game) /\ Near(game.board)

\* It says that turning commutes with playing and scoring.
LEMMA RotationInvCommutes == RotationInv => RotationCommutes
<1> SUFFICES ASSUME RotationInv, phase = "visit", NEW steps \in 1..5
    PROVE  LET turned == [game EXCEPT !.board = RotatedBoard(@, steps)]
               turn == RotatedTurn(Visited, steps)
               spun == RotatedBoard(probe, steps)
           IN /\ Accepts(turned, turn)
              /\ Preview(turned, turn) = spun
              /\ token = 0 => ScoreHabitat(spun) = ScoreHabitat(probe) /\ MatchingEdges(spun) = MatchingEdges(probe)
  BY DEF RotationCommutes
<1>1. /\ IsGame(game) /\ Whole(game) /\ Near(game.board) /\ InRange(game, draft, hex, rotation)
      /\ token \in 0..Len(SpotsAt(game, draft, hex)) /\ probe = Preview(game, Visited)
  BY DEF RotationInv, EnumerationInv, CursorInv
<1>2. Visited = TurnAt(game, draft, hex, rotation, token)
  BY VisitedIs
<1>3. steps \in Edges
  BY DEF Edges
<1>4. /\ Accepts([game EXCEPT !.board = RotatedBoard(@, steps)], RotatedTurn(Visited, steps))
      /\ Preview([game EXCEPT !.board = RotatedBoard(@, steps)], RotatedTurn(Visited, steps))
         = RotatedBoard(probe, steps)
  BY <1>1, <1>2, <1>3, VisitTurned
<1>5. ASSUME token = 0
      PROVE  /\ ScoreHabitat(RotatedBoard(probe, steps)) = ScoreHabitat(probe)
             /\ MatchingEdges(RotatedBoard(probe, steps)) = MatchingEdges(probe)
  <2>1. IsBoard(probe)
    BY <1>5, ProbeIs DEF RotationInv
  <2>2. IsTurned(RotatedBoard(probe, steps), probe, steps)
    BY <1>3, <2>1, TurnedIs
  <2> DEFINE spun == RotatedBoard(probe, steps)
  <2> HIDE DEF spun
  <2>3. \A t \in Terrains : LargestHabitat(spun, t) = LargestHabitat(probe, t)
    BY <1>3, <2>1, <2>2, TurnedLargest DEF spun
  <2>4. MatchingEdges(spun) = MatchingEdges(probe)
    BY <1>3, <2>1, <2>2, TurnedMatching DEF spun
  <2>5. ScoreHabitat(spun) = ScoreHabitat(probe)
    BY <2>3 DEF ScoreHabitat
  <2> QED BY <2>4, <2>5 DEF spun
<1> QED BY <1>4, <1>5

\* A turn and the board it is played on can be turned together about the origin: the rules
\* accept the one where they accept the other, play it to the turned board, and the habitats
\* and matching edges score the same.
THEOREM RotationIsExact == TurnsSpec => []RotationCommutes
<1>1. TurnsInit => RotationInv
  <2> SUFFICES ASSUME TurnsInit PROVE RotationInv
    OBVIOUS
  <2>1. PICK starter \in Starters, market \in Offers :
          game = [board |-> FromStarter(starter), market |-> market, completed_turns |-> 0]
    BY DEF TurnsInit
  <2>2. Whole(game) /\ game.board = FromStarter(starter)
    BY <2>1 DEF Whole
  <2>3. Near(game.board)
    BY <2>2, StarterNear
  <2> QED BY <2>2, <2>3, TurnsInitEnumerates DEF RotationInv
<1>2. RotationInv /\ [TurnsNext]_turnVars => RotationInv'
  <2> SUFFICES ASSUME RotationInv, [TurnsNext]_turnVars PROVE RotationInv'
    OBVIOUS
  <2>1. EnumerationInv'
    BY EnumerationStep DEF RotationInv
  <2>2. CASE Visit
    <3>1. game' = game
      BY <2>2 DEF Visit, BeginDraft, PlaceProbe, SettleNext, TurnProbe, LiftProbe, EndDraft, EndVisits
    <3> QED BY <2>1, <3>1 DEF RotationInv
  <2>3. ASSUME NEW turn \in AcceptedTurns(game), Play(turn) PROVE RotationInv'
    <3>1. PICK market \in Offers :
            game' = [board |-> Preview(game, turn), market |-> market, completed_turns |-> game.completed_turns + 1]
      BY <2>3 DEF Play
    <3>2. Whole(game') /\ game'.board = Preview(game, turn)
      BY <3>1 DEF Whole
    <3>3. Near(Preview(game, turn))
      BY PlayNear DEF RotationInv, EnumerationInv
    <3>4. Near(game'.board)
      BY <3>2, <3>3
    <3> QED BY <2>1, <3>2, <3>4 DEF RotationInv
  <2>4. CASE UNCHANGED turnVars
    <3>1. game' = game
      BY <2>4 DEF turnVars
    <3> QED BY <2>1, <3>1 DEF RotationInv
  <2> QED BY <2>2, <2>3, <2>4 DEF TurnsNext
<1> QED BY <1>1, <1>2, RotationInvCommutes, PTL DEF TurnsSpec

-----------------------------------------------------------------------------
(* The bounds of WildlifeProfiles: edges that the species share.            *)

\* How salmon and foxes can share the edges of one more species.
SharedWith(n, residual, salmon, fox, t, used) ==
  {<<x[1][1] + x[2], x[1][2] + x[3]>> :
     x \in {y \in used \X (0..Least(BipartiteHexEdgeUpper[n["salmon"]][n[t]], residual[t]))
                      \X (0..Least(BipartiteHexEdgeUpper[n["fox"]][n[t]], residual[t])) :
              /\ y[2] + y[3] <= residual[t]
              /\ y[1][1] + y[2] <= salmon
              /\ y[1][2] + y[3] <= fox}}

MiddleSteps(it, n, residual, salmon, fox) ==
  /\ it[{}] = {<<0, 0>>}
  /\ \A s \in SUBSET Middle : s # {} => it[s] = SharedWith(n, residual, salmon, fox, Chosen(s), it[Rest(s)])

\* The three species between salmon and foxes.
LEMMA MiddleFinite == IsFiniteSet(Middle) /\ Middle \subseteq Species /\ "salmon" \notin Middle /\ "fox" \notin Middle
<1>1. IsFiniteSet(Middle)
  BY FewSize DEF Middle
<1>2. Middle \subseteq Species /\ "salmon" \notin Middle /\ "fox" \notin Middle
  BY DEF Middle, Species
<1> QED BY <1>1, <1>2

\* EdgeShares is built from species to species.
LEMMA SharesBuilt ==
  ASSUME NEW n, NEW residual, NEW salmon, NEW fox
  PROVE  \E it \in [SUBSET Middle -> SUBSET (Nat \X Nat)] :
           EdgeShares(n, residual, salmon, fox) = it[Middle] /\ MiddleSteps(it, n, residual, salmon, fox)
<1> DEFINE One(t, used) == SharedWith(n, residual, salmon, fox, t, used)
           Eqn(h) == h = [s \in SUBSET Middle |-> IF s = {} THEN {<<0, 0>>}
                                                  ELSE One(CHOOSE x \in s : TRUE, h[s \ {CHOOSE x \in s : TRUE}])]
           found == CHOOSE h : Eqn(h)
           T == SUBSET (Nat \X Nat)
           step == [p \in (SUBSET Middle) \X T |-> One(Chosen(p[1]), p[2])]
<1>1. EdgeShares(n, residual, salmon, fox) = found[Middle]
  BY DEF EdgeShares, FoldSet, MapThenFoldSet, SharedWith
<1>2. \A t : \A used \in T : One(t, used) \in T
  <2> SUFFICES ASSUME NEW t, NEW used \in T, NEW x \in One(t, used) PROVE x \in Nat \X Nat
    OBVIOUS
  <2> DEFINE u == 0..Least(BipartiteHexEdgeUpper[n["salmon"]][n[t]], residual[t])
             v == 0..Least(BipartiteHexEdgeUpper[n["fox"]][n[t]], residual[t])
  <2>1. u \subseteq Nat /\ v \subseteq Nat
    OBVIOUS
  <2>2. \E y \in used \X u \X v : x = <<y[1][1] + y[2], y[1][2] + y[3]>>
    BY DEF SharedWith
  <2> HIDE DEF u, v
  <2>3. PICK y \in used \X u \X v : x = <<y[1][1] + y[2], y[1][2] + y[3]>>
    BY <2>2
  <2>4. y[1] \in Nat \X Nat /\ y[2] \in Nat /\ y[3] \in Nat
    BY <2>1
  <2>5. y[1][1] \in Nat /\ y[1][2] \in Nat
    BY <2>4
  <2> QED BY <2>3, <2>4, <2>5
<1> HIDE DEF One
<1>3. step \in [(SUBSET Middle) \X T -> T]
  <2>1. \A p \in (SUBSET Middle) \X T : step[p] \in T
    BY <1>2
  <2>2. step = [p \in (SUBSET Middle) \X T |-> step[p]]
    OBVIOUS
  <2> HIDE DEF step, T
  <2> QED BY <2>1, <2>2
<1>4. {<<0, 0>>} \in T
  OBVIOUS
<1>5. \A s \in SUBSET Middle : \A u \in T : step[<<s, u>>] = One(Chosen(s), u)
  OBVIOUS
<1> HIDE DEF step, T
<1>6. PICK it \in [SUBSET Middle -> T] : Builds(it, {<<0, 0>>}, step, Middle)
  BY <1>3, <1>4, MiddleFinite, SetRecursion
<1>7. it[{}] = {<<0, 0>>} /\ \A s \in SUBSET Middle : s # {} => it[s] = One(Chosen(s), it[Rest(s)])
  <2>1. it[{}] = {<<0, 0>>} /\ \A s \in SUBSET Middle : s # {} => it[s] = step[<<s, it[Rest(s)]>>]
    BY <1>6 DEF Builds
  <2>2. ASSUME NEW s \in SUBSET Middle, s # {} PROVE it[s] = One(Chosen(s), it[Rest(s)])
    <3>1. Rest(s) \in SUBSET Middle
      BY DEF Rest
    <3>2. it[Rest(s)] \in T
      BY <1>6, <3>1
    <3> QED BY <1>5, <2>1, <2>2, <3>2
  <2> QED BY <2>1, <2>2
<1>8. Eqn(it)
  <2>1. it = [s \in SUBSET Middle |-> it[s]]
    BY <1>6
  <2>2. \A s \in SUBSET Middle : it[s] = IF s = {} THEN {<<0, 0>>}
                                         ELSE One(CHOOSE x \in s : TRUE, it[s \ {CHOOSE x \in s : TRUE}])
    BY <1>7 DEF Rest, Chosen
  <2> QED BY <2>1, <2>2
<1>9. Eqn(found)
  <2> HIDE DEF Eqn
  <2> QED BY <1>8
<1> HIDE DEF found
<1>10. /\ found = [s \in SUBSET Middle |-> found[s]]
       /\ \A s \in SUBSET Middle : found[s] = IF s = {} THEN {<<0, 0>>} ELSE One(Chosen(s), found[Rest(s)])
  <2>1. found = [s \in SUBSET Middle |-> IF s = {} THEN {<<0, 0>>}
                                         ELSE One(CHOOSE x \in s : TRUE, found[s \ {CHOOSE x \in s : TRUE}])]
    BY <1>9
  <2>2. \A s \in SUBSET Middle : found[s] = IF s = {} THEN {<<0, 0>>}
                                         ELSE One(CHOOSE x \in s : TRUE, found[s \ {CHOOSE x \in s : TRUE}])
    BY <2>1
  <2> QED BY <2>1, <2>2 DEF Rest, Chosen
<1>11. found[{}] = {<<0, 0>>} /\ \A s \in SUBSET Middle : s # {} => found[s] = One(Chosen(s), found[Rest(s)])
  BY <1>10
<1> DEFINE Typed == {s \in SUBSET Middle : found[s] \in T}
<1>12. SUBSET Middle \subseteq Typed
  <2>1. {} \in Typed
    BY <1>4, <1>11
  <2>2. \A s \in SUBSET Middle : s # {} /\ Rest(s) \in Typed => s \in Typed
    BY <1>2, <1>11
  <2> HIDE DEF Typed
  <2> QED BY <2>1, <2>2, MiddleFinite, ReachesSubsets
<1>13. found \in [SUBSET Middle -> T]
  BY <1>10, <1>12
<1> QED BY <1>1, <1>11, <1>13 DEF MiddleSteps, One, T

\* Of a number in two parts, one can be taken to be as great as it may.
LEMMA PartOf ==
  ASSUME NEW i \in Nat, NEW a \in Nat, NEW d \in Nat, i <= a + d
  PROVE  \E j \in 0..d : i - j \in Nat /\ i - j <= a
<1>1. CASE i <= d
  <2>1. i \in 0..d /\ i - i = 0
    BY <1>1
  <2> QED BY <2>1
<1>2. CASE i > d
  <2>1. d \in 0..d /\ i - d \in Nat /\ i - d <= a
    BY <1>2
  <2> QED BY <2>1
<1> QED BY <1>1, <1>2

\* Any demands below the edges there are can be shared out.
LEMMA SharesReach ==
  ASSUME NEW n, NEW residual, NEW salmon \in Nat, NEW fox \in Nat,
         NEW q \in [Middle -> Nat], NEW r \in [Middle -> Nat],
         \A t \in Middle : /\ residual[t] \in Int /\ q[t] + r[t] <= residual[t]
                           /\ BipartiteHexEdgeUpper[n["salmon"]][n[t]] \in Nat
                           /\ q[t] <= BipartiteHexEdgeUpper[n["salmon"]][n[t]]
                           /\ BipartiteHexEdgeUpper[n["fox"]][n[t]] \in Nat
                           /\ r[t] <= BipartiteHexEdgeUpper[n["fox"]][n[t]],
         salmon <= SumFunction(q), fox <= SumFunction(r)
  PROVE  <<salmon, fox>> \in EdgeShares(n, residual, salmon, fox)
<1> DEFINE W(s) == SumOn(q, s) V(s) == SumOn(r, s)
<1>1. PICK it \in [SUBSET Middle -> SUBSET (Nat \X Nat)] :
        EdgeShares(n, residual, salmon, fox) = it[Middle] /\ MiddleSteps(it, n, residual, salmon, fox)
  BY SharesBuilt
<1>2. /\ W({}) = 0 /\ W(Middle) = SumFunction(q)
      /\ \A s \in SUBSET Middle : W(s) \in Nat /\ \A p \in s : W(s) = W(s \ {p}) + q[p]
  BY MiddleFinite, SumOnIs
<1>3. /\ V({}) = 0 /\ V(Middle) = SumFunction(r)
      /\ \A s \in SUBSET Middle : V(s) \in Nat /\ \A p \in s : V(s) = V(s \ {p}) + r[p]
  BY MiddleFinite, SumOnIs
<1> HIDE DEF W, V
<1> DEFINE Good == {s \in SUBSET Middle : \A i, j \in Nat :
                      i <= W(s) /\ j <= V(s) /\ i <= salmon /\ j <= fox => <<i, j>> \in it[s]}
<1>4. {} \in Good
  <2> SUFFICES ASSUME NEW i \in Nat, NEW j \in Nat, i <= W({}), j <= V({}) PROVE <<i, j>> \in it[{}]
    OBVIOUS
  <2>1. i = 0 /\ j = 0
    BY <1>2, <1>3
  <2> QED BY <1>1, <2>1 DEF MiddleSteps
<1>5. ASSUME NEW s \in SUBSET Middle, s # {}, Rest(s) \in Good PROVE s \in Good
  <2> SUFFICES ASSUME NEW i \in Nat, NEW j \in Nat, i <= W(s), j <= V(s), i <= salmon, j <= fox
               PROVE <<i, j>> \in it[s]
    OBVIOUS
  <2> DEFINE t == Chosen(s) R == Rest(s) left == BipartiteHexEdgeUpper[n["salmon"]][n[t]]
             right == BipartiteHexEdgeUpper[n["fox"]][n[t]]
  <2>1. t \in s /\ R = s \ {t} /\ R \in SUBSET Middle /\ t \in Middle
    BY <1>5, MiddleFinite, RestIs DEF Rest
  <2>2. \A k, l \in Nat : k <= W(R) /\ l <= V(R) /\ k <= salmon /\ l <= fox => <<k, l>> \in it[R]
    BY <1>5
  <2>3. it[s] = SharedWith(n, residual, salmon, fox, t, it[R])
    BY <1>1, <1>5 DEF MiddleSteps
  <2>4. residual[t] \in Int /\ q[t] + r[t] <= residual[t] /\ left \in Nat /\ q[t] <= left /\ right \in Nat /\ r[t] <= right
    BY <2>1
  <2>5. q[t] \in Nat /\ r[t] \in Nat
    BY <2>1
  <2>6. W(s) = W(R) + q[t] /\ V(s) = V(R) + r[t] /\ W(R) \in Nat /\ V(R) \in Nat
    BY <1>2, <1>3, <2>1
  <2> HIDE DEF t, R, left, right
  <2>7. PICK k \in 0..q[t] : i - k \in Nat /\ i - k <= W(R)
    BY <2>5, <2>6, PartOf
  <2>8. PICK l \in 0..r[t] : j - l \in Nat /\ j - l <= V(R)
    BY <2>5, <2>6, PartOf
  <2>9. <<i - k, j - l>> \in it[R]
    <3>1. i - k <= salmon /\ j - l <= fox
      BY <2>5, <2>7, <2>8
    <3> QED BY <2>2, <2>7, <2>8, <3>1
  <2>10. k \in 0..Least(left, residual[t]) /\ l \in 0..Least(right, residual[t]) /\ k + l <= residual[t]
    BY <2>4, <2>5, <2>7, <2>8 DEF Least
  <2> DEFINE y == <<<<i - k, j - l>>, k, l>>
  <2>11. y[1] = <<i - k, j - l>> /\ y[2] = k /\ y[3] = l /\ y[1][1] = i - k /\ y[1][2] = j - l
    OBVIOUS
  <2>12. y \in it[R] \X (0..Least(left, residual[t])) \X (0..Least(right, residual[t]))
    BY <2>9, <2>10
  <2>13. i - k + k = i /\ j - l + l = j
    BY <2>7, <2>8
  <2> HIDE DEF y
  <2>14. <<y[1][1] + y[2], y[1][2] + y[3]>> \in SharedWith(n, residual, salmon, fox, t, it[R])
    <3>1. y[2] + y[3] <= residual[t] /\ y[1][1] + y[2] <= salmon /\ y[1][2] + y[3] <= fox
      BY <2>10, <2>11, <2>13
    <3> QED BY <2>12, <3>1 DEF SharedWith, left, right
  <2> QED BY <2>3, <2>11, <2>13, <2>14
<1>6. Middle \in Good
  <2> HIDE DEF Good
  <2>1. SUBSET Middle \subseteq Good
    BY <1>4, <1>5, MiddleFinite, ReachesSubsets
  <2> QED BY <2>1
<1> QED BY <1>1, <1>2, <1>3, <1>6

\* The edges between two species, and within one.
Cross(b, s, t) == Cardinality(Touching(Positions(b, s), Positions(b, t)))

Same(b, s) == Cardinality(Within(Positions(b, s)))

\* Edges between two species are symmetric and below the lattice table.
LEMMA CrossIs ==
  ASSUME NEW b, NEW n, HasCounts(b, n), NEW s \in Species, NEW t \in Species, s # t
  PROVE  /\ Cross(b, s, t) \in Nat /\ Cross(b, s, t) = Cross(b, t, s) /\ Same(b, s) \in Nat
         /\ BipartiteHexEdgeUpper[n[s]][n[t]] \in Nat
         /\ LatticeAssumption => Cross(b, s, t) <= BipartiteHexEdgeUpper[n[s]][n[t]]
<1> DEFINE A == Positions(b, s) B == Positions(b, t)
<1>1. /\ A \in SUBSET Cells /\ A \in SUBSET (Int \X Int) /\ IsFiniteSet(A) /\ Cardinality(A) = n[s] /\ n[s] \in 0..6
      /\ A \cap B = {}
  BY CountedAre
<1>2. B \in SUBSET Cells /\ B \in SUBSET (Int \X Int) /\ IsFiniteSet(B) /\ Cardinality(B) = n[t] /\ n[t] \in 0..6
  BY CountedAre
<1>3. n[s] <= CountCap /\ n[t] <= CountCap
  BY DEF HasCounts
<1>4. Cross(b, s, t) = Cardinality(Touching(A, B)) /\ Cross(b, t, s) = Cardinality(Touching(B, A))
      /\ Same(b, s) = Cardinality(Within(A))
  BY DEF Cross, Same
<1> HIDE DEF A, B
<1>5. Cardinality(Touching(A, B)) \in Nat /\ Cardinality(Within(A)) \in Nat
  BY <1>1, <1>2, EdgeCounts
<1>6. Cardinality(Touching(A, B)) = Cardinality(Touching(B, A))
  BY <1>1, <1>2, TouchingBack
<1>7. BipartiteHexEdgeUpper[n[s]][n[t]] \in Nat
  BY <1>1, <1>2, HexIs
<1>8. ASSUME LatticeAssumption PROVE Cardinality(Touching(A, B)) <= BipartiteHexEdgeUpper[n[s]][n[t]]
  <2>1. A \in {S \in SUBSET Cells : Cardinality(S) <= CountCap} /\ B \in {S \in SUBSET Cells : Cardinality(S) <= CountCap}
    BY <1>1, <1>2, <1>3
  <2>2. Cardinality(Touching(A, B)) <= BipartiteHexEdgeUpper[Cardinality(A)][Cardinality(B)]
    BY <1>1, <1>8, <2>1 DEF LatticeAssumption
  <2> QED BY <1>1, <1>2, <2>2
<1> QED BY <1>4, <1>5, <1>6, <1>7, <1>8

\* A token has six sides: edges inside and to the other four species.
LEMMA CrossSum ==
  ASSUME NEW b, NEW n, HasCounts(b, n), NEW s, NEW t, NEW u, NEW v, NEW x, {s, t, u, v, x} = Species,
         s # t, s # u, s # v, s # x, t # u, t # v, t # x, u # v, u # x, v # x
  PROVE  /\ 2 * Same(b, s) + Cross(b, s, t) + Cross(b, s, u) + Cross(b, s, v) + Cross(b, s, x) <= 6 * n[s]
         /\ Cardinality(Touching(Positions(b, s), DOMAIN b \ Positions(b, s)))
              = Cross(b, s, t) + Cross(b, s, u) + Cross(b, s, v) + Cross(b, s, x)
<1> DEFINE A == Positions(b, s) B == Positions(b, t) C == Positions(b, u) D == Positions(b, v) E == Positions(b, x)
<1>0. s \in Species /\ t \in Species /\ u \in Species /\ v \in Species /\ x \in Species
  OBVIOUS
<1>1. /\ A \in SUBSET (Int \X Int) /\ IsFiniteSet(A) /\ Cardinality(A) = n[s]
      /\ A \cap B = {} /\ A \cap C = {} /\ A \cap D = {} /\ A \cap E = {}
  BY <1>0, CountedAre
<1>2. IsFiniteSet(B) /\ B \cap C = {} /\ B \cap D = {} /\ B \cap E = {}
  BY <1>0, CountedAre
<1>3. IsFiniteSet(C) /\ C \cap D = {} /\ C \cap E = {}
  BY <1>0, CountedAre
<1>4. IsFiniteSet(D) /\ D \cap E = {} /\ IsFiniteSet(E)
  BY <1>0, CountedAre
<1>5. DOMAIN b \ A = ((B \cup C) \cup D) \cup E
  <2>1. \A c \in DOMAIN b : b[c] \in {s, t, u, v, x}
    BY DEF HasCounts
  <2>2. \A c, y : c \in Positions(b, y) <=> c \in DOMAIN b /\ b[c] = y
    BY DEF Positions
  <2> QED BY <2>1, <2>2
<1>6. /\ Cross(b, s, t) = Cardinality(Touching(A, B)) /\ Cross(b, s, u) = Cardinality(Touching(A, C))
      /\ Cross(b, s, v) = Cardinality(Touching(A, D)) /\ Cross(b, s, x) = Cardinality(Touching(A, E))
      /\ Same(b, s) = Cardinality(Within(A))
  BY DEF Cross, Same
<1> HIDE DEF A, B, C, D, E
<1>7. 2 * Cardinality(Within(A)) + Cardinality(Touching(A, B)) + Cardinality(Touching(A, C))
        + Cardinality(Touching(A, D)) + Cardinality(Touching(A, E)) <= 6 * Cardinality(A)
  BY <1>1, <1>2, <1>3, <1>4, DegreeSum
<1>8. Cardinality(Touching(A, DOMAIN b \ A))
        = Cardinality(Touching(A, B)) + Cardinality(Touching(A, C)) + Cardinality(Touching(A, D)) + Cardinality(Touching(A, E))
  <2>1. IsFiniteSet(B \cup C) /\ IsFiniteSet((B \cup C) \cup D)
    BY <1>2, <1>3, <1>4, FS_Union
  <2>2. (B \cup C) \cap D = {} /\ ((B \cup C) \cup D) \cap E = {}
    BY <1>2, <1>3, <1>4
  <2>3. Cardinality(Touching(A, B \cup C)) = Cardinality(Touching(A, B)) + Cardinality(Touching(A, C))
    BY <1>1, <1>2, <1>3, TouchingParts
  <2>4. Cardinality(Touching(A, (B \cup C) \cup D)) = Cardinality(Touching(A, B \cup C)) + Cardinality(Touching(A, D))
    BY <1>1, <1>4, <2>1, <2>2, TouchingParts
  <2>5. Cardinality(Touching(A, ((B \cup C) \cup D) \cup E))
          = Cardinality(Touching(A, (B \cup C) \cup D)) + Cardinality(Touching(A, E))
    BY <1>1, <1>4, <2>1, <2>2, TouchingParts
  <2> QED BY <1>5, <2>3, <2>4, <2>5
<1> QED BY <1>1, <1>6, <1>7, <1>8 DEF A

\* A sum over the three middle species.
LEMMA MiddleSum ==
  ASSUME NEW q \in [Middle -> Nat]
  PROVE  SumFunction(q) = q["bear"] + q["elk"] + q["hawk"]
<1>1. /\ SumOn(q, {}) = 0 /\ SumOn(q, Middle) = SumFunction(q)
      /\ \A s \in SUBSET Middle : SumOn(q, s) \in Nat /\ \A p \in s : SumOn(q, s) = SumOn(q, s \ {p}) + q[p]
  BY MiddleFinite, SumOnIs
<1>2. /\ Middle \ {"bear"} = {"elk", "hawk"} /\ {"elk", "hawk"} \ {"elk"} = {"hawk"} /\ {"hawk"} \ {"hawk"} = {}
      /\ "bear" \in Middle /\ "elk" \in Middle /\ "hawk" \in Middle
      /\ {"elk", "hawk"} \in SUBSET Middle /\ {"hawk"} \in SUBSET Middle /\ Middle \in SUBSET Middle
  BY DEF Middle
<1>3. q["bear"] \in Nat /\ q["elk"] \in Nat /\ q["hawk"] \in Nat
  BY <1>2
<1>4. SumOn(q, Middle) = SumOn(q, {"elk", "hawk"}) + q["bear"]
  BY <1>1, <1>2
<1>5. SumOn(q, {"elk", "hawk"}) = SumOn(q, {"hawk"}) + q["elk"]
  BY <1>1, <1>2
<1>6. SumOn(q, {"hawk"}) = SumOn(q, {}) + q["hawk"]
  BY <1>1, <1>2
<1> QED BY <1>1, <1>3, <1>4, <1>5, <1>6

\* The sides of the tokens that edges inside their species leave.
Residual(n, same) == [s \in Species |-> 6 * n[s] - 2 * same[s]]

\* What is left of the edges around a species holds those to all others.
LEMMA ResidualIs ==
  ASSUME NEW b, NEW n, HasCounts(b, n), NEW same, \A s \in Species : same[s] \in Nat /\ same[s] <= Same(b, s),
         NEW s, NEW t, NEW u, NEW v, NEW x, {s, t, u, v, x} = Species,
         s # t, s # u, s # v, s # x, t # u, t # v, t # x, u # v, u # x, v # x
  PROVE  /\ Residual(n, same)[s] \in Int
         /\ Cross(b, s, t) + Cross(b, s, u) + Cross(b, s, v) + Cross(b, s, x) <= Residual(n, same)[s]
         /\ Cross(b, s, t) \in Nat /\ Cross(b, s, u) \in Nat /\ Cross(b, s, v) \in Nat /\ Cross(b, s, x) \in Nat
<1>1. s \in Species /\ t \in Species /\ u \in Species /\ v \in Species /\ x \in Species
  OBVIOUS
<1>2. 2 * Same(b, s) + Cross(b, s, t) + Cross(b, s, u) + Cross(b, s, v) + Cross(b, s, x) <= 6 * n[s]
  BY CrossSum
<1>3. /\ Cross(b, s, t) \in Nat /\ Cross(b, s, u) \in Nat /\ Cross(b, s, v) \in Nat /\ Cross(b, s, x) \in Nat
      /\ Same(b, s) \in Nat
  BY <1>1, CrossIs
<1>4. same[s] \in Nat /\ same[s] <= Same(b, s) /\ n[s] \in Nat
  BY <1>1, CountedAre
<1>5. Residual(n, same)[s] = 6 * n[s] - 2 * same[s]
  BY <1>1 DEF Residual
<1> QED BY <1>2, <1>3, <1>4, <1>5

\* The demands of salmon and foxes fit around any board.
LEMMA DemandsFit ==
  ASSUME LatticeAssumption, NEW b, NEW n, HasCounts(b, n),
         NEW same, \A s \in Species : same[s] \in Nat /\ same[s] <= Same(b, s),
         NEW i \in Nat, i <= Cardinality(Touching(Positions(b, "salmon"), DOMAIN b \ Positions(b, "salmon"))),
         NEW j \in Nat, j <= Cardinality(Touching(Positions(b, "fox"), DOMAIN b \ Positions(b, "fox")))
  PROVE  CrossDemandsFeasible(n, same, i, j)
<1> DEFINE r == Residual(n, same) x(s, t) == Cross(b, s, t) a == x("salmon", "fox")
           lattice == BipartiteHexEdgeUpper[n["salmon"]][n["fox"]]
           shared == Min({lattice, r["salmon"], r["fox"]})
           salmon == Max({0, i - a}) fox == Max({0, j - a})
           q == [t \in Middle |-> x("salmon", t)] p == [t \in Middle |-> x("fox", t)]
<1>1. /\ \A s \in {"bear", "elk", "hawk"} : x("salmon", s) = x(s, "salmon") /\ x("fox", s) = x(s, "fox")
      /\ a = x("fox", "salmon") /\ a \in Nat /\ lattice \in Nat /\ a <= lattice
      /\ \A t \in Middle : /\ BipartiteHexEdgeUpper[n["salmon"]][n[t]] \in Nat
                           /\ BipartiteHexEdgeUpper[n["fox"]][n[t]] \in Nat
                           /\ x("salmon", t) <= BipartiteHexEdgeUpper[n["salmon"]][n[t]]
                           /\ x("fox", t) <= BipartiteHexEdgeUpper[n["fox"]][n[t]]
                           /\ x("salmon", t) \in Nat /\ x("fox", t) \in Nat
  <2>1. "salmon" \in Species /\ "fox" \in Species /\ "salmon" # "fox" /\ "salmon" \notin Middle /\ "fox" \notin Middle
    BY DEF Species, Middle
  <2>2. \A t \in Middle : t \in Species
    BY MiddleFinite
  <2> HIDE DEF x
  <2>3. {"bear", "elk", "hawk"} = Middle
    BY DEF Middle
  <2>4. \A s, t \in Species : s # t =>
          /\ x(s, t) \in Nat /\ x(s, t) = x(t, s) /\ BipartiteHexEdgeUpper[n[s]][n[t]] \in Nat
          /\ x(s, t) <= BipartiteHexEdgeUpper[n[s]][n[t]]
    BY CrossIs DEF x
  <2>5. \A t \in Middle : /\ x("salmon", t) \in Nat /\ x("salmon", t) = x(t, "salmon")
                          /\ BipartiteHexEdgeUpper[n["salmon"]][n[t]] \in Nat
                          /\ x("salmon", t) <= BipartiteHexEdgeUpper[n["salmon"]][n[t]]
    BY <2>1, <2>2, <2>4
  <2>6. \A t \in Middle : /\ x("fox", t) \in Nat /\ x("fox", t) = x(t, "fox")
                          /\ BipartiteHexEdgeUpper[n["fox"]][n[t]] \in Nat
                          /\ x("fox", t) <= BipartiteHexEdgeUpper[n["fox"]][n[t]]
    BY <2>1, <2>2, <2>4
  <2>7. /\ x("salmon", "fox") \in Nat /\ x("salmon", "fox") = x("fox", "salmon")
        /\ BipartiteHexEdgeUpper[n["salmon"]][n["fox"]] \in Nat
        /\ x("salmon", "fox") <= BipartiteHexEdgeUpper[n["salmon"]][n["fox"]]
    BY <2>1, <2>4
  <2> QED BY <2>3, <2>5, <2>6, <2>7
<1>2. /\ Species = {"bear", "elk", "salmon", "hawk", "fox"} /\ "bear" # "elk" /\ "bear" # "salmon" /\ "bear" # "hawk"
      /\ "bear" # "fox" /\ "elk" # "salmon" /\ "elk" # "hawk" /\ "elk" # "fox" /\ "salmon" # "hawk"
      /\ "salmon" # "fox" /\ "hawk" # "fox"
  BY DEF Species
<1>3. /\ r["salmon"] \in Int
      /\ x("salmon", "bear") + x("salmon", "elk") + x("salmon", "hawk") + x("salmon", "fox") <= r["salmon"]
  <2>1. {"salmon", "bear", "elk", "hawk", "fox"} = Species
    BY <1>2
  <2> QED BY <1>2, <2>1, ResidualIs, Z3
<1>4. /\ r["fox"] \in Int
      /\ x("fox", "bear") + x("fox", "elk") + x("fox", "hawk") + x("fox", "salmon") <= r["fox"]
  <2>1. {"fox", "bear", "elk", "hawk", "salmon"} = Species
    BY <1>2
  <2> QED BY <1>2, <2>1, ResidualIs, Z3
<1>5. ASSUME NEW t \in Middle PROVE r[t] \in Int /\ x("salmon", t) + x("fox", t) <= r[t] /\ r[t] >= 0
  <2>1. PICK u, v \in Middle : Middle = {t, u, v} /\ t # u /\ t # v /\ u # v
    <3>1. CASE t = "bear"
      BY <1>2, <3>1 DEF Middle
    <3>2. CASE t = "elk"
      BY <1>2, <3>2 DEF Middle
    <3>3. CASE t = "hawk"
      BY <1>2, <3>3 DEF Middle
    <3> QED BY <3>1, <3>2, <3>3 DEF Middle
  <2>2. {t, u, v, "salmon", "fox"} = Species
    BY <1>2, <2>1 DEF Middle
  <2>3. t # "salmon" /\ t # "fox" /\ u # "salmon" /\ u # "fox" /\ v # "salmon" /\ v # "fox"
    BY <2>1, MiddleFinite
  <2>4. /\ r[t] \in Int
        /\ x(t, u) + x(t, v) + x(t, "salmon") + x(t, "fox") <= r[t]
        /\ x(t, u) \in Nat /\ x(t, v) \in Nat /\ x(t, "salmon") \in Nat /\ x(t, "fox") \in Nat
    <3> DEFINE sa == "salmon" fo == "fox"
    <3>1. /\ {t, u, v, sa, fo} = Species /\ t # u /\ t # v /\ u # v /\ sa # fo
          /\ t # sa /\ t # fo /\ u # sa /\ u # fo /\ v # sa /\ v # fo
      BY <1>2, <2>1, <2>2, <2>3
    <3> HIDE DEF sa, fo
    <3>2. /\ Residual(n, same)[t] \in Int
          /\ Cross(b, t, u) + Cross(b, t, v) + Cross(b, t, sa) + Cross(b, t, fo) <= Residual(n, same)[t]
          /\ Cross(b, t, u) \in Nat /\ Cross(b, t, v) \in Nat /\ Cross(b, t, sa) \in Nat /\ Cross(b, t, fo) \in Nat
      BY <3>1, ResidualIs
    <3> QED BY <3>2 DEF sa, fo
  <2>5. x("salmon", t) = x(t, "salmon") /\ x("fox", t) = x(t, "fox")
    BY <1>1 DEF Middle
  <2> HIDE DEF x, r
  <2> QED BY <2>4, <2>5
<1>6. /\ i <= x("salmon", "bear") + x("salmon", "elk") + x("salmon", "hawk") + x("salmon", "fox")
      /\ j <= x("fox", "bear") + x("fox", "elk") + x("fox", "hawk") + x("fox", "salmon")
  <2>1. {"salmon", "bear", "elk", "hawk", "fox"} = Species /\ {"fox", "bear", "elk", "hawk", "salmon"} = Species
    BY <1>2
  <2>2. Cardinality(Touching(Positions(b, "salmon"), DOMAIN b \ Positions(b, "salmon")))
          = x("salmon", "bear") + x("salmon", "elk") + x("salmon", "hawk") + x("salmon", "fox")
    BY <1>2, <2>1, CrossSum
  <2>3. Cardinality(Touching(Positions(b, "fox"), DOMAIN b \ Positions(b, "fox")))
          = x("fox", "bear") + x("fox", "elk") + x("fox", "hawk") + x("fox", "salmon")
    BY <1>2, <2>1, CrossSum
  <2> QED BY <2>2, <2>3
<1>7. q \in [Middle -> Nat] /\ p \in [Middle -> Nat] /\ (\A t \in Middle : q[t] = x("salmon", t) /\ p[t] = x("fox", t))
  BY <1>1
<1>8. /\ SumFunction(q) = x("salmon", "bear") + x("salmon", "elk") + x("salmon", "hawk")
      /\ SumFunction(p) = x("fox", "bear") + x("fox", "elk") + x("fox", "hawk")
  <2>1. "bear" \in Middle /\ "elk" \in Middle /\ "hawk" \in Middle
    BY DEF Middle
  <2>2. /\ q["bear"] = x("salmon", "bear") /\ q["elk"] = x("salmon", "elk") /\ q["hawk"] = x("salmon", "hawk")
        /\ p["bear"] = x("fox", "bear") /\ p["elk"] = x("fox", "elk") /\ p["hawk"] = x("fox", "hawk")
    BY <1>7, <2>1
  <2> HIDE DEF q, p, x
  <2>3. SumFunction(q) = q["bear"] + q["elk"] + q["hawk"] /\ SumFunction(p) = p["bear"] + p["elk"] + p["hawk"]
    BY <1>7, MiddleSum
  <2> QED BY <2>2, <2>3
<1> HIDE DEF q, p
<1>9. /\ x("salmon", "bear") \in Nat /\ x("salmon", "elk") \in Nat /\ x("salmon", "hawk") \in Nat
      /\ x("fox", "bear") \in Nat /\ x("fox", "elk") \in Nat /\ x("fox", "hawk") \in Nat
  BY <1>1 DEF Middle
<1> HIDE DEF r, lattice, shared, salmon, fox, x
<1>10. a \in Nat /\ lattice \in Nat /\ a <= lattice /\ a = x("salmon", "fox") /\ a = x("fox", "salmon")
  BY <1>1
<1> HIDE DEF a
<1>11. a <= r["salmon"] /\ a <= r["fox"]
  BY <1>3, <1>4, <1>9, <1>10
<1>12. a \in 0..shared
  <2> DEFINE K == {lattice, r["salmon"], r["fox"]}
  <2>1. K \subseteq Nat /\ lattice \in K /\ \A k \in K : a <= k
    BY <1>3, <1>4, <1>10, <1>11
  <2>2. shared = Min(K)
    BY DEF shared
  <2> HIDE DEF K
  <2>3. Min(K) \in K
    BY <2>1, LeastIn
  <2>4. Min(K) \in Nat /\ a <= Min(K)
    BY <2>1, <2>3
  <2> QED BY <1>10, <2>2, <2>4
<1>13. salmon = (IF i - a > 0 THEN i - a ELSE 0) /\ fox = (IF j - a > 0 THEN j - a ELSE 0)
  BY <1>10, OverZero DEF salmon, fox
<1>14. /\ salmon \in Nat /\ fox \in Nat /\ a + salmon <= r["salmon"] /\ a + fox <= r["fox"]
       /\ salmon <= SumFunction(q) /\ fox <= SumFunction(p)
  BY <1>3, <1>4, <1>6, <1>8, <1>9, <1>10, <1>11, <1>13
<1>15. <<salmon, fox>> \in EdgeShares(n, r, salmon, fox)
  <2>1. \A t \in Middle : /\ r[t] \in Int /\ q[t] + p[t] <= r[t]
                          /\ BipartiteHexEdgeUpper[n["salmon"]][n[t]] \in Nat
                          /\ q[t] <= BipartiteHexEdgeUpper[n["salmon"]][n[t]]
                          /\ BipartiteHexEdgeUpper[n["fox"]][n[t]] \in Nat
                          /\ p[t] <= BipartiteHexEdgeUpper[n["fox"]][n[t]]
    BY <1>1, <1>5, <1>7
  <2> QED BY <1>7, <1>14, <2>1, SharesReach
<1>16. \A s \in Species : r[s] >= 0
  <2>1. r["salmon"] >= 0 /\ r["fox"] >= 0
    BY <1>3, <1>4, <1>10, <1>11
  <2>2. \A t \in Middle : r[t] >= 0
    BY <1>5
  <2> QED BY <1>2, <2>1, <2>2 DEF Middle
<1>17. CrossDemandsFeasible(n, same, i, j) <=>
         /\ \A s \in Species : r[s] >= 0
         /\ \E between \in 0..shared :
              /\ between + Max({0, i - between}) <= r["salmon"]
              /\ between + Max({0, j - between}) <= r["fox"]
              /\ <<Max({0, i - between}), Max({0, j - between})>>
                   \in EdgeShares(n, r, Max({0, i - between}), Max({0, j - between}))
  BY DEF CrossDemandsFeasible, Residual, r, shared, lattice
<1> QED BY <1>12, <1>14, <1>15, <1>16, <1>17 DEF salmon, fox

-----------------------------------------------------------------------------
(* The bounds: profiles that fit together.                                  *)

\* The profile choices that fit, their edges, and the coupled sums.
FittingChoices(n, ruleset) ==
  {p \in BearProfiles(n["bear"], ruleset["bear"]) : SameSpeciesFits(p, n["bear"])}
  \X {p \in ElkProfiles(n["elk"], ruleset["elk"]) : SameSpeciesFits(p, n["elk"])}
  \X {p \in SalmonProfiles(n["salmon"], ruleset["salmon"]) : SameSpeciesFits(p, n["salmon"])}
  \X {p \in FoxProfiles(n, ruleset["fox"]) : SameSpeciesFits(p, n["fox"])}

EdgesOf(x) == [bear |-> x[1][2], elk |-> x[2][2], salmon |-> x[3][2], hawk |-> 0, fox |-> x[4][2]]

Coupled(n, ruleset) ==
  {x[1][1] + x[2][1] + x[3][1] + x[4][1] + HawkUpper(n, ruleset["hawk"]) :
     x \in {y \in FittingChoices(n, ruleset) : CrossDemandsFeasible(n, EdgesOf(y), y[3][3], y[4][3])}}

\* CoupledCountUpper is the largest of the coupled sums.
LEMMA CoupledIs ==
  ASSUME NEW n, NEW ruleset
  PROVE  CoupledCountUpper(n, ruleset) = Max({0} \cup Coupled(n, ruleset))
BY DEF CoupledCountUpper, Coupled, FittingChoices, EdgesOf

\* There are finitely many coupled sums.
LEMMA CoupledFinite ==
  ASSUME NEW n, NEW ruleset, IsProfiles(BearProfiles(n["bear"], ruleset["bear"])),
         IsProfiles(ElkProfiles(n["elk"], ruleset["elk"])), IsProfiles(SalmonProfiles(n["salmon"], ruleset["salmon"])),
         IsProfiles(FoxProfiles(n, ruleset["fox"])), HawkUpper(n, ruleset["hawk"]) \in Nat
  PROVE  Coupled(n, ruleset) \subseteq Nat /\ IsFiniteSet(Coupled(n, ruleset))
<1> DEFINE A == {p \in BearProfiles(n["bear"], ruleset["bear"]) : SameSpeciesFits(p, n["bear"])}
           B == {p \in ElkProfiles(n["elk"], ruleset["elk"]) : SameSpeciesFits(p, n["elk"])}
           C == {p \in SalmonProfiles(n["salmon"], ruleset["salmon"]) : SameSpeciesFits(p, n["salmon"])}
           D == {p \in FoxProfiles(n, ruleset["fox"]) : SameSpeciesFits(p, n["fox"])}
           S == {y \in FittingChoices(n, ruleset) : CrossDemandsFeasible(n, EdgesOf(y), y[3][3], y[4][3])}
           w == [x \in S |-> x[1][1] + x[2][1] + x[3][1] + x[4][1] + HawkUpper(n, ruleset["hawk"])]
<1>1. /\ IsFiniteSet(A) /\ A \subseteq Triples /\ IsFiniteSet(B) /\ B \subseteq Triples
      /\ IsFiniteSet(C) /\ C \subseteq Triples /\ IsFiniteSet(D) /\ D \subseteq Triples
  BY FS_Subset DEF IsProfiles
<1>2. FittingChoices(n, ruleset) = A \X B \X C \X D
  BY DEF FittingChoices
<1>3. Coupled(n, ruleset) = {w[x] : x \in S}
  BY DEF Coupled
<1> HIDE DEF A, B, C, D
<1>4. IsFiniteSet(S) /\ S \subseteq A \X B \X C \X D
  <2>1. IsFiniteSet(A \X B \X C \X D)
    BY <1>1, FourFinite
  <2> QED BY <1>2, <2>1, FS_Subset
<1> HIDE DEF S
<1>5. ASSUME NEW x \in S PROVE w[x] \in Nat
  <2>1. x[1] \in Triples /\ x[2] \in Triples /\ x[3] \in Triples /\ x[4] \in Triples
    BY <1>1, <1>4
  <2>2. x[1][1] \in Nat /\ x[2][1] \in Nat /\ x[3][1] \in Nat /\ x[4][1] \in Nat
    BY <2>1 DEF Triples
  <2>3. w[x] = x[1][1] + x[2][1] + x[3][1] + x[4][1] + HawkUpper(n, ruleset["hawk"])
    OBVIOUS
  <2> HIDE DEF w
  <2> QED BY <2>2, <2>3
<1> HIDE DEF w
<1> QED BY <1>3, <1>4, <1>5, FiniteImage

\* A profile of some species offers its score, from edges there are.
ProfileOf(profiles, worth, same, cross, count) ==
  \E p \in profiles :
    /\ p \in Triples /\ worth <= p[1] /\ p[2] <= same /\ p[3] <= cross
    /\ SameSpeciesFits(p, count)

\* Every bounded score has one.
LEMMA ProfileIs ==
  ASSUME NEW A \in SUBSET (Int \X Int), IsFiniteSet(A), Cardinality(A) <= 6,
         NEW domain, NEW upper, NEW profiles, NEW worth, NEW cross,
         Bounded(worth, domain, upper, profiles, Cardinality(Within(A)), cross)
  PROVE  ProfileOf(profiles, worth, Cardinality(Within(A)), cross, Cardinality(A))
<1>1. ProfilesOffer(profiles, worth, Cardinality(Within(A)), cross) /\ IsProfiles(profiles) /\ worth \in Nat
  BY DEF Bounded
<1>2. PICK p \in profiles : p[1] >= worth /\ p[2] <= Cardinality(Within(A)) /\ p[3] <= cross
  BY <1>1 DEF ProfilesOffer
<1>3. p \in Triples
  BY <1>1 DEF IsProfiles
<1>4. Cardinality(Within(A)) <= SeenPairs[Cardinality(A) + 1]
  BY FewEdges
<1>5. Cardinality(Within(A)) \in Nat /\ SeenPairs[Cardinality(A) + 1] \in Nat
  <2>1. SeenPairs[Cardinality(A) + 1] \in Nat
    BY FewEnds
  <2> QED BY <2>1, EdgeCounts
<1>6. p[1] \in Nat /\ p[2] \in Nat
  BY <1>3 DEF Triples
<1>7. SameSpeciesFits(p, Cardinality(A))
  BY <1>2, <1>4, <1>5, <1>6 DEF SameSpeciesFits
<1> QED BY <1>1, <1>2, <1>3, <1>6, <1>7 DEF ProfileOf

\* The scores of all species, and what is known of each.
Known(b, n, ruleset, bear, elk, salmon, hawk, fox, t, u) ==
  /\ \A cross \in Nat :
       Bounded(bear, BearScoreDomain(n["bear"], ruleset["bear"]), StandaloneBear(n["bear"], ruleset["bear"]),
               BearProfiles(n["bear"], ruleset["bear"]), Same(b, "bear"), cross)
  /\ \A cross \in Nat :
       Bounded(elk, Sums(n["elk"], Groups(ElkSizes(ruleset["elk"]), Chain)), StandaloneElk(n["elk"], ruleset["elk"]),
               ElkProfiles(n["elk"], ruleset["elk"]), Same(b, "elk"), cross)
  /\ Bounded(salmon, SalmonScoreDomain(n["salmon"], ruleset["salmon"]),
             StandaloneSalmon(n["salmon"], ruleset["salmon"], TokenCount - n["salmon"]),
             SalmonProfiles(n["salmon"], ruleset["salmon"]), Same(b, "salmon"), t)
  /\ HawksBounded(n, hawk, ruleset["hawk"])
  /\ FoxCandidate(n, ruleset["fox"]) \in Nat /\ fox <= FoxCandidate(n, ruleset["fox"])
  /\ Bounded(fox, FoxScoreDomain(n, ruleset["fox"]), FoxCount(n, ruleset["fox"]), FoxProfiles(n, ruleset["fox"]),
             Same(b, "fox"), u)

\* The scores of a board respect the bounds of all five species.
LEMMA AllKnown ==
  ASSUME LatticeAssumption, NEW b, NEW n, HasCounts(b, n), Cardinality(DOMAIN b) = TokenCount,
         NEW ruleset \in [Species -> Cards]
  PROVE  Known(b, n, ruleset, ScoreBears(Positions(b, "bear"), ruleset["bear"]), ScoreElk(Positions(b, "elk"), ruleset["elk"]),
               ScoreSalmon(b, ruleset["salmon"]), ScoreHawks(b, ruleset["hawk"]), ScoreFoxes(b, ruleset["fox"]),
               Cardinality(Touching(Positions(b, "salmon"), DOMAIN b \ Positions(b, "salmon"))),
               Cardinality(Touching(Positions(b, "fox"), DOMAIN b \ Positions(b, "fox"))))
<1>0. "bear" \in Species /\ "elk" \in Species /\ "salmon" \in Species /\ "hawk" \in Species /\ "fox" \in Species
  BY DEF Species
<1>1. /\ ruleset["bear"] \in Cards /\ ruleset["elk"] \in Cards /\ ruleset["salmon"] \in Cards
      /\ ruleset["hawk"] \in Cards /\ ruleset["fox"] \in Cards
  BY <1>0
<1>2. \A cross \in Nat :
        Bounded(ScoreBears(Positions(b, "bear"), ruleset["bear"]), BearScoreDomain(n["bear"], ruleset["bear"]),
                StandaloneBear(n["bear"], ruleset["bear"]), BearProfiles(n["bear"], ruleset["bear"]), Same(b, "bear"), cross)
  <2> DEFINE A == Positions(b, "bear")
  <2>1. A \in SUBSET (Int \X Int) /\ IsFiniteSet(A) /\ Cardinality(A) = n["bear"] /\ n["bear"] \in 0..6
    BY <1>0, CountedAre
  <2>2. Same(b, "bear") = Cardinality(Within(A))
    BY DEF Same
  <2> HIDE DEF A
  <2>3. BearsBounded(Cardinality(A), Cardinality(Within(A)), ScoreBears(A, ruleset["bear"]), ruleset["bear"])
    BY <1>1, <2>1, BearsAre
  <2>4. BearsBounded(n["bear"], Same(b, "bear"), ScoreBears(A, ruleset["bear"]), ruleset["bear"])
    BY <2>1, <2>2, <2>3
  <2> QED BY <2>4 DEF BearsBounded, A
<1>3. \A cross \in Nat :
        Bounded(ScoreElk(Positions(b, "elk"), ruleset["elk"]), Sums(n["elk"], Groups(ElkSizes(ruleset["elk"]), Chain)),
                StandaloneElk(n["elk"], ruleset["elk"]), ElkProfiles(n["elk"], ruleset["elk"]), Same(b, "elk"), cross)
  <2> DEFINE A == Positions(b, "elk")
  <2>1. A \in SUBSET Cells /\ IsFiniteSet(A) /\ Cardinality(A) = n["elk"] /\ n["elk"] \in 0..6
    BY <1>0, CountedAre
  <2>2. Same(b, "elk") = Cardinality(Within(A))
    BY DEF Same
  <2> HIDE DEF A
  <2>3. ElkBounded(Cardinality(A), Cardinality(Within(A)), ScoreElk(A, ruleset["elk"]), ruleset["elk"])
    BY <1>1, <2>1, ElkAre
  <2>4. ElkBounded(n["elk"], Same(b, "elk"), ScoreElk(A, ruleset["elk"]), ruleset["elk"])
    BY <2>1, <2>2, <2>3
  <2> QED BY <2>4 DEF ElkBounded, A
<1>4. Bounded(ScoreSalmon(b, ruleset["salmon"]), SalmonScoreDomain(n["salmon"], ruleset["salmon"]),
              StandaloneSalmon(n["salmon"], ruleset["salmon"], TokenCount - n["salmon"]),
              SalmonProfiles(n["salmon"], ruleset["salmon"]), Same(b, "salmon"),
              Cardinality(Touching(Positions(b, "salmon"), DOMAIN b \ Positions(b, "salmon"))))
  <2> DEFINE A == Positions(b, "salmon") O == DOMAIN b \ A
  <2>1. /\ A \in SUBSET (Int \X Int) /\ IsFiniteSet(A) /\ Cardinality(A) = n["salmon"] /\ n["salmon"] \in 0..6
        /\ IsFiniteSet(DOMAIN b) /\ A \subseteq DOMAIN b
    BY <1>0, CountedAre
  <2>2. Same(b, "salmon") = Cardinality(Within(A)) /\ A = Positions(b, "salmon") /\ O = DOMAIN b \ A
    BY DEF Same
  <2> HIDE DEF A, O
  <2>3. IsFiniteSet(O) /\ TokenCount = Cardinality(A) + Cardinality(O)
    <3>1. IsFiniteSet(O) /\ O \cap A = {} /\ DOMAIN b = A \cup O
      BY <2>1, <2>2, FS_Subset
    <3> QED BY <2>1, <3>1, TwoPartsSize
  <2>4. SalmonBounded(Cardinality(A), Cardinality(Within(A)), Cardinality(Touching(A, O)),
                      ScoreSalmon(b, ruleset["salmon"]), ruleset["salmon"])
    <3> DEFINE card == ruleset["salmon"]
    <3>1. /\ A = Positions(b, "salmon") /\ A \in SUBSET (Int \X Int) /\ IsFiniteSet(A) /\ Cardinality(A) <= 6
          /\ O = (DOMAIN b) \ A /\ IsFiniteSet(O) /\ TokenCount = Cardinality(A) + Cardinality(O) /\ card \in Cards
      BY <1>1, <2>1, <2>2, <2>3
    <3> HIDE DEF card
    <3>2. SalmonBounded(Cardinality(A), Cardinality(Within(A)), Cardinality(Touching(A, O)), ScoreSalmon(b, card), card)
      BY <3>1, SalmonAre
    <3> QED BY <3>2 DEF card
  <2>5. SalmonBounded(n["salmon"], Same(b, "salmon"), Cardinality(Touching(A, O)),
                      ScoreSalmon(b, ruleset["salmon"]), ruleset["salmon"])
    BY <2>1, <2>2, <2>4
  <2>6. Cardinality(Touching(A, O)) \in Nat
    BY <2>1, <2>3, EdgeCounts
  <2> DEFINE t == Cardinality(Touching(A, O))
  <2>7. t = Cardinality(Touching(Positions(b, "salmon"), DOMAIN b \ Positions(b, "salmon")))
    BY <2>2
  <2> HIDE DEF t
  <2>8. Bounded(ScoreSalmon(b, ruleset["salmon"]), SalmonScoreDomain(n["salmon"], ruleset["salmon"]),
                StandaloneSalmon(n["salmon"], ruleset["salmon"], TokenCount - n["salmon"]),
                SalmonProfiles(n["salmon"], ruleset["salmon"]), Same(b, "salmon"), t)
    <3>1. t \in Nat /\ t >= t
      BY <2>6 DEF t
    <3>2. SalmonBounded(n["salmon"], Same(b, "salmon"), t, ScoreSalmon(b, ruleset["salmon"]), ruleset["salmon"])
      BY <2>5 DEF t
    <3> QED BY <3>1, <3>2 DEF SalmonBounded
  <2> QED BY <2>7, <2>8
<1>5. HawksBounded(n, ScoreHawks(b, ruleset["hawk"]), ruleset["hawk"])
  BY <1>1, HawksAre
<1>6. /\ FoxCandidate(n, ruleset["fox"]) \in Nat /\ ScoreFoxes(b, ruleset["fox"]) <= FoxCandidate(n, ruleset["fox"])
      /\ Bounded(ScoreFoxes(b, ruleset["fox"]), FoxScoreDomain(n, ruleset["fox"]), FoxCount(n, ruleset["fox"]),
                 FoxProfiles(n, ruleset["fox"]), Same(b, "fox"),
                 Cardinality(Touching(Positions(b, "fox"), DOMAIN b \ Positions(b, "fox"))))
  <2> DEFINE A == Positions(b, "fox") O == DOMAIN b \ A
  <2>1. A \in SUBSET (Int \X Int) /\ IsFiniteSet(A) /\ IsFiniteSet(DOMAIN b)
    BY <1>0, CountedAre
  <2>2. Same(b, "fox") = Cardinality(Within(A)) /\ A = Positions(b, "fox") /\ O = DOMAIN b \ A
    BY DEF Same
  <2> HIDE DEF A, O
  <2>3. IsFiniteSet(O)
    BY <2>1, <2>2, FS_Subset
  <2>4. FoxesBounded(n, Cardinality(Within(A)), Cardinality(Touching(A, O)),
                     ScoreFoxes(b, ruleset["fox"]), ruleset["fox"])
    BY <1>1, <2>2, FoxesAre
  <2>5. Cardinality(Touching(A, O)) \in Nat /\ Cardinality(Touching(A, O)) >= Cardinality(Touching(A, O))
    BY <2>1, <2>3, EdgeCounts
  <2> QED BY <2>2, <2>4, <2>5 DEF FoxesBounded
<1> QED BY <1>2, <1>3, <1>4, <1>5, <1>6 DEF Known

\* A sum over the five species.
LEMMA FiveSum ==
  ASSUME NEW f \in [Species -> Nat]
  PROVE  /\ SumFunction(f) = f["bear"] + f["elk"] + f["salmon"] + f["hawk"] + f["fox"]
         /\ IsFiniteSet(Species)
<1>1. Species = {"salmon", "fox"} \cup Middle /\ Species = {"bear", "elk", "hawk"} \cup {"salmon", "fox"}
  BY DEF Species, Middle
<1>2. IsFiniteSet({"salmon", "fox"}) /\ IsFiniteSet(Species)
  <2>1. IsFiniteSet({"salmon", "fox", "fox"})
    BY FewSize
  <2>2. {"salmon", "fox", "fox"} = {"salmon", "fox"}
    OBVIOUS
  <2>3. IsFiniteSet({"salmon", "fox"})
    BY <2>1, <2>2
  <2>4. IsFiniteSet({"salmon", "fox"} \cup Middle)
    BY <2>3, MiddleFinite, FS_Union
  <2> QED BY <1>1, <2>3, <2>4
<1>3. /\ SumOn(f, {}) = 0 /\ SumOn(f, Species) = SumFunction(f)
      /\ \A s \in SUBSET Species : SumOn(f, s) \in Nat /\ \A p \in s : SumOn(f, s) = SumOn(f, s \ {p}) + f[p]
  BY <1>2, SumOnIs
<1> DEFINE S1 == {"elk", "salmon", "hawk", "fox"} S2 == {"salmon", "hawk", "fox"} S3 == {"hawk", "fox"} S4 == {"fox"}
<1>4. /\ "bear" \in Species /\ "elk" \in S1 /\ "salmon" \in S2 /\ "hawk" \in S3 /\ "fox" \in S4
      /\ Species \ {"bear"} = S1 /\ S1 \ {"elk"} = S2 /\ S2 \ {"salmon"} = S3 /\ S3 \ {"hawk"} = S4 /\ S4 \ {"fox"} = {}
  BY DEF Species
<1>5. S1 \in SUBSET Species /\ S2 \in SUBSET Species /\ S3 \in SUBSET Species /\ S4 \in SUBSET Species
  BY <1>4
<1>6. f["bear"] \in Nat /\ f["elk"] \in Nat /\ f["salmon"] \in Nat /\ f["hawk"] \in Nat /\ f["fox"] \in Nat
  BY <1>4, <1>5
<1> HIDE DEF S1, S2, S3, S4
<1>7. SumOn(f, Species) = SumOn(f, S1) + f["bear"] /\ SumOn(f, S1) = SumOn(f, S2) + f["elk"]
  BY <1>3, <1>4, <1>5
<1>8. SumOn(f, S2) = SumOn(f, S3) + f["salmon"] /\ SumOn(f, S3) = SumOn(f, S4) + f["hawk"]
  BY <1>3, <1>4, <1>5
<1>9. SumOn(f, S4) = SumOn(f, {}) + f["fox"]
  <2>1. "fox" \in S4 /\ S4 \ {"fox"} = {}
    BY <1>4
  <2>2. SumOn(f, S4) = SumOn(f, S4 \ {"fox"}) + f["fox"]
    BY <1>3, <1>5, <2>1
  <2> QED BY <2>1, <2>2
<1> QED BY <1>2, <1>3, <1>6, <1>7, <1>8, <1>9

\* So the bounds of the counts hold for their sum.
LEMMA CountHolds ==
  ASSUME NEW b, NEW n, NEW ruleset \in [Species -> Cards], NEW bear, NEW elk, NEW salmon, NEW hawk, NEW fox, NEW t, NEW u,
         Known(b, n, ruleset, bear, elk, salmon, hawk, fox, t, u)
  PROVE  /\ bear \in Nat /\ elk \in Nat /\ salmon \in Nat /\ hawk \in Nat /\ fox \in Nat
         /\ CountUpper(n, ruleset) \in Nat /\ bear + elk + salmon + hawk + fox <= CountUpper(n, ruleset)
         /\ CandidateUpper(n, ruleset) \in Nat /\ bear + elk + salmon + hawk + fox <= CandidateUpper(n, ruleset)
<1> DEFINE ub == StandaloneBear(n["bear"], ruleset["bear"]) ue == StandaloneElk(n["elk"], ruleset["elk"])
           us == StandaloneSalmon(n["salmon"], ruleset["salmon"], TokenCount - n["salmon"])
           uh == HawkUpper(n, ruleset["hawk"])
           uf == FoxCount(n, ruleset["fox"]) uc == FoxCandidate(n, ruleset["fox"])
<1>1. bear \in Nat /\ ub \in Nat /\ bear <= ub
  <2>1. 0 \in Nat
    OBVIOUS
  <2>2. Bounded(bear, BearScoreDomain(n["bear"], ruleset["bear"]), StandaloneBear(n["bear"], ruleset["bear"]),
                BearProfiles(n["bear"], ruleset["bear"]), Same(b, "bear"), 0)
    BY <2>1 DEF Known
  <2> QED BY <2>2 DEF Bounded
<1>2. elk \in Nat /\ ue \in Nat /\ elk <= ue
  <2>1. 0 \in Nat
    OBVIOUS
  <2>2. Bounded(elk, Sums(n["elk"], Groups(ElkSizes(ruleset["elk"]), Chain)), StandaloneElk(n["elk"], ruleset["elk"]),
                ElkProfiles(n["elk"], ruleset["elk"]), Same(b, "elk"), 0)
    BY <2>1 DEF Known
  <2> QED BY <2>2 DEF Bounded
<1>3. salmon \in Nat /\ us \in Nat /\ salmon <= us
  BY DEF Known, Bounded
<1>4. hawk \in Nat /\ uh \in Nat /\ hawk <= uh
  BY DEF Known, HawksBounded
<1>5. fox \in Nat /\ uf \in Nat /\ fox <= uf /\ uc \in Nat /\ fox <= uc
  BY DEF Known, Bounded
<1>6. CountUpper(n, ruleset) = ub + ue + us + uh + uf
  BY DEF CountUpper, StandaloneUpper, FoxCount
<1>7. CandidateUpper(n, ruleset) = ub + ue + us + uh + uc
  BY DEF CandidateUpper, StandaloneUpper, FoxCandidate
<1> HIDE DEF ub, ue, us, uh, uf, uc
<1>8. CountUpper(n, ruleset) \in Nat /\ bear + elk + salmon + hawk + fox <= CountUpper(n, ruleset)
  BY <1>1, <1>2, <1>3, <1>4, <1>5, <1>6
<1>9. CandidateUpper(n, ruleset) \in Nat /\ bear + elk + salmon + hawk + fox <= CandidateUpper(n, ruleset)
  BY <1>1, <1>2, <1>3, <1>4, <1>5, <1>7
<1> QED BY <1>1, <1>2, <1>3, <1>4, <1>5, <1>8, <1>9

\* And so does the coupled bound: the profiles of the board are one of its choices.
LEMMA CoupledHolds ==
  ASSUME LatticeAssumption, NEW b, NEW n, HasCounts(b, n), NEW ruleset \in [Species -> Cards],
         NEW bear, NEW elk, NEW salmon, NEW hawk, NEW fox,
         NEW t, t = Cardinality(Touching(Positions(b, "salmon"), DOMAIN b \ Positions(b, "salmon"))),
         NEW u, u = Cardinality(Touching(Positions(b, "fox"), DOMAIN b \ Positions(b, "fox"))),
         Known(b, n, ruleset, bear, elk, salmon, hawk, fox, t, u)
  PROVE  /\ CoupledCountUpper(n, ruleset) \in Nat
         /\ bear + elk + salmon + hawk + fox <= CoupledCountUpper(n, ruleset)
<1> DEFINE P(s) == Positions(b, s) K == Coupled(n, ruleset) total == bear + elk + salmon + hawk + fox
           PB == BearProfiles(n["bear"], ruleset["bear"]) PE == ElkProfiles(n["elk"], ruleset["elk"])
           PS == SalmonProfiles(n["salmon"], ruleset["salmon"]) PF == FoxProfiles(n, ruleset["fox"])
           uh == HawkUpper(n, ruleset["hawk"])
<1>1. \A s \in Species : P(s) \in SUBSET (Int \X Int) /\ IsFiniteSet(P(s)) /\ Cardinality(P(s)) = n[s] /\ n[s] \in 0..6
                         /\ Same(b, s) = Cardinality(Within(P(s))) /\ Same(b, s) \in Nat /\ IsFiniteSet(DOMAIN b)
  <2> SUFFICES ASSUME NEW s \in Species
               PROVE P(s) \in SUBSET (Int \X Int) /\ IsFiniteSet(P(s)) /\ Cardinality(P(s)) = n[s] /\ n[s] \in 0..6
                         /\ Same(b, s) = Cardinality(Within(P(s))) /\ Same(b, s) \in Nat /\ IsFiniteSet(DOMAIN b)
    OBVIOUS
  <2>1. P(s) \in SUBSET (Int \X Int) /\ IsFiniteSet(P(s)) /\ Cardinality(P(s)) = n[s] /\ n[s] \in 0..6 /\ IsFiniteSet(DOMAIN b)
    BY CountedAre
  <2>2. Same(b, s) = Cardinality(Within(P(s)))
    BY DEF Same
  <2> HIDE DEF P
  <2> QED BY <2>1, <2>2, EdgeCounts
<1>2. "bear" \in Species /\ "elk" \in Species /\ "salmon" \in Species /\ "hawk" \in Species /\ "fox" \in Species
  BY DEF Species
<1>3. t \in Nat /\ u \in Nat
  <2>1. t = Cardinality(Touching(P("salmon"), DOMAIN b \ P("salmon"))) /\ u = Cardinality(Touching(P("fox"), DOMAIN b \ P("fox")))
    OBVIOUS
  <2> HIDE DEF P
  <2>2. IsFiniteSet(DOMAIN b \ P("salmon")) /\ IsFiniteSet(DOMAIN b \ P("fox")) /\ IsFiniteSet(P("salmon")) /\ IsFiniteSet(P("fox"))
    BY <1>1, <1>2, FS_Subset
  <2>3. t \in Nat
    BY <2>1, <2>2, EdgeCounts
  <2>4. u \in Nat
    BY <2>1, <2>2, EdgeCounts
  <2> QED BY <2>3, <2>4
<1>4. /\ Bounded(bear, BearScoreDomain(n["bear"], ruleset["bear"]), StandaloneBear(n["bear"], ruleset["bear"]), PB, Same(b, "bear"), 0)
      /\ Bounded(elk, Sums(n["elk"], Groups(ElkSizes(ruleset["elk"]), Chain)), StandaloneElk(n["elk"], ruleset["elk"]), PE, Same(b, "elk"), 0)
      /\ Bounded(salmon, SalmonScoreDomain(n["salmon"], ruleset["salmon"]),
                 StandaloneSalmon(n["salmon"], ruleset["salmon"], TokenCount - n["salmon"]), PS, Same(b, "salmon"), t)
      /\ Bounded(fox, FoxScoreDomain(n, ruleset["fox"]), FoxCount(n, ruleset["fox"]), PF, Same(b, "fox"), u)
  <2>1. 0 \in Nat
    OBVIOUS
  <2> QED BY <2>1 DEF Known
<1>5. hawk \in Nat /\ uh \in Nat /\ hawk <= uh
  BY DEF Known, HawksBounded
<1>6. IsProfiles(PB) /\ IsProfiles(PE) /\ IsProfiles(PS) /\ IsProfiles(PF)
  BY <1>4 DEF Bounded
<1>7. bear \in Nat /\ elk \in Nat /\ salmon \in Nat /\ fox \in Nat
  BY <1>4 DEF Bounded
<1> HIDE DEF PB, PE, PS, PF, uh, P
<1>8. ProfileOf(PB, bear, Same(b, "bear"), 0, n["bear"])
  <2> DEFINE A == P("bear") d == BearScoreDomain(n["bear"], ruleset["bear"]) up == StandaloneBear(n["bear"], ruleset["bear"])
  <2>1. A \in SUBSET (Int \X Int) /\ IsFiniteSet(A) /\ Cardinality(A) <= 6 /\ Cardinality(A) = n["bear"] /\ Same(b, "bear") = Cardinality(Within(A))
    BY <1>1, <1>2
  <2>2. Bounded(bear, d, up, PB, Same(b, "bear"), 0)
    BY <1>4
  <2> HIDE DEF A, d, up
  <2>3. Bounded(bear, d, up, PB, Cardinality(Within(A)), 0)
    BY <2>1, <2>2
  <2>4. ProfileOf(PB, bear, Cardinality(Within(A)), 0, Cardinality(A))
    BY <2>1, <2>3, ProfileIs
  <2> QED BY <2>1, <2>4
<1>9. ProfileOf(PE, elk, Same(b, "elk"), 0, n["elk"])
  <2> DEFINE A == P("elk") d == Sums(n["elk"], Groups(ElkSizes(ruleset["elk"]), Chain)) up == StandaloneElk(n["elk"], ruleset["elk"])
  <2>1. A \in SUBSET (Int \X Int) /\ IsFiniteSet(A) /\ Cardinality(A) <= 6 /\ Cardinality(A) = n["elk"] /\ Same(b, "elk") = Cardinality(Within(A))
    BY <1>1, <1>2
  <2>2. Bounded(elk, d, up, PE, Same(b, "elk"), 0)
    BY <1>4
  <2> HIDE DEF A, d, up
  <2>3. Bounded(elk, d, up, PE, Cardinality(Within(A)), 0)
    BY <2>1, <2>2
  <2>4. ProfileOf(PE, elk, Cardinality(Within(A)), 0, Cardinality(A))
    BY <2>1, <2>3, ProfileIs
  <2> QED BY <2>1, <2>4
<1>10. ProfileOf(PS, salmon, Same(b, "salmon"), t, n["salmon"])
  <2> DEFINE A == P("salmon") d == SalmonScoreDomain(n["salmon"], ruleset["salmon"])
             up == StandaloneSalmon(n["salmon"], ruleset["salmon"], TokenCount - n["salmon"])
  <2>1. A \in SUBSET (Int \X Int) /\ IsFiniteSet(A) /\ Cardinality(A) <= 6 /\ Cardinality(A) = n["salmon"] /\ Same(b, "salmon") = Cardinality(Within(A))
    BY <1>1, <1>2
  <2>2. Bounded(salmon, d, up, PS, Same(b, "salmon"), t)
    BY <1>4
  <2> HIDE DEF A, d, up
  <2>3. Bounded(salmon, d, up, PS, Cardinality(Within(A)), t)
    BY <2>1, <2>2
  <2>4. ProfileOf(PS, salmon, Cardinality(Within(A)), t, Cardinality(A))
    BY <2>1, <2>3, ProfileIs
  <2> QED BY <2>1, <2>4
<1>11. ProfileOf(PF, fox, Same(b, "fox"), u, n["fox"])
  <2> DEFINE A == P("fox") d == FoxScoreDomain(n, ruleset["fox"]) up == FoxCount(n, ruleset["fox"])
  <2>1. A \in SUBSET (Int \X Int) /\ IsFiniteSet(A) /\ Cardinality(A) <= 6 /\ Cardinality(A) = n["fox"] /\ Same(b, "fox") = Cardinality(Within(A))
    BY <1>1, <1>2
  <2>2. Bounded(fox, d, up, PF, Same(b, "fox"), u)
    BY <1>4
  <2> HIDE DEF A, d, up
  <2>3. Bounded(fox, d, up, PF, Cardinality(Within(A)), u)
    BY <2>1, <2>2
  <2>4. ProfileOf(PF, fox, Cardinality(Within(A)), u, Cardinality(A))
    BY <2>1, <2>3, ProfileIs
  <2> QED BY <2>1, <2>4
<1>12. PICK p \in PB : p \in Triples /\ bear <= p[1] /\ p[2] <= Same(b, "bear") /\ SameSpeciesFits(p, n["bear"])
  BY <1>8 DEF ProfileOf
<1>13. PICK e \in PE : e \in Triples /\ elk <= e[1] /\ e[2] <= Same(b, "elk") /\ SameSpeciesFits(e, n["elk"])
  BY <1>9 DEF ProfileOf
<1>14. PICK s \in PS : /\ s \in Triples /\ salmon <= s[1] /\ s[2] <= Same(b, "salmon") /\ s[3] <= t
                       /\ SameSpeciesFits(s, n["salmon"])
  BY <1>10 DEF ProfileOf
<1>15. PICK f \in PF : f \in Triples /\ fox <= f[1] /\ f[2] <= Same(b, "fox") /\ f[3] <= u /\ SameSpeciesFits(f, n["fox"])
  BY <1>11 DEF ProfileOf
<1> DEFINE x == <<p, e, s, f>> same == EdgesOf(x)
<1>16. /\ p[1] \in Nat /\ p[2] \in Nat /\ e[1] \in Nat /\ e[2] \in Nat /\ s[1] \in Nat /\ s[2] \in Nat /\ s[3] \in Nat
       /\ f[1] \in Nat /\ f[2] \in Nat /\ f[3] \in Nat
  BY <1>12, <1>13, <1>14, <1>15 DEF Triples
<1>17. /\ same["bear"] = p[2] /\ same["elk"] = e[2] /\ same["salmon"] = s[2] /\ same["hawk"] = 0 /\ same["fox"] = f[2]
       /\ x[1] = p /\ x[2] = e /\ x[3] = s /\ x[4] = f
  BY DEF EdgesOf
<1>18. x \in FittingChoices(n, ruleset)
  BY <1>12, <1>13, <1>14, <1>15 DEF FittingChoices, PB, PE, PS, PF
<1> HIDE DEF x, same
<1>19. \A k \in Species : same[k] \in Nat /\ same[k] <= Same(b, k)
  <2>1. 0 <= Same(b, "hawk")
    BY <1>1, <1>2
  <2>2. Species = {"bear", "elk", "salmon", "hawk", "fox"}
    BY DEF Species
  <2> QED BY <1>12, <1>13, <1>14, <1>15, <1>16, <1>17, <2>1, <2>2
<1>20. CrossDemandsFeasible(n, same, s[3], f[3])
  <2>1. s[3] <= Cardinality(Touching(Positions(b, "salmon"), DOMAIN b \ Positions(b, "salmon")))
    BY <1>14
  <2>2. f[3] <= Cardinality(Touching(Positions(b, "fox"), DOMAIN b \ Positions(b, "fox")))
    BY <1>15
  <2> DEFINE i == s[3] j == f[3]
  <2>3. /\ i \in Nat /\ i <= Cardinality(Touching(Positions(b, "salmon"), DOMAIN b \ Positions(b, "salmon")))
        /\ j \in Nat /\ j <= Cardinality(Touching(Positions(b, "fox"), DOMAIN b \ Positions(b, "fox")))
    BY <1>16, <2>1, <2>2
  <2> HIDE DEF i, j
  <2>4. CrossDemandsFeasible(n, same, i, j)
    BY <1>19, <2>3, DemandsFit
  <2> QED BY <2>4 DEF i, j
<1> DEFINE v == p[1] + e[1] + s[1] + f[1] + uh
<1>21. v \in K
  <2>1. x \in {y \in FittingChoices(n, ruleset) : CrossDemandsFeasible(n, EdgesOf(y), y[3][3], y[4][3])}
    BY <1>17, <1>18, <1>20 DEF same
  <2>2. x[1][1] + x[2][1] + x[3][1] + x[4][1] + HawkUpper(n, ruleset["hawk"]) \in Coupled(n, ruleset)
    BY <2>1 DEF Coupled
  <2> QED BY <1>17, <2>2 DEF uh
<1>22. v \in Nat /\ total <= v
  BY <1>5, <1>7, <1>12, <1>13, <1>14, <1>15, <1>16
<1>23. K \subseteq Nat /\ IsFiniteSet(K)
  BY <1>5, <1>6, CoupledFinite DEF PB, PE, PS, PF, uh
<1>24. CoupledCountUpper(n, ruleset) = Max({0} \cup K)
  BY CoupledIs
<1> HIDE DEF K, v
<1>25. Max({0} \cup K) \in Nat /\ v <= Max({0} \cup K)
  <2> DEFINE Z == {0} \cup K
  <2>1. Z \subseteq Nat /\ v \in Z
    BY <1>21, <1>23
  <2>2. IsFiniteSet(Z)
    BY <1>23, FS_Singleton, FS_Union
  <2> HIDE DEF Z
  <2>3. Max(Z) \in Z /\ v <= Max(Z)
    BY <2>1, <2>2, GreatestIn
  <2> QED BY <2>1, <2>3 DEF Z
<1> QED BY <1>5, <1>7, <1>22, <1>24, <1>25

-----------------------------------------------------------------------------
(* The bounds hold of every board that is reached.                          *)

\* The tokens of a behaviour are of one palette, and few of each species.
BoardCounts ==
  /\ cards \in Rulesets /\ \A c \in DOMAIN board : board[c] \in Species
  /\ \A s \in Species : Cardinality(Positions(board, s)) <= CountCap
  /\ \E palette \in Palettes : Types(board, DOMAIN board) \subseteq palette

\* A token that is placed keeps this.
LEMMA PlacedCounts ==
  ASSUME DOMAIN board \subseteq Cells, BoardCounts, NEW c \in Cells, NEW s \in Species,
         c \notin DOMAIN board, Cardinality(Positions(board, s)) < CountCap,
         NEW palette \in Palettes, Types(board, DOMAIN board) \cup {s} \subseteq palette,
         board' = Placed(board, c, s), cards' = cards
  PROVE  BoardCounts'
<1>1. DOMAIN board' = DOMAIN board \cup {c} /\ \A x \in DOMAIN board' : board'[x] = IF x = c THEN s ELSE board[x]
  BY DEF Placed
<1>2. \A x \in DOMAIN board' : board'[x] \in Species
  BY <1>1 DEF BoardCounts
<1>3. Positions(board', s) = Positions(board, s) \cup {c} /\ c \notin Positions(board, s)
  BY <1>1 DEF Positions
<1>4. \A t \in Species \ {s} : Positions(board', t) = Positions(board, t)
  BY <1>1 DEF Positions
<1>5. \A t \in Species : Cardinality(Positions(board', t)) <= CountCap
  <2>1. IsFiniteSet(Positions(board, s))
    <3>1. Positions(board, s) \subseteq Cells
      BY DEF Positions
    <3> QED BY <3>1, ScoringAssumption, FS_Subset
  <2>2. Cardinality(Positions(board', s)) = Cardinality(Positions(board, s)) + 1 /\ Cardinality(Positions(board, s)) \in Nat
    BY <1>3, <2>1, FS_AddElement, FS_CardinalityType
  <2>3. Cardinality(Positions(board', s)) <= CountCap
    BY <2>2, ScoringAssumption
  <2> QED BY <1>4, <2>3 DEF BoardCounts
<1>6. Types(board', DOMAIN board') \subseteq Types(board, DOMAIN board) \cup {s}
  BY <1>1 DEF Types
<1>7. \E p \in Palettes : Types(board', DOMAIN board') \subseteq p
  BY <1>6
<1> QED BY <1>2, <1>5, <1>7 DEF BoardCounts

\* All steps keep it, together with the invariants of the score.
LEMMA CountsKept == ScoringSpec => [](BoardInv /\ ScoreExact /\ BoardCounts)
<1>1. ScoringInit => BoardCounts
  <2> SUFFICES ASSUME ScoringInit PROVE BoardCounts
    OBVIOUS
  <2>1. board = << >> /\ cards \in Rulesets /\ DOMAIN board = {}
    BY DEF ScoringInit
  <2>2. \A s \in Species : Positions(board, s) = {}
    BY <2>1 DEF Positions
  <2>3. Cardinality({}) = 0 /\ CountCap \in Nat
    BY FS_EmptySet, ScoringAssumption
  <2>4. Types(board, DOMAIN board) = {}
    BY <2>1 DEF Types
  <2>5. \E palette \in Palettes : Types(board, DOMAIN board) \subseteq palette
    BY <2>4, ScoringAssumption
  <2>6. \A s \in Species : Cardinality(Positions(board, s)) <= CountCap
    <3>1. 0 <= CountCap
      BY <2>3
    <3> QED BY <2>2, <2>3, <3>1
  <2>7. \A c \in DOMAIN board : board[c] \in Species
    BY <2>1
  <2>8. cards \in Rulesets
    BY <2>1
  <2> QED BY <2>5, <2>6, <2>7, <2>8 DEF BoardCounts
<1>2. BoardInv /\ BoardCounts /\ [ScoringNext]_scoringVars => BoardCounts'
  <2> SUFFICES ASSUME BoardInv, BoardCounts, [ScoringNext]_scoringVars PROVE BoardCounts'
    OBVIOUS
  <2>1. ASSUME NEW c \in Cells, NEW s \in Species, PlaceWildlife(c, s) PROVE BoardCounts'
    <3>1. PICK palette \in Palettes : Types(board, DOMAIN board) \cup {s} \subseteq palette
      BY <2>1 DEF PlaceWildlife
    <3>2. /\ DOMAIN board \subseteq Cells /\ c \notin DOMAIN board /\ Cardinality(Positions(board, s)) < CountCap
          /\ board' = Placed(board, c, s) /\ cards' = cards
      BY <2>1 DEF PlaceWildlife, BoardInv
    <3> QED BY <3>1, <3>2, PlacedCounts
  <2>2. CASE UNCHANGED scoringVars
    BY <2>2 DEF scoringVars, BoardCounts, Positions, Types
  <2> QED
    BY <2>1, <2>2 DEF ScoringNext
<1> QED
  BY <1>1, <1>2, ScoresKept, PTL DEF ScoringSpec

\* The counts of a complete board are a count vector.
LEMMA BoardCounted ==
  ASSUME BoardInv, BoardCounts, LatticeAssumption, NEW n, n = [s \in Species |-> Cardinality(Positions(board, s))]
  PROVE  /\ HasCounts(board, n)
         /\ Cardinality(DOMAIN board) = TokenCount => n \in CountVectors
<1>1. \A s \in Species : n[s] = Cardinality(Positions(board, s)) /\ IsFiniteSet(Positions(board, s)) /\ n[s] \in 0..CountCap
  <2> SUFFICES ASSUME NEW s \in Species
               PROVE n[s] = Cardinality(Positions(board, s)) /\ IsFiniteSet(Positions(board, s)) /\ n[s] \in 0..CountCap
    OBVIOUS
  <2>1. Positions(board, s) \subseteq Cells
    BY DEF Positions, BoardInv
  <2>2. IsFiniteSet(Positions(board, s))
    BY <2>1, ScoringAssumption, FS_Subset
  <2>3. Cardinality(Positions(board, s)) \in Nat /\ Cardinality(Positions(board, s)) <= CountCap /\ CountCap \in Nat
    BY <2>2, ScoringAssumption, FS_CardinalityType DEF BoardCounts
  <2> QED BY <2>2, <2>3
<1>2. n = [s \in Species |-> n[s]]
  OBVIOUS
<1>3. CountCap \in 0..6
  BY ScoringAssumption DEF LatticeAssumption
<1>4. HasCounts(board, n)
  <2>1. n \in [Species -> 0..6]
    <3>1. \A s \in Species : n[s] \in 0..6
      BY <1>1, <1>3
    <3> QED BY <1>2, <3>1
  <2>2. \A s \in Species : n[s] <= CountCap /\ n[s] = Cardinality(Positions(board, s))
    BY <1>1
  <2> QED BY <2>1, <2>2 DEF HasCounts, BoardInv, BoardCounts
<1>5. ASSUME Cardinality(DOMAIN board) = TokenCount PROVE n \in CountVectors
  <2>1. n \in [Species -> 0..CountCap]
    BY <1>1, <1>2
  <2>2. SumOver(Species, LAMBDA s : n[s]) = TokenCount
    <3> DEFINE of == [s \in Species |-> Positions(board, s)]
    <3>1. \A s \in Species : IsFiniteSet(of[s])
      BY <1>1
    <3>2. \A s, t \in Species : s # t => of[s] \cap of[t] = {}
      BY DEF Positions
    <3>3. \A c : c \in DOMAIN board <=> \E s \in Species : c \in of[s]
      BY DEF Positions, BoardCounts
    <3>4. [s \in Species |-> Cardinality(of[s])] = [s \in Species |-> n[s]]
      BY <1>1
    <3> HIDE DEF of
    <3>5. IsFiniteSet(Species)
      <4>1. [s \in Species |-> 0] \in [Species -> Nat]
        OBVIOUS
      <4> QED BY <4>1, FiveSum
    <3>6. Cardinality(DOMAIN board) = SumFunction([s \in Species |-> Cardinality(of[s])])
      BY <3>1, <3>2, <3>3, <3>5, SizesAddUp
    <3> QED BY <1>5, <3>4, <3>6 DEF SumOver
  <2>3. \E palette \in Palettes : {s \in Species : n[s] > 0} \subseteq palette
    <3>1. PICK palette \in Palettes : Types(board, DOMAIN board) \subseteq palette
      BY DEF BoardCounts
    <3>2. ASSUME NEW s \in Species, n[s] > 0 PROVE s \in palette
      <4>1. Positions(board, s) # {}
        BY <1>1, <3>2, FS_EmptySet
      <4> QED BY <3>1, <4>1 DEF Positions, Types
    <3> QED BY <3>2
  <2> QED BY <2>1, <2>2, <2>3 DEF CountVectors
<1> QED BY <1>4, <1>5

\* The bound record of a count.
Bound(r, n) ==
  [ruleset |-> r, counts |-> n,
   upper |-> Min({CountUpper(n, r), CandidateUpper(n, r), CoupledCountUpper(n, r)}),
   domains |-> CountScoreDomains(n, r)]

\* The bounds that are looked up are those of the counts.
LEMMA BoundFound ==
  ASSUME NEW r \in Rulesets, NEW n \in CountVectors
  PROVE  (CHOOSE b \in Bounds : b.ruleset = r /\ b.counts = n) = Bound(r, n)
<1> DEFINE found == CHOOSE b \in Bounds : b.ruleset = r /\ b.counts = n
<1>1. Bound(r, n) \in Bounds /\ Bound(r, n).ruleset = r /\ Bound(r, n).counts = n
  BY DEF Bounds, Bound
<1>2. found \in Bounds /\ found.ruleset = r /\ found.counts = n
  BY <1>1
<1> HIDE DEF found
<1>3. PICK q \in Rulesets, m \in CountVectors : found = Bound(q, m)
  BY <1>2 DEF Bounds, Bound
<1>4. q = r /\ m = n
  BY <1>2, <1>3 DEF Bound
<1> QED BY <1>3, <1>4 DEF found

\* These invariants imply that the bounds are sound.
LEMMA CountsSound == LatticeAssumption /\ BoardInv /\ ScoreExact /\ BoardCounts => BoundsSound
<1> SUFFICES ASSUME LatticeAssumption, BoardInv, ScoreExact, BoardCounts, Cardinality(DOMAIN board) = TokenCount
             PROVE LET n == [s \in Species |-> Cardinality(Positions(board, s))]
                       total == SumOver(Species, LAMBDA s : score[s])
                       bounds == CHOOSE b \in Bounds : b.ruleset = cards /\ b.counts = n
                   IN /\ total <= bounds.upper
                      /\ \A s \in Species : score[s] \in bounds.domains[s]
  BY DEF BoundsSound
<1> DEFINE n == [s \in Species |-> Cardinality(Positions(board, s))]
           bear == ScoreBears(Positions(board, "bear"), cards["bear"])
           elk == ScoreElk(Positions(board, "elk"), cards["elk"])
           salmon == ScoreSalmon(board, cards["salmon"])
           hawk == ScoreHawks(board, cards["hawk"])
           fox == ScoreFoxes(board, cards["fox"])
           t == Cardinality(Touching(Positions(board, "salmon"), DOMAIN board \ Positions(board, "salmon")))
           u == Cardinality(Touching(Positions(board, "fox"), DOMAIN board \ Positions(board, "fox")))
           found == CHOOSE b \in Bounds : b.ruleset = cards /\ b.counts = n
<1>1. n = [s \in Species |-> Cardinality(Positions(board, s))]
  OBVIOUS
<1> HIDE DEF n
<1>2. HasCounts(board, n) /\ n \in CountVectors
  BY <1>1, BoardCounted
<1>3. cards \in [Species -> Cards] /\ cards \in Rulesets
  BY DEF BoardInv, BoardCounts
<1>4. Known(board, n, cards, bear, elk, salmon, hawk, fox, t, u)
  BY <1>2, <1>3, AllKnown
<1>5. /\ score["bear"] = bear /\ score["elk"] = elk /\ score["salmon"] = salmon /\ score["hawk"] = hawk
      /\ score["fox"] = fox /\ score = [s \in Species |-> score[s]]
  <2>1. score = [s \in Species |-> ScoreWildlife(board, cards[s], s)]
    BY DEF ScoreExact, ScoreBoard
  <2>2. "bear" \in Species /\ "elk" \in Species /\ "salmon" \in Species /\ "hawk" \in Species /\ "fox" \in Species
    BY DEF Species
  <2>3. /\ score["bear"] = ScoreWildlife(board, cards["bear"], "bear") /\ score["elk"] = ScoreWildlife(board, cards["elk"], "elk")
        /\ score["salmon"] = ScoreWildlife(board, cards["salmon"], "salmon")
        /\ score["hawk"] = ScoreWildlife(board, cards["hawk"], "hawk") /\ score["fox"] = ScoreWildlife(board, cards["fox"], "fox")
    BY <2>1, <2>2
  <2>4. score["bear"] = bear
    BY <2>3 DEF ScoreWildlife
  <2>5. score["elk"] = elk
    BY <2>3 DEF ScoreWildlife
  <2>6. score["salmon"] = salmon
    BY <2>3 DEF ScoreWildlife
  <2>7. score["hawk"] = hawk
    BY <2>3 DEF ScoreWildlife
  <2>8. score["fox"] = fox
    BY <2>3 DEF ScoreWildlife
  <2>9. score = [s \in Species |-> score[s]]
    BY <2>1
  <2> QED BY <2>4, <2>5, <2>6, <2>7, <2>8, <2>9
<1>6. found = Bound(cards, n)
  BY <1>2, <1>3, BoundFound
<1>7. /\ CoupledCountUpper(n, cards) \in Nat
      /\ bear + elk + salmon + hawk + fox <= CoupledCountUpper(n, cards)
  <2>1. t = Cardinality(Touching(Positions(board, "salmon"), DOMAIN board \ Positions(board, "salmon")))
    OBVIOUS
  <2>2. u = Cardinality(Touching(Positions(board, "fox"), DOMAIN board \ Positions(board, "fox")))
    OBVIOUS
  <2> HIDE DEF bear, elk, salmon, hawk, fox, t, u
  <2> QED BY <1>2, <1>3, <1>4, <2>1, <2>2, CoupledHolds
<1> HIDE DEF bear, elk, salmon, hawk, fox, t, u, found
<1>8. /\ bear \in Nat /\ elk \in Nat /\ salmon \in Nat /\ hawk \in Nat /\ fox \in Nat
      /\ CountUpper(n, cards) \in Nat /\ bear + elk + salmon + hawk + fox <= CountUpper(n, cards)
      /\ CandidateUpper(n, cards) \in Nat /\ bear + elk + salmon + hawk + fox <= CandidateUpper(n, cards)
  BY <1>3, <1>4, CountHolds
<1> DEFINE total == SumOver(Species, LAMBDA s : score[s]) uppers == {CountUpper(n, cards), CandidateUpper(n, cards), CoupledCountUpper(n, cards)}
<1>9. total = bear + elk + salmon + hawk + fox
  <2>1. score \in [Species -> Nat]
    <3>1. \A s \in Species : score[s] \in Nat
      BY <1>5, <1>8 DEF Species
    <3> QED BY <1>5, <3>1
  <2>2. SumFunction(score) = score["bear"] + score["elk"] + score["salmon"] + score["hawk"] + score["fox"]
    BY <2>1, FiveSum
  <2>3. total = SumFunction([s \in Species |-> score[s]])
    BY DEF SumOver
  <2>4. total = SumFunction(score)
    BY <1>5, <2>3
  <2> QED BY <1>5, <2>2, <2>4
<1>10. total <= Min(uppers)
  <2>1. uppers \subseteq Nat /\ CountUpper(n, cards) \in uppers /\ \A x \in uppers : bear + elk + salmon + hawk + fox <= x
    BY <1>7, <1>8
  <2> HIDE DEF uppers
  <2>2. Min(uppers) \in uppers
    BY <2>1, LeastIn
  <2> QED BY <1>9, <2>1, <2>2
<1>11. total <= found.upper
  BY <1>6, <1>10 DEF Bound
<1>12. found.domains = CountScoreDomains(n, cards)
  BY <1>6 DEF Bound
<1>13. ASSUME NEW s \in Species PROVE score[s] \in found.domains[s]
  <2> DEFINE d == CountScoreDomains(n, cards)
  <2>1. d["bear"] = BearScoreDomain(n["bear"], cards["bear"]) /\ d["elk"] = Sums(n["elk"], Groups(ElkSizes(cards["elk"]), Chain))
        /\ d["salmon"] = SalmonScoreDomain(n["salmon"], cards["salmon"]) /\ d["hawk"] = HawkScoreDomain(n, cards["hawk"])
        /\ d["fox"] = FoxScoreDomain(n, cards["fox"])
    BY DEF CountScoreDomains
  <2> HIDE DEF d
  <2>2. 0 \in Nat
    OBVIOUS
  <2>3. bear \in d["bear"] /\ elk \in d["elk"] /\ salmon \in d["salmon"] /\ hawk \in d["hawk"] /\ fox \in d["fox"]
    BY <1>4, <2>1, <2>2 DEF Known, Bounded, HawksBounded
  <2>4. score[s] \in d[s]
    BY <1>5, <2>3 DEF Species
  <2> QED BY <1>12, <2>4 DEF d
<1> QED BY <1>11, <1>13 DEF found, n

\* What is known from the counts holds of every complete board.
THEOREM BoundsAreSound == ScoringSpec => []BoundsSound
<1>1. BoardInv /\ ScoreExact /\ BoardCounts => BoundsSound
  BY CountsSound, LatticeAssumption
<1> QED BY <1>1, CountsKept, PTL

-----------------------------------------------------------------------------
(* The environment.                                                         *)

\* Whichever part moves, the other rests: a behaviour of both is one of each.
LEMMA EnvironmentParts == EnvironmentSpec => ScoringSpec /\ TurnsSpec
<1>1. EnvironmentInit => ScoringInit /\ TurnsInit
  BY DEF EnvironmentInit
<1>2. [EnvironmentNext]_environmentVars => [ScoringNext]_scoringVars /\ [TurnsNext]_turnVars
  <2> SUFFICES ASSUME [EnvironmentNext]_environmentVars
               PROVE  [ScoringNext]_scoringVars /\ [TurnsNext]_turnVars
    OBVIOUS
  <2>1. CASE part = "scores" /\ ScoringNext /\ UNCHANGED turnVars
    BY <2>1
  <2>2. CASE part = "turns" /\ TurnsNext /\ UNCHANGED scoringVars
    BY <2>2
  <2>3. CASE UNCHANGED environmentVars
    BY <2>3 DEF environmentVars
  <2> QED BY <2>1, <2>2, <2>3 DEF EnvironmentNext
<1> QED BY <1>1, <1>2, PTL DEF EnvironmentSpec, ScoringSpec, TurnsSpec

\* What is proved of the parts holds of the environment: every invariant its run checks.
THEOREM EnvironmentIsExact ==
  EnvironmentSpec => [](/\ ScoreExact /\ ScoresOptimal /\ BoundsSound
                        /\ EnumerationExact /\ RescoreExact /\ RotationCommutes)
  BY EnvironmentParts, ScoreIsExact, ScoresAreOptimal, BoundsAreSound, EnumerationIsExact, RescoreIsExact,
     RotationIsExact, PTL
=============================================================================
