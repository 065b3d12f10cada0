-------------------------- MODULE WildlifeScoring ---------------------------
(***************************************************************************)
(* Wildlife scores: cascadia-game/src/scoring.rs.  A player's board scores *)
(* each species by one of four cards, from scratch (score_wildlife) and    *)
(* after each placement from the score before it                           *)
(* (rescore_after_wildlife_placement).  Habitats and nature tokens, which  *)
(* the rescore adds on, are left out.                                      *)
(*                                                                         *)
(* A cell is a pair of axial coordinates.  Bit masks over token indices    *)
(* are sets of cells, and the order of the tokens is whatever CHOOSE says. *)
(***************************************************************************)
EXTENDS Integers, Sequences, FiniteSets, FiniteSetsExt, Functions

CONSTANTS
  Cells,       \* where tokens can be placed
  Width,       \* no two cells in line are further apart
  Rulesets,    \* the rulesets played: a card for each species
  Palettes,    \* sets of species; a behaviour places tokens of one of them
  TokenCount,  \* TOKEN_COUNT, the tokens of a complete board
  CountCap     \* COUNT_CAP, the most tokens of one species

Species == {"bear", "elk", "salmon", "hawk", "fox"}
Cards == {"A", "B", "C", "D"}

ASSUME ScoringAssumption ==
  /\ Cells \subseteq Int \X Int
  /\ IsFiniteSet(Cells)
  /\ {Width, TokenCount, CountCap} \subseteq Nat
  /\ \A c, e \in Cells : c[1] - e[1] <= Width /\ c[2] - e[2] <= Width
  /\ Rulesets \subseteq [Species -> Cards]
  /\ Palettes \subseteq SUBSET Species /\ Palettes # {}

VARIABLES
  board,  \* occupied cell -> species
  cards,
  score   \* ScoreBreakdown.wildlife

scoringVars == <<board, cards, score>>

-----------------------------------------------------------------------------
(* Cells and groups of cells.                                               *)

Directions == {<<1, 0>>, <<1, -1>>, <<0, -1>>, <<-1, 0>>, <<-1, 1>>, <<0, 1>>}
Step(c, d, n) == <<c[1] + n * d[1], c[2] + n * d[2]>>
Neighbors(c) == {Step(c, d, 1) : d \in Directions}
Around(C) == (UNION {Neighbors(c) : c \in C}) \ C

Positions(b, s) == {c \in DOMAIN b : b[c] = s}
Types(b, C) == {b[c] : c \in C \cap DOMAIN b}
Count(b, C, s) == Cardinality(C \cap Positions(b, s))

\* The groups of adjacent cells: each cell joins those it touches.
Components(C) ==
  FoldSet(LAMBDA c, found :
            LET touched == {K \in found : K \cap Neighbors(c) # {}}
            IN (found \ touched) \cup {(UNION touched) \cup {c}},
          {}, C)

\* The n-th entry of a score table; the last stands for all after it.
Entry(table, n) == table[IF n < Len(table) THEN n + 1 ELSE Len(table)]

\* Wrong: cells are claimed by the best group at hand, one after the other.
ClaimInTurn(C, groups) ==
  LET claim[S \in SUBSET C] ==
        IF S = {} THEN 0
        ELSE LET first == CHOOSE c \in S : TRUE
                 open == {g \in groups : first \in g[1] /\ g[1] \subseteq S}
                 best == CHOOSE g \in open : \A h \in open : g[2] >= h[2]
             IN best[2] + claim[S \ best[1]]
  IN claim[C]

\* maximize_disjoint_groups: groups are pairs of members and score.
MaximizeDisjointGroups(C, groups) ==
  LET best[S \in SUBSET C] ==
        IF S = {} THEN 0
        ELSE LET first == CHOOSE c \in S : TRUE
             IN Max({0} \cup {g[2] + best[S \ g[1]] :
                               g \in {h \in groups : first \in h[1] /\ h[1] \subseteq S}})
  IN best[C]

\* maximum_weight_matching: a cell may stay alone.
MaximumWeightMatching(C, edges) ==
  MaximizeDisjointGroups(C, edges \cup {<<{c}, 0>> : c \in C})

-----------------------------------------------------------------------------
(* The species.                                                             *)

ScoreBears(bears, card) ==
  LET groups(n) == Cardinality({K \in Components(bears) : Cardinality(K) = n})
  IN CASE card = "A" -> Entry(<<0, 4, 11, 19, 27>>, groups(2))
       [] card = "B" -> 10 * groups(3)
       [] card = "C" -> 2 * groups(1) + 5 * groups(2) + 8 * groups(3)
                        + (IF \A n \in 1..3 : groups(n) > 0 THEN 3 ELSE 0)
       [] card = "D" -> 5 * groups(2) + 8 * groups(3) + 13 * groups(4)

Line(c, d, n) == {Step(c, d, i) : i \in 0..(n - 1)}
Clique(T) == \A c, e \in T : c = e \/ e \in Neighbors(c)

\* A triangle, and a fourth elk next to two of it.
Diamond(T) ==
  /\ Cardinality(T) = 4
  /\ \E c \in T : Clique(T \ {c}) /\ Cardinality(T \cap Neighbors(c)) >= 2

ElkGroup(T, card) ==
  CASE card = "A" -> \E c \in T, d \in Directions, n \in 1..4 : T = Line(c, d, n)
    [] card = "B" -> (Clique(T) /\ Cardinality(T) <= 3) \/ Diamond(T)
    [] card = "C" -> Cardinality(Components(T)) = 1
    [] card = "D" -> \E elk \in T : \E center \in Neighbors(elk) : T \subseteq Neighbors(center)

ElkTable(card) ==
  CASE card \in {"A", "B"} -> <<0, 2, 5, 9, 13>>
    [] card = "C" -> <<0, 2, 4, 7, 10, 14, 18, 23, 28>>
    [] card = "D" -> <<0, 2, 5, 8, 12, 16, 21>>

ElkGroups(elk, card) ==
  {<<T, Entry(ElkTable(card), Cardinality(T))>> :
     T \in {U \in (SUBSET elk) \ {{}} : ElkGroup(U, card)}}

ScoreElk(elk, card) == MaximizeDisjointGroups(elk, ElkGroups(elk, card))

\* A component with a salmon next to three others is no run.
Runs(salmon) ==
  {K \in Components(salmon) : \A c \in K : Cardinality(Neighbors(c) \cap K) <= 2}

ScoreRun(b, run, card) ==
  LET size == Cardinality(run)
  IN CASE card = "A" -> Entry(<<0, 2, 5, 8, 12, 16, 20, 25>>, size)
       [] card = "B" -> Entry(<<0, 2, 4, 9, 11, 17>>, size)
       [] card = "C" -> Entry(<<0, 0, 0, 10, 12, 15>>, size)
       [] card = "D" -> IF size < 3 THEN 0
                        ELSE size + Cardinality((Around(run) \cap DOMAIN b)
                                                \ Positions(b, "salmon"))

ScoreSalmon(b, card) ==
  SumFunction([run \in Runs(Positions(b, "salmon")) |-> ScoreRun(b, run, card)])

Isolated(hawks) == {h \in hawks : Neighbors(h) \cap hawks = {}}

\* hawk_lines_of_sight: from each hawk along each axis to the first hawk.
SightLine(h, d, n) == [ends |-> {h, Step(h, d, n)}, between |-> Line(Step(h, d, 1), d, n - 1)]
LinesOfSight(hawks) ==
  {SightLine(x[1], x[2], x[3]) :
     x \in {y \in hawks \X Directions \X (2..Width) :
              /\ Step(y[1], y[2], y[3]) \in hawks
              /\ \A i \in 1..(y[3] - 1) : Step(y[1], y[2], i) \notin hawks}}

HawkTable(card) ==
  CASE card = "A" -> <<0, 2, 5, 8, 11, 14, 18, 22, 26>>
    [] card = "B" -> <<0, 0, 5, 9, 12, 16, 20, 24, 28>>

HawkEdges(b, hawks) ==
  {<<l.ends, Entry(<<0, 4, 7, 9>>, Cardinality(Types(b, l.between)))>> : l \in LinesOfSight(hawks)}

ScoreHawks(b, card) ==
  LET hawks == Positions(b, "hawk")
  IN CASE card = "A" -> Entry(HawkTable("A"), Cardinality(Isolated(hawks)))
       [] card = "B" -> Entry(HawkTable("B"),
                              Cardinality({h \in Isolated(hawks) :
                                             \E l \in LinesOfSight(hawks) : h \in l.ends}))
       [] card = "C" -> 3 * Cardinality(LinesOfSight(hawks))
       [] card = "D" -> MaximumWeightMatching(hawks, HawkEdges(b, hawks))

Others == Species \ {"fox"}
Doubled(b, C) == Cardinality({s \in Others : Count(b, C, s) >= 2})

FoxEdges(b, foxes) ==
  {<<T, Entry(<<0, 5, 7, 9, 11>>, Doubled(b, Around(T)))>> :
     T \in {U \in SUBSET foxes : Cardinality(U) = 2 /\ Clique(U)}}

ScoreFox(b, fox, card) ==
  CASE card = "A" -> Cardinality(Types(b, Neighbors(fox)))
    [] card = "B" -> Entry(<<0, 3, 5, 7>>, Doubled(b, Neighbors(fox)))
    [] card = "C" -> Max({Count(b, Neighbors(fox), s) : s \in Others})

ScoreFoxes(b, card) ==
  LET foxes == Positions(b, "fox")
  IN IF card = "D" THEN MaximumWeightMatching(foxes, FoxEdges(b, foxes))
     ELSE SumFunction([fox \in foxes |-> ScoreFox(b, fox, card)])

ScoreWildlife(b, card, s) ==
  CASE s = "bear" -> ScoreBears(Positions(b, "bear"), card)
    [] s = "elk" -> ScoreElk(Positions(b, "elk"), card)
    [] s = "salmon" -> ScoreSalmon(b, card)
    [] s = "hawk" -> ScoreHawks(b, card)
    [] s = "fox" -> ScoreFoxes(b, card)

ScoreBoard(b, ruleset) == [s \in Species |-> ScoreWildlife(b, ruleset[s], s)]

-----------------------------------------------------------------------------
(* Placements.                                                              *)

Placed(b, c, s) == [x \in DOMAIN b \cup {c} |-> IF x = c THEN s ELSE b[x]]

\* Wrong: a token that comes between two hawks leaves their score alone.
RescorePlacedAndFoxes(b, ruleset, baseline, placed) ==
  [s \in Species |->
     IF s \in {placed, "fox"} THEN ScoreWildlife(b, ruleset[s], s) ELSE baseline[s]]

\* What sees other species is scored again with the species placed.
Rescore(b, ruleset, baseline, placed) ==
  [s \in Species |->
     IF s \in {placed, "fox"} \/ (s \in {"salmon", "hawk"} /\ ruleset[s] = "D")
     THEN ScoreWildlife(b, ruleset[s], s)
     ELSE baseline[s]]

ScoringInit ==
  /\ board = << >>
  /\ cards \in Rulesets
  /\ score = ScoreBoard(board, cards)

PlaceWildlife(c, s) ==
  /\ c \notin DOMAIN board
  /\ Cardinality(DOMAIN board) < TokenCount
  /\ Cardinality(Positions(board, s)) < CountCap
  /\ \E palette \in Palettes : Types(board, DOMAIN board) \cup {s} \subseteq palette
  /\ board' = Placed(board, c, s)
  /\ score' = Rescore(board', cards, score, s)
  /\ UNCHANGED cards

ScoringNext == \E c \in Cells, s \in Species : PlaceWildlife(c, s)

ScoringSpec == ScoringInit /\ [][ScoringNext]_scoringVars

-----------------------------------------------------------------------------
(* Properties.                                                              *)

\* The score that is kept from placement to placement is the board's score,
\* though only some species are scored again.
ScoreExact == score = ScoreBoard(board, cards)
=============================================================================
