---------------------------- MODULE WildlifeRules ---------------------------
(***************************************************************************)
(* tools/all_wildlife_rules.py: what is known of a score from the counts   *)
(* of the species alone.  The exact solver searches only what these bounds *)
(* and domains leave, so each must hold for every board.  The search for   *)
(* candidates, all_wildlife_candidates.rs, has bounds of its own, that     *)
(* differ for two cards of the fox.  Lines of sight are computed a second  *)
(* time, from the coordinates of two hawks.                                *)
(*                                                                         *)
(* n is a count vector: how many tokens of each species a complete board   *)
(* has.  A dynamic program that maximizes over a finite set of choices is  *)
(* given by that set.                                                      *)
(***************************************************************************)
EXTENDS WildlifeScoring

Least(i, j) == IF i < j THEN i ELSE j
SumOver(S, f(_)) == SumFunction([x \in S |-> f(x)])

CountVectors ==
  {n \in [Species -> 0..CountCap] :
     /\ SumOver(Species, LAMBDA s : n[s]) = TokenCount
     /\ \E palette \in Palettes : {s \in Species : n[s] > 0} \subseteq palette}

Present(n, S, least) == Cardinality({s \in S : n[s] >= least})

-----------------------------------------------------------------------------
(* Upper bounds of each species by itself.                                  *)

PartitionUpper(count, table) ==
  LET best[used \in 0..count] ==
        IF used = 0 THEN 0
        ELSE Max({best[used - 1]} \cup
                 {table[size + 1] + best[used - size] : size \in 1..Least(used, Len(table) - 1)})
  IN best[count]

StandaloneBear(count, card) ==
  CASE card = "A" -> <<0, 0, 4, 4, 11, 11, 19>>[count + 1]
    [] card = "B" -> 10 * (count \div 3)
    [] card = "C" -> <<0, 2, 5, 8, 10, 13, 18>>[count + 1]
    [] card = "D" -> PartitionUpper(count, <<0, 0, 5, 8, 13>>)

StandaloneElk(count, card) ==
  CASE card \in {"A", "B"} -> PartitionUpper(count, <<0, 2, 5, 9, 13>>)
    [] card = "C" -> <<0, 2, 4, 7, 10, 14, 18>>[count + 1]
    [] card = "D" -> <<0, 2, 5, 8, 12, 16, 21>>[count + 1]

\* A run of this size has no more neighbors.
RunCapacity(size, others) == Least(others, 2 * size + 4)

SalmonTable(card) ==
  CASE card = "A" -> <<0, 2, 5, 8, 12, 16, 20>>
    [] card = "B" -> <<0, 2, 4, 9, 11, 17, 17>>
    [] card = "C" -> <<0, 0, 0, 10, 12, 15, 15>>

StandaloneSalmon(count, card, others) ==
  IF card = "D"
  THEN PartitionUpper(count, [i \in 1..(count + 1) |->
                                IF i <= 3 THEN 0 ELSE i - 1 + RunCapacity(i - 1, others)])
  ELSE PartitionUpper(count, SalmonTable(card))

SeenPairs == <<0, 0, 1, 3, 5, 7, 9>>

HawkUpper(n, card) ==
  CASE card \in {"A", "B"} -> HawkTable(card)[n["hawk"] + 1]
    [] card = "C" -> 3 * SeenPairs[n["hawk"] + 1]
    [] card = "D" -> (n["hawk"] \div 2) * Entry(<<0, 4, 7, 9>>, Present(n, Species \ {"hawk"}, 1))

-----------------------------------------------------------------------------
(* The fox.                                                                 *)

\* The most edges between two sets of cells.
BipartiteHexEdgeUpper ==
  [left \in 0..6 |-> [right \in 0..6 |->
  << <<0, 0, 0, 0, 0, 0, 0>>,
     <<0, 1, 2, 3, 4, 5, 6>>,
     <<0, 2, 4, 5, 6, 7, 8>>,
     <<0, 3, 5, 7, 9, 10, 11>>,
     <<0, 4, 6, 9, 10, 12, 14>>,
     <<0, 5, 7, 10, 12, 14, 15>>,
     <<0, 6, 8, 11, 14, 15, 17>> >>[left + 1][right + 1]]]

\* Of the candidate search: by planarity.
BipartitePlanarUpper ==
  [left \in 0..6 |-> [right \in 0..6 |->
     IF left = 0 \/ right = 0 THEN 0
     ELSE Min({left * right, 6 * left, 6 * right,
               IF left + right = 2 THEN 1 ELSE 2 * (left + right) - 4})]]

\* Each fox is assigned to the species it counts.
FoxCUpper(n, edges) ==
  Max({SumOver(Others, LAMBDA s : edges[a[s]][n[s]]) :
         a \in {f \in [Others -> 0..n["fox"]] : SumOver(Others, LAMBDA s : f[s]) <= n["fox"]}})

\* How many foxes can have two neighbors among so many tokens.
FoxBQualifications ==
  [foxes \in 0..6 |-> [target \in 0..6 |->
  << <<0, 0, 0, 0, 0, 0, 0>>,
     <<0, 0, 1, 1, 1, 1, 1>>,
     <<0, 0, 2, 2, 2, 2, 2>>,
     <<0, 0, 2, 3, 3, 3, 3>>,
     <<0, 0, 2, 4, 4, 4, 4>>,
     <<0, 0, 2, 4, 5, 5, 5>>,
     <<0, 0, 2, 4, 6, 6, 6>> >>[foxes + 1][target + 1]]]

\* Of the candidate search: two cells have at most two common neighbors.
FoxBCommonNeighbors ==
  [foxes \in 0..6 |-> [target \in 0..6 |-> IF target >= 2 THEN Least(foxes, target * (target - 1)) ELSE 0]]

\* Neighbors, one in each of two sets of cells.
Touching(A, B) == {p \in A \X B : p[2] \in Neighbors(p[1])}

\* What the code takes on trust: both tables hold maxima of the lattice, the
\* first found by tools/derive_hex_bipartite_edge_bounds.py. No two sets of
\* cells have more edges between them, and in none do more cells have two
\* neighbors in the other. TLC evaluates this for the cells of every run.
ASSUME LatticeAssumption ==
  /\ CountCap <= 6
  /\ \A A, B \in {S \in SUBSET Cells : Cardinality(S) <= CountCap} : A \cap B = {} =>
       /\ Cardinality(Touching(A, B)) <= BipartiteHexEdgeUpper[Cardinality(A)][Cardinality(B)]
       /\ Cardinality({c \in A : Cardinality(Neighbors(c) \cap B) >= 2})
            <= FoxBQualifications[Cardinality(A)][Cardinality(B)]

\* How many species each fox may have doubled: <<sum, score>> of every choice.
FoxBChoices(n, limit) ==
  LET most == SumOver(Others, LAMBDA s : limit[n["fox"]][n[s]])
      types == 0..Least(3, Present(n, Others, 2))
      reached[i \in 0..n["fox"]] ==
        IF i = 0 THEN {<<0, 0>>}
        ELSE {x \in {<<y[1] + t, y[2] + Entry(<<0, 3, 5, 7>>, t)>> : y \in reached[i - 1], t \in types} :
                x[1] <= most}
  IN reached[n["fox"]]

FoxBUpper(n, limit) == Max({x[2] : x \in FoxBChoices(n, limit)})

\* Wrong: two species are seen together by one fox for each pair of tokens.
OneSight(n, T) == Least(n["fox"], FoldSet(LAMBDA s, c : c * n[s], 1, T))

\* How many foxes can see all the species of T: two tokens have two common
\* neighbors, more have one.
Sight(n, T) ==
  Least(n["fox"], FoldSet(LAMBDA s, c : c * n[s], IF Cardinality(T) = 2 THEN 2 ELSE 1, T))

\* The species each fox sees, as a number of foxes for every set of species.
FoxAUpper(n) ==
  LET views == SUBSET Others
      fits(o) == \A T \in views : Cardinality(T) >= 2 =>
                   SumOver({m \in views : T \subseteq m}, LAMBDA m : o[m]) <= Sight(n, T)
      observed[i \in 0..n["fox"]] ==
        IF i = 0 THEN {[m \in views |-> 0]}
        ELSE {o \in {[p EXCEPT ![m] = @ + 1] : p \in observed[i - 1], m \in views} : fits(o)}
  IN Max({SumOver(views, LAMBDA m : o[m] * Cardinality(m)) : o \in observed[n["fox"]]})
     + (IF n["fox"] >= 2 THEN n["fox"] ELSE 0)

FoxDUpper(n) == (n["fox"] \div 2) * Entry(<<0, 5, 7, 9, 11>>, Present(n, Others, 2))

-----------------------------------------------------------------------------
(* The bounds of a count vector.                                            *)

StandaloneUpper(n, ruleset) ==
  StandaloneBear(n["bear"], ruleset["bear"]) + StandaloneElk(n["elk"], ruleset["elk"])
  + StandaloneSalmon(n["salmon"], ruleset["salmon"], TokenCount - n["salmon"])
  + HawkUpper(n, ruleset["hawk"])

\* count_upper of all_wildlife_rules.py,
CountUpper(n, ruleset) ==
  StandaloneUpper(n, ruleset) +
  CASE ruleset["fox"] = "A" -> FoxAUpper(n)
    [] ruleset["fox"] = "B" -> FoxBUpper(n, FoxBQualifications)
    [] ruleset["fox"] = "C" -> FoxCUpper(n, BipartiteHexEdgeUpper)
    [] ruleset["fox"] = "D" -> FoxDUpper(n)

\* and of the candidate search.
CandidateUpper(n, ruleset) ==
  StandaloneUpper(n, ruleset) +
  CASE ruleset["fox"] = "A" -> FoxAUpper(n)
    [] ruleset["fox"] = "B" -> FoxBUpper(n, FoxBCommonNeighbors)
    [] ruleset["fox"] = "C" -> FoxCUpper(n, BipartitePlanarUpper)
    [] ruleset["fox"] = "D" -> FoxDUpper(n)
=============================================================================
