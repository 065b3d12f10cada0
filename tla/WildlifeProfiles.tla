-------------------------- MODULE WildlifeProfiles --------------------------
(***************************************************************************)
(* The second half of tools/all_wildlife_rules.py: the bound that couples  *)
(* the species by the edges they share, the scores a species can have, and *)
(* what all of these promise.                                              *)
(*                                                                         *)
(* A profile is <<score, same, cross>>: a score, the fewest edges within   *)
(* the species it takes, and the fewest to other species.                  *)
(***************************************************************************)
EXTENDS WildlifeRules

\* Profiles that no other betters in all three.
Efficient(profiles) ==
  {p \in profiles :
     ~\E o \in profiles \ {p} : o[1] >= p[1] /\ o[2] <= p[2] /\ o[3] <= p[3]}

\* All sums of triples <<size, a, b>> over disjoint groups of count tokens,
\* as <<tokens used, a, b>>.
GroupSums(count, groups) ==
  LET sums[used \in 0..count] ==
        IF used = 0 THEN {<<0, 0, 0>>}
        ELSE UNION {{<<used, x[2] + g[2], x[3] + g[3]>> : x \in sums[used - g[1]]} :
                      g \in {h \in groups : h[1] <= used}}
  IN UNION {sums[used] : used \in 0..count}

\* Groups of each size that has a score, and the edges they take.
Groups(table, edges) ==
  {<<size, table[size + 1], edges[size]>> : size \in {k \in 1..(Len(table) - 1) : table[k + 1] > 0}}

Profiles(count, groups) == Efficient({<<x[2], x[3], 0>> : x \in GroupSums(count, groups)})

Chain == [size \in 1..6 |-> size - 1]

\* Singles, pairs and triples of bears.
BearSets(count) ==
  {x \in (0..count) \X (0..(count \div 2)) \X (0..(count \div 3)) :
     x[1] + 2 * x[2] + 3 * x[3] <= count}
BearSetScore(x) ==
  2 * x[1] + 5 * x[2] + 8 * x[3] + (IF \A i \in 1..3 : x[i] > 0 THEN 3 ELSE 0)

BearTable(card) == IF card = "B" THEN <<0, 0, 0, 10>> ELSE <<0, 0, 5, 8, 13>>

BearProfiles(count, card) ==
  CASE card = "A" -> {<<Entry(<<0, 4, 11, 19, 27>>, i), i, 0>> : i \in 0..(count \div 2)}
    [] card = "C" -> Efficient({<<BearSetScore(x), x[2] + 2 * x[3], 0>> : x \in BearSets(count)})
    [] OTHER -> Profiles(count, Groups(BearTable(card), Chain))

ElkEdges(card) ==
  CASE card \in {"A", "C"} -> Chain
    [] card = "B" -> <<0, 1, 3, 5>>
    [] card = "D" -> <<0, 0, 0, 2, 4, 6>>

ElkSizes(card) == IF card \in {"C", "D"} THEN SubSeq(ElkTable(card), 1, 7) ELSE ElkTable(card)
ElkProfiles(count, card) ==
  Profiles(count, Groups(ElkSizes(card), ElkEdges(card)))

\* Runs of salmon as <<size, neighbors they may have, edges>>.
RunGroups(count, others) == {<<k, RunCapacity(k, others), k - 1>> : k \in 3..count}

SalmonProfiles(count, card) ==
  IF card = "D"
  THEN Efficient(UNION {{<<x[1] + bonus, x[3], bonus>> : bonus \in 0..x[2]} :
                          x \in GroupSums(count, RunGroups(count, TokenCount - count))})
  ELSE Profiles(count, Groups(SalmonTable(card), Chain))

FoxProfiles(n, card) ==
  CASE card = "A" ->
         LET upper == FoxAUpper(n)
             internal == IF n["fox"] >= 2 THEN n["fox"] ELSE 0
         IN Efficient({<<x[1] + x[2], (x[1] + 1) \div 2, x[2]>> :
              x \in {y \in (0..internal) \X (0..(upper - internal)) : y[1] + y[2] <= upper}})
    [] card = "B" ->
         Efficient({<<x[2], 0, 2 * x[1]>> : x \in FoxBChoices(n, FoxBQualifications)})
    [] card = "C" -> {<<i, 0, i>> : i \in 0..FoxCUpper(n, BipartiteHexEdgeUpper)}
    [] card = "D" ->
         Efficient({<<x[2], x[1] \div 2, x[3]>> :
           x \in GroupSums(2 * (n["fox"] \div 2),
                   {<<2, <<5, 7, 9, 11>>[t], 2 * t>> : t \in 1..Present(n, Others, 2)})})

-----------------------------------------------------------------------------
(* The coupled bound: the edges all profiles ask for fit around the tokens. *)

Middle == {"bear", "elk", "hawk"}

\* How salmon and foxes can share the edges of the middle species.
EdgeShares(n, residual, salmon, fox) ==
  LET cap(s, t) == Least(BipartiteHexEdgeUpper[n[s]][n[t]], residual[t])
  IN FoldSet(LAMBDA t, used :
               {<<x[1][1] + x[2], x[1][2] + x[3]>> :
                  x \in {y \in used \X (0..cap("salmon", t)) \X (0..cap("fox", t)) :
                           /\ y[2] + y[3] <= residual[t]
                           /\ y[1][1] + y[2] <= salmon
                           /\ y[1][2] + y[3] <= fox}},
             {<<0, 0>>}, Middle)

CrossDemandsFeasible(n, same, salmonDemand, foxDemand) ==
  LET residual == [s \in Species |-> 6 * n[s] - 2 * same[s]]
      shared == Min({BipartiteHexEdgeUpper[n["salmon"]][n["fox"]], residual["salmon"], residual["fox"]})
  IN /\ \A s \in Species : residual[s] >= 0
     /\ \E between \in 0..shared :
          LET salmon == Max({0, salmonDemand - between})
              fox == Max({0, foxDemand - between})
          IN /\ between + salmon <= residual["salmon"]
             /\ between + fox <= residual["fox"]
             /\ <<salmon, fox>> \in EdgeShares(n, residual, salmon, fox)

SameSpeciesFits(p, count) == p[2] <= SeenPairs[count + 1]

CoupledCountUpper(n, ruleset) ==
  LET fitting(profiles, s) == {p \in profiles : SameSpeciesFits(p, n[s])}
      choices == fitting(BearProfiles(n["bear"], ruleset["bear"]), "bear")
                 \X fitting(ElkProfiles(n["elk"], ruleset["elk"]), "elk")
                 \X fitting(SalmonProfiles(n["salmon"], ruleset["salmon"]), "salmon")
                 \X fitting(FoxProfiles(n, ruleset["fox"]), "fox")
      edges(x) == [bear |-> x[1][2], elk |-> x[2][2], salmon |-> x[3][2], hawk |-> 0, fox |-> x[4][2]]
      feasible == {x \in choices : CrossDemandsFeasible(n, edges(x), x[3][3], x[4][3])}
  IN Max({0} \cup {x[1][1] + x[2][1] + x[3][1] + x[4][1] + HawkUpper(n, ruleset["hawk"]) : x \in feasible})

-----------------------------------------------------------------------------
(* The scores a species can have.                                           *)

Sums(count, groups) == {x[2] : x \in GroupSums(count, groups)}

BearScoreDomain(count, card) ==
  CASE card = "A" -> {Entry(<<0, 4, 11, 19, 27>>, i) : i \in 0..(count \div 2)}
    [] card = "C" -> UNION {{2 * x[1] + 5 * x[2] + 8 * x[3], BearSetScore(x)} : x \in BearSets(count)}
    [] OTHER -> Sums(count, Groups(BearTable(card), Chain))

SalmonScoreDomain(count, card) ==
  IF card = "D"
  THEN UNION {{x[1] + bonus : bonus \in 0..x[2]} :
                x \in GroupSums(count, RunGroups(count, TokenCount - count))}
  ELSE Sums(count, Groups(SalmonTable(card), Chain))

HawkScoreDomain(n, card) ==
  CASE card \in {"A", "B"} -> {HawkTable(card)[i + 1] : i \in 0..n["hawk"]}
    [] card = "C" -> {3 * i : i \in 0..SeenPairs[n["hawk"] + 1]}
    [] card = "D" -> Sums(n["hawk"], {<<2, <<4, 7, 9>>[i], 0>> :
                                        i \in 1..Least(3, Present(n, Species \ {"hawk"}, 1))})

FoxScoreDomain(n, card) ==
  CASE card = "A" -> 0..FoxAUpper(n)
    [] card = "B" -> Sums(n["fox"], {<<1, <<3, 5, 7>>[i], 0>> : i \in 1..Least(3, Present(n, Others, 2))})
    [] card = "C" -> 0..FoxCUpper(n, BipartiteHexEdgeUpper)
    [] card = "D" -> Sums(n["fox"], {<<2, <<5, 7, 9, 11>>[i], 0>> : i \in 1..Present(n, Others, 2)})

CountScoreDomains(n, ruleset) ==
  [bear |-> BearScoreDomain(n["bear"], ruleset["bear"]),
   elk |-> Sums(n["elk"], Groups(ElkSizes(ruleset["elk"]), Chain)),
   salmon |-> SalmonScoreDomain(n["salmon"], ruleset["salmon"]),
   hawk |-> HawkScoreDomain(n, ruleset["hawk"]),
   fox |-> FoxScoreDomain(n, ruleset["fox"])]

-----------------------------------------------------------------------------
(* Properties.                                                              *)

\* _ray_between: the cells strictly between two cells in line.  A step is one
\* cell, so that a difference divided by it is the difference times it.
RayBetween(left, right) ==
  LET dq == right[1] - left[1]
      dr == right[2] - left[2]
      distance(d) == IF d[1] # 0 THEN dq * d[1] ELSE dr * d[2]
      along == {d \in Directions :
                  /\ distance(d) > 1
                  /\ dq = distance(d) * d[1] /\ dr = distance(d) * d[2]}
  IN {Line(left, d, distance(d)) \ {left} : d \in along}

HawkLines(hawks) ==
  UNION {{[ends |-> {x[1], x[2]}, between |-> cells] :
            cells \in {B \in RayBetween(x[1], x[2]) : B \cap hawks = {}}} : x \in hawks \X hawks}

\* The best of all ways to put tokens into groups.
BestPacking(C, groups) ==
  LET parts(f) == {{c \in C : f[c] = x} : x \in {f[c] : c \in C}}
      scores(T) == {g[2] : g \in {h \in groups : h[1] = T}}
      packings == {f \in [C -> C] : \A T \in parts(f) : scores(T) # {}}
  IN Max({SumOver(parts(f), LAMBDA T : Max(scores(T))) : f \in packings})

Alone(C) == {<<{c}, 0>> : c \in C}

\* The dynamic programs, which always decide about one token first, find the
\* best grouping there is, and both programs see the same lines of sight.
ScoresOptimal ==
  LET hawks == Positions(board, "hawk")
      foxes == Positions(board, "fox")
      elk == Positions(board, "elk")
  IN /\ score["elk"] = BestPacking(elk, ElkGroups(elk, cards["elk"]))
     /\ LinesOfSight(hawks) = HawkLines(hawks)
     /\ cards["hawk"] = "D" =>
          score["hawk"] = BestPacking(hawks, HawkEdges(board, hawks) \cup Alone(hawks))
     /\ cards["fox"] = "D" =>
          score["fox"] = BestPacking(foxes, FoxEdges(board, foxes) \cup Alone(foxes))

Bounds ==
  {[ruleset |-> r, counts |-> n,
    upper |-> Min({CountUpper(n, r), CandidateUpper(n, r), CoupledCountUpper(n, r)}),
    domains |-> CountScoreDomains(n, r)] : r \in Rulesets, n \in CountVectors}

\* What is known from the counts holds of every complete board: no bound is
\* below a score, and no species has a score outside its domain.
BoundsSound ==
  LET n == [s \in Species |-> Cardinality(Positions(board, s))]
      total == SumOver(Species, LAMBDA s : score[s])
      bounds == CHOOSE b \in Bounds : b.ruleset = cards /\ b.counts = n
  IN Cardinality(DOMAIN board) = TokenCount =>
       /\ total <= bounds.upper
       /\ \A s \in Species : score[s] \in bounds.domains[s]
=============================================================================
