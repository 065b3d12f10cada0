--------------------------- MODULE ScoringProofs ----------------------------
(***************************************************************************)
(* Theorems about WildlifeScoring and WildlifeProfiles, for every patch of *)
(* cells and every ruleset:                                                *)
(*   - the score that is kept is exact: what a placement does not score    *)
(*     again cannot have changed;                                          *)
(*   - the searches that decide about one token after the other find the   *)
(*     best grouping there is, and two ways to see a line of sight agree;  *)
(*   - of each species, what a board scores is in the domain of its card,  *)
(*     below its upper bound and offered by a profile that needs no more   *)
(*     edges than the board has (BearsAre, ElkAre, SalmonAre, HawksAre and *)
(*     FoxesAre): cells of the lattice share few neighbors, rows and edges,*)
(*     and every search of the bounds reaches what is on the board.        *)
(***************************************************************************)
EXTENDS WildlifeProfiles, SequenceLemmas

-----------------------------------------------------------------------------
(* The components of a graph, whatever order they are found in.             *)

Closed(A, K, E) == \A x \in A, y \in K : <<x, y>> \in E => y \in A
Symmetric(E) == \A x, y : <<x, y>> \in E => <<y, x>> \in E
Connected(K, E) == \A A \in SUBSET K : A # {} /\ Closed(A, K, E) => A = K

\* P divides V into connected sets that no edge joins.
IsComponents(P, V, E) ==
  /\ UNION P = V
  /\ \A K \in P : K # {} /\ Closed(K, V, E) /\ Connected(K, E)
  /\ \A K, L \in P : K # L => K \cap L = {}

\* A part of one division is a part of any other.
LEMMA ComponentsInside ==
  ASSUME NEW P, NEW Q, NEW V, NEW E, IsComponents(P, V, E), IsComponents(Q, V, E), NEW K \in P
  PROVE  K \in Q
<1>1. PICK x \in K : TRUE
  BY DEF IsComponents
<1>2. PICK L \in Q : x \in L
  BY <1>1 DEF IsComponents
<1>3. K \subseteq V /\ L \subseteq V /\ Closed(K, V, E) /\ Closed(L, V, E) /\ Connected(K, E) /\ Connected(L, E)
  BY <1>2 DEF IsComponents
<1> DEFINE A == K \cap L
<1>4. A # {}
  BY <1>1, <1>2
<1>5. Closed(A, K, E) /\ Closed(A, L, E)
  BY <1>3 DEF Closed
<1>6. A = K /\ A = L
  BY <1>3, <1>4, <1>5 DEF Connected
<1> QED BY <1>2, <1>6

\* So there is only one.
LEMMA ComponentsUnique ==
  ASSUME NEW P, NEW Q, NEW V, NEW E, IsComponents(P, V, E), IsComponents(Q, V, E)
  PROVE  P = Q
<1>1. \A K \in P : K \in Q
  BY ComponentsInside
<1>2. \A K \in Q : K \in P
  BY ComponentsInside
<1> QED BY <1>1, <1>2

\* Edges that lead elsewhere do not matter.
LEMMA ComponentsWithin ==
  ASSUME NEW P, NEW V, NEW E, NEW F, IsComponents(P, V, E),
         \A x, y \in V : <<x, y>> \in E <=> <<x, y>> \in F
  PROVE  IsComponents(P, V, F)
<1>1. UNION P = V /\ \A K, L \in P : K # L => K \cap L = {}
  BY DEF IsComponents
<1>2. ASSUME NEW K \in P PROVE K # {} /\ Closed(K, V, F) /\ Connected(K, F)
  <2>1. K \subseteq V
    BY <1>1
  <2>2. K # {} /\ Closed(K, V, E) /\ Connected(K, E)
    BY DEF IsComponents
  <2>3. Closed(K, V, F)
    BY <2>1, <2>2 DEF Closed
  <2>4. ASSUME NEW A \in SUBSET K, A # {}, Closed(A, K, F) PROVE A = K
    <3>1. Closed(A, K, E)
      BY <2>1, <2>4 DEF Closed
    <3> QED BY <2>2, <2>4, <3>1 DEF Connected
  <2> QED BY <2>2, <2>3, <2>4 DEF Connected
<1> QED BY <1>1, <1>2 DEF IsComponents

\* A further point joins the components it touches.
Touched(P, c, E) == {K \in P : \E y \in K : <<c, y>> \in E}
JoinedBy(P, c, E) == (P \ Touched(P, c, E)) \cup {(UNION Touched(P, c, E)) \cup {c}}

\* What is in a joined component.
LEMMA JoinMembers ==
  ASSUME NEW T, NEW c
  PROVE  \A x : x \in (UNION T) \cup {c} <=> x = c \/ \E K \in T : x \in K
<1> SUFFICES ASSUME NEW x PROVE x \in (UNION T) \cup {c} <=> x = c \/ \E K \in T : x \in K
  OBVIOUS
<1>1. x \in UNION T <=> \E K \in T : x \in K
  OBVIOUS
<1> QED BY <1>1

\* With a further point, the components are those that it does not touch, and one of it
\* and all that it touches.
LEMMA JoinedIs ==
  ASSUME NEW P, NEW V, NEW E, NEW c, IsComponents(P, V, E), c \notin V, Symmetric(E)
  PROVE  IsComponents(JoinedBy(P, c, E), V \cup {c}, E)
<1> DEFINE T == Touched(P, c, E)
           M == (UNION T) \cup {c}
           Q == JoinedBy(P, c, E)
           W == V \cup {c}
<1>0. /\ \A K, L \in P : K # L => K \cap L = {}
      /\ \A K \in P : K # {} /\ Closed(K, V, E) /\ Connected(K, E)
  BY DEF IsComponents
<1>v. \A x : x \in V <=> \E K \in P : x \in K
  BY DEF IsComponents
<1>1. T \subseteq P /\ Q = (P \ T) \cup {M} /\ \A K \in P : K \in T <=> \E y \in K : <<c, y>> \in E
  BY DEF Touched, JoinedBy
<1> HIDE DEF T, Q
<1>w. \A x : x \in W <=> x \in V \/ x = c
  OBVIOUS
<1>m. \A x : x \in M <=> x = c \/ \E K \in T : x \in K
  BY JoinMembers
<1> HIDE DEF W, M
<1>2. UNION Q = W
  <2>1. ASSUME NEW x \in W PROVE \E K \in Q : x \in K
    BY <1>1, <1>v, <1>w, <1>m
  <2>2. ASSUME NEW K \in Q, NEW x \in K PROVE x \in W
    BY <1>1, <1>v, <1>w, <1>m
  <2> QED BY <2>1, <2>2
<1>3. ASSUME NEW K \in P \ T PROVE K # {} /\ Closed(K, W, E) /\ Connected(K, E) /\ K \cap M = {}
  <2>1. ASSUME NEW x \in K, NEW y \in W, <<x, y>> \in E PROVE y \in K
    <3>1. <<y, x>> \in E
      BY <2>1 DEF Symmetric
    <3>2. y # c
      BY <1>1, <3>1
    <3>3. y \in V
      BY <1>w, <3>2
    <3> QED BY <1>0, <2>1, <3>3 DEF Closed
  <2>2. K \cap M = {}
    <3>1. c \notin K
      BY <1>v
    <3>2. \A L \in T : K \cap L = {}
      BY <1>0, <1>1
    <3> QED BY <1>m, <3>1, <3>2
  <2> QED BY <1>0, <2>1, <2>2 DEF Closed
<1>4. c \in M /\ c \in W
  BY <1>m, <1>w
<1>5. Closed(M, W, E)
  <2>1. ASSUME NEW x \in M, NEW y \in W, <<x, y>> \in E, y # c PROVE y \in M
    <3>0. y \in V
      BY <1>w, <2>1
    <3>1. PICK L \in P : y \in L
      BY <1>v, <3>0
    <3>2. CASE x = c
      <4>1. L \in T
        BY <1>1, <2>1, <3>1, <3>2
      <4> QED BY <1>m, <3>1, <4>1
    <3>3. CASE x # c
      <4>1. PICK K \in T : x \in K
        BY <1>m, <3>3
      <4>2. K \in P /\ Closed(K, V, E)
        BY <1>0, <1>1, <4>1
      <4>3. y \in K
        BY <2>1, <3>0, <4>1, <4>2 DEF Closed
      <4> QED BY <1>m, <4>1, <4>3
    <3> QED BY <3>2, <3>3
  <2> QED BY <1>4, <2>1 DEF Closed
<1>6. Connected(M, E)
  <2> SUFFICES ASSUME NEW A \in SUBSET M, A # {}, Closed(A, M, E) PROVE A = M
    BY DEF Connected
  <2>1. ASSUME NEW K \in T, NEW z \in K, z \in A PROVE K \subseteq A
    <3> DEFINE B == A \cap K
    <3>1. B \in SUBSET K /\ B # {} /\ \A x \in K : x \in M
      BY <1>m, <2>1
    <3>2. Closed(B, K, E)
      BY <3>1 DEF Closed
    <3>3. B = K
      <4> HIDE DEF B
      <4>1. Connected(K, E)
        BY <1>0, <1>1
      <4> QED BY <3>1, <3>2, <4>1 DEF Connected
    <3> QED BY <3>3
  <2>2. c \in A
    <3>1. PICK x \in A : TRUE
      OBVIOUS
    <3>2. CASE x # c
      <4>1. PICK K \in T : x \in K
        BY <1>m, <3>1, <3>2
      <4>2. PICK y \in K : <<c, y>> \in E
        BY <1>1, <4>1
      <4>3. y \in A
        BY <2>1, <4>1
      <4>4. <<y, c>> \in E
        BY <4>2 DEF Symmetric
      <4> QED BY <1>4, <4>3, <4>4 DEF Closed
    <3> QED BY <3>1, <3>2
  <2>3. ASSUME NEW K \in T PROVE K \subseteq A
    <3>1. PICK y \in K : <<c, y>> \in E
      BY <1>1
    <3>2. y \in M
      BY <1>m
    <3>3. y \in A
      BY <2>2, <3>1, <3>2 DEF Closed
    <3> QED BY <2>1, <3>3
  <2>4. \A x \in M : x \in A
    BY <1>m, <2>2, <2>3
  <2> QED BY <2>4
<1>7. ASSUME NEW K \in Q PROVE K # {} /\ Closed(K, W, E) /\ Connected(K, E)
  <2>1. CASE K = M
    BY <1>4, <1>5, <1>6, <2>1
  <2>2. CASE K \in P \ T
    BY <1>3, <2>2
  <2> QED BY <1>1, <2>1, <2>2
<1>8. ASSUME NEW K \in Q, NEW L \in Q, K # L PROVE K \cap L = {}
  <2>1. CASE K = M
    BY <1>1, <1>3, <1>8, <2>1
  <2>2. CASE L = M
    BY <1>1, <1>3, <1>8, <2>2
  <2>3. CASE K # M /\ L # M
    BY <1>0, <1>1, <1>8, <2>3
  <2> QED BY <2>1, <2>2, <2>3
<1>9. IsComponents(Q, W, E)
  BY <1>2, <1>7, <1>8 DEF IsComponents
<1> QED BY <1>9 DEF Q, W

\* Where a map takes a set.
Taken(f, K) == {f[x] : x \in K}

\* The components of a graph whose points are moved, no two to one place.
LEMMA ComponentsMoved ==
  ASSUME NEW P, NEW V, NEW E, IsComponents(P, V, E), NEW f, NEW F,
         \A x, y \in V : f[x] = f[y] => x = y,
         \A x, y \in V : <<f[x], f[y]>> \in F <=> <<x, y>> \in E
  PROVE  IsComponents({Taken(f, K) : K \in P}, Taken(f, V), F)
<1> DEFINE Q == {Taken(f, K) : K \in P}
<1>1. /\ UNION P = V
      /\ \A K \in P : K # {} /\ Closed(K, V, E) /\ Connected(K, E)
      /\ \A K, L \in P : K # L => K \cap L = {}
  BY DEF IsComponents
<1>2. \A K \in P : K \subseteq V
  BY <1>1
<1>3. \A K, y : y \in Taken(f, K) <=> \E x \in K : y = f[x]
  BY DEF Taken
<1>4. \A L : L \in Q <=> \E K \in P : L = Taken(f, K)
  OBVIOUS
<1> HIDE DEF Q
<1>5. UNION Q = Taken(f, V)
  <2>1. ASSUME NEW y \in UNION Q PROVE y \in Taken(f, V)
    BY <1>2, <1>3, <1>4
  <2>2. ASSUME NEW y \in Taken(f, V) PROVE y \in UNION Q
    <3>1. PICK x \in V : y = f[x]
      BY <1>3
    <3>2. PICK K \in P : x \in K
      BY <1>1
    <3>3. y \in Taken(f, K) /\ Taken(f, K) \in Q
      BY <1>3, <1>4, <3>1, <3>2
    <3> QED BY <3>3
  <2> QED BY <2>1, <2>2
<1>6. ASSUME NEW L \in Q PROVE L # {} /\ Closed(L, Taken(f, V), F) /\ Connected(L, F)
  <2>1. PICK K \in P : L = Taken(f, K)
    BY <1>4
  <2>2. K \subseteq V /\ K # {} /\ Closed(K, V, E) /\ Connected(K, E)
    BY <1>1, <1>2
  <2>3. L # {}
    BY <1>3, <2>1, <2>2
  <2>4. ASSUME NEW u \in L, NEW v \in Taken(f, V), <<u, v>> \in F PROVE v \in L
    <3>1. PICK x \in K : u = f[x]
      BY <1>3, <2>1
    <3>2. PICK y \in V : v = f[y]
      BY <1>3
    <3>3. <<x, y>> \in E
      BY <2>2, <2>4, <3>1, <3>2
    <3>4. y \in K
      BY <2>2, <3>3 DEF Closed
    <3> QED BY <1>3, <2>1, <3>2, <3>4
  <2>5. ASSUME NEW A \in SUBSET L, A # {}, Closed(A, L, F) PROVE A = L
    <3> DEFINE B == {x \in K : f[x] \in A}
    <3>1. B # {}
      <4>1. PICK u \in A : u \in L
        BY <2>5
      <4>2. PICK x \in K : u = f[x]
        BY <1>3, <2>1, <4>1
      <4> QED BY <4>1, <4>2
    <3>2. ASSUME NEW x \in B, NEW y \in K, <<x, y>> \in E PROVE y \in B
      <4>1. f[x] \in A /\ f[y] \in L /\ x \in V /\ y \in V
        BY <1>3, <2>1, <2>2
      <4>2. <<f[x], f[y]>> \in F
        BY <3>2, <4>1
      <4>3. f[y] \in A
        BY <2>5, <4>1, <4>2 DEF Closed
      <4> QED BY <4>3
    <3>3. B \in SUBSET K
      OBVIOUS
    <3>4. B = K
      <4> HIDE DEF B
      <4>1. Closed(B, K, E)
        BY <3>2 DEF Closed
      <4> QED BY <2>2, <3>1, <3>3, <4>1 DEF Connected
    <3>5. \A x \in K : f[x] \in A
      BY <3>4
    <3>6. \A u \in L : u \in A
      BY <1>3, <2>1, <3>5
    <3> QED BY <2>5, <3>6
  <2>6. Closed(L, Taken(f, V), F)
    BY <2>4 DEF Closed
  <2>7. Connected(L, F)
    BY <2>5 DEF Connected
  <2> QED BY <2>3, <2>6, <2>7
<1>7. ASSUME NEW L \in Q, NEW M \in Q, L # M PROVE L \cap M = {}
  <2>1. PICK K \in P : L = Taken(f, K)
    BY <1>4
  <2>2. PICK J \in P : M = Taken(f, J)
    BY <1>4
  <2>3. K \cap J = {}
    BY <1>1, <1>7, <2>1, <2>2
  <2> SUFFICES ASSUME NEW u \in L, u \in M PROVE FALSE
    OBVIOUS
  <2>4. PICK x \in K : u = f[x]
    BY <1>3, <2>1
  <2>5. PICK y \in J : u = f[y]
    BY <1>3, <2>2
  <2>6. x = y
    BY <1>2, <2>4, <2>5
  <2> QED BY <2>3, <2>6
<1>8. IsComponents(Q, Taken(f, V), F)
  BY <1>5, <1>6, <1>7 DEF IsComponents
<1> QED BY <1>8 DEF Q

\* Joining the cells one by one finds the components.
FindsAll(it, V, E) ==
  it[{}] = {} /\ \A s \in SUBSET V : s # {} => it[s] = JoinedBy(it[Rest(s)], Chosen(s), E)

\* Cells can be joined one by one.
LEMMA FindingExists ==
  ASSUME NEW V, IsFiniteSet(V), NEW E
  PROVE  \E it : DOMAIN it = SUBSET V /\ it = [s \in SUBSET V |-> it[s]] /\ FindsAll(it, V, E)
<1> DEFINE T == SUBSET SUBSET V
           Grown(s, P) == IF s = {} THEN {} ELSE JoinedBy(P, Chosen(s), E)
           step == [p \in (SUBSET V) \X T |-> Grown(p[1], p[2])]
<1>1. \A s \in SUBSET V, P \in T : Grown(s, P) \in T
  <2> SUFFICES ASSUME NEW s \in SUBSET V, NEW P \in T, s # {} PROVE JoinedBy(P, Chosen(s), E) \in T
    OBVIOUS
  <2>1. Chosen(s) \in V
    BY RestIs
  <2> DEFINE D == Touched(P, Chosen(s), E)
  <2>2. D \subseteq P
    BY DEF Touched
  <2> HIDE DEF D
  <2>3. (UNION D) \cup {Chosen(s)} \in SUBSET V
    <3>1. \A x \in UNION D : x \in V
      BY <2>2
    <3> QED BY <2>1, <3>1
  <2>4. (P \ D) \cup {(UNION D) \cup {Chosen(s)}} \in T
    BY <2>3
  <2> QED BY <2>4 DEF JoinedBy, D
<1>2. step \in [(SUBSET V) \X T -> T]
  <2> HIDE DEF Grown, T
  <2> QED BY <1>1
<1>3. PICK it \in [SUBSET V -> T] : Builds(it, {}, step, V)
  <2>1. {} \in T
    OBVIOUS
  <2> HIDE DEF step, T
  <2> QED BY <1>2, <2>1, SetRecursion
<1>4. ASSUME NEW s \in SUBSET V, s # {} PROVE it[s] = JoinedBy(it[Rest(s)], Chosen(s), E)
  <2>1. it[s] = step[<<s, it[Rest(s)]>>]
    <3> HIDE DEF step, T
    <3> QED BY <1>3, <1>4 DEF Builds
  <2>2. it[Rest(s)] \in T
    <3>1. Rest(s) \in SUBSET V
      BY <1>4, RestIs
    <3> QED BY <1>3, <3>1
  <2>3. \A p \in (SUBSET V) \X T : step[p] = Grown(p[1], p[2])
    OBVIOUS
  <2>4. step[<<s, it[Rest(s)]>>] = Grown(s, it[Rest(s)])
    <3> HIDE DEF step, Grown, T
    <3> QED BY <2>2, <2>3
  <2> HIDE DEF step
  <2> QED BY <1>4, <2>1, <2>4
<1>5. it[{}] = {}
  BY <1>3 DEF Builds
<1>6. DOMAIN it = SUBSET V /\ it = [s \in SUBSET V |-> it[s]]
  <2> HIDE DEF T
  <2> QED BY <1>3
<1> QED BY <1>4, <1>5, <1>6 DEF FindsAll

\* What is found when all cells are joined are the components.
LEMMA FoundIs ==
  ASSUME NEW V, IsFiniteSet(V), NEW E, Symmetric(E), NEW it, FindsAll(it, V, E)
  PROVE  IsComponents(it[V], V, E)
<1> DEFINE Good == {s \in SUBSET V : IsComponents(it[s], s, E)}
<1>1. {} \in Good
  <2>1. it[{}] = {}
    BY DEF FindsAll
  <2> QED BY <2>1 DEF IsComponents
<1>2. ASSUME NEW s \in SUBSET V, s # {}, Rest(s) \in Good PROVE s \in Good
  <2> DEFINE c == Chosen(s) R == Rest(s) P == it[R]
  <2>1. c \in s /\ c \notin R /\ R \cup {c} = s
    BY <1>2, RestIs DEF Rest
  <2>2. it[s] = JoinedBy(P, c, E)
    BY <1>2 DEF FindsAll
  <2>3. IsComponents(P, R, E)
    BY <1>2
  <2> HIDE DEF c, R, P
  <2>4. IsComponents(JoinedBy(P, c, E), R \cup {c}, E)
    BY <2>1, <2>3, JoinedIs
  <2> QED BY <2>1, <2>2, <2>4
<1>3. V \in Good
  <2> HIDE DEF Good
  <2>1. SUBSET V \subseteq Good
    BY <1>1, <1>2, ReachesSubsets
  <2> QED BY <2>1
<1> QED BY <1>3

-----------------------------------------------------------------------------
(* WildlifeScoring: the score of a growing board.                           *)

BoardInv == DOMAIN board \subseteq Cells /\ cards \in [Species -> Cards]

\* A placed token adds its cell to its species and to no other.
LEMMA PlacedPositions ==
  ASSUME NEW b, NEW c, c \notin DOMAIN b, NEW s, NEW t, t # s
  PROVE  Positions(Placed(b, c, s), t) = Positions(b, t)
  BY DEF Positions, Placed

\* A species that sees only its own tokens keeps its score when another is placed.
LEMMA Unseen ==
  ASSUME NEW b, NEW c, c \notin DOMAIN b, NEW s, NEW t \in Species \ {"fox", s},
         NEW card \in Cards, t \in {"salmon", "hawk"} => card # "D"
  PROVE  ScoreWildlife(Placed(b, c, s), card, t) = ScoreWildlife(b, card, t)
<1> DEFINE p == Placed(b, c, s)
<1>0. Positions(p, t) = Positions(b, t)
  BY PlacedPositions
<1> HIDE DEF p
<1>1. CASE t = "bear"
  BY <1>0, <1>1 DEF ScoreWildlife, Species, p
<1>2. CASE t = "elk"
  BY <1>0, <1>2 DEF ScoreWildlife, Species, p
<1>3. CASE t = "salmon"
  <2>1. card \in {"A", "B", "C"}
    BY <1>3 DEF Cards
  <2>2. \A run : ScoreRun(p, run, card) = ScoreRun(b, run, card)
    BY <2>1 DEF ScoreRun
  <2>3. ScoreSalmon(p, card) = ScoreSalmon(b, card)
    BY <1>0, <1>3, <2>2 DEF ScoreSalmon
  <2> QED
    BY <1>3, <2>3 DEF ScoreWildlife, Species, p
<1>4. CASE t = "hawk"
  <2>1. card \in {"A", "B", "C"}
    BY <1>4 DEF Cards
  <2>2. ScoreHawks(p, card) = ScoreHawks(b, card)
    BY <1>0, <1>4, <2>1 DEF ScoreHawks
  <2> QED
    BY <1>4, <2>2 DEF ScoreWildlife, Species, p
<1> QED
  BY <1>1, <1>2, <1>3, <1>4 DEF Species

\* One placement: the rescore of an exact score is exact.
LEMMA RescoreStaysExact ==
  ASSUME NEW b, NEW c, c \notin DOMAIN b, NEW s \in Species, NEW r \in [Species -> Cards]
  PROVE  Rescore(Placed(b, c, s), r, ScoreBoard(b, r), s) = ScoreBoard(Placed(b, c, s), r)
<1> DEFINE p == Placed(b, c, s)
           again(t) == t \in {s, "fox"} \/ (t \in {"salmon", "hawk"} /\ r[t] = "D")
<1>1. ASSUME NEW t \in Species, ~again(t)
      PROVE  ScoreWildlife(b, r[t], t) = ScoreWildlife(p, r[t], t)
  BY <1>1, Unseen
<1> QED
  BY <1>1 DEF Rescore, ScoreBoard

\* The cells of the board are known, and the kept score is the board's.
LEMMA ScoresKept == ScoringSpec => [](BoardInv /\ ScoreExact)
<1> DEFINE Inv == BoardInv /\ ScoreExact
<1>1. ScoringInit => Inv
  BY ScoringAssumption DEF ScoringInit, ScoreExact, BoardInv
<1>2. Inv /\ [ScoringNext]_scoringVars => Inv'
  <2> SUFFICES ASSUME Inv, [ScoringNext]_scoringVars PROVE Inv'
    OBVIOUS
  <2>1. ASSUME NEW c \in Cells, NEW s \in Species, PlaceWildlife(c, s) PROVE Inv'
    <3>1. /\ c \notin DOMAIN board /\ board' = Placed(board, c, s) /\ cards' = cards
          /\ score' = Rescore(board', cards, score, s)
      BY <2>1 DEF PlaceWildlife
    <3>2. BoardInv'
      BY <3>1 DEF BoardInv, Placed
    <3>3. score' = Rescore(Placed(board, c, s), cards, ScoreBoard(board, cards), s)
      BY <3>1 DEF ScoreExact
    <3>4. score' = ScoreBoard(Placed(board, c, s), cards)
      BY <3>1, <3>3, RescoreStaysExact DEF BoardInv
    <3> QED
      BY <3>1, <3>2, <3>4 DEF ScoreExact
  <2>2. CASE UNCHANGED scoringVars
    BY <2>2 DEF scoringVars, BoardInv, ScoreExact
  <2> QED
    BY <2>1, <2>2 DEF ScoringNext
<1> QED
  BY <1>1, <1>2, PTL DEF ScoringSpec

\* The kept score is the score of the board in every state.
THEOREM ScoreIsExact == ScoringSpec => []ScoreExact
  BY ScoresKept, PTL

-----------------------------------------------------------------------------
(* The best grouping.                                                       *)

\* Groups of the cells of C, each cell on its own among them.
IsGroups(groups, C) ==
  /\ IsFiniteSet(groups) /\ IsFiniteSet(C)
  /\ \A g \in groups : g[1] \in (SUBSET C) \ {{}} /\ g[2] \in Nat
  /\ \A c \in C : \E g \in groups : g[1] = {c}

Scores(T, groups) == {g[2] : g \in {h \in groups : h[1] = T}}
Worth(T, groups) == Max(Scores(T, groups))

\* What a group is worth is the best score it has.
LEMMA WorthIs ==
  ASSUME NEW groups, NEW C, IsGroups(groups, C), NEW T, Scores(T, groups) # {}
  PROVE  /\ T \in (SUBSET C) \ {{}} /\ Worth(T, groups) \in Nat
         /\ \E g \in groups : g[1] = T /\ g[2] = Worth(T, groups)
         /\ \A g \in groups : g[1] = T => g[2] <= Worth(T, groups)
<1> DEFINE H == {h \in groups : h[1] = T}
           A == Scores(T, groups)
<1>1. A \subseteq Nat
  BY DEF IsGroups, Scores
<1>2. IsFiniteSet(H)
  BY FS_Subset DEF IsGroups
<1>3. IsFiniteSet(A)
  <2> DEFINE f == [g \in H |-> g[2]]
  <2>1. f \in Surjection(H, A)
    BY DEF Surjection, Scores
  <2> QED BY <1>2, <2>1, FS_Surjection
<1>4. Max(A) \in A /\ \A x \in A : x <= Max(A)
  BY <1>1, <1>3, GreatestIn
<1>5. \A x \in A : \E g \in groups : g[1] = T /\ g[2] = x
  BY DEF Scores
<1>6. \A g \in groups : g[1] = T => g[2] \in A
  BY DEF Scores
<1>7. T \in (SUBSET C) \ {{}}
  BY <1>4, <1>5 DEF IsGroups
<1> QED BY <1>1, <1>4, <1>5, <1>6, <1>7 DEF Worth

\* S taken apart into groups.
IsPacking(P, S, groups) ==
  /\ UNION P = S /\ {} \notin P
  /\ \A A \in P : \A B \in P : A # B => A \cap B = {}
  /\ \A A \in P : Scores(A, groups) # {}

Total(P, groups) == SumFunction([T \in P |-> Worth(T, groups)])

LEMMA PackingFinite ==
  ASSUME NEW groups, NEW C, IsGroups(groups, C), NEW S \in SUBSET C, NEW P, IsPacking(P, S, groups)
  PROVE  /\ IsFiniteSet(P) /\ [T \in P |-> Worth(T, groups)] \in [P -> Int]
         /\ \A T \in P : Worth(T, groups) \in Nat
<1>1. IsFiniteSet(SUBSET C) /\ P \subseteq SUBSET C
  BY FS_SUBSET DEF IsGroups, IsPacking
<1>2. \A T \in P : Worth(T, groups) \in Nat
  BY WorthIs DEF IsPacking
<1> QED BY <1>1, <1>2, FS_Subset

\* A group that is taken out of a packing leaves one of the other cells.
LEMMA PackingWithout ==
  ASSUME NEW groups, NEW C, IsGroups(groups, C), NEW S \in SUBSET C, NEW P, IsPacking(P, S, groups), NEW A \in P
  PROVE  /\ IsPacking(P \ {A}, S \ A, groups)
         /\ Total(P \ {A}, groups) \in Int
         /\ Total(P, groups) = Total(P \ {A}, groups) + Worth(A, groups)
<1> DEFINE Q == P \ {A}
           h == [T \in P |-> Worth(T, groups)]
           f == [T \in Q |-> Worth(T, groups)]
<1>1. IsPacking(Q, S \ A, groups)
  <2>1. UNION Q = S \ A
    <3>1. \A x \in S \ A : \E B \in Q : x \in B
      BY DEF IsPacking
    <3>2. \A B \in Q : B \subseteq S \ A
      BY DEF IsPacking
    <3> HIDE DEF Q
    <3> QED BY <3>1, <3>2
  <2> QED BY <2>1 DEF IsPacking
<1>2. IsFiniteSet(P) /\ h \in [P -> Int]
  BY PackingFinite
<1>3. f \in [P \ {A} -> Int] /\ \A x \in P \ {A} : h[x] = f[x]
  BY PackingFinite
<1>4. h[A] = Worth(A, groups)
  OBVIOUS
<1> HIDE DEF h, f
<1>5. OneLess(h, f, A)
  BY <1>2, <1>3, SumWithout
<1> QED BY <1>1, <1>4, <1>5 DEF OneLess, h, f, Total

\* And a group of cells that were left out can be added.
LEMMA PackingWith ==
  ASSUME NEW groups, NEW C, IsGroups(groups, C), NEW S \in SUBSET C, NEW A, A \subseteq S,
         Scores(A, groups) # {}, NEW Q, IsPacking(Q, S \ A, groups)
  PROVE  /\ IsPacking(Q \cup {A}, S, groups)
         /\ Total(Q, groups) \in Int
         /\ Total(Q \cup {A}, groups) = Total(Q, groups) + Worth(A, groups)
<1> DEFINE P == Q \cup {A}
<1>1. A # {}
  BY WorthIs
<1>2. \A B \in Q : B \cap A = {} /\ B # {}
  BY DEF IsPacking
<1>3. A \notin Q
  BY <1>1, <1>2
<1>4. IsPacking(P, S, groups)
  BY <1>1, <1>2 DEF IsPacking
<1>5. P \ {A} = Q /\ A \in P
  BY <1>3
<1> HIDE DEF P
<1>6. Total(P \ {A}, groups) \in Int /\ Total(P, groups) = Total(P \ {A}, groups) + Worth(A, groups)
  BY <1>4, <1>5, PackingWithout
<1> QED BY <1>4, <1>5, <1>6 DEF P

\* A packing is worth no less than nothing.
LEMMA TotalOfNone == ASSUME NEW groups PROVE Total({}, groups) = 0
<1>1. [T \in {} |-> Worth(T, groups)] = [x \in {} |-> 0]
  OBVIOUS
<1> QED BY <1>1, SumOfNone DEF Total

\* The groups a cell can be in, among the cells of S.
Claimable(S, groups) == {h \in groups : Chosen(S) \in h[1] /\ h[1] \subseteq S}

Ways(S, groups, D) == {0} \cup {g[2] + D[S \ g[1]] : g \in Claimable(S, groups)}

Decides(D, C, groups) ==
  D[{}] = 0 /\ \A S \in SUBSET C : S # {} => D[S] = Max(Ways(S, groups, D))

\* The ways to score a set of cells are a finite set of numbers.
LEMMA WaysFinite ==
  ASSUME NEW groups, NEW C, IsGroups(groups, C), NEW S \in SUBSET C, NEW D \in [SUBSET C -> Nat]
  PROVE  /\ Ways(S, groups, D) \subseteq Nat /\ IsFiniteSet(Ways(S, groups, D))
         /\ Max(Ways(S, groups, D)) \in Ways(S, groups, D)
         /\ \A x \in Ways(S, groups, D) : x <= Max(Ways(S, groups, D))
<1> DEFINE O == Claimable(S, groups)
           W == {g[2] + D[S \ g[1]] : g \in O}
<1>1. \A g \in O : g[2] \in Nat /\ S \ g[1] \in SUBSET C /\ D[S \ g[1]] \in Nat
  BY DEF Claimable, IsGroups
<1>2. W \subseteq Nat
  <2> SUFFICES ASSUME NEW g \in O PROVE g[2] + D[S \ g[1]] \in Nat
    OBVIOUS
  <2> QED BY <1>1
<1>3. IsFiniteSet(O)
  BY FS_Subset DEF Claimable, IsGroups
<1>4. IsFiniteSet(W)
  <2> DEFINE f == [g \in O |-> g[2] + D[S \ g[1]]]
  <2>1. f \in Surjection(O, W)
    BY DEF Surjection
  <2> QED BY <1>3, <2>1, FS_Surjection
<1>5. Ways(S, groups, D) = W \cup {0}
  BY DEF Ways
<1> HIDE DEF W
<1>6. IsFiniteSet(W \cup {0})
  BY <1>4, FS_AddElement
<1>7. W \cup {0} \subseteq Nat /\ W \cup {0} # {}
  BY <1>2
<1> QED BY <1>5, <1>6, <1>7, GreatestIn

LEMMA GroupsDecided ==
  ASSUME NEW groups, NEW C, IsGroups(groups, C)
  PROVE  \E D \in [SUBSET C -> Nat] :
           Decides(D, C, groups) /\ MaximizeDisjointGroups(C, groups) = D[C]
<1> DEFINE F == [SUBSET C -> Nat]
           value(S, D) == IF S = {} THEN 0
                          ELSE LET first == CHOOSE c \in S : TRUE
                               IN Max({0} \cup {g[2] + D[S \ g[1]] :
                                                 g \in {h \in groups : first \in h[1] /\ h[1] \subseteq S}})
           Eqn(h) == h = [S \in SUBSET C |-> value(S, h)]
           best == CHOOSE h : Eqn(h)
           step == [p \in (SUBSET C) \X F |-> value(p[1], p[2])]
<1>1. MaximizeDisjointGroups(C, groups) = best[C]
  BY DEF MaximizeDisjointGroups
<1>2. \A S, D : value(S, D) = IF S = {} THEN 0 ELSE Max(Ways(S, groups, D))
  BY DEF Ways, Claimable, Chosen
<1> HIDE DEF value
<1>3. \A S \in SUBSET C, D \in F : value(S, D) \in Nat
  BY <1>2, WaysFinite
<1>4. step \in [(SUBSET C) \X F -> Nat]
  <2> HIDE DEF F
  <2> QED BY <1>3
<1>5. Local(step, C, F)
  <2> SUFFICES ASSUME NEW S \in SUBSET C, NEW g \in F, NEW h \in F,
                      \A u \in SUBSET S : u # S => g[u] = h[u]
               PROVE  step[<<S, g>>] = step[<<S, h>>]
    BY DEF Local
  <2>1. \A k \in Claimable(S, groups) : S \ k[1] \in SUBSET S /\ S \ k[1] # S
    BY DEF Claimable, IsGroups
  <2>2. Ways(S, groups, g) = Ways(S, groups, h)
    <3>1. \A k \in Claimable(S, groups) : g[S \ k[1]] = h[S \ k[1]]
      BY <2>1
    <3> QED BY <3>1 DEF Ways
  <2>3. value(S, g) = value(S, h)
    BY <1>2, <2>2
  <2> HIDE DEF F
  <2> QED BY <2>3
<1>6. PICK D \in F : \A S \in SUBSET C : D[S] = step[<<S, D>>]
  <2> HIDE DEF step
  <2>1. 0 \in Nat /\ IsFiniteSet(C)
    BY DEF IsGroups
  <2>2. ASSUME NEW once \in [(SUBSET C) \X [SUBSET C -> Nat] -> Nat], Local(once, C, [SUBSET C -> Nat])
        PROVE  \E it \in [SUBSET C -> Nat] : Settles(it, once, C)
    BY <2>1, <2>2, SubsetRecursion
  <2> QED BY <1>4, <1>5, <2>2 DEF Settles
<1>7. \A S \in SUBSET C : D[S] = value(S, D)
  <2> HIDE DEF F
  <2> QED BY <1>6
<1>8. Eqn(D)
  <2> D = [S \in SUBSET C |-> D[S]]
    BY <1>6
  <2> QED BY <1>7
<1>9. Eqn(best)
  <2> HIDE DEF Eqn
  <2> QED BY <1>8
<1>10. ASSUME NEW h, Eqn(h) PROVE h = D
  <2> DEFINE Good == {S \in SUBSET C : h[S] = D[S]}
  <2>1. h = [S \in SUBSET C |-> h[S]] /\ \A S \in SUBSET C : h[S] = value(S, h)
    BY <1>10
  <2>2. ASSUME NEW S \in SUBSET C, \A u \in SUBSET S : u # S => u \in Good PROVE S \in Good
    <3>1. \A k \in Claimable(S, groups) : S \ k[1] \in SUBSET S /\ S \ k[1] # S
      BY DEF Claimable, IsGroups
    <3>2. \A k \in Claimable(S, groups) : h[S \ k[1]] = D[S \ k[1]]
      BY <2>2, <3>1
    <3>3. Ways(S, groups, h) = Ways(S, groups, D)
      BY <3>2 DEF Ways
    <3> QED BY <1>2, <1>7, <2>1, <3>3
  <2>3. SUBSET C \subseteq Good
    <3> HIDE DEF Good
    <3>1. IsFiniteSet(C)
      BY DEF IsGroups
    <3> QED BY <2>2, <3>1, SmallerSubsets
  <2>4. \A S \in SUBSET C : h[S] = D[S]
    BY <2>3
  <2>5. D = [S \in SUBSET C |-> D[S]]
    BY <1>6
  <2> HIDE DEF Good
  <2> QED BY <2>1, <2>4, <2>5
<1>11. best = D
  <2> HIDE DEF Eqn, best
  <2> QED BY <1>9, <1>10
<1>12. Decides(D, C, groups)
  BY <1>2, <1>7 DEF Decides
<1> QED BY <1>1, <1>6, <1>11, <1>12

IsBest(n, S, groups) ==
  /\ \A P : IsPacking(P, S, groups) => Total(P, groups) <= n
  /\ \E P : IsPacking(P, S, groups) /\ Total(P, groups) = n

\* What is decided about one cell at a time is the best of all packings.
LEMMA DecidedBest ==
  ASSUME NEW groups, NEW C, IsGroups(groups, C), NEW D \in [SUBSET C -> Nat], Decides(D, C, groups)
  PROVE  \A S \in SUBSET C : IsBest(D[S], S, groups)
<1> DEFINE Good == {S \in SUBSET C : IsBest(D[S], S, groups)}
<1>1. ASSUME NEW S \in SUBSET C, \A u \in SUBSET S : u # S => u \in Good PROVE S \in Good
  <2>1. CASE S = {}
    <3>1. ASSUME NEW P, IsPacking(P, {}, groups) PROVE P = {}
      <4>1. \A A \in P : A \subseteq UNION P
        OBVIOUS
      <4> QED BY <3>1, <4>1 DEF IsPacking
    <3>2. IsPacking({}, {}, groups)
      BY DEF IsPacking
    <3>3. D[S] = 0 /\ Total({}, groups) = 0
      BY <2>1, TotalOfNone DEF Decides
    <3>4. \A P : IsPacking(P, S, groups) => Total(P, groups) <= D[S]
      <4> SUFFICES ASSUME NEW P, IsPacking(P, S, groups) PROVE Total(P, groups) <= D[S]
        OBVIOUS
      <4>1. P = {}
        BY <2>1, <3>1
      <4> QED BY <3>3, <4>1
    <3>5. \E P : IsPacking(P, S, groups) /\ Total(P, groups) = D[S]
      BY <2>1, <3>2, <3>3
    <3> QED BY <3>4, <3>5 DEF IsBest
  <2>2. CASE S # {}
    <3> DEFINE W == Ways(S, groups, D)
               m == Chosen(S)
    <3>0. m \in S
      BY <2>2 DEF Chosen
    <3>1. D[S] = Max(W) /\ W \subseteq Nat /\ Max(W) \in W /\ \A x \in W : x <= Max(W)
      BY <2>2, WaysFinite DEF Decides
    <3>2. ASSUME NEW P, IsPacking(P, S, groups) PROVE Total(P, groups) <= D[S]
      <4>1. PICK A \in P : m \in A
        BY <3>0, <3>2 DEF IsPacking
      <4>2. /\ IsPacking(P \ {A}, S \ A, groups) /\ Total(P \ {A}, groups) \in Int
            /\ Total(P, groups) = Total(P \ {A}, groups) + Worth(A, groups)
        BY <3>2, PackingWithout
      <4>3. A \subseteq S /\ Scores(A, groups) # {}
        BY <3>2 DEF IsPacking
      <4>4. PICK g \in groups : g[1] = A /\ g[2] = Worth(A, groups)
        BY <4>3, WorthIs
      <4>5. S \ A \in SUBSET S /\ S \ A # S
        BY <4>1, <3>0
      <4>6. Total(P \ {A}, groups) <= D[S \ A]
        BY <1>1, <4>2, <4>5 DEF IsBest
      <4>7. g \in Claimable(S, groups)
        BY <4>1, <4>3, <4>4 DEF Claimable
      <4>8. Worth(A, groups) + D[S \ A] \in W
        BY <4>4, <4>7 DEF Ways
      <4>9. Worth(A, groups) + D[S \ A] <= D[S]
        BY <3>1, <4>8
      <4>10. D[S \ A] \in Nat /\ D[S] \in Nat /\ Worth(A, groups) \in Nat
        BY <4>3, WorthIs
      <4> QED BY <4>2, <4>6, <4>9, <4>10
    <3>3. \E P : IsPacking(P, S, groups) /\ Total(P, groups) = D[S]
      \* Even when nothing scores the chosen cell is in a group of its own.
      <4>1. PICK g \in Claimable(S, groups) : D[S] = g[2] + D[S \ g[1]]
        <5>1. CASE \E g \in Claimable(S, groups) : D[S] = g[2] + D[S \ g[1]]
          BY <5>1
        <5>2. CASE ~ \E g \in Claimable(S, groups) : D[S] = g[2] + D[S \ g[1]]
          <6>1. D[S] = 0
            BY <3>1, <5>2 DEF Ways
          <6>2. PICK g \in groups : g[1] = {m}
            BY <3>0 DEF IsGroups
          <6>3. g \in Claimable(S, groups)
            BY <3>0, <6>2 DEF Claimable
          <6>4. g[2] + D[S \ g[1]] \in W
            BY <6>3 DEF Ways
          <6>5. g[2] \in Nat /\ D[S \ g[1]] \in Nat
            BY <6>3 DEF IsGroups, Claimable
          <6>6. g[2] + D[S \ g[1]] <= D[S]
            BY <3>1, <6>4
          <6>7. D[S] = g[2] + D[S \ g[1]]
            BY <6>1, <6>5, <6>6
          <6> QED BY <6>3, <6>7
        <5> QED BY <5>1, <5>2
      <4>2. g[1] \subseteq S /\ m \in g[1] /\ g \in groups
        BY DEF Claimable
      <4>3. S \ g[1] \in SUBSET S /\ S \ g[1] # S
        BY <3>0, <4>2
      <4>4. PICK Q : IsPacking(Q, S \ g[1], groups) /\ Total(Q, groups) = D[S \ g[1]]
        BY <1>1, <4>3 DEF IsBest
      <4>5. Scores(g[1], groups) # {}
        BY <4>2 DEF Scores
      <4> DEFINE P == Q \cup {g[1]}
      <4>6. IsPacking(P, S, groups) /\ Total(P, groups) = Total(Q, groups) + Worth(g[1], groups)
        BY <4>2, <4>4, <4>5, PackingWith
      <4>7. PICK best \in groups : best[1] = g[1] /\ best[2] = Worth(g[1], groups)
        BY <4>5, WorthIs
      <4>8. best \in Claimable(S, groups)
        BY <4>2, <4>7 DEF Claimable
      <4>9. best[2] + D[S \ g[1]] \in W
        BY <4>7, <4>8 DEF Ways
      <4>10. best[2] + D[S \ g[1]] <= D[S]
        BY <3>1, <4>9
      <4>11. g[2] <= best[2] /\ g[2] \in Nat /\ best[2] \in Nat /\ D[S \ g[1]] \in Nat /\ D[S] \in Nat
        <5>1. \A h \in groups : h[1] = g[1] => h[2] <= Worth(g[1], groups)
          BY <4>5, WorthIs
        <5>2. g[2] \in Nat /\ best[2] \in Nat
          BY <4>2 DEF IsGroups
        <5> QED BY <4>2, <4>7, <5>1, <5>2
      <4>12. Total(P, groups) = D[S]
        BY <4>1, <4>4, <4>6, <4>7, <4>10, <4>11
      <4> HIDE DEF P
      <4> QED BY <4>6, <4>12
    <3> QED BY <3>2, <3>3 DEF IsBest
  <2> QED BY <2>1, <2>2
<1>2. SUBSET C \subseteq Good
  <2> HIDE DEF Good
  <2>1. IsFiniteSet(C)
    BY DEF IsGroups
  <2> QED BY <1>1, <2>1, SmallerSubsets
<1> QED BY <1>2

\* The cells with the same image are the parts of a packing.
Parts(f, C) == {{c \in C : f[c] = x} : x \in {f[c] : c \in C}}

LEMMA PartsAre ==
  ASSUME NEW C, NEW f
  PROVE  /\ UNION Parts(f, C) = C /\ {} \notin Parts(f, C)
         /\ \A A \in Parts(f, C) : \A B \in Parts(f, C) : A # B => A \cap B = {}
<1> DEFINE part(x) == {c \in C : f[c] = x}
           X == {f[c] : c \in C}
<1>1. \A A \in Parts(f, C) : \E x \in X : A = part(x)
  BY DEF Parts
<1>2. \A x \in X : part(x) \in Parts(f, C)
  BY DEF Parts
<1>3. \A c \in C : f[c] \in X /\ c \in part(f[c])
  OBVIOUS
<1>4. \A x : \A c \in part(x) : c \in C /\ f[c] = x
  OBVIOUS
<1>5. \A x \in X : part(x) # {}
  OBVIOUS
<1>6. UNION Parts(f, C) = C
  <2> HIDE DEF X, part
  <2>1. ASSUME NEW c \in C PROVE c \in UNION Parts(f, C)
    BY <1>2, <1>3
  <2>2. ASSUME NEW A \in Parts(f, C) PROVE A \subseteq C
    BY <1>1, <1>4
  <2> QED BY <2>1, <2>2
<1> HIDE DEF X, part
<1>7. {} \notin Parts(f, C)
  BY <1>1, <1>5
<1>8. ASSUME NEW A \in Parts(f, C), NEW B \in Parts(f, C), A \cap B # {} PROVE A = B
  BY <1>1, <1>4, <1>8
<1> QED BY <1>6, <1>7, <1>8

\* Every packing is that of some function.
LEMMA PackingIsParts ==
  ASSUME NEW C, NEW groups, NEW P, IsPacking(P, C, groups)
  PROVE  \E f \in [C -> C] : Parts(f, C) = P
<1> DEFINE mine(c) == CHOOSE A \in P : c \in A
           f == [c \in C |-> Chosen(mine(c))]
<1>1. ASSUME NEW c \in C PROVE mine(c) \in P /\ c \in mine(c)
  BY DEF IsPacking
<1>2. ASSUME NEW A \in P PROVE Chosen(A) \in A /\ A \subseteq C
  BY DEF IsPacking, Chosen
<1>3. ASSUME NEW A \in P, NEW B \in P, NEW c, c \in A, c \in B PROVE A = B
  BY <1>3 DEF IsPacking
<1> HIDE DEF mine
<1>4. f \in [C -> C]
  BY <1>1, <1>2
<1>5. ASSUME NEW c \in C PROVE {d \in C : f[d] = f[c]} = mine(c)
  <2>1. ASSUME NEW d \in C, f[d] = f[c] PROVE d \in mine(c)
    <3>1. Chosen(mine(d)) = Chosen(mine(c))
      BY <2>1
    <3>2. mine(d) = mine(c)
      BY <1>1, <1>2, <1>3, <3>1
    <3> QED BY <1>1, <3>2
  <2>2. ASSUME NEW d \in mine(c) PROVE d \in C /\ f[d] = f[c]
    <3>1. d \in C
      BY <1>1, <1>2
    <3>2. mine(d) = mine(c)
      BY <1>1, <1>3, <3>1
    <3> QED BY <3>1, <3>2
  <2> HIDE DEF f
  <2> QED BY <2>1, <2>2
<1>6. ASSUME NEW A \in P PROVE A \in Parts(f, C)
  <2>1. Chosen(A) \in C /\ mine(Chosen(A)) = A
    BY <1>1, <1>2, <1>3
  <2>2. {d \in C : f[d] = f[Chosen(A)]} = A
    BY <1>5, <2>1
  <2> HIDE DEF f
  <2> QED BY <2>1, <2>2 DEF Parts
<1>7. ASSUME NEW A \in Parts(f, C) PROVE A \in P
  <2>1. PICK c \in C : A = {d \in C : f[d] = f[c]}
    BY <1>7 DEF Parts
  <2> QED BY <1>1, <1>5, <2>1
<1> HIDE DEF f
<1>8. Parts(f, C) = P
  BY <1>6, <1>7
<1> QED BY <1>4, <1>8

\* The search decides about one cell at a time, the definition compares all packings.
LEMMA SearchIsBest ==
  ASSUME NEW groups, NEW C, IsGroups(groups, C)
  PROVE  MaximizeDisjointGroups(C, groups) = BestPacking(C, groups)
<1> DEFINE packings == {f \in [C -> C] : \A T \in Parts(f, C) : Scores(T, groups) # {}}
           A == {Total(Parts(f, C), groups) : f \in packings}
<1>1. BestPacking(C, groups) = Max(A)
  BY DEF BestPacking, Parts, Scores, Total, Worth, SumOver
<1>2. PICK D \in [SUBSET C -> Nat] : Decides(D, C, groups) /\ MaximizeDisjointGroups(C, groups) = D[C]
  BY GroupsDecided
<1>3. \A f \in packings : IsPacking(Parts(f, C), C, groups)
  BY PartsAre DEF IsPacking
<1>4. /\ \A P : IsPacking(P, C, groups) => Total(P, groups) <= D[C]
      /\ \E P : IsPacking(P, C, groups) /\ Total(P, groups) = D[C]
  <2>1. C \in SUBSET C
    OBVIOUS
  <2>2. IsBest(D[C], C, groups)
    BY <1>2, <2>1, DecidedBest
  <2> QED BY <2>2 DEF IsBest
<1>5. PICK P : IsPacking(P, C, groups) /\ Total(P, groups) = D[C]
  BY <1>4
<1>6. PICK f \in [C -> C] : Parts(f, C) = P
  BY <1>5, PackingIsParts
<1>7. f \in packings
  BY <1>5, <1>6 DEF IsPacking
<1>8. D[C] \in A
  BY <1>5, <1>6, <1>7
<1>9. ASSUME NEW Q, IsPacking(Q, C, groups) PROVE Total(Q, groups) \in Nat
  <2>1. IsFiniteSet(Q) /\ \A T \in Q : Worth(T, groups) \in Nat
    BY <1>9, PackingFinite
  <2> QED BY <2>1, SumOfNats DEF Total
<1>10. A \subseteq Nat /\ \A x \in A : x <= D[C]
  <2> SUFFICES ASSUME NEW g \in packings PROVE Total(Parts(g, C), groups) \in Nat /\ Total(Parts(g, C), groups) <= D[C]
    OBVIOUS
  <2> HIDE DEF packings
  <2> QED BY <1>3, <1>4, <1>9
<1> HIDE DEF A
<1> QED BY <1>1, <1>2, <1>8, <1>10, MaxIs

-----------------------------------------------------------------------------
(* Lines of sight.                                                          *)

\* A cell two or more steps away is in line in one direction only.
LEMMA OneRay ==
  ASSUME NEW d \in Directions, NEW e \in Directions, NEW n \in Nat, NEW m \in Int, n > 1, m > 1,
         n * d[1] = m * e[1], n * d[2] = m * e[2]
  PROVE  d = e /\ n = m
<1>1. CASE d = <<1, 0>>
  BY <1>1 DEF Directions
<1>2. CASE d = <<1, -1>>
  BY <1>2 DEF Directions
<1>3. CASE d = <<0, -1>>
  BY <1>3 DEF Directions
<1>4. CASE d = <<-1, 0>>
  BY <1>4 DEF Directions
<1>5. CASE d = <<-1, 1>>
  BY <1>5 DEF Directions
<1>6. CASE d = <<0, 1>>
  BY <1>6 DEF Directions
<1> QED BY <1>1, <1>2, <1>3, <1>4, <1>5, <1>6 DEF Directions

\* Steps in a direction add up.
LEMMA StepStep ==
  ASSUME NEW l \in Int \X Int, NEW d \in Directions
  PROVE  \A i \in Int : Step(Step(l, d, 1), d, i) = Step(l, d, i + 1)
<1> SUFFICES ASSUME NEW i \in Int PROVE Step(Step(l, d, 1), d, i) = Step(l, d, i + 1)
  OBVIOUS
<1>1. d[1] \in {-1, 0, 1} /\ d[2] \in {-1, 0, 1}
  BY DEF Directions
<1>2. CASE d[1] = 0
  BY <1>1, <1>2 DEF Step
<1>3. CASE d[1] = 1
  BY <1>1, <1>3 DEF Step
<1>4. CASE d[1] = -1
  BY <1>1, <1>4 DEF Step
<1> QED BY <1>1, <1>2, <1>3, <1>4

\* The ray from a cell to one n steps away is the line between them.
LEMMA RayIs ==
  ASSUME NEW l \in Int \X Int, NEW d \in Directions, NEW n \in Nat, n > 1
  PROVE  RayBetween(l, Step(l, d, n)) = {Line(Step(l, d, 1), d, n - 1)}
<1> DEFINE r == Step(l, d, n)
           dq == r[1] - l[1]
           dr == r[2] - l[2]
           distance(e) == IF e[1] # 0 THEN dq * e[1] ELSE dr * e[2]
           along == {e \in Directions : distance(e) > 1 /\ dq = distance(e) * e[1] /\ dr = distance(e) * e[2]}
<1>1. d[1] \in {-1, 0, 1} /\ d[2] \in {-1, 0, 1} /\ (d[1] # 0 \/ d[2] # 0)
  BY DEF Directions
<1>2. dq = n * d[1] /\ dr = n * d[2]
  BY <1>1 DEF Step
<1>3. distance(d) = n
  <2>1. CASE d[1] = 0
    BY <1>1, <1>2, <2>1
  <2>2. CASE d[1] = 1
    BY <1>1, <1>2, <2>2
  <2>3. CASE d[1] = -1
    BY <1>1, <1>2, <2>3
  <2> QED BY <1>1, <2>1, <2>2, <2>3
<1>4. d \in along
  <2> HIDE DEF dq, dr
  <2> QED BY <1>2, <1>3
<1>5. ASSUME NEW e \in along PROVE e = d
  <2>0. dq \in Int /\ dr \in Int
    BY <1>1, <1>2
  <2>1. e[1] \in {-1, 0, 1} /\ e[2] \in {-1, 0, 1} /\ e \in Directions
    BY DEF Directions
  <2>2. distance(e) \in Int /\ distance(e) > 1
    <3> HIDE DEF dq, dr
    <3> QED BY <2>0, <2>1
  <2>3. n * d[1] = distance(e) * e[1] /\ n * d[2] = distance(e) * e[2]
    <3> HIDE DEF dq, dr
    <3> QED BY <1>2
  <2> HIDE DEF distance, along
  <2> QED BY <2>1, <2>2, <2>3, OneRay
<1>6. RayBetween(l, r) = {Line(l, e, distance(e)) \ {l} : e \in along}
  BY DEF RayBetween
<1>7. RayBetween(l, r) = {Line(l, d, n) \ {l}}
  <2> HIDE DEF along, distance, r
  <2> QED BY <1>3, <1>4, <1>5, <1>6
<1>8. Line(l, d, n) \ {l} = Line(Step(l, d, 1), d, n - 1)
  <2>1. \A i \in Int : Step(Step(l, d, 1), d, i) = Step(l, d, i + 1)
    BY StepStep
  <2>2. Step(l, d, 0) = l /\ \A i \in 1..(n - 1) : Step(l, d, i) # l
    BY <1>1 DEF Step
  <2>3. ASSUME NEW c \in Line(l, d, n) \ {l} PROVE c \in Line(Step(l, d, 1), d, n - 1)
    <3>1. PICK i \in 0..(n - 1) : c = Step(l, d, i)
      BY DEF Line
    <3>2. i # 0
      BY <2>2, <3>1
    <3>3. i - 1 \in 0..(n - 1 - 1) /\ c = Step(Step(l, d, 1), d, i - 1)
      BY <2>1, <3>1, <3>2
    <3> QED BY <3>3 DEF Line
  <2>4. ASSUME NEW c \in Line(Step(l, d, 1), d, n - 1) PROVE c \in Line(l, d, n) \ {l}
    <3>1. PICK i \in 0..(n - 1 - 1) : c = Step(Step(l, d, 1), d, i)
      BY DEF Line
    <3>2. i + 1 \in 1..(n - 1) /\ c = Step(l, d, i + 1)
      BY <2>1, <3>1
    <3>3. c # l /\ i + 1 \in 0..(n - 1)
      BY <2>2, <3>2
    <3> QED BY <3>2, <3>3 DEF Line
  <2> QED BY <2>3, <2>4
<1> QED BY <1>7, <1>8 DEF r

\* There is no ray to a cell that is not in line.
LEMMA RayAlong ==
  ASSUME NEW l \in Int \X Int, NEW r \in Int \X Int, RayBetween(l, r) # {}
  PROVE  \E d \in Directions, n \in Nat : n > 1 /\ r = Step(l, d, n)
<1> DEFINE dq == r[1] - l[1]
           dr == r[2] - l[2]
           distance(e) == IF e[1] # 0 THEN dq * e[1] ELSE dr * e[2]
           along == {e \in Directions : distance(e) > 1 /\ dq = distance(e) * e[1] /\ dr = distance(e) * e[2]}
<1>1. RayBetween(l, r) = {Line(l, e, distance(e)) \ {l} : e \in along}
  BY DEF RayBetween
<1>2. along # {}
  <2> HIDE DEF along, distance
  <2> QED BY <1>1
<1>3. PICK e \in along : TRUE
  BY <1>2
<1>4. e[1] \in {-1, 0, 1} /\ e[2] \in {-1, 0, 1} /\ e \in Directions
  BY DEF Directions
<1>5. distance(e) \in Int
  BY <1>4
<1>6. dq = distance(e) * e[1] /\ dr = distance(e) * e[2] /\ distance(e) > 1
  OBVIOUS
<1> HIDE DEF distance
<1>7. r[1] = l[1] + distance(e) * e[1] /\ r[2] = l[2] + distance(e) * e[2]
  BY <1>6
<1>8. r = Step(l, e, distance(e))
  BY <1>7 DEF Step
<1> QED BY <1>4, <1>5, <1>6, <1>8

\* The two ways to find the lines of sight find the same.
LEMMA LinesAgree ==
  ASSUME NEW hawks \in SUBSET Cells
  PROVE  LinesOfSight(hawks) = HawkLines(hawks)
<1>0. hawks \subseteq Int \X Int /\ Width \in Nat
  BY ScoringAssumption
<1>1. ASSUME NEW l \in LinesOfSight(hawks) PROVE l \in HawkLines(hawks)
  <2>1. PICK x \in hawks \X Directions \X (2..Width) :
          /\ l = SightLine(x[1], x[2], x[3]) /\ Step(x[1], x[2], x[3]) \in hawks
          /\ \A i \in 1..(x[3] - 1) : Step(x[1], x[2], i) \notin hawks
    BY <1>1 DEF LinesOfSight
  <2> DEFINE h == x[1] d == x[2] n == x[3] r == Step(h, d, n) B == Line(Step(h, d, 1), d, n - 1)
  <2>2. h \in hawks /\ d \in Directions /\ n \in 2..Width /\ r \in hawks
    BY <2>1
  <2>3. l = [ends |-> {h, r}, between |-> B] /\ \A i \in 1..(n - 1) : Step(h, d, i) \notin hawks
    BY <2>1 DEF SightLine
  <2> HIDE DEF h, d, n
  <2>4. RayBetween(h, r) = {B}
    BY <1>0, <2>2, RayIs
  <2>5. B \cap hawks = {}
    <3> SUFFICES ASSUME NEW c \in B PROVE c \notin hawks
      OBVIOUS
    <3>1. PICK i \in 0..(n - 1 - 1) : c = Step(Step(h, d, 1), d, i)
      BY DEF Line
    <3>2. h \in Int \X Int /\ n \in Nat /\ i + 1 \in 1..(n - 1)
      BY <1>0, <2>2
    <3>3. c = Step(h, d, i + 1)
      BY <3>1, <3>2, <2>2, StepStep
    <3> QED BY <2>3, <3>2, <3>3
  <2>6. <<h, r>> \in hawks \X hawks
    BY <2>2
  <2> HIDE DEF r, B
  <2>7. B \in {C \in RayBetween(h, r) : C \cap hawks = {}}
    BY <2>4, <2>5
  <2> DEFINE F(p) == {[ends |-> {p[1], p[2]}, between |-> cells] :
                       cells \in {C \in RayBetween(p[1], p[2]) : C \cap hawks = {}}}
             y == <<h, r>>
  <2>8. l \in F(y)
    BY <2>3, <2>7
  <2>9. HawkLines(hawks) = UNION {F(p) : p \in hawks \X hawks}
    BY DEF HawkLines
  <2> HIDE DEF F, y
  <2> QED BY <2>6, <2>8, <2>9 DEF y
<1>2. ASSUME NEW l \in HawkLines(hawks) PROVE l \in LinesOfSight(hawks)
  <2>1. PICK x \in hawks \X hawks : \E B \in RayBetween(x[1], x[2]) :
          B \cap hawks = {} /\ l = [ends |-> {x[1], x[2]}, between |-> B]
    BY <1>2 DEF HawkLines
  <2> DEFINE h == x[1] r == x[2]
  <2>2. h \in hawks /\ r \in hawks
    OBVIOUS
  <2>3. PICK B \in RayBetween(h, r) : B \cap hawks = {} /\ l = [ends |-> {h, r}, between |-> B]
    BY <2>1
  <2> HIDE DEF h, r
  <2>4. PICK d \in Directions, n \in Nat : n > 1 /\ r = Step(h, d, n)
    BY <1>0, <2>2, <2>3, RayAlong
  <2>5. B = Line(Step(h, d, 1), d, n - 1)
    BY <1>0, <2>2, <2>3, <2>4, RayIs
  <2>6. n <= Width
    <3>1. /\ r[1] - h[1] <= Width /\ r[2] - h[2] <= Width
          /\ h[1] - r[1] <= Width /\ h[2] - r[2] <= Width
      BY <2>2, ScoringAssumption
    <3>2. h \in Int \X Int
      BY <1>0, <2>2
    <3>3. r[1] = h[1] + n * d[1] /\ r[2] = h[2] + n * d[2]
      BY <2>4 DEF Step
    <3>4. CASE d \in {<<1, 0>>, <<1, -1>>}
      BY <1>0, <3>1, <3>2, <3>3, <3>4
    <3>5. CASE d \in {<<-1, 0>>, <<-1, 1>>}
      BY <1>0, <3>1, <3>2, <3>3, <3>5
    <3>6. CASE d \in {<<0, 1>>, <<0, -1>>}
      BY <1>0, <3>1, <3>2, <3>3, <3>6
    <3> QED BY <3>4, <3>5, <3>6 DEF Directions
  <2>7. \A i \in 1..(n - 1) : Step(h, d, i) \notin hawks
    <3> SUFFICES ASSUME NEW i \in 1..(n - 1) PROVE Step(h, d, i) \in B
      BY <2>3
    <3>1. i - 1 \in 0..(n - 1 - 1) /\ h \in Int \X Int
      BY <1>0, <2>2
    <3>2. Step(Step(h, d, 1), d, i - 1) = Step(h, d, i)
      BY <3>1, StepStep
    <3> QED BY <2>5, <3>1, <3>2 DEF Line
  <2> DEFINE y == <<h, d, n>>
  <2>8. y \in hawks \X Directions \X (2..Width)
    BY <1>0, <2>2, <2>4, <2>6
  <2>9. l = SightLine(h, d, n)
    BY <2>3, <2>4, <2>5 DEF SightLine
  <2>10. /\ Step(y[1], y[2], y[3]) \in hawks /\ l = SightLine(y[1], y[2], y[3])
         /\ \A i \in 1..(y[3] - 1) : Step(y[1], y[2], i) \notin hawks
    BY <2>2, <2>4, <2>7, <2>9
  <2> HIDE DEF y
  <2> QED BY <2>8, <2>10 DEF LinesOfSight
<1> QED BY <1>1, <1>2

-----------------------------------------------------------------------------
(* The groups of each species.                                              *)

\* Cells that are next to each other.
Adjacency == {p \in (Int \X Int) \X (Int \X Int) : p[2] \in Neighbors(p[1])}

LEMMA AdjacencyIs ==
  ASSUME NEW c \in Int \X Int, NEW e \in Int \X Int
  PROVE  /\ <<c, e>> \in Adjacency <=> e \in Neighbors(c)
         /\ e \in Neighbors(c) <=> c \in Neighbors(e)
<1>1. ASSUME NEW x \in Int \X Int, NEW y \in Int \X Int, x \in Neighbors(y) PROVE y \in Neighbors(x)
  <2>1. PICK d \in Directions : x = Step(y, d, 1)
    BY <1>1 DEF Neighbors
  <2>2. <<-d[1], -d[2]>> \in Directions
    BY DEF Directions
  <2>3. y = Step(x, <<-d[1], -d[2]>>, 1)
    BY <2>1 DEF Step, Directions
  <2> QED BY <2>2, <2>3 DEF Neighbors
<1> QED BY <1>1 DEF Adjacency

\* Components finds the components of the cells.
LEMMA ComponentsFound ==
  ASSUME NEW C \in SUBSET (Int \X Int), IsFiniteSet(C)
  PROVE  IsComponents(Components(C), C, Adjacency)
<1> DEFINE Join(c, found) ==
             (found \ {K \in found : K \cap Neighbors(c) # {}})
             \cup {(UNION {K \in found : K \cap Neighbors(c) # {}}) \cup {c}}
           Eqn(h) == h = [s \in SUBSET C |-> IF s = {} THEN {}
                                             ELSE Join(CHOOSE x \in s : TRUE, h[s \ {CHOOSE x \in s : TRUE}])]
           found == CHOOSE h : Eqn(h)
<1>1. Components(C) = found[C]
  BY DEF Components, FoldSet, MapThenFoldSet
<1>2. PICK it : DOMAIN it = SUBSET C /\ it = [s \in SUBSET C |-> it[s]] /\ FindsAll(it, C, Adjacency)
  BY FindingExists
<1>3. ASSUME NEW c \in Int \X Int, NEW P PROVE Join(c, P) = JoinedBy(P, c, Adjacency)
  <2>1. \A K : K \cap Neighbors(c) # {} <=> \E y \in K : <<c, y>> \in Adjacency
    <3>1. \A y : <<c, y>> \in Adjacency <=> y \in Neighbors(c)
      <4>1. ASSUME NEW y, <<c, y>> \in Adjacency PROVE y \in Neighbors(c)
        BY <4>1 DEF Adjacency
      <4>2. ASSUME NEW y \in Neighbors(c) PROVE <<c, y>> \in Adjacency
        <5>1. y \in Int \X Int
          BY DEF Neighbors, Step, Directions
        <5> QED BY <5>1, AdjacencyIs
      <4> QED BY <4>1, <4>2
    <3> QED BY <3>1
  <2>2. Touched(P, c, Adjacency) = {K \in P : K \cap Neighbors(c) # {}}
    BY <2>1 DEF Touched
  <2> QED BY <2>2 DEF JoinedBy
<1> HIDE DEF Join
<1>4. \A s \in SUBSET C : s # {} => Chosen(s) \in Int \X Int
  BY RestIs
<1>5. Eqn(it)
  <2>1. it[{}] = {} /\ \A s \in SUBSET C : s # {} => it[s] = JoinedBy(it[Rest(s)], Chosen(s), Adjacency)
    BY <1>2 DEF FindsAll
  <2>2. \A s \in SUBSET C : it[s] = IF s = {} THEN {} ELSE Join(Chosen(s), it[Rest(s)])
    BY <1>3, <1>4, <2>1
  <2>3. \A s \in SUBSET C : it[s] = IF s = {} THEN {} ELSE Join(CHOOSE x \in s : TRUE, it[s \ {CHOOSE x \in s : TRUE}])
    BY <2>2 DEF Chosen, Rest
  <2> QED BY <1>2, <2>3
<1>6. Eqn(found)
  <2> HIDE DEF Eqn
  <2> QED BY <1>5
<1>7. \A s \in SUBSET C : found[s] = IF s = {} THEN {} ELSE Join(Chosen(s), found[Rest(s)])
  <2> HIDE DEF found
  <2> QED BY <1>6 DEF Chosen, Rest
<1> HIDE DEF found
<1>8. FindsAll(found, C, Adjacency)
  BY <1>3, <1>4, <1>7 DEF FindsAll
<1>9. Symmetric(Adjacency)
  <2> SUFFICES ASSUME NEW x, NEW y, <<x, y>> \in Adjacency PROVE <<y, x>> \in Adjacency
    BY DEF Symmetric
  <2>1. x \in Int \X Int /\ y \in Int \X Int
    BY DEF Adjacency
  <2> QED BY <2>1, AdjacencyIs
<1>10. IsComponents(found[C], C, Adjacency)
  BY <1>8, <1>9, FoundIs
<1> QED BY <1>1, <1>10

\* A cell by itself is one component.
LEMMA OneComponent ==
  ASSUME NEW c \in Int \X Int
  PROVE  Components({c}) = {{c}}
<1>1. IsFiniteSet({c})
  BY FS_Singleton
<1>2. IsComponents(Components({c}), {c}, Adjacency)
  BY <1>1, ComponentsFound
<1>3. \A K \in Components({c}) : K # {} /\ K \subseteq {c}
  BY <1>2 DEF IsComponents
<1>4. c \in UNION Components({c})
  BY <1>2 DEF IsComponents
<1>5. \A K \in Components({c}) : K = {c}
  BY <1>3
<1>6. {c} \in Components({c})
  BY <1>4, <1>5
<1> QED BY <1>5, <1>6

\* An entry of a table of scores.
LEMMA EntryIs ==
  ASSUME NEW table \in Seq(Nat) \ {<<>>}, NEW n \in Nat
  PROVE  Entry(table, n) \in Nat
<1>1. Len(table) \in Nat \ {0} /\ \A i \in 1..Len(table) : table[i] \in Nat
  OBVIOUS
<1> QED BY <1>1 DEF Entry

\* One elk is a group on every card.
LEMMA LoneElk ==
  ASSUME NEW c \in Int \X Int, NEW card \in Cards
  PROVE  ElkGroup({c}, card)
<1>1. CASE card = "A"
  <2>1. Line(c, <<1, 0>>, 1) = {c}
    <3>1. Step(c, <<1, 0>>, 0) = c
      BY DEF Step
    <3>2. 0..(1 - 1) = {0}
      OBVIOUS
    <3> QED BY <3>1, <3>2 DEF Line
  <2>2. <<1, 0>> \in Directions /\ 1 \in 1..4
    BY DEF Directions
  <2> QED BY <1>1, <2>1, <2>2 DEF ElkGroup
<1>2. CASE card = "B"
  <2>1. Clique({c}) /\ Cardinality({c}) = 1
    BY FS_Singleton DEF Clique
  <2> QED BY <1>2, <2>1 DEF ElkGroup
<1>3. CASE card = "C"
  <2>1. Cardinality(Components({c})) = 1
    BY OneComponent, FS_Singleton
  <2> QED BY <1>3, <2>1 DEF ElkGroup
<1>4. CASE card = "D"
  <2> DEFINE e == Step(c, <<1, 0>>, 1)
  <2>1. e \in Neighbors(c) /\ e \in Int \X Int
    BY DEF Neighbors, Directions, Step
  <2>2. c \in Neighbors(e)
    BY <2>1, AdjacencyIs
  <2> QED BY <1>4, <2>1, <2>2 DEF ElkGroup
<1> QED BY <1>1, <1>2, <1>3, <1>4 DEF Cards

\* Groups of elk.
LEMMA ElkGroupsAre ==
  ASSUME NEW elk \in SUBSET Cells, NEW card \in Cards
  PROVE  IsGroups(ElkGroups(elk, card), elk)
<1> DEFINE U == {T \in (SUBSET elk) \ {{}} : ElkGroup(T, card)}
           entry(T) == Entry(ElkTable(card), Cardinality(T))
<1>1. IsFiniteSet(elk) /\ elk \subseteq Int \X Int
  BY ScoringAssumption, FS_Subset
<1>2. IsFiniteSet(U)
  BY <1>1, FS_SUBSET, FS_Subset
<1>3. ElkGroups(elk, card) = {<<T, entry(T)>> : T \in U}
  BY DEF ElkGroups
<1>4. ElkTable(card) \in Seq(Nat) \ {<<>>}
  BY DEF ElkTable, Cards
<1>5. \A T \in U : entry(T) \in Nat
  <2> SUFFICES ASSUME NEW T \in U PROVE entry(T) \in Nat
    OBVIOUS
  <2>1. Cardinality(T) \in Nat
    BY <1>1, FS_Subset, FS_CardinalityType
  <2> QED BY <1>4, <2>1, EntryIs
<1>6. \A c \in elk : {c} \in U
  BY <1>1, LoneElk
<1> HIDE DEF U, entry
<1>7. IsFiniteSet(ElkGroups(elk, card))
  <2> DEFINE f == [T \in U |-> <<T, entry(T)>>]
  <2>1. f \in Surjection(U, ElkGroups(elk, card))
    BY <1>3 DEF Surjection
  <2> QED BY <1>2, <2>1, FS_Surjection
<1>8. \A g \in ElkGroups(elk, card) : g[1] \in U /\ g[2] \in Nat
  BY <1>3, <1>5
<1>9. ASSUME NEW c \in elk PROVE \E g \in ElkGroups(elk, card) : g[1] = {c}
  <2>1. <<{c}, entry({c})>> \in ElkGroups(elk, card)
    BY <1>3, <1>6
  <2> QED BY <2>1
<1> QED BY <1>1, <1>7, <1>8, <1>9 DEF IsGroups, U

\* Edges between two cells each, and the cells alone.
LEMMA EdgesAreGroups ==
  ASSUME NEW C, IsFiniteSet(C), NEW edges, IsFiniteSet(edges),
         \A g \in edges : g[1] \in (SUBSET C) \ {{}} /\ g[2] \in Nat
  PROVE  /\ IsGroups(edges \cup Alone(C), C)
         /\ MaximumWeightMatching(C, edges) = BestPacking(C, edges \cup Alone(C))
<1>1. IsFiniteSet(Alone(C))
  <2> DEFINE f == [c \in C |-> <<{c}, 0>>]
  <2>1. f \in Surjection(C, Alone(C))
    BY DEF Surjection, Alone
  <2> QED BY <2>1, FS_Surjection
<1>2. \A g \in Alone(C) : g[1] \in (SUBSET C) \ {{}} /\ g[2] \in Nat
  BY DEF Alone
<1>3. ASSUME NEW c \in C PROVE \E g \in Alone(C) : g[1] = {c}
  <2>1. <<{c}, 0>> \in Alone(C)
    BY DEF Alone
  <2> QED BY <2>1
<1>4. IsGroups(edges \cup Alone(C), C)
  <2>1. IsFiniteSet(edges \cup Alone(C))
    BY <1>1, FS_Union
  <2> QED BY <1>2, <1>3, <2>1 DEF IsGroups
<1>5. MaximumWeightMatching(C, edges) = MaximizeDisjointGroups(C, edges \cup Alone(C))
  BY DEF MaximumWeightMatching, Alone
<1> QED BY <1>4, <1>5, SearchIsBest

\* How many species there are in a place.
LEMMA TypesFinite ==
  ASSUME NEW b, IsFiniteSet(DOMAIN b), NEW C
  PROVE  Cardinality(Types(b, C)) \in Nat
<1> DEFINE D == C \cap DOMAIN b
           f == [c \in D |-> b[c]]
<1>1. IsFiniteSet(D)
  BY FS_Subset
<1>2. f \in Surjection(D, Types(b, C))
  BY DEF Surjection, Types
<1> QED BY <1>1, <1>2, FS_Surjection, FS_CardinalityType

LEMMA DoubledType ==
  ASSUME NEW b, NEW C
  PROVE  Doubled(b, C) \in Nat
<1>1. Others = {"bear"} \cup {"elk"} \cup {"salmon"} \cup {"hawk"}
  BY DEF Others, Species
<1>2. IsFiniteSet(Others)
  BY <1>1, FS_Singleton, FS_Union
<1> QED BY <1>2, FS_Subset, FS_CardinalityType DEF Doubled

\* The lines of sight are finitely many, and each ends at two hawks.
LEMMA HawkEdgesAre ==
  ASSUME NEW b, IsFiniteSet(DOMAIN b), NEW hawks \in SUBSET Cells
  PROVE  /\ IsFiniteSet(HawkEdges(b, hawks))
         /\ \A g \in HawkEdges(b, hawks) : g[1] \in (SUBSET hawks) \ {{}} /\ g[2] \in Nat
<1> DEFINE A == hawks \X Directions \X (2..Width)
           R == {y \in A : /\ Step(y[1], y[2], y[3]) \in hawks
                           /\ \A i \in 1..(y[3] - 1) : Step(y[1], y[2], i) \notin hawks}
           line(x) == SightLine(x[1], x[2], x[3])
           entry(l) == <<l.ends, Entry(<<0, 4, 7, 9>>, Cardinality(Types(b, l.between)))>>
           L == LinesOfSight(hawks)
<1>1. IsFiniteSet(A)
  <2>1. IsFiniteSet(hawks)
    BY ScoringAssumption, FS_Subset
  <2>2. IsFiniteSet(Directions)
    <3>1. Directions = {<<1, 0>>} \cup {<<1, -1>>} \cup {<<0, -1>>} \cup {<<-1, 0>>} \cup {<<-1, 1>>} \cup {<<0, 1>>}
      BY DEF Directions
    <3> QED BY <3>1, FS_Singleton, FS_Union
  <2>3. IsFiniteSet(2..Width)
    BY ScoringAssumption, FS_Interval
  <2> DEFINE f == [p \in (hawks \X Directions) \X (2..Width) |-> <<p[1][1], p[1][2], p[2]>>]
  <2>4. IsFiniteSet((hawks \X Directions) \X (2..Width))
    BY <2>1, <2>2, <2>3, FS_Product
  <2>5. f \in Surjection((hawks \X Directions) \X (2..Width), A)
    <3>1. ASSUME NEW p \in (hawks \X Directions) \X (2..Width) PROVE f[p] \in A
      OBVIOUS
    <3>2. ASSUME NEW y \in A PROVE \E p \in (hawks \X Directions) \X (2..Width) : f[p] = y
      <4>1. <<<<y[1], y[2]>>, y[3]>> \in (hawks \X Directions) \X (2..Width)
        OBVIOUS
      <4>2. f[<<<<y[1], y[2]>>, y[3]>>] = y
        BY <4>1
      <4> QED BY <4>1, <4>2
    <3> HIDE DEF A
    <3>3. f \in [(hawks \X Directions) \X (2..Width) -> A]
      BY <3>1
    <3> HIDE DEF f
    <3> QED BY <3>2, <3>3 DEF Surjection
  <2> HIDE DEF f, A
  <2> QED BY <2>4, <2>5, FS_Surjection
<1>2. IsFiniteSet(R)
  <2> HIDE DEF A
  <2> QED BY <1>1, FS_Subset
<1>3. L = {line(x) : x \in R}
  BY DEF LinesOfSight
<1>4. \A x \in R : /\ line(x).ends \in (SUBSET hawks) \ {{}}
                   /\ Entry(<<0, 4, 7, 9>>, Cardinality(Types(b, line(x).between))) \in Nat
  <2> SUFFICES ASSUME NEW x \in R
               PROVE  /\ line(x).ends \in (SUBSET hawks) \ {{}}
                      /\ Entry(<<0, 4, 7, 9>>, Cardinality(Types(b, line(x).between))) \in Nat
    OBVIOUS
  <2>1. line(x).ends = {x[1], Step(x[1], x[2], x[3])}
    BY DEF SightLine
  <2>2. x[1] \in hawks /\ Step(x[1], x[2], x[3]) \in hawks
    OBVIOUS
  <2>3. Cardinality(Types(b, line(x).between)) \in Nat
    BY TypesFinite
  <2>4. <<0, 4, 7, 9>> \in Seq(Nat) \ {<<>>}
    OBVIOUS
  <2> HIDE DEF R, line
  <2> QED BY <2>1, <2>2, <2>3, <2>4, EntryIs
<1> HIDE DEF R, line
<1>5. IsFiniteSet(L)
  <2> DEFINE f == [x \in R |-> line(x)]
  <2>1. f \in Surjection(R, L)
    BY <1>3 DEF Surjection
  <2> QED BY <1>2, <2>1, FS_Surjection
<1>6. HawkEdges(b, hawks) = {entry(l) : l \in L}
  BY DEF HawkEdges
<1>7. \A l \in L : entry(l)[1] \in (SUBSET hawks) \ {{}} /\ entry(l)[2] \in Nat
  BY <1>3, <1>4
<1> HIDE DEF entry, L
<1>8. IsFiniteSet(HawkEdges(b, hawks))
  <2> DEFINE f == [l \in L |-> entry(l)]
  <2>1. f \in Surjection(L, HawkEdges(b, hawks))
    BY <1>6 DEF Surjection
  <2> QED BY <1>5, <2>1, FS_Surjection
<1> QED BY <1>6, <1>7, <1>8

\* Two foxes next to each other.
LEMMA FoxEdgesAre ==
  ASSUME NEW b, NEW foxes \in SUBSET Cells
  PROVE  /\ IsFiniteSet(FoxEdges(b, foxes))
         /\ \A g \in FoxEdges(b, foxes) : g[1] \in (SUBSET foxes) \ {{}} /\ g[2] \in Nat
<1> DEFINE U == {T \in SUBSET foxes : Cardinality(T) = 2 /\ Clique(T)}
           entry(T) == <<T, Entry(<<0, 5, 7, 9, 11>>, Doubled(b, Around(T)))>>
<1>1. IsFiniteSet(U)
  <2>1. IsFiniteSet(foxes)
    BY ScoringAssumption, FS_Subset
  <2>2. IsFiniteSet(SUBSET foxes)
    BY <2>1, FS_SUBSET
  <2>3. U \subseteq SUBSET foxes
    OBVIOUS
  <2> QED BY <2>2, <2>3, FS_Subset
<1>2. FoxEdges(b, foxes) = {entry(T) : T \in U}
  BY DEF FoxEdges
<1>3. \A T \in U : T # {}
  BY FS_EmptySet
<1>4. \A T \in U : entry(T)[2] \in Nat
  <2> SUFFICES ASSUME NEW T \in U PROVE Entry(<<0, 5, 7, 9, 11>>, Doubled(b, Around(T))) \in Nat
    OBVIOUS
  <2>1. Doubled(b, Around(T)) \in Nat
    BY DoubledType
  <2>2. <<0, 5, 7, 9, 11>> \in Seq(Nat) \ {<<>>}
    OBVIOUS
  <2> QED BY <2>1, <2>2, EntryIs
<1>5. IsFiniteSet(FoxEdges(b, foxes))
  <2> HIDE DEF U, entry
  <2> DEFINE f == [T \in U |-> entry(T)]
  <2>1. f \in Surjection(U, FoxEdges(b, foxes))
    BY <1>2 DEF Surjection
  <2> QED BY <1>1, <2>1, FS_Surjection
<1> QED BY <1>2, <1>3, <1>4, <1>5

\* A board with an exact score has the best one.
LEMMA ExactIsOptimal == BoardInv /\ ScoreExact => ScoresOptimal
<1> SUFFICES ASSUME BoardInv, ScoreExact PROVE ScoresOptimal
  OBVIOUS
<1> DEFINE hawks == Positions(board, "hawk")
           foxes == Positions(board, "fox")
           elk == Positions(board, "elk")
<1>1. /\ IsFiniteSet(DOMAIN board)
      /\ \A s : Positions(board, s) \in SUBSET Cells /\ IsFiniteSet(Positions(board, s))
  <2>1. IsFiniteSet(DOMAIN board)
    BY ScoringAssumption, FS_Subset DEF BoardInv
  <2>2. \A s : Positions(board, s) \subseteq DOMAIN board
    BY DEF Positions
  <2> QED BY <2>1, <2>2, FS_Subset DEF BoardInv
<1>2. \A s \in Species : cards[s] \in Cards /\ score[s] = ScoreWildlife(board, cards[s], s)
  BY DEF BoardInv, ScoreExact, ScoreBoard
<1>3. score["elk"] = BestPacking(elk, ElkGroups(elk, cards["elk"]))
  <2>1. score["elk"] = MaximizeDisjointGroups(elk, ElkGroups(elk, cards["elk"]))
    BY <1>2 DEF Species, ScoreWildlife, ScoreElk
  <2>2. IsGroups(ElkGroups(elk, cards["elk"]), elk)
    BY <1>1, <1>2, ElkGroupsAre DEF Species
  <2> QED BY <2>1, <2>2, SearchIsBest
<1>4. LinesOfSight(hawks) = HawkLines(hawks)
  BY <1>1, LinesAgree
<1>5. ASSUME cards["hawk"] = "D"
      PROVE  score["hawk"] = BestPacking(hawks, HawkEdges(board, hawks) \cup Alone(hawks))
  <2>1. score["hawk"] = MaximumWeightMatching(hawks, HawkEdges(board, hawks))
    BY <1>2, <1>5 DEF Species, ScoreWildlife, ScoreHawks
  <2>2. /\ IsFiniteSet(HawkEdges(board, hawks))
        /\ \A g \in HawkEdges(board, hawks) : g[1] \in (SUBSET hawks) \ {{}} /\ g[2] \in Nat
    BY <1>1, HawkEdgesAre
  <2> QED BY <1>1, <2>1, <2>2, EdgesAreGroups
<1>6. ASSUME cards["fox"] = "D"
      PROVE  score["fox"] = BestPacking(foxes, FoxEdges(board, foxes) \cup Alone(foxes))
  <2>1. score["fox"] = MaximumWeightMatching(foxes, FoxEdges(board, foxes))
    BY <1>2, <1>6 DEF Species, ScoreWildlife, ScoreFoxes
  <2>2. /\ IsFiniteSet(FoxEdges(board, foxes))
        /\ \A g \in FoxEdges(board, foxes) : g[1] \in (SUBSET foxes) \ {{}} /\ g[2] \in Nat
    BY <1>1, FoxEdgesAre
  <2> QED BY <1>1, <2>1, <2>2, EdgesAreGroups
<1> QED BY <1>3, <1>4, <1>5, <1>6 DEF ScoresOptimal

\* The searches find the best score of every board that is reached, and both
\* programs see the same lines of sight on it.
THEOREM ScoresAreOptimal == ScoringSpec => []ScoresOptimal
<1>1. ScoringSpec => [](BoardInv /\ ScoreExact)
  BY ScoresKept
<1> QED BY <1>1, ExactIsOptimal, PTL

-----------------------------------------------------------------------------
(* WildlifeProfiles: sums over groups of tokens.                            *)

\* Groups and sums of groups: a number of tokens, a score and a number of edges.
Triples == Nat \X Nat \X Nat

\* Groups of one token or more: their size, a score, and edges.
IsTriples(groups) == IsFiniteSet(groups) /\ groups \subseteq Triples /\ \A g \in groups : g[1] > 0

Added(x, g) == <<x[1] + g[1], x[2] + g[2], x[3] + g[3]>>

\* The sums with all of used tokens in groups.
SumsUpTo(sums, count, groups) ==
  /\ sums[0] = {<<0, 0, 0>>}
  /\ \A used \in 1..count :
       sums[used] = UNION {{Added(x, g) : x \in sums[used - g[1]]} : g \in {h \in groups : h[1] <= used}}
  /\ \A used \in 0..count : \A x \in sums[used] : x[1] = used

\* GroupSums is a union of levels, each of them built from the ones below it.
LEMMA SumsExist ==
  ASSUME NEW count \in Nat, NEW groups, IsTriples(groups)
  PROVE  \E sums \in [0..count -> SUBSET Triples] :
           /\ GroupSums(count, groups) = UNION {sums[used] : used \in 0..count}
           /\ SumsUpTo(sums, count, groups)
<1> DEFINE T == SUBSET Triples
           F == [0..count -> T]
           value(u, s) ==
             IF u = 0 THEN {<<0, 0, 0>>}
             ELSE UNION {{<<u, x[2] + g[2], x[3] + g[3]>> : x \in s[u - g[1]]} : g \in {h \in groups : h[1] <= u}}
           Eqn(s) == s = [u \in 0..count |-> value(u, s)]
           sums == CHOOSE s : Eqn(s)
           step == [p \in (0..count) \X F |-> value(p[1], p[2])]
<1>1. GroupSums(count, groups) = UNION {sums[used] : used \in 0..count}
  BY DEF GroupSums
<1>2. ASSUME NEW u \in 0..count, NEW s, \A v \in 0..(u - 1) : s[v] \in T PROVE value(u, s) \in T
  <2>1. CASE u = 0
    BY <2>1 DEF Triples
  <2>2. CASE u # 0
    <3>1. ASSUME NEW g \in groups, g[1] <= u, NEW x \in s[u - g[1]]
          PROVE  <<u, x[2] + g[2], x[3] + g[3]>> \in Triples
      <4>1. g \in Triples /\ g[1] > 0
        BY DEF IsTriples
      <4>2. u - g[1] \in 0..(u - 1)
        BY <3>1, <4>1 DEF Triples
      <4>3. x \in Triples
        BY <1>2, <3>1, <4>2
      <4> QED BY <4>1, <4>3 DEF Triples
    <3> QED BY <2>2, <3>1
  <2> QED BY <2>1, <2>2
<1>3. ASSUME NEW u \in 0..count, NEW s, NEW t, \A v \in 0..(u - 1) : s[v] = t[v]
      PROVE  value(u, s) = value(u, t)
  <2>1. \A g \in {h \in groups : h[1] <= u} : u # 0 => u - g[1] \in 0..(u - 1)
    BY DEF IsTriples, Triples
  <2>2. \A g \in {h \in groups : h[1] <= u} : u # 0 => s[u - g[1]] = t[u - g[1]]
    BY <1>3, <2>1
  <2> QED BY <2>2
<1>4. ASSUME NEW s, Eqn(s) PROVE s = [u \in 0..count |-> s[u]] /\ \A u \in 0..count : s[u] = value(u, s)
  <2> HIDE DEF value
  <2> QED BY <1>4
<1> HIDE DEF value
<1>5. step \in [(0..count) \X F -> T]
  <2> SUFFICES ASSUME NEW p \in (0..count) \X F PROVE value(p[1], p[2]) \in T
    OBVIOUS
  <2>1. \A v \in 0..(p[1] - 1) : p[2][v] \in T
    OBVIOUS
  <2> QED BY <1>2, <2>1
<1>6. Early(step, count, F)
  <2> SUFFICES ASSUME NEW u \in 0..count, NEW g \in F, NEW h \in F, \A v \in 0..(u - 1) : g[v] = h[v]
               PROVE  step[<<u, g>>] = step[<<u, h>>]
    BY DEF Early
  <2>1. value(u, g) = value(u, h)
    BY <1>3
  <2> HIDE DEF F
  <2> QED BY <2>1
<1>7. PICK it \in F : \A u \in 0..count : it[u] = step[<<u, it>>]
  <2>1. T # {}
    OBVIOUS
  <2>2. ASSUME NEW once, once \in [(0..count) \X [0..count -> T] -> T], Early(once, count, [0..count -> T])
        PROVE  \E it \in [0..count -> T] : Unrolls(it, once, count)
    <3> HIDE DEF T
    <3> QED BY <2>1, <2>2, CourseRecursion
  <2> HIDE DEF step, T
  <2>3. \E it \in F : Unrolls(it, step, count)
    BY <1>5, <1>6, <2>2
  <2> QED BY <2>3 DEF Unrolls
<1>8. Eqn(it)
  <2>1. \A u \in 0..count : it[u] = value(u, it)
    <3> HIDE DEF F
    <3> QED BY <1>7
  <2>2. it = [u \in 0..count |-> it[u]]
    OBVIOUS
  <2> HIDE DEF F
  <2> QED BY <2>1, <2>2
<1>9. Eqn(sums)
  <2> HIDE DEF Eqn
  <2> QED BY <1>8
<1> HIDE DEF sums, Eqn
<1>10. sums = [u \in 0..count |-> sums[u]] /\ \A u \in 0..count : sums[u] = value(u, sums)
  BY <1>4, <1>9
<1>11. \A u \in 0..count : sums[u] \in T
  <2> DEFINE Good == {u \in 0..count : sums[u] \in T}
  <2>1. \A u \in 0..count : (\A v \in 0..(u - 1) : v \in Good) => u \in Good
    <3> SUFFICES ASSUME NEW u \in 0..count, \A v \in 0..(u - 1) : v \in Good PROVE value(u, sums) \in T
      BY <1>10
    <3> HIDE DEF T
    <3> QED BY <1>2
  <2> HIDE DEF Good
  <2>2. 0..count \subseteq Good
    BY <2>1, SmallerNumbers
  <2> QED BY <2>2 DEF Good
<1>12. sums \in F
  BY <1>10, <1>11
<1>13. \A u \in 0..count : \A x \in sums[u] : x[1] = u
  BY <1>10 DEF value
<1>14. sums[0] = {<<0, 0, 0>>}
  BY <1>10 DEF value
<1>15. ASSUME NEW u \in 1..count
       PROVE  sums[u] = UNION {{Added(x, g) : x \in sums[u - g[1]]} : g \in {h \in groups : h[1] <= u}}
  <2>1. ASSUME NEW g \in {h \in groups : h[1] <= u}, NEW x \in sums[u - g[1]]
        PROVE  <<u, x[2] + g[2], x[3] + g[3]>> = Added(x, g)
    <3>1. g[1] \in Nat /\ u - g[1] \in 0..count
      BY DEF IsTriples, Triples
    <3>2. x[1] = u - g[1]
      BY <1>13, <3>1
    <3> QED BY <3>1, <3>2 DEF Added
  <2>2. sums[u] = UNION {{<<u, x[2] + g[2], x[3] + g[3]>> : x \in sums[u - g[1]]} : g \in {h \in groups : h[1] <= u}}
    BY <1>10 DEF value
  <2>3. \A g \in {h \in groups : h[1] <= u} :
          {<<u, x[2] + g[2], x[3] + g[3]>> : x \in sums[u - g[1]]} = {Added(x, g) : x \in sums[u - g[1]]}
    BY <2>1
  <2> QED BY <2>2, <2>3
<1>16. SumsUpTo(sums, count, groups)
  BY <1>13, <1>14, <1>15 DEF SumsUpTo
<1> QED BY <1>1, <1>12, <1>16

\* Each sum has its numbers, and no more tokens than there are.
LEMMA SumsTyped ==
  ASSUME NEW count \in Nat, NEW groups, IsTriples(groups), NEW x \in GroupSums(count, groups)
  PROVE  x \in Triples /\ x[1] <= count
<1>1. PICK sums \in [0..count -> SUBSET Triples] :
        GroupSums(count, groups) = UNION {sums[used] : used \in 0..count} /\ SumsUpTo(sums, count, groups)
  BY SumsExist
<1>2. PICK used \in 0..count : x \in sums[used]
  BY <1>1
<1>3. x[1] = used
  BY <1>1, <1>2 DEF SumsUpTo
<1> QED BY <1>1, <1>2, <1>3

\* Nothing is a sum, and a sum with one more group is a sum.
LEMMA SumsGrow ==
  ASSUME NEW count \in Nat, NEW groups, IsTriples(groups)
  PROVE  /\ <<0, 0, 0>> \in GroupSums(count, groups)
         /\ \A x \in GroupSums(count, groups), g \in groups :
              x[1] + g[1] <= count => Added(x, g) \in GroupSums(count, groups)
<1>1. PICK sums \in [0..count -> SUBSET Triples] :
        GroupSums(count, groups) = UNION {sums[used] : used \in 0..count} /\ SumsUpTo(sums, count, groups)
  BY SumsExist
<1>2. <<0, 0, 0>> \in GroupSums(count, groups)
  <2>1. <<0, 0, 0>> \in sums[0] /\ 0 \in 0..count
    BY <1>1 DEF SumsUpTo
  <2> QED BY <1>1, <2>1
<1>3. ASSUME NEW x \in GroupSums(count, groups), NEW g \in groups, x[1] + g[1] <= count
      PROVE  Added(x, g) \in GroupSums(count, groups)
  <2>1. PICK used \in 0..count : x \in sums[used]
    BY <1>1
  <2>2. x[1] = used
    BY <1>1, <2>1 DEF SumsUpTo
  <2>3. g[1] \in Nat /\ g[1] > 0
    BY DEF IsTriples, Triples
  <2> DEFINE u == used + g[1]
  <2>4. u \in 1..count /\ u - g[1] = used /\ g[1] <= u
    BY <1>3, <2>2, <2>3
  <2> HIDE DEF u
  <2>5. sums[u] = UNION {{Added(y, h) : y \in sums[u - h[1]]} : h \in {k \in groups : k[1] <= u}}
    BY <1>1, <2>4 DEF SumsUpTo
  <2>6. Added(x, g) \in {Added(y, g) : y \in sums[u - g[1]]}
    BY <2>1, <2>4
  <2>7. Added(x, g) \in sums[u]
    BY <2>4, <2>5, <2>6
  <2> QED BY <1>1, <2>4, <2>7
<1> QED BY <1>2, <1>3

\* And there are no others.
LEMMA SumsLeast ==
  ASSUME NEW count \in Nat, NEW groups, IsTriples(groups), NEW Q, <<0, 0, 0>> \in Q,
         \A x \in Q \cap Triples, g \in groups : x[1] + g[1] <= count => Added(x, g) \in Q
  PROVE  GroupSums(count, groups) \subseteq Q
<1>1. PICK sums \in [0..count -> SUBSET Triples] :
        GroupSums(count, groups) = UNION {sums[used] : used \in 0..count} /\ SumsUpTo(sums, count, groups)
  BY SumsExist
<1> DEFINE Good == {used \in 0..count : sums[used] \subseteq Q}
<1>2. ASSUME NEW u \in 0..count, \A v \in 0..(u - 1) : v \in Good PROVE u \in Good
  <2>1. CASE u = 0
    BY <1>1, <2>1 DEF SumsUpTo
  <2>2. CASE u # 0
    <3>1. sums[u] = UNION {{Added(y, h) : y \in sums[u - h[1]]} : h \in {k \in groups : k[1] <= u}}
      BY <1>1, <2>2 DEF SumsUpTo
    <3>2. ASSUME NEW h \in groups, h[1] <= u, NEW y \in sums[u - h[1]] PROVE Added(y, h) \in Q
      <4>1. h[1] \in Nat /\ h[1] > 0
        BY DEF IsTriples, Triples
      <4>2. u - h[1] \in 0..(u - 1) /\ u - h[1] \in 0..count
        BY <3>2, <4>1
      <4>3. y \in Q /\ y \in Triples /\ y[1] = u - h[1]
        BY <1>1, <1>2, <3>2, <4>2 DEF SumsUpTo
      <4>4. y[1] + h[1] <= count
        BY <4>1, <4>3
      <4> QED BY <4>3, <4>4
    <3>3. \A z \in sums[u] : z \in Q
      BY <3>1, <3>2
    <3> QED BY <3>3
  <2> QED BY <2>1, <2>2
<1>3. 0..count \subseteq Good
  <2> HIDE DEF Good
  <2> QED BY <1>2, SmallerNumbers
<1>4. \A u \in 0..count : sums[u] \subseteq Q
  BY <1>3
<1> QED BY <1>1, <1>4

\* Finitely many groups have finitely many sums.
LEMMA SumsFinite ==
  ASSUME NEW count \in Nat, NEW groups, IsTriples(groups)
  PROVE  IsFiniteSet(GroupSums(count, groups))
<1>1. PICK sums \in [0..count -> SUBSET Triples] :
        GroupSums(count, groups) = UNION {sums[used] : used \in 0..count} /\ SumsUpTo(sums, count, groups)
  BY SumsExist
<1> DEFINE Good == {used \in 0..count : IsFiniteSet(sums[used])}
<1>2. ASSUME NEW u \in 0..count, \A v \in 0..(u - 1) : v \in Good PROVE u \in Good
  <2>1. CASE u = 0
    <3> DEFINE zero == <<0, 0, 0>>
    <3>1. sums[0] = {zero}
      BY <1>1 DEF SumsUpTo
    <3> HIDE DEF zero
    <3>2. IsFiniteSet({zero})
      BY FS_Singleton
    <3> QED BY <2>1, <3>1, <3>2
  <2>2. CASE u # 0
    <3> DEFINE G == {k \in groups : k[1] <= u}
               part(h) == {Added(y, h) : y \in sums[u - h[1]]}
               A == {part(h) : h \in G}
    <3>1. sums[u] = UNION A
      BY <1>1, <2>2 DEF SumsUpTo
    <3>2. ASSUME NEW h \in G PROVE IsFiniteSet(part(h))
      <4>1. h[1] \in Nat /\ h[1] > 0
        BY DEF IsTriples, Triples
      <4>2. u - h[1] \in 0..(u - 1)
        BY <4>1
      <4>3. IsFiniteSet(sums[u - h[1]])
        BY <1>2, <4>2
      <4> DEFINE f == [y \in sums[u - h[1]] |-> Added(y, h)]
      <4>4. part(h) = {f[y] : y \in sums[u - h[1]]}
        OBVIOUS
      <4> HIDE DEF f
      <4> DEFINE X == sums[u - h[1]]
      <4>5. IsFiniteSet(X) /\ part(h) = {f[y] : y \in X}
        BY <4>3, <4>4
      <4> HIDE DEF X, part
      <4> QED BY <4>5, FiniteImage
    <3>3. IsFiniteSet(G)
      BY FS_Subset DEF IsTriples
    <3> HIDE DEF part, G
    <3>4. IsFiniteSet(A)
      <4> DEFINE f == [h \in G |-> part(h)]
      <4>1. A = {f[h] : h \in G}
        OBVIOUS
      <4> HIDE DEF f
      <4> QED BY <3>3, <4>1, FiniteImage
    <3>5. \A B \in A : IsFiniteSet(B)
      BY <3>2
    <3> HIDE DEF A
    <3>6. IsFiniteSet(sums[u])
      BY <3>1, <3>4, <3>5, FS_UNION
    <3> QED BY <3>6
  <2> QED BY <2>1, <2>2
<1>3. 0..count \subseteq Good
  <2> HIDE DEF Good
  <2> QED BY <1>2, SmallerNumbers
<1> DEFINE B == {sums[used] : used \in 0..count}
<1>4. IsFiniteSet(B)
  <2>1. IsFiniteSet(0..count)
    BY FS_Interval
  <2> QED BY <2>1, FiniteImage
<1>5. \A A \in B : IsFiniteSet(A)
  BY <1>3
<1> HIDE DEF B
<1>6. IsFiniteSet(UNION B)
  BY <1>4, <1>5, FS_UNION
<1> QED BY <1>1, <1>6 DEF B

\* Disjoint groups of tokens are one of the sums.
Disjoint(P, C) == P \subseteq (SUBSET C) \ {{}} /\ \A A \in P : \A B \in P : A # B => A \cap B = {}

Fitted(P, groups, m, w) ==
  \A T \in P : \E g \in groups : g[1] = Cardinality(T) /\ g[2] = w[T] /\ g[3] <= m[T]

PacksTo(P, C, groups, m, w) ==
  \E x \in GroupSums(Cardinality(C), groups) :
    x[1] = Cardinality(UNION P) /\ x[2] = SumFunction(w) /\ x[3] <= m[C]

\* A packing of parts that are all offered is one of the sums of groups.
LEMMA PackingSums ==
  ASSUME NEW C, IsFiniteSet(C), NEW groups, IsTriples(groups), NEW m, Measures(m, C),
         NEW P, Disjoint(P, C), NEW w \in [P -> Nat], Fitted(P, groups, m, w)
  PROVE  PacksTo(P, C, groups, m, w)
<1> DEFINE N == Cardinality(C)
           on(R) == SumFunction([T \in R |-> w[T]])
           Fits(x, R) == x[1] = Cardinality(UNION R) /\ x[2] = on(R) /\ x[3] <= m[UNION R]
           Good == {R \in SUBSET P : \E x \in GroupSums(N, groups) : Fits(x, R)}
<1> USE DEF Disjoint, Fitted
<1>0. N \in Nat /\ IsFiniteSet(P) /\ w \in [P -> Int]
  <2>1. IsFiniteSet(SUBSET C) /\ P \subseteq SUBSET C
    BY FS_SUBSET
  <2>2. IsFiniteSet(P)
    BY <2>1, FS_Subset
  <2> QED BY <2>2, FS_CardinalityType
<1>a. \A S \in SUBSET C : IsFiniteSet(S) /\ Cardinality(S) \in Nat /\ Cardinality(S) <= N /\ m[S] \in Nat
  BY FS_Subset, FS_CardinalityType DEF Measures
<1>b. \A R \in SUBSET P : UNION R \in SUBSET C
  OBVIOUS
<1>1. {} \in Good
  <2>1. on({}) = 0
    <3>1. [x \in {} |-> w[x]] = [x \in {} |-> 0]
      OBVIOUS
    <3> QED BY <3>1, SumOfNone
  <2>2. UNION {} = {} /\ Cardinality({}) = 0 /\ m[{}] \in Nat
    BY <1>a, FS_EmptySet
  <2>3. <<0, 0, 0>> \in GroupSums(N, groups)
    BY <1>0, SumsGrow
  <2> DEFINE x == <<0, 0, 0>>
  <2>4. x[1] = 0 /\ x[2] = 0 /\ x[3] = 0
    OBVIOUS
  <2> HIDE DEF on, x
  <2>5. x[3] <= m[UNION {}]
    <3>1. m[UNION {}] \in Nat
      BY <2>2
    <3> QED BY <2>4, <3>1
  <2>6. Fits(x, {})
    BY <2>1, <2>2, <2>4, <2>5
  <2> QED BY <2>3, <2>6 DEF x
<1>2. ASSUME NEW R \in SUBSET P, R # {}, Rest(R) \in Good PROVE R \in Good
  <2> DEFINE T == Chosen(R) Q == R \ {T} U == UNION R V == UNION Q
  <2>1. T \in R /\ Q = Rest(R) /\ Q \in SUBSET P /\ T \in P
    BY <1>0, <1>2, RestIs DEF Rest
  <2>2. PICK x \in GroupSums(N, groups) : Fits(x, Q)
    BY <1>2, <2>1
  <2>3. PICK g \in groups : g[1] = Cardinality(T) /\ g[2] = w[T] /\ g[3] <= m[T]
    BY <2>1
  <2>4. on(R) = on(Q) + w[T]
    <3>1. R \in SUBSET P /\ T \in R
      BY <2>1
    <3>2. SumFunction([A \in R |-> w[A]]) = SumFunction([A \in R \ {T} |-> w[A]]) + w[T]
      <4> HIDE DEF T, on, Disjoint, Fitted
      <4> QED BY <1>0, <3>1, SumSteps
    <3> QED BY <3>2
  <2>5. \A A \in Q : A \cap T = {}
    BY <2>1
  <2>6. U \in SUBSET C /\ T \in SUBSET U /\ U \ T = V /\ V \cap T = {} /\ U = V \cup T
    <3>1. U = V \cup T
      BY <2>1
    <3>2. V \cap T = {}
      BY <2>5
    <3>3. U \in SUBSET C
      BY <1>b
    <3> HIDE DEF U, V
    <3> QED BY <3>1, <3>2, <3>3
  <2>7. m[T] + m[V] <= m[U]
    BY <2>6 DEF Measures
  <2> HIDE DEF U, V, T, Q, on
  <2>8. Cardinality(U) = Cardinality(V) + Cardinality(T)
    <3>1. IsFiniteSet(V) /\ IsFiniteSet(T) /\ V \cap T = {}
      BY <1>a, <2>6
    <3>2. Cardinality(V) \in Nat /\ Cardinality(T) \in Nat
      BY <3>1, FS_CardinalityType
    <3>3. Cardinality(V \cup T) = Cardinality(V) + Cardinality(T) - Cardinality(V \cap T)
      BY <3>1, FS_Union
    <3>4. Cardinality(V \cap T) = 0
      BY <3>1, FS_EmptySet
    <3>5. U = V \cup T
      BY <2>6
    <3> QED BY <3>2, <3>3, <3>4, <3>5
  <2>9. x \in Triples /\ g \in Triples
    BY <1>0, SumsTyped DEF IsTriples
  <2>10. x[1] = Cardinality(V) /\ x[2] = on(Q) /\ x[3] <= m[V]
    BY <2>2 DEF V
  <2>11. V \in SUBSET C /\ T \in SUBSET C
    BY <2>6
  <2>12. /\ m[U] \in Nat /\ m[V] \in Nat /\ m[T] \in Nat /\ Cardinality(U) <= N
         /\ Cardinality(V) \in Nat /\ Cardinality(T) \in Nat
    BY <1>a, <2>6, <2>11
  <2>13. x[1] + g[1] <= N
    BY <2>3, <2>8, <2>10, <2>12
  <2>14. Added(x, g) \in GroupSums(N, groups)
    BY <1>0, <2>13, SumsGrow
  <2> DEFINE y == Added(x, g)
  <2>15. y[1] = Cardinality(U)
    BY <2>3, <2>8, <2>10 DEF Added
  <2>16. y[2] = on(R)
    BY <2>3, <2>4, <2>10 DEF Added
  <2>17. y[3] <= m[U]
    BY <2>3, <2>7, <2>9, <2>10, <2>12 DEF Added, Triples
  <2> HIDE DEF y
  <2>18. Fits(y, R)
    BY <2>15, <2>16, <2>17 DEF U
  <2> QED BY <2>14, <2>18 DEF y
<1>3. P \in Good
  <2> HIDE DEF Good
  <2>1. SUBSET P \subseteq Good
    BY <1>0, <1>1, <1>2, ReachesSubsets
  <2> QED BY <2>1
<1>4. on(P) = SumFunction(w)
  <2>1. [T \in P |-> w[T]] = w
    OBVIOUS
  <2> QED BY <2>1
<1> HIDE DEF on
<1>5. PICK x \in GroupSums(N, groups) : Fits(x, P)
  BY <1>3
<1>6. m[UNION P] <= m[C]
  <2>1. UNION P \in SUBSET C /\ C \in SUBSET C /\ C \ UNION P \in SUBSET C
    BY <1>b
  <2>2. m[UNION P] + m[C \ UNION P] <= m[C]
    BY <2>1 DEF Measures
  <2> QED BY <1>a, <2>1, <2>2
<1>7. x \in Triples /\ m[UNION P] \in Nat /\ m[C] \in Nat
  BY <1>0, <1>a, <1>b, SumsTyped
<1>8. x[3] <= m[C]
  BY <1>5, <1>6, <1>7 DEF Triples
<1> QED BY <1>4, <1>5, <1>8 DEF PacksTo

-----------------------------------------------------------------------------
(* WildlifeRules: the best partition into groups.                           *)

\* The smaller one of two numbers.
LEMMA LeastIs ==
  ASSUME NEW i \in Int, NEW j \in Int
  PROVE  Least(i, j) \in Int /\ Least(i, j) <= i /\ Least(i, j) <= j /\ Least(i, j) \in {i, j}
BY DEF Least

\* best[used] is no worse than with a token less, or with a group less.
Partitions(best, table, count) ==
  /\ best[0] = 0
  /\ \A used \in 1..count :
       /\ best[used - 1] <= best[used]
       /\ \A size \in 1..Least(used, Len(table) - 1) : table[size + 1] + best[used - size] <= best[used]

\* PartitionUpper is the last value of a table that is filled from 0 on.
LEMMA PartitionIs ==
  ASSUME NEW count \in Nat, NEW table \in Seq(Nat), table # <<>>
  PROVE  \E best \in [0..count -> Nat] :
           PartitionUpper(count, table) = best[count] /\ Partitions(best, table, count)
<1> DEFINE F == [0..count -> Nat]
           options(u, s) == {s[u - 1]} \cup {table[size + 1] + s[u - size] : size \in 1..Least(u, Len(table) - 1)}
           value(u, s) == IF u = 0 THEN 0 ELSE Max(options(u, s))
           Eqn(s) == s = [u \in 0..count |-> value(u, s)]
           best == CHOOSE s : Eqn(s)
           step == [p \in (0..count) \X F |-> value(p[1], p[2])]
<1>1. PartitionUpper(count, table) = best[count]
  BY DEF PartitionUpper
<1>2. ASSUME NEW u \in 1..count, NEW s, \A v \in 0..(u - 1) : s[v] \in Nat
      PROVE  /\ options(u, s) \subseteq Nat /\ value(u, s) \in Nat
             /\ s[u - 1] <= value(u, s)
             /\ \A size \in 1..Least(u, Len(table) - 1) : table[size + 1] + s[u - size] <= value(u, s)
  <2> DEFINE I == 1..Least(u, Len(table) - 1)
  <2>1. Len(table) \in Nat /\ Len(table) > 0 /\ Least(u, Len(table) - 1) \in Int
        /\ Least(u, Len(table) - 1) <= u /\ Least(u, Len(table) - 1) <= Len(table) - 1
    <3>1. Len(table) \in Nat /\ Len(table) > 0 /\ Len(table) - 1 \in Int /\ u \in Int
      OBVIOUS
    <3> DEFINE L == Len(table) - 1
    <3>2. L \in Int
      BY <3>1
    <3> HIDE DEF L
    <3>3. Least(u, L) \in Int /\ Least(u, L) <= u /\ Least(u, L) <= L
      BY <3>1, <3>2, LeastIs
    <3> QED BY <3>1, <3>3 DEF L
  <2>2. \A size \in I : table[size + 1] \in Nat /\ s[u - size] \in Nat
    <3> SUFFICES ASSUME NEW size \in I PROVE table[size + 1] \in Nat /\ s[u - size] \in Nat
      OBVIOUS
    <3>1. size + 1 \in 1..Len(table) /\ u - size \in 0..(u - 1)
      BY <2>1
    <3> QED BY <1>2, <3>1
  <2>3. s[u - 1] \in Nat
    BY <1>2
  <2>4. options(u, s) \subseteq Nat
    BY <2>2, <2>3, SMTT(30)
  <2>5. IsFiniteSet(options(u, s))
    <3> DEFINE f == [size \in I |-> table[size + 1] + s[u - size]]
    <3>1. IsFiniteSet(I)
      BY <2>1, FS_Interval
    <3> DEFINE A == {f[size] : size \in I} B == {s[u - 1]}
    <3>2. IsFiniteSet(A)
      <4> HIDE DEF f, I
      <4> QED BY <3>1, FiniteImage
    <3>3. IsFiniteSet(B)
      BY FS_Singleton
    <3>4. options(u, s) = B \cup A
      OBVIOUS
    <3> HIDE DEF A, B
    <3> QED BY <3>2, <3>3, <3>4, FS_Union
  <2> DEFINE O == options(u, s)
  <2>6. s[u - 1] \in O /\ \A size \in I : table[size + 1] + s[u - size] \in O
    OBVIOUS
  <2>7. O \subseteq Nat /\ IsFiniteSet(O) /\ O # {}
    BY <2>4, <2>5, <2>6
  <2>8. value(u, s) = Max(O)
    BY DEF O
  <2> HIDE DEF O, options, value
  <2>9. Max(O) \in O /\ \A x \in O : x <= Max(O)
    BY <2>7, GreatestIn
  <2> QED BY <2>4, <2>6, <2>7, <2>8, <2>9
<1>3. value(0, best) = 0 /\ \A s : value(0, s) = 0
  OBVIOUS
<1>4. ASSUME NEW u \in 0..count, NEW s, NEW t, \A v \in 0..(u - 1) : s[v] = t[v]
      PROVE  value(u, s) = value(u, t)
  <2>1. CASE u = 0
    BY <2>1
  <2>2. CASE u # 0
    <3> DEFINE I == 1..Least(u, Len(table) - 1)
    <3>1. s[u - 1] = t[u - 1]
      BY <1>4, <2>2
    <3>2. \A size \in I : u - size \in 0..(u - 1)
      <4> DEFINE L == Len(table) - 1
      <4>1. L \in Int /\ u \in Int
        OBVIOUS
      <4> HIDE DEF L
      <4>2. Least(u, L) \in Int /\ Least(u, L) <= u
        BY <4>1, LeastIs
      <4> QED BY <4>1, <4>2 DEF L
    <3>3. \A size \in I : s[u - size] = t[u - size]
      BY <1>4, <3>2
    <3>4. options(u, s) = options(u, t)
      BY <3>1, <3>3
    <3> QED BY <3>4
  <2> QED BY <2>1, <2>2
<1>5. ASSUME NEW s, Eqn(s) PROVE s = [u \in 0..count |-> s[u]] /\ \A u \in 0..count : s[u] = value(u, s)
  <2> HIDE DEF value
  <2> QED BY <1>5
<1> HIDE DEF value, options
<1>6. step \in [(0..count) \X F -> Nat]
  <2> SUFFICES ASSUME NEW p \in (0..count) \X F PROVE value(p[1], p[2]) \in Nat
    OBVIOUS
  <2>1. CASE p[1] = 0
    BY <1>3, <2>1
  <2>2. CASE p[1] # 0
    <3>1. p[1] \in 1..count /\ \A v \in 0..(p[1] - 1) : p[2][v] \in Nat
      BY <2>2
    <3> QED BY <1>2, <3>1
  <2> QED BY <2>1, <2>2
<1>7. Early(step, count, F)
  <2> SUFFICES ASSUME NEW u \in 0..count, NEW g \in F, NEW h \in F, \A v \in 0..(u - 1) : g[v] = h[v]
               PROVE  step[<<u, g>>] = step[<<u, h>>]
    BY DEF Early
  <2>1. value(u, g) = value(u, h)
    BY <1>4
  <2> HIDE DEF F
  <2> QED BY <2>1
<1>8. PICK it \in F : \A u \in 0..count : it[u] = step[<<u, it>>]
  <2>1. ASSUME NEW once, once \in [(0..count) \X [0..count -> Nat] -> Nat], Early(once, count, [0..count -> Nat])
        PROVE  \E it \in [0..count -> Nat] : Unrolls(it, once, count)
    <3>1. Nat # {}
      OBVIOUS
    <3> QED BY <2>1, <3>1, CourseRecursion
  <2> HIDE DEF step
  <2>2. \E it \in F : Unrolls(it, step, count)
    BY <1>6, <1>7, <2>1
  <2> QED BY <2>2 DEF Unrolls
<1>9. Eqn(it)
  <2>1. \A u \in 0..count : it[u] = value(u, it)
    <3> HIDE DEF F
    <3> QED BY <1>8
  <2>2. it = [u \in 0..count |-> it[u]]
    OBVIOUS
  <2> HIDE DEF F
  <2> QED BY <2>1, <2>2
<1>10. Eqn(best)
  <2> HIDE DEF Eqn
  <2> QED BY <1>9
<1> HIDE DEF best, Eqn
<1>11. best = [u \in 0..count |-> best[u]] /\ \A u \in 0..count : best[u] = value(u, best)
  BY <1>5, <1>10
<1>12. \A u \in 0..count : best[u] \in Nat
  <2> DEFINE Good == {u \in 0..count : best[u] \in Nat}
  <2>1. ASSUME NEW u \in 0..count, \A v \in 0..(u - 1) : v \in Good PROVE u \in Good
    <3>1. CASE u = 0
      BY <1>3, <1>11, <3>1, SMTT(30)
    <3>2. CASE u # 0
      <4>1. value(u, best) \in Nat
        BY <1>2, <2>1, <3>2
      <4> QED BY <1>11, <4>1
    <3> QED BY <3>1, <3>2
  <2> HIDE DEF Good
  <2>2. 0..count \subseteq Good
    BY <2>1, SmallerNumbers
  <2> QED BY <2>2 DEF Good
<1>13. best \in [0..count -> Nat]
  BY <1>11, <1>12
<1>14. best[0] = 0
  <2>1. 0 \in 0..count
    OBVIOUS
  <2>2. best[0] = value(0, best)
    BY <1>11, <2>1
  <2> QED BY <1>3, <2>2
<1>15. ASSUME NEW u \in 1..count
       PROVE  /\ best[u - 1] <= best[u]
              /\ \A size \in 1..Least(u, Len(table) - 1) : table[size + 1] + best[u - size] <= best[u]
  <2>1. \A v \in 0..(u - 1) : best[v] \in Nat
    BY <1>12
  <2>2. best[u] = value(u, best)
    BY <1>11
  <2> QED BY <1>2, <2>1, <2>2
<1>16. Partitions(best, table, count)
  BY <1>14, <1>15 DEF Partitions
<1> QED BY <1>1, <1>13, <1>16

\* No sum of groups is worth more than the best partition.
LEMMA PartitionBounds ==
  ASSUME NEW count \in Nat, NEW table \in Seq(Nat), table # <<>>, NEW groups, IsTriples(groups),
         \A g \in groups : g[1] <= count => g[1] < Len(table) /\ g[2] <= table[g[1] + 1]
  PROVE  /\ PartitionUpper(count, table) \in Nat
         /\ \A x \in GroupSums(count, groups) : x[2] <= PartitionUpper(count, table)
<1>1. PICK best \in [0..count -> Nat] :
        PartitionUpper(count, table) = best[count] /\ Partitions(best, table, count)
  BY PartitionIs
<1> DEFINE Q == {x \in Triples : x[1] <= count /\ x[2] <= best[x[1]]}
<1>2. <<0, 0, 0>> \in Q
  BY <1>1 DEF Triples, Partitions
<1>3. ASSUME NEW x \in Q \cap Triples, NEW g \in groups, x[1] + g[1] <= count PROVE Added(x, g) \in Q
  <2>1. g \in Triples /\ g[1] > 0
    BY DEF IsTriples
  <2> DEFINE u == x[1] + g[1]
  <2>2. u \in 1..count /\ g[1] \in Nat /\ x[1] \in Nat /\ u - g[1] = x[1] /\ g[1] <= count
    BY <1>3, <2>1, SMTT(30) DEF Triples
  <2> HIDE DEF u
  <2> DEFINE k == g[1] L == Len(table)
  <2>3. k < L /\ g[2] <= table[k + 1]
    BY <2>2
  <2>a. L \in Nat /\ k \in Nat /\ k > 0 /\ u - k \in 0..count /\ u - k = x[1] /\ k <= u /\ u \in 1..count
    <3>1. L \in Nat
      OBVIOUS
    <3>2. k \in Nat /\ k > 0 /\ u \in 1..count /\ u - k = x[1] /\ x[1] \in Nat
      BY <2>1, <2>2
    <3> DEFINE i == x[1]
    <3> HIDE DEF k, L, i
    <3>3. u - k = i /\ i \in Nat
      BY <3>2 DEF i
    <3>4. u - k \in 0..count /\ k <= u
      BY <3>2, <3>3
    <3> QED BY <3>1, <3>2, <3>4
  <2> HIDE DEF k
  <2>4. k \in 1..Least(u, L - 1) /\ k + 1 \in 1..L
    <3> HIDE DEF L
    <3> QED BY <2>3, <2>a DEF Least
  <2>5. table[k + 1] + best[u - k] <= best[u]
    BY <1>1, <2>a, <2>4 DEF Partitions
  <2>6. table[k + 1] \in Nat /\ best[u - k] \in Nat /\ best[u] \in Nat
    <3>1. \A i \in 1..Len(table) : table[i] \in Nat
      OBVIOUS
    <3>2. table[k + 1] \in Nat
      BY <2>4, <3>1
    <3>3. u \in 0..count
      BY <2>a
    <3> QED BY <2>a, <3>2, <3>3
  <2>b. x[2] \in Nat /\ g[2] \in Nat /\ x[2] <= best[u - k]
    BY <2>1, <2>a DEF Triples
  <2>7. x[2] + g[2] <= best[u]
    <3> DEFINE a == x[2] b == g[2]
    <3>1. a \in Nat /\ b \in Nat /\ a <= best[u - k] /\ b <= table[k + 1]
      BY <2>3, <2>b
    <3> HIDE DEF a, b
    <3>2. a + b <= best[u]
      BY <2>5, <2>6, <3>1, SMTT(30)
    <3> QED BY <3>2 DEF a, b
  <2>8. Added(x, g) \in Triples /\ Added(x, g)[1] = u /\ Added(x, g)[2] = x[2] + g[2]
    BY <2>1, SMTT(30) DEF Triples, Added, u
  <2>9. u \in 1..count
    BY <2>a
  <2> HIDE DEF L
  <2> QED BY <2>7, <2>8, <2>9
<1>4. GroupSums(count, groups) \subseteq Q
  <2> HIDE DEF Q
  <2> QED BY <1>2, <1>3, SumsLeast
<1>5. \A k \in 0..count : best[k] <= best[count]
  <2> DEFINE K == {k \in 0..count : best[count - k] <= best[count]}
  <2>1. 0 \in K
    OBVIOUS
  <2>2. ASSUME NEW k \in 0..(count - 1), k \in K PROVE k + 1 \in K
    <3> DEFINE u == count - k
    <3>1. u \in 1..count /\ u - 1 = count - (k + 1) /\ u - 1 \in 0..count /\ k + 1 \in 0..count
      OBVIOUS
    <3>2. best[u - 1] <= best[u]
      BY <1>1, <3>1 DEF Partitions
    <3>3. best[u] <= best[count]
      BY <2>2
    <3>4. best[u - 1] \in Nat /\ best[u] \in Nat /\ best[count] \in Nat
      BY <3>1
    <3> HIDE DEF u
    <3>5. best[count - (k + 1)] <= best[count]
      BY <3>1, <3>2, <3>3, <3>4
    <3> QED BY <3>1, <3>5
  <2>3. 0..count \subseteq K
    <3> HIDE DEF K
    <3> QED BY <2>1, <2>2, ReachesAll
  <2> SUFFICES ASSUME NEW k \in 0..count PROVE best[k] <= best[count]
    OBVIOUS
  <2>4. count - k \in 0..count /\ count - (count - k) = k
    OBVIOUS
  <2>5. count - k \in K
    BY <2>3, <2>4
  <2> QED BY <2>4, <2>5
<1>6. ASSUME NEW x \in GroupSums(count, groups) PROVE x[2] <= best[count]
  <2>1. x \in Triples /\ x[1] <= count /\ x[2] <= best[x[1]]
    BY <1>4
  <2>2. x[1] \in 0..count /\ x[2] \in Nat
    BY <2>1 DEF Triples
  <2>3. best[x[1]] <= best[count] /\ best[x[1]] \in Nat /\ best[count] \in Nat
    BY <1>5, <2>2
  <2> QED BY <2>1, <2>2, <2>3
<1> QED BY <1>1, <1>6

\* The groups of a table.
LEMMA GroupsAre ==
  ASSUME NEW table \in Seq(Nat), NEW edges, \A k \in 1..(Len(table) - 1) : edges[k] \in Nat
  PROVE  /\ IsTriples(Groups(table, edges))
         /\ \A g \in Groups(table, edges) :
              g[1] \in 1..(Len(table) - 1) /\ g[2] = table[g[1] + 1] /\ g[3] = edges[g[1]] /\ g[2] > 0
         /\ \A k \in 1..(Len(table) - 1) :
              table[k + 1] > 0 => <<k, table[k + 1], edges[k]>> \in Groups(table, edges)
<1> DEFINE I == {k \in 1..(Len(table) - 1) : table[k + 1] > 0}
           f == [k \in I |-> <<k, table[k + 1], edges[k]>>]
           A == {f[k] : k \in I}
<1>1. Groups(table, edges) = A
  BY DEF Groups
<1>2. \A k \in I : k \in 1..(Len(table) - 1) /\ table[k + 1] \in Nat /\ table[k + 1] > 0 /\ edges[k] \in Nat
  OBVIOUS
<1>3. IsFiniteSet(A)
  <2>1. IsFiniteSet(1..(Len(table) - 1))
    BY FS_Interval
  <2>2. IsFiniteSet(I)
    BY <2>1, FS_Subset
  <2> HIDE DEF f, I
  <2> QED BY <2>2, FiniteImage
<1>4. \A g \in A : /\ g \in Triples /\ g[1] > 0
                   /\ g[1] \in 1..(Len(table) - 1) /\ g[2] = table[g[1] + 1] /\ g[3] = edges[g[1]] /\ g[2] > 0
  <2> SUFFICES ASSUME NEW g \in A
               PROVE  /\ g \in Triples /\ g[1] > 0
                      /\ g[1] \in 1..(Len(table) - 1) /\ g[2] = table[g[1] + 1] /\ g[3] = edges[g[1]] /\ g[2] > 0
    OBVIOUS
  <2>1. PICK k \in I : g = <<k, table[k + 1], edges[k]>>
    OBVIOUS
  <2> HIDE DEF f, I, A
  <2> QED BY <1>2, <2>1, SMTT(30) DEF Triples
<1>5. IsTriples(A)
  BY <1>3, <1>4 DEF IsTriples
<1>6. \A k \in 1..(Len(table) - 1) : table[k + 1] > 0 => <<k, table[k + 1], edges[k]>> \in A
  OBVIOUS
<1> HIDE DEF A
<1> QED BY <1>1, <1>4, <1>5, <1>6

-----------------------------------------------------------------------------
(* Neighbors and edges.                                                     *)

\* An edge joins a cell to one ahead of it.
Forward == {<<1, 0>>, <<0, 1>>, <<1, -1>>}

Within(S) == {p \in S \X S : \E d \in Forward : p[2] = Step(p[1], d, 1)}

\* The six cells around a cell.
LEMMA NeighborsAre ==
  ASSUME NEW c \in Int \X Int
  PROVE  /\ Neighbors(c) \subseteq Int \X Int /\ c \notin Neighbors(c)
         /\ IsFiniteSet(Neighbors(c)) /\ Cardinality(Neighbors(c)) <= 6
         /\ Neighbors(c) = {<<c[1] + 1, c[2]>>, <<c[1] + 1, c[2] - 1>>, <<c[1], c[2] - 1>>,
                            <<c[1] - 1, c[2]>>, <<c[1] - 1, c[2] + 1>>, <<c[1], c[2] + 1>>}
<1> DEFINE A == {<<c[1] + 1, c[2]>>, <<c[1] + 1, c[2] - 1>>, <<c[1], c[2] - 1>>}
           B == {<<c[1] - 1, c[2]>>, <<c[1] - 1, c[2] + 1>>, <<c[1], c[2] + 1>>}
<1>1. ASSUME NEW x PROVE x \in Neighbors(c) <=> x \in A \cup B
  BY DEF Neighbors, Step, Directions
<1>2. Neighbors(c) = A \cup B
  BY <1>1
<1>3. A \cup B \subseteq Int \X Int /\ c \notin A \cup B
  OBVIOUS
<1>4. A \cup B = {<<c[1] + 1, c[2]>>, <<c[1] + 1, c[2] - 1>>, <<c[1], c[2] - 1>>,
                  <<c[1] - 1, c[2]>>, <<c[1] - 1, c[2] + 1>>, <<c[1], c[2] + 1>>}
  OBVIOUS
<1>5. IsFiniteSet(A) /\ Cardinality(A) <= 3
  BY FewSize
<1>6. IsFiniteSet(B) /\ Cardinality(B) <= 3
  BY FewSize
<1> HIDE DEF A, B
<1>7. IsFiniteSet(A \cup B) /\ Cardinality(A \cup B) <= 6
  BY <1>5, <1>6, TwoPartsSize
<1> QED BY <1>2, <1>3, <1>4, <1>7

\* What a step brings in reach that was not: at most three cells.
LEMMA FreshCells ==
  ASSUME NEW x \in Int \X Int, NEW y \in Neighbors(x)
  PROVE  LET fresh == Neighbors(y) \ (Neighbors(x) \cup {x})
         IN  y \in Int \X Int /\ IsFiniteSet(fresh) /\ Cardinality(fresh) <= 3
<1> DEFINE fresh == Neighbors(y) \ (Neighbors(x) \cup {x})
<1>1. PICK d \in Directions : y = <<x[1] + d[1], x[2] + d[2]>>
  BY DEF Neighbors, Step, Directions
<1> DEFINE a == <<y[1] + d[1], y[2] + d[2]>>
           b == <<y[1] - d[2], y[2] + d[1] + d[2]>>
           c == <<y[1] + d[1] + d[2], y[2] - d[1]>>
<1>2. y \in Int \X Int
  BY NeighborsAre
<1>3. ASSUME NEW z \in fresh PROVE z \in {a, b, c}
  <2>1. z \in Neighbors(y) /\ z \notin Neighbors(x) /\ z # x
    OBVIOUS
  <2>2. PICK u \in Int, v \in Int : x = <<u, v>>
    OBVIOUS
  <2>3. CASE d = <<1, 0>>
    BY <1>1, <1>2, <2>1, <2>2, <2>3, NeighborsAre
  <2>4. CASE d = <<1, -1>>
    BY <1>1, <1>2, <2>1, <2>2, <2>4, NeighborsAre
  <2>5. CASE d = <<0, -1>>
    BY <1>1, <1>2, <2>1, <2>2, <2>5, NeighborsAre
  <2>6. CASE d = <<-1, 0>>
    BY <1>1, <1>2, <2>1, <2>2, <2>6, NeighborsAre
  <2>7. CASE d = <<-1, 1>>
    BY <1>1, <1>2, <2>1, <2>2, <2>7, NeighborsAre
  <2>8. CASE d = <<0, 1>>
    BY <1>1, <1>2, <2>1, <2>2, <2>8, NeighborsAre
  <2> HIDE DEF a, b, c, fresh
  <2> QED BY <2>3, <2>4, <2>5, <2>6, <2>7, <2>8 DEF Directions
<1>4. IsFiniteSet({a, b, c}) /\ Cardinality({a, b, c}) <= 3
  BY FewSize
<1> HIDE DEF a, b, c, fresh
<1>5. fresh \subseteq {a, b, c}
  BY <1>3
<1>6. IsFiniteSet(fresh) /\ Cardinality(fresh) <= 3
  BY <1>4, <1>5, PartSize
<1> QED BY <1>2, <1>6 DEF fresh

\* Two cells have at most two common neighbors.
LEMMA CommonNeighbors ==
  ASSUME NEW x \in Int \X Int, NEW y \in Int \X Int, x # y,
         NEW a \in Neighbors(x) \cap Neighbors(y), NEW b \in Neighbors(x) \cap Neighbors(y),
         NEW c \in Neighbors(x) \cap Neighbors(y)
  PROVE  a = b \/ a = c \/ b = c
<1>1. PICK u \in Int, v \in Int : x = <<u, v>>
  OBVIOUS
<1>2. PICK p \in Int, q \in Int : y = <<u + p, v + q>>
  <2>1. PICK r \in Int, s \in Int : y = <<r, s>>
    OBVIOUS
  <2>2. r = u + (r - u) /\ s = v + (s - v) /\ r - u \in Int /\ s - v \in Int
    OBVIOUS
  <2> QED BY <2>1, <2>2
<1> DEFINE Six(i, j) == \/ (i = 1 /\ j = 0) \/ (i = 1 /\ j = -1) \/ (i = 0 /\ j = -1)
                        \/ (i = -1 /\ j = 0) \/ (i = -1 /\ j = 1) \/ (i = 0 /\ j = 1)
<1>3. ASSUME NEW z \in Neighbors(x) \cap Neighbors(y)
      PROVE  \E i \in Int, j \in Int : z = <<u + i, v + j>> /\ Six(i, j) /\ Six(i - p, j - q)
  <2>0. ASSUME NEW r \in Int, NEW s \in Int, NEW w \in Neighbors(<<r, s>>)
        PROVE  \E i \in Int, j \in Int : w = <<r + i, s + j>> /\ Six(i, j)
    <3>1. PICK d \in Directions : w = <<r + d[1], s + d[2]>>
      BY <2>0 DEF Neighbors, Step, Directions
    <3>2. d[1] \in Int /\ d[2] \in Int /\ Six(d[1], d[2])
      BY DEF Directions
    <3> HIDE DEF Six
    <3> QED BY <3>1, <3>2
  <2>1. \E i \in Int, j \in Int : z = <<u + i, v + j>> /\ Six(i, j)
    <3> HIDE DEF Six
    <3> QED BY <1>1, <2>0
  <2>2. PICK i \in Int, j \in Int : z = <<u + i, v + j>> /\ Six(i, j)
    BY <2>1
  <2>3. y[1] = u + p /\ y[2] = v + q
    BY <1>2
  <2>4. \E k \in Int, l \in Int : z = <<u + p + k, v + q + l>> /\ Six(k, l)
    <3>1. u + p \in Int /\ v + q \in Int /\ z \in Neighbors(<<u + p, v + q>>)
      BY <1>2
    <3> HIDE DEF Six
    <3> QED BY <2>0, <3>1
  <2>5. PICK k \in Int, l \in Int : z = <<u + p + k, v + q + l>> /\ Six(k, l)
    BY <2>4
  <2>6. k = i - p /\ l = j - q
    <3>1. u + i = u + p + k /\ v + j = v + q + l
      BY <2>2, <2>5
    <3> QED BY <3>1
  <2> QED BY <2>2, <2>5, <2>6
<1>4. p # 0 \/ q # 0
  BY <1>1, <1>2
<1>5. PICK a1 \in Int, a2 \in Int : a = <<u + a1, v + a2>> /\ Six(a1, a2) /\ Six(a1 - p, a2 - q)
  BY <1>3
<1>6. PICK b1 \in Int, b2 \in Int : b = <<u + b1, v + b2>> /\ Six(b1, b2) /\ Six(b1 - p, b2 - q)
  BY <1>3
<1>7. PICK c1 \in Int, c2 \in Int : c = <<u + c1, v + c2>> /\ Six(c1, c2) /\ Six(c1 - p, c2 - q)
  BY <1>3
<1>8. (a1 = b1 /\ a2 = b2) \/ (a1 = c1 /\ a2 = c2) \/ (b1 = c1 /\ b2 = c2)
  BY ONLY <1>4, <1>5, <1>6, <1>7, p \in Int, q \in Int, a1 \in Int, a2 \in Int, b1 \in Int, b2 \in Int,
          c1 \in Int, c2 \in Int, SMTT(60)
<1> QED BY <1>5, <1>6, <1>7, <1>8

\* A finite set has finitely many edges.
LEMMA EdgeCounts ==
  ASSUME NEW A, IsFiniteSet(A), NEW B, IsFiniteSet(B)
  PROVE  /\ IsFiniteSet(Within(A)) /\ Cardinality(Within(A)) \in Nat
         /\ IsFiniteSet(Touching(A, B)) /\ Cardinality(Touching(A, B)) \in Nat
<1>1. IsFiniteSet(A \X A) /\ IsFiniteSet(A \X B)
  BY FS_Product
<1>2. Within(A) \subseteq A \X A /\ Touching(A, B) \subseteq A \X B
  BY DEF Within, Touching
<1> QED BY <1>1, <1>2, PartSize

\* Neighbors are joined by an edge.
LEMMA EdgeEither ==
  ASSUME NEW x \in Int \X Int, NEW y \in Int \X Int
  PROVE  /\ y \in Neighbors(x) <=>
              (\E d \in Forward : y = Step(x, d, 1)) \/ (\E d \in Forward : x = Step(y, d, 1))
         /\ ~ ((\E d \in Forward : y = Step(x, d, 1)) /\ (\E d \in Forward : x = Step(y, d, 1)))
<1>1. PICK u \in Int, v \in Int : x = <<u, v>>
  OBVIOUS
<1>2. PICK r \in Int, s \in Int : y = <<r, s>>
  OBVIOUS
<1>3. y \in Neighbors(x) <=> \/ (r = u + 1 /\ s = v) \/ (r = u + 1 /\ s = v - 1) \/ (r = u /\ s = v - 1)
                             \/ (r = u - 1 /\ s = v) \/ (r = u - 1 /\ s = v + 1) \/ (r = u /\ s = v + 1)
  <2>1. Neighbors(x) = {<<x[1] + 1, x[2]>>, <<x[1] + 1, x[2] - 1>>, <<x[1], x[2] - 1>>,
                        <<x[1] - 1, x[2]>>, <<x[1] - 1, x[2] + 1>>, <<x[1], x[2] + 1>>}
    BY NeighborsAre
  <2> QED BY <1>1, <1>2, <2>1
<1>4. (\E d \in Forward : y = Step(x, d, 1)) <=> \/ (r = u + 1 /\ s = v) \/ (r = u /\ s = v + 1)
                                                 \/ (r = u + 1 /\ s = v - 1)
  BY <1>1, <1>2 DEF Forward, Step
<1>5. (\E d \in Forward : x = Step(y, d, 1)) <=> \/ (u = r + 1 /\ v = s) \/ (u = r /\ v = s + 1)
                                                 \/ (u = r + 1 /\ v = s - 1)
  BY <1>1, <1>2 DEF Forward, Step
<1> QED BY <1>3, <1>4, <1>5

\* Edges inside parts are edges inside the whole.
LEMMA WithinMeasures ==
  ASSUME NEW C, IsFiniteSet(C)
  PROVE  Measures([S \in SUBSET C |-> Cardinality(Within(S))], C)
<1> DEFINE m == [S \in SUBSET C |-> Cardinality(Within(S))]
<1>1. ASSUME NEW S \in SUBSET C PROVE IsFiniteSet(Within(S)) /\ Cardinality(Within(S)) \in Nat
  BY FS_Subset, EdgeCounts
<1>2. m \in [SUBSET C -> Nat]
  BY <1>1
<1>3. ASSUME NEW S \in SUBSET C, NEW T \in SUBSET S PROVE m[T] + m[S \ T] <= m[S]
  <2>1. T \in SUBSET C /\ S \ T \in SUBSET C
    OBVIOUS
  <2>2. Within(T) \cap Within(S \ T) = {} /\ Within(T) \cup Within(S \ T) \subseteq Within(S)
    BY DEF Within
  <2>3. Cardinality(Within(T) \cup Within(S \ T)) = Cardinality(Within(T)) + Cardinality(Within(S \ T))
    BY <1>1, <2>1, <2>2, TwoPartsSize
  <2>4. Cardinality(Within(T) \cup Within(S \ T)) <= Cardinality(Within(S))
    BY <1>1, <2>2, PartSize
  <2> QED BY <2>1, <2>3, <2>4
<1> QED BY <1>2, <1>3 DEF Measures

\* Edges of parts to a fixed set are edges of the whole to it.
LEMMA TouchingMeasures ==
  ASSUME NEW C, IsFiniteSet(C), NEW B, IsFiniteSet(B)
  PROVE  Measures([S \in SUBSET C |-> Cardinality(Touching(S, B))], C)
<1> DEFINE m == [S \in SUBSET C |-> Cardinality(Touching(S, B))]
<1>1. ASSUME NEW S \in SUBSET C PROVE IsFiniteSet(Touching(S, B)) /\ Cardinality(Touching(S, B)) \in Nat
  BY FS_Subset, EdgeCounts
<1>2. m \in [SUBSET C -> Nat]
  BY <1>1
<1>3. ASSUME NEW S \in SUBSET C, NEW T \in SUBSET S PROVE m[T] + m[S \ T] <= m[S]
  <2>1. T \in SUBSET C /\ S \ T \in SUBSET C
    OBVIOUS
  <2>2. Touching(T, B) \cap Touching(S \ T, B) = {} /\ Touching(T, B) \cup Touching(S \ T, B) \subseteq Touching(S, B)
    BY DEF Touching
  <2>3. Cardinality(Touching(T, B) \cup Touching(S \ T, B)) = Cardinality(Touching(T, B)) + Cardinality(Touching(S \ T, B))
    BY <1>1, <2>1, <2>2, TwoPartsSize
  <2>4. Cardinality(Touching(T, B) \cup Touching(S \ T, B)) <= Cardinality(Touching(S, B))
    BY <1>1, <2>2, PartSize
  <2> QED BY <2>1, <2>3, <2>4
<1> QED BY <1>2, <1>3 DEF Measures

\* A connected set grows cell by cell: an edge and two cells around it more.
LEMMA ConnectedEdges ==
  ASSUME NEW K \in SUBSET (Int \X Int), IsFiniteSet(K), K # {}, Connected(K, Adjacency)
  PROVE  /\ Cardinality(Within(K)) >= Cardinality(K) - 1
         /\ IsFiniteSet(Around(K)) /\ Cardinality(Around(K)) <= 2 * Cardinality(K) + 4
<1> DEFINE n == Cardinality(K) - 1
           Grown(A, i) == /\ Cardinality(A) = i + 1
                          /\ Cardinality(Within(A)) >= i
                          /\ IsFiniteSet(Around(A)) /\ Cardinality(Around(A)) <= 2 * i + 6
           S == {i \in 0..n : \E A \in SUBSET K : Grown(A, i)}
<1>1. Cardinality(K) \in Nat /\ n \in Nat
  BY FS_CardinalityType, FS_EmptySet
<1>2. 0 \in S
  <2>1. PICK x \in K : TRUE
    OBVIOUS
  <2>2. Cardinality({x}) = 1 /\ IsFiniteSet({x})
    BY FS_Singleton
  <2>3. Cardinality(Within({x})) \in Nat
    BY <2>2, EdgeCounts
  <2>4. Around({x}) \subseteq Neighbors(x)
    BY DEF Around
  <2>5. IsFiniteSet(Neighbors(x)) /\ Cardinality(Neighbors(x)) <= 6
    BY NeighborsAre
  <2>6. IsFiniteSet(Around({x})) /\ Cardinality(Around({x})) <= 6
    <3> DEFINE O == Around({x}) N == Neighbors(x)
    <3>1. O \subseteq N /\ IsFiniteSet(N) /\ Cardinality(N) <= 6
      BY <2>4, <2>5
    <3> HIDE DEF O, N
    <3>2. IsFiniteSet(O) /\ Cardinality(O) \in Nat /\ Cardinality(N) \in Nat /\ Cardinality(O) <= Cardinality(N)
      BY <3>1, PartSize
    <3>3. Cardinality(O) <= 6
      BY <3>1, <3>2
    <3> QED BY <3>2, <3>3 DEF O
  <2>7. Grown({x}, 0)
    BY <2>2, <2>3, <2>6
  <2> HIDE DEF Grown, n
  <2>8. 0 \in 0..n
    BY <1>1
  <2> QED BY <2>7, <2>8
<1>3. ASSUME NEW i \in 0..(n - 1), i \in S PROVE i + 1 \in S
  <2>1. PICK A \in SUBSET K : Grown(A, i)
    BY <1>3
  <2>2. A # {} /\ A # K
    <3>1. Cardinality(A) = i + 1
      BY <2>1
    <3>2. i + 1 # 0 /\ i + 1 # Cardinality(K)
      BY <1>1
    <3>3. Cardinality({}) = 0
      BY FS_EmptySet
    <3> QED BY <3>1, <3>2, <3>3
  <2>3. PICK x \in A, y \in K : <<x, y>> \in Adjacency /\ y \notin A
    BY <2>2 DEF Connected, Closed
  <2>4. x \in Int \X Int /\ y \in Int \X Int /\ y \in Neighbors(x)
    BY <2>3, AdjacencyIs
  <2> DEFINE B == A \cup {y}
             fresh == Neighbors(y) \ (Neighbors(x) \cup {x})
  <2>5. IsFiniteSet(A) /\ IsFiniteSet(B) /\ Cardinality(B) = i + 2 /\ B \in SUBSET K
    <3>1. IsFiniteSet(A)
      BY FS_Subset
    <3>2. IsFiniteSet(B) /\ Cardinality(B) = Cardinality(A) + 1
      BY <2>3, <3>1, FS_AddElement
    <3> QED BY <2>1, <3>1, <3>2
  <2>6. Cardinality(Within(B)) >= i + 1
    <3>1. PICK e \in B \X B : e \in Within(B) /\ (e[1] = y \/ e[2] = y)
      <4>1. (\E d \in Forward : y = Step(x, d, 1)) \/ (\E d \in Forward : x = Step(y, d, 1))
        BY <2>4, EdgeEither
      <4>2. CASE \E d \in Forward : y = Step(x, d, 1)
        <5>1. <<x, y>> \in Within(B)
          BY <4>2 DEF Within
        <5> QED BY <5>1 DEF Within
      <4>3. CASE \E d \in Forward : x = Step(y, d, 1)
        <5>1. <<y, x>> \in Within(B)
          BY <4>3 DEF Within
        <5> QED BY <5>1 DEF Within
      <4> QED BY <4>1, <4>2, <4>3
    <3>2. e \notin Within(A) /\ Within(A) \cup {e} \subseteq Within(B)
      BY <2>3, <3>1 DEF Within
    <3>3. IsFiniteSet(Within(A)) /\ IsFiniteSet(Within(B)) /\ Cardinality(Within(A)) \in Nat
      BY <2>5, EdgeCounts
    <3>4. Cardinality(Within(A) \cup {e}) = Cardinality(Within(A)) + 1
      BY <3>2, <3>3, FS_AddElement
    <3>5. Cardinality(Within(A) \cup {e}) <= Cardinality(Within(B)) /\ Cardinality(Within(B)) \in Nat
      BY <3>2, <3>3, PartSize
    <3> QED BY <2>1, <3>3, <3>4, <3>5
  <2>7. IsFiniteSet(Around(B)) /\ Cardinality(Around(B)) <= 2 * i + 8
    <3>1. IsFiniteSet(fresh) /\ Cardinality(fresh) <= 3
      BY <2>4, FreshCells
    <3>2. y \in Around(A)
      BY <2>3, <2>4 DEF Around
    <3>3. IsFiniteSet(Around(A)) /\ Cardinality(Around(A)) \in Nat /\ Cardinality(Around(A)) <= 2 * i + 6
      BY <2>1, FS_CardinalityType
    <3>4. IsFiniteSet(Around(A) \ {y}) /\ Cardinality(Around(A) \ {y}) = Cardinality(Around(A)) - 1
      BY <3>2, <3>3, FS_RemoveElement
    <3>5. Around(B) \subseteq (Around(A) \ {y}) \cup fresh
      <4>1. ASSUME NEW z \in Around(B), z \notin fresh PROVE z \in Around(A) /\ z # y
        <5>1. z \notin B /\ (z \in UNION {Neighbors(c) : c \in A} \/ z \in Neighbors(y))
          BY DEF Around
        <5>2. z \in Neighbors(x) => z \in UNION {Neighbors(c) : c \in A}
          OBVIOUS
        <5> QED BY <4>1, <5>1, <5>2 DEF Around
      <4> QED BY <4>1
    <3> HIDE DEF fresh
    <3>6. /\ IsFiniteSet((Around(A) \ {y}) \cup fresh)
          /\ Cardinality((Around(A) \ {y}) \cup fresh) <= 2 * i + 8
      <4> DEFINE R == Around(A) \ {y}
      <4>1. IsFiniteSet(R) /\ Cardinality(R) <= 2 * i + 5
        BY <3>3, <3>4
      <4> HIDE DEF R
      <4>2. IsFiniteSet(R \cup fresh) /\ Cardinality(R \cup fresh) <= Cardinality(R) + Cardinality(fresh)
            /\ Cardinality(R \cup fresh) \in Nat /\ Cardinality(R) \in Nat /\ Cardinality(fresh) \in Nat
        BY <3>1, <4>1, TwoPartsSize
      <4> QED BY <3>1, <4>1, <4>2 DEF R
    <3>7. IsFiniteSet(Around(B)) /\ Cardinality(Around(B)) <= Cardinality((Around(A) \ {y}) \cup fresh)
          /\ Cardinality(Around(B)) \in Nat /\ Cardinality((Around(A) \ {y}) \cup fresh) \in Nat
      BY <3>5, <3>6, PartSize
    <3> QED BY <3>6, <3>7
  <2>8. Grown(B, i + 1)
    BY <2>5, <2>6, <2>7
  <2> HIDE DEF Grown, n
  <2>9. i + 1 \in 0..n
    BY <1>1
  <2> QED BY <2>5, <2>8, <2>9
<1>4. n \in S
  <2> HIDE DEF S, n
  <2> QED BY <1>1, <1>2, <1>3, ReachesEnd
<1>5. PICK A \in SUBSET K : Grown(A, n)
  BY <1>4
<1>6. A = K
  <2>1. Cardinality(A) = Cardinality(K)
    BY <1>1, <1>5
  <2> QED BY <2>1, FS_Subset
<1> QED BY <1>1, <1>5, <1>6

\* Each edge is seen from both its ends.
LEMMA EdgesTwice ==
  ASSUME NEW A \in SUBSET (Int \X Int), IsFiniteSet(A)
  PROVE  Cardinality(Touching(A, A)) = 2 * Cardinality(Within(A))
<1> DEFINE W == Within(A)
           f == [p \in W |-> <<p[2], p[1]>>]
           M == {f[p] : p \in W}
<1>1. IsFiniteSet(W) /\ Cardinality(W) \in Nat
  BY EdgeCounts
<1>2. IsFiniteSet(M) /\ Cardinality(M) = Cardinality(W)
  <2>1. \A p, q \in W : f[p] = f[q] => p = q
    BY DEF Within
  <2>2. f = [p \in W |-> f[p]] /\ (\A p \in W : f[p] \in M) /\ \A y \in M : \E p \in W : f[p] = y
    OBVIOUS
  <2> HIDE DEF f, W, M
  <2> QED BY <1>1, <2>1, <2>2, ImageSize
<1>3. W \cap M = {}
  <2> SUFFICES ASSUME NEW p \in W, NEW q \in W, p = <<q[2], q[1]>> PROVE FALSE
    OBVIOUS
  <2>1. p \in A \X A /\ q \in A \X A /\ p[1] = q[2] /\ p[2] = q[1]
    BY DEF Within
  <2>2. (\E d \in Forward : p[2] = Step(p[1], d, 1)) /\ (\E d \in Forward : p[1] = Step(p[2], d, 1))
    BY <2>1 DEF Within
  <2>3. p[1] \in Int \X Int /\ p[2] \in Int \X Int
    BY <2>1
  <2> QED BY <2>2, <2>3, EdgeEither
<1>4. Touching(A, A) = W \cup M
  <2>1. ASSUME NEW p \in Touching(A, A) PROVE p \in W \cup M
    <3>1. p \in A \X A /\ p[2] \in Neighbors(p[1]) /\ p = <<p[1], p[2]>>
      BY DEF Touching
    <3>2. p[1] \in Int \X Int /\ p[2] \in Int \X Int
      BY <3>1
    <3>3. CASE \E d \in Forward : p[2] = Step(p[1], d, 1)
      BY <3>1, <3>3 DEF Within
    <3>4. CASE \E d \in Forward : p[1] = Step(p[2], d, 1)
      <4>1. <<p[2], p[1]>> \in W
        BY <3>1, <3>4 DEF Within
      <4>2. p = f[<<p[2], p[1]>>]
        BY <3>1, <4>1
      <4> QED BY <4>1, <4>2
    <3> QED BY <3>1, <3>2, <3>3, <3>4, EdgeEither
  <2>2. ASSUME NEW p \in W PROVE p \in Touching(A, A) /\ f[p] \in Touching(A, A)
    <3>1. p \in A \X A /\ (\E d \in Forward : p[2] = Step(p[1], d, 1)) /\ f[p] = <<p[2], p[1]>>
      BY DEF Within
    <3>2. p[1] \in Int \X Int /\ p[2] \in Int \X Int
      BY <3>1
    <3>3. p[2] \in Neighbors(p[1]) /\ p[1] \in Neighbors(p[2])
      BY <3>1, <3>2, EdgeEither
    <3> QED BY <3>1, <3>3 DEF Touching
  <2> QED BY <2>1, <2>2
<1> HIDE DEF W, M
<1>5. Cardinality(W \cup M) = Cardinality(W) + Cardinality(M)
  BY <1>1, <1>2, <1>3, TwoPartsSize
<1> QED BY <1>1, <1>2, <1>4, <1>5 DEF W

\* Edges to two sets that do not meet add up.
LEMMA TouchingParts ==
  ASSUME NEW A, IsFiniteSet(A), NEW B, IsFiniteSet(B), NEW C, IsFiniteSet(C), B \cap C = {}
  PROVE  Cardinality(Touching(A, B \cup C)) = Cardinality(Touching(A, B)) + Cardinality(Touching(A, C))
<1>1. Touching(A, B \cup C) = Touching(A, B) \cup Touching(A, C) /\ Touching(A, B) \cap Touching(A, C) = {}
  BY DEF Touching
<1>2. IsFiniteSet(Touching(A, B)) /\ IsFiniteSet(Touching(A, C))
  BY EdgeCounts
<1> QED BY <1>1, <1>2, TwoPartsSize

\* As many edges lead from A to B as from B to A.
LEMMA TouchingBack ==
  ASSUME NEW A \in SUBSET (Int \X Int), IsFiniteSet(A), NEW B \in SUBSET (Int \X Int), IsFiniteSet(B)
  PROVE  Cardinality(Touching(A, B)) = Cardinality(Touching(B, A))
<1> DEFINE W == Touching(A, B) V == Touching(B, A)
           f == [p \in W |-> <<p[2], p[1]>>]
<1>1. IsFiniteSet(W)
  BY EdgeCounts
<1>2. \A p \in W : f[p] \in V
  <2> SUFFICES ASSUME NEW p \in W PROVE <<p[2], p[1]>> \in V
    OBVIOUS
  <2>1. p[1] \in A /\ p[2] \in B /\ p[2] \in Neighbors(p[1])
    BY DEF Touching
  <2> QED BY <2>1, AdjacencyIs DEF Touching
<1>3. \A q \in V : \E p \in W : f[p] = q
  <2> SUFFICES ASSUME NEW q \in V PROVE <<q[2], q[1]>> \in W /\ <<q[1], q[2]>> = q
    OBVIOUS
  <2>1. q[1] \in B /\ q[2] \in A /\ q[2] \in Neighbors(q[1]) /\ q = <<q[1], q[2]>>
    BY DEF Touching
  <2> QED BY <2>1, AdjacencyIs DEF Touching
<1>4. \A p, q \in W : f[p] = f[q] => p = q
  BY DEF Touching
<1>5. f = [p \in W |-> f[p]]
  OBVIOUS
<1> HIDE DEF f, W, V
<1>6. Cardinality(V) = Cardinality(W)
  BY <1>1, <1>2, <1>3, <1>4, <1>5, ImageSize
<1> QED BY <1>6 DEF V, W

\* A cell has six neighbors.
LEMMA TouchingSix ==
  ASSUME NEW A \in SUBSET (Int \X Int), IsFiniteSet(A), NEW D, IsFiniteSet(D)
  PROVE  Cardinality(Touching(A, D)) <= 6 * Cardinality(A)
<1> DEFINE Good == {S \in SUBSET A : Cardinality(Touching(S, D)) <= 6 * Cardinality(S)}
<1>1. {} \in Good
  <2>1. Touching({}, D) = {}
    BY DEF Touching
  <2> QED BY <2>1, FS_EmptySet
<1>2. ASSUME NEW S \in SUBSET A, S # {}, Rest(S) \in Good PROVE S \in Good
  <2> DEFINE c == Chosen(S) R == Rest(S) T == Touching({c}, D)
  <2>1. c \in S /\ R = S \ {c} /\ Cardinality(S) = Cardinality(R) + 1 /\ Cardinality(R) \in Nat /\ R \in SUBSET A
        /\ IsFiniteSet(R)
    <3>1. c \in S /\ R \in SUBSET A /\ IsFiniteSet(S) /\ Cardinality(S) \in Nat /\ Cardinality(R) = Cardinality(S) - 1
      BY <1>2, RestIs
    <3>2. R = S \ {c}
      BY DEF Rest
    <3>3. IsFiniteSet(R) /\ Cardinality(R) \in Nat
      BY <3>1, FS_Subset, FS_CardinalityType
    <3> HIDE DEF R, c
    <3> QED BY <3>1, <3>2, <3>3
  <2> HIDE DEF c, R
  <2>2. Touching(S, D) = Touching(R, D) \cup T
    BY <2>1 DEF Touching
  <2>3. IsFiniteSet(T) /\ Cardinality(T) <= 6
    <3>1. c \in Int \X Int
      BY <2>1
    <3>2. IsFiniteSet(Neighbors(c)) /\ Cardinality(Neighbors(c)) <= 6 /\ Cardinality(Neighbors(c)) \in Nat
      BY <3>1, NeighborsAre, FS_CardinalityType
    <3> DEFINE f == [p \in T |-> p[2]]
    <3>3. f \in Injection(T, Neighbors(c))
      <4>1. \A p \in T : p \in {c} \X D /\ p[2] \in Neighbors(c)
        BY DEF Touching
      <4>2. f \in [T -> Neighbors(c)]
        BY <4>1
      <4>3. \A p \in T : \A q \in T : f[p] = f[q] => p = q
        BY <4>1
      <4> HIDE DEF f, T
      <4> QED BY <4>2, <4>3 DEF Injection, IsInjective
    <3>4. IsFiniteSet(T) /\ Cardinality(T) <= Cardinality(Neighbors(c))
      BY <3>2, <3>3, FS_Injection
    <3>5. Cardinality(T) \in Nat
      BY <3>4, FS_CardinalityType
    <3> QED BY <3>2, <3>4, <3>5
  <2>4. IsFiniteSet(Touching(R, D))
    BY <2>1, EdgeCounts
  <2> HIDE DEF T
  <2>5. /\ Cardinality(Touching(R, D) \cup T) <= Cardinality(Touching(R, D)) + Cardinality(T)
        /\ Cardinality(Touching(R, D) \cup T) \in Nat /\ Cardinality(Touching(R, D)) \in Nat /\ Cardinality(T) \in Nat
    BY <2>3, <2>4, TwoPartsSize
  <2>6. Cardinality(Touching(R, D)) <= 6 * Cardinality(R)
    BY <1>2 DEF R
  <2>7. Cardinality(Touching(S, D)) <= 6 * Cardinality(S)
    BY <2>1, <2>2, <2>3, <2>5, <2>6
  <2> QED BY <2>7
<1>3. A \in Good
  <2> HIDE DEF Good
  <2>1. SUBSET A \subseteq Good
    BY <1>1, <1>2, ReachesSubsets
  <2> QED BY <2>1
<1> QED BY <1>3

\* The edges of a species and those to the others.
LEMMA DegreeSum ==
  ASSUME NEW A \in SUBSET (Int \X Int), IsFiniteSet(A), NEW B, IsFiniteSet(B), NEW C, IsFiniteSet(C),
         NEW D, IsFiniteSet(D), NEW E, IsFiniteSet(E),
         A \cap B = {}, A \cap C = {}, A \cap D = {}, A \cap E = {}, B \cap C = {}, B \cap D = {},
         B \cap E = {}, C \cap D = {}, C \cap E = {}, D \cap E = {}
  PROVE  2 * Cardinality(Within(A)) + Cardinality(Touching(A, B)) + Cardinality(Touching(A, C))
           + Cardinality(Touching(A, D)) + Cardinality(Touching(A, E)) <= 6 * Cardinality(A)
<1> DEFINE t(X) == Cardinality(Touching(A, X))
           AB == A \cup B ABC == AB \cup C ABCD == ABC \cup D all == ABCD \cup E
<1>1. IsFiniteSet(AB) /\ IsFiniteSet(ABC) /\ IsFiniteSet(ABCD) /\ IsFiniteSet(all)
  BY FS_Union
<1>2. AB \cap C = {} /\ ABC \cap D = {} /\ ABCD \cap E = {}
  OBVIOUS
<1>3. t(AB) = t(A) + t(B)
  BY TouchingParts
<1> HIDE DEF AB
<1>4. t(ABC) = t(AB) + t(C)
  BY <1>1, <1>2, TouchingParts
<1> HIDE DEF ABC
<1>5. t(ABCD) = t(ABC) + t(D)
  BY <1>1, <1>2, TouchingParts
<1> HIDE DEF ABCD
<1>6. t(all) = t(ABCD) + t(E)
  BY <1>1, <1>2, TouchingParts
<1> HIDE DEF all
<1>7. t(all) <= 6 * Cardinality(A)
  BY <1>1, TouchingSix
<1>8. t(A) = 2 * Cardinality(Within(A))
  BY EdgesTwice
<1>9. t(B) \in Nat /\ t(C) \in Nat /\ t(D) \in Nat /\ t(E) \in Nat /\ Cardinality(Within(A)) \in Nat
      /\ Cardinality(A) \in Nat
  BY EdgeCounts, FS_CardinalityType
<1> HIDE DEF t
<1>10. 2 * Cardinality(Within(A)) + t(B) + t(C) + t(D) + t(E) <= 6 * Cardinality(A)
  BY <1>3, <1>4, <1>5, <1>6, <1>7, <1>8, <1>9
<1> QED BY <1>10 DEF t

-----------------------------------------------------------------------------
(* Rows of cells: how many pairs of six tokens can be in line.              *)

\* The row of a cell along a direction, and the cells of A with one after them.
Row(d, c) == d[1] * c[2] - d[2] * c[1]

RowsOf(d, A) == {Row(d, c) : c \in A}

Followed(d, A) == {c \in A : \E k \in Nat : k > 0 /\ Step(c, d, k) \in A}

\* Each row has a last cell.
LEMMA LastOfRows ==
  ASSUME NEW A \in SUBSET (Int \X Int), IsFiniteSet(A), NEW d \in Forward
  PROVE  /\ IsFiniteSet(RowsOf(d, A)) /\ Cardinality(RowsOf(d, A)) \in Nat
         /\ IsFiniteSet(Followed(d, A)) /\ Cardinality(Followed(d, A)) \in Nat
         /\ Cardinality(Followed(d, A)) + Cardinality(RowsOf(d, A)) <= Cardinality(A)
<1> DEFINE L == A \ Followed(d, A)
           f == [c \in L |-> Row(d, c)]
           at == [c \in A |-> d[1] * c[1] + (1 - d[1]) * c[2]]
<1>1. \A c \in A : at[c] \in Int /\ Row(d, c) \in Int
  BY DEF Forward, Row
<1>2. ASSUME NEW c \in A, NEW k \in Nat, k > 0, Step(c, d, k) \in A
      PROVE  Row(d, Step(c, d, k)) = Row(d, c) /\ at[Step(c, d, k)] > at[c]
  <2>1. PICK u \in Int, v \in Int : c = <<u, v>>
    OBVIOUS
  <2>2. CASE d = <<1, 0>>
    BY <1>2, <2>1, <2>2 DEF Row, Step
  <2>3. CASE d = <<0, 1>>
    BY <1>2, <2>1, <2>3 DEF Row, Step
  <2>4. CASE d = <<1, -1>>
    BY <1>2, <2>1, <2>4 DEF Row, Step
  <2> QED BY <2>2, <2>3, <2>4 DEF Forward
<1>3. ASSUME NEW y \in RowsOf(d, A) PROVE \E c \in L : f[c] = y
  <2> DEFINE R == {c \in A : Row(d, c) = y}
  <2>1. IsFiniteSet(R) /\ R # {} /\ \A c \in R : at[c] \in Int
    BY <1>1, FS_Subset DEF RowsOf
  <2>2. PICK c \in R : \A e \in R : at[e] <= at[c]
    <3> HIDE DEF R, at
    <3> QED BY <2>1, FarthestIn
  <2>3. c \in A /\ Row(d, c) = y
    OBVIOUS
  <2>4. c \notin Followed(d, A)
    <3> SUFFICES ASSUME NEW k \in Nat, k > 0, Step(c, d, k) \in A PROVE FALSE
      BY DEF Followed
    <3>1. Step(c, d, k) \in R /\ at[Step(c, d, k)] > at[c]
      BY <1>2, <2>3
    <3>2. at[Step(c, d, k)] \in Int /\ at[c] \in Int
      BY <2>1, <3>1
    <3> HIDE DEF at
    <3> QED BY <2>2, <3>1, <3>2
  <2> QED BY <2>3, <2>4
<1>4. \A c \in L : f[c] \in RowsOf(d, A)
  BY DEF RowsOf
<1>5. IsFiniteSet(L) /\ Cardinality(L) \in Nat
  BY PartSize
<1>6. f = [c \in L |-> f[c]]
  OBVIOUS
<1>7. IsFiniteSet(RowsOf(d, A)) /\ Cardinality(RowsOf(d, A)) \in Nat /\ Cardinality(RowsOf(d, A)) <= Cardinality(L)
  <2> HIDE DEF f, L
  <2> QED BY <1>3, <1>4, <1>5, <1>6, SurjectionSize
<1>8. IsFiniteSet(Followed(d, A)) /\ Cardinality(Followed(d, A)) \in Nat
  BY PartSize DEF Followed
<1>9. Followed(d, A) \cup L = A /\ Followed(d, A) \cap L = {}
  BY DEF Followed
<1> HIDE DEF L
<1>10. Cardinality(A) = Cardinality(Followed(d, A)) + Cardinality(L)
  BY <1>5, <1>8, <1>9, TwoPartsSize
<1> QED BY <1>5, <1>7, <1>8, <1>10

\* What a table of the code says of six cells in a, b and c rows.
LEMMA RowCounts ==
  ASSUME NEW n \in 1..6, NEW a \in Nat, NEW b \in Nat, NEW c \in Nat,
         n <= a * b, n <= a * c, n <= b * c,
         n = a * b => c >= a + b - 1, n = a * c => b >= a + c - 1, n = b * c => a >= b + c - 1
  PROVE  3 * n - (a + b + c) <= SeenPairs[n + 1]
<1>1. SeenPairs[n + 1] \in Nat /\ 3 * n - SeenPairs[n + 1] <= 9
  BY DEF SeenPairs
<1>3. CASE a > 9 \/ b > 9 \/ c > 9
  <2> DEFINE k == SeenPairs[n + 1]
  <2>1. k \in Nat /\ 3 * n - k <= 9
    BY <1>1
  <2> HIDE DEF k
  <2>2. 3 * n - (a + b + c) <= k
    BY ONLY <1>3, <2>1, n \in 1..6, a \in Nat, b \in Nat, c \in Nat
  <2> QED BY <2>2 DEF k
<1>4. CASE a <= 9 /\ b <= 9 /\ c <= 9
  <2>2. CASE n = 1
    BY <1>4, <2>2 DEF SeenPairs
  <2>3. CASE n = 2
    BY <1>4, <2>3 DEF SeenPairs
  <2>4. CASE n = 3
    BY <1>4, <2>4 DEF SeenPairs
  <2>5. CASE n = 4
    BY <1>4, <2>5 DEF SeenPairs
  <2>6. CASE n = 5
    BY <1>4, <2>6 DEF SeenPairs
  <2>7. CASE n = 6
    BY <1>4, <2>7 DEF SeenPairs
  <2> QED BY <2>2, <2>3, <2>4, <2>5, <2>6, <2>7
<1> QED BY <1>3, <1>4

\* The cells with one after them, along each direction.
RowEnds(A) == {p \in Forward \X A : p[2] \in Followed(p[1], A)}

\* At most SeenPairs of these: the rows of the three directions cross.
LEMMA FewEnds ==
  ASSUME NEW A \in SUBSET (Int \X Int), IsFiniteSet(A), Cardinality(A) <= 6
  PROVE  /\ IsFiniteSet(RowEnds(A)) /\ Cardinality(RowEnds(A)) \in Nat
         /\ SeenPairs[Cardinality(A) + 1] \in Nat
         /\ Cardinality(RowEnds(A)) <= SeenPairs[Cardinality(A) + 1]
<1> DEFINE n == Cardinality(A)
           p == <<1, 0>> q == <<0, 1>> s == <<1, -1>>
           on(d) == {d} \X Followed(d, A)
           r(d) == Cardinality(RowsOf(d, A))
           e(d) == Cardinality(Followed(d, A))
<1>1. n \in Nat /\ n \in 0..6
  BY FS_CardinalityType
<1>2. Forward = {p, q, s} /\ p # q /\ p # s /\ q # s
  BY DEF Forward
<1>3. ASSUME NEW d \in Forward
      PROVE  /\ r(d) \in Nat /\ e(d) \in Nat /\ e(d) + r(d) <= n
             /\ IsFiniteSet(on(d)) /\ Cardinality(on(d)) = e(d)
  <2>1. IsFiniteSet(Followed(d, A)) /\ r(d) \in Nat /\ e(d) \in Nat /\ e(d) + r(d) <= n
    BY LastOfRows
  <2>2. IsFiniteSet({d}) /\ Cardinality({d}) = 1
    BY FS_Singleton
  <2>3. IsFiniteSet(on(d)) /\ Cardinality(on(d)) = 1 * e(d)
    BY <2>1, <2>2, FS_Product
  <2> QED BY <2>1, <2>3
<1>4. RowEnds(A) = (on(p) \cup on(q)) \cup on(s)
  BY <1>2 DEF RowEnds, Followed
<1>5. on(p) \cap on(q) = {} /\ (on(p) \cup on(q)) \cap on(s) = {}
  BY <1>2
<1>6. IsFiniteSet(RowEnds(A)) /\ Cardinality(RowEnds(A)) = e(p) + e(q) + e(s)
  <2>1. IsFiniteSet(on(p)) /\ IsFiniteSet(on(q)) /\ IsFiniteSet(on(s))
        /\ Cardinality(on(p)) = e(p) /\ Cardinality(on(q)) = e(q) /\ Cardinality(on(s)) = e(s)
    BY <1>2, <1>3
  <2> HIDE DEF on, e
  <2>2. IsFiniteSet(on(p) \cup on(q)) /\ Cardinality(on(p) \cup on(q)) = e(p) + e(q)
    BY <1>5, <2>1, TwoPartsSize
  <2> DEFINE pq == on(p) \cup on(q)
  <2>3. IsFiniteSet(pq) /\ Cardinality(pq) = e(p) + e(q) /\ pq \cap on(s) = {}
    BY <1>5, <2>2
  <2> HIDE DEF pq
  <2>4. IsFiniteSet(pq \cup on(s)) /\ Cardinality(pq \cup on(s)) = Cardinality(pq) + Cardinality(on(s))
    BY <2>1, <2>3, TwoPartsSize
  <2> QED BY <1>4, <2>1, <2>3, <2>4 DEF pq
<1>7. CASE n = 0
  <2>1. A = {}
    BY <1>7, FS_EmptySet
  <2>2. RowEnds(A) = {}
    BY <2>1 DEF RowEnds
  <2>3. Cardinality(RowEnds(A)) = 0 /\ IsFiniteSet(RowEnds(A))
    BY <2>2, FS_EmptySet
  <2> QED BY <1>7, <2>3 DEF SeenPairs
<1>8. CASE n # 0
  <2>0. n \in 1..6 /\ A # {}
    BY <1>1, <1>8, FS_EmptySet
  <2> DEFINE f == [c \in A |-> Row(p, c)] g == [c \in A |-> Row(q, c)] h == [c \in A |-> Row(s, c)]
             neg == [c \in A |-> -Row(q, c)]
  <2>1. \A c \in A : Row(p, c) = c[2] /\ Row(q, c) = -c[1] /\ Row(s, c) = c[2] + c[1]
    BY DEF Row
  <2>2. \A c \in A : c[1] \in Int /\ c[2] \in Int /\ c = <<c[1], c[2]>>
    OBVIOUS
  <2>3. f \in [A -> Int] /\ g \in [A -> Int] /\ h \in [A -> Int]
    BY <2>1, <2>2
  <2>4. \A c \in A : f[c] = c[2] /\ g[c] = -c[1] /\ h[c] = c[2] + c[1]
    BY <2>1
  <2> DEFINE X == RowsOf(p, A) Y == RowsOf(q, A) Z == RowsOf(s, A)
  <2>5. X = {f[c] : c \in A} /\ Y = {g[c] : c \in A} /\ Z = {h[c] : c \in A}
    BY DEF RowsOf, f, g, h
  <2>a. IsFiniteSet(A) /\ A # {}
    BY <2>0
  <2> HIDE DEF f, g, h, X, Y, Z
  <2>6. /\ n <= r(p) * r(q)
        /\ n = r(p) * r(q) => r(s) >= r(p) + r(q) - 1
    <3>1. \A c, t \in A : f[c] = f[t] /\ g[c] = g[t] => c = t
      BY <2>2, <2>4
    <3>2. \A c \in A : h[c] = f[c] - g[c]
      BY <2>2, <2>4
    <3>3. FillsGrid(A, f, g, h)
      BY <2>a, <2>3, <3>1, <3>2, GridBack
    <3> QED BY <2>5, <3>3 DEF FillsGrid, Image, X, Y, Z
  <2>7. /\ n <= r(s) * r(q)
        /\ n = r(s) * r(q) => r(p) >= r(s) + r(q) - 1
    <3>1. \A c, t \in A : h[c] = h[t] /\ g[c] = g[t] => c = t
      BY <2>2, <2>4
    <3>2. \A c \in A : f[c] = h[c] + g[c]
      BY <2>2, <2>4
    <3>3. FillsGrid(A, h, g, f)
      BY <2>a, <2>3, <3>1, <3>2, Grid
    <3> QED BY <2>5, <3>3 DEF FillsGrid, Image, X, Y, Z
  <2>8. /\ n <= r(p) * r(s)
        /\ n = r(p) * r(s) => r(q) >= r(p) + r(s) - 1
    <3>1. \A c, t \in A : f[c] = f[t] /\ h[c] = h[t] => c = t
      BY <2>2, <2>4
    <3>2. \A c \in A : g[c] = f[c] - h[c]
      BY <2>2, <2>4
    <3>3. FillsGrid(A, f, h, g)
      BY <2>a, <2>3, <3>1, <3>2, GridBack
    <3> QED BY <2>5, <3>3 DEF FillsGrid, Image, X, Y, Z
  <2>9. r(p) \in Nat /\ r(q) \in Nat /\ r(s) \in Nat /\ e(p) \in Nat /\ e(q) \in Nat /\ e(s) \in Nat
        /\ e(p) + r(p) <= n /\ e(q) + r(q) <= n /\ e(s) + r(s) <= n
    BY <1>2, <1>3
  <2> HIDE DEF r, e, p, q, s, n
  <2>10. 3 * n - (r(p) + r(q) + r(s)) <= SeenPairs[n + 1]
    <3> DEFINE a == r(p) b == r(q) c == r(s)
    <3>1. a \in Nat /\ b \in Nat /\ c \in Nat /\ n <= a * b /\ n <= c * b /\ n <= a * c
          /\ (n = a * b => c >= a + b - 1) /\ (n = c * b => a >= c + b - 1) /\ (n = a * c => b >= a + c - 1)
      BY <2>6, <2>7, <2>8, <2>9
    <3> HIDE DEF a, b, c
    <3>2. c * b = b * c
      BY <3>1
    <3>3. n <= b * c /\ (n = b * c => a >= b + c - 1)
      BY <3>1, <3>2
    <3>4. 3 * n - (a + b + c) <= SeenPairs[n + 1]
      BY <2>0, <3>1, <3>3, RowCounts
    <3> QED BY <3>4 DEF a, b, c
  <2>11. SeenPairs[n + 1] \in Nat
    BY <2>0 DEF SeenPairs
  <2>12. e(p) + e(q) + e(s) <= SeenPairs[n + 1]
    <3> DEFINE k == SeenPairs[n + 1]
    <3>1. k \in Nat /\ 3 * n - (r(p) + r(q) + r(s)) <= k
      BY <2>10, <2>11
    <3> HIDE DEF k
    <3>2. e(p) + e(q) + e(s) <= k
      BY <1>1, <2>9, <3>1
    <3> QED BY <3>2 DEF k
  <2>13. Cardinality(RowEnds(A)) \in Nat
    BY <1>6, FS_CardinalityType
  <2> QED BY <1>6, <2>11, <2>12, <2>13 DEF n
<1> QED BY <1>7, <1>8

\* No more edges than that,
LEMMA FewEdges ==
  ASSUME NEW A \in SUBSET (Int \X Int), IsFiniteSet(A), Cardinality(A) <= 6
  PROVE  Cardinality(Within(A)) <= SeenPairs[Cardinality(A) + 1]
<1> DEFINE along(p) == CHOOSE d \in Forward : p[2] = Step(p[1], d, 1)
           f == [p \in Within(A) |-> <<along(p), p[1]>>]
<1>1. ASSUME NEW p \in Within(A)
      PROVE  along(p) \in Forward /\ p[2] = Step(p[1], along(p), 1) /\ f[p] \in RowEnds(A) /\ p = <<p[1], p[2]>>
  <2>1. p \in A \X A /\ \E d \in Forward : p[2] = Step(p[1], d, 1)
    BY DEF Within
  <2>2. along(p) \in Forward /\ p[2] = Step(p[1], along(p), 1)
    BY <2>1
  <2> HIDE DEF along
  <2>3. p[1] \in Followed(along(p), A)
    BY <2>1, <2>2 DEF Followed
  <2> QED BY <2>1, <2>2, <2>3 DEF RowEnds
<1> HIDE DEF along
<1>2. \A p, q \in Within(A) : f[p] = f[q] => p = q
  <2> SUFFICES ASSUME NEW p \in Within(A), NEW q \in Within(A), f[p] = f[q] PROVE p = q
    OBVIOUS
  <2>1. along(p) = along(q) /\ p[1] = q[1]
    OBVIOUS
  <2> HIDE DEF f
  <2> QED BY <1>1, <2>1
<1>3. IsFiniteSet(RowEnds(A)) /\ Cardinality(RowEnds(A)) \in Nat /\ Cardinality(RowEnds(A)) <= SeenPairs[Cardinality(A) + 1]
      /\ SeenPairs[Cardinality(A) + 1] \in Nat
  BY FewEnds
<1>4. Cardinality(Within(A)) \in Nat /\ Cardinality(Within(A)) <= Cardinality(RowEnds(A))
  <2>1. f = [p \in Within(A) |-> f[p]] /\ \A p \in Within(A) : f[p] \in RowEnds(A)
    BY <1>1
  <2> HIDE DEF f
  <2> QED BY <1>2, <1>3, <2>1, InjectionSize
<1> QED BY <1>3, <1>4

\* and no more lines of sight.
LEMMA FewLines ==
  ASSUME NEW A \in SUBSET (Int \X Int), IsFiniteSet(A), Cardinality(A) <= 6
  PROVE  IsFiniteSet(LinesOfSight(A)) /\ Cardinality(LinesOfSight(A)) \in Nat
         /\ Cardinality(LinesOfSight(A)) <= SeenPairs[Cardinality(A) + 1]
<1> DEFINE Sees(x) == /\ x \in A \X Forward \X (2..Width)
                      /\ Step(x[1], x[2], x[3]) \in A
                      /\ \A i \in 1..(x[3] - 1) : Step(x[1], x[2], i) \notin A
           Of(l, x) == Sees(x) /\ l = SightLine(x[1], x[2], x[3])
           seen(l) == CHOOSE x : Of(l, x)
           f == [l \in LinesOfSight(A) |-> <<seen(l)[2], seen(l)[1]>>]
<1>1. ASSUME NEW l \in LinesOfSight(A) PROVE \E x : Of(l, x)
  <2>1. PICK h \in A, d \in Directions, n \in 2..Width :
          /\ Step(h, d, n) \in A /\ (\A i \in 1..(n - 1) : Step(h, d, i) \notin A)
          /\ l = SightLine(h, d, n)
    BY DEF LinesOfSight
  <2>2. CASE d \in Forward
    <3>1. Of(l, <<h, d, n>>)
      BY <2>1, <2>2
    <3> QED BY <3>1
  <2>3. CASE d \notin Forward
    <3> DEFINE e == <<-d[1], -d[2]>> g == Step(h, d, n)
    <3>1. e \in Forward /\ d[1] \in {-1, 0, 1} /\ d[2] \in {-1, 0, 1}
      BY <2>3 DEF Directions, Forward
    <3>2. n \in Int /\ n > 1
      OBVIOUS
    <3>3. PICK u \in Int, v \in Int : h = <<u, v>>
      OBVIOUS
    <3>4. \A i \in Int : Step(g, e, i) = Step(h, d, n - i)
      <4>1. CASE d = <<0, -1>>
        BY <3>2, <3>3, <4>1 DEF Step
      <4>2. CASE d = <<-1, 0>>
        BY <3>2, <3>3, <4>2 DEF Step
      <4>3. CASE d = <<-1, 1>>
        BY <3>2, <3>3, <4>3 DEF Step
      <4> QED BY <2>3, <4>1, <4>2, <4>3 DEF Directions, Forward
    <3>5. Step(h, d, 0) = h
      BY <3>1, <3>3 DEF Step
    <3>6. \A i \in Int : Step(Step(g, e, 1), e, i) = Step(g, e, i + 1)
      <4>1. g \in Int \X Int /\ e \in Directions
        BY <2>1, <3>1 DEF Directions, Forward
      <4> HIDE DEF g, e
      <4> QED BY <4>1, StepStep
    <3>7. \A i \in Int : Step(Step(h, d, 1), d, i) = Step(h, d, i + 1)
      BY StepStep
    <3> HIDE DEF e, g
    <3>8. Step(g, e, n) = h
      BY <3>2, <3>4, <3>5
    <3>9. \A i \in 1..(n - 1) : Step(g, e, i) \notin A
      <4> SUFFICES ASSUME NEW i \in 1..(n - 1) PROVE Step(g, e, i) \notin A
        OBVIOUS
      <4>1. n - i \in 1..(n - 1) /\ Step(g, e, i) = Step(h, d, n - i)
        BY <3>4
      <4> QED BY <2>1, <4>1
    <3>10. SightLine(g, e, n) = l
      <4>1. {g, Step(g, e, n)} = {h, Step(h, d, n)}
        BY <3>8 DEF g
      <4>2. ASSUME NEW z PROVE z \in Line(Step(g, e, 1), e, n - 1) <=> z \in Line(Step(h, d, 1), d, n - 1)
        <5> DEFINE I == 0..((n - 1) - 1)
        <5>1. z \in Line(Step(g, e, 1), e, n - 1) <=> \E i \in I : z = Step(g, e, i + 1)
          BY <3>6 DEF Line
        <5>2. z \in Line(Step(h, d, 1), d, n - 1) <=> \E i \in I : z = Step(h, d, i + 1)
          BY <3>7 DEF Line
        <5>3. \A i \in I : Step(g, e, i + 1) = Step(h, d, ((n - 2) - i) + 1) /\ (n - 2) - i \in I
          <6> SUFFICES ASSUME NEW i \in I PROVE Step(g, e, i + 1) = Step(h, d, ((n - 2) - i) + 1) /\ (n - 2) - i \in I
            OBVIOUS
          <6>1. i + 1 \in Int /\ n - (i + 1) = ((n - 2) - i) + 1 /\ (n - 2) - i \in I
            BY <3>2
          <6>2. Step(g, e, i + 1) = Step(h, d, n - (i + 1))
            BY <3>4, <6>1
          <6> QED BY <6>1, <6>2
        <5>4. \A i \in I : (n - 2) - ((n - 2) - i) = i /\ (n - 2) - i \in I
          BY <3>2
        <5> HIDE DEF I
        <5>5. \A i \in I : Step(h, d, i + 1) = Step(g, e, ((n - 2) - i) + 1)
          <6> SUFFICES ASSUME NEW i \in I PROVE Step(h, d, i + 1) = Step(g, e, ((n - 2) - i) + 1)
            OBVIOUS
          <6>1. (n - 2) - i \in I /\ (n - 2) - ((n - 2) - i) = i
            BY <5>4
          <6> QED BY <5>3, <6>1
        <5> QED BY <5>1, <5>2, <5>3, <5>5
      <4>3. Line(Step(g, e, 1), e, n - 1) = Line(Step(h, d, 1), d, n - 1)
        BY <4>2
      <4> QED BY <2>1, <4>1, <4>3 DEF SightLine
    <3>11. Of(l, <<g, e, n>>)
      <4>1. g \in A /\ Step(g, e, n) \in A
        BY <2>1, <3>8 DEF g
      <4> QED BY <3>1, <3>9, <3>10, <4>1
    <3> QED BY <3>11
  <2> QED BY <2>2, <2>3
<1>2. ASSUME NEW l \in LinesOfSight(A) PROVE Of(l, seen(l))
  <2> HIDE DEF Of
  <2> QED BY <1>1
<1> HIDE DEF seen
<1>3. \A l \in LinesOfSight(A) : f[l] \in RowEnds(A)
  <2> SUFFICES ASSUME NEW l \in LinesOfSight(A) PROVE <<seen(l)[2], seen(l)[1]>> \in RowEnds(A)
    OBVIOUS
  <2>1. PICK x : x = seen(l) /\ Sees(x)
    BY <1>2
  <2>2. x[1] \in A /\ x[2] \in Forward /\ x[3] \in Nat /\ x[3] > 0 /\ Step(x[1], x[2], x[3]) \in A
    BY <2>1
  <2>3. x[1] \in Followed(x[2], A)
    BY <2>2 DEF Followed
  <2> QED BY <2>1, <2>2, <2>3 DEF RowEnds
<1>4. \A k, l \in LinesOfSight(A) : f[k] = f[l] => k = l
  <2> SUFFICES ASSUME NEW k \in LinesOfSight(A), NEW l \in LinesOfSight(A), f[k] = f[l] PROVE k = l
    OBVIOUS
  <2>1. seen(k)[1] = seen(l)[1] /\ seen(k)[2] = seen(l)[2]
    OBVIOUS
  <2>a. Of(k, seen(k)) /\ Of(l, seen(l))
    BY <1>2
  <2>2. PICK x : x = seen(k) /\ Of(k, x)
    BY <2>a, Zenon
  <2>3. PICK y : y = seen(l) /\ Of(l, y)
    BY <2>a, Zenon
  <2>4. x[1] = y[1] /\ x[2] = y[2]
    BY <2>1, <2>2, <2>3, Zenon
  <2>5. x[3] = y[3]
    <3>1. x[3] \in 2..Width /\ y[3] \in 2..Width
      BY <2>2, <2>3
    <3>2. ~ (x[3] < y[3])
      <4> SUFFICES ASSUME x[3] < y[3] PROVE FALSE
        OBVIOUS
      <4>1. x[3] \in 1..(y[3] - 1)
        BY <3>1
      <4>2. Step(x[1], x[2], x[3]) \in A /\ Step(y[1], y[2], x[3]) \notin A
        BY <2>2, <2>3, <4>1
      <4> QED BY <2>4, <4>2
    <3>3. ~ (y[3] < x[3])
      <4> SUFFICES ASSUME y[3] < x[3] PROVE FALSE
        OBVIOUS
      <4>1. y[3] \in 1..(x[3] - 1)
        BY <3>1
      <4>2. Step(y[1], y[2], y[3]) \in A /\ Step(x[1], x[2], y[3]) \notin A
        BY <2>2, <2>3, <4>1
      <4> QED BY <2>4, <4>2
    <3> QED BY <3>1, <3>2, <3>3
  <2>6. k = SightLine(x[1], x[2], x[3]) /\ l = SightLine(y[1], y[2], y[3])
    BY <2>2, <2>3
  <2> QED BY <2>4, <2>5, <2>6
<1>5. f = [l \in LinesOfSight(A) |-> f[l]]
  OBVIOUS
<1> HIDE DEF f
<1>6. IsFiniteSet(LinesOfSight(A)) /\ Cardinality(LinesOfSight(A)) \in Nat
      /\ Cardinality(LinesOfSight(A)) <= Cardinality(RowEnds(A))
  BY <1>3, <1>4, <1>5, FewEnds, InjectionSize
<1> QED BY <1>6, FewEnds

-----------------------------------------------------------------------------
(* Profiles of sums, and what is to be shown of each species.               *)

\* A profile for this score that asks for no more edges than there are.
ProfilesOffer(profiles, worth, same, cross) ==
  \E p \in profiles : p[1] >= worth /\ p[2] <= same /\ p[3] <= cross

\* Profiles are finitely many triples.
IsProfiles(Q) == IsFiniteSet(Q) /\ Q \subseteq Triples

\* The efficient profiles offer what all of them do.
LEMMA EfficientOffers ==
  ASSUME NEW Q, IsProfiles(Q)
  PROVE  /\ IsProfiles(Efficient(Q))
         /\ \A worth, same, cross \in Nat :
              ProfilesOffer(Q, worth, same, cross) => ProfilesOffer(Efficient(Q), worth, same, cross)
<1>1. Efficient(Q) \subseteq Q
  BY DEF Efficient
<1>2. IsProfiles(Efficient(Q))
  BY <1>1, FS_Subset DEF IsProfiles
<1>3. ASSUME NEW worth \in Nat, NEW same \in Nat, NEW cross \in Nat, ProfilesOffer(Q, worth, same, cross)
      PROVE  ProfilesOffer(Efficient(Q), worth, same, cross)
  <2> DEFINE D == {o \in Q : o[1] >= worth /\ o[2] <= same /\ o[3] <= cross}
             f == [o \in D |-> o[1] - o[2] - o[3]]
  <2>1. IsFiniteSet(D) /\ D # {}
    BY <1>3, FS_Subset DEF IsProfiles, ProfilesOffer
  <2>2. \A o \in D : o[1] \in Nat /\ o[2] \in Nat /\ o[3] \in Nat /\ o = <<o[1], o[2], o[3]>>
    BY DEF IsProfiles, Triples
  <2>3. \A o \in D : f[o] \in Int
    BY <2>2
  <2>4. PICK o \in D : \A q \in D : f[q] <= f[o]
    <3> HIDE DEF D, f
    <3> QED BY <2>1, <2>3, FarthestIn
  <2>5. ASSUME NEW q \in Q \ {o}, q[1] >= o[1], q[2] <= o[2], q[3] <= o[3] PROVE FALSE
    <3>1. q \in D
      BY <2>2, <2>5 DEF IsProfiles, Triples
    <3>2. q[1] - q[2] - q[3] <= o[1] - o[2] - o[3]
      BY <2>4, <3>1
    <3>3. q[1] = o[1] /\ q[2] = o[2] /\ q[3] = o[3]
      BY <2>2, <2>5, <3>1, <3>2
    <3> QED BY <2>2, <3>1, <3>3
  <2>6. o \in Efficient(Q)
    BY <2>5 DEF Efficient
  <2> QED BY <2>6 DEF ProfilesOffer
<1> QED BY <1>2, <1>3

\* The sums of more tokens.
LEMMA SumsOfMore ==
  ASSUME NEW count \in Nat, NEW more \in Nat, count <= more, NEW groups, IsTriples(groups)
  PROVE  GroupSums(count, groups) \subseteq GroupSums(more, groups)
<1> DEFINE Q == GroupSums(more, groups)
<1>1. <<0, 0, 0>> \in Q /\ \A x \in Q \cap Triples, g \in groups : x[1] + g[1] <= count => Added(x, g) \in Q
  <2>1. \A x \in Triples, g \in groups : x[1] + g[1] \in Nat
    BY DEF IsTriples, Triples
  <2> QED BY <2>1, SumsGrow
<1> HIDE DEF Q
<1>2. GroupSums(count, groups) \subseteq Q
  BY <1>1, SumsLeast
<1> QED BY <1>2 DEF Q

\* Sums of one kind of group only are multiples of it.
LEMMA SameGroups ==
  ASSUME NEW k \in Nat, k > 0, NEW e \in Nat, NEW count \in Nat,
         NEW x \in GroupSums(count, {<<k, 1, e>>})
  PROVE  x[1] = k * x[2] /\ x[3] = e * x[2] /\ x[2] \in Nat
<1> DEFINE G == {<<k, 1, e>>}
           Q == {y \in Triples : y[1] = k * y[2] /\ y[3] = e * y[2]}
<1>1. IsTriples(G)
  <2>1. IsFiniteSet(G)
    BY FS_Singleton
  <2> QED BY <2>1 DEF IsTriples, Triples
<1>2. <<0, 0, 0>> \in Q
  BY DEF Triples
<1>3. ASSUME NEW y \in Q \cap Triples PROVE Added(y, <<k, 1, e>>) \in Q
  <2>1. PICK i \in Nat : y = <<k * i, i, e * i>>
    BY DEF Triples
  <2>2. k * i + k = k * (i + 1) /\ e * i + e = e * (i + 1)
    OBVIOUS
  <2>3. Added(y, <<k, 1, e>>) = <<k * (i + 1), i + 1, e * (i + 1)>>
    BY <2>1, <2>2 DEF Added
  <2>4. k * (i + 1) \in Nat /\ e * (i + 1) \in Nat /\ i + 1 \in Nat
    OBVIOUS
  <2> QED BY <2>3, <2>4 DEF Triples
<1>4. GroupSums(count, G) \subseteq Q
  <2>1. \A y \in Q \cap Triples, g \in G : y[1] + g[1] <= count => Added(y, g) \in Q
    BY <1>3
  <2> HIDE DEF G, Q
  <2> QED BY <1>1, <1>2, <2>1, SumsLeast
<1> QED BY <1>4 DEF Triples

\* Disjoint groups of one size.
SameSized(R, C, m, k, e) ==
  /\ IsFiniteSet(R) /\ Cardinality(R) \in Nat
  /\ UNION R \in SUBSET C /\ Cardinality(UNION R) = k * Cardinality(R)
  /\ m[UNION R] \in Nat /\ e * Cardinality(R) <= m[UNION R]

\* Disjoint parts of one size and so many edges each.
LEMMA PartsOfSize ==
  ASSUME NEW C, IsFiniteSet(C), NEW R, Disjoint(R, C),
         NEW m, Measures(m, C), NEW k \in Nat, k > 0, NEW e \in Nat,
         \A T \in R : Cardinality(T) = k /\ e <= m[T]
  PROVE  SameSized(R, C, m, k, e)
<1> DEFINE U == UNION R
           n == [S \in SUBSET U |-> m[S]]
           w == [T \in R |-> 1]
           G == {<<k, 1, e>>}
<1>1. U \in SUBSET C
  BY DEF Disjoint
<1>2. IsFiniteSet(U) /\ IsFiniteSet(R) /\ Cardinality(R) \in Nat
  <2>1. IsFiniteSet(SUBSET C)
    BY FS_SUBSET
  <2>2. IsFiniteSet(U) /\ IsFiniteSet(R)
    BY <1>1, <2>1, FS_Subset
  <2> QED BY <2>2, FS_CardinalityType
<1>3. Measures(n, U)
  <2>1. SUBSET U \subseteq SUBSET C
    BY <1>1
  <2>2. n \in [SUBSET U -> Nat] /\ \A S \in SUBSET U : n[S] = m[S]
    BY <2>1 DEF Measures
  <2>3. \A S \in SUBSET U : \A T \in SUBSET S : m[T] + m[S \ T] <= m[S]
    BY <2>1 DEF Measures
  <2>4. \A S \in SUBSET U : \A T \in SUBSET S : T \in SUBSET U /\ S \ T \in SUBSET U
    OBVIOUS
  <2> HIDE DEF n, U
  <2>5. ASSUME NEW S \in SUBSET U, NEW T \in SUBSET S PROVE n[T] + n[S \ T] <= n[S]
    <3>1. T \in SUBSET U /\ S \ T \in SUBSET U
      BY <2>4
    <3>2. n[T] = m[T] /\ n[S \ T] = m[S \ T] /\ n[S] = m[S]
      BY <2>2, <3>1
    <3> QED BY <2>3, <3>2
  <2> QED BY <2>2, <2>5 DEF Measures
<1>4. IsTriples(G)
  <2>1. IsFiniteSet(G)
    BY FS_Singleton
  <2> QED BY <2>1 DEF IsTriples, Triples
<1>5. Disjoint(R, U) /\ w \in [R -> Nat]
  BY DEF Disjoint
<1>6. Fitted(R, G, n, w)
  <2>1. \A T \in R : <<k, 1, e>>[1] = Cardinality(T) /\ <<k, 1, e>>[2] = w[T] /\ <<k, 1, e>>[3] <= n[T]
    OBVIOUS
  <2> QED BY <2>1 DEF Fitted
<1>7. SumFunction(w) = Cardinality(R)
  BY <1>2, SumOfOnes
<1>8. n[U] = m[U] /\ m[U] \in Nat
  BY <1>1 DEF Measures
<1> HIDE DEF n, w, G, U
<1>9. PICK x \in GroupSums(Cardinality(U), G) : x[1] = Cardinality(UNION R) /\ x[2] = SumFunction(w) /\ x[3] <= n[U]
  <2>1. PacksTo(R, U, G, n, w)
    BY <1>2, <1>3, <1>4, <1>5, <1>6, PackingSums
  <2> QED BY <2>1 DEF PacksTo
<1>10. Cardinality(U) \in Nat
  BY <1>2, FS_CardinalityType
<1>11. x[1] = k * x[2] /\ x[3] = e * x[2] /\ x[2] \in Nat
  BY <1>9, <1>10, SameGroups DEF G
<1> QED BY <1>1, <1>2, <1>7, <1>8, <1>9, <1>11 DEF U, SameSized

\* The components of a size.
OfSize(A, k) == {K \in Components(A) : Cardinality(K) = k}

\* The sizes of the groups and the edges within them are those of the tokens.
LEMMA GroupCounts ==
  ASSUME NEW A \in SUBSET (Int \X Int), IsFiniteSet(A)
  PROVE  LET g == [k \in 1..4 |-> Cardinality(OfSize(A, k))]
         IN  /\ g \in [1..4 -> Nat]
             /\ g[1] + 2 * g[2] + 3 * g[3] + 4 * g[4] <= Cardinality(A)
             /\ g[2] + 2 * g[3] + 3 * g[4] <= Cardinality(Within(A))
<1> DEFINE m == [S \in SUBSET A |-> Cardinality(Within(S))]
           size == [S \in SUBSET A |-> Cardinality(S)]
           U(k) == UNION OfSize(A, k)
           c(k) == Cardinality(OfSize(A, k))
<1>1. IsComponents(Components(A), A, Adjacency)
  BY ComponentsFound
<1>2. Measures(m, A)
  BY WithinMeasures
<1>3. ASSUME NEW k \in Nat, k > 0
      PROVE  /\ c(k) \in Nat /\ U(k) \in SUBSET A /\ Cardinality(U(k)) = k * c(k)
             /\ m[U(k)] \in Nat /\ (k - 1) * c(k) <= m[U(k)]
  <2> DEFINE R == OfSize(A, k) e == k - 1
  <2>1. /\ Disjoint(R, A)
        /\ R \subseteq (SUBSET A) \ {{}}
        /\ \A T \in R : Connected(T, Adjacency) /\ Cardinality(T) = k
    BY <1>1 DEF IsComponents, OfSize, Disjoint
  <2>2. \A T \in R : e <= m[T]
    <3> SUFFICES ASSUME NEW T \in R PROVE k - 1 <= Cardinality(Within(T))
      BY <2>1
    <3>1. T \in SUBSET (Int \X Int) /\ IsFiniteSet(T) /\ T # {} /\ Connected(T, Adjacency) /\ Cardinality(T) = k
      BY <2>1, FS_Subset
    <3> QED BY <3>1, ConnectedEdges
  <2> HIDE DEF m, R
  <2>3. SameSized(R, A, m, k, e)
    <3>1. e \in Nat /\ k > 0
      BY <1>3
    <3> HIDE DEF e
    <3> QED BY <1>2, <2>1, <2>2, <3>1, PartsOfSize
  <2> QED BY <2>3 DEF R, SameSized
<1>4. \A j, k \in Nat : j # k => U(j) \cap U(k) = {}
  BY <1>1 DEF IsComponents, OfSize
<1>5. /\ c(1) \in Nat /\ U(1) \in SUBSET A /\ Cardinality(U(1)) = c(1) /\ m[U(1)] \in Nat
      /\ c(2) \in Nat /\ U(2) \in SUBSET A /\ Cardinality(U(2)) = 2 * c(2) /\ m[U(2)] \in Nat /\ c(2) <= m[U(2)]
      /\ c(3) \in Nat /\ U(3) \in SUBSET A /\ Cardinality(U(3)) = 3 * c(3) /\ m[U(3)] \in Nat /\ 2 * c(3) <= m[U(3)]
      /\ c(4) \in Nat /\ U(4) \in SUBSET A /\ Cardinality(U(4)) = 4 * c(4) /\ m[U(4)] \in Nat /\ 3 * c(4) <= m[U(4)]
  <2> HIDE DEF m, U, c
  <2> QED BY <1>3
<1>6. /\ U(1) \cap U(2) = {} /\ (U(1) \cup U(2)) \cap U(3) = {} /\ ((U(1) \cup U(2)) \cup U(3)) \cap U(4) = {}
  <2> HIDE DEF U
  <2> QED BY <1>4
<1>7. Measures(size, A)
  BY SizeMeasures
<1>8. ASSUME NEW n, Measures(n, A)
      PROVE  n[U(1)] + n[U(2)] + n[U(3)] + n[U(4)] <= n[A]
  <2> HIDE DEF U, c, m, size
  <2>1. /\ n[U(1)] \in Nat /\ n[U(2)] \in Nat /\ n[U(1) \cup U(2)] \in Nat
        /\ n[U(1)] + n[U(2)] <= n[U(1) \cup U(2)]
    <3>1. U(1) \in SUBSET A /\ U(2) \in SUBSET A /\ U(1) \cap U(2) = {}
      BY <1>5, <1>6
    <3> QED BY <1>8, <3>1, MeasureOfTwo
  <2> DEFINE V == U(1) \cup U(2)
  <2>2. V \in SUBSET A /\ V \cap U(3) = {}
    BY <1>5, <1>6
  <2> HIDE DEF V
  <2>3. n[U(3)] \in Nat /\ n[V \cup U(3)] \in Nat /\ n[V] + n[U(3)] <= n[V \cup U(3)]
    <3>1. U(3) \in SUBSET A
      BY <1>5
    <3> QED BY <1>8, <2>2, <3>1, MeasureOfTwo
  <2> DEFINE W == V \cup U(3)
  <2>4. W \in SUBSET A /\ W \cap U(4) = {}
    BY <1>5, <1>6, <2>2 DEF V
  <2> HIDE DEF W
  <2>5. n[U(4)] \in Nat /\ n[W \cup U(4)] \in Nat /\ n[W] + n[U(4)] <= n[W \cup U(4)]
    <3>1. U(4) \in SUBSET A
      BY <1>5
    <3> QED BY <1>8, <2>4, <3>1, MeasureOfTwo
  <2>6. n[W \cup U(4)] <= n[A] /\ n[A] \in Nat
    <3>1. W \cup U(4) \in SUBSET A
      BY <1>5, <2>4
    <3> HIDE DEF W
    <3> QED BY <1>8, <3>1, MeasureOfTwo, {} \in SUBSET A, (W \cup U(4)) \cap {} = {}
  <2>7. n[V] \in Nat /\ n[W] \in Nat /\ n[U(1)] + n[U(2)] <= n[V] /\ n[V] + n[U(3)] <= n[W]
    BY <2>1, <2>3 DEF V, W
  <2> QED BY <2>1, <2>3, <2>5, <2>6, <2>7
<1>9. c(1) + 2 * c(2) + 3 * c(3) + 4 * c(4) <= Cardinality(A)
  <2>1. size[U(1)] + size[U(2)] + size[U(3)] + size[U(4)] <= size[A]
    <3> HIDE DEF size, U
    <3> QED BY <1>7, <1>8
  <2>2. size[A] = Cardinality(A) /\ size[U(1)] = c(1) /\ size[U(2)] = 2 * c(2) /\ size[U(3)] = 3 * c(3) /\ size[U(4)] = 4 * c(4)
    <3> HIDE DEF U, c
    <3> QED BY <1>5
  <2> HIDE DEF size, U, c
  <2> QED BY <2>1, <2>2
<1>10. c(2) + 2 * c(3) + 3 * c(4) <= Cardinality(Within(A))
  <2>1. m[U(1)] + m[U(2)] + m[U(3)] + m[U(4)] <= m[A]
    <3> HIDE DEF m, U
    <3> QED BY <1>2, <1>8
  <2>2. m[A] = Cardinality(Within(A)) /\ m[A] \in Nat
    BY <1>2 DEF Measures
  <2> HIDE DEF m, U, c
  <2> QED BY <1>5, <2>1, <2>2
<1> QED BY <1>5, <1>9, <1>10

\* A group can be taken as often as there are tokens for it.
Repeated(x, g, k) == <<x[1] + k * g[1], x[2] + k * g[2], x[3] + k * g[3]>>

\* A group that fits k times more makes another sum.
LEMMA SumsRepeat ==
  ASSUME NEW count \in Nat, NEW groups, IsTriples(groups), NEW g \in groups,
         NEW x \in GroupSums(count, groups), NEW k \in 0..3, x[1] + k * g[1] <= count
  PROVE  Repeated(x, g, k) \in GroupSums(count, groups)
<1> DEFINE S == GroupSums(count, groups)
<1>1. \A y \in S : y[1] + g[1] <= count => Added(y, g) \in S
  BY SumsGrow
<1>2. x \in S /\ x \in Triples /\ g \in Triples
  BY SumsTyped DEF IsTriples
<1> HIDE DEF S
<1>3. PICK a \in Nat, b \in Nat, c \in Nat : x = <<a, b, c>>
  BY <1>2 DEF Triples
<1>4. PICK d \in Nat, e \in Nat, f \in Nat : g = <<d, e, f>>
  BY <1>2 DEF Triples
<1>5. /\ Repeated(x, g, 0) = x
      /\ Added(x, g) = Repeated(x, g, 1) /\ Repeated(x, g, 1)[1] = a + d
      /\ Added(Repeated(x, g, 1), g) = Repeated(x, g, 2) /\ Repeated(x, g, 2)[1] = a + 2 * d
      /\ Added(Repeated(x, g, 2), g) = Repeated(x, g, 3)
  BY <1>3, <1>4 DEF Added, Repeated
<1>6. a + k * d <= count /\ x[1] = a /\ g[1] = d
  BY <1>3, <1>4
<1>7. k = 0 \/ k = 1 \/ k = 2 \/ k = 3
  OBVIOUS
<1>8. k >= 1 => Repeated(x, g, 1) \in S
  <2>1. k >= 1 => x[1] + g[1] <= count
    BY <1>6, <1>7
  <2> QED BY <1>1, <1>2, <1>5, <2>1
<1>9. k >= 2 => Repeated(x, g, 2) \in S
  <2>1. k >= 2 => Repeated(x, g, 1)[1] + g[1] <= count
    BY <1>5, <1>6, <1>7
  <2> QED BY <1>1, <1>5, <1>7, <1>8, <2>1
<1>10. k >= 3 => Repeated(x, g, 3) \in S
  <2>1. k >= 3 => Repeated(x, g, 2)[1] + g[1] <= count
    BY <1>5, <1>6, <1>7
  <2> QED BY <1>1, <1>5, <1>7, <1>9, <2>1
<1> QED BY <1>2, <1>5, <1>7, <1>8, <1>9, <1>10 DEF S

\* A species by itself: its score is in the domain, no higher than the bound,
\* and one of the profiles.
Bounded(worth, domain, upper, profiles, same, cross) ==
  /\ worth \in domain /\ worth \in Nat
  /\ upper \in Nat /\ worth <= upper
  /\ IsProfiles(profiles) /\ ProfilesOffer(profiles, worth, same, cross)

\* The sums as profiles.
LEMMA SumProfiles ==
  ASSUME NEW count \in Nat, NEW groups, IsTriples(groups), NEW x \in GroupSums(count, groups),
         NEW same \in Nat, x[3] <= same, NEW cross \in Nat
  PROVE  /\ x[2] \in Nat /\ x[2] \in Sums(count, groups)
         /\ IsProfiles(Profiles(count, groups)) /\ ProfilesOffer(Profiles(count, groups), x[2], same, cross)
<1> DEFINE f == [y \in GroupSums(count, groups) |-> <<y[2], y[3], 0>>]
           Q == {<<y[2], y[3], 0>> : y \in GroupSums(count, groups)}
<1>1. \A y \in GroupSums(count, groups) : y[2] \in Nat /\ y[3] \in Nat
  <2> SUFFICES ASSUME NEW y \in GroupSums(count, groups) PROVE y[2] \in Nat /\ y[3] \in Nat
    OBVIOUS
  <2>1. y \in Triples
    BY SumsTyped
  <2> QED BY <2>1 DEF Triples
<1>2. IsProfiles(Q)
  <2>1. Q = {f[y] : y \in GroupSums(count, groups)}
    OBVIOUS
  <2>2. IsFiniteSet({f[y] : y \in GroupSums(count, groups)})
    <3> HIDE DEF f
    <3> QED BY SumsFinite, FiniteImage
  <2>3. Q \subseteq Triples
    BY <1>1 DEF Triples
  <2> QED BY <2>1, <2>2, <2>3 DEF IsProfiles
<1>3. ProfilesOffer(Q, x[2], same, cross)
  <2> DEFINE p == <<x[2], x[3], 0>>
  <2>1. p \in Q /\ p[1] >= x[2] /\ p[2] <= same /\ p[3] <= cross
    BY <1>1
  <2> HIDE DEF p, Q
  <2> QED BY <2>1 DEF ProfilesOffer
<1>4. Profiles(count, groups) = Efficient(Q)
  BY DEF Profiles
<1>5. IsProfiles(Efficient(Q)) /\ ProfilesOffer(Efficient(Q), x[2], same, cross)
  <2> HIDE DEF Q
  <2> QED BY <1>1, <1>2, <1>3, EfficientOffers
<1> QED BY <1>1, <1>4, <1>5 DEF Sums

-----------------------------------------------------------------------------
(* Bears.                                                                   *)

\* What the sizes of the groups of bears leave open.
Bears(n, w, a, b, c, d) ==
  /\ n \in 0..6 /\ w \in Nat /\ a \in Nat /\ b \in Nat /\ c \in Nat /\ d \in Nat
  /\ a + 2 * b + 3 * c + 4 * d <= n /\ b + 2 * c + 3 * d <= w

\* The bounds of BearScoreDomain, StandaloneBear and BearProfiles for a score.
BearsBounded(n, w, worth, card) ==
  \A cross \in Nat :
    Bounded(worth, BearScoreDomain(n, card), StandaloneBear(n, card), BearProfiles(n, card), w, cross)

\* Card A: pairs of bears.
LEMMA BearPairs ==
  ASSUME NEW n, NEW w, NEW a, NEW b, NEW c, NEW d, Bears(n, w, a, b, c, d)
  PROVE  BearsBounded(n, w, Entry(<<0, 4, 11, 19, 27>>, b), "A")
<1> DEFINE t == <<0, 4, 11, 19, 27>>
           D == {Entry(t, i) : i \in 0..(n \div 2)}
           Q == {<<Entry(t, i), i, 0>> : i \in 0..(n \div 2)}
           u == <<0, 0, 4, 4, 11, 11, 19>>[n + 1]
<1>1. n \in 0..6 /\ b \in 0..3 /\ 2 * b <= n /\ b \in 0..(n \div 2) /\ b <= w /\ w \in Nat
  BY DEF Bears
<1>2. \A i \in 0..3 : Entry(t, i) = t[i + 1] /\ Entry(t, i) \in Nat
  BY DEF Entry
<1>3. Entry(t, b) <= u /\ u \in Nat
  <2>1. Entry(t, b) = t[b + 1]
    BY <1>1, <1>2
  <2>2. n >= 2 * b /\ n \in 0..6
    BY <1>1
  <2>3. CASE b = 0
    BY <1>1, <2>1, <2>2, <2>3
  <2>4. CASE b = 1
    BY <1>1, <2>1, <2>2, <2>4
  <2>5. CASE b = 2
    BY <1>1, <2>1, <2>2, <2>5
  <2>6. CASE b = 3
    BY <1>1, <2>1, <2>2, <2>6
  <2> QED BY <1>1, <2>3, <2>4, <2>5, <2>6
<1>4. 0..(n \div 2) \subseteq 0..3
  BY <1>1
<1>5. IsProfiles(Q)
  <2> DEFINE f == [i \in 0..(n \div 2) |-> <<Entry(t, i), i, 0>>]
  <2>1. IsFiniteSet(0..(n \div 2))
    <3>1. n \div 2 \in Int
      BY <1>1
    <3> QED BY <3>1, FS_Interval
  <2>2. IsFiniteSet({f[i] : i \in 0..(n \div 2)})
    <3> HIDE DEF f
    <3> QED BY <2>1, FiniteImage
  <2>3. Q = {f[i] : i \in 0..(n \div 2)}
    OBVIOUS
  <2>4. Q \subseteq Triples
    BY <1>2, <1>4 DEF Triples
  <2> QED BY <2>2, <2>3, <2>4 DEF IsProfiles
<1>6. ASSUME NEW cross \in Nat PROVE ProfilesOffer(Q, Entry(t, b), w, cross)
  <2> DEFINE p == <<Entry(t, b), b, 0>>
  <2>1. p \in Q /\ p[1] >= Entry(t, b) /\ p[2] <= w /\ p[3] <= cross
    BY <1>1, <1>2
  <2> HIDE DEF p, Q
  <2> QED BY <2>1 DEF ProfilesOffer
<1>7. Entry(t, b) \in D /\ Entry(t, b) \in Nat
  BY <1>1, <1>2
<1>8. BearScoreDomain(n, "A") = D /\ BearProfiles(n, "A") = Q /\ StandaloneBear(n, "A") = u
  BY DEF BearScoreDomain, BearProfiles, StandaloneBear
<1> HIDE DEF D, Q, u, t
<1>9. \A cross \in Nat : Bounded(Entry(t, b), D, u, Q, w, cross)
  BY <1>3, <1>5, <1>6, <1>7 DEF Bounded
<1> QED BY <1>8, <1>9 DEF BearsBounded, t

\* Card B: triples of bears.
LEMMA BearTriples ==
  ASSUME NEW n, NEW w, NEW a, NEW b, NEW c, NEW d, Bears(n, w, a, b, c, d)
  PROVE  BearsBounded(n, w, 10 * c, "B")
<1> DEFINE G == Groups(BearTable("B"), Chain)
<1>1. n \in Nat /\ c \in 0..3 /\ 3 * c <= n /\ 2 * c <= w /\ w \in Nat /\ c <= n \div 3 /\ n \div 3 \in Nat
  BY DEF Bears
<1>2. IsTriples(G) /\ <<3, 10, 2>> \in G
  <2> DEFINE t == BearTable("B")
  <2>1. t = <<0, 0, 0, 10>>
    BY DEF BearTable
  <2>2. t \in Seq(Nat) /\ Len(t) = 4 /\ t[4] = 10
    <3>1. <<0, 0, 0, 10>> \in Seq(Nat) /\ Len(<<0, 0, 0, 10>>) = 4 /\ <<0, 0, 0, 10>>[4] = 10
      OBVIOUS
    <3> HIDE DEF t
    <3> QED BY <2>1, <3>1
  <2>3. \A k \in 1..(Len(t) - 1) : Chain[k] \in Nat
    <3>1. \A k \in 1..6 : Chain[k] \in Nat
      BY DEF Chain
    <3> HIDE DEF t
    <3> QED BY <2>2, <3>1
  <2>4. Chain[3] = 2
    BY DEF Chain
  <2> HIDE DEF t
  <2>5. /\ IsTriples(Groups(t, Chain))
        /\ \A k \in 1..(Len(t) - 1) : t[k + 1] > 0 => <<k, t[k + 1], Chain[k]>> \in Groups(t, Chain)
    BY <2>2, <2>3, GroupsAre
  <2>6. <<3, t[3 + 1], Chain[3]>> \in Groups(t, Chain)
    BY <2>2, <2>5
  <2> QED BY <2>2, <2>4, <2>5, <2>6 DEF t
<1>3. <<3 * c, 10 * c, 2 * c>> \in GroupSums(n, G)
  <2> HIDE DEF G
  <2>1. <<0, 0, 0>> \in GroupSums(n, G)
    BY <1>1, <1>2, SumsGrow
  <2> DEFINE o == <<0, 0, 0>> g == <<3, 10, 2>>
  <2>2. o \in GroupSums(n, G) /\ g \in G /\ o[1] + c * g[1] <= n /\ c \in 0..3
    BY <1>1, <1>2, <2>1
  <2>3. Repeated(o, g, c) = <<3 * c, 10 * c, 2 * c>>
    BY <1>1 DEF Repeated
  <2> HIDE DEF o, g
  <2>4. Repeated(o, g, c) \in GroupSums(n, G)
    BY <1>1, <1>2, <2>2, SumsRepeat
  <2> QED BY <2>3, <2>4
<1>4. BearScoreDomain(n, "B") = Sums(n, G) /\ BearProfiles(n, "B") = Profiles(n, G) /\ StandaloneBear(n, "B") = 10 * (n \div 3)
  BY DEF BearScoreDomain, BearProfiles, StandaloneBear
<1>5. ASSUME NEW cross \in Nat
      PROVE  /\ 10 * c \in Nat /\ 10 * c \in Sums(n, G)
             /\ IsProfiles(Profiles(n, G)) /\ ProfilesOffer(Profiles(n, G), 10 * c, w, cross)
  <2> DEFINE x == <<3 * c, 10 * c, 2 * c>>
  <2>1. x \in GroupSums(n, G) /\ x[3] <= w /\ x[2] = 10 * c
    BY <1>1, <1>3
  <2> HIDE DEF x, G
  <2> QED BY <1>1, <1>2, <2>1, SumProfiles
<1> HIDE DEF G
<1>6. 10 * c <= 10 * (n \div 3) /\ 10 * (n \div 3) \in Nat
  BY <1>1
<1> QED BY <1>4, <1>5, <1>6 DEF BearsBounded, Bounded

\* Card C: components of one, two and three bears, with a bonus for all three.
LEMMA BearMixes ==
  ASSUME NEW n, NEW w, NEW a, NEW b, NEW c, NEW d, Bears(n, w, a, b, c, d)
  PROVE  BearsBounded(n, w, 2 * a + 5 * b + 8 * c + (IF a > 0 /\ b > 0 /\ c > 0 THEN 3 ELSE 0), "C")
<1> DEFINE x == <<a, b, c>>
           v == 2 * a + 5 * b + 8 * c + (IF a > 0 /\ b > 0 /\ c > 0 THEN 3 ELSE 0)
           S == BearSets(n)
           D == UNION {{2 * y[1] + 5 * y[2] + 8 * y[3], BearSetScore(y)} : y \in S}
           Q == {<<BearSetScore(y), y[2] + 2 * y[3], 0>> : y \in S}
           t == <<0, 2, 5, 8, 10, 13, 18>>
<1>1. n \in 0..6 /\ a \in Nat /\ b \in Nat /\ c \in Nat /\ a + 2 * b + 3 * c <= n /\ b + 2 * c <= w /\ w \in Nat
  BY DEF Bears
<1>2. x \in S
  <2>1. a \in 0..n /\ b \in 0..(n \div 2) /\ c \in 0..(n \div 3)
    BY <1>1
  <2> QED BY <1>1, <2>1 DEF BearSets
<1>3. BearSetScore(x) = v
  <2>1. (\A i \in 1..3 : x[i] > 0) <=> a > 0 /\ b > 0 /\ c > 0
    <3>1. 1..3 = {1, 2, 3}
      OBVIOUS
    <3> QED BY <3>1
  <2> QED BY <2>1 DEF BearSetScore
<1>4. v \in D
  <2> HIDE DEF v
  <2> QED BY <1>2, <1>3
<1>5. v \in Nat
  BY <1>1
<1>6. t[n + 1] \in Nat /\ v <= t[n + 1]
  <2>1. n = 0 \/ n = 1 \/ n = 2 \/ n = 3 \/ n = 4 \/ n = 5 \/ n = 6
    BY <1>1
  <2>2. c = 0 \/ c = 1 \/ c = 2
    BY <1>1
  <2>3. CASE c = 0
    BY <1>1, <2>1, <2>3
  <2>4. CASE c = 1
    BY <1>1, <2>1, <2>4
  <2>5. CASE c = 2
    BY <1>1, <2>1, <2>5
  <2> QED BY <2>2, <2>3, <2>4, <2>5
<1>7. \A y \in S : BearSetScore(y) \in Nat /\ y[2] + 2 * y[3] \in Nat
  <2> SUFFICES ASSUME NEW y \in S PROVE BearSetScore(y) \in Nat /\ y[2] + 2 * y[3] \in Nat
    OBVIOUS
  <2>1. y[1] \in Nat /\ y[2] \in Nat /\ y[3] \in Nat
    BY <1>1 DEF BearSets
  <2>2. (IF \A i \in 1..3 : y[i] > 0 THEN 3 ELSE 0) \in Nat
    OBVIOUS
  <2> QED BY <2>1, <2>2 DEF BearSetScore
<1>8. IsProfiles(Q)
  <2> DEFINE f == [y \in S |-> <<BearSetScore(y), y[2] + 2 * y[3], 0>>]
  <2>1. IsFiniteSet(S)
    <3> DEFINE X == 0..n Y == 0..(n \div 2) Z == 0..(n \div 3)
    <3>1. IsFiniteSet(X) /\ IsFiniteSet(Y) /\ IsFiniteSet(Z)
      <4>1. 0 \in Int /\ n \in Int /\ n \div 2 \in Int /\ n \div 3 \in Int
        BY <1>1
      <4> QED BY <4>1, FS_Interval
    <3>2. S \subseteq X \X Y \X Z
      BY DEF BearSets
    <3> DEFINE g == [p \in (X \X Y) \X Z |-> <<p[1][1], p[1][2], p[2]>>]
    <3> HIDE DEF X, Y, Z
    <3>3. IsFiniteSet((X \X Y) \X Z)
      BY <3>1, FS_Product
    <3>4. IsFiniteSet({g[p] : p \in (X \X Y) \X Z})
      <4> HIDE DEF g
      <4> QED BY <3>3, FiniteImage
    <3>5. S \subseteq {g[p] : p \in (X \X Y) \X Z}
      <4> SUFFICES ASSUME NEW y \in S PROVE y \in {g[p] : p \in (X \X Y) \X Z}
        OBVIOUS
      <4>1. y[1] \in X /\ y[2] \in Y /\ y[3] \in Z /\ y = <<y[1], y[2], y[3]>>
        BY <3>2
      <4>2. <<<<y[1], y[2]>>, y[3]>> \in (X \X Y) \X Z /\ g[<<<<y[1], y[2]>>, y[3]>>] = y
        BY <4>1
      <4> HIDE DEF g
      <4> QED BY <4>2
    <3> QED BY <3>4, <3>5, FS_Subset
  <2>2. IsFiniteSet({f[y] : y \in S})
    <3> HIDE DEF f
    <3> QED BY <2>1, FiniteImage
  <2>3. Q = {f[y] : y \in S}
    OBVIOUS
  <2>4. Q \subseteq Triples
    BY <1>7 DEF Triples
  <2> QED BY <2>2, <2>3, <2>4 DEF IsProfiles
<1>9. ASSUME NEW cross \in Nat PROVE ProfilesOffer(Q, v, w, cross)
  <2> DEFINE p == <<BearSetScore(x), x[2] + 2 * x[3], 0>>
  <2>1. p \in Q
    BY <1>2
  <2>2. p[1] >= v /\ p[2] <= w /\ p[3] <= cross
    BY <1>1, <1>3, <1>5
  <2> HIDE DEF p, Q, v
  <2> QED BY <2>1, <2>2 DEF ProfilesOffer
<1>10. /\ BearScoreDomain(n, "C") = D /\ BearProfiles(n, "C") = Efficient(Q)
       /\ StandaloneBear(n, "C") = t[n + 1]
  BY DEF BearScoreDomain, BearProfiles, StandaloneBear
<1> HIDE DEF D, Q, v, t
<1>11. \A cross \in Nat : Bounded(v, D, t[n + 1], Efficient(Q), w, cross)
  <2>1. IsProfiles(Efficient(Q)) /\ \A cross \in Nat : ProfilesOffer(Efficient(Q), v, w, cross)
    BY <1>1, <1>5, <1>8, <1>9, EfficientOffers
  <2> QED BY <1>4, <1>5, <1>6, <2>1 DEF Bounded
<1> QED BY <1>10, <1>11 DEF BearsBounded, v

\* Card D: components of two, three and four bears.
LEMMA BearFamilies ==
  ASSUME NEW n, NEW w, NEW a, NEW b, NEW c, NEW d, Bears(n, w, a, b, c, d)
  PROVE  BearsBounded(n, w, 5 * b + 8 * c + 13 * d, "D")
<1> DEFINE t == BearTable("D") G == Groups(t, Chain) v == 5 * b + 8 * c + 13 * d
<1>1. /\ n \in Nat /\ b \in 0..3 /\ c \in 0..3 /\ d \in 0..3 /\ 2 * b + 3 * c + 4 * d <= n
      /\ b + 2 * c + 3 * d <= w /\ w \in Nat
  BY DEF Bears
<1>2. t = <<0, 0, 5, 8, 13>>
  BY DEF BearTable
<1>3. t \in Seq(Nat) /\ Len(t) = 5 /\ t[3] = 5 /\ t[4] = 8 /\ t[5] = 13 /\ t # <<>>
  <2>1. <<0, 0, 5, 8, 13>> \in Seq(Nat) /\ Len(<<0, 0, 5, 8, 13>>) = 5 /\ <<0, 0, 5, 8, 13>> # <<>>
    OBVIOUS
  <2>2. <<0, 0, 5, 8, 13>>[3] = 5 /\ <<0, 0, 5, 8, 13>>[4] = 8 /\ <<0, 0, 5, 8, 13>>[5] = 13
    OBVIOUS
  <2> HIDE DEF t
  <2> QED BY <1>2, <2>1, <2>2
<1>4. (\A k \in 1..6 : Chain[k] \in Nat) /\ Chain[2] = 1 /\ Chain[3] = 2 /\ Chain[4] = 3
  BY DEF Chain
<1> HIDE DEF t
<1>5. /\ IsTriples(G) /\ <<2, 5, 1>> \in G /\ <<3, 8, 2>> \in G /\ <<4, 13, 3>> \in G
      /\ \A g \in G : g[1] \in 1..4 /\ g[2] = t[g[1] + 1]
  <2>1. \A k \in 1..(Len(t) - 1) : Chain[k] \in Nat
    BY <1>3, <1>4
  <2>2. /\ IsTriples(G)
        /\ \A k \in 1..(Len(t) - 1) : t[k + 1] > 0 => <<k, t[k + 1], Chain[k]>> \in G
        /\ \A g \in G : g[1] \in 1..(Len(t) - 1) /\ g[2] = t[g[1] + 1]
    BY <1>3, <2>1, GroupsAre
  <2> HIDE DEF G
  <2>3. <<2, t[2 + 1], Chain[2]>> \in G /\ <<3, t[3 + 1], Chain[3]>> \in G /\ <<4, t[4 + 1], Chain[4]>> \in G
    BY <1>3, <2>2
  <2>4. <<2, 5, 1>> \in G /\ <<3, 8, 2>> \in G /\ <<4, 13, 3>> \in G
    <3>1. 2 + 1 = 3 /\ 3 + 1 = 4 /\ 4 + 1 = 5
      OBVIOUS
    <3> QED BY ONLY <1>3, <1>4, <2>3, <3>1
  <2>5. Len(t) - 1 = 4
    BY <1>3
  <2> QED BY <2>2, <2>4, <2>5
<1>6. <<2 * b + 3 * c + 4 * d, v, b + 2 * c + 3 * d>> \in GroupSums(n, G)
  <2> HIDE DEF G, v
  <2> DEFINE o == <<0, 0, 0>> g == <<2, 5, 1>> h == <<3, 8, 2>> i == <<4, 13, 3>>
             y == <<2 * b, 5 * b, b>> z == <<2 * b + 3 * c, 5 * b + 8 * c, b + 2 * c>>
             x == <<2 * b + 3 * c + 4 * d, v, b + 2 * c + 3 * d>>
  <2>1. o \in GroupSums(n, G) /\ g \in G /\ h \in G /\ i \in G
    BY <1>1, <1>5, SumsGrow
  <2>2. o[1] + b * g[1] <= n /\ y[1] + c * h[1] <= n /\ z[1] + d * i[1] <= n
    BY <1>1
  <2>3. Repeated(o, g, b) = y /\ Repeated(y, h, c) = z /\ Repeated(z, i, d) = x
    BY <1>1 DEF Repeated, v
  <2> HIDE DEF o, g, h, i, y, z, x
  <2>4. y \in GroupSums(n, G)
    <3>1. Repeated(o, g, b) \in GroupSums(n, G)
      BY <1>1, <1>5, <2>1, <2>2, SumsRepeat
    <3> QED BY <2>3, <3>1
  <2>5. z \in GroupSums(n, G)
    <3>1. Repeated(y, h, c) \in GroupSums(n, G)
      BY <1>1, <1>5, <2>1, <2>2, <2>4, SumsRepeat
    <3> QED BY <2>3, <3>1
  <2>6. x \in GroupSums(n, G)
    <3>1. Repeated(z, i, d) \in GroupSums(n, G)
      BY <1>1, <1>5, <2>1, <2>2, <2>5, SumsRepeat
    <3> QED BY <2>3, <3>1
  <2> QED BY <2>6 DEF x
<1>7. ASSUME NEW cross \in Nat
      PROVE  /\ v \in Nat /\ v \in Sums(n, G)
             /\ IsProfiles(Profiles(n, G)) /\ ProfilesOffer(Profiles(n, G), v, w, cross)
  <2> DEFINE x == <<2 * b + 3 * c + 4 * d, v, b + 2 * c + 3 * d>>
  <2>1. x \in GroupSums(n, G) /\ x[3] <= w /\ x[2] = v
    BY <1>1, <1>6
  <2> HIDE DEF x, G, v
  <2> QED BY <1>1, <1>5, <2>1, SumProfiles
<1>8. PartitionUpper(n, t) \in Nat /\ v <= PartitionUpper(n, t)
  <2> DEFINE x == <<2 * b + 3 * c + 4 * d, v, b + 2 * c + 3 * d>>
  <2>1. x \in GroupSums(n, G) /\ x[2] = v
    BY <1>6
  <2>2. \A g \in G : g[1] <= n => g[1] < Len(t) /\ g[2] <= t[g[1] + 1]
    <3> SUFFICES ASSUME NEW g \in G PROVE g[1] < Len(t) /\ g[2] <= t[g[1] + 1]
      OBVIOUS
    <3>1. g[1] \in 1..4 /\ g[2] = t[g[1] + 1] /\ t[g[1] + 1] \in Nat
      BY <1>3, <1>5
    <3> QED BY <1>3, <3>1
  <2> HIDE DEF x, G, v
  <2> QED BY <1>1, <1>3, <1>5, <2>1, <2>2, PartitionBounds
<1>9. /\ BearScoreDomain(n, "D") = Sums(n, G) /\ BearProfiles(n, "D") = Profiles(n, G)
      /\ StandaloneBear(n, "D") = PartitionUpper(n, t)
  BY <1>2 DEF BearScoreDomain, BearProfiles, StandaloneBear, t
<1> HIDE DEF G, v
<1>10. BearsBounded(n, w, v, "D")
  BY <1>7, <1>8, <1>9 DEF BearsBounded, Bounded
<1> QED BY <1>10 DEF v

\* The bears.
LEMMA BearsAre ==
  ASSUME NEW A \in SUBSET (Int \X Int), IsFiniteSet(A), Cardinality(A) <= 6, NEW card \in Cards
  PROVE  BearsBounded(Cardinality(A), Cardinality(Within(A)), ScoreBears(A, card), card)
<1> DEFINE n == Cardinality(A) w == Cardinality(Within(A))
           c(k) == Cardinality(OfSize(A, k))
<1>1. Bears(n, w, c(1), c(2), c(3), c(4))
  <2>1. n \in Nat /\ w \in Nat
    BY FS_CardinalityType, EdgeCounts
  <2> DEFINE g == [k \in 1..4 |-> c(k)]
  <2>2. g \in [1..4 -> Nat] /\ g[1] + 2 * g[2] + 3 * g[3] + 4 * g[4] <= n /\ g[2] + 2 * g[3] + 3 * g[4] <= w
    BY GroupCounts
  <2>3. g[1] = c(1) /\ g[2] = c(2) /\ g[3] = c(3) /\ g[4] = c(4)
    OBVIOUS
  <2>4. n \in 0..6
    BY <2>1
  <2> HIDE DEF g, c, n, w
  <2> QED BY <2>1, <2>2, <2>3, <2>4 DEF Bears
<1>2. /\ ScoreBears(A, "A") = Entry(<<0, 4, 11, 19, 27>>, c(2)) /\ ScoreBears(A, "B") = 10 * c(3)
      /\ ScoreBears(A, "C") = 2 * c(1) + 5 * c(2) + 8 * c(3) + (IF c(1) > 0 /\ c(2) > 0 /\ c(3) > 0 THEN 3 ELSE 0)
      /\ ScoreBears(A, "D") = 5 * c(2) + 8 * c(3) + 13 * c(4)
  <2>1. (\A k \in 1..3 : c(k) > 0) <=> c(1) > 0 /\ c(2) > 0 /\ c(3) > 0
    <3>1. 1..3 = {1, 2, 3}
      OBVIOUS
    <3> HIDE DEF c
    <3> QED BY <3>1
  <2> QED BY <2>1 DEF ScoreBears, OfSize
<1> HIDE DEF n, w, c
<1>3. CASE card = "A"
  <2>1. BearsBounded(n, w, Entry(<<0, 4, 11, 19, 27>>, c(2)), "A")
    BY <1>1, BearPairs
  <2> QED BY <1>2, <1>3, <2>1 DEF n, w
<1>4. CASE card = "B"
  <2>1. BearsBounded(n, w, 10 * c(3), "B")
    BY <1>1, BearTriples
  <2> QED BY <1>2, <1>4, <2>1 DEF n, w
<1>5. CASE card = "C"
  <2>1. BearsBounded(n, w, 2 * c(1) + 5 * c(2) + 8 * c(3) + (IF c(1) > 0 /\ c(2) > 0 /\ c(3) > 0 THEN 3 ELSE 0), "C")
    BY <1>1, BearMixes
  <2> QED BY <1>2, <1>5, <2>1 DEF n, w
<1>6. CASE card = "D"
  <2>1. BearsBounded(n, w, 5 * c(2) + 8 * c(3) + 13 * c(4), "D")
    BY <1>1, BearFamilies
  <2> QED BY <1>2, <1>6, <2>1 DEF n, w
<1> QED BY <1>3, <1>4, <1>5, <1>6 DEF Cards

-----------------------------------------------------------------------------
(* Elk.                                                                     *)

\* n cells in a line have n - 1 edges.
LEMMA LineEdges ==
  ASSUME NEW c \in Int \X Int, NEW d \in Directions, NEW n \in Nat, n > 0
  PROVE  LET T == Line(c, d, n)
         IN  IsFiniteSet(T) /\ Cardinality(T) \in Nat /\ Cardinality(T) <= n /\ n - 1 <= Cardinality(Within(T))
<1> DEFINE T == Line(c, d, n) I == 0..(n - 1) J == 1..(n - 1)
           s == [i \in I |-> Step(c, d, i)]
           f == [i \in J |-> IF d \in Forward THEN <<Step(c, d, i - 1), Step(c, d, i)>>
                                              ELSE <<Step(c, d, i), Step(c, d, i - 1)>>]
<1>1. IsFiniteSet(I) /\ Cardinality(I) = n /\ IsFiniteSet(J) /\ Cardinality(J) = n - 1
  <2>1. n - 1 \in Int /\ 0 \in Int /\ 1 \in Int
    OBVIOUS
  <2>2. IsFiniteSet(I) /\ Cardinality(I) = (IF 0 > n - 1 THEN 0 ELSE (n - 1) - 0 + 1)
    BY <2>1, FS_Interval
  <2>3. IsFiniteSet(J) /\ Cardinality(J) = (IF 1 > n - 1 THEN 0 ELSE (n - 1) - 1 + 1)
    BY <2>1, FS_Interval
  <2> HIDE DEF I, J
  <2> QED BY <2>2, <2>3
<1>2. IsFiniteSet(T) /\ Cardinality(T) \in Nat /\ Cardinality(T) <= n
  <2>1. s = [i \in I |-> s[i]] /\ (\A i \in I : s[i] \in T) /\ \A y \in T : \E i \in I : s[i] = y
    BY DEF Line
  <2> HIDE DEF s, T, I
  <2>2. IsFiniteSet(T) /\ Cardinality(T) \in Nat /\ Cardinality(T) <= Cardinality(I)
    BY <1>1, <2>1, SurjectionSize
  <2> QED BY <1>1, <2>2
<1>3. d[1] \in Int /\ d[2] \in Int /\ (d[1] # 0 \/ d[2] # 0) /\ c[1] \in Int /\ c[2] \in Int
      /\ (d \notin Forward => <<-d[1], -d[2]>> \in Forward)
  BY DEF Directions, Forward
<1>4. ASSUME NEW i \in Int, NEW j \in Int, Step(c, d, i) = Step(c, d, j) PROVE i = j
  <2>1. c[1] + i * d[1] = c[1] + j * d[1] /\ c[2] + i * d[2] = c[2] + j * d[2]
    BY <1>4 DEF Step
  <2> QED BY <2>1 DEF Directions
<1>5. \A i, j \in J : f[i] = f[j] => i = j
  <2> SUFFICES ASSUME NEW i \in J, NEW j \in J, f[i] = f[j] PROVE i = j
    OBVIOUS
  <2>1. Step(c, d, i) = Step(c, d, j)
    OBVIOUS
  <2> QED BY <1>4, <2>1
<1>6. \A i \in J : f[i] \in Within(T)
  <2> SUFFICES ASSUME NEW i \in J PROVE f[i] \in Within(T)
    OBVIOUS
  <2> DEFINE x == Step(c, d, i - 1) y == Step(c, d, i)
  <2>1. x \in T /\ y \in T
    BY DEF Line
  <2>2. CASE d \in Forward
    <3>1. y = Step(x, d, 1)
      BY <1>3, <2>2 DEF Step, Forward
    <3>2. f[i] = <<x, y>>
      BY <2>2
    <3> HIDE DEF x, y, f, T
    <3> QED BY <2>1, <2>2, <3>1, <3>2 DEF Within
  <2>3. CASE d \notin Forward
    <3> DEFINE e == <<-d[1], -d[2]>>
    <3>1. x = Step(y, e, 1)
      <4>1. d = <<0, -1>> \/ d = <<-1, 0>> \/ d = <<-1, 1>>
        BY <2>3 DEF Forward, Directions
      <4> QED BY <1>3, <4>1 DEF Step
    <3>2. f[i] = <<y, x>> /\ e \in Forward
      BY <1>3, <2>3
    <3> HIDE DEF x, y, f, T, e
    <3> QED BY <2>1, <3>1, <3>2 DEF Within
  <2> QED BY <2>2, <2>3
<1>7. n - 1 <= Cardinality(Within(T))
  <2>1. f = [i \in J |-> f[i]]
    OBVIOUS
  <2>2. IsFiniteSet(Within(T))
    BY <1>2, EdgeCounts
  <2> HIDE DEF f, J, T
  <2>3. Cardinality(J) <= Cardinality(Within(T))
    BY <1>5, <1>6, <2>1, <2>2, InjectionSize
  <2> QED BY <1>1, <2>3
<1> QED BY <1>2, <1>7

\* A clique has an edge for every two of it.
LEMMA CliqueEdges ==
  ASSUME NEW T \in SUBSET (Int \X Int), IsFiniteSet(T), Clique(T)
  PROVE  Cardinality(T) * Cardinality(T) - Cardinality(T) <= 2 * Cardinality(Within(T))
<1> DEFINE n == Cardinality(T) D == {<<c, c>> : c \in T} f == [c \in T |-> <<c, c>>]
<1>1. IsFiniteSet(T \X T) /\ Cardinality(T \X T) = n * n /\ n \in Nat
  BY FS_Product, FS_CardinalityType
<1>2. IsFiniteSet(D) /\ Cardinality(D) <= n /\ Cardinality(D) \in Nat
  <2>1. f = [c \in T |-> f[c]] /\ (\A c \in T : f[c] \in D) /\ \A y \in D : \E c \in T : f[c] = y
    OBVIOUS
  <2> HIDE DEF f, D
  <2> QED BY <2>1, SurjectionSize
<1>3. T \X T \subseteq D \cup Touching(T, T)
  BY DEF Clique, Touching
<1>4. Cardinality(Touching(T, T)) = 2 * Cardinality(Within(T)) /\ Cardinality(Within(T)) \in Nat
      /\ IsFiniteSet(Touching(T, T)) /\ Cardinality(Touching(T, T)) \in Nat
  BY EdgesTwice, EdgeCounts
<1> DEFINE E == Touching(T, T)
<1>5. Cardinality(T \X T) <= Cardinality(D) + Cardinality(E)
  <2>1. IsFiniteSet(D \cup E) /\ Cardinality(D \cup E) <= Cardinality(D) + Cardinality(E)
    BY <1>2, <1>4, TwoPartsSize
  <2>2. Cardinality(T \X T) <= Cardinality(D \cup E) /\ Cardinality(D \cup E) \in Nat
    BY <1>3, <2>1, PartSize
  <2>3. Cardinality(T \X T) \in Nat
    BY <1>1, FS_CardinalityType
  <2> DEFINE i == Cardinality(T \X T) j == Cardinality(D \cup E) k == Cardinality(D) l == Cardinality(E)
  <2>4. i \in Nat /\ j \in Nat /\ k \in Nat /\ l \in Nat /\ i <= j /\ j <= k + l
    BY <1>2, <1>4, <2>1, <2>2, <2>3
  <2> HIDE DEF i, j, k, l
  <2>5. i <= k + l
    BY <2>4
  <2> QED BY <2>5 DEF i, k, l
<1> DEFINE m == n * n
<1>6. m \in Nat
  BY <1>1
<1> HIDE DEF D, E, n, m
<1>7. m <= n + Cardinality(E)
  BY <1>1, <1>2, <1>4, <1>5, <1>6 DEF m, E
<1>8. m - n <= 2 * Cardinality(Within(T))
  BY <1>1, <1>4, <1>6, <1>7 DEF E
<1> QED BY <1>8 DEF n, m

\* Edges of a part, and those from the rest to it.
LEMMA EdgesBeyond ==
  ASSUME NEW T \in SUBSET (Int \X Int), IsFiniteSet(T), NEW c \in T
  PROVE  LET K == T \ {c}
         IN  /\ Cardinality(Within(K)) \in Nat /\ Cardinality(T \cap Neighbors(c)) \in Nat
             /\ Cardinality(Within(K)) + Cardinality(T \cap Neighbors(c)) <= Cardinality(Within(T))
<1> DEFINE K == T \ {c} B == T \cap Neighbors(c)
           f == [e \in B |-> IF \E d \in Forward : e = Step(c, d, 1) THEN <<c, e>> ELSE <<e, c>>]
           R == {f[e] : e \in B}
<1>1. IsFiniteSet(K) /\ IsFiniteSet(B) /\ Cardinality(B) \in Nat
  BY FS_Subset, FS_CardinalityType
<1>2. IsFiniteSet(Within(K)) /\ IsFiniteSet(Within(T)) /\ Cardinality(Within(K)) \in Nat /\ Cardinality(Within(T)) \in Nat
  BY <1>1, EdgeCounts
<1>3. ASSUME NEW e \in B PROVE f[e] \in Within(T) \ Within(K)
  <2>1. (\E d \in Forward : e = Step(c, d, 1)) \/ (\E d \in Forward : c = Step(e, d, 1))
    <3>1. e \in Int \X Int /\ c \in Int \X Int
      OBVIOUS
    <3> QED BY <3>1, EdgeEither
  <2>2. e \in T /\ c \in T
    OBVIOUS
  <2>3. CASE \E d \in Forward : e = Step(c, d, 1)
    <3>1. <<c, e>> \in Within(T) /\ <<c, e>> \notin Within(K)
      BY <2>2, <2>3 DEF Within
    <3> QED BY <2>3, <3>1
  <2>4. CASE ~ \E d \in Forward : e = Step(c, d, 1)
    <3>1. <<e, c>> \in Within(T) /\ <<e, c>> \notin Within(K)
      BY <2>1, <2>2, <2>4 DEF Within
    <3> QED BY <2>4, <3>1
  <2> QED BY <2>3, <2>4
<1>4. IsFiniteSet(R) /\ Cardinality(R) = Cardinality(B)
  <2>1. f = [e \in B |-> f[e]] /\ (\A e \in B : f[e] \in R) /\ \A y \in R : \E e \in B : f[e] = y
    OBVIOUS
  <2>2. \A x, y \in B : f[x] = f[y] => x = y
    <3>1. c \notin B
      BY NeighborsAre
    <3> QED BY <3>1
  <2> HIDE DEF f, R, B
  <2> QED BY <1>1, <2>1, <2>2, ImageSize
<1>5. Within(K) \cap R = {} /\ Within(K) \cup R \subseteq Within(T)
  <2>1. Within(K) \subseteq Within(T)
    BY DEF Within
  <2>2. \A y \in R : y \in Within(T) \ Within(K)
    BY <1>3
  <2> HIDE DEF R
  <2> QED BY <2>1, <2>2
<1> HIDE DEF R, B, K, f
<1>6. Cardinality(Within(K) \cup R) = Cardinality(Within(K)) + Cardinality(R) /\ Cardinality(Within(K) \cup R) <= Cardinality(Within(T))
  <2>1. Cardinality(Within(K) \cup R) = Cardinality(Within(K)) + Cardinality(R)
    BY <1>2, <1>4, <1>5, TwoPartsSize
  <2>2. Cardinality(Within(K) \cup R) <= Cardinality(Within(T))
    BY <1>2, <1>5, PartSize
  <2> QED BY <2>1, <2>2
<1> QED BY <1>1, <1>2, <1>4, <1>6 DEF K, B

\* The two cells next to c around z.
OnRing(z, c, i) ==
  IF i = 0 THEN <<c[1] + c[2] - z[2], z[2] + z[1] - c[1]>> ELSE <<z[1] + z[2] - c[2], c[1] - z[1] + c[2]>>

\* There are exactly two of these.
LEMMA RingIs ==
  ASSUME NEW z \in Int \X Int, NEW c \in Neighbors(z)
  PROVE  /\ \A i \in {0, 1} : OnRing(z, c, i) \in Neighbors(z) \cap Neighbors(c)
         /\ OnRing(z, c, 0) # OnRing(z, c, 1)
         /\ \A e \in Neighbors(z) \cap Neighbors(c) : e = OnRing(z, c, 0) \/ e = OnRing(z, c, 1)
<1>1. PICK x \in Int, y \in Int : z = <<x, y>>
  OBVIOUS
<1> DEFINE N(u, v) == {<<u + 1, v>>, <<u + 1, v - 1>>, <<u, v - 1>>, <<u - 1, v>>, <<u - 1, v + 1>>, <<u, v + 1>>}
<1>2. Neighbors(z) = N(x, y)
  BY <1>1, NeighborsAre
<1>3. PICK u \in Int, v \in Int : c = <<u, v>>
  BY <1>2
<1>4. Neighbors(c) = N(u, v)
  BY <1>3, NeighborsAre
<1>5. OnRing(z, c, 0) = <<u + v - y, y + x - u>> /\ OnRing(z, c, 1) = <<x + y - v, u - x + v>>
  BY <1>1, <1>3 DEF OnRing
<1> DEFINE o == <<u + v - y, y + x - u>> r == <<x + y - v, u - x + v>>
<1>6. o \in N(x, y) /\ o \in N(u, v) /\ r \in N(x, y) /\ r \in N(u, v) /\ o # r
  <2>1. CASE u = x + 1 /\ v = y
    <3>1. o = <<x + 1, y - 1>> /\ r = <<x, y + 1>> /\ o = <<u, v - 1>> /\ r = <<u - 1, v + 1>>
      BY <2>1
    <3> QED BY <3>1
  <2>2. CASE u = x + 1 /\ v = y - 1
    <3>1. o = <<x, y - 1>> /\ r = <<x + 1, y>> /\ o = <<u - 1, v>> /\ r = <<u, v + 1>>
      BY <2>2
    <3> QED BY <3>1
  <2>3. CASE u = x /\ v = y - 1
    <3>1. o = <<x - 1, y>> /\ r = <<x + 1, y - 1>> /\ o = <<u - 1, v + 1>> /\ r = <<u + 1, v>>
      BY <2>3
    <3> QED BY <3>1
  <2>4. CASE u = x - 1 /\ v = y
    <3>1. o = <<x - 1, y + 1>> /\ r = <<x, y - 1>> /\ o = <<u, v + 1>> /\ r = <<u + 1, v - 1>>
      BY <2>4
    <3> QED BY <3>1
  <2>5. CASE u = x - 1 /\ v = y + 1
    <3>1. o = <<x, y + 1>> /\ r = <<x - 1, y>> /\ o = <<u + 1, v>> /\ r = <<u, v - 1>>
      BY <2>5
    <3> QED BY <3>1
  <2>6. CASE u = x /\ v = y + 1
    <3>1. o = <<x + 1, y>> /\ r = <<x - 1, y + 1>> /\ o = <<u + 1, v - 1>> /\ r = <<u - 1, v>>
      BY <2>6
    <3> QED BY <3>1
  <2>7. <<u, v>> \in N(x, y)
    BY <1>2, <1>3
  <2> HIDE DEF o, r
  <2> QED BY <2>1, <2>2, <2>3, <2>4, <2>5, <2>6, <2>7
<1> HIDE DEF N, o, r
<1>8. o \in Neighbors(z) \cap Neighbors(c) /\ r \in Neighbors(z) \cap Neighbors(c)
      /\ OnRing(z, c, 0) = o /\ OnRing(z, c, 1) = r
  BY <1>2, <1>4, <1>5, <1>6 DEF o, r
<1>9. z # c /\ c \in Int \X Int
  BY NeighborsAre
<1>10. \A e \in Neighbors(z) \cap Neighbors(c) : e = o \/ e = r
  BY <1>6, <1>8, <1>9, CommonNeighbors
<1> QED BY <1>6, <1>8, <1>10

\* Edges within a part of a ring of six.
LEMMA RingEdges ==
  ASSUME NEW z \in Int \X Int, NEW T, T \subseteq Neighbors(z)
  PROVE  /\ IsFiniteSet(T) /\ Cardinality(T) \in 0..6 /\ Cardinality(Within(T)) \in Nat
         /\ 2 * Cardinality(T) - 6 <= Cardinality(Within(T))
<1> DEFINE R == Neighbors(z) L == R \ T I == {0, 1}
           g == [p \in T \X I |-> <<p[1], OnRing(z, p[1], p[2])>>]
           h == [p \in Touching(L, T) |-> <<p[1], IF p[2] = OnRing(z, p[1], 0) THEN 0 ELSE 1>>]
<1>1. /\ IsFiniteSet(R) /\ Cardinality(R) <= 6 /\ Cardinality(R) \in Nat /\ R \subseteq Int \X Int
      /\ IsFiniteSet(T) /\ Cardinality(T) \in Nat /\ IsFiniteSet(L) /\ Cardinality(L) \in Nat
      /\ Cardinality(T) + Cardinality(L) = Cardinality(R)
  <2>1. IsFiniteSet(R) /\ Cardinality(R) <= 6 /\ R \subseteq Int \X Int
    BY NeighborsAre
  <2>2. IsFiniteSet(T) /\ IsFiniteSet(L) /\ T \cap L = {} /\ T \cup L = R
    BY <2>1, FS_Subset
  <2> HIDE DEF R, L
  <2> QED BY <2>1, <2>2, TwoPartsSize
<1>2. IsFiniteSet(I) /\ Cardinality(I) = 2
  <2>1. IsFiniteSet({0}) /\ Cardinality({0}) = 1 /\ IsFiniteSet({1}) /\ Cardinality({1}) = 1
    BY FS_Singleton
  <2>2. {0} \cap {1} = {} /\ {0} \cup {1} = I
    OBVIOUS
  <2> HIDE DEF I
  <2>3. IsFiniteSet({0} \cup {1}) /\ Cardinality({0} \cup {1}) = Cardinality({0}) + Cardinality({1})
    BY <2>1, <2>2, TwoPartsSize
  <2> QED BY <2>1, <2>2, <2>3
<1>3. 2 * Cardinality(T) <= Cardinality(Touching(T, R))
  <2>1. g = [p \in T \X I |-> g[p]]
    OBVIOUS
  <2>2. \A p \in T \X I : g[p] \in Touching(T, R)
    BY RingIs DEF Touching
  <2>3. \A p, q \in T \X I : g[p] = g[q] => p = q
    <3> SUFFICES ASSUME NEW p \in T \X I, NEW q \in T \X I, g[p] = g[q] PROVE p = q
      OBVIOUS
    <3>1. p[1] = q[1] /\ OnRing(z, p[1], p[2]) = OnRing(z, q[1], q[2])
      OBVIOUS
    <3>2. p[2] \in {0, 1} /\ q[2] \in {0, 1} /\ p[1] \in R
      OBVIOUS
    <3>3. p[2] = q[2]
      BY <3>1, <3>2, RingIs
    <3> QED BY <3>1, <3>3
  <2>4. IsFiniteSet(Touching(T, R)) /\ Cardinality(T \X I) = Cardinality(T) * 2
    <3> HIDE DEF g, R, I
    <3>1. IsFiniteSet(Touching(T, R))
      BY <1>1, EdgeCounts
    <3>2. Cardinality(T \X I) = Cardinality(T) * Cardinality(I)
      BY <1>1, <1>2, FS_Product
    <3> QED BY <1>2, <3>1, <3>2
  <2> HIDE DEF g, R, I
  <2>5. Cardinality(T \X I) <= Cardinality(Touching(T, R))
    BY <2>1, <2>2, <2>3, <2>4, InjectionSize
  <2> QED BY <1>1, <2>4, <2>5
<1>4. Cardinality(Touching(L, T)) <= 2 * Cardinality(L)
  <2>1. h = [p \in Touching(L, T) |-> h[p]]
    OBVIOUS
  <2>2. \A p \in Touching(L, T) : h[p] \in L \X I
    BY DEF Touching
  <2>3. \A p, q \in Touching(L, T) : h[p] = h[q] => p = q
    <3> SUFFICES ASSUME NEW p \in Touching(L, T), NEW q \in Touching(L, T), h[p] = h[q] PROVE p = q
      OBVIOUS
    <3>1. p[1] = q[1] /\ (p[2] = OnRing(z, p[1], 0) <=> q[2] = OnRing(z, q[1], 0))
      OBVIOUS
    <3>2. /\ p[1] \in R /\ p[2] \in Neighbors(z) \cap Neighbors(p[1]) /\ p = <<p[1], p[2]>>
          /\ q[1] \in R /\ q[2] \in Neighbors(z) \cap Neighbors(q[1]) /\ q = <<q[1], q[2]>>
      BY DEF Touching
    <3>3. p[2] = OnRing(z, p[1], 0) \/ p[2] = OnRing(z, p[1], 1)
      BY <3>2, RingIs
    <3>4. q[2] = OnRing(z, q[1], 0) \/ q[2] = OnRing(z, q[1], 1)
      BY <3>2, RingIs
    <3> QED BY <3>1, <3>2, <3>3, <3>4
  <2>4. IsFiniteSet(L \X I) /\ Cardinality(L \X I) = Cardinality(L) * 2
    <3> HIDE DEF h, L, I
    <3>1. IsFiniteSet(L \X I) /\ Cardinality(L \X I) = Cardinality(L) * Cardinality(I)
      BY <1>1, <1>2, FS_Product
    <3> QED BY <1>2, <3>1
  <2> HIDE DEF h, L, I
  <2>5. Cardinality(Touching(L, T)) <= Cardinality(L \X I)
    BY <2>1, <2>2, <2>3, <2>4, InjectionSize
  <2> QED BY <1>1, <2>4, <2>5
<1>5. Cardinality(Touching(T, R)) = Cardinality(Touching(T, T)) + Cardinality(Touching(T, L))
  <2>1. T \cup L = R /\ T \cap L = {}
    OBVIOUS
  <2> HIDE DEF L, R
  <2>2. Cardinality(Touching(T, T \cup L)) = Cardinality(Touching(T, T)) + Cardinality(Touching(T, L))
    BY <1>1, <2>1, TouchingParts
  <2> QED BY <2>1, <2>2
<1>6. Cardinality(Touching(T, L)) = Cardinality(Touching(L, T)) /\ Cardinality(Touching(T, T)) = 2 * Cardinality(Within(T))
  <2>1. T \in SUBSET (Int \X Int) /\ L \in SUBSET (Int \X Int)
    BY <1>1
  <2> HIDE DEF L, R
  <2> QED BY <1>1, <2>1, TouchingBack, EdgesTwice
<1>7. Cardinality(Within(T)) \in Nat /\ Cardinality(Touching(L, T)) \in Nat
  BY <1>1, EdgeCounts
<1> DEFINE t == Cardinality(T) l == Cardinality(L) r == Cardinality(R) w == Cardinality(Within(T))
           a == Cardinality(Touching(T, R)) b == Cardinality(Touching(L, T))
<1>8. t \in Nat /\ l \in Nat /\ r \in Nat /\ r <= 6 /\ t + l = r /\ w \in Nat /\ b \in Nat
      /\ 2 * t <= a /\ b <= 2 * l /\ a = 2 * w + b
  BY <1>1, <1>3, <1>4, <1>5, <1>6, <1>7
<1> HIDE DEF t, l, r, w, a, b
<1>9. t \in 0..6 /\ 2 * t - 6 <= w
  BY <1>8
<1> QED BY <1>1, <1>7, <1>9 DEF t, w

\* A table cut to its first entries.
IsCut(t, s, l) ==
  /\ t \in Seq(Nat) /\ t # <<>> /\ Len(t) = l
  /\ \A k \in 1..(l - 1) : t[k + 1] = s[k + 1] /\ Entry(s, k) = s[k + 1] /\ s[k + 1] \in Nat

\* SubSeq cuts a table.
LEMMA TableCut ==
  ASSUME NEW s \in Seq(Nat), NEW l \in Nat, l > 0, Len(s) >= l
  PROVE  IsCut(SubSeq(s, 1, l), s, l)
<1>1. Len(SubSeq(s, 1, l)) = l /\ SubSeq(s, 1, l) \in Seq(Nat) /\ SubSeq(s, 1, l) # <<>>
  OBVIOUS
<1>2. ASSUME NEW k \in 1..(l - 1)
      PROVE  SubSeq(s, 1, l)[k + 1] = s[k + 1] /\ Entry(s, k) = s[k + 1] /\ s[k + 1] \in Nat
  <2>1. k + 1 \in 1..l /\ k < Len(s) /\ k + 1 \in 1..Len(s)
    OBVIOUS
  <2> QED BY <2>1 DEF Entry
<1> QED BY <1>1, <1>2 DEF IsCut

\* A table is a cut of itself.
LEMMA TableWhole ==
  ASSUME NEW s \in Seq(Nat), s # <<>>
  PROVE  IsCut(s, s, Len(s))
<1>1. ASSUME NEW k \in 1..(Len(s) - 1)
      PROVE  Entry(s, k) = s[k + 1] /\ s[k + 1] \in Nat
  <2>1. k + 1 \in 1..Len(s) /\ k < Len(s)
    OBVIOUS
  <2> QED BY <2>1 DEF Entry
<1> QED BY <1>1 DEF IsCut

\* The largest group an elk card scores, and one more.
ElkLength(card) == IF card \in {"A", "B"} THEN 5 ELSE 7

\* The elk tables of each card.
LEMMA ElkTablesAre ==
  ASSUME NEW card \in Cards
  PROVE  /\ IsCut(ElkSizes(card), ElkTable(card), ElkLength(card)) /\ ElkLength(card) \in Nat
         /\ \A k \in 1..(ElkLength(card) - 1) : ElkTable(card)[k + 1] > 0 /\ ElkEdges(card)[k] \in Nat
<1> DEFINE a == <<0, 2, 5, 9, 13>> c == <<0, 2, 4, 7, 10, 14, 18, 23, 28>> d == <<0, 2, 5, 8, 12, 16, 21>>
           b == <<0, 1, 3, 5>> e == <<0, 0, 0, 2, 4, 6>>
<1>1. /\ a \in Seq(Nat) /\ Len(a) = 5 /\ c \in Seq(Nat) /\ Len(c) = 9 /\ d \in Seq(Nat) /\ Len(d) = 7
      /\ a # <<>> /\ c # <<>> /\ d # <<>>
  OBVIOUS
<1>2. /\ \A k \in 1..4 : a[k + 1] > 0
      /\ \A k \in 1..6 : c[k + 1] > 0
      /\ \A k \in 1..6 : d[k + 1] > 0
  OBVIOUS
<1>3. /\ \A k \in 1..6 : Chain[k] \in Nat
      /\ \A k \in 1..4 : b[k] \in Nat
      /\ \A k \in 1..6 : e[k] \in Nat
  BY DEF Chain
<1>5. /\ ElkTable("A") = a /\ ElkTable("B") = a /\ ElkTable("C") = c /\ ElkTable("D") = d
      /\ ElkSizes("A") = a /\ ElkSizes("B") = a /\ ElkSizes("C") = SubSeq(c, 1, 7) /\ ElkSizes("D") = SubSeq(d, 1, 7)
      /\ ElkEdges("A") = Chain /\ ElkEdges("B") = b /\ ElkEdges("C") = Chain /\ ElkEdges("D") = e
  BY DEF ElkTable, ElkSizes, ElkEdges
<1> HIDE DEF a, b, c, d, e
<1>6. IsCut(a, a, 5) /\ IsCut(SubSeq(c, 1, 7), c, 7) /\ IsCut(SubSeq(d, 1, 7), d, 7)
  <2>1. IsCut(a, a, Len(a))
    BY <1>1, TableWhole
  <2>2. \A s \in Seq(Nat) : Len(s) >= 7 => IsCut(SubSeq(s, 1, 7), s, 7)
    BY TableCut
  <2>3. Len(c) >= 7 /\ Len(d) >= 7
    BY <1>1
  <2> QED BY <1>1, <2>1, <2>2, <2>3
<1>7. CASE card \in {"A", "B"}
  <2>1. ElkLength(card) = 5 /\ 5 - 1 = 4
    BY <1>7 DEF ElkLength
  <2>2. ElkTable(card) = a /\ ElkSizes(card) = a /\ (ElkEdges(card) = Chain \/ ElkEdges(card) = b)
    BY <1>5, <1>7
  <2>3. \A k \in 1..4 : k \in 1..6
    OBVIOUS
  <2>4. \A k \in 1..4 : a[k + 1] > 0 /\ ElkEdges(card)[k] \in Nat
    BY <1>2, <1>3, <2>2, <2>3
  <2> QED BY <1>6, <2>1, <2>2, <2>4
<1>8. CASE card \in {"C", "D"}
  <2>1. ElkLength(card) = 7 /\ 7 - 1 = 6
    BY <1>8 DEF ElkLength
  <2>2. CASE card = "C"
    <3>1. ElkTable(card) = c /\ ElkSizes(card) = SubSeq(c, 1, 7) /\ ElkEdges(card) = Chain
      BY <1>5, <2>2
    <3>2. \A k \in 1..6 : c[k + 1] > 0 /\ ElkEdges(card)[k] \in Nat
      BY <1>2, <1>3, <3>1
    <3> QED BY <1>6, <2>1, <3>1, <3>2
  <2>3. CASE card = "D"
    <3>1. ElkTable(card) = d /\ ElkSizes(card) = SubSeq(d, 1, 7) /\ ElkEdges(card) = e
      BY <1>5, <2>3
    <3>2. \A k \in 1..6 : d[k + 1] > 0 /\ ElkEdges(card)[k] \in Nat
      BY <1>2, <1>3, <3>1
    <3> QED BY <1>6, <2>1, <3>1, <3>2
  <2> QED BY <1>8, <2>2, <2>3
<1> QED BY <1>7, <1>8 DEF Cards

\* The edges a group of elk has.
LEMMA ElkShapes ==
  ASSUME NEW T \in SUBSET (Int \X Int), IsFiniteSet(T), T # {}, Cardinality(T) <= 6,
         NEW card \in Cards, ElkGroup(T, card)
  PROVE  /\ Cardinality(T) \in 1..(ElkLength(card) - 1)
         /\ Cardinality(Within(T)) \in Nat
         /\ ElkEdges(card)[Cardinality(T)] <= Cardinality(Within(T))
<1> DEFINE k == Cardinality(T) w == Cardinality(Within(T))
<1>1. k \in 1..6 /\ w \in Nat
  <2>1. k \in Nat /\ k # 0 /\ w \in Nat
    BY FS_CardinalityType, FS_EmptySet, EdgeCounts
  <2> QED BY <2>1
<1>2. \A i \in 1..6 : Chain[i] = i - 1
  BY DEF Chain
<1>3. CASE card = "A"
  <2>1. PICK c \in T, d \in Directions, n \in 1..4 : T = Line(c, d, n)
    BY <1>3 DEF ElkGroup
  <2>2. k <= n /\ n - 1 <= w
    <3>1. c \in Int \X Int /\ n \in Nat /\ n > 0
      OBVIOUS
    <3> HIDE DEF k, w, ElkLength
    <3>2. LET U == Line(c, d, n) IN Cardinality(U) <= n /\ n - 1 <= Cardinality(Within(U))
      BY <3>1, LineEdges
    <3> QED BY <2>1, <3>2 DEF k, w, ElkLength
  <2>3. ElkEdges(card) = Chain
    BY <1>3 DEF ElkEdges
  <2> HIDE DEF k, w, ElkLength
  <2> QED BY <1>1, <1>2, <1>3, <2>2, <2>3 DEF k, w, ElkLength
<1>4. CASE card = "B"
  <2>0. ElkEdges(card) = <<0, 1, 3, 5>>
    BY <1>4 DEF ElkEdges
  <2>1. CASE Clique(T) /\ k <= 3
    <3>1. k * k - k <= 2 * w
      BY <2>1, CliqueEdges
    <3> HIDE DEF k, w, ElkLength
    <3>2. k = 1 \/ k = 2 \/ k = 3
      BY <1>1, <2>1
    <3>3. k \in 1..4 /\ <<0, 1, 3, 5>>[k] <= w
      BY <1>1, <3>1, <3>2
    <3> QED BY <1>1, <1>4, <2>0, <3>3 DEF k, w, ElkLength
  <2>2. CASE Diamond(T)
    <3>1. k = 4
      BY <2>2 DEF Diamond
    <3>2. PICK c \in T : Clique(T \ {c}) /\ Cardinality(T \cap Neighbors(c)) >= 2
      BY <2>2 DEF Diamond
    <3> DEFINE K == T \ {c} j == Cardinality(K) v == Cardinality(Within(K)) e == Cardinality(T \cap Neighbors(c))
    <3>3. j = 3 /\ IsFiniteSet(K) /\ K \in SUBSET (Int \X Int)
      BY <3>1, FS_RemoveElement, Z3
    <3>4. v \in Nat /\ e \in Nat /\ v + e <= w
      BY EdgesBeyond
    <3>5. j * j - j <= 2 * v
      <4> HIDE DEF K
      <4>1. Clique(K)
        BY <3>2 DEF K
      <4> QED BY <3>3, <4>1, CliqueEdges
    <3> HIDE DEF k, w, K, j, v, e
    <3>6. 3 <= v
      BY <3>3, <3>4, <3>5
    <3>7. 2 <= e
      BY <3>2 DEF e
    <3>8. 5 <= w
      BY <1>1, <3>4, <3>6, <3>7
    <3>9. <<0, 1, 3, 5>>[4] = 5
      OBVIOUS
    <3> QED BY <1>1, <1>4, <2>0, <3>1, <3>8, <3>9 DEF k, w, ElkLength
  <2> QED BY <1>4, <2>1, <2>2 DEF ElkGroup
<1>5. CASE card = "C"
  <2>1. Cardinality(Components(T)) = 1
    BY <1>5 DEF ElkGroup
  <2>2. IsComponents(Components(T), T, Adjacency)
    BY ComponentsFound
  <2>3. IsFiniteSet(Components(T))
    <3>1. IsFiniteSet(SUBSET T) /\ Components(T) \subseteq SUBSET T
      BY <2>2, FS_SUBSET DEF IsComponents
    <3> QED BY <3>1, FS_Subset
  <2>4. PICK K : Components(T) = {K}
    BY <2>1, <2>3, FS_Singleton
  <2>5. K = T
    BY <2>2, <2>4 DEF IsComponents
  <2>6. Connected(T, Adjacency)
    BY <2>2, <2>4, <2>5 DEF IsComponents
  <2>7. w >= k - 1
    BY <2>6, ConnectedEdges
  <2>8. ElkEdges(card) = Chain
    BY <1>5 DEF ElkEdges
  <2> HIDE DEF k, w, ElkLength
  <2> QED BY <1>1, <1>2, <1>5, <2>7, <2>8 DEF k, w, ElkLength
<1>6. CASE card = "D"
  <2>1. PICK elk \in T : \E center \in Neighbors(elk) : T \subseteq Neighbors(center)
    BY <1>6 DEF ElkGroup
  <2>2. PICK center \in Neighbors(elk) : T \subseteq Neighbors(center)
    BY <2>1
  <2>3. center \in Int \X Int
    BY NeighborsAre
  <2>4. 2 * k - 6 <= w
    BY <2>2, <2>3, RingEdges
  <2>5. ElkEdges(card) = <<0, 0, 0, 2, 4, 6>>
    BY <1>6 DEF ElkEdges
  <2> HIDE DEF k, w, ElkLength
  <2>6. k = 1 \/ k = 2 \/ k = 3 \/ k = 4 \/ k = 5 \/ k = 6
    BY <1>1
  <2>7. <<0, 0, 0, 2, 4, 6>>[k] <= w
    BY <1>1, <2>4, <2>6
  <2> QED BY <1>1, <1>6, <2>5, <2>7 DEF k, w, ElkLength
<1> QED BY <1>3, <1>4, <1>5, <1>6 DEF Cards

\* A table that two groups together never exceed.
Superadditive(u) == u \in [0..6 -> Nat] /\ \A i, j \in 0..6 : i + j <= 6 => u[i] + u[j] <= u[i + j]

\* Then no sum of groups has more than the table says.
LEMMA SumsBelow ==
  ASSUME NEW count \in 0..6, NEW groups, IsTriples(groups), NEW u, Superadditive(u),
         \A g \in groups : g[1] <= 6 => g[2] <= u[g[1]]
  PROVE  \A x \in GroupSums(count, groups) : x[2] <= u[count]
<1> DEFINE Q == {x \in Triples : x[1] <= 6 => x[2] <= u[x[1]]}
<1>1. <<0, 0, 0>> \in Q
  BY DEF Triples, Superadditive
<1>2. ASSUME NEW x \in Q \cap Triples, NEW g \in groups, x[1] + g[1] <= count PROVE Added(x, g) \in Q
  <2>1. PICK i \in Nat, j \in Nat, k \in Nat : x = <<i, j, k>>
    BY DEF Triples
  <2>2. PICK a \in Nat, b \in Nat, c \in Nat : g = <<a, b, c>>
    BY DEF Triples, IsTriples
  <2>3. i + a <= 6 /\ i \in 0..6 /\ a \in 0..6 /\ i + a \in 0..6
    BY <1>2, <2>1, <2>2
  <2>4. j <= u[i] /\ b <= u[a] /\ u[i] + u[a] <= u[i + a] /\ u[i] \in Nat /\ u[a] \in Nat /\ u[i + a] \in Nat
    <3>1. g[1] <= 6 /\ g[2] <= u[g[1]]
      BY <2>2, <2>3
    <3>2. x[1] <= 6 /\ x[2] <= u[x[1]]
      BY <2>1, <2>3
    <3> QED BY <2>1, <2>2, <2>3, <3>1, <3>2 DEF Superadditive
  <2>5. Added(x, g) = <<i + a, j + b, k + c>>
    BY <2>1, <2>2 DEF Added
  <2>6. j + b <= u[i + a]
    BY <2>4
  <2> QED BY <2>5, <2>6 DEF Triples
<1>3. GroupSums(count, groups) \subseteq Q
  <2>1. count \in Nat
    OBVIOUS
  <2> HIDE DEF Q
  <2> QED BY <1>1, <1>2, <2>1, SumsLeast
<1>4. ASSUME NEW x \in GroupSums(count, groups) PROVE x[2] <= u[count]
  <2>1. x \in Triples /\ x[1] <= count
    BY SumsTyped
  <2>2. PICK i \in Nat, j \in Nat, k \in Nat : x = <<i, j, k>>
    BY <2>1 DEF Triples
  <2>3. i \in 0..6 /\ count - i \in 0..6 /\ i + (count - i) = count /\ j <= u[i]
    BY <1>3, <2>1, <2>2
  <2>4. u[i] + u[count - i] <= u[count] /\ u[i] \in Nat /\ u[count - i] \in Nat /\ u[count] \in Nat
    BY <2>3 DEF Superadditive
  <2> QED BY <2>2, <2>3, <2>4
<1> QED BY <1>4

\* The bounds of StandaloneElk and ElkProfiles for a score.
ElkBounded(n, w, worth, card) ==
  \A cross \in Nat :
    Bounded(worth, Sums(n, Groups(ElkSizes(card), Chain)), StandaloneElk(n, card), ElkProfiles(n, card), w, cross)

\* No sum of elk groups is worth more than the standalone bound.
LEMMA ElkUpper ==
  ASSUME NEW n \in 0..6, NEW card \in Cards, NEW x \in GroupSums(n, Groups(ElkSizes(card), ElkEdges(card)))
  PROVE  StandaloneElk(n, card) \in Nat /\ x[2] <= StandaloneElk(n, card)
<1> DEFINE t == ElkSizes(card) G == Groups(t, ElkEdges(card)) l == ElkLength(card)
<1>1. /\ t \in Seq(Nat) /\ t # <<>> /\ Len(t) = l /\ l \in Nat
      /\ \A k \in 1..(l - 1) : ElkEdges(card)[k] \in Nat
      /\ \A k \in 1..(l - 1) : t[k + 1] = ElkTable(card)[k + 1] /\ ElkTable(card)[k + 1] \in Nat
  BY ElkTablesAre DEF IsCut
<1>2. IsTriples(G) /\ \A g \in G : g[1] \in 1..(l - 1) /\ g[2] = t[g[1] + 1]
  <2> HIDE DEF t, l
  <2> QED BY <1>1, GroupsAre
<1>3. CASE card \in {"A", "B"}
  <2>1. StandaloneElk(n, card) = PartitionUpper(n, <<0, 2, 5, 9, 13>>) /\ t = <<0, 2, 5, 9, 13>>
    BY <1>3 DEF StandaloneElk, ElkSizes, ElkTable
  <2>2. \A g \in G : g[1] <= n => g[1] < Len(t) /\ g[2] <= t[g[1] + 1]
    <3> SUFFICES ASSUME NEW g \in G PROVE g[1] < Len(t) /\ g[2] <= t[g[1] + 1]
      OBVIOUS
    <3> HIDE DEF t, l, G
    <3>1. g[1] \in 1..(l - 1) /\ g[2] = t[g[1] + 1] /\ t[g[1] + 1] \in Nat
      BY <1>1, <1>2
    <3> QED BY <1>1, <3>1
  <2> HIDE DEF t, l
  <2>3. PartitionUpper(n, t) \in Nat /\ x[2] <= PartitionUpper(n, t)
    <3>1. n \in Nat /\ x \in GroupSums(n, G)
      BY DEF t
    <3> HIDE DEF G
    <3> QED BY <1>1, <1>2, <2>2, <3>1, PartitionBounds
  <2> QED BY <2>1, <2>3
<1>4. CASE card \in {"C", "D"}
  <2> DEFINE s == IF card = "C" THEN <<0, 2, 4, 7, 10, 14, 18>> ELSE <<0, 2, 5, 8, 12, 16, 21>>
             u == [i \in 0..6 |-> s[i + 1]]
  <2>1. l = 7
    BY <1>4 DEF ElkLength
  <2>2. \A k \in 1..6 : ElkTable(card)[k + 1] = s[k + 1]
    BY <1>4 DEF ElkTable
  <2>3. u \in [0..6 -> Nat]
    OBVIOUS
  <2>4. u[0] = 0 /\ u[1] = 2 /\ u[2] = (IF card = "C" THEN 4 ELSE 5) /\ u[3] = (IF card = "C" THEN 7 ELSE 8)
        /\ u[4] = (IF card = "C" THEN 10 ELSE 12) /\ u[5] = (IF card = "C" THEN 14 ELSE 16)
        /\ u[6] = (IF card = "C" THEN 18 ELSE 21)
    OBVIOUS
  <2>5. \A i \in 0..6 : u[i] = s[i + 1]
    OBVIOUS
  <2> HIDE DEF u, s
  <2>6. Superadditive(u)
    <3>1. ASSUME NEW i \in 0..6, NEW j \in 0..6, i + j <= 6 PROVE u[i] + u[j] <= u[i + j]
      <4>1. i = 0 \/ i = 1 \/ i = 2 \/ i = 3 \/ i = 4 \/ i = 5 \/ i = 6
        OBVIOUS
      <4>2. j = 0 \/ j = 1 \/ j = 2 \/ j = 3 \/ j = 4 \/ j = 5 \/ j = 6
        OBVIOUS
      <4> QED BY <2>4, <3>1, <4>1, <4>2
    <3> QED BY <2>3, <3>1 DEF Superadditive
  <2>7. StandaloneElk(n, card) = u[n]
    <3>1. StandaloneElk(n, card) = s[n + 1]
      BY <1>4 DEF StandaloneElk, s
    <3> QED BY <2>5, <3>1
  <2>8. \A g \in G : g[1] <= 6 => g[2] <= u[g[1]]
    <3> SUFFICES ASSUME NEW g \in G PROVE g[2] <= u[g[1]]
      OBVIOUS
    <3> HIDE DEF t, l, G
    <3>1. g[1] \in 1..6 /\ g[2] = t[g[1] + 1]
      BY <1>2, <2>1
    <3> DEFINE k == g[1]
    <3>2. k \in 1..6 /\ k \in 0..6 /\ k \in 1..(l - 1)
      BY <2>1, <3>1
    <3>3. g[2] = t[k + 1]
      BY <3>1
    <3> HIDE DEF k
    <3>4. t[k + 1] = u[k] /\ u[k] \in Nat
      BY <1>1, <2>2, <2>3, <2>5, <3>2
    <3> QED BY <3>3, <3>4 DEF k
  <2>9. x \in GroupSums(n, G)
    OBVIOUS
  <2> HIDE DEF G, t, l
  <2>10. x[2] <= u[n]
    BY <1>2, <2>6, <2>8, <2>9, SumsBelow
  <2> QED BY <2>3, <2>7, <2>10
<1> QED BY <1>3, <1>4 DEF Cards

\* The elk.
LEMMA ElkAre ==
  ASSUME NEW A \in SUBSET Cells, Cardinality(A) <= 6, NEW card \in Cards
  PROVE  ElkBounded(Cardinality(A), Cardinality(Within(A)), ScoreElk(A, card), card)
<1> DEFINE groups == ElkGroups(A, card) n == Cardinality(A) w == Cardinality(Within(A)) v == ScoreElk(A, card)
           within == [S \in SUBSET A |-> Cardinality(Within(S))]
           size == [S \in SUBSET A |-> Cardinality(S)]
           G == Groups(ElkSizes(card), ElkEdges(card)) H == Groups(ElkSizes(card), Chain)
<1>1. A \in SUBSET (Int \X Int) /\ IsFiniteSet(A) /\ n \in 0..6 /\ w \in Nat
  <2>1. A \in SUBSET (Int \X Int) /\ IsFiniteSet(A)
    BY ScoringAssumption, FS_Subset
  <2>2. n \in Nat /\ w \in Nat
    BY <2>1, FS_CardinalityType, EdgeCounts
  <2> QED BY <2>1, <2>2
<1>2. IsGroups(groups, A)
  BY ElkGroupsAre
<1>3. PICK P : IsPacking(P, A, groups) /\ Total(P, groups) = v
  <2>1. PICK D \in [SUBSET A -> Nat] : Decides(D, A, groups) /\ MaximizeDisjointGroups(A, groups) = D[A]
    <3> HIDE DEF groups
    <3> QED BY <1>2, GroupsDecided
  <2>2. IsBest(D[A], A, groups)
    <3> HIDE DEF groups
    <3>1. A \in SUBSET A
      OBVIOUS
    <3> QED BY <1>2, <2>1, <3>1, DecidedBest
  <2>3. v = D[A]
    BY <2>1 DEF ScoreElk
  <2> HIDE DEF groups, v
  <2> QED BY <2>2, <2>3 DEF IsBest
<1> DEFINE worth == [T \in P |-> Worth(T, groups)]
<1>4. SumFunction(worth) = v /\ worth \in [P -> Nat]
  <2>1. \A T \in P : Worth(T, groups) \in Nat
    <3> HIDE DEF groups
    <3>1. A \in SUBSET A
      OBVIOUS
    <3> QED BY <1>2, <1>3, <3>1, PackingFinite
  <2> QED BY <1>3, <2>1 DEF Total
<1>5. Disjoint(P, A)
  BY <1>3 DEF IsPacking, Disjoint
<1>6. ASSUME NEW T \in P
      PROVE  /\ Cardinality(T) \in 1..(ElkLength(card) - 1) /\ Cardinality(Within(T)) \in Nat
             /\ ElkEdges(card)[Cardinality(T)] <= Cardinality(Within(T))
             /\ worth[T] = ElkSizes(card)[Cardinality(T) + 1] /\ ElkSizes(card)[Cardinality(T) + 1] > 0
             /\ T \in SUBSET A
  <2>1. Scores(T, groups) # {}
    BY <1>3 DEF IsPacking
  <2>2. PICK g \in groups : g[1] = T /\ g[2] = Worth(T, groups)
    <3> HIDE DEF groups
    <3> QED BY <1>2, <2>1, WorthIs
  <2>3. T \in (SUBSET A) \ {{}} /\ ElkGroup(T, card) /\ worth[T] = Entry(ElkTable(card), Cardinality(T))
    BY <2>2 DEF ElkGroups
  <2>4. T \in SUBSET (Int \X Int) /\ IsFiniteSet(T) /\ T # {} /\ Cardinality(T) <= 6
    <3>1. Cardinality(T) <= Cardinality(A) /\ Cardinality(T) \in Nat /\ IsFiniteSet(T)
      BY <1>1, <2>3, PartSize
    <3> QED BY <1>1, <2>3, <3>1
  <2>5. /\ Cardinality(T) \in 1..(ElkLength(card) - 1) /\ Cardinality(Within(T)) \in Nat
        /\ ElkEdges(card)[Cardinality(T)] <= Cardinality(Within(T))
    BY <2>3, <2>4, ElkShapes
  <2>6. /\ Entry(ElkTable(card), Cardinality(T)) = ElkSizes(card)[Cardinality(T) + 1]
        /\ ElkSizes(card)[Cardinality(T) + 1] > 0
    BY <2>5, ElkTablesAre DEF IsCut
  <2> HIDE DEF worth
  <2> QED BY <2>3, <2>5, <2>6
<1>7. /\ IsTriples(G) /\ IsTriples(H)
      /\ \A k \in 1..(ElkLength(card) - 1) :
           ElkSizes(card)[k + 1] > 0 => /\ <<k, ElkSizes(card)[k + 1], ElkEdges(card)[k]>> \in G
                                        /\ <<k, ElkSizes(card)[k + 1], k - 1>> \in H
  <2>1. /\ ElkSizes(card) \in Seq(Nat) /\ Len(ElkSizes(card)) = ElkLength(card)
        /\ \A k \in 1..(ElkLength(card) - 1) : ElkEdges(card)[k] \in Nat
    BY ElkTablesAre DEF IsCut
  <2>2. \A k \in 1..(ElkLength(card) - 1) : Chain[k] = k - 1 /\ Chain[k] \in Nat
    BY DEF Chain, ElkLength
  <2>3. IsTriples(G) /\ \A k \in 1..(Len(ElkSizes(card)) - 1) :
           ElkSizes(card)[k + 1] > 0 => <<k, ElkSizes(card)[k + 1], ElkEdges(card)[k]>> \in G
    BY <2>1, GroupsAre
  <2>4. IsTriples(H) /\ \A k \in 1..(Len(ElkSizes(card)) - 1) :
           ElkSizes(card)[k + 1] > 0 => <<k, ElkSizes(card)[k + 1], Chain[k]>> \in H
    BY <2>1, <2>2, GroupsAre
  <2> HIDE DEF G, H
  <2> QED BY <2>1, <2>2, <2>3, <2>4
<1> HIDE DEF worth, G, H, groups, v
<1>8. Fitted(P, G, within, worth)
  <2>1. ASSUME NEW T \in P PROVE \E g \in G : g[1] = Cardinality(T) /\ g[2] = worth[T] /\ g[3] <= within[T]
    <3> DEFINE k == Cardinality(T) g == <<k, ElkSizes(card)[k + 1], ElkEdges(card)[k]>>
    <3>1. g \in G
      BY <1>6, <1>7
    <3>2. g[1] = k /\ g[2] = worth[T] /\ g[3] <= within[T]
      BY <1>6
    <3> HIDE DEF g
    <3> QED BY <3>1, <3>2
  <2> QED BY <2>1 DEF Fitted
<1>9. Fitted(P, H, size, worth)
  <2>1. ASSUME NEW T \in P PROVE \E g \in H : g[1] = Cardinality(T) /\ g[2] = worth[T] /\ g[3] <= size[T]
    <3> DEFINE k == Cardinality(T) g == <<k, ElkSizes(card)[k + 1], k - 1>>
    <3>1. g \in H
      BY <1>6, <1>7
    <3>2. k \in 1..(ElkLength(card) - 1) /\ size[T] = k
      BY <1>6
    <3>3. g[1] = k /\ g[2] = worth[T] /\ g[3] = k - 1 /\ k - 1 <= k
      BY <1>6, <3>2 DEF ElkLength
    <3> HIDE DEF g, size
    <3> QED BY <3>1, <3>2, <3>3
  <2> QED BY <2>1 DEF Fitted
<1>10. Measures(within, A) /\ Measures(size, A)
  BY <1>1, WithinMeasures, SizeMeasures
<1>11. within[A] = w
  OBVIOUS
<1> HIDE DEF within, size
<1>12. PICK x \in GroupSums(n, G) : x[2] = v /\ x[3] <= w
  <2>1. PacksTo(P, A, G, within, worth)
    BY <1>1, <1>4, <1>5, <1>7, <1>8, <1>10, PackingSums
  <2> QED BY <1>4, <1>11, <2>1 DEF PacksTo
<1>13. PICK y \in GroupSums(n, H) : y[2] = v
  <2>1. PacksTo(P, A, H, size, worth)
    BY <1>1, <1>4, <1>5, <1>7, <1>9, <1>10, PackingSums
  <2> QED BY <1>4, <2>1 DEF PacksTo
<1> HIDE DEF n, w
<1>14. v \in Sums(n, H)
  BY <1>13 DEF Sums
<1>15. ASSUME NEW cross \in Nat
       PROVE  v \in Nat /\ IsProfiles(Profiles(n, G)) /\ ProfilesOffer(Profiles(n, G), v, w, cross)
  <2>1. n \in Nat
    BY <1>1
  <2>2. x[2] \in Nat /\ IsProfiles(Profiles(n, G)) /\ ProfilesOffer(Profiles(n, G), x[2], w, cross)
    BY <1>1, <1>7, <1>12, <2>1, SumProfiles
  <2> QED BY <1>12, <2>2
<1>16. StandaloneElk(n, card) \in Nat /\ v <= StandaloneElk(n, card)
  BY <1>1, <1>12, ElkUpper DEF G
<1>17. ElkProfiles(n, card) = Profiles(n, G)
  BY DEF ElkProfiles, G
<1>18. ElkBounded(n, w, v, card)
  BY <1>14, <1>15, <1>16, <1>17 DEF ElkBounded, Bounded, H
<1> QED BY <1>18 DEF n, w, v

-----------------------------------------------------------------------------
(* Salmon.                                                                  *)

\* What disjoint groups have together.
LEMMA SumMeasured ==
  ASSUME NEW C, IsFiniteSet(C), NEW R, Disjoint(R, C), NEW m, Measures(m, C),
         NEW w \in [R -> Nat], \A T \in R : w[T] <= m[T]
  PROVE  SumFunction(w) \in Nat /\ SumFunction(w) <= m[C]
<1> DEFINE f == [T \in R |-> <<Cardinality(T), w[T], w[T]>>] G == {f[T] : T \in R}
           Q == {x \in Triples : x[2] = x[3]}
<1>1. IsFiniteSet(R) /\ \A T \in R : T # {} /\ Cardinality(T) \in Nat /\ Cardinality(T) > 0
  <2>1. IsFiniteSet(R)
    BY FS_SUBSET, FS_Subset DEF Disjoint
  <2>2. \A T \in R : T # {} /\ IsFiniteSet(T)
    BY FS_Subset DEF Disjoint
  <2>3. \A T \in R : Cardinality(T) \in Nat /\ Cardinality(T) # 0
    BY <2>2, FS_CardinalityType, FS_EmptySet
  <2> QED BY <2>1, <2>2, <2>3
<1>2. IsTriples(G)
  <2>1. IsFiniteSet(G)
    <3> HIDE DEF f
    <3> QED BY <1>1, FiniteImage
  <2>2. \A g \in G : g \in Triples /\ g[1] > 0
    BY <1>1 DEF Triples
  <2> HIDE DEF G
  <2> QED BY <2>1, <2>2 DEF IsTriples
<1>3. Fitted(R, G, m, w)
  <2>1. ASSUME NEW T \in R PROVE \E g \in G : g[1] = Cardinality(T) /\ g[2] = w[T] /\ g[3] <= m[T]
    <3>1. f[T] \in G /\ f[T][1] = Cardinality(T) /\ f[T][2] = w[T] /\ f[T][3] <= m[T]
      OBVIOUS
    <3> HIDE DEF f, G
    <3> QED BY <3>1
  <2> HIDE DEF G
  <2> QED BY <2>1 DEF Fitted
<1>4. \A g \in G : g[2] = g[3]
  OBVIOUS
<1> HIDE DEF G
<1>5. PICK x \in GroupSums(Cardinality(C), G) : x[2] = SumFunction(w) /\ x[3] <= m[C]
  <2>1. PacksTo(R, C, G, m, w)
    BY <1>2, <1>3, PackingSums
  <2> QED BY <2>1 DEF PacksTo
<1>6. Cardinality(C) \in Nat
  BY FS_CardinalityType
<1>7. GroupSums(Cardinality(C), G) \subseteq Q
  <2>1. <<0, 0, 0>> \in Q
    BY DEF Triples
  <2>2. \A y \in Q \cap Triples, g \in G : y[1] + g[1] <= Cardinality(C) => Added(y, g) \in Q
    <3> SUFFICES ASSUME NEW y \in Q \cap Triples, NEW g \in G PROVE Added(y, g) \in Q
      OBVIOUS
    <3>1. g \in Triples /\ g[2] = g[3]
      BY <1>2, <1>4 DEF IsTriples
    <3>2. y \in Triples /\ y[2] = y[3]
      OBVIOUS
    <3> QED BY <3>1, <3>2 DEF Added, Triples
  <2> HIDE DEF Q
  <2> QED BY <1>2, <1>6, <2>1, <2>2, SumsLeast
<1>8. x \in Triples /\ x[2] = x[3]
  BY <1>5, <1>7
<1> QED BY <1>5, <1>8 DEF Triples

\* The runs.
LEMMA RunsAre ==
  ASSUME NEW A \in SUBSET (Int \X Int), IsFiniteSet(A)
  PROVE  /\ Disjoint(Runs(A), A) /\ IsFiniteSet(Runs(A))
         /\ \A K \in Runs(A) : /\ K \in SUBSET A /\ Cardinality(K) \in 1..Cardinality(A)
                               /\ Cardinality(Within(K)) \in Nat /\ Cardinality(K) - 1 <= Cardinality(Within(K))
                               /\ IsFiniteSet(Around(K)) /\ Cardinality(Around(K)) <= 2 * Cardinality(K) + 4
<1>1. IsComponents(Components(A), A, Adjacency)
  BY ComponentsFound
<1>2. Runs(A) \subseteq Components(A)
  BY DEF Runs
<1>3. Disjoint(Runs(A), A)
  BY <1>1, <1>2 DEF Disjoint, IsComponents
<1>4. IsFiniteSet(Runs(A))
  <2>1. IsFiniteSet(SUBSET A) /\ Runs(A) \subseteq SUBSET A
    BY <1>3, FS_SUBSET DEF Disjoint
  <2> QED BY <2>1, FS_Subset
<1>5. ASSUME NEW K \in Runs(A)
      PROVE  /\ K \in SUBSET A /\ Cardinality(K) \in 1..Cardinality(A)
             /\ Cardinality(Within(K)) \in Nat /\ Cardinality(K) - 1 <= Cardinality(Within(K))
             /\ IsFiniteSet(Around(K)) /\ Cardinality(Around(K)) <= 2 * Cardinality(K) + 4
  <2>1. K \in SUBSET A /\ K # {} /\ Connected(K, Adjacency)
    BY <1>1, <1>2 DEF IsComponents
  <2>2. IsFiniteSet(K) /\ Cardinality(K) \in Nat /\ Cardinality(A) \in Nat /\ Cardinality(K) <= Cardinality(A) /\ Cardinality(K) # 0
    BY <2>1, PartSize, FS_EmptySet
  <2>3. K \in SUBSET (Int \X Int) /\ Cardinality(Within(K)) \in Nat
    BY <2>1, <2>2, EdgeCounts
  <2>4. /\ Cardinality(Within(K)) >= Cardinality(K) - 1
        /\ IsFiniteSet(Around(K)) /\ Cardinality(Around(K)) <= 2 * Cardinality(K) + 4
    BY <2>1, <2>2, <2>3, ConnectedEdges
  <2> QED BY <2>1, <2>2, <2>3, <2>4
<1> QED BY <1>3, <1>4, <1>5

\* Disjoint groups worth what a table gives their size.
LEMMA TableBounded ==
  ASSUME NEW A \in SUBSET (Int \X Int), IsFiniteSet(A), NEW t \in Seq(Nat), t # <<>>, Len(t) <= 7,
         NEW R, Disjoint(R, A), NEW f \in [R -> Nat],
         \A T \in R : /\ Cardinality(T) \in 1..(Len(t) - 1) /\ f[T] = t[Cardinality(T) + 1]
                      /\ Cardinality(Within(T)) \in Nat /\ Cardinality(T) - 1 <= Cardinality(Within(T)),
         NEW cross \in Nat
  PROVE  Bounded(SumFunction(f), Sums(Cardinality(A), Groups(t, Chain)), PartitionUpper(Cardinality(A), t),
                 Profiles(Cardinality(A), Groups(t, Chain)), Cardinality(Within(A)), cross)
<1> DEFINE n == Cardinality(A) w == Cardinality(Within(A)) G == Groups(t, Chain) S == {T \in R : f[T] > 0}
           g == [T \in S |-> f[T]] within == [U \in SUBSET A |-> Cardinality(Within(U))] v == SumFunction(f)
<1>1. n \in Nat /\ w \in Nat /\ IsFiniteSet(R)
  <2>1. n \in Nat /\ w \in Nat
    BY FS_CardinalityType, EdgeCounts
  <2>2. R \subseteq SUBSET A
    BY DEF Disjoint
  <2> QED BY <2>1, <2>2, FS_SUBSET, FS_Subset
<1>2. v = SumFunction(g) /\ g \in [S -> Nat] /\ Disjoint(S, A)
  <2>1. S \in SUBSET R /\ \A x \in R \ S : f[x] = 0
    <3>1. \A x \in R \ S : f[x] \in Nat /\ ~(f[x] > 0)
      OBVIOUS
    <3> QED BY <3>1
  <2>2. Disjoint(S, A) /\ g \in [S -> Nat]
    BY DEF Disjoint
  <2>3. v = SumFunction([x \in S |-> f[x]])
    <3> HIDE DEF S
    <3> QED BY <1>1, <2>1, SumOfScored
  <2> QED BY <2>2, <2>3
<1>3. /\ IsTriples(G) /\ \A h \in G : h[1] \in 1..(Len(t) - 1) /\ h[2] = t[h[1] + 1]
      /\ \A k \in 1..(Len(t) - 1) : t[k + 1] > 0 => <<k, t[k + 1], k - 1>> \in G
  <2>1. \A k \in 1..(Len(t) - 1) : Chain[k] = k - 1 /\ Chain[k] \in Nat
    BY SMTT(30) DEF Chain
  <2>2. /\ IsTriples(G) /\ \A h \in G : h[1] \in 1..(Len(t) - 1) /\ h[2] = t[h[1] + 1]
        /\ \A k \in 1..(Len(t) - 1) : t[k + 1] > 0 => <<k, t[k + 1], Chain[k]>> \in G
    BY <2>1, GroupsAre
  <2> HIDE DEF G
  <2> QED BY <2>1, <2>2
<1>4. Measures(within, A) /\ within[A] = w
  BY WithinMeasures
<1>5. Fitted(S, G, within, g)
  <2>1. ASSUME NEW T \in S PROVE \E h \in G : h[1] = Cardinality(T) /\ h[2] = g[T] /\ h[3] <= within[T]
    <3> DEFINE k == Cardinality(T) h == <<k, t[k + 1], k - 1>>
    <3>1. T \in R /\ f[T] > 0 /\ T \in SUBSET A /\ g[T] = f[T]
      BY DEF Disjoint
    <3>2. within[T] = Cardinality(Within(T))
      BY <3>1
    <3>3. h \in G
      <4> HIDE DEF G
      <4> QED BY <1>3, <3>1
    <3>4. h[1] = k /\ h[2] = g[T] /\ h[3] <= within[T]
      <4> HIDE DEF within, g
      <4> QED BY <3>1, <3>2
    <3> HIDE DEF h
    <3> QED BY <3>3, <3>4
  <2> QED BY <2>1 DEF Fitted
<1> HIDE DEF within, g, S, G, v
<1>6. PICK x \in GroupSums(n, G) : x[2] = v /\ x[3] <= w
  <2>1. PacksTo(S, A, G, within, g)
    BY <1>2, <1>3, <1>4, <1>5, PackingSums
  <2> QED BY <1>2, <1>4, <2>1 DEF PacksTo
<1> HIDE DEF n, w
<1>7. v \in Nat /\ v \in Sums(n, G) /\ IsProfiles(Profiles(n, G)) /\ ProfilesOffer(Profiles(n, G), v, w, cross)
  BY <1>1, <1>3, <1>6, SumProfiles
<1>8. PartitionUpper(n, t) \in Nat /\ v <= PartitionUpper(n, t)
  <2>1. \A h \in G : h[1] <= n => h[1] < Len(t) /\ h[2] <= t[h[1] + 1]
    <3> SUFFICES ASSUME NEW h \in G PROVE h[1] < Len(t) /\ h[2] <= t[h[1] + 1]
      OBVIOUS
    <3>1. h[1] \in 1..(Len(t) - 1) /\ h[2] = t[h[1] + 1] /\ t[h[1] + 1] \in Nat /\ Len(t) \in Nat
      BY <1>3
    <3> QED BY <3>1
  <2>2. PartitionUpper(n, t) \in Nat /\ \A y \in GroupSums(n, G) : y[2] <= PartitionUpper(n, t)
    BY <1>1, <1>3, <2>1, PartitionBounds
  <2> QED BY <1>6, <2>2
<1>9. Bounded(v, Sums(n, G), PartitionUpper(n, t), Profiles(n, G), w, cross)
  BY <1>7, <1>8 DEF Bounded
<1> QED BY <1>9 DEF n, w, G, v

\* The bounds of SalmonScoreDomain, StandaloneSalmon and SalmonProfiles for a score.
SalmonBounded(n, w, t, worth, card) ==
  \A cross \in Nat : cross >= t =>
    Bounded(worth, SalmonScoreDomain(n, card), StandaloneSalmon(n, card, TokenCount - n),
            SalmonProfiles(n, card), w, cross)

\* Cards A, B and C score a run by its length only.
LEMMA SalmonEntries ==
  ASSUME NEW card \in {"A", "B", "C"}
  PROVE  /\ SalmonTable(card) \in Seq(Nat) /\ SalmonTable(card) # <<>> /\ Len(SalmonTable(card)) = 7
         /\ \A b, K : Cardinality(K) \in 1..6 => ScoreRun(b, K, card) = SalmonTable(card)[Cardinality(K) + 1]
<1>1. CASE card = "A"
  <2> DEFINE t == <<0, 2, 5, 8, 12, 16, 20>> s == <<0, 2, 5, 8, 12, 16, 20, 25>>
  <2>1. t \in Seq(Nat) /\ t # <<>> /\ Len(t) = 7
    OBVIOUS
  <2>2. \A k \in 1..6 : Entry(s, k) = t[k + 1]
    <3> SUFFICES ASSUME NEW k \in 1..6 PROVE Entry(s, k) = t[k + 1]
      OBVIOUS
    <3>1. k = 1 \/ k = 2 \/ k = 3 \/ k = 4 \/ k = 5 \/ k = 6
      OBVIOUS
    <3> QED BY <3>1 DEF Entry
  <2>3. SalmonTable(card) = t /\ \A b, K : ScoreRun(b, K, card) = Entry(s, Cardinality(K))
    BY <1>1 DEF SalmonTable, ScoreRun
  <2> HIDE DEF t, s
  <2> QED BY <2>1, <2>2, <2>3
<1>2. CASE card = "B"
  <2> DEFINE t == <<0, 2, 4, 9, 11, 17, 17>> s == <<0, 2, 4, 9, 11, 17>>
  <2>1. t \in Seq(Nat) /\ t # <<>> /\ Len(t) = 7
    OBVIOUS
  <2>2. \A k \in 1..6 : Entry(s, k) = t[k + 1]
    <3> SUFFICES ASSUME NEW k \in 1..6 PROVE Entry(s, k) = t[k + 1]
      OBVIOUS
    <3>1. k = 1 \/ k = 2 \/ k = 3 \/ k = 4 \/ k = 5 \/ k = 6
      OBVIOUS
    <3> QED BY <3>1 DEF Entry
  <2>3. SalmonTable(card) = t /\ \A b, K : ScoreRun(b, K, card) = Entry(s, Cardinality(K))
    BY <1>2 DEF SalmonTable, ScoreRun
  <2> HIDE DEF t, s
  <2> QED BY <2>1, <2>2, <2>3
<1>3. CASE card = "C"
  <2> DEFINE t == <<0, 0, 0, 10, 12, 15, 15>> s == <<0, 0, 0, 10, 12, 15>>
  <2>1. t \in Seq(Nat) /\ t # <<>> /\ Len(t) = 7
    OBVIOUS
  <2>2. \A k \in 1..6 : Entry(s, k) = t[k + 1]
    <3> SUFFICES ASSUME NEW k \in 1..6 PROVE Entry(s, k) = t[k + 1]
      OBVIOUS
    <3>1. k = 1 \/ k = 2 \/ k = 3 \/ k = 4 \/ k = 5 \/ k = 6
      OBVIOUS
    <3> QED BY <3>1 DEF Entry
  <2>3. SalmonTable(card) = t /\ \A b, K : ScoreRun(b, K, card) = Entry(s, Cardinality(K))
    BY <1>3 DEF SalmonTable, ScoreRun
  <2> HIDE DEF t, s
  <2> QED BY <2>1, <2>2, <2>3
<1> QED BY <1>1, <1>2, <1>3

\* Cards A, B and C: runs by a table.
LEMMA SalmonByTable ==
  ASSUME NEW b, NEW A, A = Positions(b, "salmon"), A \in SUBSET (Int \X Int), IsFiniteSet(A), Cardinality(A) <= 6,
         NEW card \in {"A", "B", "C"}, NEW t
  PROVE  SalmonBounded(Cardinality(A), Cardinality(Within(A)), t, ScoreSalmon(b, card), card)
<1> DEFINE R == Runs(A) f == [K \in R |-> ScoreRun(b, K, card)] s == SalmonTable(card)
<1>1. s \in Seq(Nat) /\ s # <<>> /\ Len(s) = 7
      /\ \A K : Cardinality(K) \in 1..6 => ScoreRun(b, K, card) = s[Cardinality(K) + 1]
  BY SalmonEntries
<1>2. Cardinality(A) \in Nat
  BY FS_CardinalityType
<1>3. /\ Disjoint(R, A)
      /\ \A K \in R : /\ Cardinality(K) \in 1..6 /\ Cardinality(Within(K)) \in Nat
                      /\ Cardinality(K) - 1 <= Cardinality(Within(K))
  <2>1. /\ Disjoint(R, A)
        /\ \A K \in R : /\ Cardinality(K) \in 1..Cardinality(A)
                        /\ Cardinality(Within(K)) \in Nat /\ Cardinality(K) - 1 <= Cardinality(Within(K))
    BY RunsAre
  <2> QED BY <1>2, <2>1
<1>4. ScoreSalmon(b, card) = SumFunction(f)
  BY DEF ScoreSalmon
<1>5. f \in [R -> Nat] /\ \A K \in R : f[K] = s[Cardinality(K) + 1]
  <2> HIDE DEF R, s
  <2>1. ASSUME NEW K \in R PROVE f[K] = s[Cardinality(K) + 1] /\ f[K] \in Nat
    <3>1. f[K] = s[Cardinality(K) + 1] /\ Cardinality(K) \in 1..(Len(s) - 1)
      BY <1>1, <1>3
    <3> HIDE DEF f
    <3>2. s[Cardinality(K) + 1] \in Nat
      <4> DEFINE k == Cardinality(K)
      <4>1. k \in 1..(Len(s) - 1) /\ IsCut(s, s, Len(s))
        BY <1>1, <3>1, TableWhole
      <4> HIDE DEF k
      <4>2. s[k + 1] \in Nat
        BY <4>1 DEF IsCut
      <4> QED BY <4>2 DEF k
    <3> QED BY <3>1, <3>2
  <2> QED BY <2>1
<1>6. /\ SalmonScoreDomain(Cardinality(A), card) = Sums(Cardinality(A), Groups(s, Chain))
      /\ StandaloneSalmon(Cardinality(A), card, TokenCount - Cardinality(A)) = PartitionUpper(Cardinality(A), s)
      /\ SalmonProfiles(Cardinality(A), card) = Profiles(Cardinality(A), Groups(s, Chain))
  BY DEF SalmonScoreDomain, StandaloneSalmon, SalmonProfiles
<1> HIDE DEF R, f, s
<1>7. \A K \in R : Cardinality(K) \in 1..(Len(s) - 1)
  BY <1>1, <1>3
<1>8. ASSUME NEW cross \in Nat
      PROVE  Bounded(SumFunction(f), Sums(Cardinality(A), Groups(s, Chain)), PartitionUpper(Cardinality(A), s),
                     Profiles(Cardinality(A), Groups(s, Chain)), Cardinality(Within(A)), cross)
  <2>1. Len(s) <= 7
    BY <1>1
  <2> QED BY <1>1, <1>3, <1>5, <1>7, <2>1, TableBounded
<1> QED BY <1>4, <1>6, <1>8 DEF SalmonBounded

\* Disjoint parts have as many members as their union.
LEMMA SizesSum ==
  ASSUME NEW C, IsFiniteSet(C), NEW R, Disjoint(R, C)
  PROVE  LET f == [T \in R |-> Cardinality(T)]
         IN  f \in [R -> Nat] /\ SumFunction(f) = Cardinality(UNION R)
<1> DEFINE f == [T \in R |-> Cardinality(T)] m == [S \in SUBSET C |-> Cardinality(S)] n == Cardinality(C)
           G == {<<k, k, 0>> : k \in 1..n} Q == {x \in Triples : x[1] = x[2]}
<1>1. n \in Nat
  BY FS_CardinalityType
<1>2. \A T \in R : Cardinality(T) \in 1..n
  <2> SUFFICES ASSUME NEW T \in R PROVE Cardinality(T) \in 1..n
    OBVIOUS
  <2>1. T \subseteq C /\ T # {}
    BY DEF Disjoint
  <2>2. IsFiniteSet(T) /\ Cardinality(T) \in Nat /\ Cardinality(T) <= n
    BY <2>1, PartSize
  <2>3. Cardinality(T) # 0
    BY <2>1, <2>2, FS_EmptySet
  <2> QED BY <1>1, <2>2, <2>3
<1>3. f \in [R -> Nat]
  BY <1>2
<1>4. IsTriples(G) /\ \A g \in G : g[1] = g[2]
  <2>1. IsFiniteSet(G)
    <3> DEFINE h == [k \in 1..n |-> <<k, k, 0>>]
    <3>1. G = {h[k] : k \in 1..n}
      OBVIOUS
    <3>2. IsFiniteSet(1..n)
      BY <1>1, FS_Interval
    <3> HIDE DEF h, G, n
    <3> QED BY <3>1, <3>2, FiniteImage
  <2>2. \A g \in G : g \in Triples /\ g[1] > 0 /\ g[1] = g[2]
    BY <1>1 DEF Triples
  <2> HIDE DEF G
  <2> QED BY <2>1, <2>2 DEF IsTriples
<1>5. Measures(m, C)
  BY SizeMeasures
<1>6. Fitted(R, G, m, f)
  <2>1. ASSUME NEW T \in R PROVE \E g \in G : g[1] = Cardinality(T) /\ g[2] = f[T] /\ g[3] <= m[T]
    <3> DEFINE k == Cardinality(T) g == <<k, k, 0>>
    <3>1. k \in 1..n /\ f[T] = k
      BY <1>2
    <3>2. m[T] = k
      BY DEF Disjoint
    <3> HIDE DEF k, f, m, n
    <3>3. g \in G
      BY <3>1
    <3>4. g[1] = k /\ g[2] = f[T] /\ g[3] <= m[T]
      BY <3>1, <3>2
    <3> HIDE DEF g, G
    <3> QED BY <3>3, <3>4 DEF k
  <2> QED BY <2>1 DEF Fitted
<1> HIDE DEF f, G, m
<1>7. PICK x \in GroupSums(n, G) : x[1] = Cardinality(UNION R) /\ x[2] = SumFunction(f)
  <2>1. PacksTo(R, C, G, m, f)
    BY <1>3, <1>4, <1>5, <1>6, PackingSums
  <2> QED BY <2>1 DEF PacksTo
<1>8. GroupSums(n, G) \subseteq Q
  <2>1. <<0, 0, 0>> \in Q
    BY DEF Triples
  <2>2. \A y \in Q \cap Triples, g \in G : y[1] + g[1] <= n => Added(y, g) \in Q
    <3> SUFFICES ASSUME NEW y \in Q \cap Triples, NEW g \in G PROVE Added(y, g) \in Q
      OBVIOUS
    <3>1. g \in Triples /\ g[1] = g[2]
      BY <1>4 DEF IsTriples
    <3>2. y \in Triples /\ y[1] = y[2]
      OBVIOUS
    <3> QED BY <3>1, <3>2 DEF Added, Triples
  <2> HIDE DEF Q, n
  <2> QED BY <1>1, <1>4, <2>1, <2>2, SumsLeast
<1> QED BY <1>3, <1>7, <1>8 DEF f

\* No more cells lie around a run than edges lead out of it.
LEMMA RunNeighbors ==
  ASSUME NEW K, IsFiniteSet(K), NEW O, IsFiniteSet(O)
  PROVE  /\ IsFiniteSet(Around(K) \cap O) /\ Cardinality(Around(K) \cap O) \in Nat
         /\ Cardinality(Around(K) \cap O) <= Cardinality(Touching(K, O))
<1> DEFINE S == Touching(K, O) T == Around(K) \cap O f == [p \in {p \in S : p[2] \in T} |-> p[2]]
           U == {p \in S : p[2] \in T}
<1>1. IsFiniteSet(S) /\ IsFiniteSet(U) /\ Cardinality(U) \in Nat /\ Cardinality(U) <= Cardinality(S)
      /\ Cardinality(S) \in Nat
  <2>1. IsFiniteSet(S)
    BY EdgeCounts
  <2>2. U \subseteq S
    OBVIOUS
  <2> HIDE DEF S, U
  <2> QED BY <2>1, <2>2, PartSize
<1>2. \A y \in T : \E p \in U : f[p] = y
  <2> SUFFICES ASSUME NEW y \in T PROVE \E p \in U : f[p] = y
    OBVIOUS
  <2>1. PICK c \in K : y \in Neighbors(c)
    BY DEF Around
  <2>2. <<c, y>> \in S
    BY <2>1 DEF Touching
  <2>3. <<c, y>> \in U /\ f[<<c, y>>] = y
    BY <2>2
  <2> QED BY <2>3
<1>3. f = [p \in U |-> f[p]] /\ \A p \in U : f[p] \in T
  OBVIOUS
<1> HIDE DEF f, U, T, S
<1>4. IsFiniteSet(T) /\ Cardinality(T) \in Nat /\ Cardinality(T) <= Cardinality(U)
  BY <1>1, <1>2, <1>3, SurjectionSize
<1>5. Cardinality(T) <= Cardinality(S)
  BY <1>1, <1>4
<1> QED BY <1>4, <1>5 DEF T, S

\* A family of triples for each number of 3 to n.
LEMMA ManyTriples ==
  ASSUME NEW n \in Nat, NEW f, \A k \in 3..n : f[k] \in Triples /\ f[k][1] = k
  PROVE  IsTriples({f[k] : k \in 3..n})
<1> DEFINE G == {f[k] : k \in 3..n}
<1>1. IsFiniteSet(G)
  <2>1. IsFiniteSet(3..n)
    BY FS_Interval
  <2> QED BY <2>1, FiniteImage
<1>2. \A g \in G : g \in Triples /\ g[1] > 0
  <2> SUFFICES ASSUME NEW g \in G PROVE g \in Triples /\ g[1] > 0
    OBVIOUS
  <2>1. PICK k \in 3..n : g = f[k]
    OBVIOUS
  <2> QED BY <2>1
<1> HIDE DEF G
<1>3. IsTriples(G)
  BY <1>1, <1>2 DEF IsTriples
<1> QED BY <1>3 DEF G

\* The most neighbors of a run: all other tokens, or 2k + 4.
LEMMA RunCapacityIs ==
  ASSUME NEW k \in Nat, NEW others \in Nat
  PROVE  RunCapacity(k, others) \in Nat /\ RunCapacity(k, others) \in {others, 2 * k + 4}
<1>1. Least(others, 2 * k + 4) \in {others, 2 * k + 4}
  BY LeastIs
<1> QED BY <1>1 DEF RunCapacity

\* The groups of runs are triples.
LEMMA RunGroupsAre ==
  ASSUME NEW n \in Nat, NEW others \in Nat
  PROVE  IsTriples(RunGroups(n, others))
<1> DEFINE f == [k \in 3..n |-> <<k, RunCapacity(k, others), k - 1>>]
<1>1. \A k \in 3..n : f[k] \in Triples /\ f[k][1] = k
  <2> SUFFICES ASSUME NEW k \in 3..n PROVE f[k] \in Triples /\ f[k][1] = k
    OBVIOUS
  <2>1. RunCapacity(k, others) \in Nat /\ k \in Nat /\ k - 1 \in Nat
    BY RunCapacityIs
  <2> QED BY <2>1 DEF Triples
<1>2. RunGroups(n, others) = {f[k] : k \in 3..n}
  BY DEF RunGroups
<1> HIDE DEF f
<1>3. IsTriples({f[k] : k \in 3..n})
  BY <1>1, ManyTriples
<1> QED BY <1>2, <1>3

\* The profiles of runs with neighbors.
RunOffers(n, others) ==
  UNION {{<<x[1] + bonus, x[3], bonus>> : bonus \in 0..x[2]} : x \in GroupSums(n, RunGroups(n, others))}

\* These are profiles.
LEMMA RunOffersAre ==
  ASSUME NEW n \in Nat, NEW others \in Nat
  PROVE  IsProfiles(RunOffers(n, others))
<1> DEFINE S == GroupSums(n, RunGroups(n, others)) Q == RunOffers(n, others)
           f == [x \in S |-> {<<x[1] + bonus, x[3], bonus>> : bonus \in 0..x[2]}] F == {f[x] : x \in S}
<1>1. IsTriples(RunGroups(n, others))
  BY RunGroupsAre
<1>2. IsFiniteSet(S) /\ \A x \in S : x \in Triples
  <2> HIDE DEF S
  <2>1. IsFiniteSet(S) /\ \A x \in S : x \in Triples
    BY <1>1, SumsFinite, SumsTyped DEF S
  <2> QED BY <2>1
<1>3. Q = UNION F
  BY DEF RunOffers
<1> HIDE DEF S
<1>4. ASSUME NEW x \in S PROVE IsFiniteSet(f[x]) /\ f[x] \subseteq Triples
  <2>1. PICK i \in Nat, j \in Nat, k \in Nat : x = <<i, j, k>>
    BY <1>2 DEF Triples
  <2> DEFINE h == [c \in 0..j |-> <<i + c, k, c>>]
  <2>2. f[x] = {h[c] : c \in 0..j}
    BY <2>1
  <2>3. \A c \in 0..j : h[c] \in Triples
    BY <2>1 DEF Triples
  <2>4. IsFiniteSet(0..j)
    BY <2>1, FS_Interval
  <2> HIDE DEF h, f
  <2>5. IsFiniteSet({h[c] : c \in 0..j})
    BY <2>4, FiniteImage
  <2> QED BY <2>2, <2>3, <2>5
<1> HIDE DEF f
<1>5. IsFiniteSet(F)
  BY <1>2, FiniteImage
<1>6. \A T \in F : IsFiniteSet(T) /\ T \subseteq Triples
  BY <1>4
<1> HIDE DEF F
<1>7. IsFiniteSet(UNION F) /\ UNION F \subseteq Triples
  BY <1>5, <1>6, FS_UNION
<1> QED BY <1>3, <1>7 DEF IsProfiles, Q

\* A sum of runs with a bonus of at most its capacity is in the domain and offered.
LEMMA RunsOffer ==
  ASSUME NEW n \in Nat, NEW others, others = TokenCount - n, others \in Nat,
         NEW x \in GroupSums(n, RunGroups(n, others)), NEW bonus \in 0..x[2],
         NEW w \in Nat, x[3] <= w, NEW cross \in Nat, bonus <= cross
  PROVE  /\ x[1] + bonus \in SalmonScoreDomain(n, "D") /\ x[1] + bonus \in Nat
         /\ IsProfiles(SalmonProfiles(n, "D")) /\ ProfilesOffer(SalmonProfiles(n, "D"), x[1] + bonus, w, cross)
<1> DEFINE S == GroupSums(n, RunGroups(n, others)) Q == RunOffers(n, others) p == <<x[1] + bonus, x[3], bonus>>
<1>1. x \in Triples
  BY RunGroupsAre, SumsTyped
<1>2. SalmonProfiles(n, "D") = Efficient(Q) /\
      SalmonScoreDomain(n, "D") = UNION {{y[1] + c : c \in 0..y[2]} : y \in S}
  BY DEF SalmonProfiles, SalmonScoreDomain, RunOffers
<1>3. x[1] + bonus \in SalmonScoreDomain(n, "D")
  BY <1>2
<1>4. x[1] \in Nat /\ x[2] \in Nat /\ x[3] \in Nat /\ bonus \in Nat
  BY <1>1 DEF Triples
<1>5. p \in Q
  BY DEF RunOffers
<1>6. IsProfiles(Q)
  BY RunOffersAre
<1>7. ProfilesOffer(Q, x[1] + bonus, w, cross)
  <2>1. p[1] >= x[1] + bonus /\ p[2] <= w /\ p[3] <= cross
    BY <1>4
  <2> HIDE DEF p, Q
  <2> QED BY <1>5, <2>1 DEF ProfilesOffer
<1>8. IsProfiles(Efficient(Q)) /\ ProfilesOffer(Efficient(Q), x[1] + bonus, w, cross)
  <2>1. x[1] + bonus \in Nat
    BY <1>4
  <2> HIDE DEF Q
  <2> QED BY <1>6, <1>7, <2>1, EfficientOffers
<1> HIDE DEF p, Q, S
<1> QED BY <1>2, <1>3, <1>4, <1>8

\* No runs with as many neighbors are worth more.
RunTable(n, others) == [i \in 1..(n + 1) |-> IF i <= 3 THEN 0 ELSE i - 1 + RunCapacity(i - 1, others)]

FullRuns(n, others) == {<<k, k + RunCapacity(k, others), k - 1>> : k \in 3..n}

\* Runs that are full do not score more than the standalone bound.
LEMMA RunsUpper ==
  ASSUME NEW n \in Nat, NEW others \in Nat
  PROVE  /\ IsTriples(FullRuns(n, others)) /\ StandaloneSalmon(n, "D", others) \in Nat
         /\ \A x \in GroupSums(n, FullRuns(n, others)) : x[2] <= StandaloneSalmon(n, "D", others)
<1> DEFINE f == [k \in 3..n |-> <<k, k + RunCapacity(k, others), k - 1>>] t == RunTable(n, others) G == FullRuns(n, others)
<1>1. IsTriples(G)
  <2>1. \A k \in 3..n : f[k] \in Triples /\ f[k][1] = k
    <3> SUFFICES ASSUME NEW k \in 3..n PROVE f[k] \in Triples /\ f[k][1] = k
      OBVIOUS
    <3>1. RunCapacity(k, others) \in Nat /\ k \in Nat /\ k - 1 \in Nat
      BY RunCapacityIs
    <3> QED BY <3>1 DEF Triples
  <2>2. G = {f[k] : k \in 3..n}
    BY DEF FullRuns
  <2> HIDE DEF f, G
  <2>3. IsTriples({f[k] : k \in 3..n})
    BY <2>1, ManyTriples
  <2> QED BY <2>2, <2>3
<1>2. t \in Seq(Nat) /\ t # <<>> /\ Len(t) = n + 1
  <2>1. \A i \in 1..(n + 1) : t[i] \in Nat
    <3> SUFFICES ASSUME NEW i \in 1..(n + 1) PROVE t[i] \in Nat
      OBVIOUS
    <3>1. t[i] = IF i <= 3 THEN 0 ELSE i - 1 + RunCapacity(i - 1, others)
      BY DEF RunTable
    <3>2. i > 3 => RunCapacity(i - 1, others) \in Nat
      <4> DEFINE e == i - 1
      <4>1. e \in Nat
        OBVIOUS
      <4> HIDE DEF e
      <4>2. RunCapacity(e, others) \in Nat
        BY <4>1, RunCapacityIs
      <4> QED BY <4>2 DEF e
    <3> QED BY <3>1, <3>2
  <2>2. DOMAIN t = 1..(n + 1)
    BY DEF RunTable
  <2>3. t = [i \in 1..(n + 1) |-> t[i]]
    BY DEF RunTable
  <2> HIDE DEF t
  <2>4. t \in [1..(n + 1) -> Nat]
    BY <2>1, <2>3
  <2>5. t \in Seq(Nat) /\ Len(t) = n + 1
    BY <2>4
  <2> QED BY <2>5
<1>3. \A g \in G : g[1] <= n => g[1] < Len(t) /\ g[2] <= t[g[1] + 1]
  <2> SUFFICES ASSUME NEW g \in G PROVE g[1] < Len(t) /\ g[2] <= t[g[1] + 1]
    OBVIOUS
  <2>1. PICK k \in 3..n : g = <<k, k + RunCapacity(k, others), k - 1>>
    BY DEF FullRuns
  <2>2. t[k + 1] = k + RunCapacity(k, others)
    <3> DEFINE i == k + 1
    <3>1. i \in 1..(n + 1) /\ ~(i <= 3) /\ i - 1 = k
      OBVIOUS
    <3> HIDE DEF i
    <3>2. t[i] = i - 1 + RunCapacity(i - 1, others)
      BY <3>1 DEF RunTable
    <3>3. t[i] = k + RunCapacity(k, others)
      BY <3>1, <3>2
    <3> HIDE DEF t
    <3> QED BY <3>3 DEF i
  <2>3. RunCapacity(k, others) \in Nat
    <3> HIDE DEF t, G
    <3>1. k \in Nat
      OBVIOUS
    <3> QED BY <3>1, RunCapacityIs
  <2> HIDE DEF t
  <2>4. g[1] = k /\ g[2] = k + RunCapacity(k, others)
    BY <2>1
  <2> QED BY <1>2, <2>2, <2>3, <2>4
<1>4. StandaloneSalmon(n, "D", others) = PartitionUpper(n, t)
  BY DEF StandaloneSalmon, RunTable
<1> HIDE DEF t, G
<1>5. PartitionUpper(n, t) \in Nat /\ \A x \in GroupSums(n, G) : x[2] <= PartitionUpper(n, t)
  BY <1>1, <1>2, <1>3, PartitionBounds
<1> QED BY <1>1, <1>4, <1>5 DEF G

\* Card D: the runs and the tokens around them.
LEMMA SalmonByRuns ==
  ASSUME NEW b, NEW A, A = Positions(b, "salmon"), A \in SUBSET (Int \X Int), IsFiniteSet(A),
         NEW O, O = (DOMAIN b) \ A, IsFiniteSet(O),
         TokenCount = Cardinality(A) + Cardinality(O)
  PROVE  SalmonBounded(Cardinality(A), Cardinality(Within(A)), Cardinality(Touching(A, O)), ScoreSalmon(b, "D"), "D")
<1> DEFINE n == Cardinality(A) w == Cardinality(Within(A)) others == Cardinality(O)
           S == Runs(A) R == {K \in S : Cardinality(K) >= 3}
           f == [K \in S |-> ScoreRun(b, K, "D")] sc == [K \in R |-> f[K]]
           sizes == [K \in R |-> Cardinality(K)] near == [K \in R |-> Cardinality(Around(K) \cap O)]
           cap == [K \in R |-> RunCapacity(Cardinality(K), others)] zero == [K \in R |-> 0]
           full == [K \in R |-> Cardinality(K) + RunCapacity(Cardinality(K), others)]
           within == [U \in SUBSET A |-> Cardinality(Within(U))] edges == [U \in SUBSET A |-> Cardinality(Touching(U, O))]
           t == Cardinality(Touching(A, O)) G == RunGroups(n, others) H == FullRuns(n, others)
<1>1. n \in Nat /\ others \in Nat /\ w \in Nat /\ t \in Nat /\ others = TokenCount - n
  <2>1. n \in Nat /\ others \in Nat /\ w \in Nat /\ t \in Nat
    BY FS_CardinalityType, EdgeCounts
  <2> QED BY <2>1
<1>2. /\ Disjoint(S, A) /\ IsFiniteSet(S)
      /\ \A K \in S : /\ K \in SUBSET A /\ Cardinality(K) \in 1..n
                      /\ Cardinality(Within(K)) \in Nat /\ Cardinality(K) - 1 <= Cardinality(Within(K))
                      /\ IsFiniteSet(Around(K)) /\ Cardinality(Around(K)) <= 2 * Cardinality(K) + 4
  <2>1. /\ Disjoint(S, A) /\ IsFiniteSet(S)
    BY RunsAre
  <2>2. \A K \in S : /\ K \in SUBSET A /\ Cardinality(K) \in 1..n
                      /\ Cardinality(Within(K)) \in Nat /\ Cardinality(K) - 1 <= Cardinality(Within(K))
                      /\ IsFiniteSet(Around(K)) /\ Cardinality(Around(K)) <= 2 * Cardinality(K) + 4
    BY RunsAre
  <2> QED BY <2>1, <2>2
<1>3. \A K \in S : f[K] = IF Cardinality(K) < 3 THEN 0 ELSE Cardinality(K) + Cardinality(Around(K) \cap O)
  <2>1. \A K : (Around(K) \cap DOMAIN b) \ Positions(b, "salmon") = Around(K) \cap O
    OBVIOUS
  <2> QED BY <2>1 DEF ScoreRun
<1>4. ASSUME NEW K \in S
      PROVE  LET k == Cardinality(K) c == Cardinality(Around(K) \cap O)
             IN  /\ K \in SUBSET A /\ k \in 1..n /\ c \in Nat /\ c <= RunCapacity(k, others)
                 /\ RunCapacity(k, others) \in Nat /\ c <= edges[K]
  <2> DEFINE k == Cardinality(K) c == Cardinality(Around(K) \cap O)
  <2>1. K \in SUBSET A /\ k \in 1..n /\ IsFiniteSet(Around(K)) /\ Cardinality(Around(K)) <= 2 * k + 4
    BY <1>2
  <2>2. c \in Nat /\ c <= others
    <3>1. Around(K) \cap O \subseteq O
      OBVIOUS
    <3> QED BY <3>1, PartSize
  <2>3. c <= 2 * k + 4
    <3>1. Around(K) \cap O \subseteq Around(K)
      OBVIOUS
    <3>2. c <= Cardinality(Around(K)) /\ Cardinality(Around(K)) \in Nat
      BY <2>1, <3>1, PartSize
    <3> HIDE DEF c
    <3> QED BY <1>1, <2>1, <2>2, <3>2
  <2>4. RunCapacity(k, others) \in Nat /\ RunCapacity(k, others) \in {others, 2 * k + 4}
    <3>1. k \in Nat
      BY <1>1, <2>1
    <3> HIDE DEF k
    <3> QED BY <1>1, <3>1, RunCapacityIs
  <2>5. c <= edges[K]
    <3>1. IsFiniteSet(K)
      BY <2>1, FS_Subset
    <3>2. c <= Cardinality(Touching(K, O))
      BY <3>1, RunNeighbors
    <3> QED BY <2>1, <3>2
  <2> HIDE DEF k, c, edges
  <2> QED BY <2>1, <2>2, <2>3, <2>4, <2>5 DEF k, c
<1>27. \A K \in S : /\ Cardinality(K) \in Nat /\ Cardinality(Around(K) \cap O) \in Nat
                     /\ RunCapacity(Cardinality(K), others) \in Nat
  <2> SUFFICES ASSUME NEW K \in S
               PROVE  /\ Cardinality(K) \in Nat /\ Cardinality(Around(K) \cap O) \in Nat
                      /\ RunCapacity(Cardinality(K), others) \in Nat
    OBVIOUS
  <2>1. Cardinality(K) \in 1..n /\ Cardinality(Around(K) \cap O) \in Nat /\ RunCapacity(Cardinality(K), others) \in Nat
    <3> HIDE DEF n, S, others, edges
    <3> QED BY <1>4
  <2> HIDE DEF n, S, others
  <2> QED BY <1>1, <2>1
<1>5. R \in SUBSET S /\ \A K \in S \ R : f[K] = 0
  <2>1. R \in SUBSET S
    OBVIOUS
  <2>2. ASSUME NEW K \in S, K \notin R PROVE f[K] = 0
    <3>1. Cardinality(K) \in Nat
      BY <1>27
    <3>2. ~(Cardinality(K) >= 3)
      BY <2>2
    <3>3. Cardinality(K) < 3
      BY <3>1, <3>2
    <3> HIDE DEF f, S, R
    <3> QED BY <1>3, <3>3
  <2> HIDE DEF R, f
  <2> QED BY <2>1, <2>2
<1>6. f \in [S -> Nat]
  <2>1. \A K \in S : f[K] \in Nat
    <3> HIDE DEF f, S, R
    <3> SUFFICES ASSUME NEW K \in S PROVE f[K] \in Nat
      OBVIOUS
    <3>1. Cardinality(K) \in Nat /\ Cardinality(Around(K) \cap O) \in Nat
      BY <1>27
    <3>2. Cardinality(K) + Cardinality(Around(K) \cap O) \in Nat
      BY <3>1
    <3>3. f[K] = IF Cardinality(K) < 3 THEN 0 ELSE Cardinality(K) + Cardinality(Around(K) \cap O)
      BY <1>3
    <3> QED BY <3>2, <3>3
  <2>2. f = [K \in S |-> f[K]]
    OBVIOUS
  <2> HIDE DEF f, S
  <2> QED BY <2>1, <2>2
<1>7. ScoreSalmon(b, "D") = SumFunction(f)
  BY DEF ScoreSalmon
<1>8. SumFunction(f) = SumFunction(sc)
  <2> HIDE DEF R, f, S
  <2> QED BY <1>2, <1>5, <1>6, SumOfScored
<1>9. /\ sizes \in [R -> Nat] /\ near \in [R -> Nat] /\ cap \in [R -> Nat] /\ zero \in [R -> Nat]
      /\ full \in [R -> Nat] /\ sc \in [R -> Nat]
  <2>1. \A K \in R : /\ Cardinality(K) \in Nat /\ Cardinality(Around(K) \cap O) \in Nat
                     /\ RunCapacity(Cardinality(K), others) \in Nat /\ f[K] \in Nat
                     /\ Cardinality(K) + RunCapacity(Cardinality(K), others) \in Nat
    <3> HIDE DEF f, S, R, others
    <3>1. \A K \in S : f[K] \in Nat
      BY <1>6
    <3> QED BY <1>5, <1>27, <3>1
  <2> HIDE DEF R, f, others
  <2>2. 0 \in Nat
    OBVIOUS
  <2> QED BY <2>1, <2>2
<1>10. \A K \in R : /\ K \in SUBSET A /\ Cardinality(K) \in 3..n
                    /\ sc[K] = sizes[K] + near[K] /\ near[K] + zero[K] <= cap[K] /\ near[K] <= edges[K]
                    /\ sizes[K] + cap[K] = full[K]
  <2> SUFFICES ASSUME NEW K \in R
               PROVE  /\ K \in SUBSET A /\ Cardinality(K) \in 3..n
                      /\ sc[K] = sizes[K] + near[K] /\ near[K] + zero[K] <= cap[K] /\ near[K] <= edges[K]
                      /\ sizes[K] + cap[K] = full[K]
    OBVIOUS
  <2>1. K \in S /\ Cardinality(K) >= 3
    OBVIOUS
  <2>2. /\ K \in SUBSET A /\ Cardinality(K) \in 1..n
        /\ Cardinality(Around(K) \cap O) \in Nat /\ RunCapacity(Cardinality(K), others) \in Nat
        /\ Cardinality(Around(K) \cap O) <= RunCapacity(Cardinality(K), others)
        /\ Cardinality(Around(K) \cap O) <= edges[K]
    <3> HIDE DEF edges, n
    <3> QED BY <1>4, <2>1
  <2>3. sc[K] = Cardinality(K) + Cardinality(Around(K) \cap O)
    <3>1. sc[K] = f[K]
      OBVIOUS
    <3>2. ~(Cardinality(K) < 3)
      BY <1>1, <2>1, <2>2
    <3> HIDE DEF sc, f, R, S
    <3> QED BY <1>3, <2>1, <3>1, <3>2
  <2>4. /\ sizes[K] = Cardinality(K) /\ near[K] = Cardinality(Around(K) \cap O) /\ zero[K] = 0
        /\ cap[K] = RunCapacity(Cardinality(K), others) /\ full[K] = Cardinality(K) + RunCapacity(Cardinality(K), others)
    OBVIOUS
  <2> HIDE DEF sizes, near, zero, cap, full, edges, sc, f, R, S
  <2> QED BY <1>1, <2>1, <2>2, <2>3, <2>4
<1>11. Disjoint(R, A) /\ IsFiniteSet(R)
  <2>1. IsFiniteSet(R)
    BY <1>2, <1>5, FS_Subset
  <2> HIDE DEF S
  <2> QED BY <1>2, <2>1 DEF Disjoint
<1>12. Measures(within, A) /\ within[A] = w /\ Measures(edges, A) /\ edges[A] = t
       /\ \A K \in SUBSET A : within[K] = Cardinality(Within(K))
  BY WithinMeasures, TouchingMeasures
<1>13. \A K \in R : Cardinality(Within(K)) \in Nat /\ Cardinality(K) - 1 <= Cardinality(Within(K))
  <2> HIDE DEF S
  <2> QED BY <1>2
<1>14. SumFunction(sizes) = Cardinality(UNION R)
  <2> HIDE DEF R
  <2> QED BY <1>11, SizesSum
<1>15. \A K \in R : /\ cap[K] = RunCapacity(Cardinality(K), others)
                    /\ full[K] = Cardinality(K) + RunCapacity(Cardinality(K), others)
  OBVIOUS
<1>16. StandaloneSalmon(n, "D", others) = StandaloneSalmon(n, "D", TokenCount - n)
  BY <1>1
<1> HIDE DEF n, w, others, S, R, f, sc, sizes, near, cap, zero, full, within, edges, t, G, H
<1>17. /\ SumFunction(sc) \in Nat /\ SumFunction(sizes) \in Nat /\ SumFunction(near) \in Nat
       /\ SumFunction(cap) \in Nat /\ SumFunction(full) \in Nat
       /\ SumFunction(sc) = SumFunction(sizes) + SumFunction(near)
       /\ SumFunction(near) <= SumFunction(cap)
       /\ SumFunction(full) = SumFunction(sizes) + SumFunction(cap)
       /\ SumFunction(near) <= t
  <2>1. \A K \in R : sizes[K] + near[K] = sc[K] /\ sizes[K] + near[K] <= sc[K]
    BY <1>9, <1>10
  <2>2. /\ SumFunction(sizes) \in Nat /\ SumFunction(near) \in Nat /\ SumFunction(sc) \in Nat
        /\ SumFunction(sizes) + SumFunction(near) = SumFunction(sc)
    BY <1>9, <1>11, <2>1, SumsCompare
  <2>3. \A K \in R : near[K] + zero[K] <= cap[K]
    BY <1>10
  <2>4. SumFunction(zero) \in Nat /\ SumFunction(cap) \in Nat /\ SumFunction(near) + SumFunction(zero) <= SumFunction(cap)
    BY <1>9, <1>11, <2>3, SumsCompare
  <2>5. \A K \in R : sizes[K] + cap[K] = full[K] /\ sizes[K] + cap[K] <= full[K]
    BY <1>9, <1>10
  <2>6. SumFunction(full) \in Nat /\ SumFunction(sizes) + SumFunction(cap) = SumFunction(full)
    BY <1>9, <1>11, <2>5, SumsCompare
  <2>7. \A K \in R : near[K] <= edges[K]
    BY <1>10
  <2>8. SumFunction(near) <= edges[A]
    BY <1>9, <1>11, <1>12, <2>7, SumMeasured
  <2> QED BY <1>12, <2>2, <2>4, <2>6, <2>8
<1>18. IsTriples(G) /\ IsTriples(H) /\ StandaloneSalmon(n, "D", others) \in Nat
       /\ \A x \in GroupSums(n, H) : x[2] <= StandaloneSalmon(n, "D", others)
  BY <1>1, RunGroupsAre, RunsUpper DEF G, H
<1>19. Fitted(R, G, within, cap) /\ Fitted(R, H, within, full)
  <2>1. ASSUME NEW T \in R PROVE \E g \in G : g[1] = Cardinality(T) /\ g[2] = cap[T] /\ g[3] <= within[T]
    <3> DEFINE k == Cardinality(T) g == <<k, RunCapacity(k, others), k - 1>>
    <3>1. k \in 3..n /\ T \in SUBSET A
      BY <1>10
    <3>2. within[T] = Cardinality(Within(T)) /\ k - 1 <= within[T]
      BY <1>12, <1>13, <3>1
    <3>3. g[1] = k /\ g[2] = cap[T] /\ g[3] <= within[T]
      BY <1>15, <3>2
    <3>4. g \in G
      <4> HIDE DEF k
      <4> QED BY <3>1 DEF G, RunGroups
    <3> HIDE DEF g
    <3> QED BY <3>3, <3>4
  <2>2. ASSUME NEW T \in R PROVE \E g \in H : g[1] = Cardinality(T) /\ g[2] = full[T] /\ g[3] <= within[T]
    <3> DEFINE k == Cardinality(T) g == <<k, k + RunCapacity(k, others), k - 1>>
    <3>1. k \in 3..n /\ T \in SUBSET A
      BY <1>10
    <3>2. within[T] = Cardinality(Within(T)) /\ k - 1 <= within[T]
      BY <1>12, <1>13, <3>1
    <3>3. g[1] = k /\ g[2] = full[T] /\ g[3] <= within[T]
      BY <1>15, <3>2
    <3>4. g \in H
      <4> HIDE DEF k
      <4> QED BY <3>1 DEF H, FullRuns
    <3> HIDE DEF g
    <3> QED BY <3>3, <3>4
  <2> QED BY <2>1, <2>2 DEF Fitted
<1>20. PICK x \in GroupSums(n, G) : x[1] = Cardinality(UNION R) /\ x[2] = SumFunction(cap) /\ x[3] <= w
  <2>1. PacksTo(R, A, G, within, cap)
    BY <1>9, <1>11, <1>12, <1>18, <1>19, PackingSums
  <2> QED BY <1>12, <2>1 DEF PacksTo, n
<1>21. PICK y \in GroupSums(n, H) : y[2] = SumFunction(full)
  <2>1. PacksTo(R, A, H, within, full)
    BY <1>9, <1>11, <1>12, <1>18, <1>19, PackingSums
  <2> QED BY <1>12, <2>1 DEF PacksTo, n
<1> DEFINE v == ScoreSalmon(b, "D") bonus == SumFunction(near)
<1>22. v = x[1] + bonus /\ bonus \in 0..x[2] /\ v \in Nat
  BY <1>7, <1>8, <1>14, <1>17, <1>20
<1>23. v <= StandaloneSalmon(n, "D", others)
  <2>1. SumFunction(full) <= StandaloneSalmon(n, "D", others)
    BY <1>18, <1>21
  <2> HIDE DEF v
  <2>2. v = SumFunction(sc)
    BY <1>7, <1>8 DEF v
  <2> QED BY <1>17, <1>18, <2>1, <2>2
<1>24. bonus <= t
  BY <1>17
<1> HIDE DEF v, bonus
<1>25. ASSUME NEW cross \in Nat, cross >= t
       PROVE  /\ v \in SalmonScoreDomain(n, "D")
              /\ IsProfiles(SalmonProfiles(n, "D")) /\ ProfilesOffer(SalmonProfiles(n, "D"), v, w, cross)
  <2>1. bonus <= cross
    <3>1. bonus \in Nat
      BY <1>17 DEF bonus
    <3> QED BY <1>1, <1>24, <1>25, <3>1
  <2>2. x \in GroupSums(n, RunGroups(n, others))
    BY DEF G
  <2>3. /\ x[1] + bonus \in SalmonScoreDomain(n, "D")
        /\ IsProfiles(SalmonProfiles(n, "D")) /\ ProfilesOffer(SalmonProfiles(n, "D"), x[1] + bonus, w, cross)
    BY <1>1, <1>20, <1>22, <2>1, <2>2, RunsOffer
  <2> QED BY <1>22, <2>3
<1>26. SalmonBounded(n, w, t, v, "D")
  BY <1>16, <1>18, <1>22, <1>23, <1>25 DEF SalmonBounded, Bounded
<1> QED BY <1>26 DEF n, w, t, v

\* The salmon.
LEMMA SalmonAre ==
  ASSUME NEW b, NEW A, A = Positions(b, "salmon"), A \in SUBSET (Int \X Int), IsFiniteSet(A), Cardinality(A) <= 6,
         NEW O, O = (DOMAIN b) \ A, IsFiniteSet(O),
         TokenCount = Cardinality(A) + Cardinality(O), NEW card \in Cards
  PROVE  SalmonBounded(Cardinality(A), Cardinality(Within(A)), Cardinality(Touching(A, O)), ScoreSalmon(b, card), card)
<1>1. CASE card \in {"A", "B", "C"}
  BY <1>1, SalmonByTable
<1>2. CASE card = "D"
  BY <1>2, SalmonByRuns
<1> QED BY <1>1, <1>2 DEF Cards

-----------------------------------------------------------------------------
(* Hawks.                                                                   *)

\* A matching is a set of disjoint edges that have a score.
Matched(A, edges, v) ==
  \E R : \E f \in [R -> Nat] :
    /\ Disjoint(R, A) /\ SumFunction(f) = v
    /\ \A T \in R : f[T] > 0 /\ \E g \in edges : g[1] = T /\ g[2] = f[T]

\* MaximumWeightMatching is the worth of a matching.
LEMMA BestMatchingIs ==
  ASSUME NEW A, IsFiniteSet(A), NEW edges, IsFiniteSet(edges),
         \A g \in edges : g[1] \in (SUBSET A) \ {{}} /\ g[2] \in Nat
  PROVE  MaximumWeightMatching(A, edges) \in Nat /\ Matched(A, edges, MaximumWeightMatching(A, edges))
<1> DEFINE groups == edges \cup Alone(A) v == MaximumWeightMatching(A, edges)
<1>1. IsGroups(groups, A)
  BY EdgesAreGroups
<1>2. PICK P : IsPacking(P, A, groups) /\ Total(P, groups) = v
  <2>1. PICK D \in [SUBSET A -> Nat] : Decides(D, A, groups) /\ MaximizeDisjointGroups(A, groups) = D[A]
    <3> HIDE DEF groups
    <3> QED BY <1>1, GroupsDecided
  <2>2. IsBest(D[A], A, groups)
    <3> HIDE DEF groups
    <3>1. A \in SUBSET A
      OBVIOUS
    <3> QED BY <1>1, <2>1, <3>1, DecidedBest
  <2>3. v = D[A]
    BY <2>1 DEF MaximumWeightMatching, Alone
  <2> HIDE DEF groups, v
  <2> QED BY <2>2, <2>3 DEF IsBest
<1> DEFINE worth == [T \in P |-> Worth(T, groups)] R == {T \in P : worth[T] > 0} f == [T \in R |-> worth[T]]
<1>3. IsFiniteSet(P) /\ \A T \in P : Worth(T, groups) \in Nat
  <2> HIDE DEF groups
  <2>1. A \in SUBSET A
    OBVIOUS
  <2> QED BY <1>1, <1>2, <2>1, PackingFinite
<1>4. SumFunction(worth) = v /\ worth \in [P -> Nat]
  BY <1>2, <1>3 DEF Total
<1>5. SumFunction(f) = v /\ v \in Nat
  <2>1. R \in SUBSET P
    OBVIOUS
  <2>2. \A x \in P \ R : worth[x] = 0
    <3>1. \A x \in P : worth[x] \in Nat
      BY <1>4
    <3> HIDE DEF worth
    <3> QED BY <3>1
  <2> HIDE DEF worth, v, R
  <2> QED BY <1>3, <1>4, <2>1, <2>2, SumOfScored
<1>6. f \in [R -> Nat]
  <2> HIDE DEF worth
  <2> QED BY <1>4
<1>7. Disjoint(R, A)
  <2> HIDE DEF worth, groups
  <2> QED BY <1>2 DEF IsPacking, Disjoint
<1>8. \A T \in R : f[T] > 0 /\ \E g \in edges : g[1] = T /\ g[2] = f[T]
  <2> SUFFICES ASSUME NEW T \in R PROVE f[T] > 0 /\ \E g \in edges : g[1] = T /\ g[2] = f[T]
    OBVIOUS
  <2>1. T \in P /\ f[T] = Worth(T, groups) /\ f[T] > 0
    OBVIOUS
  <2>2. Scores(T, groups) # {}
    BY <1>2, <2>1 DEF IsPacking
  <2>3. PICK g \in groups : g[1] = T /\ g[2] = Worth(T, groups)
    <3> HIDE DEF groups
    <3> QED BY <1>1, <2>2, WorthIs
  <2>4. g \in edges
    <3>1. ASSUME g \in Alone(A) PROVE FALSE
      <4>1. g[2] = 0
        BY <3>1 DEF Alone
      <4> HIDE DEF f, groups, R
      <4> QED BY <2>1, <2>3, <4>1
    <3> QED BY <3>1
  <2> HIDE DEF f, groups, R
  <2> QED BY <2>1, <2>3, <2>4
<1> HIDE DEF R, f, v
<1>9. Matched(A, edges, v)
  BY <1>5, <1>6, <1>7, <1>8 DEF Matched
<1> QED BY <1>5, <1>9 DEF v

\* Pairs of tokens, each worth no more than some value.
LEMMA PairSums ==
  ASSUME NEW n \in 0..6, NEW groups, IsTriples(groups), NEW v \in Nat,
         \A g \in groups : g[1] = 2 /\ g[2] <= v
  PROVE  (n \div 2) * v \in Nat /\ \A x \in GroupSums(n, groups) : x[2] <= (n \div 2) * v
<1> DEFINE u == [i \in 0..6 |-> (i \div 2) * v]
<1>1. /\ 0 \div 2 = 0 /\ 1 \div 2 = 0 /\ 2 \div 2 = 1 /\ 3 \div 2 = 1 /\ 4 \div 2 = 2 /\ 5 \div 2 = 2 /\ 6 \div 2 = 3
  OBVIOUS
<1>2. /\ u[0] = 0 * v /\ u[1] = 0 * v /\ u[2] = 1 * v /\ u[3] = 1 * v /\ u[4] = 2 * v /\ u[5] = 2 * v /\ u[6] = 3 * v
  BY <1>1
<1>3. \A i \in 0..6 : u[i] \in Nat /\ u[i] = (i \div 2) * v
  <2> SUFFICES ASSUME NEW i \in 0..6 PROVE u[i] \in Nat /\ u[i] = (i \div 2) * v
    OBVIOUS
  <2>1. i = 0 \/ i = 1 \/ i = 2 \/ i = 3 \/ i = 4 \/ i = 5 \/ i = 6
    OBVIOUS
  <2>2. u[i] = (i \div 2) * v
    OBVIOUS
  <2> HIDE DEF u
  <2>3. u[i] \in Nat
    BY <1>2, <2>1
  <2> QED BY <2>2, <2>3
<1>4. u = [i \in 0..6 |-> u[i]]
  OBVIOUS
<1> HIDE DEF u
<1>5. u \in [0..6 -> Nat]
  BY <1>3, <1>4
<1>6. Superadditive(u)
  <2>1. ASSUME NEW i \in 0..6, NEW j \in 0..6, i + j <= 6 PROVE u[i] + u[j] <= u[i + j]
    <3>1. i = 0 \/ i = 1 \/ i = 2 \/ i = 3 \/ i = 4 \/ i = 5 \/ i = 6
      OBVIOUS
    <3>2. j = 0 \/ j = 1 \/ j = 2 \/ j = 3 \/ j = 4 \/ j = 5 \/ j = 6
      OBVIOUS
    <3> QED BY <1>2, <2>1, <3>1, <3>2
  <2> QED BY <1>5, <2>1 DEF Superadditive
<1>7. \A g \in groups : g[1] <= 6 => g[2] <= u[g[1]]
  BY <1>2
<1>8. \A x \in GroupSums(n, groups) : x[2] <= u[n]
  BY <1>6, <1>7, SumsBelow
<1> QED BY <1>3, <1>8

\* A board with so many tokens of each species.
HasCounts(b, n) ==
  /\ DOMAIN b \subseteq Cells /\ \A c \in DOMAIN b : b[c] \in Species
  /\ n \in [Species -> 0..6] /\ \A s \in Species : n[s] = Cardinality(Positions(b, s))
  /\ \A s \in Species : n[s] <= CountCap

\* What this says of the tokens of one species.
LEMMA CountedAre ==
  ASSUME NEW b, NEW n, HasCounts(b, n), NEW s \in Species
  PROVE  LET A == Positions(b, s)
         IN  /\ A \in SUBSET Cells /\ A \in SUBSET (Int \X Int) /\ IsFiniteSet(A) /\ Cardinality(A) = n[s]
             /\ n[s] \in 0..6 /\ A \subseteq DOMAIN b /\ IsFiniteSet(DOMAIN b)
             /\ \A t \in Species : t # s => A \cap Positions(b, t) = {}
<1>1. IsFiniteSet(DOMAIN b) /\ DOMAIN b \subseteq Int \X Int
  BY ScoringAssumption, FS_Subset DEF HasCounts
<1>2. Positions(b, s) \subseteq DOMAIN b
  BY DEF Positions
<1>3. IsFiniteSet(Positions(b, s))
  BY <1>1, <1>2, FS_Subset
<1>4. n[s] \in 0..6 /\ Cardinality(Positions(b, s)) = n[s] /\ DOMAIN b \subseteq Cells
  BY DEF HasCounts
<1>5. \A t \in Species : t # s => Positions(b, s) \cap Positions(b, t) = {}
  BY DEF Positions
<1> QED BY <1>1, <1>2, <1>3, <1>4, <1>5

\* Present counts species, at most five.
LEMMA PresentIs ==
  ASSUME NEW n, NEW S \in SUBSET Species, NEW least
  PROVE  IsFiniteSet({s \in S : n[s] >= least}) /\ Present(n, S, least) \in 0..5
<1>1. IsFiniteSet(Species) /\ Cardinality(Species) <= 5
  <2>1. Species = {"bear", "elk", "salmon"} \cup {"hawk", "fox", "fox"}
    BY DEF Species
  <2>2. IsFiniteSet({"hawk", "fox", "fox"}) /\ Cardinality({"hawk", "fox", "fox"}) <= 2
    <3>1. {"hawk", "fox", "fox"} = {"hawk"} \cup {"fox"}
      OBVIOUS
    <3>2. IsFiniteSet({"hawk"}) /\ IsFiniteSet({"fox"}) /\ Cardinality({"hawk"}) = 1 /\ Cardinality({"fox"}) = 1
      BY FS_Singleton
    <3>3. /\ IsFiniteSet({"hawk"} \cup {"fox"}) /\ Cardinality({"hawk"} \cup {"fox"}) \in Nat
          /\ Cardinality({"hawk"} \cup {"fox"}) <= Cardinality({"hawk"}) + Cardinality({"fox"})
      BY <3>2, TwoPartsSize
    <3> QED BY <3>1, <3>2, <3>3
  <2>3. IsFiniteSet({"bear", "elk", "salmon"}) /\ Cardinality({"bear", "elk", "salmon"}) <= 3
    BY FewSize
  <2>4. /\ IsFiniteSet(Species) /\ Cardinality(Species) \in Nat
        /\ Cardinality({"bear", "elk", "salmon"}) \in Nat /\ Cardinality({"hawk", "fox", "fox"}) \in Nat
        /\ Cardinality(Species) <= Cardinality({"bear", "elk", "salmon"}) + Cardinality({"hawk", "fox", "fox"})
    BY <2>1, <2>2, <2>3, TwoPartsSize
  <2> QED BY <2>2, <2>3, <2>4
<1>2. {s \in S : n[s] >= least} \subseteq Species
  OBVIOUS
<1>3. /\ IsFiniteSet({s \in S : n[s] >= least}) /\ Cardinality({s \in S : n[s] >= least}) \in Nat
      /\ Cardinality({s \in S : n[s] >= least}) <= Cardinality(Species) /\ Cardinality(Species) \in Nat
  BY <1>1, <1>2, PartSize
<1> QED BY <1>1, <1>3 DEF Present

\* The bounds of HawkScoreDomain and HawkUpper for a score.
HawksBounded(n, worth, card) ==
  /\ worth \in HawkScoreDomain(n, card) /\ worth \in Nat
  /\ HawkUpper(n, card) \in Nat /\ worth <= HawkUpper(n, card)

\* Cards A and B: hawks by a table.
LEMMA HawksByTable ==
  ASSUME NEW n, NEW m, m = n["hawk"], m \in 0..6, NEW k \in 0..m, NEW card \in {"A", "B"}
  PROVE  HawksBounded(n, Entry(HawkTable(card), k), card)
<1> DEFINE a == <<0, 2, 5, 8, 11, 14, 18, 22, 26>> b == <<0, 0, 5, 9, 12, 16, 20, 24, 28>>
<1>1. k \in 0..6
  OBVIOUS
<1>2. CASE card = "A"
  <2>1. HawkTable(card) = a
    BY <1>2 DEF HawkTable
  <2>2. Entry(a, k) = a[k + 1]
    BY <1>1 DEF Entry
  <2>3. /\ a[1] = 0 /\ a[2] = 2 /\ a[3] = 5 /\ a[4] = 8 /\ a[5] = 11 /\ a[6] = 14 /\ a[7] = 18
    OBVIOUS
  <2> HIDE DEF a
  <2>4. k = 0 \/ k = 1 \/ k = 2 \/ k = 3 \/ k = 4 \/ k = 5 \/ k = 6
    BY <1>1
  <2>5. m = 0 \/ m = 1 \/ m = 2 \/ m = 3 \/ m = 4 \/ m = 5 \/ m = 6
    OBVIOUS
  <2>6. a[k + 1] \in Nat /\ a[m + 1] \in Nat
    BY <2>3, <2>4, <2>5
  <2>7. a[k + 1] <= a[m + 1]
    BY <2>3, <2>4, <2>5
  <2>8. HawkUpper(n, card) = a[m + 1] /\ HawkScoreDomain(n, card) = {a[i + 1] : i \in 0..m}
    BY <1>2, <2>1 DEF HawkUpper, HawkScoreDomain
  <2> QED BY <2>1, <2>2, <2>6, <2>7, <2>8 DEF HawksBounded
<1>3. CASE card = "B"
  <2>1. HawkTable(card) = b
    BY <1>3 DEF HawkTable
  <2>2. Entry(b, k) = b[k + 1]
    BY <1>1 DEF Entry
  <2>3. /\ b[1] = 0 /\ b[2] = 0 /\ b[3] = 5 /\ b[4] = 9 /\ b[5] = 12 /\ b[6] = 16 /\ b[7] = 20
    OBVIOUS
  <2> HIDE DEF b
  <2>4. k = 0 \/ k = 1 \/ k = 2 \/ k = 3 \/ k = 4 \/ k = 5 \/ k = 6
    BY <1>1
  <2>5. m = 0 \/ m = 1 \/ m = 2 \/ m = 3 \/ m = 4 \/ m = 5 \/ m = 6
    OBVIOUS
  <2>6. b[k + 1] \in Nat /\ b[m + 1] \in Nat
    BY <2>3, <2>4, <2>5
  <2>7. b[k + 1] <= b[m + 1]
    BY <2>3, <2>4, <2>5
  <2>8. HawkUpper(n, card) = b[m + 1] /\ HawkScoreDomain(n, card) = {b[i + 1] : i \in 0..m}
    BY <1>3, <2>1 DEF HawkUpper, HawkScoreDomain
  <2> QED BY <2>1, <2>2, <2>6, <2>7, <2>8 DEF HawksBounded
<1> QED BY <1>2, <1>3

\* A line of sight has two ends and no hawk between them.
LEMMA SightEnds ==
  ASSUME NEW hawks \in SUBSET (Int \X Int), NEW l \in LinesOfSight(hawks)
  PROVE  /\ IsFiniteSet(l.ends) /\ Cardinality(l.ends) = 2
         /\ l.between \cap hawks = {}
<1>1. PICK h \in hawks, d \in Directions, m \in 2..Width :
        /\ l = SightLine(h, d, m) /\ \A i \in 1..(m - 1) : Step(h, d, i) \notin hawks
  BY DEF LinesOfSight
<1>2. l.ends = {h, Step(h, d, m)} /\ l.between = Line(Step(h, d, 1), d, m - 1)
  BY <1>1 DEF SightLine
<1>3. h \in Int \X Int /\ m \in Int /\ m > 1
  <2>1. m \in Int /\ m > 1
    BY ScoringAssumption
  <2> QED BY <2>1
<1>4. Step(h, d, m) # h
  <2>1. PICK i \in Int, j \in Int : h = <<i, j>>
    BY <1>3
  <2>2. Step(h, d, m) = <<i + m * d[1], j + m * d[2]>>
    BY <2>1 DEF Step
  <2>3. d[1] = 1 \/ d[1] = -1 \/ (d[1] = 0 /\ (d[2] = 1 \/ d[2] = -1))
    BY DEF Directions
  <2>4. CASE d[1] = 1
    BY <1>3, <2>1, <2>2, <2>4
  <2>5. CASE d[1] = -1
    BY <1>3, <2>1, <2>2, <2>5
  <2>6. CASE d[1] = 0 /\ d[2] = 1
    BY <1>3, <2>1, <2>2, <2>6
  <2>7. CASE d[1] = 0 /\ d[2] = -1
    BY <1>3, <2>1, <2>2, <2>7
  <2> QED BY <2>3, <2>4, <2>5, <2>6, <2>7
<1>5. IsFiniteSet(l.ends) /\ Cardinality(l.ends) = 2
  <2>1. IsFiniteSet({h}) /\ IsFiniteSet({Step(h, d, m)}) /\ Cardinality({h}) = 1 /\ Cardinality({Step(h, d, m)}) = 1
    BY FS_Singleton
  <2>2. l.ends = {h} \cup {Step(h, d, m)}
    BY <1>2
  <2>3. {h} \cap {Step(h, d, m)} = {}
    BY <1>4
  <2>4. IsFiniteSet(l.ends) /\ Cardinality(l.ends) = Cardinality({h}) + Cardinality({Step(h, d, m)})
    BY <2>1, <2>2, <2>3, TwoPartsSize
  <2> QED BY <2>1, <2>4
<1>6. l.between \cap hawks = {}
  <2> SUFFICES ASSUME NEW c \in l.between PROVE c \notin hawks
    OBVIOUS
  <2>1. PICK i \in 0..((m - 1) - 1) : c = Step(Step(h, d, 1), d, i)
    BY <1>2 DEF Line
  <2>2. i \in Int /\ i + 1 \in 1..(m - 1)
    BY <1>3
  <2>3. c = Step(h, d, i + 1)
    BY <1>3, <2>1, <2>2, StepStep
  <2> QED BY <1>1, <2>2, <2>3
<1> QED BY <1>5, <1>6

\* Between two hawks there are no more species than the board has.
LEMMA TypesPresent ==
  ASSUME NEW b, NEW n, HasCounts(b, n), NEW C, C \cap Positions(b, "hawk") = {}
  PROVE  /\ Cardinality(Types(b, C)) \in Nat
         /\ Cardinality(Types(b, C)) <= Present(n, Species \ {"hawk"}, 1)
<1> DEFINE T == {s \in Species \ {"hawk"} : n[s] >= 1}
<1>1. IsFiniteSet(T) /\ Present(n, Species \ {"hawk"}, 1) = Cardinality(T)
  BY PresentIs DEF Present
<1>2. Types(b, C) \subseteq T
  <2> SUFFICES ASSUME NEW c \in C \cap DOMAIN b PROVE b[c] \in T
    BY DEF Types
  <2>1. b[c] \in Species /\ b[c] # "hawk"
    BY DEF HasCounts, Positions
  <2>2. c \in Positions(b, b[c])
    BY DEF Positions
  <2>3. IsFiniteSet(Positions(b, b[c])) /\ Cardinality(Positions(b, b[c])) = n[b[c]] /\ n[b[c]] \in 0..6
    BY <2>1, CountedAre
  <2>4. n[b[c]] # 0
    BY <2>2, <2>3, FS_EmptySet
  <2> QED BY <2>1, <2>3, <2>4
<1> HIDE DEF T
<1> QED BY <1>1, <1>2, PartSize

\* Card D: what a pair of hawks scores by the species between them.
HawkPairs(present) == {<<2, <<4, 7, 9>>[i], 0>> : i \in 1..Least(3, present)}

\* These pairs are triples below the largest entry.
LEMMA HawkPairsAre ==
  ASSUME NEW present \in 0..5
  PROVE  /\ IsTriples(HawkPairs(present)) /\ Entry(<<0, 4, 7, 9>>, present) \in Nat
         /\ \A g \in HawkPairs(present) : g[1] = 2 /\ g[2] <= Entry(<<0, 4, 7, 9>>, present)
         /\ \A c \in 0..present : /\ Entry(<<0, 4, 7, 9>>, c) \in Nat
                                  /\ Entry(<<0, 4, 7, 9>>, c) > 0 => <<2, Entry(<<0, 4, 7, 9>>, c), 0>> \in HawkPairs(present)
<1> DEFINE e(c) == Entry(<<0, 4, 7, 9>>, c) G == HawkPairs(present) m == Least(3, present)
<1>1. e(0) = 0 /\ e(1) = 4 /\ e(2) = 7 /\ e(3) = 9 /\ e(4) = 9 /\ e(5) = 9
  BY DEF Entry
<1>2. m = IF 3 < present THEN 3 ELSE present
  BY DEF Least
<1> HIDE DEF e, m
<1>3. ASSUME NEW i \in 1..m PROVE <<4, 7, 9>>[i] = e(i) /\ i \in 1..3 /\ i <= present /\ e(i) \in Nat /\ e(i) <= e(present)
  <2>1. i = 1 \/ i = 2 \/ i = 3
    BY <1>2
  <2>2. i \in 1..3 /\ i <= present
    BY <1>2
  <2>3. <<4, 7, 9>>[i] = e(i) /\ e(i) \in Nat
    BY <1>1, <2>1
  <2>4. present = 1 \/ present = 2 \/ present = 3 \/ present = 4 \/ present = 5
    BY <2>2
  <2>5. e(i) <= e(present)
    BY <1>1, <2>1, <2>2, <2>4
  <2> QED BY <2>2, <2>3, <2>5
<1>4. \A g \in G : g \in Triples /\ g[1] = 2 /\ g[2] <= e(present)
  <2> SUFFICES ASSUME NEW g \in G PROVE g \in Triples /\ g[1] = 2 /\ g[2] <= e(present)
    OBVIOUS
  <2>1. PICK i \in 1..m : g = <<2, <<4, 7, 9>>[i], 0>>
    BY DEF HawkPairs, m
  <2>2. g = <<2, e(i), 0>> /\ e(i) \in Nat /\ e(i) <= e(present)
    BY <1>3, <2>1
  <2> QED BY <2>2 DEF Triples
<1>5. IsFiniteSet(G)
  <2> DEFINE f == [i \in 1..m |-> <<2, <<4, 7, 9>>[i], 0>>]
  <2>1. G = {f[i] : i \in 1..m}
    BY DEF HawkPairs, m
  <2>2. IsFiniteSet(1..m)
    <3>1. m \in Int
      BY <1>2
    <3> QED BY <3>1, FS_Interval
  <2> HIDE DEF f, G
  <2> QED BY <2>1, <2>2, FiniteImage
<1>6. ASSUME NEW c \in 0..present PROVE e(c) \in Nat /\ (e(c) > 0 => <<2, e(c), 0>> \in G)
  <2>1. c = 0 \/ c = 1 \/ c = 2 \/ c = 3 \/ c = 4 \/ c = 5
    OBVIOUS
  <2>2. e(c) \in Nat
    BY <1>1, <2>1
  <2>3. ASSUME e(c) > 0 PROVE <<2, e(c), 0>> \in G
    <3>1. c # 0
      BY <1>1, <2>3
    <3> DEFINE i == IF c > 3 THEN 3 ELSE c
    <3>2. i \in 1..m /\ e(i) = e(c)
      <4>1. i \in 1..m
        BY <1>2, <3>1
      <4>2. i = 1 \/ i = 2 \/ i = 3
        BY <3>1
      <4>3. (c > 3 => i = 3) /\ (~(c > 3) => i = c)
        OBVIOUS
      <4> HIDE DEF i
      <4> QED BY <1>1, <2>1, <3>1, <4>1, <4>2, <4>3
    <3> HIDE DEF i
    <3>3. <<4, 7, 9>>[i] = e(c)
      BY <1>3, <3>2
    <3> QED BY <3>2, <3>3 DEF HawkPairs, m
  <2> QED BY <2>2, <2>3
<1>7. e(present) \in Nat
  <2>1. present \in 0..present
    OBVIOUS
  <2> QED BY <1>6, <2>1
<1> HIDE DEF G
<1>8. IsTriples(G)
  BY <1>4, <1>5 DEF IsTriples
<1> QED BY <1>4, <1>6, <1>7, <1>8 DEF e, G

\* Card D: pairs of hawks and what is between them.
LEMMA HawksByPairs ==
  ASSUME NEW b, NEW n, HasCounts(b, n)
  PROVE  HawksBounded(n, ScoreHawks(b, "D"), "D")
<1> DEFINE A == Positions(b, "hawk") m == n["hawk"] E == HawkEdges(b, A) v == MaximumWeightMatching(A, E)
           present == Present(n, Species \ {"hawk"}, 1) G == HawkPairs(present) top == Entry(<<0, 4, 7, 9>>, present)
           size == [S \in SUBSET A |-> Cardinality(S)]
<1>1. A \in SUBSET Cells /\ A \in SUBSET (Int \X Int) /\ IsFiniteSet(A) /\ Cardinality(A) = m /\ m \in 0..6 /\ IsFiniteSet(DOMAIN b)
  <2>1. "hawk" \in Species
    BY DEF Species
  <2> QED BY <2>1, CountedAre
<1>2. IsFiniteSet(E) /\ \A g \in E : g[1] \in (SUBSET A) \ {{}} /\ g[2] \in Nat
  BY <1>1, HawkEdgesAre
<1>3. v \in Nat /\ Matched(A, E, v)
  <2> HIDE DEF A, E
  <2> QED BY <1>1, <1>2, BestMatchingIs
<1>4. PICK R, f : /\ f \in [R -> Nat] /\ Disjoint(R, A) /\ SumFunction(f) = v
                  /\ \A T \in R : f[T] > 0 /\ \E g \in E : g[1] = T /\ g[2] = f[T]
  <2> HIDE DEF A, E, v
  <2> QED BY <1>3 DEF Matched
<1>5. present \in 0..5
  BY PresentIs
<1>6. /\ IsTriples(G) /\ top \in Nat /\ \A g \in G : g[1] = 2 /\ g[2] <= top
      /\ \A c \in 0..present : Entry(<<0, 4, 7, 9>>, c) > 0 => <<2, Entry(<<0, 4, 7, 9>>, c), 0>> \in G
  <2> HIDE DEF present
  <2> QED BY <1>5, HawkPairsAre
<1>7. ASSUME NEW T \in R PROVE T \in SUBSET A /\ Cardinality(T) = 2 /\ <<2, f[T], 0>> \in G
  <2>1. PICK g \in E : g[1] = T /\ g[2] = f[T] /\ f[T] > 0
    BY <1>4
  <2>2. PICK l \in LinesOfSight(A) : g = <<l.ends, Entry(<<0, 4, 7, 9>>, Cardinality(Types(b, l.between)))>>
    BY DEF HawkEdges
  <2>3. Cardinality(l.ends) = 2 /\ l.between \cap A = {}
    BY <1>1, SightEnds
  <2>4. Cardinality(Types(b, l.between)) \in Nat /\ Cardinality(Types(b, l.between)) <= present
    BY <2>3, TypesPresent
  <2> DEFINE c == Cardinality(Types(b, l.between))
  <2>5. T = l.ends /\ f[T] = Entry(<<0, 4, 7, 9>>, c)
    BY <2>1, <2>2
  <2>6. T \in SUBSET A
    BY <1>2, <2>1
  <2> HIDE DEF c, present, G
  <2>7. c \in 0..present
    BY <1>5, <2>4 DEF c
  <2> QED BY <1>6, <2>1, <2>3, <2>5, <2>6, <2>7
<1>8. Measures(size, A)
  BY <1>1, SizeMeasures
<1>9. \A T \in SUBSET A : size[T] = Cardinality(T)
  OBVIOUS
<1>10. HawkUpper(n, "D") = (m \div 2) * top /\ HawkScoreDomain(n, "D") = Sums(m, G)
  BY DEF HawkUpper, HawkScoreDomain, HawkPairs
<1>11. ScoreHawks(b, "D") = v
  BY DEF ScoreHawks
<1> HIDE DEF A, E, v, present, G, top, size
<1>12. Fitted(R, G, size, f)
  <2>1. ASSUME NEW T \in R PROVE \E g \in G : g[1] = Cardinality(T) /\ g[2] = f[T] /\ g[3] <= size[T]
    <3> DEFINE g == <<2, f[T], 0>>
    <3>1. g \in G /\ Cardinality(T) = 2 /\ size[T] = 2
      BY <1>7, <1>9
    <3>2. g[1] = 2 /\ g[2] = f[T] /\ g[3] = 0
      OBVIOUS
    <3> HIDE DEF g
    <3> QED BY <3>1, <3>2
  <2> QED BY <2>1 DEF Fitted
<1>13. PICK x \in GroupSums(m, G) : x[2] = v
  <2>1. PacksTo(R, A, G, size, f)
    BY <1>1, <1>4, <1>6, <1>8, <1>12, PackingSums
  <2> QED BY <1>1, <1>4, <2>1 DEF PacksTo
<1> HIDE DEF m
<1>14. (m \div 2) * top \in Nat /\ v <= (m \div 2) * top
  <2>1. (m \div 2) * top \in Nat /\ \A y \in GroupSums(m, G) : y[2] <= (m \div 2) * top
    BY <1>1, <1>6, PairSums
  <2> QED BY <1>13, <2>1
<1>15. v \in Sums(m, G)
  BY <1>13 DEF Sums
<1> QED BY <1>3, <1>10, <1>11, <1>14, <1>15 DEF HawksBounded

\* The hawks.
LEMMA HawksAre ==
  ASSUME NEW b, NEW n, HasCounts(b, n), NEW card \in Cards
  PROVE  HawksBounded(n, ScoreHawks(b, card), card)
<1> DEFINE A == Positions(b, "hawk") m == n["hawk"]
<1>1. A \in SUBSET (Int \X Int) /\ IsFiniteSet(A) /\ Cardinality(A) = m /\ m \in 0..6
  <2>1. "hawk" \in Species
    BY DEF Species
  <2> QED BY <2>1, CountedAre
<1>2. CASE card = "A"
  <2> DEFINE k == Cardinality(Isolated(A))
  <2>1. Isolated(A) \subseteq A
    BY DEF Isolated
  <2>2. k \in 0..m
    <3>1. k \in Nat /\ k <= Cardinality(A)
      BY <1>1, <2>1, PartSize
    <3> QED BY <1>1, <3>1
  <2>3. ScoreHawks(b, card) = Entry(HawkTable(card), k)
    BY <1>2 DEF ScoreHawks
  <2> HIDE DEF k
  <2>4. card \in {"A", "B"}
    BY <1>2
  <2> QED BY <1>1, <2>2, <2>3, <2>4, HawksByTable
<1>3. CASE card = "B"
  <2> DEFINE S == {h \in Isolated(A) : \E l \in LinesOfSight(A) : h \in l.ends} k == Cardinality(S)
  <2>1. S \subseteq A
    BY DEF Isolated
  <2>2. ScoreHawks(b, card) = Entry(HawkTable(card), k)
    BY <1>3 DEF ScoreHawks
  <2> HIDE DEF S
  <2>3. k \in 0..m
    <3>1. k \in Nat /\ k <= Cardinality(A)
      BY <1>1, <2>1, PartSize
    <3> QED BY <1>1, <3>1
  <2> HIDE DEF k
  <2>4. card \in {"A", "B"}
    BY <1>3
  <2> QED BY <1>1, <2>2, <2>3, <2>4, HawksByTable
<1>4. CASE card = "C"
  <2> DEFINE k == Cardinality(LinesOfSight(A)) q == SeenPairs[m + 1]
  <2>1. k \in Nat /\ k <= q
    <3>1. Cardinality(A) <= 6
      BY <1>1
    <3>2. k \in Nat /\ k <= SeenPairs[Cardinality(A) + 1]
      BY <1>1, <3>1, FewLines
    <3> QED BY <1>1, <3>2
  <2>2. q \in Nat
    <3>1. Cardinality(A) <= 6
      BY <1>1
    <3>2. SeenPairs[Cardinality(A) + 1] \in Nat
      BY <1>1, <3>1, FewEnds
    <3> QED BY <1>1, <3>2
  <2>3. ScoreHawks(b, card) = 3 * k /\ HawkUpper(n, card) = 3 * q /\ HawkScoreDomain(n, card) = {3 * i : i \in 0..q}
    BY <1>4 DEF ScoreHawks, HawkUpper, HawkScoreDomain
  <2> HIDE DEF k, q
  <2>4. k \in 0..q /\ 3 * k \in Nat /\ 3 * q \in Nat /\ 3 * k <= 3 * q
    BY <2>1, <2>2
  <2> QED BY <2>3, <2>4 DEF HawksBounded
<1>5. CASE card = "D"
  BY <1>5, HawksByPairs
<1> QED BY <1>2, <1>3, <1>4, <1>5 DEF Cards

\* The four species other than the fox.
LEMMA OthersFinite == IsFiniteSet(Others) /\ Others \subseteq Species /\ "fox" \notin Others
<1>1. IsFiniteSet({"bear", "elk", "salmon"}) /\ IsFiniteSet({"hawk"})
  BY FewSize, FS_Singleton
<1>2. Others = {"bear", "elk", "salmon"} \cup {"hawk"}
  BY DEF Others, Species
<1>3. IsFiniteSet(Others)
  BY <1>1, <1>2, FS_Union
<1> QED BY <1>2, <1>3 DEF Species

-----------------------------------------------------------------------------
(* Foxes: what two of them share, and cards C and D.                        *)

\* Of each doubled species there are two tokens.
LEMMA DoubledCells ==
  ASSUME NEW b, IsFiniteSet(DOMAIN b), NEW C
  PROVE  LET X == C \cap (DOMAIN b \ Positions(b, "fox"))
         IN  /\ IsFiniteSet(X) /\ Cardinality(X) \in Nat
             /\ Doubled(b, C) \in Nat /\ 2 * Doubled(b, C) <= Cardinality(X)
<1> DEFINE X == C \cap (DOMAIN b \ Positions(b, "fox")) of == [s \in Others |-> C \cap Positions(b, s)]
           V == {c \in X : \E s \in Others : c \in of[s]}
           D == {s \in Others : Count(b, C, s) >= 2} one == [s \in Others |-> IF s \in D THEN 1 ELSE 0]
           h == [s \in Others |-> Cardinality(of[s])]
<1>1. IsFiniteSet(X) /\ Cardinality(X) \in Nat
  <2>1. X \subseteq DOMAIN b
    OBVIOUS
  <2> QED BY <2>1, FS_Subset, FS_CardinalityType
<1>2. \A s \in Others : of[s] \subseteq X
  <2> SUFFICES ASSUME NEW s \in Others PROVE C \cap Positions(b, s) \subseteq X
    OBVIOUS
  <2>1. s # "fox"
    BY OthersFinite
  <2> QED BY <2>1 DEF Positions
<1>3. \A s \in Others : IsFiniteSet(of[s]) /\ h[s] = Cardinality(of[s]) /\ h[s] \in Nat /\ of[s] = C \cap Positions(b, s)
  <2> SUFFICES ASSUME NEW s \in Others
               PROVE IsFiniteSet(of[s]) /\ h[s] = Cardinality(of[s]) /\ h[s] \in Nat /\ of[s] = C \cap Positions(b, s)
    OBVIOUS
  <2>1. IsFiniteSet(of[s])
    <3> HIDE DEF of, X
    <3> QED BY <1>1, <1>2, FS_Subset
  <2>2. h[s] = Cardinality(of[s]) /\ of[s] = C \cap Positions(b, s)
    OBVIOUS
  <2> HIDE DEF h, of
  <2>3. Cardinality(of[s]) \in Nat
    BY <2>1, FS_CardinalityType
  <2> QED BY <2>1, <2>2, <2>3
<1>4. \A s, t \in Others : s # t => of[s] \cap of[t] = {}
  BY DEF Positions
<1>5. \A c : c \in V <=> \E s \in Others : c \in of[s]
  <2> HIDE DEF of, X
  <2> QED BY <1>2
<1>6. one \in [Others -> Nat] /\ SumFunction(one) = Cardinality(D) /\ Cardinality(D) \in Nat
  <2>1. D \in SUBSET Others
    OBVIOUS
  <2> HIDE DEF D
  <2> QED BY <2>1, IndicatorSum, OthersFinite
<1>7. \A s \in Others : one[s] + one[s] <= h[s]
  <2> SUFFICES ASSUME NEW s \in Others PROVE one[s] + one[s] <= h[s]
    OBVIOUS
  <2>1. h[s] = Count(b, C, s)
    BY <1>3 DEF Count
  <2>2. one[s] = IF h[s] >= 2 THEN 1 ELSE 0
    BY <2>1
  <2>3. h[s] \in Nat
    BY <1>3
  <2> HIDE DEF h, one
  <2> QED BY <2>2, <2>3
<1>8. Doubled(b, C) = Cardinality(D)
  BY DEF Doubled
<1>9. Cardinality(V) <= Cardinality(X) /\ Cardinality(V) \in Nat
  <2>1. V \subseteq X
    OBVIOUS
  <2> HIDE DEF V, X
  <2> QED BY <1>1, <2>1, PartSize
<1>10. h = [s \in Others |-> Cardinality(of[s])] /\ h \in [Others -> Nat]
  <2>1. h = [s \in Others |-> Cardinality(of[s])]
    OBVIOUS
  <2> HIDE DEF of
  <2> QED BY <1>3, <2>1
<1> HIDE DEF V, X, D, one, of, h
<1>11. Cardinality(V) = SumFunction(h)
  <2>1. \A s \in Others : IsFiniteSet(of[s])
    BY <1>3
  <2>2. IsFiniteSet(V) /\ Cardinality(V) = SumFunction([s \in Others |-> Cardinality(of[s])])
    BY <1>4, <1>5, <2>1, OthersFinite, SizesAddUp
  <2> QED BY <1>10, <2>2
<1>12. SumFunction(one) + SumFunction(one) <= SumFunction(h) /\ SumFunction(h) \in Nat
  BY <1>6, <1>7, <1>10, OthersFinite, SumsCompare
<1>13. 2 * Doubled(b, C) <= Cardinality(X) /\ Doubled(b, C) \in Nat
  BY <1>1, <1>6, <1>8, <1>9, <1>11, <1>12
<1> QED BY <1>1, <1>13 DEF X

\* The standalone bound of the foxes that the count bound uses, by card.
FoxCount(n, card) ==
  CASE card = "A" -> FoxAUpper(n)
    [] card = "B" -> FoxBUpper(n, FoxBQualifications)
    [] card = "C" -> FoxCUpper(n, BipartiteHexEdgeUpper)
    [] card = "D" -> FoxDUpper(n)

\* The one that the candidate bound uses.
FoxCandidate(n, card) ==
  CASE card = "A" -> FoxAUpper(n)
    [] card = "B" -> FoxBUpper(n, FoxBCommonNeighbors)
    [] card = "C" -> FoxCUpper(n, BipartitePlanarUpper)
    [] card = "D" -> FoxDUpper(n)

\* The bounds of FoxScoreDomain, both standalone bounds and FoxProfiles for a score.
FoxesBounded(n, w, t, worth, card) ==
  /\ FoxCandidate(n, card) \in Nat /\ worth <= FoxCandidate(n, card)
  /\ \A cross \in Nat : cross >= t =>
       Bounded(worth, FoxScoreDomain(n, card), FoxCount(n, card), FoxProfiles(n, card), w, cross)

\* A sum is one of its own size.
LEMMA SumsOfSelf ==
  ASSUME NEW n \in Nat, NEW G, IsTriples(G), NEW x \in GroupSums(n, G)
  PROVE  x[1] \in Nat /\ x[1] <= n /\ x \in GroupSums(x[1], G)
<1> DEFINE Q == {y \in Triples : y \in GroupSums(y[1], G)}
<1>1. <<0, 0, 0>> \in Q
  <2>1. <<0, 0, 0>> \in GroupSums(0, G)
    BY SumsGrow
  <2> QED BY <2>1 DEF Triples
<1>2. ASSUME NEW y \in Q \cap Triples, NEW g \in G PROVE Added(y, g) \in Q
  <2>1. PICK i \in Nat, j \in Nat, k \in Nat : y = <<i, j, k>>
    BY DEF Triples
  <2>2. PICK a \in Nat, d \in Nat, e \in Nat : g = <<a, d, e>>
    BY DEF Triples, IsTriples
  <2>3. Added(y, g) = <<i + a, j + d, k + e>> /\ i + a \in Nat /\ i <= i + a
    BY <2>1, <2>2 DEF Added
  <2>4. y \in GroupSums(i, G)
    BY <2>1
  <2>5. GroupSums(i, G) \subseteq GroupSums(i + a, G)
    BY <2>3, SumsOfMore
  <2>6. y \in GroupSums(i + a, G) /\ y[1] + g[1] <= i + a
    BY <2>1, <2>2, <2>3, <2>4, <2>5
  <2>7. Added(y, g) \in GroupSums(i + a, G)
    BY <2>3, <2>6, SumsGrow
  <2> QED BY <2>3, <2>7 DEF Triples
<1>3. GroupSums(n, G) \subseteq Q
  <2> HIDE DEF Q
  <2> QED BY <1>1, <1>2, SumsLeast
<1>4. x \in Triples /\ x[1] <= n
  BY SumsTyped
<1> QED BY <1>3, <1>4 DEF Triples

\* At most four species other than the fox are present.
LEMMA PresentOthers ==
  ASSUME NEW n, NEW least
  PROVE  IsFiniteSet({s \in Others : n[s] >= least}) /\ Present(n, Others, least) \in 0..4
<1>1. IsFiniteSet({"hawk"}) /\ Cardinality({"hawk"}) = 1
  BY FS_Singleton
<1>2. IsFiniteSet({"bear", "elk", "salmon"}) /\ Cardinality({"bear", "elk", "salmon"}) <= 3
  BY FewSize
<1>3. Others = {"bear", "elk", "salmon"} \cup {"hawk"}
  BY DEF Others, Species
<1>4. /\ IsFiniteSet(Others) /\ Cardinality(Others) \in Nat /\ Cardinality({"bear", "elk", "salmon"}) \in Nat
      /\ Cardinality(Others) <= Cardinality({"bear", "elk", "salmon"}) + Cardinality({"hawk"})
  BY <1>1, <1>2, <1>3, TwoPartsSize
<1>5. {s \in Others : n[s] >= least} \subseteq Others
  OBVIOUS
<1>6. /\ IsFiniteSet({s \in Others : n[s] >= least}) /\ Cardinality({s \in Others : n[s] >= least}) \in Nat
      /\ Cardinality({s \in Others : n[s] >= least}) <= Cardinality(Others)
  BY <1>4, <1>5, PartSize
<1> QED BY <1>1, <1>2, <1>4, <1>6 DEF Present

\* No more species are doubled around cells than have two tokens.
LEMMA DoubledPresent ==
  ASSUME NEW b, NEW n, HasCounts(b, n), NEW C
  PROVE  Doubled(b, C) \in Nat /\ Doubled(b, C) <= Present(n, Others, 2) /\ Present(n, Others, 2) \in 0..4
<1> DEFINE D == {s \in Others : Count(b, C, s) >= 2} T == {s \in Others : n[s] >= 2}
<1>1. IsFiniteSet(T) /\ Present(n, Others, 2) = Cardinality(T) /\ Present(n, Others, 2) \in 0..4
  BY PresentOthers DEF Present
<1>2. D \subseteq T
  <2> SUFFICES ASSUME NEW s \in D PROVE n[s] >= 2
    OBVIOUS
  <2>1. s \in Species /\ Count(b, C, s) >= 2
    BY OthersFinite
  <2>2. IsFiniteSet(Positions(b, s)) /\ Cardinality(Positions(b, s)) = n[s]
    BY <2>1, CountedAre
  <2>3. C \cap Positions(b, s) \subseteq Positions(b, s)
    OBVIOUS
  <2>4. Count(b, C, s) <= n[s] /\ Count(b, C, s) \in Nat /\ n[s] \in Nat
    BY <2>2, <2>3, PartSize DEF Count
  <2> QED BY <2>1, <2>4
<1>3. Doubled(b, C) = Cardinality(D)
  BY DEF Doubled
<1> HIDE DEF D, T
<1>4. Cardinality(D) \in Nat /\ Cardinality(D) <= Cardinality(T)
  BY <1>1, <1>2, PartSize
<1> QED BY <1>1, <1>3, <1>4

\* Card D: pairs of foxes by the species doubled around them.
FoxPairs(present) == {<<2, <<5, 7, 9, 11>>[t], 2 * t>> : t \in 1..present}

FoxPairScores(present) == {<<2, <<5, 7, 9, 11>>[i], 0>> : i \in 1..present}

\* These pairs are triples below the largest entry.
LEMMA FoxPairsAre ==
  ASSUME NEW present \in 0..4
  PROVE  /\ IsTriples(FoxPairs(present)) /\ IsTriples(FoxPairScores(present))
         /\ Entry(<<0, 5, 7, 9, 11>>, present) \in Nat
         /\ \A g \in FoxPairScores(present) : g[1] = 2 /\ g[2] <= Entry(<<0, 5, 7, 9, 11>>, present)
         /\ \A c \in 0..present : Entry(<<0, 5, 7, 9, 11>>, c) > 0 =>
              /\ <<2, Entry(<<0, 5, 7, 9, 11>>, c), 2 * c>> \in FoxPairs(present)
              /\ <<2, Entry(<<0, 5, 7, 9, 11>>, c), 0>> \in FoxPairScores(present)
<1> DEFINE e(c) == Entry(<<0, 5, 7, 9, 11>>, c) G == FoxPairs(present) H == FoxPairScores(present)
<1>1. e(0) = 0 /\ e(1) = 5 /\ e(2) = 7 /\ e(3) = 9 /\ e(4) = 11
  BY DEF Entry
<1> HIDE DEF e
<1>2. ASSUME NEW i \in 1..present PROVE <<5, 7, 9, 11>>[i] = e(i) /\ e(i) \in Nat /\ e(i) <= e(present) /\ 2 * i \in Nat
  <2>1. i = 1 \/ i = 2 \/ i = 3 \/ i = 4
    OBVIOUS
  <2>2. present = 1 \/ present = 2 \/ present = 3 \/ present = 4
    OBVIOUS
  <2>3. <<5, 7, 9, 11>>[i] = e(i) /\ e(i) \in Nat
    BY <1>1, <2>1
  <2>4. e(i) <= e(present)
    BY <1>1, <2>1, <2>2
  <2> QED BY <2>3, <2>4
<1>3. \A g \in G : g \in Triples /\ g[1] > 0
  <2> SUFFICES ASSUME NEW g \in G PROVE g \in Triples /\ g[1] > 0
    OBVIOUS
  <2>1. PICK i \in 1..present : g = <<2, <<5, 7, 9, 11>>[i], 2 * i>>
    BY DEF FoxPairs
  <2>2. g = <<2, e(i), 2 * i>> /\ e(i) \in Nat /\ 2 * i \in Nat
    BY <1>2, <2>1
  <2> QED BY <2>2 DEF Triples
<1>4. \A g \in H : g \in Triples /\ g[1] > 0 /\ g[1] = 2 /\ g[2] <= e(present)
  <2> SUFFICES ASSUME NEW g \in H PROVE g \in Triples /\ g[1] > 0 /\ g[1] = 2 /\ g[2] <= e(present)
    OBVIOUS
  <2>1. PICK i \in 1..present : g = <<2, <<5, 7, 9, 11>>[i], 0>>
    BY DEF FoxPairScores
  <2>2. g = <<2, e(i), 0>> /\ e(i) \in Nat /\ e(i) <= e(present)
    BY <1>2, <2>1
  <2> QED BY <2>2 DEF Triples
<1>5. IsFiniteSet(G) /\ IsFiniteSet(H)
  <2> DEFINE f == [i \in 1..present |-> <<2, <<5, 7, 9, 11>>[i], 2 * i>>]
             h == [i \in 1..present |-> <<2, <<5, 7, 9, 11>>[i], 0>>]
  <2>1. G = {f[i] : i \in 1..present} /\ H = {h[i] : i \in 1..present}
    BY DEF FoxPairs, FoxPairScores
  <2>2. IsFiniteSet(1..present)
    BY FS_Interval
  <2> HIDE DEF f, h, G, H
  <2> QED BY <2>1, <2>2, FiniteImage
<1>6. ASSUME NEW c \in 0..present, e(c) > 0 PROVE <<2, e(c), 2 * c>> \in G /\ <<2, e(c), 0>> \in H
  <2>1. c # 0
    BY <1>1, <1>6
  <2>2. c \in 1..present
    BY <2>1
  <2>3. <<5, 7, 9, 11>>[c] = e(c)
    BY <1>2, <2>2
  <2>4. <<2, <<5, 7, 9, 11>>[c], 2 * c>> \in G
    BY <2>2 DEF FoxPairs
  <2>5. <<2, <<5, 7, 9, 11>>[c], 0>> \in H
    BY <2>2 DEF FoxPairScores
  <2> HIDE DEF G, H
  <2> QED BY <2>3, <2>4, <2>5
<1>7. e(present) \in Nat
  <2>1. present = 0 \/ present = 1 \/ present = 2 \/ present = 3 \/ present = 4
    OBVIOUS
  <2> QED BY <1>1, <2>1
<1> HIDE DEF G, H
<1>8. IsTriples(G) /\ IsTriples(H)
  BY <1>3, <1>4, <1>5 DEF IsTriples
<1> QED BY <1>4, <1>6, <1>7, <1>8 DEF e, G, H

\* A pair of foxes next to each other, and what it sees.
PairSees(n, T, v, A, O) ==
  /\ T \in SUBSET A /\ Cardinality(T) = 2 /\ Cardinality(Within(T)) \in Nat /\ 1 <= Cardinality(Within(T))
  /\ \E c \in 0..Present(n, Others, 2) :
       v = Entry(<<0, 5, 7, 9, 11>>, c) /\ 2 * c <= Cardinality(Touching(T, O))

\* Each edge the exact scoring offers is such a pair.
LEMMA FoxPairIs ==
  ASSUME NEW b, NEW n, HasCounts(b, n), NEW A, A = Positions(b, "fox"), NEW O, O = DOMAIN b \ A,
         NEW g \in FoxEdges(b, A)
  PROVE  PairSees(n, g[1], g[2], A, O)
<1>1. PICK T \in SUBSET A : /\ g = <<T, Entry(<<0, 5, 7, 9, 11>>, Doubled(b, Around(T)))>>
                            /\ Cardinality(T) = 2 /\ Clique(T)
  BY DEF FoxEdges
<1>2. A \in SUBSET (Int \X Int) /\ IsFiniteSet(A) /\ IsFiniteSet(DOMAIN b) /\ IsFiniteSet(O)
  <2>1. "fox" \in Species
    BY DEF Species
  <2>2. A \in SUBSET (Int \X Int) /\ IsFiniteSet(A) /\ IsFiniteSet(DOMAIN b)
    BY <2>1, CountedAre
  <2>3. O \subseteq DOMAIN b
    OBVIOUS
  <2> QED BY <2>2, <2>3, FS_Subset
<1>3. T \in SUBSET (Int \X Int) /\ IsFiniteSet(T)
  BY <1>2, FS_Subset
<1>4. Cardinality(Within(T)) \in Nat /\ 1 <= Cardinality(Within(T))
  <2>1. Cardinality(T) * Cardinality(T) - Cardinality(T) <= 2 * Cardinality(Within(T))
    BY <1>1, <1>3, CliqueEdges
  <2>2. Cardinality(Within(T)) \in Nat
    BY <1>3, EdgeCounts
  <2>3. 2 * 2 - 2 <= 2 * Cardinality(Within(T))
    BY <1>1, <2>1
  <2> QED BY <2>2, <2>3
<1> DEFINE c == Doubled(b, Around(T)) X == Around(T) \cap O
<1>5. c \in 0..Present(n, Others, 2)
  <2>1. c \in Nat /\ c <= Present(n, Others, 2) /\ Present(n, Others, 2) \in 0..4
    BY DoubledPresent
  <2> HIDE DEF c
  <2> QED BY <2>1
<1>6. 2 * c <= Cardinality(X) /\ Cardinality(X) \in Nat /\ c \in Nat
  BY <1>2, DoubledCells
<1>7. Cardinality(X) <= Cardinality(Touching(T, O)) /\ Cardinality(Touching(T, O)) \in Nat
  BY <1>2, <1>3, RunNeighbors, EdgeCounts
<1>8. 2 * c <= Cardinality(Touching(T, O))
  <2> HIDE DEF c, X
  <2> QED BY <1>6, <1>7
<1>9. g[1] = T /\ g[2] = Entry(<<0, 5, 7, 9, 11>>, c)
  BY <1>1
<1> HIDE DEF c, X
<1>10. PairSees(n, T, Entry(<<0, 5, 7, 9, 11>>, c), A, O)
  BY <1>1, <1>4, <1>5, <1>8 DEF PairSees
<1> QED BY <1>9, <1>10

\* Card D: pairs of foxes and the species doubled around them.
LEMMA FoxesByPairs ==
  ASSUME NEW b, NEW n, HasCounts(b, n), NEW A, A = Positions(b, "fox"), NEW O, O = DOMAIN b \ A
  PROVE  FoxesBounded(n, Cardinality(Within(A)), Cardinality(Touching(A, O)), ScoreFoxes(b, "D"), "D")
<1> DEFINE m == n["fox"] E == FoxEdges(b, A) v == MaximumWeightMatching(A, E) w == Cardinality(Within(A))
           t == Cardinality(Touching(A, O)) present == Present(n, Others, 2) G == FoxPairs(present) H == FoxPairScores(present)
           top == Entry(<<0, 5, 7, 9, 11>>, present) size == [S \in SUBSET A |-> Cardinality(S)]
           within == [S \in SUBSET A |-> Cardinality(Within(S))] edges == [S \in SUBSET A |-> Cardinality(Touching(S, O))]
<1>1. /\ A \in SUBSET Cells /\ A \in SUBSET (Int \X Int) /\ IsFiniteSet(A) /\ Cardinality(A) = m /\ m \in 0..6
      /\ IsFiniteSet(O) /\ w \in Nat /\ t \in Nat
  <2>1. "fox" \in Species
    BY DEF Species
  <2>2. /\ A \in SUBSET Cells /\ A \in SUBSET (Int \X Int) /\ IsFiniteSet(A) /\ Cardinality(A) = m /\ m \in 0..6
        /\ IsFiniteSet(DOMAIN b)
    BY <2>1, CountedAre
  <2>3. IsFiniteSet(O)
    BY <2>2, FS_Subset
  <2>4. w \in Nat /\ t \in Nat
    BY <2>2, <2>3, EdgeCounts
  <2> QED BY <2>2, <2>3, <2>4
<1>2. IsFiniteSet(E) /\ \A g \in E : g[1] \in (SUBSET A) \ {{}} /\ g[2] \in Nat
  BY <1>1, FoxEdgesAre
<1>3. v \in Nat /\ Matched(A, E, v)
  <2> HIDE DEF E
  <2> QED BY <1>1, <1>2, BestMatchingIs
<1>4. PICK R, f : /\ f \in [R -> Nat] /\ Disjoint(R, A) /\ SumFunction(f) = v
                  /\ \A T \in R : f[T] > 0 /\ \E g \in E : g[1] = T /\ g[2] = f[T]
  <2> HIDE DEF E, v
  <2> QED BY <1>3 DEF Matched
<1>5. present \in 0..4
  BY PresentOthers
<1>6. /\ IsTriples(G) /\ IsTriples(H) /\ top \in Nat /\ \A g \in H : g[1] = 2 /\ g[2] <= top
      /\ \A c \in 0..present : Entry(<<0, 5, 7, 9, 11>>, c) > 0 =>
            <<2, Entry(<<0, 5, 7, 9, 11>>, c), 2 * c>> \in G /\ <<2, Entry(<<0, 5, 7, 9, 11>>, c), 0>> \in H
  <2> HIDE DEF present
  <2> QED BY <1>5, FoxPairsAre
<1>7. ASSUME NEW T \in R
      PROVE  /\ T \in SUBSET A /\ Cardinality(T) = 2 /\ Cardinality(Within(T)) \in Nat /\ 1 <= Cardinality(Within(T))
             /\ <<2, f[T], 0>> \in H /\ \E c \in Nat : <<2, f[T], 2 * c>> \in G /\ 2 * c <= Cardinality(Touching(T, O))
  <2>1. PICK g \in E : g[1] = T /\ g[2] = f[T] /\ f[T] > 0
    BY <1>4
  <2>2. PairSees(n, g[1], g[2], A, O)
    <3>1. g \in FoxEdges(b, A)
      OBVIOUS
    <3> HIDE DEF E
    <3> QED BY <3>1, FoxPairIs
  <2> HIDE DEF present, G, H, E
  <2>3. PICK c \in 0..present : g[2] = Entry(<<0, 5, 7, 9, 11>>, c) /\ 2 * c <= Cardinality(Touching(g[1], O))
    BY <2>2 DEF PairSees, present
  <2>4. <<2, f[T], 2 * c>> \in G /\ <<2, f[T], 0>> \in H
    BY <1>6, <2>1, <2>3
  <2>5. c \in Nat
    BY <1>5
  <2> QED BY <2>1, <2>2, <2>3, <2>4, <2>5 DEF PairSees
<1>8. Measures(size, A) /\ Measures(within, A) /\ Measures(edges, A)
  BY <1>1, SizeMeasures, WithinMeasures, TouchingMeasures
<1>9. /\ \A T \in SUBSET A : size[T] = Cardinality(T) /\ within[T] = Cardinality(Within(T)) /\ edges[T] = Cardinality(Touching(T, O))
      /\ within[A] = w /\ edges[A] = t
  OBVIOUS
<1>10. /\ FoxCount(n, "D") = (m \div 2) * top /\ FoxCandidate(n, "D") = (m \div 2) * top
       /\ FoxScoreDomain(n, "D") = Sums(m, H)
       /\ FoxProfiles(n, "D") = Efficient({<<x[2], x[1] \div 2, x[3]>> : x \in GroupSums(2 * (m \div 2), G)})
  BY DEF FoxCount, FoxCandidate, FoxDUpper, FoxScoreDomain, FoxProfiles, FoxPairs, FoxPairScores
<1>11. ScoreFoxes(b, "D") = v
  BY DEF ScoreFoxes
<1> HIDE DEF E, v, present, G, H, top, size, within, edges, w, t
<1>12. Fitted(R, G, edges, f) /\ Fitted(R, H, size, f)
  <2>1. ASSUME NEW T \in R PROVE \E g \in G : g[1] = Cardinality(T) /\ g[2] = f[T] /\ g[3] <= edges[T]
    <3>1. PICK c \in Nat : <<2, f[T], 2 * c>> \in G /\ 2 * c <= Cardinality(Touching(T, O))
      BY <1>7
    <3> DEFINE g == <<2, f[T], 2 * c>>
    <3>2. g \in G /\ Cardinality(T) = 2 /\ 2 * c <= edges[T]
      BY <1>7, <1>9, <3>1
    <3>3. g[1] = 2 /\ g[2] = f[T] /\ g[3] = 2 * c
      OBVIOUS
    <3> HIDE DEF g
    <3> QED BY <3>2, <3>3
  <2>2. ASSUME NEW T \in R PROVE \E g \in H : g[1] = Cardinality(T) /\ g[2] = f[T] /\ g[3] <= size[T]
    <3> DEFINE g == <<2, f[T], 0>>
    <3>1. g \in H /\ Cardinality(T) = 2 /\ size[T] = 2
      BY <1>7, <1>9
    <3>2. g[1] = 2 /\ g[2] = f[T] /\ g[3] = 0
      OBVIOUS
    <3> HIDE DEF g
    <3> QED BY <3>1, <3>2
  <2> QED BY <2>1, <2>2 DEF Fitted
<1> HIDE DEF m
<1>13. PICK x \in GroupSums(m, G) : x[1] = Cardinality(UNION R) /\ x[2] = v /\ x[3] <= t
  <2>1. PacksTo(R, A, G, edges, f)
    BY <1>1, <1>4, <1>6, <1>8, <1>12, PackingSums
  <2> QED BY <1>1, <1>4, <1>9, <2>1 DEF PacksTo
<1>14. PICK y \in GroupSums(m, H) : y[2] = v
  <2>1. PacksTo(R, A, H, size, f)
    BY <1>1, <1>4, <1>6, <1>8, <1>12, PackingSums
  <2> QED BY <1>1, <1>4, <2>1 DEF PacksTo
<1>15. PICK k \in Nat : x[1] = 2 * k /\ k <= w
  <2>1. \A T \in R : Cardinality(T) = 2 /\ 1 <= within[T]
    BY <1>7, <1>9
  <2>2. SameSized(R, A, within, 2, 1)
    <3>1. 2 \in Nat /\ 1 \in Nat /\ 2 > 0
      OBVIOUS
    <3> QED BY <1>1, <1>4, <1>8, <2>1, <3>1, PartsOfSize
  <2> DEFINE k == Cardinality(R) U == UNION R
  <2>3. k \in Nat /\ U \in SUBSET A /\ Cardinality(U) = 2 * k /\ within[U] \in Nat /\ 1 * k <= within[U]
    BY <2>2 DEF SameSized
  <2>4. within[U] <= within[A] /\ within[A] \in Nat
    <3>1. U \in SUBSET A /\ A \ U \in SUBSET A /\ U \cap (A \ U) = {}
      BY <2>3
    <3> HIDE DEF U
    <3> QED BY <1>8, <3>1, MeasureOfTwo
  <2>5. x[1] = Cardinality(U)
    BY <1>13
  <2> HIDE DEF k, U
  <2>6. k <= w
    BY <1>9, <2>3, <2>4
  <2> QED BY <2>3, <2>5, <2>6
<1> DEFINE Q == {<<z[2], z[1] \div 2, z[3]>> : z \in GroupSums(2 * (m \div 2), G)} S == GroupSums(2 * (m \div 2), G)
<1>16. x \in S
  <2>1. m \in Nat
    BY <1>1
  <2>2. x[1] \in Nat /\ x[1] <= m /\ x \in GroupSums(x[1], G)
    BY <1>6, <2>1, SumsOfSelf
  <2>3. 2 * (m \div 2) \in Nat /\ x[1] <= 2 * (m \div 2)
    <3>1. m = 0 \/ m = 1 \/ m = 2 \/ m = 3 \/ m = 4 \/ m = 5 \/ m = 6
      BY <1>1
    <3> QED BY <1>15, <2>2, <3>1
  <2> DEFINE i == x[1] j == 2 * (m \div 2)
  <2>4. i \in Nat /\ j \in Nat /\ i <= j
    BY <2>2, <2>3
  <2> HIDE DEF i, j
  <2>5. GroupSums(i, G) \subseteq GroupSums(j, G)
    BY <1>6, <2>4, SumsOfMore
  <2> QED BY <2>2, <2>5 DEF i, j
<1>17. IsFiniteSet(S) /\ S \subseteq Triples
  <2> DEFINE j == 2 * (m \div 2)
  <2>1. j \in Nat
    BY <1>1
  <2>2. S = GroupSums(j, G)
    OBVIOUS
  <2> HIDE DEF j, S
  <2> QED BY <1>6, <2>1, <2>2, SumsFinite, SumsTyped
<1> HIDE DEF S
<1>18. IsProfiles(Q)
  <2> DEFINE h == [z \in S |-> <<z[2], z[1] \div 2, z[3]>>]
  <2>1. Q = {h[z] : z \in S}
    BY DEF S
  <2>2. \A z \in S : h[z] \in Triples
    <3> SUFFICES ASSUME NEW z \in S PROVE h[z] \in Triples
      OBVIOUS
    <3>1. z[1] \in Nat /\ z[2] \in Nat /\ z[3] \in Nat
      BY <1>17 DEF Triples
    <3>2. z[1] \div 2 \in Nat
      BY <3>1
    <3> QED BY <3>1, <3>2 DEF Triples
  <2> HIDE DEF h, Q
  <2>3. IsFiniteSet(Q)
    BY <1>17, <2>1, FiniteImage
  <2> QED BY <2>1, <2>2, <2>3 DEF IsProfiles
<1>19. ASSUME NEW cross \in Nat, cross >= t PROVE IsProfiles(Efficient(Q)) /\ ProfilesOffer(Efficient(Q), v, w, cross)
  <2> DEFINE p == <<x[2], x[1] \div 2, x[3]>>
  <2>1. p \in Q
    BY <1>16 DEF S
  <2>2. x[3] \in Nat /\ x[2] \in Nat /\ x[1] \in Nat
    BY <1>16, <1>17 DEF Triples
  <2>3. x[1] \div 2 = k
    BY <1>15, <2>2
  <2>4. p[1] >= v /\ p[2] <= w /\ p[3] <= cross
    BY <1>1, <1>3, <1>13, <1>15, <1>19, <2>2, <2>3
  <2> HIDE DEF p, Q
  <2>5. ProfilesOffer(Q, v, w, cross)
    BY <2>1, <2>4 DEF ProfilesOffer
  <2> QED BY <1>1, <1>3, <1>18, <2>5, EfficientOffers
<1>20. (m \div 2) * top \in Nat /\ v <= (m \div 2) * top
  <2>1. (m \div 2) * top \in Nat /\ \A z \in GroupSums(m, H) : z[2] <= (m \div 2) * top
    BY <1>1, <1>6, PairSums
  <2> QED BY <1>14, <2>1
<1>21. v \in Sums(m, H)
  BY <1>14 DEF Sums
<1>22. FoxProfiles(n, "D") = Efficient(Q)
  BY <1>10
<1> HIDE DEF Q
<1>23. FoxesBounded(n, w, t, v, "D")
  BY <1>3, <1>10, <1>19, <1>20, <1>21, <1>22 DEF FoxesBounded, Bounded
<1> QED BY <1>11, <1>23 DEF w, t

\* The entries of both edge tables.
LEMMA HexIs ==
  ASSUME NEW left \in 0..6, NEW right \in 0..6
  PROVE  /\ BipartiteHexEdgeUpper[left][right] \in Nat /\ BipartiteHexEdgeUpper[left][right] <= 17
         /\ BipartitePlanarUpper[left][right] \in Nat /\ BipartitePlanarUpper[left][right] <= 36
         /\ BipartiteHexEdgeUpper[left][right] <= BipartitePlanarUpper[left][right]
<1> DEFINE t == << <<0, 0, 0, 0, 0, 0, 0>>,
     <<0, 1, 2, 3, 4, 5, 6>>,
     <<0, 2, 4, 5, 6, 7, 8>>,
     <<0, 3, 5, 7, 9, 10, 11>>,
     <<0, 4, 6, 9, 10, 12, 14>>,
     <<0, 5, 7, 10, 12, 14, 15>>,
     <<0, 6, 8, 11, 14, 15, 17>> >>
           h == BipartiteHexEdgeUpper[left][right]
           S == {left * right, 6 * left, 6 * right, IF left + right = 2 THEN 1 ELSE 2 * (left + right) - 4}
<1>1. h = t[left + 1][right + 1]
  BY DEF BipartiteHexEdgeUpper
<1>2. BipartitePlanarUpper[left][right] = IF left = 0 \/ right = 0 THEN 0 ELSE Min(S)
  BY DEF BipartitePlanarUpper
<1>3. left = 0 \/ left = 1 \/ left = 2 \/ left = 3 \/ left = 4 \/ left = 5 \/ left = 6
  OBVIOUS
<1>4. right = 0 \/ right = 1 \/ right = 2 \/ right = 3 \/ right = 4 \/ right = 5 \/ right = 6
  OBVIOUS
<1>5. /\ t[1] = <<0, 0, 0, 0, 0, 0, 0>> /\ t[2] = <<0, 1, 2, 3, 4, 5, 6>> /\ t[3] = <<0, 2, 4, 5, 6, 7, 8>>
      /\ t[4] = <<0, 3, 5, 7, 9, 10, 11>> /\ t[5] = <<0, 4, 6, 9, 10, 12, 14>> /\ t[6] = <<0, 5, 7, 10, 12, 14, 15>>
      /\ t[7] = <<0, 6, 8, 11, 14, 15, 17>>
  OBVIOUS
<1> HIDE DEF t, h
<1> DEFINE Fits(l, x) ==
             /\ x \in Nat /\ x <= 17 /\ (l = 0 \/ right = 0 => x = 0)
             /\ l > 0 /\ right > 0 => /\ x <= l * right /\ x <= 6 * l /\ x <= 6 * right
                                      /\ x <= IF l + right = 2 THEN 1 ELSE 2 * (l + right) - 4
<1>6. Fits(left, h)
  <2>0. CASE left = 0
    <3>1. h = <<0, 0, 0, 0, 0, 0, 0>>[right + 1]
      BY <1>1, <1>5, <2>0
    <3>2. Fits(0, h)
      BY <1>4, <3>1
    <3> QED BY <2>0, <3>2
  <2>1. CASE left = 1
    <3>1. h = <<0, 1, 2, 3, 4, 5, 6>>[right + 1]
      BY <1>1, <1>5, <2>1
    <3>2. Fits(1, h)
      BY <1>4, <3>1
    <3> QED BY <2>1, <3>2
  <2>2. CASE left = 2
    <3>1. h = <<0, 2, 4, 5, 6, 7, 8>>[right + 1]
      BY <1>1, <1>5, <2>2
    <3>2. Fits(2, h)
      BY <1>4, <3>1
    <3> QED BY <2>2, <3>2
  <2>3. CASE left = 3
    <3>1. h = <<0, 3, 5, 7, 9, 10, 11>>[right + 1]
      BY <1>1, <1>5, <2>3
    <3>2. Fits(3, h)
      BY <1>4, <3>1
    <3> QED BY <2>3, <3>2
  <2>4. CASE left = 4
    <3>1. h = <<0, 4, 6, 9, 10, 12, 14>>[right + 1]
      BY <1>1, <1>5, <2>4
    <3>2. Fits(4, h)
      BY <1>4, <3>1
    <3> QED BY <2>4, <3>2
  <2>5. CASE left = 5
    <3>1. h = <<0, 5, 7, 10, 12, 14, 15>>[right + 1]
      BY <1>1, <1>5, <2>5
    <3>2. Fits(5, h)
      BY <1>4, <3>1
    <3> QED BY <2>5, <3>2
  <2>6. CASE left = 6
    <3>1. h = <<0, 6, 8, 11, 14, 15, 17>>[right + 1]
      BY <1>1, <1>5, <2>6
    <3>2. Fits(6, h)
      BY <1>4, <3>1
    <3> QED BY <2>6, <3>2
  <2> HIDE DEF Fits
  <2> QED BY <1>3, <2>0, <2>1, <2>2, <2>3, <2>4, <2>5, <2>6
<1>7. CASE left = 0 \/ right = 0
  BY <1>2, <1>6, <1>7 DEF h
<1>8. CASE left > 0 /\ right > 0
  <2>1. S \subseteq Nat
    <3>1. left * right \in Nat
      BY <1>3, <1>4
    <3> QED BY <1>8, <3>1
  <2>2. left * right \in S
    OBVIOUS
  <2>3. left * right <= 36
    BY <1>3, <1>4
  <2>4. \A x \in S : h <= x
    BY <1>6, <1>8
  <2> HIDE DEF S
  <2>5. Min(S) \in S /\ Min(S) <= left * right
    BY <2>1, <2>2, LeastIn
  <2>6. Min(S) \in Nat /\ h <= Min(S)
    BY <2>1, <2>4, <2>5
  <2>7. BipartitePlanarUpper[left][right] = Min(S)
    BY <1>2, <1>8
  <2>8. Min(S) <= 36
    <3>1. left * right \in Nat
      BY <2>1, <2>2
    <3> QED BY <2>3, <2>5, <2>6, <3>1
  <2> QED BY <1>6, <2>6, <2>7, <2>8 DEF h
<1> QED BY <1>7, <1>8

\* The bound of an assignment of foxes to the species they count.
LEMMA AssignedBelow ==
  ASSUME NEW n, n \in [Species -> 0..6], NEW edges,
         \A l, r \in 0..6 : edges[l][r] \in Nat /\ edges[l][r] <= 36,
         NEW a \in [Others -> 0..n["fox"]], SumFunction(a) <= n["fox"]
  PROVE  LET x == SumFunction([s \in Others |-> edges[a[s]][n[s]]])
         IN  FoxCUpper(n, edges) \in Nat /\ x \in Nat /\ x <= FoxCUpper(n, edges)
<1> DEFINE m == n["fox"] A == {f \in [Others -> 0..m] : SumOver(Others, LAMBDA s : f[s]) <= m}
           value(f) == SumOver(Others, LAMBDA s : edges[f[s]][n[s]])
           S == {value(f) : f \in A} full == [s \in Others |-> 36] top == SumFunction(full)
<1>1. FoxCUpper(n, edges) = Max(S)
  BY DEF FoxCUpper
<1>2. m \in 0..6 /\ \A s \in Others : n[s] \in 0..6
  BY OthersFinite DEF Species
<1>3. ASSUME NEW f \in [Others -> 0..m]
      PROVE  value(f) \in Nat /\ value(f) <= top /\ top \in Nat
  <2> DEFINE g == [s \in Others |-> edges[f[s]][n[s]]]
  <2>1. value(f) = SumFunction(g)
    BY DEF SumOver
  <2>2. \A s \in Others : g[s] \in Nat /\ g[s] <= full[s]
    <3> SUFFICES ASSUME NEW s \in Others PROVE g[s] \in Nat /\ g[s] <= full[s]
      OBVIOUS
    <3>1. f[s] \in 0..6 /\ n[s] \in 0..6
      BY <1>2
    <3>2. edges[f[s]][n[s]] \in Nat /\ edges[f[s]][n[s]] <= 36
      BY <3>1
    <3> QED BY <3>2
  <2>3. g \in [Others -> Nat] /\ full \in [Others -> Nat]
    BY <2>2
  <2> HIDE DEF g, full
  <2>4. SumFunction(g) \in Nat /\ SumFunction(full) \in Nat /\ SumFunction(g) <= SumFunction(full)
    BY <2>2, <2>3, OthersFinite, SumsBelowEach
  <2> QED BY <2>1, <2>4
<1>4. a \in A
  <2>1. SumOver(Others, LAMBDA s : a[s]) = SumFunction([s \in Others |-> a[s]])
    BY DEF SumOver
  <2>2. [s \in Others |-> a[s]] = a
    OBVIOUS
  <2> QED BY <2>1, <2>2
<1>5. value(a) = SumFunction([s \in Others |-> edges[a[s]][n[s]]])
  BY DEF SumOver
<1>6. A \subseteq [Others -> 0..m]
  OBVIOUS
<1> HIDE DEF value
<1>7. value(a) \in S
  <2> HIDE DEF A
  <2> QED BY <1>4
<1> HIDE DEF A, top
<1>8. S \subseteq 0..top /\ top \in Nat
  BY <1>3, <1>4, <1>6
<1> HIDE DEF S
<1>9. IsFiniteSet(S) /\ S \subseteq Nat /\ S # {}
  <2>1. top \in Int /\ 0 \in Int
    BY <1>8
  <2>2. IsFiniteSet(0..top)
    BY <2>1, FS_Interval
  <2>3. IsFiniteSet(S)
    BY <1>8, <2>2, FS_Subset
  <2>4. 0..top \subseteq Nat
    OBVIOUS
  <2> QED BY <1>7, <1>8, <2>3, <2>4
<1>10. Max(S) \in Nat /\ value(a) \in Nat /\ value(a) <= Max(S)
  BY <1>7, <1>9, GreatestIn
<1> QED BY <1>1, <1>5, <1>10

\* Foxes that each count one species.
Assigned(A, a) == [s \in Others |-> {f \in A : a[f] = s}]

\* What the foxes count is the edges between the foxes of a species and its tokens.
LEMMA AssignedCells ==
  ASSUME NEW b, NEW n, HasCounts(b, n), NEW A, A = Positions(b, "fox"), NEW O, O = DOMAIN b \ A,
         NEW a \in [A -> Others]
  PROVE  LET w == [f \in A |-> Count(b, Neighbors(f), a[f])]
             e == [s \in Others |-> Cardinality(Touching(Assigned(A, a)[s], Positions(b, s)))]
             k == [s \in Others |-> Cardinality(Assigned(A, a)[s])]
         IN  /\ w \in [A -> Nat] /\ e \in [Others -> Nat] /\ k \in [Others -> Nat]
             /\ SumFunction(w) \in Nat /\ SumFunction(w) = SumFunction(e) /\ SumFunction(w) <= Cardinality(Touching(A, O))
             /\ SumFunction(k) = Cardinality(A)
             /\ \A s \in Others : e[s] = Cardinality(Touching(Assigned(A, a)[s], Positions(b, s)))
                                  /\ k[s] = Cardinality(Assigned(A, a)[s])
<1> DEFINE of == [f \in A |-> Neighbors(f) \cap Positions(b, a[f])] V == Marked(A, of)
           part == Assigned(A, a) on == [s \in Others |-> Touching(part[s], Positions(b, s))]
           w == [f \in A |-> Count(b, Neighbors(f), a[f])]
           e == [s \in Others |-> Cardinality(on[s])]
           k == [s \in Others |-> Cardinality(part[s])]
<1>1. A \in SUBSET (Int \X Int) /\ IsFiniteSet(A) /\ IsFiniteSet(DOMAIN b) /\ IsFiniteSet(O)
  <2>1. "fox" \in Species
    BY DEF Species
  <2>2. A \in SUBSET (Int \X Int) /\ IsFiniteSet(A) /\ IsFiniteSet(DOMAIN b)
    BY <2>1, CountedAre
  <2>3. O \subseteq DOMAIN b
    OBVIOUS
  <2> QED BY <2>2, <2>3, FS_Subset
<1>2. \A s \in Others : Positions(b, s) \subseteq O /\ IsFiniteSet(Positions(b, s))
  <2> SUFFICES ASSUME NEW s \in Others PROVE Positions(b, s) \subseteq O /\ IsFiniteSet(Positions(b, s))
    OBVIOUS
  <2>1. s # "fox"
    BY OthersFinite
  <2>2. Positions(b, s) \subseteq O
    BY <2>1 DEF Positions
  <2> QED BY <1>1, <2>2, FS_Subset
<1>3. \A f \in A : /\ of[f] = Neighbors(f) \cap Positions(b, a[f]) /\ IsFiniteSet(of[f])
                   /\ w[f] = Cardinality(of[f])
  <2> SUFFICES ASSUME NEW f \in A PROVE IsFiniteSet(of[f]) /\ w[f] = Cardinality(of[f])
    OBVIOUS
  <2>1. a[f] \in Others
    OBVIOUS
  <2>2. IsFiniteSet(Positions(b, a[f])) /\ of[f] \subseteq Positions(b, a[f])
    BY <1>2, <2>1
  <2>3. IsFiniteSet(of[f])
    BY <2>2, FS_Subset
  <2> QED BY <2>3 DEF Count
<1>4. [f \in A |-> Cardinality(of[f])] = w
  BY <1>3
<1>5. w \in [A -> Nat] /\ IsFiniteSet(V) /\ Cardinality(V) \in Nat /\ SumFunction(w) = Cardinality(V)
  <2> HIDE DEF of, w
  <2>1. /\ [f \in A |-> Cardinality(of[f])] \in [A -> Nat] /\ IsFiniteSet(Marked(A, of)) /\ Cardinality(Marked(A, of)) \in Nat
        /\ SumFunction([f \in A |-> Cardinality(of[f])]) = Cardinality(Marked(A, of))
    BY <1>1, <1>3, MarkedCells
  <2> QED BY <1>4, <2>1
<1>6. \A s \in Others : part[s] = {f \in A : a[f] = s} /\ part[s] \subseteq A /\ IsFiniteSet(part[s])
  <2>1. \A s \in Others : part[s] = {f \in A : a[f] = s} /\ part[s] \subseteq A
    BY DEF Assigned
  <2> HIDE DEF part
  <2> QED BY <1>1, <2>1, FS_Subset
<1>7. V \subseteq Touching(A, O)
  <2> SUFFICES ASSUME NEW p \in V PROVE p \in Touching(A, O)
    OBVIOUS
  <2>1. p[1] \in A /\ p[2] \in of[p[1]] /\ p = <<p[1], p[2]>>
    <3> HIDE DEF of
    <3> QED BY DEF Marked
  <2>2. a[p[1]] \in Others
    BY <2>1
  <2>3. p[2] \in Neighbors(p[1]) /\ p[2] \in Positions(b, a[p[1]])
    BY <1>3, <2>1
  <2>4. p[2] \in O
    BY <1>2, <2>2, <2>3
  <2> QED BY <2>1, <2>3, <2>4 DEF Touching
<1>8. Cardinality(V) <= Cardinality(Touching(A, O)) /\ Cardinality(Touching(A, O)) \in Nat
  <2>1. IsFiniteSet(Touching(A, O))
    BY <1>1, EdgeCounts
  <2> HIDE DEF V
  <2> QED BY <1>7, <2>1, PartSize
<1>9. \A s \in Others : /\ on[s] = Touching(part[s], Positions(b, s)) /\ IsFiniteSet(on[s])
                        /\ e[s] = Cardinality(on[s]) /\ e[s] \in Nat
                        /\ k[s] = Cardinality(part[s]) /\ k[s] \in Nat
  <2> SUFFICES ASSUME NEW s \in Others
               PROVE /\ on[s] = Touching(part[s], Positions(b, s)) /\ IsFiniteSet(on[s])
                     /\ e[s] = Cardinality(on[s]) /\ e[s] \in Nat
                     /\ k[s] = Cardinality(part[s]) /\ k[s] \in Nat
    OBVIOUS
  <2> HIDE DEF part
  <2>1. on[s] = Touching(part[s], Positions(b, s)) /\ e[s] = Cardinality(on[s]) /\ k[s] = Cardinality(part[s])
    OBVIOUS
  <2>2. IsFiniteSet(Touching(part[s], Positions(b, s))) /\ Cardinality(Touching(part[s], Positions(b, s))) \in Nat
    BY <1>2, <1>6, EdgeCounts
  <2>3. Cardinality(part[s]) \in Nat
    BY <1>6, FS_CardinalityType
  <2> HIDE DEF on, e, k
  <2> QED BY <2>1, <2>2, <2>3
<1>10. \A s, t \in Others : s # t => on[s] \cap on[t] = {} /\ part[s] \cap part[t] = {}
  <2> SUFFICES ASSUME NEW s \in Others, NEW t \in Others, s # t
               PROVE on[s] \cap on[t] = {} /\ part[s] \cap part[t] = {}
    OBVIOUS
  <2>1. part[s] \cap part[t] = {}
    <3> HIDE DEF part
    <3> QED BY <1>6
  <2>2. \A p \in on[s] : p[1] \in part[s]
    <3> HIDE DEF part
    <3> QED BY DEF Touching
  <2>3. \A p \in on[t] : p[1] \in part[t]
    <3> HIDE DEF part
    <3> QED BY DEF Touching
  <2> HIDE DEF on, part
  <2> QED BY <2>1, <2>2, <2>3
<1>11. \A p : p \in V <=> \E s \in Others : p \in on[s]
  <2>1. ASSUME NEW p \in V PROVE \E s \in Others : p \in on[s]
    <3>1. p \in Touching(A, O) /\ p[1] \in A /\ p[2] \in of[p[1]]
      <4> HIDE DEF of
      <4> QED BY <1>7 DEF Marked
    <3>2. a[p[1]] \in Others /\ p[2] \in Positions(b, a[p[1]])
      BY <1>3, <3>1
    <3>3. p[1] \in part[a[p[1]]]
      <4> HIDE DEF part
      <4> QED BY <1>6, <3>1, <3>2
    <3> HIDE DEF on, part, V, of
    <3>4. p \in on[a[p[1]]]
      BY <1>9, <3>1, <3>2, <3>3 DEF Touching
    <3> QED BY <3>2, <3>4
  <2>2. ASSUME NEW s \in Others, NEW p \in on[s] PROVE p \in V
    <3>1. p \in part[s] \X Positions(b, s) /\ p[2] \in Neighbors(p[1])
      <4> HIDE DEF on, part
      <4> QED BY <1>9 DEF Touching
    <3>2. p[1] \in A /\ a[p[1]] = s
      <4> HIDE DEF on, part
      <4> QED BY <1>6, <3>1
    <3>3. p[2] \in of[p[1]] /\ p = <<p[1], p[2]>>
      <4> HIDE DEF on, part, of, V
      <4> QED BY <1>3, <3>1, <3>2
    <3> HIDE DEF on, part, of
    <3> QED BY <3>2, <3>3 DEF Marked
  <2> HIDE DEF V, on
  <2> QED BY <2>1, <2>2
<1>12. \A f : f \in A <=> \E s \in Others : f \in part[s]
  <2> HIDE DEF part
  <2> QED BY <1>6
<1>13. [s \in Others |-> Cardinality(on[s])] = e /\ [s \in Others |-> Cardinality(part[s])] = k
  OBVIOUS
<1>14. e = [s \in Others |-> e[s]] /\ k = [s \in Others |-> k[s]]
  OBVIOUS
<1>15. e = [s \in Others |-> Cardinality(Touching(part[s], Positions(b, s)))]
  OBVIOUS
<1> HIDE DEF V, on, of, part, e, k, w
<1>16. Cardinality(V) = SumFunction(e)
  <2>1. \A s \in Others : IsFiniteSet(on[s])
    BY <1>9
  <2>2. \A s, t \in Others : s # t => on[s] \cap on[t] = {}
    BY <1>10
  <2>3. Cardinality(V) = SumFunction([s \in Others |-> Cardinality(on[s])])
    BY <1>11, <2>1, <2>2, OthersFinite, SizesAddUp
  <2> QED BY <1>13, <2>3
<1>17. Cardinality(A) = SumFunction(k)
  <2>1. \A s \in Others : IsFiniteSet(part[s])
    BY <1>6
  <2>2. \A s, t \in Others : s # t => part[s] \cap part[t] = {}
    BY <1>10
  <2>3. Cardinality(A) = SumFunction([s \in Others |-> Cardinality(part[s])])
    BY <1>12, <2>1, <2>2, OthersFinite, SizesAddUp
  <2> QED BY <1>13, <2>3
<1>18. e \in [Others -> Nat] /\ k \in [Others -> Nat]
  BY <1>9, <1>14
<1>19. \A s \in Others : e[s] = Cardinality(Touching(part[s], Positions(b, s))) /\ k[s] = Cardinality(part[s])
  BY <1>9
<1> QED BY <1>5, <1>8, <1>13, <1>15, <1>16, <1>17, <1>18, <1>19 DEF w, part

\* Between foxes and tokens of another species there are no more edges than
\* the lattice has.
LEMMA LatticeEdges ==
  ASSUME LatticeAssumption, NEW b, NEW n, HasCounts(b, n), NEW K, K \in SUBSET Positions(b, "fox"), NEW s \in Others
  PROVE  /\ Cardinality(K) \in 0..n["fox"] /\ n["fox"] \in 0..6 /\ n[s] \in 0..6
         /\ Cardinality(Touching(K, Positions(b, s))) <= BipartiteHexEdgeUpper[Cardinality(K)][n[s]]
         /\ Cardinality({c \in K : Cardinality(Neighbors(c) \cap Positions(b, s)) >= 2})
              <= FoxBQualifications[Cardinality(K)][n[s]]
<1> DEFINE A == Positions(b, "fox") B == Positions(b, s) k == Cardinality(K)
<1>1. s \in Species /\ s # "fox" /\ "fox" \in Species
  BY OthersFinite DEF Species
<1>2. /\ A \in SUBSET Cells /\ IsFiniteSet(A) /\ Cardinality(A) = n["fox"] /\ n["fox"] \in 0..6
      /\ B \in SUBSET Cells /\ Cardinality(B) = n[s] /\ n[s] \in 0..6 /\ A \cap B = {}
  BY <1>1, CountedAre
<1>3. n["fox"] <= CountCap /\ n[s] <= CountCap
  BY <1>1 DEF HasCounts
<1>4. k \in Nat /\ k <= n["fox"] /\ IsFiniteSet(K)
  BY <1>2, PartSize
<1>5. CountCap \in Nat
  BY ScoringAssumption
<1>6. K \in SUBSET Cells /\ k <= CountCap /\ K \cap B = {}
  BY <1>2, <1>3, <1>4, <1>5
<1>7. \A L, M \in {S \in SUBSET Cells : Cardinality(S) <= CountCap} : L \cap M = {} =>
        /\ Cardinality(Touching(L, M)) <= BipartiteHexEdgeUpper[Cardinality(L)][Cardinality(M)]
        /\ Cardinality({c \in L : Cardinality(Neighbors(c) \cap M) >= 2})
             <= FoxBQualifications[Cardinality(L)][Cardinality(M)]
  BY DEF LatticeAssumption
<1>8. K \in {S \in SUBSET Cells : Cardinality(S) <= CountCap}
  BY <1>6
<1>9. B \in {S \in SUBSET Cells : Cardinality(S) <= CountCap}
  BY <1>2, <1>3
<1> HIDE DEF A, B
<1>10. /\ Cardinality(Touching(K, B)) <= BipartiteHexEdgeUpper[k][n[s]]
       /\ Cardinality({c \in K : Cardinality(Neighbors(c) \cap B) >= 2}) <= FoxBQualifications[k][n[s]]
  BY <1>2, <1>6, <1>7, <1>8, <1>9
<1> QED BY <1>2, <1>4, <1>10 DEF B

\* What each fox counts most of.
LEMMA FoxesAssigned ==
  ASSUME NEW b, NEW n, HasCounts(b, n), NEW A, A = Positions(b, "fox")
  PROVE  \E a \in [A -> Others] :
           ScoreFoxes(b, "C") = SumFunction([f \in A |-> Count(b, Neighbors(f), a[f])])
<1> DEFINE counts(f) == {Count(b, Neighbors(f), s) : s \in Others}
           a == [f \in A |-> CHOOSE s \in Others : Count(b, Neighbors(f), s) = Max(counts(f))]
<1>1. ASSUME NEW f \in A PROVE \E s \in Others : Count(b, Neighbors(f), s) = Max(counts(f))
  <2> DEFINE h == [s \in Others |-> Count(b, Neighbors(f), s)]
  <2>1. counts(f) = {h[s] : s \in Others}
    OBVIOUS
  <2>2. IsFiniteSet(counts(f))
    <3> HIDE DEF h, counts
    <3> QED BY <2>1, FiniteImage, OthersFinite
  <2>3. \A s \in Others : Count(b, Neighbors(f), s) \in Nat
    <3> SUFFICES ASSUME NEW s \in Others PROVE Count(b, Neighbors(f), s) \in Nat
      OBVIOUS
    <3>1. s \in Species
      BY OthersFinite
    <3>2. IsFiniteSet(Positions(b, s))
      BY <3>1, CountedAre
    <3>3. Neighbors(f) \cap Positions(b, s) \subseteq Positions(b, s)
      OBVIOUS
    <3> QED BY <3>2, <3>3, PartSize DEF Count
  <2>4. "bear" \in Others
    BY DEF Others, Species
  <2>5. counts(f) \subseteq Nat /\ counts(f) # {}
    BY <2>3, <2>4
  <2>6. Max(counts(f)) \in counts(f)
    <3> HIDE DEF counts
    <3> QED BY <2>2, <2>5, GreatestIn
  <2> QED BY <2>6
<1>2. ASSUME NEW f \in A PROVE a[f] \in Others /\ Count(b, Neighbors(f), a[f]) = Max(counts(f))
  BY <1>1
<1>3. a \in [A -> Others]
  BY <1>2
<1>4. \A f \in A : ScoreFox(b, f, "C") = Count(b, Neighbors(f), a[f])
  <2> SUFFICES ASSUME NEW f \in A PROVE ScoreFox(b, f, "C") = Count(b, Neighbors(f), a[f])
    OBVIOUS
  <2>1. ScoreFox(b, f, "C") = Max(counts(f))
    BY DEF ScoreFox
  <2> QED BY <1>2, <2>1
<1> HIDE DEF a
<1>5. ScoreFoxes(b, "C") = SumFunction([fox \in A |-> ScoreFox(b, fox, "C")])
  BY DEF ScoreFoxes
<1>6. [fox \in A |-> ScoreFox(b, fox, "C")] = [f \in A |-> Count(b, Neighbors(f), a[f])]
  BY <1>4
<1> QED BY <1>3, <1>5, <1>6

\* Card C: each fox counts one species.
LEMMA FoxesByCount ==
  ASSUME LatticeAssumption, NEW b, NEW n, HasCounts(b, n), NEW A, A = Positions(b, "fox"), NEW O, O = DOMAIN b \ A
  PROVE  FoxesBounded(n, Cardinality(Within(A)), Cardinality(Touching(A, O)), ScoreFoxes(b, "C"), "C")
<1> DEFINE v == ScoreFoxes(b, "C") w == Cardinality(Within(A)) t == Cardinality(Touching(A, O))
           upper == FoxCUpper(n, BipartiteHexEdgeUpper) Q == {<<i, 0, i>> : i \in 0..upper}
<1>1. PICK a \in [A -> Others] : v = SumFunction([f \in A |-> Count(b, Neighbors(f), a[f])])
  BY FoxesAssigned
<1> DEFINE e == [s \in Others |-> Cardinality(Touching(Assigned(A, a)[s], Positions(b, s)))]
           k == [s \in Others |-> Cardinality(Assigned(A, a)[s])]
           lattice == [s \in Others |-> BipartiteHexEdgeUpper[k[s]][n[s]]]
           planar == [s \in Others |-> BipartitePlanarUpper[k[s]][n[s]]]
<1>2. /\ e \in [Others -> Nat] /\ k \in [Others -> Nat]
      /\ v \in Nat /\ v = SumFunction(e) /\ v <= t /\ SumFunction(k) = Cardinality(A)
  BY <1>1, AssignedCells
<1>3. \A s \in Others : e[s] = Cardinality(Touching(Assigned(A, a)[s], Positions(b, s))) /\ k[s] = Cardinality(Assigned(A, a)[s])
  OBVIOUS
<1>4. "fox" \in Species /\ IsFiniteSet(Others) /\ \A s \in Others : s \in Species
  BY OthersFinite DEF Species
<1>5. Cardinality(A) = n["fox"] /\ n["fox"] \in 0..6 /\ n \in [Species -> 0..6] /\ w \in Nat /\ t \in Nat
  <2>1. Cardinality(A) = n["fox"] /\ n["fox"] \in 0..6 /\ IsFiniteSet(A) /\ IsFiniteSet(DOMAIN b)
    BY <1>4, CountedAre
  <2>2. IsFiniteSet(O)
    BY <2>1, FS_Subset
  <2>3. w \in Nat /\ t \in Nat
    BY <2>1, <2>2, EdgeCounts
  <2> QED BY <2>1, <2>3 DEF HasCounts
<1> HIDE DEF v, w, t, upper, e, k
<1>6. ASSUME NEW s \in Others
      PROVE /\ k[s] \in 0..n["fox"] /\ lattice[s] \in Nat /\ planar[s] \in Nat /\ e[s] <= lattice[s] /\ lattice[s] <= planar[s]
  <2> DEFINE K == Assigned(A, a)[s]
  <2>1. K \in SUBSET Positions(b, "fox")
    BY DEF Assigned
  <2>2. /\ Cardinality(K) \in 0..n["fox"] /\ n[s] \in 0..6
        /\ Cardinality(Touching(K, Positions(b, s))) <= BipartiteHexEdgeUpper[Cardinality(K)][n[s]]
    <3> HIDE DEF K
    <3> QED BY <2>1, LatticeEdges
  <2>3. k[s] = Cardinality(K) /\ e[s] = Cardinality(Touching(K, Positions(b, s)))
    BY <1>3
  <2> HIDE DEF K
  <2>4. k[s] \in 0..n["fox"] /\ k[s] \in 0..6 /\ e[s] <= BipartiteHexEdgeUpper[k[s]][n[s]]
    BY <1>5, <2>2, <2>3
  <2>5. /\ BipartiteHexEdgeUpper[k[s]][n[s]] \in Nat /\ BipartitePlanarUpper[k[s]][n[s]] \in Nat
        /\ BipartiteHexEdgeUpper[k[s]][n[s]] <= BipartitePlanarUpper[k[s]][n[s]]
    BY <2>2, <2>4, HexIs
  <2>6. lattice[s] = BipartiteHexEdgeUpper[k[s]][n[s]] /\ planar[s] = BipartitePlanarUpper[k[s]][n[s]]
    OBVIOUS
  <2> HIDE DEF lattice, planar
  <2> QED BY <2>4, <2>5, <2>6
<1>7. lattice \in [Others -> Nat] /\ planar \in [Others -> Nat]
  <2>1. lattice = [s \in Others |-> lattice[s]] /\ planar = [s \in Others |-> planar[s]]
    OBVIOUS
  <2> HIDE DEF lattice, planar
  <2> QED BY <1>6, <2>1
<1>8. k \in [Others -> 0..n["fox"]]
  BY <1>2, <1>6
<1>9. SumFunction(k) <= n["fox"]
  BY <1>2, <1>5
<1>10. upper \in Nat /\ SumFunction(lattice) \in Nat /\ SumFunction(lattice) <= upper
  <2>1. \A l, r \in 0..6 : BipartiteHexEdgeUpper[l][r] \in Nat /\ BipartiteHexEdgeUpper[l][r] <= 36
    <3> SUFFICES ASSUME NEW l \in 0..6, NEW r \in 0..6
                 PROVE BipartiteHexEdgeUpper[l][r] \in Nat /\ BipartiteHexEdgeUpper[l][r] <= 36
      OBVIOUS
    <3>1. BipartiteHexEdgeUpper[l][r] \in Nat /\ BipartiteHexEdgeUpper[l][r] <= 17
      BY HexIs
    <3> QED BY <3>1
  <2> QED BY <1>5, <1>8, <1>9, <2>1, AssignedBelow DEF upper
<1>11. FoxCUpper(n, BipartitePlanarUpper) \in Nat /\ SumFunction(planar) <= FoxCUpper(n, BipartitePlanarUpper)
  <2>1. \A l, r \in 0..6 : BipartitePlanarUpper[l][r] \in Nat /\ BipartitePlanarUpper[l][r] <= 36
    BY HexIs
  <2> QED BY <1>5, <1>8, <1>9, <2>1, AssignedBelow
<1>12. v <= SumFunction(lattice) /\ SumFunction(lattice) <= SumFunction(planar) /\ SumFunction(planar) \in Nat
  <2> HIDE DEF lattice, planar
  <2>1. SumFunction(e) <= SumFunction(lattice)
    BY <1>2, <1>4, <1>6, <1>7, SumsBelowEach
  <2>2. SumFunction(lattice) <= SumFunction(planar) /\ SumFunction(planar) \in Nat
    BY <1>4, <1>6, <1>7, SumsBelowEach
  <2> QED BY <1>2, <2>1, <2>2
<1> HIDE DEF lattice, planar
<1>13. v <= upper /\ v <= FoxCUpper(n, BipartitePlanarUpper)
  BY <1>2, <1>10, <1>11, <1>12
<1>14. IsProfiles(Q)
  <2> DEFINE h == [i \in 0..upper |-> <<i, 0, i>>]
  <2>1. Q = {h[i] : i \in 0..upper}
    OBVIOUS
  <2>2. IsFiniteSet(0..upper)
    <3>1. 0 \in Int /\ upper \in Int
      BY <1>10
    <3> QED BY <3>1, FS_Interval
  <2>3. Q \subseteq Triples
    BY <1>10 DEF Triples
  <2>4. IsFiniteSet(Q)
    <3> HIDE DEF h, Q
    <3> QED BY <2>1, <2>2, FiniteImage
  <2> QED BY <2>3, <2>4 DEF IsProfiles
<1>15. ASSUME NEW cross \in Nat, cross >= t PROVE ProfilesOffer(Q, v, w, cross)
  <2> DEFINE p == <<v, 0, v>>
  <2>1. v \in 0..upper
    BY <1>2, <1>10, <1>13
  <2>2. p \in Q
    BY <2>1
  <2>3. p[1] >= v /\ p[2] <= w /\ p[3] <= cross
    BY <1>2, <1>5, <1>15
  <2> HIDE DEF p, Q
  <2> QED BY <2>2, <2>3 DEF ProfilesOffer
<1>16. /\ FoxCount(n, "C") = upper /\ FoxCandidate(n, "C") = FoxCUpper(n, BipartitePlanarUpper)
       /\ FoxScoreDomain(n, "C") = 0..upper /\ FoxProfiles(n, "C") = Q
  BY DEF FoxCount, FoxCandidate, FoxScoreDomain, FoxProfiles, upper
<1> HIDE DEF Q
<1>17. v \in 0..upper
  BY <1>2, <1>10, <1>13
<1>18. FoxesBounded(n, w, t, v, "C")
  BY <1>2, <1>10, <1>11, <1>13, <1>14, <1>15, <1>16, <1>17 DEF FoxesBounded, Bounded
<1> QED BY <1>18 DEF v, w, t

-----------------------------------------------------------------------------
(* Foxes: card B.                                                           *)

\* How often foxes can see a second token, what a fox scores for it, and the search over foxes.
Doublings(n, limit) == SumOver(Others, LAMBDA s : limit[n["fox"]][n[s]])

FoxEntry(t) == Entry(<<0, 3, 5, 7>>, t)

FoxBSteps(reached, n, limit) ==
  /\ reached[0] = {<<0, 0>>}
  /\ \A i \in 1..n["fox"] :
       reached[i] = {x \in {<<y[1] + t, y[2] + FoxEntry(t)>> : y \in reached[i - 1], t \in 0..Least(3, Present(n, Others, 2))} :
                       x[1] <= Doublings(n, limit)}

\* The entries of card B.
LEMMA FoxEntryIs ==
  /\ FoxEntry(0) = 0 /\ FoxEntry(1) = 3 /\ FoxEntry(2) = 5 /\ FoxEntry(3) = 7
  /\ \A t \in 0..3 : FoxEntry(t) \in Nat /\ (t = 0 \/ (t \in 1..3 /\ FoxEntry(t) = <<3, 5, 7>>[t]))
  /\ \A d \in Nat : Least(3, d) \in 0..3 /\ Least(3, d) <= d /\ FoxEntry(d) = FoxEntry(Least(3, d))
<1>1. FoxEntry(0) = 0 /\ FoxEntry(1) = 3 /\ FoxEntry(2) = 5 /\ FoxEntry(3) = 7
  BY DEF FoxEntry, Entry
<1>2. ASSUME NEW t \in 0..3 PROVE FoxEntry(t) \in Nat /\ (t = 0 \/ (t \in 1..3 /\ FoxEntry(t) = <<3, 5, 7>>[t]))
  <2>1. t = 0 \/ t = 1 \/ t = 2 \/ t = 3
    OBVIOUS
  <2> QED BY <1>1, <2>1
<1>3. ASSUME NEW d \in Nat PROVE Least(3, d) \in 0..3 /\ Least(3, d) <= d /\ FoxEntry(d) = FoxEntry(Least(3, d))
  <2>1. CASE d <= 3
    <3>1. Least(3, d) = d
      BY <2>1 DEF Least
    <3> QED BY <2>1, <3>1
  <2>2. CASE d > 3
    <3>1. Least(3, d) = 3
      BY <2>2 DEF Least
    <3>2. FoxEntry(d) = 7
      BY <2>2 DEF FoxEntry, Entry
    <3> QED BY <1>1, <2>2, <3>1, <3>2
  <2> QED BY <2>1, <2>2
<1> QED BY <1>1, <1>2, <1>3

\* FoxBChoices is the last set of a search that adds one fox after the other.
LEMMA FoxBSearch ==
  ASSUME NEW n, NEW m, m = n["fox"], m \in Nat, NEW limit
  PROVE  \E reached \in [0..m -> SUBSET (Nat \X Nat)] :
           FoxBChoices(n, limit) = reached[m] /\ FoxBSteps(reached, n, limit)
<1> DEFINE T == SUBSET (Nat \X Nat) most == Doublings(n, limit) types == 0..Least(3, Present(n, Others, 2))
           onward(X) == {x \in {<<y[1] + t, y[2] + FoxEntry(t)>> : y \in X, t \in types} : x[1] <= most}
           zero == {<<0, 0>>}
           Eqn(s) == s = [i \in 0..m |-> IF i = 0 THEN zero ELSE onward(s[i - 1])]
           reached == CHOOSE s : Eqn(s)
           step == [X \in T |-> onward(X)]
<1>1. FoxBChoices(n, limit) = reached[m]
  BY DEF FoxBChoices, Doublings, FoxEntry
<1>2. types \subseteq 0..3
  <2>0. Present(n, Others, 2) \in 0..4
    BY PresentOthers
  <2>1. Present(n, Others, 2) \in Nat
    BY <2>0
  <2>2. Least(3, Present(n, Others, 2)) \in 0..3
    BY <2>1, FoxEntryIs
  <2> HIDE DEF FoxEntry
  <2> QED BY <2>2
<1> HIDE DEF types
<1>3. ASSUME NEW X \in T PROVE onward(X) \in T
  <2> SUFFICES ASSUME NEW y \in X, NEW t \in types PROVE <<y[1] + t, y[2] + FoxEntry(t)>> \in Nat \X Nat
    OBVIOUS
  <2>1. FoxEntry(t) \in Nat /\ t \in Nat
    BY <1>2, FoxEntryIs
  <2>2. y[1] \in Nat /\ y[2] \in Nat
    OBVIOUS
  <2> QED BY <2>1, <2>2
<1> HIDE DEF onward
<1>4. zero \in T /\ step \in [T -> T]
  <2>1. zero \in T
    OBVIOUS
  <2> HIDE DEF T
  <2> QED BY <1>3, <2>1
<1>5. PICK it : it \in [0..m -> T] /\ it[0] = zero /\ \A i \in 1..m : it[i] = step[it[i - 1]]
  <2>1. ASSUME NEW once \in [T -> T] PROVE \E it \in [0..m -> T] : Iterated(it, zero, once, m)
    <3> HIDE DEF zero, T
    <3> QED BY <1>4, Iterates
  <2>2. PICK it \in [0..m -> T] : Iterated(it, zero, step, m)
    <3> HIDE DEF zero, T, step
    <3> QED BY <1>4, <2>1
  <2> HIDE DEF zero, T, step
  <2> QED BY <2>2 DEF Iterated
<1>6. \A i \in 1..m : it[i] = onward(it[i - 1])
  <2> SUFFICES ASSUME NEW i \in 1..m PROVE it[i] = onward(it[i - 1])
    OBVIOUS
  <2>1. it[i - 1] \in T
    <3>1. i - 1 \in 0..m
      OBVIOUS
    <3> HIDE DEF T
    <3> QED BY <1>5, <3>1
  <2> HIDE DEF T
  <2> QED BY <1>5, <2>1
<1>7. Eqn(it)
  <2>1. it = [i \in 0..m |-> it[i]]
    <3> HIDE DEF zero, T
    <3> QED BY <1>5
  <2>2. \A i \in 0..m : it[i] = IF i = 0 THEN zero ELSE onward(it[i - 1])
    <3> HIDE DEF zero, T
    <3> QED BY <1>5, <1>6
  <2> HIDE DEF zero, T
  <2> QED BY <2>1, <2>2
<1>8. Eqn(reached)
  <2> HIDE DEF Eqn
  <2> QED BY <1>7
<1> HIDE DEF reached, zero
<1>9. /\ reached = [i \in 0..m |-> reached[i]]
      /\ \A i \in 0..m : reached[i] = IF i = 0 THEN zero ELSE onward(reached[i - 1])
  <2> HIDE DEF T
  <2>1. reached = [i \in 0..m |-> IF i = 0 THEN zero ELSE onward(reached[i - 1])]
    BY <1>8
  <2> QED BY <2>1
<1>10. \A i \in 0..m : reached[i] \in T
  <2> DEFINE Good == {i \in 0..m : reached[i] \in T}
  <2>1. \A i \in 0..m : (\A v \in 0..(i - 1) : v \in Good) => i \in Good
    <3> SUFFICES ASSUME NEW i \in 0..m, \A v \in 0..(i - 1) : v \in Good PROVE reached[i] \in T
      OBVIOUS
    <3> HIDE DEF T
    <3>1. CASE i = 0
      BY <1>4, <1>9, <3>1
    <3>2. CASE i # 0
      <4>1. i - 1 \in 0..(i - 1)
        BY <3>2
      <4>2. reached[i - 1] \in T
        BY <4>1
      <4> QED BY <1>3, <1>9, <3>2, <4>2
    <3> QED BY <3>1, <3>2
  <2> HIDE DEF Good, T
  <2>2. 0..m \subseteq Good
    BY <2>1, SmallerNumbers
  <2> QED BY <2>2 DEF Good
<1>11. reached \in [0..m -> T]
  <2> HIDE DEF T
  <2> QED BY <1>9, <1>10
<1>12. FoxBSteps(reached, n, limit)
  <2>1. reached[0] = zero
    <3>1. 0 \in 0..m
      OBVIOUS
    <3> HIDE DEF T
    <3> QED BY <1>9, <3>1
  <2>2. \A i \in 1..m : reached[i] = onward(reached[i - 1])
    <3> SUFFICES ASSUME NEW i \in 1..m PROVE reached[i] = onward(reached[i - 1])
      OBVIOUS
    <3> HIDE DEF T
    <3>1. i \in 0..m /\ i # 0
      OBVIOUS
    <3> QED BY <1>9, <3>1
  <2> HIDE DEF T
  <2> QED BY <2>1, <2>2 DEF FoxBSteps, zero, onward, types
<1> QED BY <1>1, <1>11, <1>12

\* The search reaches finitely many pairs.
LEMMA FoxBFinite ==
  ASSUME NEW n, NEW m, m = n["fox"], m \in Nat, NEW limit
  PROVE  IsFiniteSet(FoxBChoices(n, limit)) /\ FoxBChoices(n, limit) \subseteq Nat \X Nat
<1> DEFINE types == 0..Least(3, Present(n, Others, 2))
<1>1. PICK reached \in [0..m -> SUBSET (Nat \X Nat)] :
        FoxBChoices(n, limit) = reached[m] /\ FoxBSteps(reached, n, limit)
  BY FoxBSearch
<1>2. IsFiniteSet(types)
  <2>0. Present(n, Others, 2) \in 0..4
    BY PresentOthers
  <2>1. Present(n, Others, 2) \in Nat
    BY <2>0
  <2>2. Least(3, Present(n, Others, 2)) \in 0..3
    BY <2>1, FoxEntryIs
  <2> DEFINE top == Least(3, Present(n, Others, 2))
  <2>3. 0 \in Int /\ top \in Int
    BY <2>2
  <2> HIDE DEF top
  <2>4. IsFiniteSet(0..top)
    BY <2>3, FS_Interval
  <2> QED BY <2>4 DEF top
<1> HIDE DEF types
<1> DEFINE Good == {i \in 0..m : IsFiniteSet(reached[i])}
<1>3. ASSUME NEW i \in 0..m, \A v \in 0..(i - 1) : v \in Good PROVE i \in Good
  <2>1. CASE i = 0
    <3> DEFINE zero == <<0, 0>>
    <3>1. reached[0] = {zero}
      BY <1>1 DEF FoxBSteps
    <3> HIDE DEF zero
    <3>2. IsFiniteSet({zero})
      BY FS_Singleton
    <3> QED BY <2>1, <3>1, <3>2
  <2>2. CASE i # 0
    <3> DEFINE X == reached[i - 1] P == X \X types
               f == [p \in P |-> <<p[1][1] + p[2], p[1][2] + FoxEntry(p[2])>>]
               Y == {f[p] : p \in P}
    <3>1. i - 1 \in 0..(i - 1) /\ i \in 1..m
      BY <2>2
    <3>2. IsFiniteSet(X)
      BY <1>3, <3>1
    <3>3. reached[i] \subseteq Y
      <4> SUFFICES ASSUME NEW x \in reached[i] PROVE x \in Y
        OBVIOUS
      <4>1. PICK y \in X, t \in types : x = <<y[1] + t, y[2] + FoxEntry(t)>>
        BY <1>1, <3>1 DEF FoxBSteps, types
      <4>2. <<y, t>> \in P /\ f[<<y, t>>] = x
        BY <4>1
      <4> HIDE DEF f, P
      <4> QED BY <4>2
    <3> HIDE DEF X, f
    <3>4. IsFiniteSet(P)
      BY <1>2, <3>2, FS_Product
    <3> HIDE DEF P
    <3>5. IsFiniteSet(Y)
      BY <3>4, FiniteImage
    <3> HIDE DEF Y
    <3>6. IsFiniteSet(reached[i])
      BY <3>3, <3>5, FS_Subset
    <3> QED BY <3>6
  <2> QED BY <2>1, <2>2
<1>4. 0..m \subseteq Good
  <2> HIDE DEF Good
  <2> QED BY <1>3, SmallerNumbers
<1>5. m \in Good
  BY <1>4
<1>6. reached[m] \subseteq Nat \X Nat
  BY <1>1
<1> QED BY <1>1, <1>5, <1>6

\* The choice that some tokens' doublings make.
BReached(n, limit, most, worth) ==
  \E x \in FoxBChoices(n, limit) : x[1] \in Nat /\ x[1] <= most /\ x[2] = worth

\* Every assignment of doublings to foxes within the limit is reached.
LEMMA FoxBReaches ==
  ASSUME NEW n, NEW m, m = n["fox"], m \in Nat, NEW limit, NEW A, IsFiniteSet(A), Cardinality(A) = m,
         NEW d \in [A -> Nat], Doublings(n, limit) \in Nat, SumFunction(d) <= Doublings(n, limit),
         \A f \in A : d[f] <= Present(n, Others, 2)
  PROVE  BReached(n, limit, SumFunction(d), SumFunction([f \in A |-> FoxEntry(d[f])]))
<1> DEFINE types == 0..Least(3, Present(n, Others, 2)) most == Doublings(n, limit)
           t == [f \in A |-> Least(3, d[f])] e == [f \in A |-> FoxEntry(d[f])]
           T(s) == SumOn(t, s) E(s) == SumOn(e, s) D(s) == SumOn(d, s)
<1>1. PICK reached \in [0..m -> SUBSET (Nat \X Nat)] :
        FoxBChoices(n, limit) = reached[m] /\ FoxBSteps(reached, n, limit)
  BY FoxBSearch
<1>2. \A f \in A : /\ t[f] \in types /\ t[f] \in Nat /\ t[f] <= d[f] /\ e[f] = FoxEntry(t[f]) /\ e[f] \in Nat
  <2> SUFFICES ASSUME NEW f \in A
               PROVE t[f] \in types /\ t[f] \in Nat /\ t[f] <= d[f] /\ e[f] = FoxEntry(t[f]) /\ e[f] \in Nat
    OBVIOUS
  <2>1. t[f] = Least(3, d[f]) /\ e[f] = FoxEntry(d[f]) /\ d[f] \in Nat /\ d[f] <= Present(n, Others, 2)
    OBVIOUS
  <2>2. t[f] \in 0..3 /\ t[f] <= d[f] /\ e[f] = FoxEntry(t[f]) /\ FoxEntry(t[f]) \in Nat
    <3> HIDE DEF t, e
    <3> QED BY <2>1, FoxEntryIs
  <2>3. Present(n, Others, 2) \in 0..4
    BY PresentOthers
  <2>4. t[f] \in types
    <3> HIDE DEF t
    <3> QED BY <2>1, <2>2, <2>3 DEF Least
  <2> HIDE DEF t, e, types
  <2> QED BY <2>2, <2>4
<1>3. t \in [A -> Nat] /\ e \in [A -> Nat]
  <2>1. t = [f \in A |-> t[f]] /\ e = [f \in A |-> e[f]]
    OBVIOUS
  <2> HIDE DEF t, e, types
  <2> QED BY <1>2, <2>1
<1> HIDE DEF t, e
<1>4. /\ T({}) = 0 /\ E({}) = 0 /\ D(A) = SumFunction(d) /\ T(A) = SumFunction(t) /\ E(A) = SumFunction(e)
      /\ \A s \in SUBSET A : /\ T(s) \in Nat /\ T(s) <= T(A) /\ E(s) \in Nat
                            /\ \A p \in s : T(s) = T(s \ {p}) + t[p] /\ E(s) = E(s \ {p}) + e[p]
  BY <1>3, SumOnIs
<1>5. T(A) \in Nat /\ D(A) \in Nat /\ T(A) <= D(A)
  <2>1. SumFunction(t) \in Nat /\ SumFunction(d) \in Nat /\ SumFunction(t) <= SumFunction(d)
    BY <1>2, <1>3, SumsBelowEach
  <2> QED BY <1>4, <2>1
<1> HIDE DEF T, E, D
<1>6. \A s \in SUBSET A : T(s) \in Nat /\ T(s) <= most
  BY <1>4, <1>5
<1> HIDE DEF types, most
<1> DEFINE Good == {s \in SUBSET A : <<T(s), E(s)>> \in reached[Cardinality(s)]}
<1>7. {} \in Good
  <2>3. Cardinality({}) = 0
    BY FS_EmptySet
  <2> QED BY <1>1, <1>4, <2>3 DEF FoxBSteps
<1>8. ASSUME NEW s \in SUBSET A, s # {}, Rest(s) \in Good PROVE s \in Good
  <2> DEFINE p == Chosen(s) R == s \ {p} k == Cardinality(s)
  <2>1. /\ p \in s /\ R = Rest(s) /\ R \in SUBSET A /\ k \in Nat /\ k # 0 /\ Cardinality(R) = k - 1
    BY <1>8, RestIs DEF Rest
  <2>2. k <= m
    BY FS_Subset, PartSize
  <2>3. T(s) = T(R) + t[p]
    BY <1>4, <2>1
  <2>4. E(s) = E(R) + e[p]
    BY <1>4, <2>1
  <2>5. t[p] \in types /\ e[p] = FoxEntry(t[p])
    BY <1>2, <2>1
  <2>6. <<T(R), E(R)>> \in reached[k - 1]
    BY <1>8, <2>1
  <2>7. T(s) <= most
    BY <1>6
  <2> HIDE DEF p, R, k
  <2>8. k \in 1..m
    BY <2>1, <2>2
  <2> DEFINE y == <<T(R), E(R)>> x == <<y[1] + t[p], y[2] + FoxEntry(t[p])>>
  <2>9. x = <<T(s), E(s)>> /\ x[1] <= most
    BY <2>3, <2>4, <2>5, <2>7
  <2>10. y \in reached[k - 1] /\ t[p] \in types
    BY <2>5, <2>6
  <2> HIDE DEF y
  <2>11. x \in reached[k]
    <3>1. reached[k] = {z \in {<<u[1] + i, u[2] + FoxEntry(i)>> : u \in reached[k - 1], i \in types} : z[1] <= most}
      BY <1>1, <2>8 DEF FoxBSteps, types, most
    <3> QED BY <2>9, <2>10, <3>1
  <2> QED BY <2>9, <2>11 DEF k
<1>9. A \in Good
  <2> HIDE DEF Good
  <2>1. SUBSET A \subseteq Good
    BY <1>7, <1>8, ReachesSubsets
  <2> QED BY <2>1
<1>10. <<T(A), E(A)>> \in FoxBChoices(n, limit) /\ T(A) \in Nat /\ T(A) <= D(A)
  BY <1>1, <1>5, <1>9
<1> DEFINE x == <<T(A), E(A)>>
<1>11. x \in FoxBChoices(n, limit) /\ x[1] \in Nat /\ x[1] <= SumFunction(d) /\ x[2] = SumFunction(e)
  BY <1>4, <1>10
<1> HIDE DEF x
<1>12. BReached(n, limit, SumFunction(d), SumFunction(e))
  BY <1>11 DEF BReached
<1> QED BY <1>12 DEF e

\* The entries of the two tables of doublings.
LEMMA QualificationsAre ==
  ASSUME NEW left \in 0..6, NEW right \in 0..6
  PROVE  /\ FoxBQualifications[left][right] \in Nat /\ FoxBCommonNeighbors[left][right] \in Nat
         /\ FoxBQualifications[left][right] <= FoxBCommonNeighbors[left][right]
<1> DEFINE t == << <<0, 0, 0, 0, 0, 0, 0>>,
     <<0, 0, 1, 1, 1, 1, 1>>,
     <<0, 0, 2, 2, 2, 2, 2>>,
     <<0, 0, 2, 3, 3, 3, 3>>,
     <<0, 0, 2, 4, 4, 4, 4>>,
     <<0, 0, 2, 4, 5, 5, 5>>,
     <<0, 0, 2, 4, 6, 6, 6>> >>
           h == FoxBQualifications[left][right]
           c == IF right >= 2 THEN Least(left, right * (right - 1)) ELSE 0
<1>1. h = t[left + 1][right + 1]
  BY DEF FoxBQualifications
<1>2. FoxBCommonNeighbors[left][right] = c
  BY DEF FoxBCommonNeighbors
<1>3. left = 0 \/ left = 1 \/ left = 2 \/ left = 3 \/ left = 4 \/ left = 5 \/ left = 6
  OBVIOUS
<1>4. right = 0 \/ right = 1 \/ right = 2 \/ right = 3 \/ right = 4 \/ right = 5 \/ right = 6
  OBVIOUS
<1>5. /\ t[1] = <<0, 0, 0, 0, 0, 0, 0>>
      /\ t[2] = <<0, 0, 1, 1, 1, 1, 1>>
      /\ t[3] = <<0, 0, 2, 2, 2, 2, 2>>
      /\ t[4] = <<0, 0, 2, 3, 3, 3, 3>>
      /\ t[5] = <<0, 0, 2, 4, 4, 4, 4>>
      /\ t[6] = <<0, 0, 2, 4, 5, 5, 5>>
      /\ t[7] = <<0, 0, 2, 4, 6, 6, 6>>
  OBVIOUS
<1> HIDE DEF t, h
<1> DEFINE Fits(l, x) == x \in Nat /\ x <= l /\ (right < 2 => x = 0) /\ (right >= 2 => x <= right * (right - 1))
<1>6. Fits(left, h)
  <2>0. CASE left = 0
    <3>1. h = <<0, 0, 0, 0, 0, 0, 0>>[right + 1]
      BY <1>1, <1>5, <2>0
    <3>2. Fits(0, h)
      BY <1>4, <3>1
    <3> QED BY <2>0, <3>2
  <2>1. CASE left = 1
    <3>1. h = <<0, 0, 1, 1, 1, 1, 1>>[right + 1]
      BY <1>1, <1>5, <2>1
    <3>2. Fits(1, h)
      BY <1>4, <3>1
    <3> QED BY <2>1, <3>2
  <2>2. CASE left = 2
    <3>1. h = <<0, 0, 2, 2, 2, 2, 2>>[right + 1]
      BY <1>1, <1>5, <2>2
    <3>2. Fits(2, h)
      BY <1>4, <3>1
    <3> QED BY <2>2, <3>2
  <2>3. CASE left = 3
    <3>1. h = <<0, 0, 2, 3, 3, 3, 3>>[right + 1]
      BY <1>1, <1>5, <2>3
    <3>2. Fits(3, h)
      BY <1>4, <3>1
    <3> QED BY <2>3, <3>2
  <2>4. CASE left = 4
    <3>1. h = <<0, 0, 2, 4, 4, 4, 4>>[right + 1]
      BY <1>1, <1>5, <2>4
    <3>2. Fits(4, h)
      BY <1>4, <3>1
    <3> QED BY <2>4, <3>2
  <2>5. CASE left = 5
    <3>1. h = <<0, 0, 2, 4, 5, 5, 5>>[right + 1]
      BY <1>1, <1>5, <2>5
    <3>2. Fits(5, h)
      BY <1>4, <3>1
    <3> QED BY <2>5, <3>2
  <2>6. CASE left = 6
    <3>1. h = <<0, 0, 2, 4, 6, 6, 6>>[right + 1]
      BY <1>1, <1>5, <2>6
    <3>2. Fits(6, h)
      BY <1>4, <3>1
    <3> QED BY <2>6, <3>2
  <2> HIDE DEF Fits
  <2> QED BY <1>3, <2>0, <2>1, <2>2, <2>3, <2>4, <2>5, <2>6
<1>7. c \in Nat /\ h <= c /\ h \in Nat
  <2>1. right * (right - 1) \in Int /\ (right >= 2 => right * (right - 1) \in Nat)
    BY <1>4
  <2> QED BY <1>6, <2>1 DEF Least
<1> QED BY <1>2, <1>7 DEF h

\* Each species is doubled for no more foxes than the lattice lets see two of it.
LEMMA DoublingsCounted ==
  ASSUME LatticeAssumption, NEW b, NEW n, HasCounts(b, n), NEW A, A = Positions(b, "fox")
  PROVE  LET d == [f \in A |-> Doubled(b, Neighbors(f))]
         IN  /\ d \in [A -> Nat] /\ SumFunction(d) \in Nat
             /\ Doublings(n, FoxBQualifications) \in Nat /\ Doublings(n, FoxBCommonNeighbors) \in Nat
             /\ SumFunction(d) <= Doublings(n, FoxBQualifications)
             /\ SumFunction(d) <= Doublings(n, FoxBCommonNeighbors)
<1> DEFINE of == [f \in A |-> {s \in Others : Count(b, Neighbors(f), s) >= 2}] V == Marked(A, of)
           d == [f \in A |-> Doubled(b, Neighbors(f))]
           foxes == [s \in Others |-> {f \in A : Cardinality(Neighbors(f) \cap Positions(b, s)) >= 2}]
           by == [s \in Others |-> {p \in V : p[2] = s}]
           k == [s \in Others |-> Cardinality(by[s])]
           q == [s \in Others |-> FoxBQualifications[n["fox"]][n[s]]]
           c == [s \in Others |-> FoxBCommonNeighbors[n["fox"]][n[s]]]
<1>1. IsFiniteSet(A) /\ Cardinality(A) = n["fox"] /\ n["fox"] \in 0..6
  <2>1. "fox" \in Species
    BY DEF Species
  <2> QED BY <2>1, CountedAre
<1>2. \A f \in A : of[f] = {s \in Others : Count(b, Neighbors(f), s) >= 2} /\ IsFiniteSet(of[f]) /\ d[f] = Cardinality(of[f])
  <2> SUFFICES ASSUME NEW f \in A PROVE IsFiniteSet(of[f]) /\ d[f] = Cardinality(of[f])
    OBVIOUS
  <2>1. of[f] \subseteq Others
    OBVIOUS
  <2>2. IsFiniteSet(of[f])
    <3> HIDE DEF of
    <3> QED BY <2>1, OthersFinite, FS_Subset
  <2>3. d[f] = Cardinality(of[f])
    BY DEF Doubled
  <2> QED BY <2>2, <2>3
<1>3. [f \in A |-> Cardinality(of[f])] = d
  BY <1>2
<1>4. d \in [A -> Nat] /\ IsFiniteSet(V) /\ Cardinality(V) \in Nat /\ SumFunction(d) = Cardinality(V)
  <2> HIDE DEF of, d
  <2>1. /\ [f \in A |-> Cardinality(of[f])] \in [A -> Nat] /\ IsFiniteSet(Marked(A, of)) /\ Cardinality(Marked(A, of)) \in Nat
        /\ SumFunction([f \in A |-> Cardinality(of[f])]) = Cardinality(Marked(A, of))
    BY <1>1, <1>2, MarkedCells
  <2> QED BY <1>3, <2>1
<1>5. \A p \in V : p[1] \in A /\ p[2] \in Others /\ p[2] \in of[p[1]] /\ p = <<p[1], p[2]>>
  <2> SUFFICES ASSUME NEW p \in V PROVE p[1] \in A /\ p[2] \in Others /\ p[2] \in of[p[1]] /\ p = <<p[1], p[2]>>
    OBVIOUS
  <2>1. p[1] \in A /\ p[2] \in of[p[1]] /\ p = <<p[1], p[2]>>
    <3> HIDE DEF of
    <3> QED BY DEF Marked
  <2>2. p[2] \in Others
    BY <2>1
  <2> HIDE DEF of, V
  <2> QED BY <2>1, <2>2
<1>6. ASSUME NEW s \in Others
      PROVE  /\ IsFiniteSet(by[s]) /\ k[s] = Cardinality(by[s]) /\ k[s] \in Nat /\ q[s] \in Nat /\ c[s] \in Nat
             /\ k[s] <= q[s] /\ q[s] <= c[s]
  <2> DEFINE F == foxes[s] P == by[s] g == [p \in P |-> p[1]]
  <2>1. F \in SUBSET A /\ IsFiniteSet(F) /\ Cardinality(F) \in Nat
    <3>1. F \in SUBSET A
      OBVIOUS
    <3> HIDE DEF F
    <3> QED BY <1>1, <3>1, FS_Subset, FS_CardinalityType
  <2>2. Cardinality(F) <= FoxBQualifications[n["fox"]][n[s]] /\ n[s] \in 0..6
    <3>1. A \in SUBSET Positions(b, "fox")
      OBVIOUS
    <3>2. /\ Cardinality({f \in A : Cardinality(Neighbors(f) \cap Positions(b, s)) >= 2})
                <= FoxBQualifications[Cardinality(A)][n[s]]
          /\ n[s] \in 0..6
      BY <3>1, LatticeEdges
    <3> QED BY <1>1, <3>2
  <2>3. \A p \in P : p[1] \in F /\ p = <<p[1], s>>
    <3> SUFFICES ASSUME NEW p \in P PROVE p[1] \in F /\ p = <<p[1], s>>
      OBVIOUS
    <3>1. p \in V /\ p[2] = s
      <4> HIDE DEF V
      <4> QED OBVIOUS
    <3>2. p[1] \in A /\ s \in of[p[1]] /\ p = <<p[1], s>>
      <4> HIDE DEF V, of
      <4> QED BY <1>5, <3>1
    <3>3. Count(b, Neighbors(p[1]), s) >= 2
      <4> HIDE DEF V, of
      <4> QED BY <1>2, <3>2
    <3> QED BY <3>2, <3>3 DEF Count
  <2>4. g = [p \in P |-> g[p]] /\ (\A p \in P : g[p] \in F) /\ \A x, y \in P : g[x] = g[y] => x = y
    <3> HIDE DEF P, F
    <3> QED BY <2>3
  <2>5. IsFiniteSet(P) /\ Cardinality(P) \in Nat /\ Cardinality(P) <= Cardinality(F)
    <3> HIDE DEF g, P, F
    <3> QED BY <2>1, <2>4, InjectionSize
  <2>6. k[s] = Cardinality(P) /\ q[s] = FoxBQualifications[n["fox"]][n[s]] /\ c[s] = FoxBCommonNeighbors[n["fox"]][n[s]]
    OBVIOUS
  <2> HIDE DEF P, F, k, q, c
  <2>7. q[s] \in Nat /\ c[s] \in Nat /\ q[s] <= c[s]
    BY <1>1, <2>2, <2>6, QualificationsAre
  <2> QED BY <2>1, <2>2, <2>5, <2>6, <2>7 DEF P
<1>7. \A s, t \in Others : s # t => by[s] \cap by[t] = {}
  <2> HIDE DEF V
  <2> QED OBVIOUS
<1>8. \A p : p \in V <=> \E s \in Others : p \in by[s]
  <2>1. \A p \in V : p[2] \in Others
    <3> HIDE DEF V, of
    <3> QED BY <1>5
  <2> HIDE DEF V
  <2> QED BY <2>1
<1>9. /\ [s \in Others |-> Cardinality(by[s])] = k
      /\ Doublings(n, FoxBQualifications) = SumFunction(q) /\ Doublings(n, FoxBCommonNeighbors) = SumFunction(c)
  BY DEF Doublings, SumOver
<1>10. k \in [Others -> Nat] /\ q \in [Others -> Nat] /\ c \in [Others -> Nat]
  <2>1. k = [s \in Others |-> k[s]] /\ q = [s \in Others |-> q[s]] /\ c = [s \in Others |-> c[s]]
    OBVIOUS
  <2> HIDE DEF k, q, c
  <2> QED BY <1>6, <2>1
<1> HIDE DEF k, q, c, by, V, d
<1>11. Cardinality(V) = SumFunction(k)
  <2>1. \A s \in Others : IsFiniteSet(by[s])
    BY <1>6
  <2>2. Cardinality(V) = SumFunction([s \in Others |-> Cardinality(by[s])])
    BY <1>7, <1>8, <2>1, OthersFinite, SizesAddUp
  <2> QED BY <1>9, <2>2
<1>12. SumFunction(k) <= SumFunction(q) /\ SumFunction(k) \in Nat /\ SumFunction(q) \in Nat
  BY <1>6, <1>10, OthersFinite, SumsBelowEach
<1>13. SumFunction(q) <= SumFunction(c) /\ SumFunction(c) \in Nat
  BY <1>6, <1>10, OthersFinite, SumsBelowEach
<1> QED BY <1>4, <1>9, <1>11, <1>12, <1>13 DEF d

\* Scores of single tokens are a sum of groups of one.
LEMMA SinglesSum ==
  ASSUME NEW A, IsFiniteSet(A), NEW G, IsTriples(G), NEW w \in [A -> Nat],
         \A f \in A : w[f] = 0 \/ <<1, w[f], 0>> \in G
  PROVE  SumFunction(w) \in Sums(Cardinality(A), G) /\ SumFunction(w) \in Nat
<1> DEFINE m == Cardinality(A) W(s) == SumOn(w, s)
           Good == {s \in SUBSET A : \E x \in GroupSums(m, G) : x[1] <= Cardinality(s) /\ x[2] = W(s)}
<1>1. m \in Nat
  BY FS_CardinalityType
<1> HIDE DEF m
<1>2. /\ W({}) = 0 /\ W(A) = SumFunction(w)
      /\ \A s \in SUBSET A : W(s) \in Nat /\ \A p \in s : W(s) = W(s \ {p}) + w[p]
  BY SumOnIs
<1> HIDE DEF W
<1>3. {} \in Good
  <2> DEFINE x == <<0, 0, 0>>
  <2>1. x \in GroupSums(m, G) /\ x[1] = 0 /\ x[2] = 0
    BY <1>1, SumsGrow
  <2>2. Cardinality({}) = 0
    BY FS_EmptySet
  <2> HIDE DEF x
  <2> QED BY <1>2, <2>1, <2>2
<1>4. ASSUME NEW s \in SUBSET A, s # {}, Rest(s) \in Good PROVE s \in Good
  <2> DEFINE p == Chosen(s) R == s \ {p}
  <2>1. p \in s /\ R = Rest(s) /\ Cardinality(s) \in Nat /\ Cardinality(R) = Cardinality(s) - 1
    BY <1>4, RestIs DEF Rest
  <2>2. Cardinality(s) <= m
    BY PartSize DEF m
  <2>3. PICK x \in GroupSums(m, G) : x[1] <= Cardinality(R) /\ x[2] = W(R)
    BY <1>4, <2>1
  <2>4. W(s) = W(R) + w[p] /\ w[p] \in Nat /\ W(R) \in Nat /\ p \in A
    BY <1>2, <2>1
  <2>5. x \in Triples
    BY <1>1, SumsTyped
  <2> HIDE DEF p, R
  <2>6. CASE w[p] = 0
    <3>1. x[1] <= Cardinality(s) /\ x[2] = W(s)
      BY <2>1, <2>3, <2>4, <2>5, <2>6 DEF Triples
    <3> QED BY <3>1
  <2>7. CASE w[p] # 0
    <3> DEFINE g == <<1, w[p], 0>> y == Added(x, g)
    <3>1. g \in G
      BY <2>4, <2>7
    <3>2. x[1] \in Nat /\ x[2] \in Nat
      BY <2>5 DEF Triples
    <3>3. y[1] = x[1] + 1 /\ y[2] = x[2] + w[p] /\ g[1] = 1
      BY DEF Added
    <3> HIDE DEF g, y
    <3>4. x[1] + g[1] <= m
      BY <1>1, <2>1, <2>2, <2>3, <3>2, <3>3
    <3>5. y \in GroupSums(m, G)
      BY <1>1, <3>1, <3>4, SumsGrow DEF y
    <3>6. y[1] <= Cardinality(s) /\ y[2] = W(s)
      BY <2>1, <2>3, <2>4, <3>2, <3>3
    <3> QED BY <3>5, <3>6
  <2> QED BY <2>6, <2>7
<1>5. A \in Good
  <2> HIDE DEF Good
  <2>1. SUBSET A \subseteq Good
    BY <1>3, <1>4, ReachesSubsets
  <2> QED BY <2>1
<1>6. PICK x \in GroupSums(m, G) : x[2] = W(A)
  BY <1>5
<1> QED BY <1>2, <1>6 DEF Sums, m

\* What an outlook of foxes asks of their neighbors.
LEMMA OutlookEdges ==
  ASSUME NEW b, NEW n, HasCounts(b, n), NEW A, A = Positions(b, "fox"), NEW O, O = DOMAIN b \ A,
         NEW d \in [A -> Nat], NEW e \in [A -> Nat],
         \A f \in A : d[f] + e[f] <= Cardinality(Neighbors(f) \cap O)
  PROVE  /\ SumFunction(d) \in Nat /\ SumFunction(e) \in Nat /\ Cardinality(Touching(A, O)) \in Nat
         /\ SumFunction(d) + SumFunction(e) <= Cardinality(Touching(A, O))
<1> DEFINE of == [f \in A |-> Neighbors(f) \cap O] V == Marked(A, of) w == [f \in A |-> Cardinality(of[f])]
<1>1. IsFiniteSet(A) /\ IsFiniteSet(DOMAIN b) /\ IsFiniteSet(O)
  <2>1. "fox" \in Species
    BY DEF Species
  <2>2. IsFiniteSet(A) /\ IsFiniteSet(DOMAIN b)
    BY <2>1, CountedAre
  <2>3. O \subseteq DOMAIN b
    OBVIOUS
  <2> QED BY <2>2, <2>3, FS_Subset
<1>2. \A f \in A : of[f] = Neighbors(f) \cap O /\ IsFiniteSet(of[f])
  <2> SUFFICES ASSUME NEW f \in A PROVE IsFiniteSet(of[f])
    OBVIOUS
  <2>1. of[f] \subseteq O
    OBVIOUS
  <2> HIDE DEF of
  <2> QED BY <1>1, <2>1, FS_Subset
<1>3. \A f \in A : w[f] = Cardinality(of[f])
  OBVIOUS
<1>4. V \subseteq Touching(A, O)
  <2> SUFFICES ASSUME NEW p \in V PROVE p \in Touching(A, O)
    OBVIOUS
  <2>1. p[1] \in A /\ p[2] \in of[p[1]] /\ p = <<p[1], p[2]>>
    <3> HIDE DEF of
    <3> QED BY DEF Marked
  <2>2. p[2] \in Neighbors(p[1]) /\ p[2] \in O
    BY <1>2, <2>1
  <2> QED BY <2>1, <2>2 DEF Touching
<1> HIDE DEF of
<1>5. w \in [A -> Nat] /\ SumFunction(w) = Cardinality(V)
  BY <1>1, <1>2, MarkedCells
<1> HIDE DEF w, V
<1>6. Cardinality(V) <= Cardinality(Touching(A, O)) /\ Cardinality(Touching(A, O)) \in Nat
  <2>1. IsFiniteSet(Touching(A, O))
    BY <1>1, EdgeCounts
  <2> QED BY <1>4, <2>1, PartSize
<1>7. \A f \in A : d[f] + e[f] <= w[f]
  BY <1>2, <1>3
<1>8. /\ SumFunction(d) \in Nat /\ SumFunction(e) \in Nat /\ SumFunction(w) \in Nat
      /\ SumFunction(d) + SumFunction(e) <= SumFunction(w)
  BY <1>1, <1>5, <1>7, SumsCompare
<1> QED BY <1>5, <1>6, <1>8

\* Groups of one fox, by its entry.
FoxSingles(present) == {<<1, <<3, 5, 7>>[i], 0>> : i \in 1..present}

\* These are triples.
LEMMA FoxSinglesAre ==
  ASSUME NEW top \in 0..3
  PROVE  /\ IsTriples(FoxSingles(top))
         /\ \A t \in 0..top : FoxEntry(t) \in Nat /\ (FoxEntry(t) = 0 \/ <<1, FoxEntry(t), 0>> \in FoxSingles(top))
<1> DEFINE G == FoxSingles(top)
<1>1. \A g \in G : g \in Triples /\ g[1] > 0
  <2> SUFFICES ASSUME NEW g \in G PROVE g \in Triples /\ g[1] > 0
    OBVIOUS
  <2>1. PICK i \in 1..top : g = <<1, <<3, 5, 7>>[i], 0>>
    BY DEF FoxSingles
  <2>2. i = 1 \/ i = 2 \/ i = 3
    OBVIOUS
  <2>3. <<3, 5, 7>>[i] \in Nat
    BY <2>2
  <2> QED BY <2>1, <2>3 DEF Triples
<1>2. IsFiniteSet(G)
  <2> DEFINE h == [i \in 1..top |-> <<1, <<3, 5, 7>>[i], 0>>]
  <2>1. G = {h[i] : i \in 1..top}
    BY DEF FoxSingles
  <2>2. IsFiniteSet(1..top)
    BY FS_Interval
  <2> HIDE DEF h, G
  <2> QED BY <2>1, <2>2, FiniteImage
<1>3. ASSUME NEW t \in 0..top PROVE FoxEntry(t) \in Nat /\ (FoxEntry(t) = 0 \/ <<1, FoxEntry(t), 0>> \in G)
  <2>1. t \in 0..3
    OBVIOUS
  <2>2. FoxEntry(t) \in Nat /\ FoxEntry(0) = 0 /\ (t = 0 \/ (t \in 1..3 /\ FoxEntry(t) = <<3, 5, 7>>[t]))
    BY <2>1, FoxEntryIs
  <2>3. CASE t = 0
    BY <2>2, <2>3
  <2>4. CASE t # 0
    <3>1. t \in 1..top
      BY <2>4
    <3>2. <<1, <<3, 5, 7>>[t], 0>> \in G
      BY <3>1 DEF FoxSingles
    <3> HIDE DEF G
    <3> QED BY <2>2, <2>4, <3>2
  <2> QED BY <2>3, <2>4
<1> HIDE DEF G
<1>4. IsTriples(G)
  BY <1>1, <1>2 DEF IsTriples
<1> QED BY <1>3, <1>4 DEF G

\* FoxBUpper is at least the worth of what the search reaches.
LEMMA BUpper ==
  ASSUME NEW n, NEW m, m = n["fox"], m \in Nat, NEW limit, NEW most, NEW worth \in Nat, BReached(n, limit, most, worth)
  PROVE  FoxBUpper(n, limit) \in Nat /\ worth <= FoxBUpper(n, limit)
<1> DEFINE C == FoxBChoices(n, limit) S == {x[2] : x \in C} f == [x \in C |-> x[2]]
<1>1. IsFiniteSet(C) /\ C \subseteq Nat \X Nat
  BY FoxBFinite
<1>2. \E x \in C : x[2] = worth
  BY DEF BReached
<1>3. FoxBUpper(n, limit) = Max(S)
  BY DEF FoxBUpper
<1> HIDE DEF C
<1>4. S \subseteq Nat /\ worth \in S
  BY <1>1, <1>2
<1>5. S = {f[x] : x \in C}
  OBVIOUS
<1> HIDE DEF f, S
<1>6. IsFiniteSet(S)
  BY <1>1, <1>5, FiniteImage
<1>7. Max(S) \in S /\ worth <= Max(S)
  BY <1>4, <1>6, GreatestIn
<1> QED BY <1>3, <1>4, <1>7

\* Card B: each fox by the species doubled around it.
LEMMA FoxesByDoubles ==
  ASSUME LatticeAssumption, NEW b, NEW n, HasCounts(b, n), NEW A, A = Positions(b, "fox"), NEW O, O = DOMAIN b \ A
  PROVE  FoxesBounded(n, Cardinality(Within(A)), Cardinality(Touching(A, O)), ScoreFoxes(b, "B"), "B")
<1> DEFINE v == ScoreFoxes(b, "B") w == Cardinality(Within(A)) t == Cardinality(Touching(A, O)) m == n["fox"]
           d == [f \in A |-> Doubled(b, Neighbors(f))] e == [f \in A |-> FoxEntry(d[f])]
           C == FoxBChoices(n, FoxBQualifications) Q == {<<x[2], 0, 2 * x[1]>> : x \in C}
           top == Least(3, Present(n, Others, 2)) G == FoxSingles(top)
<1>1. /\ d \in [A -> Nat] /\ SumFunction(d) \in Nat
      /\ Doublings(n, FoxBQualifications) \in Nat /\ Doublings(n, FoxBCommonNeighbors) \in Nat
      /\ SumFunction(d) <= Doublings(n, FoxBQualifications)
      /\ SumFunction(d) <= Doublings(n, FoxBCommonNeighbors)
  BY DoublingsCounted
<1>2. IsFiniteSet(A) /\ Cardinality(A) = m /\ m \in 0..6 /\ IsFiniteSet(DOMAIN b) /\ m \in Nat /\ w \in Nat
  <2>1. "fox" \in Species
    BY DEF Species
  <2>2. IsFiniteSet(A) /\ Cardinality(A) = m /\ m \in 0..6 /\ IsFiniteSet(DOMAIN b)
    BY <2>1, CountedAre
  <2>3. w \in Nat
    BY <2>2, EdgeCounts
  <2> QED BY <2>2, <2>3
<1>3. ASSUME NEW f \in A
      PROVE  d[f] <= Present(n, Others, 2) /\ d[f] + d[f] <= Cardinality(Neighbors(f) \cap O)
  <2>1. d[f] = Doubled(b, Neighbors(f))
    OBVIOUS
  <2>2. Doubled(b, Neighbors(f)) <= Present(n, Others, 2)
    BY DoubledPresent
  <2>3. 2 * Doubled(b, Neighbors(f)) <= Cardinality(Neighbors(f) \cap O) /\ Doubled(b, Neighbors(f)) \in Nat
    BY <1>2, DoubledCells
  <2> HIDE DEF d
  <2>4. 2 * Doubled(b, Neighbors(f)) = Doubled(b, Neighbors(f)) + Doubled(b, Neighbors(f))
    BY <2>3
  <2> QED BY <2>1, <2>2, <2>3, <2>4
<1>4. v = SumFunction(e)
  <2>1. ScoreFoxes(b, "B") = SumFunction([fox \in A |-> ScoreFox(b, fox, "B")])
    BY DEF ScoreFoxes
  <2>2. \A f \in A : ScoreFox(b, f, "B") = e[f]
    BY DEF ScoreFox, FoxEntry
  <2>3. [fox \in A |-> ScoreFox(b, fox, "B")] = e
    BY <2>2
  <2> QED BY <2>1, <2>3
<1>5. e = [f \in A |-> FoxEntry(d[f])] /\ \A f \in A : e[f] = FoxEntry(d[f]) /\ d[f] \in Nat
  <2>1. e = [f \in A |-> FoxEntry(d[f])] /\ \A f \in A : e[f] = FoxEntry(d[f])
    OBVIOUS
  <2> HIDE DEF e, d
  <2> QED BY <1>1, <2>1
<1> HIDE DEF d, e
<1>6. top \in 0..3 /\ \A i \in Nat : i <= Present(n, Others, 2) => Least(3, i) <= top
  <2>0. Present(n, Others, 2) \in 0..4
    BY PresentOthers
  <2> QED BY <2>0 DEF Least
<1> HIDE DEF top
<1>7. \A f \in A : e[f] \in Nat /\ (e[f] = 0 \/ <<1, e[f], 0>> \in G)
  <2> SUFFICES ASSUME NEW f \in A PROVE e[f] \in Nat /\ (e[f] = 0 \/ <<1, e[f], 0>> \in G)
    OBVIOUS
  <2>1. d[f] \in Nat /\ d[f] <= Present(n, Others, 2) /\ e[f] = FoxEntry(d[f])
    BY <1>3, <1>5
  <2>2. Least(3, d[f]) \in 0..3 /\ FoxEntry(d[f]) = FoxEntry(Least(3, d[f]))
    BY <2>1, FoxEntryIs
  <2>3. Least(3, d[f]) \in 0..top
    BY <1>6, <2>1, <2>2
  <2> HIDE DEF G
  <2> QED BY <1>6, <2>1, <2>2, <2>3, FoxSinglesAre DEF G
<1>8. e \in [A -> Nat]
  BY <1>5, <1>7
<1>9. IsTriples(G)
  BY <1>6, FoxSinglesAre
<1> HIDE DEF G
<1>10. v \in Sums(m, G) /\ v \in Nat
  BY <1>2, <1>4, <1>7, <1>8, <1>9, SinglesSum
<1>11. SumFunction(d) + SumFunction(d) <= t /\ t \in Nat
  BY <1>1, <1>3, OutlookEdges
<1> HIDE DEF m, v, w, t
<1>12. BReached(n, FoxBQualifications, SumFunction(d), v)
  <2>1. n["fox"] \in Nat /\ Cardinality(A) = n["fox"] /\ \A f \in A : d[f] <= Present(n, Others, 2)
    BY <1>2, <1>3 DEF m
  <2>2. BReached(n, FoxBQualifications, SumFunction(d), SumFunction([f \in A |-> FoxEntry(d[f])]))
    BY <1>1, <1>2, <2>1, FoxBReaches
  <2> QED BY <1>4, <1>5, <2>2
<1>13. BReached(n, FoxBCommonNeighbors, SumFunction(d), v)
  <2>1. n["fox"] \in Nat /\ Cardinality(A) = n["fox"] /\ \A f \in A : d[f] <= Present(n, Others, 2)
    BY <1>2, <1>3 DEF m
  <2>2. BReached(n, FoxBCommonNeighbors, SumFunction(d), SumFunction([f \in A |-> FoxEntry(d[f])]))
    BY <1>1, <1>2, <2>1, FoxBReaches
  <2> QED BY <1>4, <1>5, <2>2
<1>14. FoxBUpper(n, FoxBQualifications) \in Nat /\ v <= FoxBUpper(n, FoxBQualifications)
  BY <1>2, <1>10, <1>12, BUpper DEF m
<1>15. FoxBUpper(n, FoxBCommonNeighbors) \in Nat /\ v <= FoxBUpper(n, FoxBCommonNeighbors)
  BY <1>2, <1>10, <1>13, BUpper DEF m
<1>16. PICK x \in C : x[1] \in Nat /\ x[1] <= SumFunction(d) /\ x[2] = v
  BY <1>12 DEF BReached
<1>17. IsFiniteSet(C) /\ C \subseteq Nat \X Nat
  BY <1>2, FoxBFinite DEF m
<1>18. /\ FoxCount(n, "B") = FoxBUpper(n, FoxBQualifications) /\ FoxCandidate(n, "B") = FoxBUpper(n, FoxBCommonNeighbors)
       /\ FoxScoreDomain(n, "B") = Sums(m, G) /\ FoxProfiles(n, "B") = Efficient(Q)
  BY DEF FoxCount, FoxCandidate, FoxScoreDomain, FoxProfiles, m, G, top, FoxSingles
<1> HIDE DEF C
<1>19. IsProfiles(Q)
  <2> DEFINE h == [z \in C |-> <<z[2], 0, 2 * z[1]>>]
  <2>1. Q = {h[z] : z \in C}
    OBVIOUS
  <2>2. Q \subseteq Triples
    BY <1>17 DEF Triples
  <2> HIDE DEF h, Q
  <2>3. IsFiniteSet(Q)
    BY <1>17, <2>1, FiniteImage
  <2> QED BY <2>2, <2>3 DEF IsProfiles
<1>20. ASSUME NEW cross \in Nat, cross >= t PROVE IsProfiles(Efficient(Q)) /\ ProfilesOffer(Efficient(Q), v, w, cross)
  <2> DEFINE p == <<x[2], 0, 2 * x[1]>>
  <2>1. p \in Q
    OBVIOUS
  <2>2. p[1] >= v /\ p[2] <= w /\ p[3] <= cross
    <3>1. 2 * x[1] <= cross
      BY <1>1, <1>11, <1>16, <1>20
    <3> QED BY <1>2, <1>10, <1>16, <3>1
  <2> HIDE DEF p, Q
  <2>3. ProfilesOffer(Q, v, w, cross)
    BY <2>1, <2>2 DEF ProfilesOffer
  <2> QED BY <1>2, <1>10, <1>19, <2>3, EfficientOffers
<1> HIDE DEF Q
<1>21. FoxesBounded(n, w, t, v, "B")
  BY <1>10, <1>14, <1>15, <1>18, <1>20 DEF FoxesBounded, Bounded
<1> QED BY <1>21 DEF v, w, t

-----------------------------------------------------------------------------
(* Foxes: card A.                                                           *)

\* A token of each species.
Picks(b, T) == {g \in [T -> DOMAIN b] : \A s \in T : g[s] \in Positions(b, s)}

\* With one more species there are n[p] times as many.
LEMMA PicksOneMore ==
  ASSUME NEW b, NEW n, HasCounts(b, n), NEW T \in SUBSET Others, NEW p \in T, IsFiniteSet(Picks(b, T \ {p}))
  PROVE  /\ IsFiniteSet(Picks(b, T)) /\ Cardinality(Picks(b, T \ {p})) \in Nat
         /\ Cardinality(Picks(b, T)) = Cardinality(Picks(b, T \ {p})) * n[p]
<1> DEFINE P == Picks(b, T \ {p}) B == Positions(b, p) V == P \X B W == Picks(b, T)
           f == [x \in V |-> [s \in T |-> IF s = p THEN x[2] ELSE x[1][s]]]
<1>1. IsFiniteSet(B) /\ Cardinality(B) = n[p] /\ B \subseteq DOMAIN b
  <2>1. p \in Species
    BY OthersFinite
  <2> QED BY <2>1, CountedAre
<1>2. IsFiniteSet(V) /\ Cardinality(V) = Cardinality(P) * Cardinality(B) /\ Cardinality(P) \in Nat
  BY <1>1, FS_Product, FS_CardinalityType
<1>3. \A x \in V : f[x] \in W
  <2> SUFFICES ASSUME NEW g \in P, NEW c \in B
               PROVE [s \in T |-> IF s = p THEN c ELSE g[s]] \in W
    OBVIOUS
  <2>1. g \in [T \ {p} -> DOMAIN b] /\ \A s \in T \ {p} : g[s] \in Positions(b, s)
    BY DEF Picks
  <2> QED BY <1>1, <2>1 DEF Picks
<1>4. \A g \in W : \E x \in V : f[x] = g
  <2> SUFFICES ASSUME NEW g \in W PROVE \E x \in V : f[x] = g
    OBVIOUS
  <2> DEFINE r == [s \in T \ {p} |-> g[s]] x == <<r, g[p]>>
  <2>1. g \in [T -> DOMAIN b] /\ \A s \in T : g[s] \in Positions(b, s)
    BY DEF Picks
  <2>2. r \in P /\ g[p] \in B
    BY <2>1 DEF Picks
  <2>3. \A s \in T : (IF s = p THEN g[p] ELSE r[s]) = g[s]
    OBVIOUS
  <2>4. x \in V /\ f[x] = [s \in T |-> IF s = p THEN g[p] ELSE r[s]]
    BY <2>2
  <2>5. f[x] = g
    BY <2>1, <2>3, <2>4
  <2> HIDE DEF f, V, x
  <2> QED BY <2>4, <2>5
<1>5. \A x, y \in V : f[x] = f[y] => x = y
  <2> SUFFICES ASSUME NEW x \in V, NEW y \in V, f[x] = f[y] PROVE x = y
    OBVIOUS
  <2>1. \A z \in V : f[z][p] = z[2] /\ \A s \in T \ {p} : f[z][s] = z[1][s]
    OBVIOUS
  <2> HIDE DEF f
  <2>2. x[2] = y[2] /\ \A s \in T \ {p} : x[1][s] = y[1][s]
    <3>1. f[x][p] = x[2] /\ \A s \in T \ {p} : f[x][s] = x[1][s]
      BY <2>1
    <3>2. f[y][p] = y[2] /\ \A s \in T \ {p} : f[y][s] = y[1][s]
      BY <2>1
    <3> HIDE DEF V
    <3> QED BY <3>1, <3>2
  <2>3. x = <<x[1], x[2]>> /\ y = <<y[1], y[2]>> /\ x[1] \in P /\ y[1] \in P
    OBVIOUS
  <2>4. x[1] \in [T \ {p} -> DOMAIN b] /\ y[1] \in [T \ {p} -> DOMAIN b]
    BY <2>3 DEF Picks
  <2> HIDE DEF V
  <2>5. x[1] = y[1]
    BY <2>2, <2>4
  <2> QED BY <2>2, <2>3, <2>5
<1>6. f = [x \in V |-> f[x]]
  OBVIOUS
<1> HIDE DEF f, V, W
<1>7. IsFiniteSet(W) /\ Cardinality(W) = Cardinality(V)
  BY <1>2, <1>3, <1>4, <1>5, <1>6, ImageSize
<1> QED BY <1>1, <1>2, <1>7 DEF W

\* There is one choice from no species.
LEMMA PicksOfNone ==
  ASSUME NEW b
  PROVE  IsFiniteSet(Picks(b, {})) /\ Cardinality(Picks(b, {})) = 1
<1> DEFINE e == [s \in {} |-> 0]
<1>1. Picks(b, {}) = {e}
  BY DEF Picks
<1> HIDE DEF e
<1>2. IsFiniteSet({e}) /\ Cardinality({e}) = 1
  BY FS_Singleton
<1> QED BY <1>1, <1>2

\* The product that the code forms over the species of T.
Product(n, k, T) == FoldSet(LAMBDA s, c : c * n[s], k, T)

\* It is k times the number of choices.
LEMMA PicksCounted ==
  ASSUME NEW b, NEW n, HasCounts(b, n), NEW T \in SUBSET Others, NEW k \in Nat
  PROVE  /\ IsFiniteSet(Picks(b, T)) /\ Cardinality(Picks(b, T)) \in Nat
         /\ Product(n, k, T) = k * Cardinality(Picks(b, T))
<1> DEFINE Eqn(h) == h = [s \in SUBSET T |-> IF s = {} THEN k
                                             ELSE h[s \ {CHOOSE x \in s : TRUE}] * n[CHOOSE x \in s : TRUE]]
           found == CHOOSE h : Eqn(h)
           it == [s \in SUBSET T |-> k * Cardinality(Picks(b, s))]
           Good == {s \in SUBSET T : /\ IsFiniteSet(Picks(b, s)) /\ Cardinality(Picks(b, s)) \in Nat}
<1>0. IsFiniteSet(T)
  BY OthersFinite, FS_Subset
<1>1. Product(n, k, T) = found[T]
  BY DEF Product, FoldSet, MapThenFoldSet
<1>2. {} \in Good
  BY PicksOfNone
<1>3. ASSUME NEW s \in SUBSET T, s # {}, Rest(s) \in Good PROVE s \in Good
  <2>1. Chosen(s) \in s /\ s \in SUBSET Others
    BY <1>0, <1>3, RestIs
  <2>2. IsFiniteSet(Picks(b, s))
    BY <1>3, <2>1, PicksOneMore DEF Rest
  <2> QED BY <2>2, FS_CardinalityType
<1>4. SUBSET T \subseteq Good
  <2> HIDE DEF Good
  <2> QED BY <1>0, <1>2, <1>3, ReachesSubsets
<1>5. \A s \in SUBSET T : IsFiniteSet(Picks(b, s)) /\ Cardinality(Picks(b, s)) \in Nat
  BY <1>4
<1>6. \A s \in SUBSET T : it[s] = IF s = {} THEN k ELSE it[Rest(s)] * n[Chosen(s)]
  <2> SUFFICES ASSUME NEW s \in SUBSET T PROVE it[s] = IF s = {} THEN k ELSE it[Rest(s)] * n[Chosen(s)]
    OBVIOUS
  <2>1. CASE s = {}
    <3>1. it[s] = k * 1
      BY <2>1, PicksOfNone
    <3> QED BY <2>1, <3>1
  <2>2. CASE s # {}
    <3>1. Chosen(s) \in s /\ s \in SUBSET Others /\ Rest(s) \in SUBSET T
      BY <1>0, <2>2, RestIs
    <3>2. IsFiniteSet(Picks(b, s \ {Chosen(s)})) /\ Cardinality(Picks(b, s \ {Chosen(s)})) \in Nat
      BY <1>5, <3>1 DEF Rest
    <3>3. Cardinality(Picks(b, s)) = Cardinality(Picks(b, s \ {Chosen(s)})) * n[Chosen(s)]
      BY <3>1, <3>2, PicksOneMore
    <3>4. it[s] = k * Cardinality(Picks(b, s)) /\ it[Rest(s)] = k * Cardinality(Picks(b, s \ {Chosen(s)}))
      BY <3>1 DEF Rest
    <3>5. n[Chosen(s)] \in Nat
      <4>1. Chosen(s) \in Species
        BY <3>1, OthersFinite
      <4> QED BY <4>1 DEF HasCounts
    <3> HIDE DEF it
    <3> DEFINE a == Cardinality(Picks(b, s \ {Chosen(s)})) d == n[Chosen(s)]
    <3>6. k * (a * d) = (k * a) * d
      <4>1. a \in Nat /\ d \in Nat
        BY <3>2, <3>5
      <4> HIDE DEF a, d
      <4> QED BY <4>1
    <3> QED BY <2>2, <3>3, <3>4, <3>6
  <2> QED BY <2>1, <2>2
<1>7. Eqn(it)
  <2>1. it = [s \in SUBSET T |-> it[s]]
    OBVIOUS
  <2>2. \A s \in SUBSET T : it[s] = IF s = {} THEN k ELSE it[s \ {CHOOSE x \in s : TRUE}] * n[CHOOSE x \in s : TRUE]
    <3> HIDE DEF it
    <3> QED BY <1>6 DEF Rest, Chosen
  <2> HIDE DEF it
  <2> QED BY <2>1, <2>2
<1>8. Eqn(found)
  <2> HIDE DEF Eqn
  <2> QED BY <1>7
<1> HIDE DEF found
<1>9. \A s \in SUBSET T : found[s] = IF s = {} THEN k ELSE found[Rest(s)] * n[Chosen(s)]
  <2>1. found = [s \in SUBSET T |-> IF s = {} THEN k
                                    ELSE found[s \ {CHOOSE x \in s : TRUE}] * n[CHOOSE x \in s : TRUE]]
    BY <1>8
  <2>2. \A s \in SUBSET T : found[s] = IF s = {} THEN k
                                    ELSE found[s \ {CHOOSE x \in s : TRUE}] * n[CHOOSE x \in s : TRUE]
    BY <2>1
  <2> QED BY <2>2 DEF Rest, Chosen
<1> DEFINE Same == {s \in SUBSET T : found[s] = it[s]}
<1> HIDE DEF it
<1>10. {} \in Same
  BY <1>6, <1>9
<1>11. ASSUME NEW s \in SUBSET T, s # {}, Rest(s) \in Same PROVE s \in Same
  BY <1>6, <1>9, <1>11
<1>12. T \in Same
  <2> HIDE DEF Same
  <2>1. SUBSET T \subseteq Same
    BY <1>0, <1>10, <1>11, ReachesSubsets
  <2> QED BY <2>1
<1>13. it[T] = k * Cardinality(Picks(b, T))
  BY DEF it
<1> QED BY <1>1, <1>5, <1>12, <1>13

\* The species a fox sees; the foxes that see all of T; the tokens a fox sees them by.
View(b, f) == Types(b, Neighbors(f)) \ {"fox"}

Seers(b, A, T) == {f \in A : T \subseteq View(b, f)}

Pick(b, f, T) == [s \in T |-> CHOOSE c \in Neighbors(f) : c \in Positions(b, s)]

\* A fox that sees T makes a choice of neighbors.
LEMMA PickIs ==
  ASSUME NEW b, NEW n, HasCounts(b, n), NEW f, NEW T \in SUBSET Others, T \subseteq View(b, f)
  PROVE  /\ Pick(b, f, T) \in Picks(b, T)
         /\ \A s \in T : Pick(b, f, T)[s] \in Neighbors(f) /\ Pick(b, f, T)[s] \in Positions(b, s)
         /\ \A s, t \in T : s # t => Pick(b, f, T)[s] # Pick(b, f, T)[t]
<1> DEFINE g == Pick(b, f, T)
<1>1. ASSUME NEW s \in T PROVE g[s] \in Neighbors(f) /\ g[s] \in Positions(b, s) /\ g[s] \in DOMAIN b
  <2>1. s \in Types(b, Neighbors(f))
    BY DEF View
  <2>2. \E c \in Neighbors(f) : c \in Positions(b, s)
    BY <2>1 DEF Types, Positions
  <2>3. g[s] = CHOOSE c \in Neighbors(f) : c \in Positions(b, s)
    BY DEF Pick
  <2>4. g[s] \in Neighbors(f) /\ g[s] \in Positions(b, s)
    <3> HIDE DEF g
    <3> QED BY <2>2, <2>3
  <2> QED BY <2>4 DEF Positions
<1>2. g = [s \in T |-> g[s]]
  BY DEF Pick
<1> HIDE DEF g
<1>3. g \in Picks(b, T)
  BY <1>1, <1>2 DEF Picks
<1>4. \A s, t \in T : s # t => g[s] # g[t]
  BY <1>1 DEF Positions
<1> QED BY <1>1, <1>3, <1>4 DEF g

\* No more foxes see T than Sight says: two cells have few common neighbors.
LEMMA SeersFew ==
  ASSUME NEW b, NEW n, HasCounts(b, n), NEW A, A = Positions(b, "fox"), NEW T \in SUBSET Others, Cardinality(T) >= 2
  PROVE  /\ IsFiniteSet(Seers(b, A, T)) /\ Cardinality(Seers(b, A, T)) \in Nat
         /\ Cardinality(Seers(b, A, T)) <= Sight(n, T)
<1> DEFINE F == Seers(b, A, T) P == Picks(b, T) k == IF Cardinality(T) = 2 THEN 2 ELSE 1
           g == [f \in F |-> Pick(b, f, T)]
<1>1. A \in SUBSET (Int \X Int) /\ IsFiniteSet(A) /\ Cardinality(A) = n["fox"] /\ n["fox"] \in Nat
  <2>1. "fox" \in Species
    BY DEF Species
  <2>2. A \in SUBSET (Int \X Int) /\ IsFiniteSet(A) /\ Cardinality(A) = n["fox"] /\ n["fox"] \in 0..6
    BY <2>1, CountedAre
  <2> QED BY <2>2
<1>2. F \in SUBSET A /\ IsFiniteSet(F) /\ Cardinality(F) \in Nat /\ Cardinality(F) <= n["fox"]
  <2>1. F \subseteq A
    BY DEF Seers
  <2> QED BY <1>1, <2>1, PartSize
<1>3. IsFiniteSet(P) /\ Cardinality(P) \in Nat /\ Product(n, k, T) = k * Cardinality(P)
  <2>1. k \in Nat
    OBVIOUS
  <2> HIDE DEF k
  <2> QED BY <2>1, PicksCounted
<1>4. Sight(n, T) = Least(n["fox"], k * Cardinality(P))
  BY <1>3 DEF Sight, Product
<1>5. IsFiniteSet(T)
  BY OthersFinite, FS_Subset
<1>6. \A f \in F : /\ g[f] \in P /\ f \in Int \X Int
                   /\ \A s \in T : g[f][s] \in Neighbors(f)
                   /\ \A s, t \in T : s # t => g[f][s] # g[f][t]
  <2> SUFFICES ASSUME NEW f \in F
               PROVE /\ g[f] \in P /\ f \in Int \X Int
                     /\ \A s \in T : g[f][s] \in Neighbors(f)
                     /\ \A s, t \in T : s # t => g[f][s] # g[f][t]
    OBVIOUS
  <2>1. f \in A /\ T \subseteq View(b, f) /\ g[f] = Pick(b, f, T)
    BY DEF Seers
  <2> HIDE DEF g, F, P
  <2>2. /\ Pick(b, f, T) \in Picks(b, T)
        /\ \A s \in T : Pick(b, f, T)[s] \in Neighbors(f)
        /\ \A s, t \in T : s # t => Pick(b, f, T)[s] # Pick(b, f, T)[t]
    BY <2>1, PickIs
  <2>3. f \in Int \X Int
    BY <1>1, <2>1
  <2> QED BY <2>1, <2>2, <2>3 DEF P
<1>7. g = [f \in F |-> g[f]]
  OBVIOUS
<1> HIDE DEF g, F, P
<1>8. CASE Cardinality(T) = 2
  <2> DEFINE first(f) == CHOOSE h \in F : g[h] = g[f]
             V == P \X {0, 1}
             m == [f \in F |-> <<g[f], IF f = first(f) THEN 0 ELSE 1>>]
  <2>1. IsFiniteSet(V) /\ Cardinality(V) = Cardinality(P) * 2
    <3>1. IsFiniteSet({0, 1}) /\ Cardinality({0, 1}) = 2
      <4>1. IsFiniteSet({0}) /\ Cardinality({0}) = 1
        BY FS_Singleton
      <4>2. {0} \cup {1} = {0, 1} /\ 1 \notin {0}
        OBVIOUS
      <4>3. IsFiniteSet({0} \cup {1}) /\ Cardinality({0} \cup {1}) = Cardinality({0}) + 1
        BY <4>1, <4>2, FS_AddElement
      <4> QED BY <4>1, <4>2, <4>3
    <3> QED BY <1>3, <3>1, FS_Product
  <2>2. \A f \in F : m[f] \in V
    BY <1>6
  <2>3. \A f \in F : first(f) \in F /\ g[first(f)] = g[f]
    OBVIOUS
  <2>4. ASSUME NEW f \in F, NEW h \in F, m[f] = m[h] PROVE f = h
    <3>1. g[f] = g[h] /\ (f = first(f) <=> h = first(h))
      BY <2>4
    <3>2. first(f) = first(h)
      BY <3>1
    <3> DEFINE c == first(f)
    <3>3. c \in F /\ g[c] = g[f]
      BY <2>3
    <3>4. PICK s, t \in T : s # t
      BY <1>5, <1>8, SomeOf
    <3>5. g[f][s] # g[f][t]
      BY <1>6, <3>4
    <3>6. /\ g[f][s] \in Neighbors(f) /\ g[f][s] \in Neighbors(h) /\ g[f][s] \in Neighbors(c)
          /\ g[f][t] \in Neighbors(f) /\ g[f][t] \in Neighbors(h) /\ g[f][t] \in Neighbors(c)
      <4> HIDE DEF c, first
      <4>1. \A x \in {f, h, c} : g[x][s] \in Neighbors(x) /\ g[x][t] \in Neighbors(x)
        BY <1>6, <3>3
      <4> QED BY <3>1, <3>3, <4>1
    <3>7. f \in Int \X Int /\ h \in Int \X Int /\ c \in Int \X Int
      <4> HIDE DEF c, first
      <4> QED BY <1>6, <3>3
    <3> DEFINE x == g[f][s] y == g[f][t]
    <3>8. x \in Int \X Int /\ y \in Int \X Int
      <4> HIDE DEF c, first
      <4> QED BY <3>6, <3>7, NeighborsAre
    <3> HIDE DEF x, y
    <3>9. \A z \in {f, h, c} : z \in Neighbors(x) \cap Neighbors(y)
      <4> HIDE DEF c, first
      <4>1. \A z \in {f, h, c} : z \in Int \X Int /\ x \in Neighbors(z) /\ y \in Neighbors(z)
        BY <3>6, <3>7 DEF x, y
      <4> QED BY <3>8, <4>1, AdjacencyIs
    <3>10. x # y
      BY <3>5 DEF x, y
    <3>11. f = h \/ f = c \/ h = c
      <4> HIDE DEF c, first
      <4>1. f \in Neighbors(x) \cap Neighbors(y) /\ h \in Neighbors(x) \cap Neighbors(y) /\ c \in Neighbors(x) \cap Neighbors(y)
        BY <3>9
      <4> QED BY <3>8, <3>10, <4>1, CommonNeighbors
    <3> QED BY <3>1, <3>2, <3>11
  <2>5. m = [f \in F |-> m[f]]
    OBVIOUS
  <2>6. Cardinality(F) <= Cardinality(V)
    <3> HIDE DEF m, V
    <3> QED BY <2>1, <2>2, <2>4, <2>5, InjectionSize
  <2>7. k = 2
    BY <1>8
  <2> HIDE DEF V, m, first, k
  <2>8. k * Cardinality(P) = Cardinality(V) /\ Cardinality(V) \in Nat
    BY <1>3, <2>1, <2>7
  <2>9. Cardinality(F) <= Sight(n, T)
    BY <1>2, <1>4, <2>6, <2>8 DEF Least
  <2> QED BY <1>2, <2>9 DEF F
<1>9. CASE Cardinality(T) # 2
  <2>1. PICK s, t, r \in T : s # t /\ s # r /\ t # r
    BY <1>5, <1>9, SomeOf
  <2>2. ASSUME NEW f \in F, NEW h \in F, g[f] = g[h] PROVE f = h
    <3> SUFFICES ASSUME f # h PROVE FALSE
      OBVIOUS
    <3> DEFINE x == g[f][s] y == g[f][t] z == g[f][r]
    <3>1. x \in Neighbors(f) /\ y \in Neighbors(f) /\ z \in Neighbors(f) /\ x # y /\ x # z /\ y # z
      BY <1>6, <2>1
    <3>2. x \in Neighbors(h) /\ y \in Neighbors(h) /\ z \in Neighbors(h)
      BY <1>6, <2>2
    <3>3. f \in Int \X Int /\ h \in Int \X Int
      BY <1>6
    <3> HIDE DEF x, y, z
    <3>4. x = y \/ x = z \/ y = z
      BY <3>1, <3>2, <3>3, CommonNeighbors
    <3> QED BY <3>1, <3>4
  <2>3. Cardinality(F) <= Cardinality(P)
    BY <1>3, <1>6, <1>7, <2>2, InjectionSize
  <2>4. k = 1
    BY <1>9
  <2> HIDE DEF k
  <2>5. k * Cardinality(P) = Cardinality(P)
    BY <1>3, <2>4
  <2>6. Cardinality(F) <= Sight(n, T)
    BY <1>2, <1>4, <2>3, <2>5 DEF Least
  <2> QED BY <1>2, <2>6 DEF F
<1> QED BY <1>8, <1>9

\* Sets of species, how many foxes have each of them, and the search over foxes.
Views == SUBSET Others

SeeingAll(T) == {m \in Views : T \subseteq m}

Fits(n, o) == \A T \in Views : Cardinality(T) >= 2 => SumOver(SeeingAll(T), LAMBDA m : o[m]) <= Sight(n, T)

OneMore(o, m) == [o EXCEPT ![m] = @ + 1]

Outlook(o) == SumOver(Views, LAMBDA m : o[m] * Cardinality(m))

Internal(n) == IF n["fox"] >= 2 THEN n["fox"] ELSE 0

FoxASteps(observed, n) ==
  /\ observed[0] = {[m \in Views |-> 0]}
  /\ \A i \in 1..n["fox"] : observed[i] = {o \in {OneMore(p, m) : p \in observed[i - 1], m \in Views} : Fits(n, o)}

\* FoxAUpper is the best outlook of a search that adds one fox after the other.
LEMMA FoxASearch ==
  ASSUME NEW n, NEW m, m = n["fox"], m \in Nat
  PROVE  \E observed \in [0..m -> SUBSET [Views -> Nat]] :
           /\ FoxAUpper(n) = Max({Outlook(o) : o \in observed[m]}) + Internal(n)
           /\ FoxASteps(observed, n)
<1> DEFINE T == SUBSET [Views -> Nat]
           onward(X) == {o \in {OneMore(p, v) : p \in X, v \in Views} : Fits(n, o)}
           zero == {[v \in Views |-> 0]}
           Eqn(s) == s = [i \in 0..n["fox"] |-> IF i = 0 THEN zero ELSE onward(s[i - 1])]
           observed == CHOOSE s : Eqn(s)
           step == [X \in T |-> onward(X)]
<1>1. FoxAUpper(n) = Max({Outlook(o) : o \in observed[n["fox"]]}) + Internal(n)
  BY DEF FoxAUpper, Outlook, Internal, OneMore, Views, Fits, SeeingAll, SumOver
<1>3. ASSUME NEW X \in T PROVE onward(X) \in T
  <2> SUFFICES ASSUME NEW p \in X, NEW v \in Views PROVE OneMore(p, v) \in [Views -> Nat]
    OBVIOUS
  <2> QED BY DEF OneMore
<1> HIDE DEF onward
<1>4. zero \in T /\ step \in [T -> T]
  <2>1. zero \in T
    OBVIOUS
  <2> HIDE DEF T
  <2> QED BY <1>3, <2>1
<1>5. PICK it : it \in [0..m -> T] /\ it[0] = zero /\ \A i \in 1..m : it[i] = step[it[i - 1]]
  <2>1. ASSUME NEW once \in [T -> T] PROVE \E it \in [0..m -> T] : Iterated(it, zero, once, m)
    <3> HIDE DEF zero, T
    <3> QED BY <1>4, Iterates
  <2>2. PICK it \in [0..m -> T] : Iterated(it, zero, step, m)
    <3> HIDE DEF zero, T, step
    <3> QED BY <1>4, <2>1
  <2> HIDE DEF zero, T, step
  <2> QED BY <2>2 DEF Iterated
<1>6. \A i \in 1..m : it[i] = onward(it[i - 1])
  <2> SUFFICES ASSUME NEW i \in 1..m PROVE it[i] = onward(it[i - 1])
    OBVIOUS
  <2>1. it[i - 1] \in T
    <3>1. i - 1 \in 0..m
      OBVIOUS
    <3> HIDE DEF T
    <3> QED BY <1>5, <3>1
  <2> HIDE DEF T
  <2> QED BY <1>5, <2>1
<1>7. Eqn(it)
  <2>1. it = [i \in 0..m |-> it[i]]
    <3> HIDE DEF zero, T
    <3> QED BY <1>5
  <2>2. \A i \in 0..m : it[i] = IF i = 0 THEN zero ELSE onward(it[i - 1])
    <3> HIDE DEF zero, T
    <3> QED BY <1>5, <1>6
  <2> HIDE DEF zero, T
  <2> QED BY <2>1, <2>2
<1>8. Eqn(observed)
  <2> HIDE DEF Eqn
  <2> QED BY <1>7
<1> HIDE DEF observed, zero
<1>9. /\ observed = [i \in 0..m |-> observed[i]]
      /\ \A i \in 0..m : observed[i] = IF i = 0 THEN zero ELSE onward(observed[i - 1])
  <2> HIDE DEF T
  <2>1. observed = [i \in 0..m |-> IF i = 0 THEN zero ELSE onward(observed[i - 1])]
    BY <1>8
  <2> QED BY <2>1
<1>10. \A i \in 0..m : observed[i] \in T
  <2> DEFINE Good == {i \in 0..m : observed[i] \in T}
  <2>1. \A i \in 0..m : (\A v \in 0..(i - 1) : v \in Good) => i \in Good
    <3> SUFFICES ASSUME NEW i \in 0..m, \A v \in 0..(i - 1) : v \in Good PROVE observed[i] \in T
      OBVIOUS
    <3> HIDE DEF T
    <3>1. CASE i = 0
      BY <1>4, <1>9, <3>1
    <3>2. CASE i # 0
      <4>1. i - 1 \in 0..(i - 1)
        BY <3>2
      <4>2. observed[i - 1] \in T
        BY <4>1
      <4> QED BY <1>3, <1>9, <3>2, <4>2
    <3> QED BY <3>1, <3>2
  <2> HIDE DEF Good, T
  <2>2. 0..m \subseteq Good
    BY <2>1, SmallerNumbers
  <2> QED BY <2>2 DEF Good
<1>11. observed \in [0..m -> T]
  <2> HIDE DEF T
  <2> QED BY <1>9, <1>10
<1>12. FoxASteps(observed, n)
  <2>1. observed[0] = zero
    <3>1. 0 \in 0..m
      OBVIOUS
    <3> HIDE DEF T
    <3> QED BY <1>9, <3>1
  <2>2. \A i \in 1..m : observed[i] = onward(observed[i - 1])
    <3> SUFFICES ASSUME NEW i \in 1..m PROVE observed[i] = onward(observed[i - 1])
      OBVIOUS
    <3> HIDE DEF T
    <3>1. i \in 0..m /\ i # 0
      OBVIOUS
    <3> QED BY <1>9, <3>1
  <2> HIDE DEF T
  <2> QED BY <2>1, <2>2 DEF FoxASteps, zero, onward
<1> QED BY <1>1, <1>11, <1>12

\* The search reaches finitely many outlooks.
LEMMA ObservedFinite ==
  ASSUME NEW n, NEW m, m = n["fox"], m \in Nat,
         NEW observed \in [0..m -> SUBSET [Views -> Nat]], FoxASteps(observed, n)
  PROVE  IsFiniteSet(observed[m])
<1> DEFINE Good == {i \in 0..m : IsFiniteSet(observed[i])}
<1>1. IsFiniteSet(Views)
  BY OthersFinite, FS_SUBSET DEF Views
<1>3. ASSUME NEW i \in 0..m, \A v \in 0..(i - 1) : v \in Good PROVE i \in Good
  <2>1. CASE i = 0
    <3> DEFINE zero == [v \in Views |-> 0]
    <3>1. observed[0] = {zero}
      BY DEF FoxASteps
    <3> HIDE DEF zero
    <3>2. IsFiniteSet({zero})
      BY FS_Singleton
    <3> QED BY <2>1, <3>1, <3>2
  <2>2. CASE i # 0
    <3> DEFINE X == observed[i - 1] P == X \X Views
               f == [p \in P |-> OneMore(p[1], p[2])]
               Y == {f[p] : p \in P}
    <3>1. i - 1 \in 0..(i - 1) /\ i \in 1..m
      BY <2>2
    <3>2. IsFiniteSet(X)
      BY <1>3, <3>1
    <3>3. observed[i] \subseteq Y
      <4> SUFFICES ASSUME NEW x \in observed[i] PROVE x \in Y
        OBVIOUS
      <4>1. PICK y \in X, v \in Views : x = OneMore(y, v)
        BY <3>1 DEF FoxASteps
      <4>2. <<y, v>> \in P /\ f[<<y, v>>] = x
        BY <4>1
      <4> HIDE DEF f, P
      <4> QED BY <4>2
    <3> HIDE DEF X, f
    <3>4. IsFiniteSet(P)
      BY <1>1, <3>2, FS_Product
    <3> HIDE DEF P
    <3>5. IsFiniteSet(Y)
      BY <3>4, FiniteImage
    <3> HIDE DEF Y
    <3>6. IsFiniteSet(observed[i])
      BY <3>3, <3>5, FS_Subset
    <3> QED BY <3>6
  <2> QED BY <2>1, <2>2
<1>4. 0..m \subseteq Good
  <2> HIDE DEF Good
  <2> QED BY <1>3, SmallerNumbers
<1> QED BY <1>4

\* The foxes of S that see m, and their numbers.
Seeing(b, S, m) == {f \in S : View(b, f) = m}

Outlooks(b, S) == [m \in Views |-> Cardinality(Seeing(b, S, m))]

\* What a fox sees is a set of other species.
LEMMA ViewIs ==
  ASSUME NEW b, NEW n, HasCounts(b, n), NEW f
  PROVE  View(b, f) \in Views /\ IsFiniteSet(View(b, f)) /\ Cardinality(View(b, f)) \in Nat /\ IsFiniteSet(Views)
<1>1. \A c \in DOMAIN b : b[c] \in Species
  BY DEF HasCounts
<1>2. View(b, f) \subseteq Others
  BY <1>1 DEF View, Types, Others
<1>3. IsFiniteSet(View(b, f))
  BY <1>2, OthersFinite, FS_Subset
<1> QED BY <1>2, <1>3, OthersFinite, FS_SUBSET, FS_CardinalityType DEF Views

\* The numbers of foxes by what they see.
LEMMA OutlooksAre ==
  ASSUME NEW b, NEW S, IsFiniteSet(S)
  PROVE  /\ Outlooks(b, S) \in [Views -> Nat]
         /\ \A m \in Views : /\ Seeing(b, S, m) \subseteq S /\ IsFiniteSet(Seeing(b, S, m))
                             /\ Outlooks(b, S)[m] = Cardinality(Seeing(b, S, m))
<1>1. \A m \in Views : Seeing(b, S, m) \subseteq S /\ IsFiniteSet(Seeing(b, S, m)) /\ Cardinality(Seeing(b, S, m)) \in Nat
  <2> SUFFICES ASSUME NEW m \in Views
               PROVE Seeing(b, S, m) \subseteq S /\ IsFiniteSet(Seeing(b, S, m)) /\ Cardinality(Seeing(b, S, m)) \in Nat
    OBVIOUS
  <2>1. Seeing(b, S, m) \subseteq S
    BY DEF Seeing
  <2> QED BY <2>1, FS_Subset, FS_CardinalityType
<1> QED BY <1>1 DEF Outlooks

\* These numbers respect the limits of the search.
LEMMA OutlooksFit ==
  ASSUME NEW b, NEW n, HasCounts(b, n), NEW A, A = Positions(b, "fox"), NEW S \in SUBSET A
  PROVE  Fits(n, Outlooks(b, S))
<1> DEFINE o == Outlooks(b, S)
<1>1. IsFiniteSet(A) /\ IsFiniteSet(S)
  <2>1. "fox" \in Species
    BY DEF Species
  <2>2. IsFiniteSet(A)
    BY <2>1, CountedAre
  <2> QED BY <2>2, FS_Subset
<1> SUFFICES ASSUME NEW T \in Views, Cardinality(T) >= 2
             PROVE SumOver(SeeingAll(T), LAMBDA m : o[m]) <= Sight(n, T)
  BY DEF Fits
<1> DEFINE M == SeeingAll(T) F == Seers(b, S, T) of == [m \in M |-> Seeing(b, S, m)]
<1>2. M \subseteq Views /\ IsFiniteSet(M)
  <2>1. M \subseteq Views
    BY DEF SeeingAll
  <2>2. IsFiniteSet(Views)
    BY OthersFinite, FS_SUBSET DEF Views
  <2> QED BY <2>1, <2>2, FS_Subset
<1>3. \A m \in M : of[m] = Seeing(b, S, m) /\ IsFiniteSet(of[m]) /\ o[m] = Cardinality(of[m])
  <2> SUFFICES ASSUME NEW m \in M PROVE of[m] = Seeing(b, S, m) /\ IsFiniteSet(of[m]) /\ o[m] = Cardinality(of[m])
    OBVIOUS
  <2>1. m \in Views /\ of[m] = Seeing(b, S, m)
    BY <1>2
  <2>2. IsFiniteSet(Seeing(b, S, m)) /\ o[m] = Cardinality(Seeing(b, S, m))
    BY <1>1, <2>1, OutlooksAre
  <2> QED BY <2>1, <2>2
<1>4. \A x, y \in M : x # y => of[x] \cap of[y] = {}
  BY DEF Seeing
<1>5. \A f : f \in F <=> \E m \in M : f \in of[m]
  <2>1. ASSUME NEW f \in F PROVE \E m \in M : f \in of[m]
    <3>1. f \in S /\ T \subseteq View(b, f)
      BY DEF Seers
    <3>2. View(b, f) \in M
      BY <3>1, ViewIs DEF SeeingAll
    <3>3. f \in of[View(b, f)]
      BY <3>1, <3>2 DEF Seeing
    <3> QED BY <3>2, <3>3
  <2>2. ASSUME NEW m \in M, NEW f \in of[m] PROVE f \in F
    BY <2>2 DEF Seers, Seeing, SeeingAll
  <2> QED BY <2>1, <2>2
<1> HIDE DEF of, F, M
<1>6. Cardinality(F) = SumFunction([m \in M |-> Cardinality(of[m])])
  <2>1. \A m \in M : IsFiniteSet(of[m])
    BY <1>3
  <2> QED BY <1>2, <1>4, <1>5, <2>1, SizesAddUp
<1>7. [m \in M |-> Cardinality(of[m])] = [m \in M |-> o[m]]
  BY <1>3
<1>8. Cardinality(F) <= Cardinality(Seers(b, A, T)) /\ Cardinality(F) \in Nat /\ Cardinality(Seers(b, A, T)) \in Nat
  <2>1. F \subseteq Seers(b, A, T)
    BY DEF F, Seers
  <2>2. IsFiniteSet(Seers(b, A, T))
    <3>1. Seers(b, A, T) \subseteq A
      BY DEF Seers
    <3> QED BY <1>1, <3>1, FS_Subset
  <2> QED BY <2>1, <2>2, PartSize
<1>9. Cardinality(Seers(b, A, T)) <= Sight(n, T)
  BY SeersFew DEF Views
<1>10. SumOver(M, LAMBDA m : o[m]) = SumFunction([m \in M |-> o[m]])
  BY DEF SumOver
<1>11. SumOver(M, LAMBDA m : o[m]) = Cardinality(F)
  BY <1>6, <1>7, <1>10
<1>12. Sight(n, T) \in Nat
  <2>1. n["fox"] \in Nat
    <3>1. "fox" \in Species
      BY DEF Species
    <3>2. n["fox"] \in 0..6
      BY <3>1, CountedAre
    <3> QED BY <3>2
  <2> DEFINE k == IF Cardinality(T) = 2 THEN 2 ELSE 1
  <2>2. k \in Nat
    OBVIOUS
  <2>3. Sight(n, T) = Least(n["fox"], Product(n, k, T))
    BY DEF Sight, Product
  <2> HIDE DEF k
  <2>4. Product(n, k, T) = k * Cardinality(Picks(b, T)) /\ Cardinality(Picks(b, T)) \in Nat
    BY <2>2, PicksCounted DEF Views
  <2>5. Product(n, k, T) \in Nat
    BY <2>2, <2>4
  <2> QED BY <2>1, <2>3, <2>5 DEF Least
<1>13. SumOver(M, LAMBDA m : o[m]) <= Sight(n, T)
  BY <1>8, <1>9, <1>11, <1>12
<1> QED BY <1>13 DEF M

\* One more fox is one more at what it sees.
LEMMA OutlookGrows ==
  ASSUME NEW b, NEW n, HasCounts(b, n), NEW S, IsFiniteSet(S), NEW p \in S
  PROVE  Outlooks(b, S) = OneMore(Outlooks(b, S \ {p}), View(b, p))
<1> DEFINE o == Outlooks(b, S) q == Outlooks(b, S \ {p}) v == View(b, p)
<1>1. v \in Views
  BY ViewIs
<1>2. IsFiniteSet(S \ {p})
  BY FS_Subset
<1>3. o \in [Views -> Nat] /\ q \in [Views -> Nat]
  BY <1>2, OutlooksAre
<1>4. \A m \in Views : o[m] = IF m = v THEN q[m] + 1 ELSE q[m]
  <2> SUFFICES ASSUME NEW m \in Views PROVE o[m] = IF m = v THEN q[m] + 1 ELSE q[m]
    OBVIOUS
  <2>1. o[m] = Cardinality(Seeing(b, S, m)) /\ q[m] = Cardinality(Seeing(b, S \ {p}, m)) /\ IsFiniteSet(Seeing(b, S \ {p}, m))
    BY <1>2, OutlooksAre
  <2>2. CASE m = v
    <3>1. Seeing(b, S, m) = Seeing(b, S \ {p}, m) \cup {p} /\ p \notin Seeing(b, S \ {p}, m)
      BY <2>2 DEF Seeing
    <3>2. Cardinality(Seeing(b, S \ {p}, m) \cup {p}) = Cardinality(Seeing(b, S \ {p}, m)) + 1
      BY <2>1, <3>1, FS_AddElement
    <3> QED BY <2>1, <2>2, <3>1, <3>2
  <2>3. CASE m # v
    <3>1. Seeing(b, S, m) = Seeing(b, S \ {p}, m)
      BY <2>3 DEF Seeing
    <3> QED BY <2>1, <2>3, <3>1
  <2> QED BY <2>2, <2>3
<1> HIDE DEF o, q, v
<1>5. OneMore(q, v) = [m \in Views |-> IF m = v THEN q[m] + 1 ELSE q[m]]
  BY <1>1, <1>3 DEF OneMore
<1>6. o = OneMore(q, v)
  BY <1>3, <1>4, <1>5
<1> QED BY <1>6 DEF o, q, v

\* The search reaches the numbers of the board.
LEMMA OutlookReached ==
  ASSUME NEW b, NEW n, HasCounts(b, n), NEW A, A = Positions(b, "fox"), NEW m, m = n["fox"],
         NEW observed, FoxASteps(observed, n)
  PROVE  Outlooks(b, A) \in observed[m]
<1>1. IsFiniteSet(A) /\ Cardinality(A) = m /\ m \in Nat
  <2>1. "fox" \in Species
    BY DEF Species
  <2>2. IsFiniteSet(A) /\ Cardinality(A) = m /\ m \in 0..6
    BY <2>1, CountedAre
  <2> QED BY <2>2
<1> DEFINE Good == {s \in SUBSET A : Outlooks(b, s) \in observed[Cardinality(s)]}
<1>2. {} \in Good
  <2>1. Outlooks(b, {}) = [v \in Views |-> 0]
    <3>1. \A v : Seeing(b, {}, v) = {}
      BY DEF Seeing
    <3>2. Cardinality({}) = 0
      BY FS_EmptySet
    <3> QED BY <3>1, <3>2 DEF Outlooks
  <2>2. Cardinality({}) = 0
    BY FS_EmptySet
  <2> QED BY <2>1, <2>2 DEF FoxASteps
<1>3. ASSUME NEW s \in SUBSET A, s # {}, Rest(s) \in Good PROVE s \in Good
  <2> DEFINE p == Chosen(s) R == s \ {p} k == Cardinality(s)
  <2>1. p \in s /\ R = Rest(s) /\ k \in Nat /\ k # 0 /\ Cardinality(R) = k - 1 /\ IsFiniteSet(s)
    BY <1>1, <1>3, RestIs DEF Rest
  <2>2. k <= m
    BY <1>1, PartSize
  <2>3. Outlooks(b, s) = OneMore(Outlooks(b, R), View(b, p))
    BY <2>1, OutlookGrows
  <2>4. Outlooks(b, R) \in observed[k - 1]
    BY <1>3, <2>1
  <2>5. View(b, p) \in Views
    BY ViewIs
  <2>6. Fits(n, Outlooks(b, s))
    BY OutlooksFit
  <2> HIDE DEF p, R, k
  <2>7. k \in 1..n["fox"]
    BY <1>1, <2>1, <2>2
  <2>8. Outlooks(b, s) \in observed[k]
    BY <2>3, <2>4, <2>5, <2>6, <2>7 DEF FoxASteps
  <2> QED BY <2>8 DEF k
<1>4. A \in Good
  <2> HIDE DEF Good
  <2>1. SUBSET A \subseteq Good
    BY <1>1, <1>2, <1>3, ReachesSubsets
  <2> QED BY <2>1
<1> QED BY <1>1, <1>4

\* Their outlook is what the foxes see together.
LEMMA OutlookSum ==
  ASSUME NEW b, NEW n, HasCounts(b, n), NEW A, IsFiniteSet(A)
  PROVE  LET w == [f \in A |-> Cardinality(View(b, f))]
         IN  w \in [A -> Nat] /\ SumFunction(w) \in Nat /\ Outlook(Outlooks(b, A)) = SumFunction(w)
<1> DEFINE o == Outlooks(b, A) of == [f \in A |-> View(b, f)] w == [f \in A |-> Cardinality(View(b, f))]
           V == Marked(A, of) by == [m \in Views |-> Seeing(b, A, m) \X m]
<1>1. \A f \in A : of[f] = View(b, f) /\ IsFiniteSet(of[f]) /\ of[f] \in Views
  BY ViewIs
<1>2. [f \in A |-> Cardinality(of[f])] = w
  OBVIOUS
<1>3. w \in [A -> Nat] /\ Cardinality(V) \in Nat /\ SumFunction(w) = Cardinality(V)
  <2> HIDE DEF of, w
  <2>1. /\ [f \in A |-> Cardinality(of[f])] \in [A -> Nat] /\ Cardinality(Marked(A, of)) \in Nat
        /\ SumFunction([f \in A |-> Cardinality(of[f])]) = Cardinality(Marked(A, of))
    BY <1>1, MarkedCells
  <2> QED BY <1>2, <2>1
<1>4. \A m \in Views : IsFiniteSet(by[m]) /\ Cardinality(by[m]) = o[m] * Cardinality(m)
  <2> SUFFICES ASSUME NEW m \in Views PROVE IsFiniteSet(by[m]) /\ Cardinality(by[m]) = o[m] * Cardinality(m)
    OBVIOUS
  <2>1. by[m] = Seeing(b, A, m) \X m
    OBVIOUS
  <2>2. IsFiniteSet(m)
    BY OthersFinite, FS_Subset DEF Views
  <2>3. IsFiniteSet(Seeing(b, A, m)) /\ o[m] = Cardinality(Seeing(b, A, m))
    BY OutlooksAre
  <2> QED BY <2>1, <2>2, <2>3, FS_Product
<1>5. \A x, y \in Views : x # y => by[x] \cap by[y] = {}
  <2> SUFFICES ASSUME NEW x \in Views, NEW y \in Views, x # y, NEW p \in by[x], p \in by[y] PROVE FALSE
    OBVIOUS
  <2>1. p[1] \in Seeing(b, A, x) /\ p[1] \in Seeing(b, A, y)
    OBVIOUS
  <2> QED BY <2>1 DEF Seeing
<1>6. \A p : p \in V <=> \E m \in Views : p \in by[m]
  <2>1. ASSUME NEW p \in V PROVE \E m \in Views : p \in by[m]
    <3>1. p[1] \in A /\ p[2] \in of[p[1]] /\ p = <<p[1], p[2]>>
      <4> HIDE DEF of
      <4> QED BY DEF Marked
    <3>2. of[p[1]] = View(b, p[1]) /\ of[p[1]] \in Views
      <4> HIDE DEF of
      <4> QED BY <1>1, <3>1
    <3>3. p[1] \in Seeing(b, A, of[p[1]])
      BY <3>1, <3>2 DEF Seeing
    <3>4. p \in by[of[p[1]]]
      <4> HIDE DEF of, V
      <4> QED BY <3>1, <3>2, <3>3
    <3> QED BY <3>2, <3>4
  <2>2. ASSUME NEW m \in Views, NEW p \in by[m] PROVE p \in V
    <3>1. p[1] \in A /\ View(b, p[1]) = m /\ p[2] \in m /\ p = <<p[1], p[2]>>
      BY <2>2 DEF Seeing
    <3>2. p[2] \in of[p[1]]
      BY <3>1
    <3> HIDE DEF of, by
    <3> QED BY <3>1, <3>2 DEF Marked
  <2> HIDE DEF V, by
  <2> QED BY <2>1, <2>2
<1> HIDE DEF V, by, w
<1>7. IsFiniteSet(Views)
  BY OthersFinite, FS_SUBSET DEF Views
<1>8. Cardinality(V) = SumFunction([m \in Views |-> Cardinality(by[m])])
  <2>1. \A m \in Views : IsFiniteSet(by[m])
    BY <1>4
  <2> QED BY <1>5, <1>6, <1>7, <2>1, SizesAddUp
<1>9. [m \in Views |-> Cardinality(by[m])] = [m \in Views |-> o[m] * Cardinality(m)]
  BY <1>4
<1>10. Outlook(o) = SumFunction([m \in Views |-> o[m] * Cardinality(m)])
  BY DEF Outlook, SumOver
<1> QED BY <1>3, <1>8, <1>9, <1>10 DEF w

\* The foxes next to another.
Mates(A) == {f \in A : Neighbors(f) \cap A # {}}

\* They are at most twice the edges between foxes.
LEMMA MatesCounted ==
  ASSUME NEW A \in SUBSET (Int \X Int), IsFiniteSet(A)
  PROVE  /\ IsFiniteSet(Mates(A)) /\ Cardinality(Mates(A)) \in Nat
         /\ Cardinality(Mates(A)) <= Cardinality(A) /\ Cardinality(Mates(A)) <= 2 * Cardinality(Within(A))
         /\ Cardinality(A) < 2 => Cardinality(Mates(A)) = 0
<1> DEFINE M == Mates(A) f == [x \in M |-> <<x, CHOOSE c \in Neighbors(x) : c \in A>>]
<1>1. M \subseteq A /\ \A x \in M : \E c \in Neighbors(x) : c \in A
  BY DEF Mates
<1>2. IsFiniteSet(M) /\ Cardinality(M) \in Nat /\ Cardinality(A) \in Nat /\ Cardinality(M) <= Cardinality(A)
  BY <1>1, PartSize
<1>3. Cardinality(M) <= Cardinality(Touching(A, A))
  <2>1. \A x \in M : f[x] \in Touching(A, A) /\ f[x][1] = x
    <3> SUFFICES ASSUME NEW x \in M PROVE f[x] \in Touching(A, A) /\ f[x][1] = x
      OBVIOUS
    <3> DEFINE c == CHOOSE c \in Neighbors(x) : c \in A
    <3>1. c \in Neighbors(x) /\ c \in A
      BY <1>1
    <3>2. f[x] = <<x, c>>
      OBVIOUS
    <3> HIDE DEF f, c
    <3> QED BY <1>1, <3>1, <3>2 DEF Touching
  <2>2. f = [x \in M |-> f[x]]
    OBVIOUS
  <2>3. IsFiniteSet(Touching(A, A))
    BY EdgeCounts
  <2> HIDE DEF f, M
  <2>4. \A x, y \in M : f[x] = f[y] => x = y
    BY <2>1
  <2> QED BY <2>1, <2>2, <2>3, <2>4, InjectionSize
<1>4. Cardinality(Touching(A, A)) = 2 * Cardinality(Within(A))
  BY EdgesTwice
<1>5. ASSUME Cardinality(A) < 2 PROVE Cardinality(M) = 0
  <2>1. M = {}
    <3> SUFFICES ASSUME NEW x \in M PROVE FALSE
      OBVIOUS
    <3>1. PICK c \in Neighbors(x) : c \in A
      BY <1>1
    <3>2. x \in A /\ x \in Int \X Int /\ c # x
      BY <1>1, <3>1, NeighborsAre
    <3>3. {x, c} \subseteq A /\ Cardinality({x, c}) = 2
      <4>1. IsFiniteSet({x}) /\ Cardinality({x}) = 1 /\ c \notin {x} /\ {x, c} = {x} \cup {c}
        BY <3>2, FS_Singleton
      <4>2. Cardinality({x} \cup {c}) = Cardinality({x}) + 1
        BY <4>1, FS_AddElement
      <4> QED BY <3>1, <3>2, <4>1, <4>2
    <3> QED BY <1>2, <1>5, <3>3, PartSize
  <2> QED BY <2>1, FS_EmptySet
<1> QED BY <1>2, <1>3, <1>4, <1>5

\* Card A scores the species each fox sees and the foxes next to a fox.
LEMMA FoxesWorth ==
  ASSUME NEW b, NEW n, HasCounts(b, n), NEW A, A = Positions(b, "fox")
  PROVE  LET w == [f \in A |-> Cardinality(View(b, f))]
         IN  ScoreFoxes(b, "A") = SumFunction(w) + Cardinality(Mates(A))
<1> DEFINE w == [f \in A |-> Cardinality(View(b, f))] i == [f \in A |-> IF f \in Mates(A) THEN 1 ELSE 0]
           h == [f \in A |-> Cardinality(Types(b, Neighbors(f)))]
<1>1. IsFiniteSet(A)
  <2>1. "fox" \in Species
    BY DEF Species
  <2> QED BY <2>1, CountedAre
<1>2. Mates(A) \in SUBSET A
  BY DEF Mates
<1>3. i \in [A -> Nat] /\ SumFunction(i) = Cardinality(Mates(A))
  BY <1>1, <1>2, IndicatorSum
<1>4. w \in [A -> Nat]
  BY ViewIs
<1>5. ASSUME NEW f \in A
      PROVE  h[f] \in Nat /\ w[f] + i[f] = h[f]
  <2> DEFINE T == Types(b, Neighbors(f))
  <2>1. IsFiniteSet(View(b, f)) /\ Cardinality(View(b, f)) \in Nat /\ View(b, f) = T \ {"fox"}
    BY ViewIs DEF View
  <2>2. "fox" \in T <=> f \in Mates(A)
    BY <1>5 DEF Types, Mates, Positions
  <2>3. w[f] = Cardinality(View(b, f)) /\ h[f] = Cardinality(T) /\ i[f] = IF f \in Mates(A) THEN 1 ELSE 0
    OBVIOUS
  <2> HIDE DEF T, w, h, i
  <2>4. CASE "fox" \in T
    <3>1. T = View(b, f) \cup {"fox"} /\ "fox" \notin View(b, f)
      BY <2>1, <2>4
    <3>2. Cardinality(View(b, f) \cup {"fox"}) = Cardinality(View(b, f)) + 1
      BY <2>1, <3>1, FS_AddElement
    <3> QED BY <2>1, <2>2, <2>3, <2>4, <3>1, <3>2
  <2>5. CASE "fox" \notin T
    <3>1. T = View(b, f)
      BY <2>1, <2>5
    <3>2. h[f] = w[f]
      BY <2>3, <3>1
    <3>3. i[f] = 0
      BY <2>2, <2>3, <2>5
    <3>4. w[f] \in Nat
      BY <2>1, <2>3
    <3> QED BY <3>2, <3>3, <3>4
  <2> QED BY <2>4, <2>5
<1>6. h \in [A -> Nat]
  <2>1. h = [f \in A |-> h[f]]
    OBVIOUS
  <2> HIDE DEF h, w, i
  <2> QED BY <1>5, <2>1
<1>7. ScoreFoxes(b, "A") = SumFunction(h)
  <2>1. ScoreFoxes(b, "A") = SumFunction([fox \in A |-> ScoreFox(b, fox, "A")])
    BY DEF ScoreFoxes
  <2>2. \A f \in A : ScoreFox(b, f, "A") = h[f]
    BY DEF ScoreFox
  <2>3. [fox \in A |-> ScoreFox(b, fox, "A")] = h
    BY <2>2
  <2> QED BY <2>1, <2>3
<1> HIDE DEF h, w, i
<1>8. SumFunction(w) + SumFunction(i) = SumFunction(h)
  <2>1. \A f \in A : w[f] + i[f] = h[f]
    BY <1>5
  <2>2. \A f \in A : w[f] + i[f] <= h[f]
    BY <1>5
  <2> QED BY <1>1, <1>3, <1>4, <1>6, <2>1, <2>2, SumsCompare
<1> QED BY <1>3, <1>7, <1>8 DEF w

\* What the foxes see is among what the search for their bound has reached.
LEMMA ViewsBelow ==
  ASSUME NEW b, NEW n, HasCounts(b, n), NEW A, A = Positions(b, "fox")
  PROVE  LET w == [f \in A |-> Cardinality(View(b, f))]
         IN  /\ FoxAUpper(n) \in Nat /\ Internal(n) \in Nat /\ FoxAUpper(n) - Internal(n) \in Nat
             /\ w \in [A -> Nat] /\ SumFunction(w) \in Nat /\ SumFunction(w) <= FoxAUpper(n) - Internal(n)
<1> DEFINE w == [f \in A |-> Cardinality(View(b, f))] m == n["fox"]
<1>1. IsFiniteSet(A) /\ m \in Nat /\ Internal(n) \in Nat
  <2>1. "fox" \in Species
    BY DEF Species
  <2>2. IsFiniteSet(A) /\ m \in 0..6
    BY <2>1, CountedAre
  <2> QED BY <2>2 DEF Internal
<1>2. w \in [A -> Nat] /\ SumFunction(w) \in Nat /\ Outlook(Outlooks(b, A)) = SumFunction(w)
  BY <1>1, OutlookSum
<1> HIDE DEF w
<1>3. PICK observed \in [0..m -> SUBSET [Views -> Nat]] :
        /\ FoxAUpper(n) = Max({Outlook(o) : o \in observed[m]}) + Internal(n)
        /\ FoxASteps(observed, n)
  BY <1>1, FoxASearch
<1> DEFINE R == observed[m] S == {Outlook(o) : o \in R} g == [o \in R |-> Outlook(o)]
<1>4. IsFiniteSet(R) /\ R \subseteq [Views -> Nat]
  BY <1>1, <1>3, ObservedFinite
<1>5. Outlooks(b, A) \in R
  BY <1>3, OutlookReached
<1>6. FoxAUpper(n) = Max(S) + Internal(n)
  BY <1>3
<1> HIDE DEF R, m
<1>7. S \subseteq Nat
  <2> SUFFICES ASSUME NEW o \in R PROVE Outlook(o) \in Nat
    OBVIOUS
  <2> DEFINE q == [v \in Views |-> o[v] * Cardinality(v)]
  <2>1. IsFiniteSet(Views) /\ \A v \in Views : Cardinality(v) \in Nat
    <3>1. IsFiniteSet(Others)
      BY OthersFinite
    <3>2. IsFiniteSet(Views)
      BY <3>1, FS_SUBSET DEF Views
    <3>3. \A v \in Views : Cardinality(v) \in Nat
      BY <3>1, PartSize DEF Views
    <3> QED BY <3>2, <3>3
  <2>2. o \in [Views -> Nat]
    BY <1>4
  <2>3. q = [v \in Views |-> q[v]] /\ \A v \in Views : q[v] \in Nat
    <3>1. \A v \in Views : o[v] \in Nat
      BY <2>2
    <3> QED BY <2>1, <3>1
  <2>4. Outlook(o) = SumFunction(q)
    BY DEF Outlook, SumOver
  <2> HIDE DEF q
  <2> QED BY <2>1, <2>3, <2>4, SumOfNats
<1>8. IsFiniteSet(S)
  <2>1. S = {g[o] : o \in R}
    OBVIOUS
  <2> HIDE DEF g, S
  <2> QED BY <1>4, <2>1, FiniteImage
<1>9. SumFunction(w) \in S
  BY <1>2, <1>5
<1> HIDE DEF S
<1>10. Max(S) \in Nat /\ SumFunction(w) <= Max(S)
  BY <1>7, <1>8, <1>9, GreatestIn
<1>11. FoxAUpper(n) \in Nat /\ FoxAUpper(n) - Internal(n) = Max(S)
  BY <1>1, <1>6, <1>10
<1> QED BY <1>1, <1>2, <1>10, <1>11 DEF w

\* Each species a fox sees is the token of a cell next to it.
LEMMA ViewsTouch ==
  ASSUME NEW b, NEW n, HasCounts(b, n), NEW A, A = Positions(b, "fox"), NEW O, O = DOMAIN b \ A
  PROVE  LET w == [f \in A |-> Cardinality(View(b, f))]
         IN  Cardinality(Touching(A, O)) \in Nat /\ SumFunction(w) <= Cardinality(Touching(A, O))
<1> DEFINE w == [f \in A |-> Cardinality(View(b, f))] z == [f \in A |-> 0]
<1>1. IsFiniteSet(A) /\ IsFiniteSet(DOMAIN b) /\ A \in SUBSET (Int \X Int)
  <2>1. "fox" \in Species
    BY DEF Species
  <2> QED BY <2>1, CountedAre
<1>2. w \in [A -> Nat] /\ SumFunction(w) \in Nat
  BY <1>1, OutlookSum
<1>3. z \in [A -> Nat] /\ SumFunction(z) = 0
  <2>1. z \in [A -> Nat] /\ z \in [A -> Int] /\ \A f \in A : z[f] = 0
    OBVIOUS
  <2> HIDE DEF z
  <2> QED BY <1>1, <2>1, SumOfZeros
<1>4. ASSUME NEW f \in A PROVE w[f] + z[f] <= Cardinality(Neighbors(f) \cap O)
  <2> DEFINE X == Neighbors(f) \cap O V == View(b, f) h == [c \in X |-> b[c]]
  <2>1. IsFiniteSet(X)
    BY <1>1, FS_Subset
  <2>2. h = [c \in X |-> h[c]] /\ \A c \in X : h[c] = b[c]
    OBVIOUS
  <2>3. \A c \in X : b[c] \in V
    BY DEF View, Types, Positions
  <2>4. \A s \in V : \E c \in X : b[c] = s
    BY DEF View, Types, Positions
  <2>5. w[f] = Cardinality(V) /\ z[f] = 0
    OBVIOUS
  <2> HIDE DEF X, V, h, w, z
  <2>6. Cardinality(V) \in Nat /\ Cardinality(V) <= Cardinality(X)
    BY <2>1, <2>2, <2>3, <2>4, SurjectionSize
  <2> QED BY <2>5, <2>6 DEF X
<1> HIDE DEF w, z
<1>5. /\ SumFunction(w) \in Nat /\ SumFunction(z) \in Nat /\ Cardinality(Touching(A, O)) \in Nat
      /\ SumFunction(w) + SumFunction(z) <= Cardinality(Touching(A, O))
  BY <1>2, <1>3, <1>4, OutlookEdges
<1> QED BY <1>3, <1>5 DEF w

\* Some foxes are next to another, and all of them see so many species.
FoxSights(upper, internal) ==
  {<<x[1] + x[2], (x[1] + 1) \div 2, x[2]>> :
     x \in {y \in (0..internal) \X (0..(upper - internal)) : y[1] + y[2] <= upper}}

\* These are profiles.
LEMMA FoxSightsAre ==
  ASSUME NEW upper \in Nat, NEW internal \in Nat
  PROVE  IsProfiles(FoxSights(upper, internal))
<1> DEFINE P == (0..internal) \X (0..(upper - internal)) D == {y \in P : y[1] + y[2] <= upper}
           h == [x \in D |-> <<x[1] + x[2], (x[1] + 1) \div 2, x[2]>>]
<1>1. FoxSights(upper, internal) = {h[x] : x \in D}
  BY DEF FoxSights
<1>2. IsFiniteSet(D)
  <2>1. IsFiniteSet(0..internal) /\ IsFiniteSet(0..(upper - internal))
    BY FS_Interval
  <2>2. IsFiniteSet(P)
    BY <2>1, FS_Product
  <2> QED BY <2>2, FS_Subset
<1>3. \A x \in D : h[x] \in Triples
  <2> SUFFICES ASSUME NEW x \in D PROVE h[x] \in Triples
    OBVIOUS
  <2>1. x[1] \in Nat /\ x[2] \in Nat
    OBVIOUS
  <2>2. (x[1] + 1) \div 2 \in Nat /\ x[1] + x[2] \in Nat
    BY <2>1
  <2>3. h[x] = <<x[1] + x[2], (x[1] + 1) \div 2, x[2]>>
    OBVIOUS
  <2> HIDE DEF h, D
  <2> QED BY <2>1, <2>2, <2>3 DEF Triples
<1> HIDE DEF h, D
<1>4. IsFiniteSet({h[x] : x \in D})
  BY <1>2, FiniteImage
<1> QED BY <1>1, <1>3, <1>4 DEF IsProfiles

\* Card A: each fox by the species around it.
LEMMA FoxesByTypes ==
  ASSUME NEW b, NEW n, HasCounts(b, n), NEW A, A = Positions(b, "fox"), NEW O, O = DOMAIN b \ A
  PROVE  FoxesBounded(n, Cardinality(Within(A)), Cardinality(Touching(A, O)), ScoreFoxes(b, "A"), "A")
<1> DEFINE v == ScoreFoxes(b, "A") w == Cardinality(Within(A)) t == Cardinality(Touching(A, O))
           sees == SumFunction([f \in A |-> Cardinality(View(b, f))]) mates == Cardinality(Mates(A))
           upper == FoxAUpper(n) internal == Internal(n) Q == FoxSights(upper, internal)
<1>1. IsFiniteSet(A) /\ A \in SUBSET (Int \X Int) /\ Cardinality(A) = n["fox"] /\ n["fox"] \in 0..6 /\ w \in Nat
  <2>1. "fox" \in Species
    BY DEF Species
  <2>2. IsFiniteSet(A) /\ A \in SUBSET (Int \X Int) /\ Cardinality(A) = n["fox"] /\ n["fox"] \in 0..6
    BY <2>1, CountedAre
  <2> QED BY <2>2, EdgeCounts
<1>2. /\ upper \in Nat /\ internal \in Nat /\ upper - internal \in Nat
      /\ sees \in Nat /\ sees <= upper - internal
  BY ViewsBelow
<1>3. t \in Nat /\ sees <= t
  BY ViewsTouch
<1>4. v = sees + mates
  BY FoxesWorth
<1>5. mates \in Nat /\ mates <= 2 * w /\ mates <= internal
  <2>1. /\ mates \in Nat /\ mates <= Cardinality(A) /\ mates <= 2 * w
        /\ Cardinality(A) < 2 => mates = 0
    BY <1>1, MatesCounted
  <2>2. internal = IF n["fox"] >= 2 THEN n["fox"] ELSE 0
    BY DEF Internal
  <2> HIDE DEF mates, w, internal
  <2> QED BY <1>1, <2>1, <2>2
<1>6. FoxProfiles(n, "A") = Efficient(Q)
  <2>1. FoxProfiles(n, "A") =
          LET up == FoxAUpper(n)
              in == IF n["fox"] >= 2 THEN n["fox"] ELSE 0
          IN Efficient({<<x[1] + x[2], (x[1] + 1) \div 2, x[2]>> :
               x \in {y \in (0..in) \X (0..(up - in)) : y[1] + y[2] <= up}})
    BY DEF FoxProfiles
  <2> QED BY <2>1 DEF FoxSights, Internal
<1> HIDE DEF v, w, t, sees, mates, upper, internal, Q
<1>7. v \in Nat /\ v <= upper
  BY <1>2, <1>4, <1>5
<1>8. <<v, (mates + 1) \div 2, sees>> \in Q /\ (mates + 1) \div 2 <= w
  <2> DEFINE x == <<mates, sees>>
  <2>1. x \in (0..internal) \X (0..(upper - internal)) /\ x[1] + x[2] <= upper
    BY <1>2, <1>4, <1>5, <1>7
  <2>2. <<x[1] + x[2], (x[1] + 1) \div 2, x[2]>> \in FoxSights(upper, internal)
    BY <2>1 DEF FoxSights
  <2>3. (mates + 1) \div 2 <= w
    BY <1>1, <1>5
  <2>4. x[1] + x[2] = v /\ x[1] = mates /\ x[2] = sees
    BY <1>2, <1>4, <1>5
  <2> HIDE DEF x
  <2>5. <<v, (mates + 1) \div 2, sees>> \in FoxSights(upper, internal)
    BY <2>2, <2>4
  <2> QED BY <2>3, <2>5 DEF Q
<1>9. IsProfiles(Q)
  BY <1>2, FoxSightsAre DEF Q
<1>10. ASSUME NEW cross \in Nat, cross >= t PROVE ProfilesOffer(FoxProfiles(n, "A"), v, w, cross)
  <2> DEFINE p == <<v, (mates + 1) \div 2, sees>>
  <2>1. p[1] >= v /\ p[2] <= w /\ p[3] <= cross
    BY <1>2, <1>3, <1>7, <1>8, <1>10
  <2>2. ProfilesOffer(Q, v, w, cross)
    <3>1. p \in Q
      BY <1>8
    <3> HIDE DEF p
    <3> QED BY <2>1, <3>1 DEF ProfilesOffer
  <2> QED BY <1>1, <1>6, <1>7, <1>9, <2>2, EfficientOffers
<1>11. IsProfiles(FoxProfiles(n, "A"))
  BY <1>6, <1>9, EfficientOffers
<1>12. FoxScoreDomain(n, "A") = 0..upper /\ FoxCount(n, "A") = upper /\ FoxCandidate(n, "A") = upper
  BY DEF FoxScoreDomain, FoxCount, FoxCandidate, upper
<1>13. \A cross \in Nat : cross >= t =>
         Bounded(v, FoxScoreDomain(n, "A"), FoxCount(n, "A"), FoxProfiles(n, "A"), w, cross)
  BY <1>2, <1>7, <1>10, <1>11, <1>12 DEF Bounded
<1>14. FoxesBounded(n, w, t, v, "A")
  BY <1>2, <1>7, <1>12, <1>13 DEF FoxesBounded
<1> QED BY <1>14 DEF v, w, t

\* The foxes of a board respect their bounds, whatever their card is.
LEMMA FoxesAre ==
  ASSUME LatticeAssumption, NEW b, NEW n, HasCounts(b, n), NEW A, A = Positions(b, "fox"), NEW O, O = DOMAIN b \ A,
         NEW card \in Cards
  PROVE  FoxesBounded(n, Cardinality(Within(A)), Cardinality(Touching(A, O)), ScoreFoxes(b, card), card)
<1>1. card = "A" \/ card = "B" \/ card = "C" \/ card = "D"
  BY DEF Cards
<1> QED BY <1>1, FoxesByTypes, FoxesByDoubles, FoxesByCount, FoxesByPairs
=============================================================================
