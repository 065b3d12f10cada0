--------------------------- MODULE SequenceLemmas ---------------------------
(***************************************************************************)
(* Facts about data that the other proofs share: induction on numbers and  *)
(* on finite sets, the existence of recursively defined functions, what    *)
(* SumFunction and FlattenSeq return, and which elements a sequence holds  *)
(* after it is taken apart or put together.                                *)
(***************************************************************************)
EXTENDS Integers, SequencesExt, SequenceTheorems, FiniteSetTheorems, FunctionTheorems, TLAPS

-----------------------------------------------------------------------------
(* Induction.                                                               *)

\* A set that holds 0 and the successor of each of its members below n holds n:
\* otherwise i |-> i + 1 would be an injection of a finite set into itself that
\* misses 0.
LEMMA ReachesEnd ==
  ASSUME NEW S, NEW n \in Nat, 0 \in S, \A i \in 0..(n - 1) : i \in S => i + 1 \in S
  PROVE  n \in S
<1> DEFINE A == S \cap (0..n)
           f == [i \in A |-> i + 1]
<1> SUFFICES ASSUME n \notin S PROVE FALSE
  OBVIOUS
<1>1. IsFiniteSet(A)
  <2>1. IsFiniteSet(0..n)
    BY FS_Interval
  <2> QED BY <2>1, FS_Subset
<1>2. \A i \in A : i \in 0..(n - 1) /\ i + 1 \in A
  OBVIOUS
<1>3. f \in [A -> A]
  BY <1>2
<1>4. f \in Injection(A, A)
  BY <1>2, <1>3 DEF Injection, IsInjective
<1>5. f \in Surjection(A, A)
  BY <1>1, <1>4, FS_Injection
<1>6. 0 \in A
  OBVIOUS
<1>7. PICK i \in A : f[i] = 0
  BY <1>5, <1>6 DEF Surjection
<1> QED BY <1>7

\* The same for every number up to n.
LEMMA ReachesAll ==
  ASSUME NEW S, NEW n \in Nat, 0 \in S, \A i \in 0..(n - 1) : i \in S => i + 1 \in S
  PROVE  0..n \subseteq S
<1> SUFFICES ASSUME NEW m \in 0..n PROVE m \in S
  OBVIOUS
<1>1. \A i \in 0..(m - 1) : i \in S => i + 1 \in S
  OBVIOUS
<1> QED BY <1>1, ReachesEnd

\* What is defined by recursion on a number exists.
Follows(f, a, step, N) == f[0] = a /\ \A i \in 1..N : f[i] = step[<<i, f[i - 1]>>]

LEMMA Recursion ==
  ASSUME NEW T, NEW N \in Nat, NEW a \in T, NEW step \in [(1..N) \X T -> T]
  PROVE  \E f \in [0..N -> T] : Follows(f, a, step, N)
<1> DEFINE Steps(g, n) == g[0] = a /\ \A i \in 1..n : g[i] = step[<<i, g[i - 1]>>]
           Has == {n \in 0..N : \E g \in [0..n -> T] : Steps(g, n)}
<1>1. 0 \in Has
  <2> DEFINE g == [i \in 0..0 |-> a]
  <2>1. g \in [0..0 -> T] /\ g[0] = a /\ 1..0 = {}
    OBVIOUS
  <2> HIDE DEF g
  <2>2. Steps(g, 0) /\ 0 \in 0..N
    BY <2>1
  <2> QED BY <2>1, <2>2
<1>2. ASSUME NEW n \in 0..(N - 1), n \in Has PROVE n + 1 \in Has
  <2>1. PICK g \in [0..n -> T] : Steps(g, n)
    BY <1>2
  <2> DEFINE x == step[<<n + 1, g[n]>>]
             h == [i \in 0..(n + 1) |-> IF i = n + 1 THEN x ELSE g[i]]
  <2>2. x \in T
    <3>1. n + 1 \in 1..N /\ g[n] \in T
      OBVIOUS
    <3> QED BY <3>1
  <2>3. h \in [0..(n + 1) -> T]
    BY <2>2
  <2>4. h[n + 1] = x /\ \A i \in 0..n : h[i] = g[i]
    OBVIOUS
  <2> HIDE DEF h
  <2>5. ASSUME NEW i \in 1..(n + 1) PROVE h[i] = step[<<i, h[i - 1]>>]
    <3>1. i - 1 \in 0..n /\ h[i - 1] = g[i - 1]
      BY <2>4
    <3>2. CASE i = n + 1
      <4>1. i - 1 = n
        BY <3>2
      <4> QED BY <2>4, <3>1, <3>2, <4>1
    <3>3. CASE i # n + 1
      <4>1. i \in 1..n /\ i \in 0..n
        BY <3>3
      <4> QED BY <2>1, <2>4, <3>1, <4>1
    <3> QED BY <3>2, <3>3
  <2>6. n + 1 \in 0..N /\ Steps(h, n + 1)
    BY <2>1, <2>4, <2>5
  <2> QED BY <2>3, <2>6
<1>3. N \in Has
  <2> HIDE DEF Has
  <2> QED BY <1>1, <1>2, ReachesEnd
<1> QED BY <1>3 DEF Follows

\* The same for sets, taken apart one element at a time.
Chosen(s) == CHOOSE x \in s : TRUE
Rest(s) == s \ {Chosen(s)}

LEMMA RestIs ==
  ASSUME NEW S, IsFiniteSet(S), NEW s \in SUBSET S, s # {}
  PROVE  /\ Chosen(s) \in s /\ Rest(s) \in SUBSET S
         /\ IsFiniteSet(s) /\ Cardinality(s) \in Nat /\ Cardinality(s) # 0
         /\ Cardinality(Rest(s)) = Cardinality(s) - 1
<1>1. Chosen(s) \in s
  BY DEF Chosen
<1>2. IsFiniteSet(s)
  BY FS_Subset
<1>3. Cardinality(s) \in Nat /\ Cardinality(s) # 0
  BY <1>2, FS_CardinalityType, FS_EmptySet
<1>4. Cardinality(Rest(s)) = Cardinality(s) - 1
  BY <1>1, <1>2, FS_RemoveElement DEF Rest
<1> QED BY <1>1, <1>2, <1>3, <1>4 DEF Rest

\* What {} has, and a set has whenever it has it without its chosen element,
\* every subset of a finite set has.
LEMMA ReachesSubsets ==
  ASSUME NEW S, IsFiniteSet(S), NEW Good, {} \in Good,
         \A s \in SUBSET S : s # {} /\ Rest(s) \in Good => s \in Good
  PROVE  SUBSET S \subseteq Good
<1> DEFINE N == Cardinality(S)
           K == {n \in 0..N : \A s \in SUBSET S : Cardinality(s) <= n => s \in Good}
<1>0. N \in Nat
  BY FS_CardinalityType
<1> HIDE DEF N
<1>1. 0 \in K
  <2>1. ASSUME NEW s \in SUBSET S, Cardinality(s) <= 0 PROVE s \in Good
    <3>1. s # {} => Cardinality(s) \in Nat /\ Cardinality(s) # 0
      BY RestIs
    <3> QED BY <2>1, <3>1
  <2>2. 0 \in 0..N
    BY <1>0
  <2> QED BY <2>1, <2>2
<1>2. ASSUME NEW n \in 0..(N - 1), n \in K PROVE n + 1 \in K
  <2>1. ASSUME NEW s \in SUBSET S, Cardinality(s) <= n + 1 PROVE s \in Good
    <3>1. CASE s # {}
      <4>1. Rest(s) \in SUBSET S /\ Cardinality(s) \in Nat /\ Cardinality(Rest(s)) = Cardinality(s) - 1
        BY <3>1, RestIs
      <4>2. Cardinality(Rest(s)) <= n
        BY <2>1, <4>1
      <4>3. Rest(s) \in Good
        BY <1>2, <4>1, <4>2
      <4> QED BY <3>1, <4>3
    <3> QED BY <3>1
  <2>2. n + 1 \in 0..N
    BY <1>0
  <2> QED BY <2>1, <2>2
<1>3. N \in K
  <2> HIDE DEF K
  <2> QED BY <1>0, <1>1, <1>2, ReachesEnd
<1>4. ASSUME NEW s \in SUBSET S PROVE Cardinality(s) <= N
  BY FS_Subset DEF N
<1> QED BY <1>3, <1>4

\* What is defined by recursion on a finite set exists.
Builds(it, a, step, S) ==
  it[{}] = a /\ \A s \in SUBSET S : s # {} => it[s] = step[<<s, it[Rest(s)]>>]

LEMMA SetRecursion ==
  ASSUME NEW S, IsFiniteSet(S), NEW T, NEW a \in T, NEW step \in [(SUBSET S) \X T -> T]
  PROVE  \E it \in [SUBSET S -> T] : Builds(it, a, step, S)
<1> DEFINE N == Cardinality(S)
           F == [SUBSET S -> T]
           Once(h) == [s \in SUBSET S |-> IF s = {} THEN a ELSE step[<<s, h[Rest(s)]>>]]
           start == [s \in SUBSET S |-> a]
           again == [p \in (1..(N + 1)) \X F |-> Once(p[2])]
<1>0. N \in Nat /\ N + 1 \in Nat
  BY FS_CardinalityType
<1> HIDE DEF N
<1>1. \A s \in SUBSET S : s # {} => Rest(s) \in SUBSET S
  BY RestIs
<1>2. \A h \in F : Once(h) \in F
  <2> SUFFICES ASSUME NEW h \in F PROVE Once(h) \in F
    OBVIOUS
  <2>1. \A s \in SUBSET S : s # {} => step[<<s, h[Rest(s)]>>] \in T
    BY <1>1
  <2> QED BY <2>1
<1>3. start \in F
  OBVIOUS
<1>4. again \in [(1..(N + 1)) \X F -> F]
  <2> HIDE DEF F, Once
  <2> QED BY <1>2
<1>5. PICK g \in [0..(N + 1) -> F] : Follows(g, start, again, N + 1)
  <2> HIDE DEF F, again, start
  <2> QED BY <1>0, <1>3, <1>4, Recursion
<1>6. g[0] = start /\ \A i \in 0..N : g[i] \in F /\ g[i + 1] = Once(g[i])
  <2>1. g[0] = start
    BY <1>5 DEF Follows
  <2>2. ASSUME NEW i \in 0..N PROVE g[i] \in F /\ g[i + 1] = Once(g[i])
    <3>1. i + 1 \in 1..(N + 1) /\ (i + 1) - 1 = i /\ i \in 0..(N + 1)
      BY <1>0
    <3>2. g[i] \in F
      BY <1>5, <3>1
    <3>3. g[i + 1] = again[<<i + 1, g[i]>>]
      BY <1>5, <3>1 DEF Follows
    <3>4. again[<<i + 1, g[i]>>] = Once(g[i])
      <4> HIDE DEF F, Once
      <4> QED BY <3>1, <3>2
    <3> QED BY <3>2, <3>3, <3>4
  <2> HIDE DEF Once, F
  <2> QED BY <2>1, <2>2
<1> DEFINE K == {n \in 0..N : \A s \in SUBSET S : Cardinality(s) <= n => g[n + 1][s] = g[n][s]}
<1>7. 0 \in K
  <2>1. ASSUME NEW s \in SUBSET S, Cardinality(s) <= 0 PROVE g[0 + 1][s] = g[0][s]
    <3>1. s # {} => Cardinality(s) \in Nat /\ Cardinality(s) # 0
      BY RestIs
    <3>2. s = {}
      BY <2>1, <3>1
    <3>3. g[0 + 1] = Once(g[0])
      <4>1. 0 \in 0..N
        BY <1>0
      <4> HIDE DEF Once
      <4> QED BY <1>6, <4>1
    <3>4. g[0][s] = a /\ Once(g[0])[s] = a
      BY <1>6, <3>2
    <3> QED BY <3>3, <3>4
  <2>2. 0 \in 0..N
    BY <1>0
  <2> QED BY <2>1, <2>2
<1>8. ASSUME NEW n \in 0..(N - 1), n \in K PROVE n + 1 \in K
  <2>0. n + 1 \in 0..N /\ n \in 0..N
    BY <1>0
  <2>1. ASSUME NEW s \in SUBSET S, Cardinality(s) <= n + 1 PROVE g[n + 1 + 1][s] = g[n + 1][s]
    <3>0. g[n + 1] = Once(g[n]) /\ g[n + 1 + 1] = Once(g[n + 1])
      <4> HIDE DEF Once
      <4> QED BY <2>0, <1>6
    <3>1. CASE s # {}
      <4>1. Rest(s) \in SUBSET S /\ Cardinality(s) \in Nat /\ Cardinality(Rest(s)) = Cardinality(s) - 1
        BY <3>1, RestIs
      <4>2. Cardinality(Rest(s)) <= n
        BY <2>1, <4>1
      <4>3. g[n + 1][Rest(s)] = g[n][Rest(s)]
        BY <1>8, <4>1, <4>2
      <4>4. \A h : Once(h)[s] = step[<<s, h[Rest(s)]>>]
        BY <3>1
      <4>5. Once(g[n])[s] = Once(g[n + 1])[s]
        <5> HIDE DEF Once
        <5> QED BY <4>3, <4>4
      <4> HIDE DEF Once
      <4> QED BY <3>0, <4>5
    <3>2. CASE s = {}
      <4>1. \A h : Once(h)[s] = a
        BY <3>2
      <4> HIDE DEF Once
      <4> QED BY <3>0, <4>1
    <3> QED BY <3>1, <3>2
  <2> QED BY <2>0, <2>1
<1>9. N \in K
  <2> HIDE DEF K
  <2> QED BY <1>0, <1>7, <1>8, ReachesEnd
<1>10. g[N] \in F /\ g[N + 1] = Once(g[N])
  <2>1. N \in 0..N
    BY <1>0
  <2> HIDE DEF Once, F
  <2> QED BY <2>1, <1>6
<1>11. ASSUME NEW s \in SUBSET S PROVE g[N][s] = Once(g[N])[s]
  <2>1. Cardinality(s) <= N
    BY FS_Subset DEF N
  <2>2. g[N + 1][s] = g[N][s]
    BY <1>9, <2>1
  <2> HIDE DEF Once
  <2> QED BY <1>10, <2>2
<1> DEFINE it == g[N]
<1>12. it[{}] = a
  <2>1. {} \in SUBSET S /\ \A h : Once(h)[{}] = a
    OBVIOUS
  <2> HIDE DEF Once
  <2> QED BY <1>11, <2>1
<1>13. ASSUME NEW s \in SUBSET S, s # {} PROVE it[s] = step[<<s, it[Rest(s)]>>]
  <2>1. \A h : Once(h)[s] = step[<<s, h[Rest(s)]>>]
    BY <1>13
  <2> HIDE DEF Once
  <2> QED BY <1>11, <2>1
<1>14. it \in F
  BY <1>10
<1> HIDE DEF it
<1> QED BY <1>12, <1>13, <1>14 DEF Builds

\* What every subset of a finite set has, if it has it whenever its own proper subsets do.
LEMMA SmallerSubsets ==
  ASSUME NEW S, IsFiniteSet(S), NEW Good,
         \A s \in SUBSET S : (\A u \in SUBSET s : u # s => u \in Good) => s \in Good
  PROVE  SUBSET S \subseteq Good
<1> DEFINE N == Cardinality(S)
           K == {n \in 0..N : \A s \in SUBSET S : Cardinality(s) <= n => s \in Good}
<1>0. N \in Nat
  BY FS_CardinalityType
<1> HIDE DEF N
<1>a. \A s \in SUBSET S : /\ IsFiniteSet(s) /\ Cardinality(s) \in Nat
                          /\ \A u \in SUBSET s : u # s => Cardinality(u) \in Nat /\ Cardinality(u) < Cardinality(s)
  BY FS_Subset, FS_CardinalityType
<1>1. 0 \in K
  <2>1. ASSUME NEW s \in SUBSET S, Cardinality(s) <= 0 PROVE s \in Good
    <3>1. \A u \in SUBSET s : u # s => u \in Good
      BY <1>a, <2>1
    <3> QED BY <3>1
  <2> QED BY <1>0, <2>1
<1>2. ASSUME NEW n \in 0..(N - 1), n \in K PROVE n + 1 \in K
  <2>1. ASSUME NEW s \in SUBSET S, Cardinality(s) <= n + 1 PROVE s \in Good
    <3>1. ASSUME NEW u \in SUBSET s, u # s PROVE u \in Good
      <4>1. Cardinality(u) \in Nat /\ Cardinality(u) < Cardinality(s) /\ Cardinality(s) \in Nat /\ u \in SUBSET S
        BY <1>a, <3>1
      <4>2. Cardinality(u) <= n
        BY <2>1, <4>1
      <4> QED BY <1>2, <4>1, <4>2
    <3> QED BY <3>1
  <2>2. n + 1 \in 0..N
    BY <1>0
  <2> QED BY <2>1, <2>2
<1>3. N \in K
  <2> HIDE DEF K
  <2> QED BY <1>0, <1>1, <1>2, ReachesEnd
<1>4. ASSUME NEW s \in SUBSET S PROVE Cardinality(s) <= N
  BY FS_Subset DEF N
<1> QED BY <1>3, <1>4

\* A step from the values of the proper subsets to the value of a set.
Local(step, S, F) ==
  \A s \in SUBSET S : \A g, h \in F :
    (\A u \in SUBSET s : u # s => g[u] = h[u]) => step[<<s, g>>] = step[<<s, h>>]

Settles(it, step, S) == \A s \in SUBSET S : it[s] = step[<<s, it>>]

LEMMA SubsetRecursion ==
  ASSUME NEW S, IsFiniteSet(S), NEW T, NEW a \in T,
         NEW step \in [(SUBSET S) \X [SUBSET S -> T] -> T], Local(step, S, [SUBSET S -> T])
  PROVE  \E it \in [SUBSET S -> T] : Settles(it, step, S)
<1> DEFINE N == Cardinality(S)
           F == [SUBSET S -> T]
           Once(h) == [s \in SUBSET S |-> step[<<s, h>>]]
           start == [s \in SUBSET S |-> a]
           again == [p \in (1..(N + 1)) \X F |-> Once(p[2])]
<1>0. N \in Nat /\ N + 1 \in Nat
  BY FS_CardinalityType
<1> HIDE DEF N
<1>2. \A h \in F : Once(h) \in F
  OBVIOUS
<1>3. start \in F
  OBVIOUS
<1>4. again \in [(1..(N + 1)) \X F -> F]
  <2> HIDE DEF F, Once
  <2> QED BY <1>2
<1>5. PICK g \in [0..(N + 1) -> F] : Follows(g, start, again, N + 1)
  <2> HIDE DEF F, again, start
  <2> QED BY <1>0, <1>3, <1>4, Recursion
<1>6. \A i \in 0..N : g[i] \in F /\ g[i + 1] \in F /\ g[i + 1] = Once(g[i])
  <2> SUFFICES ASSUME NEW i \in 0..N PROVE g[i] \in F /\ g[i + 1] \in F /\ g[i + 1] = Once(g[i])
    OBVIOUS
  <2>1. i + 1 \in 1..(N + 1) /\ (i + 1) - 1 = i /\ i \in 0..(N + 1) /\ i + 1 \in 0..(N + 1)
    BY <1>0
  <2> HIDE DEF F, Once
  <2>2. g[i] \in F /\ g[i + 1] \in F
    BY <1>5, <2>1
  <2>3. g[i + 1] = again[<<i + 1, g[i]>>]
    BY <1>5, <2>1 DEF Follows
  <2> QED BY <2>1, <2>2, <2>3
<1>7. \A i \in 0..N, s \in SUBSET S : g[i + 1][s] = step[<<s, g[i]>>]
  <2> HIDE DEF F
  <2> QED BY <1>6
\* After as many rounds as it has elements the value of a set no longer changes.
<1> DEFINE K == {n \in 0..N : \A s \in SUBSET S : Cardinality(s) <= n =>
                                 \A i \in n..N : g[i + 1][s] = g[n + 1][s]}
<1>a. \A s \in SUBSET S : /\ IsFiniteSet(s) /\ Cardinality(s) \in Nat
                          /\ \A u \in SUBSET s : u # s => Cardinality(u) \in Nat /\ Cardinality(u) < Cardinality(s)
  BY FS_Subset, FS_CardinalityType
<1> HIDE DEF F, Once
<1>8. 0 \in K
  <2>1. ASSUME NEW s \in SUBSET S, Cardinality(s) <= 0, NEW i \in 0..N PROVE g[i + 1][s] = g[0 + 1][s]
    <3>1. ASSUME NEW u \in SUBSET s, u # s PROVE g[i][u] = g[0][u]
      <4>1. Cardinality(s) \in Nat /\ Cardinality(u) \in Nat /\ Cardinality(u) < Cardinality(s)
        BY <1>a, <3>1
      <4> QED BY <2>1, <4>1
    <3>2. 0 \in 0..N /\ g[i] \in F /\ g[0] \in F
      BY <1>0, <1>6
    <3>3. step[<<s, g[i]>>] = step[<<s, g[0]>>]
      BY <3>1, <3>2 DEF Local, F
    <3> QED BY <1>7, <3>2, <3>3
  <2> QED BY <1>0, <2>1
<1>9. ASSUME NEW n \in 0..(N - 1), n \in K PROVE n + 1 \in K
  <2>1. ASSUME NEW s \in SUBSET S, Cardinality(s) <= n + 1, NEW i \in (n + 1)..N
        PROVE  g[i + 1][s] = g[(n + 1) + 1][s]
    <3>1. ASSUME NEW u \in SUBSET s, u # s PROVE g[i][u] = g[n + 1][u]
      <4>1. Cardinality(u) <= n /\ u \in SUBSET S
        BY <1>a, <2>1, <3>1
      <4>2. i - 1 \in n..N /\ (i - 1) + 1 = i
        BY <1>0
      <4>3. \A j \in n..N : g[j + 1][u] = g[n + 1][u]
        BY <1>9, <4>1
      <4> QED BY <4>2, <4>3
    <3>2. i \in 0..N /\ n + 1 \in 0..N /\ g[i] \in F /\ g[n + 1] \in F
      BY <1>0, <1>6
    <3>3. step[<<s, g[i]>>] = step[<<s, g[n + 1]>>]
      BY <3>1, <3>2 DEF Local, F
    <3> QED BY <1>7, <3>2, <3>3
  <2> QED BY <1>0, <2>1
<1>10. 0..N \subseteq K
  <2> HIDE DEF K
  <2> QED BY <1>0, <1>8, <1>9, ReachesAll
<1> DEFINE it == g[N + 1]
<1>11. it \in F /\ g[N] \in F /\ N \in 0..N
  BY <1>0, <1>6
<1>12. ASSUME NEW s \in SUBSET S PROVE it[s] = step[<<s, it>>]
  <2>1. ASSUME NEW u \in SUBSET s, u # s PROVE g[N][u] = it[u]
    <3>1. Cardinality(u) \in Nat /\ Cardinality(u) < Cardinality(s) /\ Cardinality(s) <= N /\ u \in SUBSET S
      BY <1>a, <2>1, FS_Subset DEF N
    <3>2. N - 1 \in 0..N /\ Cardinality(u) <= N - 1
      BY <1>0, <1>a, <3>1
    <3>3. N - 1 \in K
      BY <1>10, <3>2
    <3>4. N \in (N - 1)..N /\ (N - 1) + 1 = N
      BY <1>0
    <3> QED BY <3>1, <3>2, <3>3, <3>4
  <2>2. step[<<s, g[N]>>] = step[<<s, it>>]
    BY <1>11, <2>1 DEF Local, F
  <2> QED BY <1>7, <1>11, <2>2
<1> QED BY <1>11, <1>12 DEF F, Settles

-----------------------------------------------------------------------------
(* SumFunction.                                                             *)

\* SumFunction adds the values one by one.
AddsUp(it, f, S) ==
  it[{}] = 0 /\ \A s \in SUBSET S : s # {} => it[s] = f[Chosen(s)] + it[Rest(s)]

LEMMA SumUnfolds ==
  ASSUME NEW S, IsFiniteSet(S), NEW f \in [S -> Int]
  PROVE  \E it \in [SUBSET S -> Int] : AddsUp(it, f, S) /\ SumFunction(f) = it[S]
<1> DEFINE Eqn(h) == h = [s \in SUBSET S |-> IF s = {} THEN 0
                                             ELSE f[CHOOSE x \in s : TRUE] + h[s \ {CHOOSE x \in s : TRUE}]]
           sum == CHOOSE h : Eqn(h)
           step == [p \in (SUBSET S) \X Int |-> IF p[1] = {} THEN 0 ELSE f[Chosen(p[1])] + p[2]]
<1>0. \A s \in SUBSET S : s # {} => Chosen(s) \in S /\ Rest(s) \in SUBSET S
  BY RestIs
<1>1. step \in [(SUBSET S) \X Int -> Int]
  <2>1. \A s \in SUBSET S, n \in Int : s # {} => f[Chosen(s)] + n \in Int
    BY <1>0
  <2> QED BY <2>1
<1>2. PICK it \in [SUBSET S -> Int] : Builds(it, 0, step, S)
  <2>1. ASSUME NEW T, T = Int
        PROVE  \E it \in [SUBSET S -> T] : Builds(it, 0, step, S)
    <3>1. step \in [(SUBSET S) \X T -> T] /\ 0 \in T
      <4> HIDE DEF step
      <4> QED BY <1>1, <2>1
    <3> HIDE DEF step
    <3> QED BY <3>1, SetRecursion
  <2> HIDE DEF step
  <2> QED BY <2>1
<1>3. it[{}] = 0 /\ \A s \in SUBSET S : s # {} => it[s] = f[Chosen(s)] + it[Rest(s)]
  <2>1. ASSUME NEW s \in SUBSET S, s # {} PROVE it[s] = f[Chosen(s)] + it[Rest(s)]
    <3>1. it[s] = step[<<s, it[Rest(s)]>>]
      BY <1>2, <2>1 DEF Builds
    <3>2. it[Rest(s)] \in Int
      BY <1>0, <2>1
    <3> QED BY <2>1, <3>1, <3>2
  <2>2. it[{}] = 0
    BY <1>2 DEF Builds
  <2> HIDE DEF step
  <2> QED BY <2>1, <2>2
<1>4. Eqn(it)
  <2>1. \A s \in SUBSET S : it[s] = IF s = {} THEN 0
          ELSE f[CHOOSE x \in s : TRUE] + it[s \ {CHOOSE x \in s : TRUE}]
    BY <1>3 DEF Chosen, Rest
  <2> QED BY <2>1
<1>5. Eqn(sum)
  <2> HIDE DEF Eqn
  <2> QED BY <1>4
<1>6. SumFunction(f) = sum[S]
  BY DEF SumFunction, SumFunctionOnSet, FoldFunctionOnSet, MapThenFoldSet
<1>7. \A s \in SUBSET S : sum[s] = IF s = {} THEN 0 ELSE f[Chosen(s)] + sum[Rest(s)]
  <2> HIDE DEF sum
  <2> QED BY <1>5 DEF Chosen, Rest
<1>8. DOMAIN sum = SUBSET S
  <2> HIDE DEF sum
  <2> QED BY <1>5
<1> HIDE DEF sum, Eqn
<1> DEFINE G == {s \in SUBSET S : sum[s] \in Int}
<1>9. {} \in G
  BY <1>7
<1>10. ASSUME NEW s \in SUBSET S, s # {}, Rest(s) \in G PROVE s \in G
  <2>1. f[Chosen(s)] \in Int
    BY <1>0, <1>10
  <2> QED BY <1>7, <1>10, <2>1
<1>11. SUBSET S \subseteq G
  <2> HIDE DEF G
  <2> QED BY <1>9, <1>10, ReachesSubsets
<1>12. sum \in [SUBSET S -> Int]
  BY <1>5, <1>8, <1>11 DEF Eqn
<1>13. AddsUp(sum, f, S)
  BY <1>7 DEF AddsUp
<1> QED BY <1>6, <1>12, <1>13

\* A sum of zeros is zero.
LEMMA SumOfZeros ==
  ASSUME NEW S, IsFiniteSet(S), NEW f \in [S -> Int], \A x \in S : f[x] = 0
  PROVE  SumFunction(f) = 0
<1>1. PICK it \in [SUBSET S -> Int] : AddsUp(it, f, S) /\ SumFunction(f) = it[S]
  BY SumUnfolds
<1> DEFINE G == {s \in SUBSET S : it[s] = 0}
<1>2. {} \in G
  BY <1>1 DEF AddsUp
<1>3. ASSUME NEW s \in SUBSET S, s # {}, Rest(s) \in G PROVE s \in G
  <2>1. Chosen(s) \in S
    BY <1>3, RestIs
  <2> QED BY <1>1, <1>3, <2>1 DEF AddsUp
<1>4. SUBSET S \subseteq G
  <2> HIDE DEF G
  <2> QED BY <1>2, <1>3, ReachesSubsets
<1> QED BY <1>1, <1>4

\* One value more by one is a sum more by one.
LEMMA SumOfOneMore ==
  ASSUME NEW S, IsFiniteSet(S), NEW f \in [S -> Int], NEW h \in [S -> Int], NEW p \in S,
         h[p] = f[p] + 1, \A x \in S \ {p} : h[x] = f[x]
  PROVE  SumFunction(h) = SumFunction(f) + 1
<1>1. PICK it \in [SUBSET S -> Int] : AddsUp(it, f, S) /\ SumFunction(f) = it[S]
  BY SumUnfolds
<1>2. PICK ih \in [SUBSET S -> Int] : AddsUp(ih, h, S) /\ SumFunction(h) = ih[S]
  BY SumUnfolds
<1> DEFINE G == {s \in SUBSET S : ih[s] = it[s] + (IF p \in s THEN 1 ELSE 0)}
<1>3. {} \in G
  BY <1>1, <1>2 DEF AddsUp
<1>4. ASSUME NEW s \in SUBSET S, s # {}, Rest(s) \in G PROVE s \in G
  <2>1. Chosen(s) \in S /\ Rest(s) \in SUBSET S
    BY <1>4, RestIs
  <2>2. ih[s] = h[Chosen(s)] + ih[Rest(s)] /\ it[s] = f[Chosen(s)] + it[Rest(s)]
    BY <1>1, <1>2, <1>4 DEF AddsUp
  <2>3. ih[Rest(s)] = it[Rest(s)] + (IF p \in Rest(s) THEN 1 ELSE 0) /\ it[Rest(s)] \in Int
    BY <1>4, <2>1
  <2>4. CASE p = Chosen(s)
    <3>1. p \in s /\ p \notin Rest(s)
      BY <2>4, <1>4, RestIs DEF Rest
    <3>2. ih[s] = (f[p] + 1) + it[Rest(s)] /\ it[s] = f[p] + it[Rest(s)] /\ f[p] \in Int
      BY <2>2, <2>3, <2>4, <3>1
    <3> QED BY <2>3, <3>1, <3>2
  <2>5. CASE p # Chosen(s)
    <3>1. p \in s <=> p \in Rest(s)
      BY <2>5 DEF Rest
    <3>2. h[Chosen(s)] = f[Chosen(s)] /\ f[Chosen(s)] \in Int
      BY <2>1, <2>5
    <3> QED BY <2>2, <2>3, <3>1, <3>2
  <2> QED BY <2>4, <2>5
<1>5. S \in G
  <2> HIDE DEF G
  <2>1. SUBSET S \subseteq G
    BY <1>3, <1>4, ReachesSubsets
  <2> QED BY <2>1
<1> QED BY <1>1, <1>2, <1>5

\* It does not matter which value is added first.
Takes(it, f, s, x) == it[s] = f[x] + it[s \ {x}]

LEMMA SumTakes ==
  ASSUME NEW S, IsFiniteSet(S), NEW f \in [S -> Int], NEW it \in [SUBSET S -> Int], AddsUp(it, f, S),
         NEW s \in SUBSET S, NEW x \in s
  PROVE  Takes(it, f, s, x)
<1> DEFINE N == Cardinality(S)
           K == {n \in 0..N : \A u \in SUBSET S : Cardinality(u) <= n => \A y \in u : it[u] = f[y] + it[u \ {y}]}
<1>0. N \in Nat
  BY FS_CardinalityType
<1> HIDE DEF N
<1>1. 0 \in K
  <2>1. ASSUME NEW u \in SUBSET S, Cardinality(u) <= 0 PROVE u = {}
    BY <2>1, RestIs
  <2> QED BY <1>0, <2>1
<1>2. ASSUME NEW n \in 0..(N - 1), n \in K PROVE n + 1 \in K
  <2>1. ASSUME NEW u \in SUBSET S, Cardinality(u) <= n + 1, NEW y \in u PROVE it[u] = f[y] + it[u \ {y}]
    <3> DEFINE c == Chosen(u)
               v == u \ {c, y}
    <3>1. c \in u /\ IsFiniteSet(u) /\ Cardinality(u) \in Nat
      BY RestIs
    <3>2. it[u] = f[c] + it[u \ {c}]
      BY <2>1 DEF AddsUp, Rest
    <3> HIDE DEF c
    <3>3. CASE y # c
      <4>1. Cardinality(u \ {c}) = Cardinality(u) - 1 /\ Cardinality(u \ {y}) = Cardinality(u) - 1
        BY <3>1, FS_RemoveElement
      <4>2. Cardinality(u \ {c}) <= n /\ Cardinality(u \ {y}) <= n
        BY <2>1, <3>1, <4>1
      <4>3. u \ {c} \in SUBSET S /\ u \ {y} \in SUBSET S /\ v \in SUBSET S
        OBVIOUS
      <4>4. (u \ {c}) \ {y} = v /\ (u \ {y}) \ {c} = v
        OBVIOUS
      <4>5. it[u \ {c}] = f[y] + it[v]
        <5>1. y \in u \ {c}
          BY <3>3
        <5>2. \A z \in u \ {c} : it[u \ {c}] = f[z] + it[(u \ {c}) \ {z}]
          BY <1>2, <4>2, <4>3
        <5> HIDE DEF v
        <5> QED BY <4>4, <5>1, <5>2
      <4>6. it[u \ {y}] = f[c] + it[v]
        <5>1. c \in u \ {y}
          BY <3>1, <3>3
        <5>2. \A z \in u \ {y} : it[u \ {y}] = f[z] + it[(u \ {y}) \ {z}]
          BY <1>2, <4>2, <4>3
        <5> HIDE DEF v
        <5> QED BY <4>4, <5>1, <5>2
      <4>7. f[c] \in Int /\ f[y] \in Int /\ it[v] \in Int
        BY <3>1, <4>3
      <4> HIDE DEF v
      <4> QED BY <3>2, <4>5, <4>6, <4>7
    <3> QED BY <3>2, <3>3
  <2>2. n + 1 \in 0..N
    BY <1>0
  <2> QED BY <2>1, <2>2
<1>3. N \in K
  <2> HIDE DEF K
  <2> QED BY <1>0, <1>1, <1>2, ReachesEnd
<1>4. Cardinality(s) <= N
  BY FS_Subset DEF N
<1> QED BY <1>3, <1>4 DEF Takes

\* The values of a set are added up alike as part of another set.
LEMMA SumAgrees ==
  ASSUME NEW S, IsFiniteSet(S), NEW f \in [S -> Int], NEW it \in [SUBSET S -> Int], AddsUp(it, f, S),
         NEW T, T \subseteq S, NEW h \in [T -> Int], \A x \in T : h[x] = f[x]
  PROVE  SumFunction(h) = it[T]
<1>1. IsFiniteSet(T)
  BY FS_Subset
<1>2. PICK ih \in [SUBSET T -> Int] : AddsUp(ih, h, T) /\ SumFunction(h) = ih[T]
  BY <1>1, SumUnfolds
<1> DEFINE G == {s \in SUBSET T : ih[s] = it[s]}
<1>3. {} \in G
  BY <1>2 DEF AddsUp
<1>4. ASSUME NEW s \in SUBSET T, s # {}, Rest(s) \in G PROVE s \in G
  <2>1. Chosen(s) \in T /\ s \in SUBSET S
    BY <1>1, <1>4, RestIs
  <2>2. ih[s] = h[Chosen(s)] + ih[Rest(s)] /\ it[s] = f[Chosen(s)] + it[Rest(s)]
    BY <1>2, <1>4, <2>1 DEF AddsUp
  <2> QED BY <1>4, <2>1, <2>2
<1>5. SUBSET T \subseteq G
  <2> HIDE DEF G
  <2> QED BY <1>1, <1>3, <1>4, ReachesSubsets
<1> QED BY <1>2, <1>5

\* A sum of natural numbers.
LEMMA SumOfNats ==
  ASSUME NEW S, IsFiniteSet(S), NEW f, f = [x \in S |-> f[x]], \A x \in S : f[x] \in Nat
  PROVE  SumFunction(f) \in Nat
<1>1. f \in [S -> Int]
  OBVIOUS
<1>2. PICK it \in [SUBSET S -> Int] : AddsUp(it, f, S) /\ SumFunction(f) = it[S]
  BY <1>1, SumUnfolds
<1> DEFINE G == {s \in SUBSET S : it[s] \in Nat}
<1>3. {} \in G
  BY <1>2 DEF AddsUp
<1>4. ASSUME NEW s \in SUBSET S, s # {}, Rest(s) \in G PROVE s \in G
  <2>1. it[s] = f[Chosen(s)] + it[Rest(s)] /\ Chosen(s) \in S
    BY <1>2, <1>4, RestIs DEF AddsUp
  <2> QED BY <1>4, <2>1
<1>5. SUBSET S \subseteq G
  <2> HIDE DEF G
  <2> QED BY <1>3, <1>4, ReachesSubsets
<1> QED BY <1>2, <1>5

\* A sum with one value less.
OneLess(h, f, p) == SumFunction(h) = SumFunction(f) + h[p] /\ SumFunction(f) \in Int

LEMMA SumWithout ==
  ASSUME NEW T, IsFiniteSet(T), NEW h \in [T -> Int], NEW p \in T,
         NEW f \in [T \ {p} -> Int], \A x \in T \ {p} : h[x] = f[x]
  PROVE  OneLess(h, f, p)
<1>1. PICK it \in [SUBSET T -> Int] : AddsUp(it, h, T) /\ SumFunction(h) = it[T]
  BY SumUnfolds
<1>2. it[T] = h[p] + it[T \ {p}]
  <2>1. T \in SUBSET T
    OBVIOUS
  <2>2. Takes(it, h, T, p)
    BY <1>1, <2>1, SumTakes
  <2> QED BY <2>2 DEF Takes
<1>3. SumFunction(f) = it[T \ {p}]
  <2>1. AddsUp(it, h, T)
    BY <1>1
  <2>2. ASSUME NEW R, R \subseteq T, NEW k \in [R -> Int], \A x \in R : k[x] = h[x]
        PROVE  SumFunction(k) = it[R]
    BY <2>1, <2>2, SumAgrees
  <2>3. T \ {p} \subseteq T /\ \A x \in T \ {p} : f[x] = h[x]
    OBVIOUS
  <2> QED BY <2>2, <2>3
<1>4. it[T \ {p}] \in Int /\ h[p] \in Int
  OBVIOUS
<1> QED BY <1>1, <1>2, <1>3, <1>4 DEF OneLess

LEMMA SumOfNone == SumFunction([x \in {} |-> 0]) = 0
<1>1. IsFiniteSet({}) /\ [x \in {} |-> 0] \in [{} -> Int]
  BY FS_EmptySet
<1> QED BY <1>1, SumOfZeros

\* As many images as elements.
LEMMA ImageSize ==
  ASSUME NEW S, IsFiniteSet(S), NEW f, NEW A, \A x \in S : f[x] \in A, f = [x \in S |-> f[x]],
         \A y \in A : \E x \in S : f[x] = y, \A x, y \in S : f[x] = f[y] => x = y
  PROVE  IsFiniteSet(A) /\ Cardinality(A) = Cardinality(S)
<1>1. f \in [S -> A]
  OBVIOUS
<1>2. f \in Bijection(S, A)
  BY <1>1 DEF Bijection, Injection, Surjection, IsInjective
<1>3. ExistsBijection(S, A)
  BY <1>2 DEF ExistsBijection
<1> QED BY <1>3, FS_Bijection

\* The sizes of disjoint sets add up to the size of their union.
LEMMA SizesAddUp ==
  ASSUME NEW S, IsFiniteSet(S), NEW of, \A x \in S : IsFiniteSet(of[x]),
         \A x, y \in S : x # y => of[x] \cap of[y] = {},
         NEW V, \A y : y \in V <=> \E x \in S : y \in of[x]
  PROVE  IsFiniteSet(V) /\ Cardinality(V) = SumFunction([x \in S |-> Cardinality(of[x])])
<1> DEFINE f == [x \in S |-> Cardinality(of[x])]
           U(s) == {y \in V : \E x \in s : y \in of[x]}
<1>1. f \in [S -> Int]
  <2>1. \A x \in S : Cardinality(of[x]) \in Int
    BY FS_CardinalityType
  <2> QED BY <2>1
<1>2. PICK it \in [SUBSET S -> Int] : AddsUp(it, f, S) /\ SumFunction(f) = it[S]
  <2> HIDE DEF f
  <2> QED BY <1>1, SumUnfolds
<1>3. \A x \in S : f[x] = Cardinality(of[x])
  OBVIOUS
<1> HIDE DEF f
<1> DEFINE Good == {s \in SUBSET S : IsFiniteSet(U(s)) /\ Cardinality(U(s)) = it[s]}
<1>4. {} \in Good
  <2>1. U({}) = {}
    OBVIOUS
  <2>2. it[{}] = 0
    BY <1>2 DEF AddsUp
  <2> HIDE DEF U
  <2> QED BY <2>1, <2>2, FS_EmptySet
<1>5. ASSUME NEW s \in SUBSET S, s # {}, Rest(s) \in Good PROVE s \in Good
  <2> DEFINE c == Chosen(s)
             A == of[c]
             B == U(Rest(s))
  <2>1. c \in S /\ c \in s /\ \A x : x \in s <=> x = c \/ x \in Rest(s)
    BY <1>5, RestIs DEF Rest
  <2>2. c \notin Rest(s) /\ Rest(s) \in SUBSET S
    BY DEF Rest
  <2>3. it[s] = f[c] + it[Rest(s)]
    BY <1>2, <1>5 DEF AddsUp
  <2> HIDE DEF c
  <2>4. U(s) = A \cup B
    BY <2>1
  <2>5. A \cap B = {}
    BY <2>1, <2>2
  <2>6. IsFiniteSet(A) /\ IsFiniteSet(B) /\ Cardinality(B) = it[Rest(s)] /\ f[c] = Cardinality(A)
    BY <1>3, <1>5, <2>1
  <2> HIDE DEF A, B
  <2>7. /\ IsFiniteSet(A \cup B)
        /\ Cardinality(A \cup B) = Cardinality(A) + Cardinality(B) - Cardinality(A \cap B)
        /\ Cardinality(A) \in Nat /\ Cardinality(B) \in Nat
    BY <2>6, FS_Union, FS_CardinalityType
  <2>8. Cardinality(A \cap B) = 0
    BY <2>5, FS_EmptySet
  <2>9. IsFiniteSet(U(s)) /\ Cardinality(U(s)) = it[s]
    <3> HIDE DEF U
    <3> QED BY <2>3, <2>4, <2>6, <2>7, <2>8
  <2> HIDE DEF U
  <2> QED BY <2>9
<1>6. S \in Good
  <2> HIDE DEF Good
  <2>1. SUBSET S \subseteq Good
    BY <1>4, <1>5, ReachesSubsets
  <2> QED BY <2>1
<1>7. U(S) = V
  OBVIOUS
<1>8. IsFiniteSet(V) /\ Cardinality(V) = it[S]
  <2> HIDE DEF U
  <2> QED BY <1>6, <1>7
<1> QED BY <1>2, <1>8 DEF f

-----------------------------------------------------------------------------
(* FlattenSeq.                                                              *)

\* The concatenations of the first parts, the last of which is the result.
LEMMA FlattenParts ==
  ASSUME NEW S, NEW ss \in Seq(Seq(S))
  PROVE  \E f \in [0..Len(ss) -> Seq(S)] :
           /\ f[0] = <<>>
           /\ \A i \in 1..Len(ss) : f[i] = f[i - 1] \o ss[i]
           /\ FlattenSeq(ss) = f[Len(ss)]
<1> DEFINE N == Len(ss)
           Parts(g, n) == g[0] = <<>> /\ \A i \in 1..n : g[i] = g[i - 1] \o ss[i]
           Has == {n \in 0..N : \E g \in [0..n -> Seq(S)] : Parts(g, n)}
<1>1. 0 \in Has
  <2> DEFINE g == [i \in 0..0 |-> <<>>]
  <2>1. g \in [0..0 -> Seq(S)] /\ g[0] = <<>> /\ 1..0 = {}
    OBVIOUS
  <2> HIDE DEF g
  <2>2. Parts(g, 0) /\ 0 \in 0..N
    BY <2>1
  <2> QED BY <2>1, <2>2
<1>2. ASSUME NEW n \in 0..(N - 1), n \in Has PROVE n + 1 \in Has
  <2>1. PICK g \in [0..n -> Seq(S)] : Parts(g, n)
    BY <1>2
  <2> DEFINE h == [i \in 0..(n + 1) |-> IF i = n + 1 THEN g[n] \o ss[n + 1] ELSE g[i]]
  <2>2. g[n] \o ss[n + 1] \in Seq(S)
    BY ConcatProperties
  <2>3. h \in [0..(n + 1) -> Seq(S)]
    BY <2>2
  <2>4. Parts(h, n + 1)
    <3>1. h[0] = <<>>
      BY <2>1
    <3>2. ASSUME NEW i \in 1..(n + 1) PROVE h[i] = h[i - 1] \o ss[i]
      <4>1. i - 1 \in 0..(n + 1) /\ i - 1 # n + 1
        OBVIOUS
      <4>2. h[i - 1] = g[i - 1]
        BY <4>1
      <4>3. h[i] = IF i = n + 1 THEN g[n] \o ss[n + 1] ELSE g[i]
        OBVIOUS
      <4> HIDE DEF h
      <4>4. CASE i = n + 1
        <5>1. i - 1 = n
          BY <4>4
        <5> QED BY <4>2, <4>3, <4>4, <5>1
      <4>5. CASE i # n + 1
        <5>1. i \in 1..n
          BY <4>5
        <5> QED BY <2>1, <4>2, <4>3, <4>5, <5>1
      <4> QED BY <4>4, <4>5
    <3> QED BY <3>1, <3>2
  <2>5. n + 1 \in 0..N
    OBVIOUS
  <2> QED BY <2>3, <2>4, <2>5
<1>3. N \in Has
  <2> HIDE DEF Has
  <2>1. N \in Nat
    OBVIOUS
  <2> QED BY <1>1, <1>2, <2>1, ReachesEnd
<1>4. PICK g \in [0..N -> Seq(S)] : Parts(g, N)
  BY <1>3
<1>5. CASE N = 0
  <2>1. FlattenSeq(ss) = <<>>
    BY <1>5 DEF FlattenSeq
  <2> QED BY <1>4, <1>5, <2>1
<1>6. CASE N # 0
  <2> DEFINE Eqn(h) == h = [i \in 1..N |-> IF i = 1 THEN ss[i] ELSE h[i - 1] \o ss[i]]
             flat == CHOOSE h : Eqn(h)
             k == [i \in 1..N |-> g[i]]
  <2>1. Eqn(k)
    <3>1. ASSUME NEW i \in 1..N
          PROVE  g[i] = IF i = 1 THEN ss[i] ELSE k[i - 1] \o ss[i]
      <4>1. CASE i = 1
        <5>0. 1 \in 1..N /\ 1 - 1 = 0
          BY <1>6
        <5>1. g[1] = g[1 - 1] \o ss[1] /\ g[1 - 1] = <<>>
          BY <1>4, <5>0
        <5>2. ss[1] \in Seq(S)
          BY <1>6
        <5>3. <<>> \o ss[1] = ss[1]
          BY <5>2, ConcatEmptySeq
        <5> QED BY <1>4, <4>1, <5>1, <5>3
      <4>2. CASE i # 1
        <5>1. i - 1 \in 1..N
          BY <4>2
        <5>2. k[i - 1] = g[i - 1]
          BY <5>1
        <5> HIDE DEF k
        <5> QED BY <1>4, <4>2, <5>2
      <4> QED BY <4>1, <4>2
    <3> QED BY <3>1
  <2>2. Eqn(flat)
    BY <2>1
  <2>3. FlattenSeq(ss) = flat[N]
    BY <1>6 DEF FlattenSeq
  <2> DEFINE Typed == {n \in 0..N : n = 0 \/ flat[n] \in Seq(S)}
  <2>4. \A i \in 1..N : flat[i] = IF i = 1 THEN ss[i] ELSE flat[i - 1] \o ss[i]
    <3> HIDE DEF flat
    <3> QED BY <2>2
  <2> HIDE DEF flat
  <2>5. \A n \in 0..(N - 1) : n \in Typed => n + 1 \in Typed
    <3> SUFFICES ASSUME NEW n \in 0..(N - 1), n \in Typed PROVE n + 1 \in Typed
      OBVIOUS
    <3>1. n + 1 \in 1..N /\ ss[n + 1] \in Seq(S)
      OBVIOUS
    <3>2. CASE n = 0
      BY <2>4, <3>1, <3>2
    <3>3. CASE n # 0
      <4>1. flat[n + 1] = flat[n] \o ss[n + 1] /\ flat[n] \in Seq(S)
        <5>1. (n + 1) - 1 = n /\ n + 1 # 1
          BY <3>3
        <5> QED BY <2>4, <3>1, <3>3, <5>1
      <4>2. flat[n + 1] \in Seq(S)
        BY <3>1, <4>1, ConcatProperties
      <4> QED BY <3>1, <4>2
    <3> QED BY <3>2, <3>3
  <2>6. 0..N \subseteq Typed
    <3>1. 0 \in Typed /\ N \in Nat
      OBVIOUS
    <3> HIDE DEF Typed
    <3> QED BY <2>5, <3>1, ReachesAll
  <2> DEFINE f == [i \in 0..N |-> IF i = 0 THEN <<>> ELSE flat[i]]
  <2>7. f \in [0..N -> Seq(S)]
    BY <2>6
  <2>8. ASSUME NEW i \in 1..N PROVE f[i] = f[i - 1] \o ss[i]
    <3>1. CASE i = 1
      <4>1. f[i] = ss[i] /\ f[i - 1] = <<>> /\ ss[i] \in Seq(S)
        BY <2>4, <3>1
      <4> QED BY <4>1, ConcatEmptySeq
    <3>2. CASE i # 1
      <4>1. i - 1 \in 0..N /\ i - 1 # 0
        BY <3>2
      <4>2. f[i - 1] = flat[i - 1] /\ f[i] = flat[i]
        BY <4>1
      <4> HIDE DEF f
      <4> QED BY <2>4, <3>2, <4>2
    <3> QED BY <3>1, <3>2
  <2>9. f[0] = <<>> /\ FlattenSeq(ss) = f[N]
    BY <1>6, <2>3
  <2> QED BY <2>7, <2>8, <2>9
<1> QED BY <1>5, <1>6

LEMMA FlattenType ==
  ASSUME NEW S, NEW ss \in Seq(Seq(S))
  PROVE  FlattenSeq(ss) \in Seq(S)
<1>1. PICK f \in [0..Len(ss) -> Seq(S)] : FlattenSeq(ss) = f[Len(ss)]
  BY FlattenParts
<1> QED BY <1>1

LEMMA FlattenEmpty == FlattenSeq(<<>>) = <<>>
BY DEF FlattenSeq

\* The parts of a concatenation are those of its beginning.
LEMMA FlattenUpTo ==
  ASSUME NEW S, NEW ss \in Seq(Seq(S)), NEW n \in 0..(Len(ss) - 1)
  PROVE  FlattenSeq(SubSeq(ss, 1, n + 1)) = FlattenSeq(SubSeq(ss, 1, n)) \o ss[n + 1]
<1> DEFINE p == SubSeq(ss, 1, n) q == SubSeq(ss, 1, n + 1)
<1>1. /\ p \in Seq(Seq(S)) /\ Len(p) = n
      /\ q \in Seq(Seq(S)) /\ Len(q) = n + 1
      /\ \A i \in 1..n : p[i] = ss[i] /\ q[i] = ss[i]
      /\ q[n + 1] = ss[n + 1]
  OBVIOUS
<1> HIDE DEF p, q
<1>2. PICK f \in [0..n -> Seq(S)] :
        f[0] = <<>> /\ (\A i \in 1..n : f[i] = f[i - 1] \o p[i]) /\ FlattenSeq(p) = f[n]
  BY <1>1, FlattenParts
<1>3. PICK g \in [0..(n + 1) -> Seq(S)] :
        /\ g[0] = <<>> /\ FlattenSeq(q) = g[n + 1]
        /\ \A i \in 1..(n + 1) : g[i] = g[i - 1] \o q[i]
  <2>1. PICK g \in [0..Len(q) -> Seq(S)] :
          /\ g[0] = <<>> /\ FlattenSeq(q) = g[Len(q)]
          /\ \A i \in 1..Len(q) : g[i] = g[i - 1] \o q[i]
    <3>1. q \in Seq(Seq(S))
      BY <1>1
    <3> QED BY <3>1, FlattenParts
  <2> QED BY <1>1, <2>1, Zenon
<1> DEFINE Same == {i \in 0..n : f[i] = g[i]}
<1>4. 0 \in Same
  BY <1>2, <1>3
<1>5. ASSUME NEW i \in 0..(n - 1), i \in Same PROVE i + 1 \in Same
  <2>1. i + 1 \in 1..n /\ i + 1 \in 1..(n + 1) /\ (i + 1) - 1 = i
    OBVIOUS
  <2>2. f[i + 1] = f[i] \o p[i + 1] /\ g[i + 1] = g[i] \o q[i + 1] /\ f[i] = g[i]
    BY <1>2, <1>3, <1>5, <2>1
  <2>3. p[i + 1] = q[i + 1]
    BY <1>1, <2>1, Zenon
  <2>4. i + 1 \in 0..n
    OBVIOUS
  <2> QED BY <2>2, <2>3, <2>4
<1>6. n \in Same
  <2> HIDE DEF Same
  <2> QED BY <1>4, <1>5, ReachesEnd
<1>7. n + 1 \in 1..(n + 1) /\ (n + 1) - 1 = n
  OBVIOUS
<1>8. g[n + 1] = g[n] \o q[n + 1]
  BY <1>3, <1>7
<1>9. FlattenSeq(q) = FlattenSeq(p) \o ss[n + 1]
  BY <1>1, <1>2, <1>3, <1>6, <1>8
<1> QED BY <1>9 DEF p, q

LEMMA FlattenAppend ==
  ASSUME NEW S, NEW ss \in Seq(Seq(S)), NEW s \in Seq(S)
  PROVE  FlattenSeq(Append(ss, s)) = FlattenSeq(ss) \o s
<1> DEFINE t == Append(ss, s) n == Len(ss)
<1>1. /\ t \in Seq(Seq(S)) /\ Len(t) = n + 1 /\ t[n + 1] = s /\ n \in Nat
      /\ SubSeq(t, 1, n) = ss /\ SubSeq(t, 1, n + 1) = t
  OBVIOUS
<1> HIDE DEF t, n
<1>2. n \in 0..(Len(t) - 1)
  BY <1>1
<1>3. FlattenSeq(t) = FlattenSeq(ss) \o s
  BY <1>1, <1>2, FlattenUpTo
<1> QED BY <1>3 DEF t

Associate(a, b, c) == (a \o b) \o c = a \o (b \o c)

LEMMA Reassociate ==
  ASSUME NEW S, NEW a \in Seq(S), NEW b \in Seq(S), NEW c \in Seq(S)
  PROVE  Associate(a, b, c)
BY ConcatAssociative DEF Associate

LEMMA FlattenConcat ==
  ASSUME NEW S, NEW ss \in Seq(Seq(S)), NEW tt \in Seq(Seq(S))
  PROVE  FlattenSeq(ss \o tt) = FlattenSeq(ss) \o FlattenSeq(tt)
<1> DEFINE N == Len(tt)
           Q(n) == SubSeq(tt, 1, n)
           Good == {n \in 0..N : FlattenSeq(ss \o Q(n)) = FlattenSeq(ss) \o FlattenSeq(Q(n))}
<1>1. 0 \in Good
  <2>1. Q(0) = <<>> /\ ss \o <<>> = ss
    OBVIOUS
  <2>2. FlattenSeq(ss) \o <<>> = FlattenSeq(ss)
    BY FlattenType, ConcatEmptySeq
  <2>3. FlattenSeq(ss \o Q(0)) = FlattenSeq(ss) \o FlattenSeq(Q(0))
    <3> HIDE DEF Q
    <3> QED BY <2>1, <2>2, FlattenEmpty, Zenon
  <2> QED BY <2>3
<1>2. ASSUME NEW n \in 0..(N - 1), n \in Good PROVE n + 1 \in Good
  <2> DEFINE e == tt[n + 1] q == Q(n)
  <2>1. e \in Seq(S) /\ q \in Seq(Seq(S)) /\ n + 1 \in 0..N
    OBVIOUS
  <2>2. Q(n + 1) = Append(q, e)
    OBVIOUS
  <2>3. ss \o q \in Seq(Seq(S)) /\ FlattenSeq(ss \o q) = FlattenSeq(ss) \o FlattenSeq(q)
    BY <1>2
  <2> HIDE DEF e, q
  <2>7. ss \o Append(q, e) = Append(ss \o q, e)
    BY <2>1, SMTT(30)
  <2>4. FlattenSeq(Append(ss \o q, e)) = FlattenSeq(ss \o q) \o e
    BY <2>1, <2>3, FlattenAppend
  <2>5. FlattenSeq(Append(q, e)) = FlattenSeq(q) \o e
    BY <2>1, FlattenAppend
  <2>6. (FlattenSeq(ss) \o FlattenSeq(q)) \o e = FlattenSeq(ss) \o (FlattenSeq(q) \o e)
    <3> DEFINE fs == FlattenSeq(ss) fq == FlattenSeq(q)
    <3>1. fs \in Seq(S) /\ fq \in Seq(S) /\ e \in Seq(S)
      BY <2>1, FlattenType
    <3> HIDE DEF fs, fq
    <3>2. Associate(fs, fq, e)
      BY <3>1, Reassociate
    <3> QED BY <3>2 DEF fs, fq, Associate
  <2>8. FlattenSeq(ss \o Q(n + 1)) = FlattenSeq(ss) \o FlattenSeq(Q(n + 1))
    <3> HIDE DEF Q
    <3> QED BY <2>2, <2>3, <2>4, <2>5, <2>6, <2>7
  <2> QED BY <2>1, <2>8
<1>3. N \in Good
  <2> HIDE DEF Good
  <2>1. N \in Nat
    OBVIOUS
  <2> QED BY <1>1, <1>2, <2>1, ReachesEnd
<1>4. Q(N) = tt
  OBVIOUS
<1> QED BY <1>3, <1>4

LEMMA FlattenOne == ASSUME NEW S, NEW s \in Seq(S) PROVE FlattenSeq(<<s>>) = s
<1>1. <<s>> = Append(<<>>, s) /\ <<>> \in Seq(Seq(S)) /\ <<>> \o s = s
  OBVIOUS
<1> QED BY <1>1, FlattenAppend, FlattenEmpty

LEMMA FlattenTail ==
  ASSUME NEW S, NEW ss \in Seq(Seq(S)), ss # <<>>
  PROVE  FlattenSeq(ss) = Head(ss) \o FlattenSeq(Tail(ss))
<1> DEFINE h == Head(ss) t == Tail(ss)
<1>1. ss = <<h>> \o t /\ h \in Seq(S) /\ <<h>> \in Seq(Seq(S)) /\ t \in Seq(Seq(S))
  OBVIOUS
<1> HIDE DEF h, t
<1>2. FlattenSeq(<<h>> \o t) = FlattenSeq(<<h>>) \o FlattenSeq(t) /\ FlattenSeq(<<h>>) = h
  BY <1>1, FlattenConcat, FlattenOne
<1>3. FlattenSeq(ss) = h \o FlattenSeq(t)
  BY <1>1, <1>2
<1> QED BY <1>3 DEF h, t

LEMMA ConcatAt ==
  ASSUME NEW S, NEW s \in Seq(S), NEW t \in Seq(S)
  PROVE  /\ s \o t \in Seq(S) /\ Len(s \o t) = Len(s) + Len(t)
         /\ Len(s) \in Nat /\ Len(t) \in Nat
         /\ \A i \in 1..Len(s) : (s \o t)[i] = s[i]
         /\ \A i \in 1..Len(t) : (s \o t)[Len(s) + i] = t[i]
OBVIOUS

LEMMA MiddleOf ==
  ASSUME NEW S, NEW p \in Seq(S), NEW s \in Seq(S), NEW r \in Seq(S)
  PROVE  SubSeq((p \o s) \o r, Len(p) + 1, Len(p \o s)) = s
<1> DEFINE all == (p \o s) \o r  mid == SubSeq(all, Len(p) + 1, Len(p \o s))
<1>1. /\ all \in Seq(S) /\ Len(all) = Len(p) + Len(s) + Len(r)
      /\ Len(p \o s) = Len(p) + Len(s)
      /\ \A i \in 1..Len(s) : all[Len(p) + i] = s[i]
  OBVIOUS
<1>2. Len(p) \in Nat /\ Len(s) \in Nat /\ Len(r) \in Nat
  OBVIOUS
<1> HIDE DEF all
<1>3. mid \in Seq(S) /\ Len(mid) = Len(s) /\ \A i \in 1..Len(s) : mid[i] = all[Len(p) + i]
  <2>1. \A i \in (Len(p) + 1)..Len(p \o s) : all[i] \in S
    BY <1>1, <1>2
  <2>2. Len(p) + 1 \in Int /\ Len(p \o s) \in Int
    BY <1>1, <1>2
  <2>3. /\ mid \in Seq(S)
        /\ Len(mid) = IF Len(p) + 1 <= Len(p \o s)
                      THEN Len(p \o s) - (Len(p) + 1) + 1 ELSE 0
        /\ \A i \in 1..(Len(p \o s) - (Len(p) + 1) + 1) : mid[i] = all[(Len(p) + 1) + i - 1]
    BY <2>1, <2>2, SubSeqProperties
  <2>4. Len(mid) = Len(s)
    BY <1>1, <1>2, <2>3
  <2>5. ASSUME NEW i \in 1..Len(s) PROVE mid[i] = all[Len(p) + i]
    <3>1. i \in 1..(Len(p \o s) - (Len(p) + 1) + 1) /\ (Len(p) + 1) + i - 1 = Len(p) + i
      BY <1>1, <1>2
    <3> QED BY <2>3, <3>1
  <2> QED BY <2>3, <2>4, <2>5
<1> HIDE DEF mid
<1>4. mid = s
  BY <1>1, <1>3, SeqEqual
<1> QED BY <1>4 DEF mid, all

\* The i-th part lies between the ends of the parts up to i - 1 and up to i.
LEMMA FlattenPart ==
  ASSUME NEW S, NEW ss \in Seq(Seq(S)), NEW i \in 1..Len(ss)
  PROVE  SubSeq(FlattenSeq(ss), Len(FlattenSeq(SubSeq(ss, 1, i - 1))) + 1,
                Len(FlattenSeq(SubSeq(ss, 1, i)))) = ss[i]
<1> DEFINE b == SubSeq(ss, 1, i - 1) e == SubSeq(ss, 1, i) r == SubSeq(ss, i + 1, Len(ss))
<1>1. /\ b \in Seq(Seq(S)) /\ e \in Seq(Seq(S)) /\ r \in Seq(Seq(S)) /\ ss[i] \in Seq(S)
      /\ ss = e \o r
  OBVIOUS
<1>2. FlattenSeq(e) = FlattenSeq(b) \o ss[i]
  <2>1. i - 1 \in 0..(Len(ss) - 1) /\ (i - 1) + 1 = i
    OBVIOUS
  <2>2. FlattenSeq(SubSeq(ss, 1, (i - 1) + 1)) = FlattenSeq(b) \o ss[(i - 1) + 1]
    BY <2>1, FlattenUpTo
  <2> QED BY <2>1, <2>2
<1> HIDE DEF b, e, r
<1>3. FlattenSeq(b) \in Seq(S) /\ FlattenSeq(r) \in Seq(S)
  BY <1>1, FlattenType
<1>4. FlattenSeq(ss) = (FlattenSeq(b) \o ss[i]) \o FlattenSeq(r)
  BY <1>1, <1>2, FlattenConcat
<1>5. SubSeq(FlattenSeq(ss), Len(FlattenSeq(b)) + 1, Len(FlattenSeq(e))) = ss[i]
  <2> DEFINE fb == FlattenSeq(b) fr == FlattenSeq(r)
  <2> HIDE DEF fb, fr
  <2>1. SubSeq((fb \o ss[i]) \o fr, Len(fb) + 1, Len(fb \o ss[i])) = ss[i]
    BY <1>1, <1>3, MiddleOf, SMTT(30) DEF fb, fr
  <2> QED BY <1>2, <1>4, <2>1, Zenon DEF fb, fr
<1> QED BY <1>5 DEF b, e

\* Every element of the flattened sequences comes from the same place of the same
\* part of each.
SamePlaces(ss, tt) ==
  \A m \in 1..Len(FlattenSeq(ss)) :
    \E i \in 1..Len(ss) : \E k \in 1..Len(ss[i]) :
      FlattenSeq(ss)[m] = ss[i][k] /\ FlattenSeq(tt)[m] = tt[i][k]

LEMMA FlattenTogether ==
  ASSUME NEW S, NEW T, NEW ss \in Seq(Seq(S)), NEW tt \in Seq(Seq(T)),
         Len(ss) = Len(tt), \A i \in 1..Len(ss) : Len(ss[i]) = Len(tt[i])
  PROVE  Len(FlattenSeq(ss)) = Len(FlattenSeq(tt)) /\ SamePlaces(ss, tt)
<1> DEFINE N == Len(ss)
           s(n) == FlattenSeq(SubSeq(ss, 1, n))
           t(n) == FlattenSeq(SubSeq(tt, 1, n))
           From(m, n) == \E i \in 1..N : \E k \in 1..Len(ss[i]) :
                           s(n)[m] = ss[i][k] /\ t(n)[m] = tt[i][k]
           Good == {n \in 0..N : /\ s(n) \in Seq(S) /\ t(n) \in Seq(T)
                                 /\ Len(s(n)) = Len(t(n))
                                 /\ \A m \in 1..Len(s(n)) : From(m, n)}
<1>0. \A n \in 0..N : s(n) \in Seq(S) /\ t(n) \in Seq(T)
  <2>1. \A n \in 0..N : SubSeq(ss, 1, n) \in Seq(Seq(S)) /\ SubSeq(tt, 1, n) \in Seq(Seq(T))
    OBVIOUS
  <2> QED BY <2>1, FlattenType
<1>1. 0 \in Good
  <2>1. SubSeq(ss, 1, 0) = <<>> /\ SubSeq(tt, 1, 0) = <<>>
    OBVIOUS
  <2>2. s(0) = <<>> /\ t(0) = <<>>
    BY <2>1, FlattenEmpty
  <2> HIDE DEF s, t
  <2>3. 0 \in 0..N /\ Len(s(0)) = 0 /\ 1..0 = {}
    BY <2>2
  <2> QED BY <1>0, <2>2, <2>3
<1>2. ASSUME NEW n \in 0..(N - 1), n \in Good PROVE n + 1 \in Good
  <2>1. s(n + 1) = s(n) \o ss[n + 1] /\ t(n + 1) = t(n) \o tt[n + 1]
    <3>1. n \in 0..(Len(tt) - 1)
      OBVIOUS
    <3> QED BY <3>1, FlattenUpTo
  <2>2. /\ ss[n + 1] \in Seq(S) /\ tt[n + 1] \in Seq(T) /\ n + 1 \in 0..N /\ n + 1 \in 1..N
        /\ Len(ss[n + 1]) = Len(tt[n + 1])
    OBVIOUS
  <2>3. /\ s(n) \in Seq(S) /\ t(n) \in Seq(T) /\ Len(s(n)) = Len(t(n))
        /\ \A m \in 1..Len(s(n)) : From(m, n)
    BY <1>2
  <2>4. s(n + 1) \in Seq(S) /\ t(n + 1) \in Seq(T)
    BY <1>0, <2>2
  <2> HIDE DEF s, t
  <2>5. /\ Len(s(n + 1)) = Len(s(n)) + Len(ss[n + 1])
        /\ Len(t(n + 1)) = Len(s(n)) + Len(ss[n + 1])
    BY <2>1, <2>2, <2>3, SMTT(30)
  <2>6. ASSUME NEW m \in 1..Len(s(n + 1)) PROVE From(m, n + 1)
    <3>1. CASE m <= Len(s(n))
      <4>1. m \in 1..Len(s(n))
        BY <3>1
      <4>2. s(n + 1)[m] = s(n)[m] /\ t(n + 1)[m] = t(n)[m]
        BY <2>1, <2>2, <2>3, <4>1
      <4> QED BY <2>3, <4>1, <4>2
    <3>2. CASE m > Len(s(n))
      <4> DEFINE k == m - Len(s(n))
      <4>1. k \in 1..Len(ss[n + 1])
        BY <2>2, <2>3, <2>5, <3>2
      <4>2. s(n + 1)[m] = ss[n + 1][k] /\ t(n + 1)[m] = tt[n + 1][k]
        <5>1. Len(s(n)) + k = m /\ k \in 1..Len(tt[n + 1])
          BY <2>2, <2>3, <4>1
        <5> HIDE DEF k
        <5>2. (s(n) \o ss[n + 1])[Len(s(n)) + k] = ss[n + 1][k]
          <6>1. ASSUME NEW x \in Seq(S), NEW y \in Seq(S), NEW j \in 1..Len(y)
                PROVE  (x \o y)[Len(x) + j] = y[j]
            OBVIOUS
          <6> QED BY <2>2, <2>3, <4>1, <6>1, Zenon
        <5>3. (t(n) \o tt[n + 1])[Len(t(n)) + k] = tt[n + 1][k]
          <6>1. ASSUME NEW x \in Seq(T), NEW y \in Seq(T), NEW j \in 1..Len(y)
                PROVE  (x \o y)[Len(x) + j] = y[j]
            OBVIOUS
          <6> QED BY <2>2, <2>3, <5>1, <6>1, Zenon
        <5> QED BY <2>1, <2>3, <5>1, <5>2, <5>3
      <4> HIDE DEF k
      <4> QED BY <2>2, <4>1, <4>2
    <3>3. m <= Len(s(n)) \/ m > Len(s(n))
      BY <2>3
    <3> QED BY <3>1, <3>2, <3>3
  <2>7. Len(s(n + 1)) = Len(t(n + 1))
    BY <2>5
  <2> HIDE DEF From
  <2> QED BY <2>2, <2>4, <2>6, <2>7
<1>3. N \in Good
  <2> HIDE DEF Good
  <2>1. N \in Nat
    OBVIOUS
  <2> QED BY <1>1, <1>2, <2>1, ReachesEnd
<1>4. SubSeq(ss, 1, N) = ss /\ SubSeq(tt, 1, N) = tt
  OBVIOUS
<1>5. s(N) = FlattenSeq(ss) /\ t(N) = FlattenSeq(tt)
  BY <1>4
<1> QED BY <1>3, <1>5 DEF SamePlaces

LEMMA FlattenPlaces ==
  ASSUME NEW S, NEW ss \in Seq(Seq(S)), NEW m \in 1..Len(FlattenSeq(ss))
  PROVE  \E i \in 1..Len(ss) : \E k \in 1..Len(ss[i]) : FlattenSeq(ss)[m] = ss[i][k]
<1>1. ASSUME NEW tt \in Seq(Seq(S)), tt = ss PROVE SamePlaces(ss, tt)
  <2>1. Len(ss) = Len(tt) /\ \A i \in 1..Len(ss) : Len(ss[i]) = Len(tt[i])
    BY <1>1
  <2> HIDE <1>1
  <2> QED BY <2>1, FlattenTogether
<1> QED BY <1>1 DEF SamePlaces

-----------------------------------------------------------------------------
(* The elements of a sequence, and sequences without repetition.            *)

\* The elements of a sequence, by position.
LEMMA ToSetPlaces ==
  ASSUME NEW S, NEW s \in Seq(S)
  PROVE  /\ \A i \in 1..Len(s) : s[i] \in ToSet(s)
         /\ \A x \in ToSet(s) : \E i \in 1..Len(s) : x = s[i]
  BY DEF ToSet

LEMMA InToSet ==
  ASSUME NEW S, NEW s \in Seq(S)
  PROVE  \A x \in ToSet(s) : x \in S
  BY DEF ToSet

LEMMA FrontFacts ==
  ASSUME NEW S, NEW s \in Seq(S), s # <<>>
  PROVE  /\ Front(s) \in Seq(S) /\ Len(Front(s)) = Len(s) - 1
         /\ \A i \in 1..(Len(s) - 1) : Front(s)[i] = s[i]
<1> DEFINE n == Len(s) - 1 r == SubSeq(s, 1, n)
<1>1. Front(s) = r /\ n \in Nat /\ Len(s) = n + 1
  BY DEF Front
<1>2. \A i \in 1..n : s[i] \in S /\ 1 + i - 1 = i
  BY <1>1
<1> HIDE DEF n
<1>3. /\ r \in Seq(S) /\ Len(r) = (IF 1 <= n THEN n - 1 + 1 ELSE 0)
      /\ \A i \in 1..(n - 1 + 1) : r[i] = s[1 + i - 1]
  BY <1>1, <1>2, SubSeqProperties
<1> HIDE DEF r
<1>4. Len(r) = n /\ n - 1 + 1 = n
  BY <1>1, <1>3
<1> QED BY <1>1, <1>2, <1>3, <1>4 DEF n

LEMMA ToSetAppend ==
  ASSUME NEW S, NEW s \in Seq(S), NEW x \in S
  PROVE  ToSet(Append(s, x)) = ToSet(s) \cup {x}
<1> DEFINE r == Append(s, x)
<1>1. /\ r \in Seq(S) /\ Len(r) = Len(s) + 1 /\ Len(s) \in Nat
      /\ r[Len(s) + 1] = x /\ \A i \in 1..Len(s) : r[i] = s[i]
  OBVIOUS
<1> HIDE DEF r
<1>2. ASSUME NEW y \in ToSet(r) PROVE y \in ToSet(s) \cup {x}
  <2>1. PICK i \in 1..Len(r) : y = r[i]
    BY <1>1, ToSetPlaces
  <2>2. CASE i \in 1..Len(s)
    BY <1>1, <2>1, <2>2, ToSetPlaces
  <2>3. CASE i \notin 1..Len(s)
    <3>1. i = Len(s) + 1
      BY <1>1, <2>3
    <3> QED BY <1>1, <2>1, <3>1
  <2> QED BY <2>2, <2>3
<1>3. ASSUME NEW y \in ToSet(s) PROVE y \in ToSet(r)
  <2>1. PICK i \in 1..Len(s) : y = s[i]
    BY ToSetPlaces
  <2>2. i \in 1..Len(r) /\ y = r[i]
    BY <1>1, <2>1
  <2> QED BY <1>1, <2>2, ToSetPlaces
<1>4. x \in ToSet(r)
  <2>1. Len(s) + 1 \in 1..Len(r)
    BY <1>1
  <2> QED BY <1>1, <2>1, ToSetPlaces
<1> QED BY <1>2, <1>3, <1>4 DEF r

LEMMA ToSetConcat ==
  ASSUME NEW S, NEW s \in Seq(S), NEW t \in Seq(S)
  PROVE  ToSet(s \o t) = ToSet(s) \cup ToSet(t)
<1>1. ToSet(s \o t) = Range(s \o t) /\ ToSet(s) = Range(s) /\ ToSet(t) = Range(t)
  BY DEF ToSet, Range
<1> QED BY <1>1, RangeConcatenation

LEMMA ToSetFlatten ==
  ASSUME NEW S, NEW ss \in Seq(Seq(S))
  PROVE  ToSet(FlattenSeq(ss)) = UNION {ToSet(ss[i]) : i \in DOMAIN ss}
<1> DEFINE f == FlattenSeq(ss)
<1>1. f \in Seq(S)
  BY FlattenType
<1>2. ASSUME NEW m \in 1..Len(f) PROVE \E i \in 1..Len(ss) : f[m] \in ToSet(ss[i])
  <2>1. PICK i \in 1..Len(ss) : \E k \in 1..Len(ss[i]) : f[m] = ss[i][k]
    BY FlattenPlaces
  <2>2. ss[i] \in Seq(S)
    OBVIOUS
  <2> QED BY <2>1, <2>2 DEF ToSet
<1>3. ASSUME NEW i \in 1..Len(ss), NEW k \in 1..Len(ss[i])
      PROVE  \E m \in 1..Len(f) : f[m] = ss[i][k]
  <2> DEFINE b == SubSeq(ss, 1, i) r == SubSeq(ss, i + 1, Len(ss)) a == SubSeq(ss, 1, i - 1)
  <2>1. /\ a \in Seq(Seq(S)) /\ b \in Seq(Seq(S)) /\ r \in Seq(Seq(S)) /\ ss[i] \in Seq(S)
        /\ ss = b \o r
    OBVIOUS
  <2>2. FlattenSeq(b) = FlattenSeq(a) \o ss[i]
    <3>1. i - 1 \in 0..(Len(ss) - 1) /\ (i - 1) + 1 = i
      OBVIOUS
    <3>2. FlattenSeq(SubSeq(ss, 1, (i - 1) + 1)) = FlattenSeq(a) \o ss[(i - 1) + 1]
      BY <3>1, FlattenUpTo
    <3> QED BY <3>1, <3>2
  <2> HIDE DEF a, b, r
  <2>3. FlattenSeq(a) \in Seq(S) /\ FlattenSeq(r) \in Seq(S)
    BY <2>1, FlattenType
  <2>4. f = (FlattenSeq(a) \o ss[i]) \o FlattenSeq(r)
    BY <2>1, <2>2, FlattenConcat
  <2> DEFINE fa == FlattenSeq(a) fr == FlattenSeq(r) m == Len(fa) + k
  <2> HIDE DEF f, fa, fr
  <2>5. f = (fa \o ss[i]) \o fr /\ fa \in Seq(S) /\ fr \in Seq(S)
    BY <2>3, <2>4 DEF fa, fr
  <2>6. m \in 1..Len(f) /\ f[m] = ss[i][k]
    <3>1. k \in 1..Len(ss[i])
      OBVIOUS
    <3>2. /\ fa \o ss[i] \in Seq(S) /\ Len(fa \o ss[i]) = Len(fa) + Len(ss[i])
          /\ (fa \o ss[i])[Len(fa) + k] = ss[i][k] /\ Len(fa) \in Nat /\ Len(ss[i]) \in Nat
      <4>1. ASSUME NEW x \in Seq(S), NEW y \in Seq(S), NEW j \in 1..Len(y)
            PROVE  /\ x \o y \in Seq(S) /\ Len(x \o y) = Len(x) + Len(y)
                   /\ (x \o y)[Len(x) + j] = y[j] /\ Len(x) \in Nat /\ Len(y) \in Nat
        OBVIOUS
      <4> QED BY <2>1, <2>5, <3>1, <4>1, Zenon
    <3>3. m \in 1..Len(fa \o ss[i])
      BY <3>1, <3>2
    <3> HIDE DEF m
    <3>4. m \in 1..Len(f) /\ f[m] = (fa \o ss[i])[m]
      BY <2>5, <3>2, <3>3, SMTT(30)
    <3> QED BY <3>2, <3>4 DEF m
  <2> QED BY <2>6
<1> HIDE DEF f
<1>4. ASSUME NEW i \in 1..Len(ss), NEW x \in ToSet(ss[i]) PROVE x \in ToSet(f)
  <2>1. PICK k \in 1..Len(ss[i]) : x = ss[i][k]
    <3>1. ss[i] \in Seq(S)
      OBVIOUS
    <3> QED BY <3>1 DEF ToSet
  <2>2. PICK m \in 1..Len(f) : f[m] = ss[i][k]
    BY <1>3
  <2> QED BY <1>1, <2>1, <2>2 DEF ToSet
<1>5. ASSUME NEW x \in ToSet(f) PROVE \E i \in DOMAIN ss : x \in ToSet(ss[i])
  <2>0. DOMAIN f = 1..Len(f)
    BY <1>1
  <2>1. PICK m \in 1..Len(f) : x = f[m]
    BY <2>0 DEF ToSet
  <2>2. DOMAIN ss = 1..Len(ss)
    OBVIOUS
  <2> QED BY <1>2, <2>1, <2>2
<1>6. ToSet(f) = UNION {ToSet(ss[i]) : i \in DOMAIN ss}
  <2>1. DOMAIN ss = 1..Len(ss)
    OBVIOUS
  <2> QED BY <1>4, <1>5, <2>1
<1> QED BY <1>6 DEF f

LEMMA InjectiveConcat ==
  ASSUME NEW S, NEW s \in Seq(S), NEW t \in Seq(S)
  PROVE  IsInjective(s \o t) <=>
           IsInjective(s) /\ IsInjective(t) /\ ToSet(s) \cap ToSet(t) = {}
<1> DEFINE u == s \o t
<1>1. /\ u \in Seq(S) /\ Len(u) = Len(s) + Len(t)
      /\ \A i \in 1..Len(s) : u[i] = s[i]
      /\ \A i \in 1..Len(t) : u[Len(s) + i] = t[i]
  OBVIOUS
<1>2. /\ DOMAIN u = 1..Len(u) /\ DOMAIN s = 1..Len(s) /\ DOMAIN t = 1..Len(t)
      /\ Len(s) \in Nat /\ Len(t) \in Nat
  OBVIOUS
<1> HIDE DEF u
<1>3. ASSUME IsInjective(u)
      PROVE  IsInjective(s) /\ IsInjective(t) /\ ToSet(s) \cap ToSet(t) = {}
  <2>1. \A i, j \in 1..Len(u) : u[i] = u[j] => i = j
    BY <1>2, <1>3 DEF IsInjective
  <2>2. ASSUME NEW i \in 1..Len(s), NEW j \in 1..Len(s), s[i] = s[j] PROVE i = j
    <3>1. i \in 1..Len(u) /\ j \in 1..Len(u)
      BY <1>1, <1>2
    <3> QED BY <1>1, <2>1, <2>2, <3>1
  <2>3. ASSUME NEW i \in 1..Len(t), NEW j \in 1..Len(t), t[i] = t[j] PROVE i = j
    <3>1. Len(s) + i \in 1..Len(u) /\ Len(s) + j \in 1..Len(u)
      BY <1>1, <1>2
    <3>2. u[Len(s) + i] = u[Len(s) + j]
      BY <1>1, <2>3
    <3>3. Len(s) + i = Len(s) + j
      BY <2>1, <3>1, <3>2
    <3> QED BY <1>2, <3>3
  <2>4. ASSUME NEW i \in 1..Len(s), NEW j \in 1..Len(t) PROVE s[i] # t[j]
    <3>1. i \in 1..Len(u) /\ Len(s) + j \in 1..Len(u) /\ i # Len(s) + j
      BY <1>1, <1>2
    <3>2. u[i] # u[Len(s) + j]
      BY <2>1, <3>1
    <3> QED BY <1>1, <3>2
  <2> QED BY <1>2, <2>2, <2>3, <2>4 DEF IsInjective, ToSet
<1>4. ASSUME IsInjective(s), IsInjective(t), ToSet(s) \cap ToSet(t) = {}
      PROVE  IsInjective(u)
  <2>1. /\ \A i, j \in 1..Len(s) : s[i] = s[j] => i = j
        /\ \A i, j \in 1..Len(t) : t[i] = t[j] => i = j
        /\ \A i \in 1..Len(s), j \in 1..Len(t) : s[i] # t[j]
    <3>1. \A i \in 1..Len(s), j \in 1..Len(t) : s[i] \in ToSet(s) /\ t[j] \in ToSet(t)
      BY <1>2 DEF ToSet
    <3> QED BY <1>2, <1>4, <3>1 DEF IsInjective
  <2>2. ASSUME NEW i \in 1..Len(u), i > Len(s)
        PROVE  i - Len(s) \in 1..Len(t) /\ u[i] = t[i - Len(s)]
    <3>1. i - Len(s) \in 1..Len(t) /\ Len(s) + (i - Len(s)) = i
      BY <1>1, <1>2, <2>2
    <3> QED BY <1>1, <3>1
  <2>3. ASSUME NEW i \in 1..Len(u), ~(i > Len(s))
        PROVE  i \in 1..Len(s) /\ u[i] = s[i]
    BY <1>1, <1>2, <2>3
  <2>4. ASSUME NEW i \in 1..Len(u), NEW j \in 1..Len(u), u[i] = u[j] PROVE i = j
    <3>1. CASE i > Len(s) /\ j > Len(s)
      <4>1. i - Len(s) = j - Len(s)
        BY <2>1, <2>2, <2>4, <3>1
      <4> QED BY <1>2, <4>1
    <3>2. CASE ~(i > Len(s)) /\ ~(j > Len(s))
      BY <2>1, <2>3, <2>4, <3>2
    <3>3. CASE i > Len(s) /\ ~(j > Len(s))
      BY <2>1, <2>2, <2>3, <2>4, <3>3
    <3>4. CASE ~(i > Len(s)) /\ j > Len(s)
      BY <2>1, <2>2, <2>3, <2>4, <3>4
    <3> QED BY <3>1, <3>2, <3>3, <3>4
  <2> QED BY <1>2, <2>4 DEF IsInjective
<1> QED BY <1>3, <1>4 DEF u

-----------------------------------------------------------------------------
(* The least of a set of numbers, and increasing sequences.                 *)

LEMMA InjectiveFlatten ==
  ASSUME NEW S, NEW ss \in Seq(Seq(S)),
         \A i \in 1..Len(ss) : IsInjective(ss[i]),
         \A i, j \in 1..Len(ss) : i # j => ToSet(ss[i]) \cap ToSet(ss[j]) = {}
  PROVE  IsInjective(FlattenSeq(ss))
<1> DEFINE P(n) == SubSeq(ss, 1, n)
           Good == {n \in 0..Len(ss) : IsInjective(FlattenSeq(P(n)))}
<1>1. 0 \in Good
  <2>1. P(0) = <<>> /\ DOMAIN <<>> = {}
    OBVIOUS
  <2>2. IsInjective(<<>>)
    BY <2>1 DEF IsInjective
  <2>3. FlattenSeq(P(0)) = <<>>
    BY <2>1, FlattenEmpty
  <2>4. 0 \in 0..Len(ss)
    OBVIOUS
  <2> HIDE DEF P
  <2>5. IsInjective(FlattenSeq(P(0)))
    BY <2>2, <2>3, Zenon
  <2> QED BY <2>4, <2>5
<1>2. ASSUME NEW n \in 0..(Len(ss) - 1), n \in Good PROVE n + 1 \in Good
  <2> DEFINE p == P(n) f == FlattenSeq(p)
  <2>1. n \in Nat /\ n + 1 \in 1..Len(ss) /\ ss[n + 1] \in Seq(S)
    OBVIOUS
  <2>2. \A i \in 1..n : i \in 1..Len(ss) /\ i # n + 1 /\ ss[i] \in Seq(S) /\ 1 + i - 1 = i
    OBVIOUS
  <2>3. p \in Seq(Seq(S)) /\ Len(p) = n /\ \A i \in 1..n : p[i] = ss[i]
    <3>1. /\ p \in Seq(Seq(S)) /\ Len(p) = (IF 1 <= n THEN n - 1 + 1 ELSE 0)
          /\ \A i \in 1..(n - 1 + 1) : p[i] = ss[1 + i - 1]
      BY <2>1, <2>2, SubSeqProperties
    <3> HIDE DEF p
    <3>2. n - 1 + 1 = n /\ Len(p) = n
      BY <2>1, <3>1
    <3> QED BY <2>2, <3>1, <3>2
  <2>4. FlattenSeq(P(n + 1)) = f \o ss[n + 1]
    BY FlattenUpTo
  <2> HIDE DEF p
  <2>5. f \in Seq(S) /\ ToSet(f) = UNION {ToSet(p[i]) : i \in DOMAIN p}
    BY <2>3, FlattenType, ToSetFlatten
  <2>6. ToSet(f) \cap ToSet(ss[n + 1]) = {}
    <3> SUFFICES ASSUME NEW x \in ToSet(f), x \in ToSet(ss[n + 1]) PROVE FALSE
      OBVIOUS
    <3>1. PICK i \in DOMAIN p : x \in ToSet(p[i])
      BY <2>5
    <3>2. i \in 1..n
      BY <2>3, <3>1
    <3> QED BY <2>1, <2>2, <2>3, <3>1, <3>2
  <2>7. IsInjective(f)
    BY <1>2 DEF p
  <2> HIDE DEF f
  <2>8. IsInjective(f \o ss[n + 1])
    BY <2>1, <2>5, <2>6, <2>7, InjectiveConcat
  <2> HIDE DEF P
  <2>9. IsInjective(FlattenSeq(P(n + 1)))
    BY <2>4, <2>8, Zenon
  <2>10. n + 1 \in 0..Len(ss)
    BY <2>1
  <2> QED BY <2>9, <2>10
<1>3. Len(ss) \in Good
  <2>1. Len(ss) \in Nat
    OBVIOUS
  <2> HIDE DEF Good
  <2> QED BY <1>1, <1>2, <2>1, ReachesEnd
<1>4. P(Len(ss)) = ss
  OBVIOUS
<1> QED BY <1>3, <1>4

LEMMA LeastIn ==
  ASSUME NEW A, A \subseteq Nat, NEW a \in A
  PROVE  Min(A) \in A /\ \A x \in A : Min(A) <= x
<1> DEFINE Below == {n \in Nat : \A x \in A : n <= x}
<1>1. \E m \in A : \A x \in A : m <= x
  <2> SUFFICES ASSUME \A m \in A : \E x \in A : ~(m <= x) PROVE FALSE
    OBVIOUS
  <2>1. 0 \in Below
    OBVIOUS
  <2>2. ASSUME NEW n \in 0..a, n \in Below PROVE n + 1 \in Below
    <3>1. n \in Nat /\ \A x \in A : n <= x
      BY <2>2
    <3>2. n \notin A
      BY <3>1
    <3>3. \A x \in A : n + 1 <= x
      <4> SUFFICES ASSUME NEW x \in A PROVE n + 1 <= x
        OBVIOUS
      <4>1. n <= x /\ x # n /\ x \in Nat
        BY <3>1, <3>2
      <4> QED BY <3>1, <4>1
    <3> QED BY <3>1, <3>3
  <2>3. a + 1 \in Below
    <3> HIDE DEF Below
    <3>1. a + 1 \in Nat /\ \A i \in 0..((a + 1) - 1) : i \in Below => i + 1 \in Below
      BY <2>2
    <3> QED BY <2>1, <3>1, ReachesEnd
  <2> QED BY <2>3
<1> QED BY <1>1 DEF Min

\* A finite set of numbers has a greatest.
LEMMA GreatestIn ==
  ASSUME NEW A, A \subseteq Nat, IsFiniteSet(A), A # {}
  PROVE  Max(A) \in A /\ \A x \in A : x <= Max(A)
<1> DEFINE Good == {s \in SUBSET A : s # {} => \E m \in s : \A x \in s : x <= m}
<1>1. {} \in Good
  OBVIOUS
<1>2. ASSUME NEW s \in SUBSET A, s # {}, Rest(s) \in Good PROVE s \in Good
  <2>1. Chosen(s) \in s /\ \A x \in s : x = Chosen(s) \/ x \in Rest(s)
    BY <1>2, RestIs DEF Rest
  <2>2. Rest(s) \subseteq s /\ s \subseteq Nat
    BY DEF Rest
  <2>3. CASE Rest(s) = {}
    <3>1. Chosen(s) \in Nat /\ \A x \in s : x = Chosen(s)
      BY <2>1, <2>2, <2>3
    <3>2. \A x \in s : x <= Chosen(s)
      BY <3>1
    <3> QED BY <2>1, <3>2
  <2>4. CASE Rest(s) # {}
    <3>1. PICK m \in Rest(s) : \A x \in Rest(s) : x <= m
      BY <1>2, <2>4
    <3>2. m \in s /\ m \in Nat /\ Chosen(s) \in Nat
      BY <2>1, <2>2
    <3>3. CASE Chosen(s) <= m
      <4>1. \A x \in s : x <= m
        BY <2>1, <3>1, <3>3
      <4> QED BY <3>2, <4>1
    <3>4. CASE ~(Chosen(s) <= m)
      <4>1. \A x \in s : x <= Chosen(s)
        <5> SUFFICES ASSUME NEW x \in s PROVE x <= Chosen(s)
          OBVIOUS
        <5>1. x \in Nat
          BY <2>2
        <5>2. CASE x = Chosen(s)
          BY <3>2, <5>2
        <5>3. CASE x \in Rest(s)
          BY <3>1, <3>2, <3>4, <5>1, <5>3
        <5> QED BY <2>1, <5>2, <5>3
      <4> QED BY <2>1, <4>1
    <3> QED BY <3>3, <3>4
  <2> QED BY <2>3, <2>4
<1>3. A \in Good
  <2> HIDE DEF Good
  <2>1. SUBSET A \subseteq Good
    BY <1>1, <1>2, ReachesSubsets
  <2> QED BY <2>1
<1>4. \E m \in A : \A x \in A : m >= x
  <2>1. PICK m \in A : \A x \in A : x <= m
    BY <1>3
  <2>2. \A x \in A : m >= x
    BY <2>1
  <2> QED BY <2>2
<1>5. Max(A) \in A /\ \A x \in A : Max(A) >= x
  BY <1>4 DEF Max
<1> QED BY <1>5

\* What is in a set and no less than the others is the greatest.
LEMMA MaxIs ==
  ASSUME NEW A, A \subseteq Nat, NEW m \in A, \A x \in A : x <= m
  PROVE  Max(A) = m
<1>1. \A x \in A : m >= x
  OBVIOUS
<1>2. Max(A) \in A /\ \A x \in A : Max(A) >= x
  BY <1>1 DEF Max
<1> DEFINE n == Max(A)
<1>3. n >= m /\ m >= n
  BY <1>1, <1>2
<1>4. n \in Nat /\ m \in Nat
  BY <1>2
<1> HIDE DEF n
<1>5. n = m
  BY <1>3, <1>4
<1> QED BY <1>5 DEF n

\* The greater of two numbers.
LEMMA MaxOfTwo ==
  ASSUME NEW m \in Nat, NEW n \in Nat
  PROVE  Max({m, n}) \in Nat /\ Max({m, n}) = IF m >= n THEN m ELSE n
<1> DEFINE k == IF m >= n THEN m ELSE n
<1>1. k \in {m, n} /\ \A x \in {m, n} : x <= k
  OBVIOUS
<1>2. {m, n} \subseteq Nat /\ k \in Nat
  OBVIOUS
<1>3. Max({m, n}) = k
  <2> DEFINE A == {m, n}
  <2>1. A \subseteq Nat /\ k \in A /\ \A x \in A : x <= k
    BY <1>1, <1>2
  <2> HIDE DEF A, k
  <2>2. Max(A) = k
    BY <2>1, MaxIs
  <2> QED BY <2>2 DEF A
<1> QED BY <1>2, <1>3

\* In a sequence whose neighbours increase, the last is the greatest.
LEMMA LastGreatest ==
  ASSUME NEW s \in Seq(Nat), \A i \in 1..(Len(s) - 1) : s[i] < s[i + 1], NEW k \in 1..Len(s)
  PROVE  s[k] <= s[Len(s)]
<1> DEFINE n == Len(s) Good == {i \in 0..(n - 1) : s[n - i] <= s[n]}
<1>0. n \in Nat /\ k \in 1..n
  OBVIOUS
<1>1. 0 \in Good
  BY <1>0
<1>2. ASSUME NEW i \in 0..((n - k) - 1), i \in Good PROVE i + 1 \in Good
  <2>1. n - (i + 1) \in 1..(n - 1) /\ (n - (i + 1)) + 1 = n - i /\ i + 1 \in 0..(n - 1)
    BY <1>0
  <2>2. s[n - (i + 1)] < s[n - i] /\ s[n - i] <= s[n]
    BY <1>2, <2>1
  <2>3. s[n - (i + 1)] \in Nat /\ s[n - i] \in Nat /\ s[n] \in Nat
    BY <1>0, <2>1, SMTT(30)
  <2>4. s[n - (i + 1)] <= s[n]
    <3> DEFINE a == s[n - (i + 1)] b == s[n - i] c == s[n]
    <3>1. a \in Nat /\ b \in Nat /\ c \in Nat /\ a < b /\ b <= c
      BY <2>2, <2>3
    <3> HIDE DEF a, b, c
    <3>2. a <= c
      BY <3>1
    <3> QED BY <3>2 DEF a, c
  <2> QED BY <2>1, <2>4
<1>3. n - k \in Good
  <2>1. n - k \in Nat
    BY <1>0
  <2> HIDE DEF Good, n
  <2> QED BY <1>1, <1>2, <2>1, ReachesEnd
<1>4. n - (n - k) = k
  BY <1>0
<1> QED BY <1>3, <1>4

-----------------------------------------------------------------------------
(* A line of four queues, one behind the other.                             *)

Four(a, b, c, d) == a \o b \o c \o d
SameFour(v, w) == v = w

LEMMA FourType ==
  ASSUME NEW T, NEW a \in Seq(T), NEW b \in Seq(T), NEW c \in Seq(T), NEW d \in Seq(T)
  PROVE  /\ Four(a, b, c, d) \in Seq(T)
         /\ Len(Four(a, b, c, d)) = Len(a) + Len(b) + Len(c) + Len(d)
BY DEF Four

LEMMA FourIs ==
  ASSUME NEW T, NEW a \in Seq(T), NEW b \in Seq(T), NEW c \in Seq(T), NEW d \in Seq(T), NEW x \in T
  PROVE  /\ SameFour(Four(<<x>>, b, c, d), <<x>> \o Four(<<>>, b, c, d))
         /\ SameFour(Four(<<>>, <<x>>, c, d), Four(<<x>>, <<>>, c, d))
         /\ SameFour(Four(a, <<>>, <<x>> \o c, d), Four(a, <<x>>, c, d))
         /\ SameFour(Four(a, b, Append(c, x), d), Four(a, b, c, <<x>> \o d))
         /\ SameFour(Four(a, b, c, Append(d, x)), Append(Four(a, b, c, d), x))
<1>1. SameFour(Four(<<x>>, b, c, d), <<x>> \o Four(<<>>, b, c, d))
  BY DEF Four, SameFour
<1>2. SameFour(Four(<<>>, <<x>>, c, d), Four(<<x>>, <<>>, c, d))
  BY DEF Four, SameFour
<1>3. SameFour(Four(a, <<>>, <<x>> \o c, d), Four(a, <<x>>, c, d))
  BY DEF Four, SameFour
<1>4. SameFour(Four(a, b, Append(c, x), d), Four(a, b, c, <<x>> \o d))
  <2> DEFINE u == a \o b
             e == <<x>>
  <2>1. u \in Seq(T) /\ e \in Seq(T) /\ u \o c \in Seq(T) /\ Append(c, x) = c \o e
    OBVIOUS
  <2> HIDE DEF u, e
  <2>2. Associate(u, c, e) /\ Associate(u \o c, e, d)
    BY <2>1, Reassociate
  <2>3. Four(a, b, Append(c, x), d) = (u \o (c \o e)) \o d
    BY <2>1 DEF Four, u
  <2>4. Four(a, b, c, <<x>> \o d) = (u \o c) \o (e \o d)
    BY DEF Four, u, e
  <2> QED BY <2>2, <2>3, <2>4 DEF Associate, SameFour
<1>5. SameFour(Four(a, b, c, Append(d, x)), Append(Four(a, b, c, d), x))
  BY SMTT(30) DEF Four, SameFour
<1> QED BY <1>1, <1>2, <1>3, <1>4, <1>5

LEMMA FourCut ==
  ASSUME NEW T, NEW a \in Seq(T), NEW b \in Seq(T), NEW c \in Seq(T), NEW d \in Seq(T)
  PROVE  \E n \in 0..Len(Four(a, b, c, d)) :
            SameFour(Four(a, b, c, <<>>), SubSeq(Four(a, b, c, d), 1, n))
<1> DEFINE u == a \o b \o c
<1>1. u \in Seq(T)
  OBVIOUS
<1>2. Four(a, b, c, <<>>) = u /\ Four(a, b, c, d) = u \o d
  BY <1>1 DEF Four
<1> HIDE DEF u
<1>3. SubSeq(u \o d, 1, Len(u)) = u /\ Len(u) \in 0..Len(u \o d)
  BY <1>1
<1> QED BY <1>2, <1>3 DEF SameFour

LEMMA FrontIs ==
  ASSUME NEW T, NEW s \in Seq(T), NEW x \in T
  PROVE  <<x>> \o s # <<>> /\ Head(<<x>> \o s) = x /\ Tail(<<x>> \o s) = s
<1>1. /\ <<x>> \o s \in Seq(T) /\ Len(<<x>> \o s) = Len(s) + 1 /\ (<<x>> \o s)[1] = x
      /\ \A i \in 1..Len(s) : (<<x>> \o s)[i + 1] = s[i]
  OBVIOUS
<1> DEFINE v == <<x>> \o s
<1> HIDE DEF v
<1>2. v # <<>> /\ Head(v) = x /\ Tail(v) \in Seq(T) /\ Len(Tail(v)) = Len(s)
      /\ \A i \in 1..Len(s) : Tail(v)[i] = s[i]
  BY <1>1 DEF v
<1>3. Tail(v) = s
  BY <1>2
<1> QED BY <1>2, <1>3 DEF v

-----------------------------------------------------------------------------
(* Recursion on smaller numbers.                                            *)

\* What holds of a number when it holds of all smaller ones holds of all.
LEMMA SmallerNumbers ==
  ASSUME NEW n \in Nat, NEW Good,
         \A u \in 0..n : (\A v \in 0..(u - 1) : v \in Good) => u \in Good
  PROVE  0..n \subseteq Good
<1> DEFINE K == {k \in 0..n : 0..k \subseteq Good}
<1>1. 0 \in K
  <2>1. 0 \in Good
    OBVIOUS
  <2> QED BY <2>1
<1>2. ASSUME NEW k \in 0..(n - 1), k \in K PROVE k + 1 \in K
  <2>1. k + 1 \in 0..n /\ \A v \in 0..((k + 1) - 1) : v \in Good
    BY <1>2
  <2>2. k + 1 \in Good
    BY <2>1
  <2>3. \A v \in 0..(k + 1) : v \in 0..k \/ v = k + 1
    OBVIOUS
  <2> QED BY <1>2, <2>1, <2>2, <2>3
<1>3. n \in K
  <2> HIDE DEF K
  <2> QED BY <1>1, <1>2, ReachesEnd
<1> QED BY <1>3

\* What is defined by recursion on all smaller numbers exists.
Early(step, n, F) ==
  \A u \in 0..n : \A g \in F : \A h \in F :
    (\A v \in 0..(u - 1) : g[v] = h[v]) => step[<<u, g>>] = step[<<u, h>>]

Unrolls(it, step, n) == \A u \in 0..n : it[u] = step[<<u, it>>]

\* A step that looks only at smaller numbers defines a function.
LEMMA CourseRecursion ==
  ASSUME NEW n \in Nat, NEW T, T # {}, NEW step, step \in [(0..n) \X [0..n -> T] -> T],
         Early(step, n, [0..n -> T])
  PROVE  \E it \in [0..n -> T] : Unrolls(it, step, n)
<1> DEFINE F == [0..n -> T]
           Right(it, k) == \A u \in 0..k : it[u] = step[<<u, it>>]
           K == {k \in 0..n : \E it \in F : Right(it, k)}
<1>1. ASSUME NEW k \in 0..n, NEW it \in F, \A u \in 0..(k - 1) : it[u] = step[<<u, it>>] PROVE k \in K
  <2> DEFINE h == [it EXCEPT ![k] = step[<<k, it>>]]
  <2>1. step[<<k, it>>] \in T
    OBVIOUS
  <2>2. h \in F /\ h[k] = step[<<k, it>>] /\ \A u \in 0..n : u # k => h[u] = it[u]
    BY <2>1
  <2> HIDE DEF h, F
  <2>3. ASSUME NEW u \in 0..k PROVE h[u] = step[<<u, h>>]
    <3>1. u \in 0..n /\ \A v \in 0..(u - 1) : h[v] = it[v]
      BY <2>2
    <3>2. step[<<u, h>>] = step[<<u, it>>]
      BY <2>2, <3>1 DEF Early, F
    <3>3. u = k \/ u \in 0..(k - 1)
      OBVIOUS
    <3> QED BY <1>1, <2>2, <3>1, <3>2, <3>3
  <2> QED BY <2>2, <2>3
<1>2. 0 \in K
  <2>0. PICK a \in T : TRUE
    OBVIOUS
  <2> DEFINE it == [u \in 0..n |-> a]
  <2>1. it \in F /\ 0 \in 0..n
    OBVIOUS
  <2> HIDE DEF it, K, F
  <2> QED BY <1>1, <2>1
<1>3. ASSUME NEW k \in 0..(n - 1), k \in K PROVE k + 1 \in K
  <2>1. PICK it \in F : Right(it, k)
    BY <1>3
  <2>2. k + 1 \in 0..n /\ (k + 1) - 1 = k
    OBVIOUS
  <2>3. \A u \in 0..((k + 1) - 1) : it[u] = step[<<u, it>>]
    BY <2>1, <2>2
  <2> HIDE DEF K, F
  <2> QED BY <1>1, <2>2, <2>3
<1>4. n \in K
  <2> HIDE DEF K
  <2> QED BY <1>2, <1>3, ReachesEnd
<1>5. \E it \in [0..n -> T] : \A u \in 0..n : it[u] = step[<<u, it>>]
  BY <1>4
<1> QED BY <1>5 DEF Unrolls

\* A function made by m steps from a.
Iterated(it, a, step, m) == it[0] = a /\ \A i \in 1..m : it[i] = step[it[i - 1]]

\* What is built in steps from a first value.
LEMMA Iterates ==
  ASSUME NEW m \in Nat, NEW T, NEW a \in T, NEW step \in [T -> T]
  PROVE  \E it \in [0..m -> T] : Iterated(it, a, step, m)
<1> DEFINE F == [0..m -> T]
           next == [p \in (0..m) \X F |-> IF p[1] = 0 THEN a ELSE step[p[2][p[1] - 1]]]
<1>1. next \in [(0..m) \X F -> T]
  <2> SUFFICES ASSUME NEW p \in (0..m) \X F PROVE (IF p[1] = 0 THEN a ELSE step[p[2][p[1] - 1]]) \in T
    OBVIOUS
  <2>1. CASE p[1] = 0
    BY <2>1
  <2>2. CASE p[1] # 0
    <3>1. p[1] - 1 \in 0..m
      BY <2>2
    <3>2. p[2][p[1] - 1] \in T
      BY <3>1
    <3> QED BY <2>2, <3>2
  <2> QED BY <2>1, <2>2
<1>2. Early(next, m, F)
  <2> SUFFICES ASSUME NEW u \in 0..m, NEW g \in F, NEW h \in F, \A v \in 0..(u - 1) : g[v] = h[v]
               PROVE  next[<<u, g>>] = next[<<u, h>>]
    BY DEF Early
  <2>1. CASE u = 0
    BY <2>1
  <2>2. CASE u # 0
    <3>1. u - 1 \in 0..(u - 1)
      BY <2>2
    <3>2. g[u - 1] = h[u - 1]
      BY <3>1
    <3> HIDE DEF F
    <3> QED BY <2>2, <3>2
  <2> QED BY <2>1, <2>2
<1>3. T # {}
  OBVIOUS
<1> HIDE DEF next
<1>4. PICK it \in F : Unrolls(it, next, m)
  BY <1>1, <1>2, <1>3, CourseRecursion
<1>5. it[0] = a
  <2>1. it[0] = next[<<0, it>>] /\ 0 \in 0..m
    BY <1>4 DEF Unrolls
  <2> QED BY <2>1 DEF next
<1>6. \A i \in 1..m : it[i] = step[it[i - 1]]
  <2> SUFFICES ASSUME NEW i \in 1..m PROVE it[i] = step[it[i - 1]]
    OBVIOUS
  <2>1. it[i] = next[<<i, it>>] /\ i \in 0..m /\ i # 0
    BY <1>4 DEF Unrolls
  <2> HIDE DEF F
  <2> QED BY <2>1 DEF next
<1> QED BY <1>5, <1>6 DEF Iterated

-----------------------------------------------------------------------------
(* Sizes.                                                                   *)

\* The images of a finite set are finite.
LEMMA FiniteImage ==
  ASSUME NEW S, IsFiniteSet(S), NEW f
  PROVE  IsFiniteSet({f[x] : x \in S})
<1> DEFINE g == [x \in S |-> f[x]]
           A == {f[x] : x \in S}
<1>1. g \in Surjection(S, A)
  BY DEF Surjection
<1> QED BY <1>1, FS_Surjection

\* A part of a finite set is finite and not larger.
LEMMA PartSize ==
  ASSUME NEW S, IsFiniteSet(S), NEW T, T \subseteq S
  PROVE  IsFiniteSet(T) /\ Cardinality(T) \in Nat /\ Cardinality(S) \in Nat /\ Cardinality(T) <= Cardinality(S)
BY FS_Subset, FS_CardinalityType

\* The size of a union, which is the sum when the two do not meet.
LEMMA TwoPartsSize ==
  ASSUME NEW S, IsFiniteSet(S), NEW T, IsFiniteSet(T)
  PROVE  /\ IsFiniteSet(S \cup T) /\ Cardinality(S \cup T) \in Nat
         /\ Cardinality(S) \in Nat /\ Cardinality(T) \in Nat
         /\ Cardinality(S \cup T) <= Cardinality(S) + Cardinality(T)
         /\ S \cap T = {} => Cardinality(S \cup T) = Cardinality(S) + Cardinality(T)
<1>1. /\ IsFiniteSet(S \cup T)
      /\ Cardinality(S \cup T) = Cardinality(S) + Cardinality(T) - Cardinality(S \cap T)
  BY FS_Union
<1>2. IsFiniteSet(S \cap T)
  BY FS_Subset
<1>3. /\ Cardinality(S) \in Nat /\ Cardinality(T) \in Nat /\ Cardinality(S \cup T) \in Nat
      /\ Cardinality(S \cap T) \in Nat
  BY <1>1, <1>2, FS_CardinalityType
<1>4. S \cap T = {} => Cardinality(S \cap T) = 0
  BY FS_EmptySet
<1> QED BY <1>1, <1>3, <1>4

\* A set that is listed with three names has at most three members.
LEMMA FewSize ==
  ASSUME NEW a, NEW b, NEW c
  PROVE  IsFiniteSet({a, b, c}) /\ Cardinality({a, b, c}) <= 3
<1>1. IsFiniteSet({a}) /\ Cardinality({a}) = 1
  BY FS_Singleton
<1>2. IsFiniteSet({a} \cup {b}) /\ Cardinality({a} \cup {b}) <= 2
  BY <1>1, FS_AddElement
<1>3. Cardinality({a} \cup {b}) \in Nat
  BY <1>2, FS_CardinalityType
<1>4. IsFiniteSet(({a} \cup {b}) \cup {c}) /\ Cardinality(({a} \cup {b}) \cup {c}) <= 3
  BY <1>2, <1>3, FS_AddElement
<1>5. ({a} \cup {b}) \cup {c} = {a, b, c}
  OBVIOUS
<1> QED BY <1>4, <1>5

\* Two or more members can be named, and three unless there are two.
LEMMA SomeOf ==
  ASSUME NEW T, IsFiniteSet(T), Cardinality(T) >= 2
  PROVE  /\ \E s, t \in T : s # t
         /\ Cardinality(T) # 2 => \E s, t, r \in T : s # t /\ s # r /\ t # r
<1>1. Cardinality(T) \in Nat
  BY FS_CardinalityType
<1>2. T # {}
  BY <1>1, FS_EmptySet
<1>3. PICK s \in T : TRUE
  BY <1>2
<1>4. IsFiniteSet(T \ {s}) /\ Cardinality(T \ {s}) = Cardinality(T) - 1
  BY FS_RemoveElement
<1>5. T \ {s} # {}
  BY <1>1, <1>4, FS_EmptySet
<1>6. PICK t \in T \ {s} : TRUE
  BY <1>5
<1>7. IsFiniteSet((T \ {s}) \ {t}) /\ Cardinality((T \ {s}) \ {t}) = Cardinality(T) - 2
  BY <1>1, <1>4, FS_RemoveElement
<1>8. ASSUME Cardinality(T) # 2 PROVE \E q, u, r \in T : q # u /\ q # r /\ u # r
  <2>1. (T \ {s}) \ {t} # {}
    BY <1>1, <1>7, <1>8, FS_EmptySet
  <2>2. PICK r \in (T \ {s}) \ {t} : TRUE
    BY <2>1
  <2> QED BY <2>2
<1>9. s # t /\ t \in T
  OBVIOUS
<1> QED BY <1>8, <1>9

\* Four finite sets have a finite product.
LEMMA FourFinite ==
  ASSUME NEW A, IsFiniteSet(A), NEW B, IsFiniteSet(B), NEW C, IsFiniteSet(C), NEW D, IsFiniteSet(D)
  PROVE  IsFiniteSet(A \X B \X C \X D)
<1> DEFINE P == ((A \X B) \X C) \X D h == [p \in P |-> <<p[1][1][1], p[1][1][2], p[1][2], p[2]>>]
<1>1. IsFiniteSet(P)
  <2>1. IsFiniteSet(A \X B)
    BY FS_Product
  <2>2. IsFiniteSet((A \X B) \X C)
    BY <2>1, FS_Product
  <2> QED BY <2>2, FS_Product
<1>2. A \X B \X C \X D = {h[p] : p \in P}
  <2>1. ASSUME NEW x \in A \X B \X C \X D PROVE x \in {h[p] : p \in P}
    <3> DEFINE p == <<<<<<x[1], x[2]>>, x[3]>>, x[4]>>
    <3>1. p \in P /\ x = <<x[1], x[2], x[3], x[4]>>
      OBVIOUS
    <3>2. h[p] = x
      BY <3>1
    <3> QED BY <3>1, <3>2
  <2>2. ASSUME NEW p \in P PROVE h[p] \in A \X B \X C \X D
    OBVIOUS
  <2> QED BY <2>1, <2>2
<1> HIDE DEF P, h
<1> QED BY <1>1, <1>2, FiniteImage

\* A set that is mapped one to one into a finite one is not larger.
LEMMA InjectionSize ==
  ASSUME NEW S, NEW T, IsFiniteSet(T), NEW f, f = [x \in S |-> f[x]], \A x \in S : f[x] \in T,
         \A x, y \in S : f[x] = f[y] => x = y
  PROVE  IsFiniteSet(S) /\ Cardinality(S) \in Nat /\ Cardinality(S) <= Cardinality(T)
<1>1. f \in [S -> T]
  OBVIOUS
<1>2. f \in Injection(S, T)
  BY <1>1 DEF Injection, IsInjective
<1> QED BY <1>2, FS_Injection, FS_CardinalityType

\* A finite set is not smaller than its image.
LEMMA SurjectionSize ==
  ASSUME NEW S, IsFiniteSet(S), NEW T, NEW f, f = [x \in S |-> f[x]], \A x \in S : f[x] \in T,
         \A y \in T : \E x \in S : f[x] = y
  PROVE  IsFiniteSet(T) /\ Cardinality(T) \in Nat /\ Cardinality(T) <= Cardinality(S)
<1>1. f \in [S -> T]
  OBVIOUS
<1>2. f \in Surjection(S, T)
  BY <1>1 DEF Surjection
<1> QED BY <1>2, FS_Surjection, FS_CardinalityType

\* A finite set has a member with the largest value.
LEMMA FarthestIn ==
  ASSUME NEW S, IsFiniteSet(S), S # {}, NEW f, \A x \in S : f[x] \in Int
  PROVE  \E x \in S : \A y \in S : f[y] <= f[x]
<1> DEFINE Good == {s \in SUBSET S : s # {} => \E x \in s : \A y \in s : f[y] <= f[x]}
<1>1. {} \in Good
  OBVIOUS
<1>2. ASSUME NEW s \in SUBSET S, s # {}, Rest(s) \in Good PROVE s \in Good
  <2> DEFINE c == Chosen(s) R == Rest(s)
  <2>1. c \in s /\ s = R \cup {c} /\ R \subseteq s
    <3>1. c \in s
      BY <1>2, RestIs
    <3> HIDE DEF c
    <3> QED BY <3>1 DEF Rest, c
  <2>2. R # {} => \E x \in R : \A y \in R : f[y] <= f[x]
    BY <1>2
  <2> HIDE DEF c, R
  <2>3. CASE R = {}
    BY <2>1, <2>3
  <2>4. CASE R # {}
    <3>1. PICK x \in R : \A y \in R : f[y] <= f[x]
      BY <2>2, <2>4
    <3>2. f[x] \in Int /\ f[c] \in Int /\ \A y \in R : f[y] \in Int
      BY <2>1
    <3>3. CASE f[c] <= f[x]
      BY <2>1, <3>1, <3>3
    <3>4. CASE f[x] <= f[c]
      <4>1. \A y \in s : f[y] <= f[c]
        BY <2>1, <3>1, <3>2, <3>4
      <4> QED BY <2>1, <4>1
    <3> QED BY <3>2, <3>3, <3>4
  <2> QED BY <2>3, <2>4
<1>3. S \in Good
  <2> HIDE DEF Good
  <2>1. SUBSET S \subseteq Good
    BY <1>1, <1>2, ReachesSubsets
  <2> QED BY <2>1
<1> QED BY <1>3

-----------------------------------------------------------------------------
(* Sums compared.                                                           *)

\* A sum over part of a set, and one with a member less.
LEMMA SumSteps ==
  ASSUME NEW S, IsFiniteSet(S), NEW f \in [S -> Int], NEW s \in SUBSET S, NEW p \in s
  PROVE  /\ SumFunction([x \in s |-> f[x]]) = SumFunction([x \in s \ {p} |-> f[x]]) + f[p]
         /\ SumFunction([x \in s \ {p} |-> f[x]]) \in Int
<1> DEFINE h == [x \in s |-> f[x]]
           g == [x \in s \ {p} |-> f[x]]
<1>1. IsFiniteSet(s) /\ h \in [s -> Int] /\ g \in [s \ {p} -> Int] /\ \A x \in s \ {p} : h[x] = g[x]
  BY FS_Subset
<1>2. h[p] = f[p]
  OBVIOUS
<1> HIDE DEF h, g
<1>3. OneLess(h, g, p)
  BY <1>1, SumWithout
<1> QED BY <1>2, <1>3 DEF OneLess, h, g

\* Terms that are nothing do not count.
LEMMA SumOfScored ==
  ASSUME NEW S, IsFiniteSet(S), NEW f \in [S -> Nat], NEW T \in SUBSET S, \A x \in S \ T : f[x] = 0
  PROVE  SumFunction(f) = SumFunction([x \in T |-> f[x]]) /\ SumFunction(f) \in Nat
<1> DEFINE on(s) == SumFunction([x \in s |-> f[x]])
           Good == {s \in SUBSET S : on(s) \in Nat /\ on(s) = on(s \cap T)}
<1>0. f \in [S -> Int]
  OBVIOUS
<1>1. {} \in Good
  <2>1. [x \in {} |-> f[x]] = [x \in {} |-> 0] /\ {} \cap T = {}
    OBVIOUS
  <2>2. on({}) = 0
    BY <2>1, SumOfNone
  <2> HIDE DEF on
  <2>3. on({} \cap T) = 0
    BY <2>2
  <2> QED BY <2>2, <2>3
<1>2. ASSUME NEW s \in SUBSET S, s # {}, Rest(s) \in Good PROVE s \in Good
  <2> DEFINE p == Chosen(s) R == s \ {p}
  <2>1. p \in s /\ R = Rest(s)
    BY <1>2, RestIs DEF Rest
  <2>2. on(s) = on(R) + f[p]
    BY <1>0, <2>1, SumSteps
  <2>3. on(R) \in Nat /\ on(R) = on(R \cap T)
    BY <1>2, <2>1
  <2>4. CASE p \in T
    <3>1. p \in s \cap T /\ (s \cap T) \ {p} = R \cap T /\ s \cap T \in SUBSET S
      BY <2>1, <2>4
    <3>2. on(s \cap T) = on((s \cap T) \ {p}) + f[p]
      BY <1>0, <3>1, SumSteps
    <3>3. on((s \cap T) \ {p}) = on(R \cap T)
      BY <3>1
    <3>4. f[p] \in Nat
      BY <2>1
    <3> HIDE DEF on, R, p
    <3> QED BY <2>2, <2>3, <3>2, <3>3, <3>4
  <2>5. CASE p \notin T
    <3>1. s \cap T = R \cap T /\ f[p] = 0
      BY <2>1, <2>5
    <3>2. on(s \cap T) = on(R \cap T)
      BY <3>1
    <3> HIDE DEF on, R, p
    <3> QED BY <2>2, <2>3, <3>1, <3>2
  <2> QED BY <2>4, <2>5
<1>3. S \in Good
  <2> HIDE DEF Good
  <2>1. SUBSET S \subseteq Good
    BY <1>1, <1>2, ReachesSubsets
  <2> QED BY <2>1
<1>4. on(S) = SumFunction(f) /\ on(S \cap T) = on(T)
  <2>1. [x \in S |-> f[x]] = f /\ S \cap T = T
    OBVIOUS
  <2> QED BY <2>1
<1> HIDE DEF on
<1>5. on(S) \in Nat /\ on(S) = on(S \cap T)
  BY <1>3
<1> QED BY <1>4, <1>5 DEF on

\* Sums of larger terms are larger, and sums of sums are sums.
LEMMA SumsCompare ==
  ASSUME NEW S, IsFiniteSet(S), NEW f \in [S -> Nat], NEW g \in [S -> Nat], NEW h \in [S -> Nat],
         \A x \in S : f[x] + g[x] <= h[x]
  PROVE  /\ SumFunction(f) \in Nat /\ SumFunction(g) \in Nat /\ SumFunction(h) \in Nat
         /\ SumFunction(f) + SumFunction(g) <= SumFunction(h)
         /\ (\A x \in S : f[x] + g[x] = h[x]) => SumFunction(f) + SumFunction(g) = SumFunction(h)
<1> DEFINE F(s) == SumFunction([x \in s |-> f[x]])
           G(s) == SumFunction([x \in s |-> g[x]])
           H(s) == SumFunction([x \in s |-> h[x]])
           Same == \A x \in S : f[x] + g[x] = h[x]
           Holds(s) == /\ F(s) \in Nat /\ G(s) \in Nat /\ H(s) \in Nat
                       /\ F(s) + G(s) <= H(s)
                       /\ Same => F(s) + G(s) = H(s)
           Good == {s \in SUBSET S : Holds(s)}
<1>0. f \in [S -> Int] /\ g \in [S -> Int] /\ h \in [S -> Int]
  OBVIOUS
<1>1. {} \in Good
  <2>1. /\ [x \in {} |-> f[x]] = [x \in {} |-> 0] /\ [x \in {} |-> g[x]] = [x \in {} |-> 0]
        /\ [x \in {} |-> h[x]] = [x \in {} |-> 0]
    OBVIOUS
  <2>2. F({}) = 0 /\ G({}) = 0 /\ H({}) = 0
    BY <2>1, SumOfNone
  <2> HIDE DEF F, G, H
  <2> QED BY <2>2
<1>2. ASSUME NEW s \in SUBSET S, s # {}, Rest(s) \in Good PROVE s \in Good
  <2> DEFINE p == Chosen(s) R == s \ {p}
  <2>1. p \in s /\ R = Rest(s)
    BY <1>2, RestIs DEF Rest
  <2>2. F(s) = F(R) + f[p]
    BY <1>0, <2>1, SumSteps
  <2>3. G(s) = G(R) + g[p]
    BY <1>0, <2>1, SumSteps
  <2>4. H(s) = H(R) + h[p]
    BY <1>0, <2>1, SumSteps
  <2>5. f[p] \in Nat /\ g[p] \in Nat /\ h[p] \in Nat /\ f[p] + g[p] <= h[p] /\ (Same => f[p] + g[p] = h[p])
    BY <2>1
  <2> HIDE DEF F, G, H, R, p, Same
  <2>6. Holds(R)
    BY <1>2, <2>1
  <2> QED BY <2>2, <2>3, <2>4, <2>5, <2>6
<1>3. S \in Good
  <2> HIDE DEF Good
  <2>1. SUBSET S \subseteq Good
    BY <1>1, <1>2, ReachesSubsets
  <2> QED BY <2>1
<1>4. F(S) = SumFunction(f) /\ G(S) = SumFunction(g) /\ H(S) = SumFunction(h)
  <2>1. [x \in S |-> f[x]] = f /\ [x \in S |-> g[x]] = g /\ [x \in S |-> h[x]] = h
    OBVIOUS
  <2> QED BY <2>1
<1> HIDE DEF F, G, H
<1>5. Holds(S)
  BY <1>3
<1> QED BY <1>4, <1>5

\* A sum of ones counts.
LEMMA SumOfOnes ==
  ASSUME NEW S, IsFiniteSet(S)
  PROVE  SumFunction([x \in S |-> 1]) = Cardinality(S)
<1> DEFINE of == [x \in S |-> {x}]
<1>1. \A x \in S : IsFiniteSet(of[x]) /\ Cardinality(of[x]) = 1
  BY FS_Singleton
<1>2. \A x, y \in S : x # y => of[x] \cap of[y] = {}
  OBVIOUS
<1>3. \A y : y \in S <=> \E x \in S : y \in of[x]
  OBVIOUS
<1>4. [x \in S |-> Cardinality(of[x])] = [x \in S |-> 1]
  BY <1>1
<1> HIDE DEF of
<1>5. Cardinality(S) = SumFunction([x \in S |-> Cardinality(of[x])])
  BY <1>1, <1>2, <1>3, SizesAddUp
<1> QED BY <1>4, <1>5

\* A sum of ones and zeros counts the ones.
LEMMA IndicatorSum ==
  ASSUME NEW S, IsFiniteSet(S), NEW D \in SUBSET S
  PROVE  LET f == [x \in S |-> IF x \in D THEN 1 ELSE 0]
         IN  f \in [S -> Nat] /\ SumFunction(f) = Cardinality(D) /\ Cardinality(D) \in Nat
<1> DEFINE f == [x \in S |-> IF x \in D THEN 1 ELSE 0]
<1>1. f \in [S -> Nat] /\ \A x \in S \ D : f[x] = 0
  OBVIOUS
<1>2. SumFunction(f) = SumFunction([x \in D |-> f[x]])
  <2> HIDE DEF f
  <2> QED BY <1>1, SumOfScored
<1>3. [x \in D |-> f[x]] = [x \in D |-> 1]
  OBVIOUS
<1>4. IsFiniteSet(D)
  BY FS_Subset
<1>5. SumFunction([x \in D |-> 1]) = Cardinality(D) /\ Cardinality(D) \in Nat
  BY <1>4, SumOfOnes, FS_CardinalityType
<1> HIDE DEF f
<1> QED BY <1>1, <1>2, <1>3, <1>5 DEF f

\* A sum of smaller terms is smaller.
LEMMA SumsBelowEach ==
  ASSUME NEW S, IsFiniteSet(S), NEW f \in [S -> Nat], NEW g \in [S -> Nat], \A x \in S : f[x] <= g[x]
  PROVE  SumFunction(f) \in Nat /\ SumFunction(g) \in Nat /\ SumFunction(f) <= SumFunction(g)
<1> DEFINE zero == [x \in S |-> 0]
<1>1. zero \in [S -> Nat] /\ \A x \in S : f[x] + zero[x] <= g[x]
  OBVIOUS
<1> HIDE DEF zero
<1>2. /\ SumFunction(f) \in Nat /\ SumFunction(zero) \in Nat /\ SumFunction(g) \in Nat
      /\ SumFunction(f) + SumFunction(zero) <= SumFunction(g)
  BY <1>1, SumsCompare
<1> QED BY <1>2

\* What a set of cells marks among its neighbors.
Marked(A, of) == {p \in A \X UNION {of[f] : f \in A} : p[2] \in of[p[1]]}

\* There are as many as the sets have members together.
LEMMA MarkedCells ==
  ASSUME NEW A, IsFiniteSet(A), NEW of, \A f \in A : IsFiniteSet(of[f])
  PROVE  LET w == [f \in A |-> Cardinality(of[f])]
         IN  /\ w \in [A -> Nat] /\ IsFiniteSet(Marked(A, of)) /\ Cardinality(Marked(A, of)) \in Nat
             /\ SumFunction(w) = Cardinality(Marked(A, of))
<1> DEFINE V == Marked(A, of) by == [f \in A |-> {p \in V : p[1] = f}] w == [f \in A |-> Cardinality(of[f])]
<1>1. ASSUME NEW f \in A PROVE IsFiniteSet(by[f]) /\ Cardinality(by[f]) = Cardinality(of[f])
  <2> DEFINE g == [c \in of[f] |-> <<f, c>>] T == by[f]
  <2>1. \A c \in of[f] : g[c] \in T
    BY DEF Marked
  <2>2. \A p \in T : \E c \in of[f] : g[c] = p
    <3> SUFFICES ASSUME NEW p \in T PROVE p[2] \in of[f] /\ <<f, p[2]>> = p
      OBVIOUS
    <3> QED BY DEF Marked
  <2>3. \A x, y \in of[f] : g[x] = g[y] => x = y
    OBVIOUS
  <2>4. g = [c \in of[f] |-> g[c]]
    OBVIOUS
  <2> HIDE DEF g, T
  <2>5. IsFiniteSet(T) /\ Cardinality(T) = Cardinality(of[f])
    BY <2>1, <2>2, <2>3, <2>4, ImageSize
  <2> QED BY <2>5 DEF T
<1>2. \A x, y \in A : x # y => by[x] \cap by[y] = {}
  OBVIOUS
<1>3. \A p : p \in V <=> \E f \in A : p \in by[f]
  BY DEF Marked
<1> HIDE DEF by, V
<1>4. IsFiniteSet(V) /\ Cardinality(V) = SumFunction([f \in A |-> Cardinality(by[f])])
  BY <1>1, <1>2, <1>3, SizesAddUp
<1>5. [f \in A |-> Cardinality(by[f])] = w
  BY <1>1
<1>6. w \in [A -> Nat]
  <2> SUFFICES ASSUME NEW f \in A PROVE Cardinality(of[f]) \in Nat
    OBVIOUS
  <2> QED BY FS_CardinalityType
<1>7. Cardinality(V) \in Nat
  BY <1>4, FS_CardinalityType
<1> HIDE DEF w
<1> QED BY <1>4, <1>5, <1>6, <1>7 DEF w, V

\* The sum of f over s.
SumOn(f, s) == SumFunction([x \in s |-> f[x]])

\* It takes one term after the other out of the sum.
LEMMA SumOnIs ==
  ASSUME NEW S, IsFiniteSet(S), NEW f \in [S -> Nat]
  PROVE  /\ SumOn(f, {}) = 0 /\ SumOn(f, S) = SumFunction(f)
         /\ \A s \in SUBSET S : /\ SumOn(f, s) \in Nat /\ SumOn(f, s) <= SumOn(f, S)
                               /\ \A p \in s : SumOn(f, s) = SumOn(f, s \ {p}) + f[p]
<1>1. SumOn(f, {}) = 0
  <2>1. [x \in {} |-> f[x]] = [x \in {} |-> 0]
    OBVIOUS
  <2> QED BY <2>1, SumOfNone DEF SumOn
<1>2. SumOn(f, S) = SumFunction(f)
  <2>1. [x \in S |-> f[x]] = f
    OBVIOUS
  <2> QED BY <2>1 DEF SumOn
<1>3. ASSUME NEW s \in SUBSET S PROVE SumOn(f, s) \in Nat /\ SumOn(f, s) <= SumOn(f, S)
  <2> DEFINE g == [x \in S |-> IF x \in s THEN f[x] ELSE 0] h == [x \in s |-> g[x]]
  <2>1. g \in [S -> Nat] /\ (\A x \in S : g[x] <= f[x]) /\ (\A x \in S \ s : g[x] = 0)
    OBVIOUS
  <2>2. h = [x \in s |-> f[x]]
    OBVIOUS
  <2> HIDE DEF g
  <2>3. SumFunction(g) \in Nat /\ SumFunction(f) \in Nat /\ SumFunction(g) <= SumFunction(f)
    BY <2>1, SumsBelowEach
  <2>4. SumFunction(g) = SumFunction(h)
    BY <2>1, SumOfScored
  <2> HIDE DEF h
  <2>5. SumOn(f, s) = SumFunction(h)
    BY <2>2 DEF SumOn
  <2> QED BY <1>2, <2>3, <2>4, <2>5
<1>4. ASSUME NEW s \in SUBSET S, NEW p \in s PROVE SumOn(f, s) = SumOn(f, s \ {p}) + f[p]
  <2>1. f \in [S -> Int]
    OBVIOUS
  <2> QED BY <2>1, SumSteps DEF SumOn
<1> QED BY <1>1, <1>2, <1>3, <1>4

\* A number cut off at zero.
LEMMA OverZero ==
  ASSUME NEW i \in Int
  PROVE  Max({0, i}) = IF i > 0 THEN i ELSE 0
<1> DEFINE m == IF i > 0 THEN i ELSE 0
<1>1. m \in {0, i} /\ \A x \in {0, i} : m >= x
  OBVIOUS
<1>2. \A y \in {0, i} : (\A x \in {0, i} : y >= x) => y = m
  OBVIOUS
<1>3. Max({0, i}) = CHOOSE y \in {0, i} : \A x \in {0, i} : y >= x
  BY DEF Max
<1> HIDE DEF m
<1>4. Max({0, i}) = m
  BY <1>1, <1>2, <1>3
<1> QED BY <1>4 DEF m

-----------------------------------------------------------------------------
(* Measures of the parts of a set.                                          *)

\* A measure of sets that is at least that of two parts together.
Measures(m, C) ==
  m \in [SUBSET C -> Nat] /\ \A S \in SUBSET C : \A T \in SUBSET S : m[T] + m[S \ T] <= m[S]

\* What a measure says of two parts.
LEMMA MeasureOfTwo ==
  ASSUME NEW C, NEW m, Measures(m, C), NEW S \in SUBSET C, NEW T \in SUBSET C, S \cap T = {}
  PROVE  /\ m[S] \in Nat /\ m[T] \in Nat /\ m[S \cup T] \in Nat /\ m[C] \in Nat
         /\ m[S] + m[T] <= m[S \cup T] /\ m[S] <= m[C]
<1>1. (S \cup T) \ S = T /\ S \cup T \in SUBSET C /\ C \in SUBSET C /\ C \ S \in SUBSET C
  OBVIOUS
<1>2. m[S] + m[T] <= m[S \cup T]
  BY <1>1 DEF Measures
<1>3. m[S] + m[C \ S] <= m[C]
  BY <1>1 DEF Measures
<1>4. m[S] \in Nat /\ m[T] \in Nat /\ m[S \cup T] \in Nat /\ m[C] \in Nat /\ m[C \ S] \in Nat
  BY <1>1 DEF Measures
<1> QED BY <1>2, <1>3, <1>4

\* The size is a measure.
LEMMA SizeMeasures ==
  ASSUME NEW A, IsFiniteSet(A)
  PROVE  Measures([S \in SUBSET A |-> Cardinality(S)], A)
<1> DEFINE size == [S \in SUBSET A |-> Cardinality(S)]
<1>1. size \in [SUBSET A -> Nat]
  BY PartSize
<1>2. ASSUME NEW S \in SUBSET A, NEW T \in SUBSET S PROVE size[T] + size[S \ T] <= size[S]
  <2>1. IsFiniteSet(T) /\ IsFiniteSet(S \ T) /\ T \cap (S \ T) = {} /\ T \cup (S \ T) = S /\ T \in SUBSET A /\ S \ T \in SUBSET A
    BY FS_Subset
  <2>2. Cardinality(S) = Cardinality(T) + Cardinality(S \ T) /\ Cardinality(S) \in Nat
    BY <2>1, TwoPartsSize
  <2> QED BY <2>1, <2>2
<1> HIDE DEF size
<1>3. Measures(size, A)
  BY <1>1, <1>2 DEF Measures
<1> QED BY <1>3 DEF size

-----------------------------------------------------------------------------
(* Rows and columns.                                                        *)

\* A full grid has many diagonals.
Image(A, f) == {f[c] : c \in A}

FillsGrid(A, f, g, h) ==
  /\ Cardinality(A) <= Cardinality(Image(A, f)) * Cardinality(Image(A, g))
  /\ Cardinality(A) = Cardinality(Image(A, f)) * Cardinality(Image(A, g))
       => Cardinality(Image(A, h)) >= Cardinality(Image(A, f)) + Cardinality(Image(A, g)) - 1

\* No more cells than columns times rows, and a full grid meets a + b - 1 diagonals.
LEMMA Grid ==
  ASSUME NEW A, IsFiniteSet(A), A # {}, NEW f \in [A -> Int], NEW g \in [A -> Int], NEW h \in [A -> Int],
         \A c, e \in A : f[c] = f[e] /\ g[c] = g[e] => c = e,
         \A c \in A : h[c] = f[c] + g[c]
  PROVE  FillsGrid(A, f, g, h)
<1> DEFINE X == Image(A, f) Y == Image(A, g) Z == Image(A, h)
<1>0. X = {f[c] : c \in A} /\ Y = {g[c] : c \in A} /\ Z = {h[c] : c \in A}
  BY DEF Image
<1> HIDE DEF X, Y, Z
<1>1. /\ IsFiniteSet(X) /\ IsFiniteSet(Y) /\ IsFiniteSet(Z)
      /\ Cardinality(X) \in Nat /\ Cardinality(Y) \in Nat /\ Cardinality(Z) \in Nat /\ Cardinality(A) \in Nat
  <2>1. IsFiniteSet({f[c] : c \in A}) /\ IsFiniteSet({g[c] : c \in A}) /\ IsFiniteSet({h[c] : c \in A})
    BY FiniteImage
  <2> QED BY <1>0, <2>1, FS_CardinalityType
<1>2. IsFiniteSet(X \X Y) /\ Cardinality(X \X Y) = Cardinality(X) * Cardinality(Y)
  BY <1>1, FS_Product
<1> DEFINE p == [c \in A |-> <<f[c], g[c]>>]
<1>3. p \in Injection(A, X \X Y)
  <2>1. p \in [A -> X \X Y] /\ \A c \in A : \A e \in A : p[c] = p[e] => c = e
    BY <1>0
  <2> HIDE DEF p
  <2> QED BY <2>1 DEF Injection, IsInjective
<1>4. Cardinality(A) <= Cardinality(X) * Cardinality(Y)
  <2> HIDE DEF p
  <2> QED BY <1>2, <1>3, FS_Injection
<1>5. ASSUME Cardinality(A) = Cardinality(X) * Cardinality(Y)
      PROVE  Cardinality(Z) >= Cardinality(X) + Cardinality(Y) - 1
  <2>1. \A x \in X, y \in Y : \E c \in A : f[c] = x /\ g[c] = y
    <3>1. p \in Surjection(A, X \X Y)
      <4> HIDE DEF p
      <4> QED BY <1>2, <1>3, <1>5, FS_Injection
    <3>2. ASSUME NEW x \in X, NEW y \in Y PROVE \E c \in A : f[c] = x /\ g[c] = y
      <4>1. PICK c \in A : p[c] = <<x, y>>
        BY <3>1 DEF Surjection
      <4> QED BY <4>1
    <3> QED BY <3>2
  <2>2. X \subseteq Int /\ Y \subseteq Int /\ X # {} /\ Y # {}
    BY <1>0
  <2>3. \A x \in X, y \in Y : x + y \in Z
    <3> SUFFICES ASSUME NEW x \in X, NEW y \in Y PROVE x + y \in Z
      OBVIOUS
    <3>1. PICK c \in A : f[c] = x /\ g[c] = y
      BY <2>1
    <3>2. h[c] = x + y /\ h[c] \in Z
      BY <1>0, <3>1
    <3> QED BY <3>2
  <2>4. PICK xm \in X : \A x \in X : xm <= x
    <3> DEFINE neg == [x \in X |-> -x]
    <3>1. \A x \in X : neg[x] \in Int
      BY <2>2
    <3>2. PICK xm \in X : \A x \in X : neg[x] <= neg[xm]
      <4> HIDE DEF neg
      <4> QED BY <1>1, <2>2, <3>1, FarthestIn
    <3>3. \A x \in X : -x <= -xm
      BY <3>2
    <3> QED BY <2>2, <3>3
  <2>5. PICK ym \in Y : \A y \in Y : y <= ym
    <3> DEFINE id == [y \in Y |-> y]
    <3>1. \A y \in Y : id[y] \in Int
      BY <2>2
    <3>2. PICK ym \in Y : \A y \in Y : id[y] <= id[ym]
      <4> HIDE DEF id
      <4> QED BY <1>1, <2>2, <3>1, FarthestIn
    <3> QED BY <3>2
  <2> DEFINE V == X \ {xm}
             i == [y \in Y |-> xm + y]
             j == [x \in V |-> x + ym]
             B == {i[y] : y \in Y}
             C == {j[x] : x \in V}
  <2>6. IsFiniteSet(B) /\ Cardinality(B) = Cardinality(Y)
    <3>1. \A y, z \in Y : i[y] = i[z] => y = z
      BY <2>2
    <3>2. i = [y \in Y |-> i[y]] /\ (\A y \in Y : i[y] \in B) /\ \A z \in B : \E y \in Y : i[y] = z
      OBVIOUS
    <3>3. IsFiniteSet(Y)
      BY <1>1
    <3> HIDE DEF i, B
    <3> QED BY ONLY <3>1, <3>2, <3>3, ImageSize
  <2>7. IsFiniteSet(V) /\ Cardinality(V) = Cardinality(X) - 1
    BY <1>1, FS_RemoveElement
  <2>8. IsFiniteSet(C) /\ Cardinality(C) = Cardinality(V)
    <3>1. \A x, z \in V : j[x] = j[z] => x = z
      BY <2>2
    <3>2. j = [x \in V |-> j[x]] /\ (\A x \in V : j[x] \in C) /\ \A z \in C : \E x \in V : j[x] = z
      OBVIOUS
    <3> HIDE DEF j, C, V
    <3> QED BY <2>7, <3>1, <3>2, ImageSize
  <2>9. B \cap C = {}
    <3> SUFFICES ASSUME NEW y \in Y, NEW x \in V, xm + y = x + ym PROVE FALSE
      <4>1. \A z \in B : \E y \in Y : z = xm + y
        OBVIOUS
      <4>2. \A z \in C : \E x \in V : z = x + ym
        OBVIOUS
      <4> HIDE DEF B, C, V
      <4> QED BY <4>1, <4>2
    <3>1. x \in Int /\ y \in Int /\ xm \in Int /\ ym \in Int /\ xm <= x /\ x # xm /\ y <= ym
      BY <2>2, <2>4, <2>5
    <3> HIDE DEF V
    <3> QED BY <3>1
  <2>10. B \cup C \subseteq Z
    <3>1. \A y \in Y : xm + y \in Z
      BY <2>3
    <3>2. \A x \in V : x + ym \in Z
      BY <2>3
    <3>3. \A z \in B : z \in Z
      BY <3>1
    <3>4. \A z \in C : z \in Z
      BY <3>2
    <3> HIDE DEF B, C
    <3> QED BY <3>3, <3>4
  <2> HIDE DEF B, C, V
  <2>11. Cardinality(B \cup C) = Cardinality(Y) + (Cardinality(X) - 1)
    <3>1. Cardinality(B \cup C) = Cardinality(B) + Cardinality(C)
      BY <2>6, <2>8, <2>9, TwoPartsSize
    <3> QED BY <2>6, <2>7, <2>8, <3>1
  <2>12. Cardinality(B \cup C) <= Cardinality(Z)
    BY <1>1, <2>10, PartSize
  <2> QED BY <1>1, <2>11, <2>12
<1> QED BY <1>4, <1>5 DEF FillsGrid, X, Y, Z

\* The same for the other diagonals: one coordinate is counted backwards.
LEMMA GridBack ==
  ASSUME NEW A, IsFiniteSet(A), A # {}, NEW f \in [A -> Int], NEW g \in [A -> Int], NEW h \in [A -> Int],
         \A c, e \in A : f[c] = f[e] /\ g[c] = g[e] => c = e,
         \A c \in A : h[c] = f[c] - g[c]
  PROVE  FillsGrid(A, f, g, h)
<1> DEFINE k == [c \in A |-> -g[c]]
           Y == Image(A, g)
           W == Image(A, k)
           neg == [y \in Y |-> -y]
<1>1. k \in [A -> Int] /\ (\A c, e \in A : f[c] = f[e] /\ k[c] = k[e] => c = e) /\ \A c \in A : h[c] = f[c] + k[c]
  OBVIOUS
<1>2. Cardinality(W) = Cardinality(Y)
  <2>0. Y = {g[c] : c \in A} /\ W = {k[c] : c \in A} /\ \A c \in A : k[c] = -g[c]
    BY DEF Image
  <2> HIDE DEF Y, W, k
  <2>1. IsFiniteSet(Y)
    BY <2>0, FiniteImage
  <2>2. \A y \in Y : neg[y] \in W
    BY <2>0
  <2>3. \A z \in W : \E y \in Y : neg[y] = z
    BY <2>0
  <2>4. \A x, y \in Y : neg[x] = neg[y] => x = y
    <3>1. \A y \in Y : y \in Int
      BY <2>0
    <3> QED BY <3>1
  <2>5. neg = [y \in Y |-> neg[y]]
    OBVIOUS
  <2> HIDE DEF neg
  <2> QED BY ONLY <2>1, <2>2, <2>3, <2>4, <2>5, ImageSize
<1> HIDE DEF k
<1>3. FillsGrid(A, f, k, h)
  BY <1>1, Grid
<1> QED BY <1>2, <1>3 DEF FillsGrid
=============================================================================
