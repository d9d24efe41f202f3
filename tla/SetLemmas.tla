------------------------------ MODULE SetLemmas ------------------------------
(***************************************************************************)
(* What the proofs of several components need about finite sets and about  *)
(* sums over them (SumFunctionOnSet of the module Functions): that a sum   *)
(* is defined, as a recursive function is a CHOOSE until that is shown,    *)
(* and what one element adds to it.                                        *)
(***************************************************************************)
EXTENDS Integers, FiniteSetsExt, Functions, FiniteSetTheorems, WellFoundedInduction, TLAPS

-----------------------------------------------------------------------------
(* Least and greatest numbers, and induction over finite sets.             *)

LEMMA LeastExists ==
    ASSUME NEW T, T \subseteq Nat, T # {}
    PROVE  \E x \in T : \A y \in T : x <= y
<1>1. PICK x \in T : \A y \in T : <<y, x>> \notin OpToRel(<, Nat)
  BY NatLessThanWellFounded, WFMin, Zenon
<1>2. \A y \in T : ~(y < x)
  BY <1>1, Zenon DEF OpToRel
<1> QED BY <1>2

LEMMA MinOfNats ==
  ASSUME NEW T \in SUBSET Nat, T # {} PROVE Min(T) \in T /\ \A y \in T : Min(T) <= y
BY LeastExists DEF Min

\* The smallest set without a greatest element would still have one when it
\* has lost an element.
LEMMA GreatestExists ==
  ASSUME NEW T \in SUBSET Nat, T # {}, IsFiniteSet(T)
  PROVE  \E x \in T : \A y \in T : x >= y
<1> DEFINE Top(S) == \E x \in S : \A y \in S : x >= y
           Sizes == {n \in Nat : \E S \in SUBSET T : S # {} /\ ~Top(S) /\ Cardinality(S) = n}
<1> SUFFICES ASSUME ~Top(T) PROVE FALSE
  OBVIOUS
<1>1. Cardinality(T) \in Sizes
  BY FS_CardinalityType
<1>2. PICK n \in Sizes : \A k \in Sizes : n <= k
  <2> HIDE DEF Sizes
  <2>1. Sizes \subseteq Nat
    BY DEF Sizes
  <2> QED BY <1>1, <2>1, LeastExists
<1>3. PICK S \in SUBSET T : S # {} /\ ~Top(S) /\ Cardinality(S) = n
  OBVIOUS
<1>4. PICK x : x \in S
  BY <1>3
<1>5. IsFiniteSet(S)
  BY FS_Subset
<1>6. IsFiniteSet(S \ {x}) /\ Cardinality(S \ {x}) = n - 1 /\ n \in Nat
  BY <1>3, <1>4, <1>5, FS_RemoveElement
<1>7. Cardinality(S \ {x}) \in Nat
  BY <1>6, FS_CardinalityType
<1>8. CASE S \ {x} = {}
  BY <1>3, <1>4, <1>8
<1>9. CASE S \ {x} # {}
  <2>1. Top(S \ {x})
    <3>1. n - 1 \notin Sizes
      <4> HIDE DEF Sizes
      <4> QED BY <1>2, <1>6
    <3> QED BY <1>6, <1>7, <1>9, <3>1
  <2>2. PICK y \in S \ {x} : \A z \in S \ {x} : y >= z
    BY <2>1
  <2>3. Top(S)
    <3>1. CASE x >= y
      BY <1>4, <2>2, <3>1
    <3>2. CASE ~(x >= y)
      BY <1>4, <2>2, <3>2
    <3> QED BY <3>1, <3>2
  <2> QED BY <1>3, <2>3
<1> QED BY <1>8, <1>9

LEMMA MaxOfNats ==
  ASSUME NEW T \in SUBSET Nat, T # {}, IsFiniteSet(T)
  PROVE  Max(T) \in T /\ \A y \in T : y <= Max(T)
BY GreatestExists DEF Max

\* A family of subsets that has a set whenever it has the smaller ones has all.
LEMMA SubsetInduction ==
    ASSUME NEW S, IsFiniteSet(S), NEW G,
           \A s \in SUBSET S : (\A t \in SUBSET s : t # s => t \in G) => s \in G
    PROVE  SUBSET S \subseteq G
<1> SUFFICES ASSUME (SUBSET S) \ G # {} PROVE FALSE
  OBVIOUS
<1> DEFINE sizes == {Cardinality(s) : s \in (SUBSET S) \ G}
<1>1. \A s \in SUBSET S : IsFiniteSet(s) /\ Cardinality(s) \in Nat
  BY FS_Subset, FS_CardinalityType
<1>2. sizes \subseteq Nat /\ sizes # {}
  <2>1. \A s \in (SUBSET S) \ G : s \in SUBSET S
    OBVIOUS
  <2> QED BY <1>1, <2>1
<1>3. PICK n \in sizes : \A k \in sizes : n <= k
  BY <1>2, LeastExists
<1>4. PICK s \in (SUBSET S) \ G : Cardinality(s) = n
  BY <1>3
<1>5. ASSUME NEW t \in SUBSET s, t # s PROVE t \in G
  <2>1. Cardinality(t) < n
    BY <1>1, <1>4, <1>5, FS_Subset
  <2>2. t \in SUBSET S
    BY <1>4
  <2>3. t \notin G => Cardinality(t) \in sizes
    BY <2>2
  <2>4. t \notin G => n <= Cardinality(t)
    BY <1>3, <2>3
  <2>5. Cardinality(t) \in Nat /\ n \in Nat
    BY <1>1, <1>2, <1>3, <2>2
  <2> HIDE DEF sizes
  <2> QED BY <2>1, <2>4, <2>5
<1>6. \A t \in SUBSET s : t # s => t \in G
  BY <1>5
<1>7. s \in SUBSET S /\ s \notin G
  BY <1>4
<1> QED BY <1>6, <1>7, Zenon

-----------------------------------------------------------------------------
(* Sums over finite sets.                                                  *)

Some(s) == CHOOSE x \in s : TRUE

\* g is the function a sum is computed by.
Solves(h, S, g) ==
    g = [s \in SUBSET S |-> IF s = {} THEN 0 ELSE h[Some(s)] + g[s \ {Some(s)}]]

Solution(h, S) == CHOOSE g : Solves(h, S, g)

LEMMA SumIsSolution ==
    ASSUME NEW h, NEW S
    PROVE  SumFunctionOnSet(h, S) = Solution(h, S)[S]
BY Zenon DEF SumFunctionOnSet, FoldFunctionOnSet, MapThenFoldSet, Solution, Solves, Some

LEMMA SomeIn ==
    ASSUME NEW s, s # {}
    PROVE  Some(s) \in s /\ s \ {Some(s)} # s /\ s \ {Some(s)} \in SUBSET s
BY DEF Some

LEMMA SolvesAt ==
    ASSUME NEW h, NEW S, NEW g, Solves(h, S, g), NEW s \in SUBSET S
    PROVE  g[s] = IF s = {} THEN 0 ELSE h[Some(s)] + g[s \ {Some(s)}]
BY Zenon DEF Solves

LEMMA SolutionAt ==
    ASSUME NEW h, NEW S, Solves(h, S, Solution(h, S))
    PROVE  Solution(h, S)[S] = IF S = {} THEN 0
                               ELSE h[Some(S)] + Solution(h, S)[S \ {Some(S)}]
<1> DEFINE g == Solution(h, S)
<1>1. Solves(h, S, g) /\ S \in SUBSET S
  OBVIOUS
<1> HIDE DEF g
<1>2. g[S] = IF S = {} THEN 0 ELSE h[Some(S)] + g[S \ {Some(S)}]
  BY <1>1, SolvesAt
<1> QED BY <1>2 DEF g

LEMMA SolutionsAgree ==
    ASSUME NEW h, NEW S, NEW T \in SUBSET S, IsFiniteSet(S), NEW f, Solves(h, S, f),
           NEW g, Solves(h, T, g)
    PROVE  \A t \in SUBSET T : f[t] = g[t]
<1> DEFINE G == {t \in SUBSET T : f[t] = g[t]}
<1>1. ASSUME NEW s \in SUBSET T, \A t \in SUBSET s : t # s => t \in G PROVE s \in G
  <2>1. f[s] = IF s = {} THEN 0 ELSE h[Some(s)] + f[s \ {Some(s)}]
    BY SolvesAt
  <2>2. g[s] = IF s = {} THEN 0 ELSE h[Some(s)] + g[s \ {Some(s)}]
    BY SolvesAt
  <2>3. s # {} => f[s \ {Some(s)}] = g[s \ {Some(s)}]
    BY <1>1, SomeIn
  <2> QED BY <2>1, <2>2, <2>3
<1>2. IsFiniteSet(T)
  BY FS_Subset
<1> HIDE DEF G
<1>3. SUBSET T \subseteq G
  BY <1>1, <1>2, SubsetInduction
<1> QED BY <1>3 DEF G

LEMMA SolutionExists ==
    ASSUME NEW h, NEW S, IsFiniteSet(S)
    PROVE  Solves(h, S, Solution(h, S))
<1> DEFINE G == {s \in SUBSET S : \E g : Solves(h, s, g)}
<1>1. ASSUME NEW s \in SUBSET S, \A t \in SUBSET s : t # s => t \in G PROVE s \in G
  <2> DEFINE value(t) == IF t = {} THEN 0 ELSE h[Some(t)] + Solution(h, t \ {Some(t)})[t \ {Some(t)}]
             g == [t \in SUBSET s |-> value(t)]
  <2>1. \A t \in SUBSET s : t # s => Solves(h, t, Solution(h, t))
    BY <1>1, Zenon DEF Solution
  <2>2. ASSUME NEW t \in SUBSET s, t # {}
        PROVE  Solution(h, t \ {Some(t)})[t \ {Some(t)}] = g[t \ {Some(t)}]
    <3> DEFINE u == t \ {Some(t)}
    <3>1. u \in SUBSET s /\ u # s /\ u \in SUBSET u /\ IsFiniteSet(u)
      BY <2>2, SomeIn, FS_Subset
    <3>2. Solves(h, u, Solution(h, u))
      BY <2>1, <3>1
    <3>3. Solution(h, u)[u] = IF u = {} THEN 0
                              ELSE h[Some(u)] + Solution(h, u)[u \ {Some(u)}]
      BY <3>2, SolutionAt, Zenon
    <3>4. ASSUME u # {} PROVE Solution(h, u)[u \ {Some(u)}]
                                = Solution(h, u \ {Some(u)})[u \ {Some(u)}]
      <4> DEFINE w == u \ {Some(u)}
      <4>1. w \in SUBSET u /\ w # u /\ w # s /\ w \in SUBSET s
        BY <3>1, <3>4, SomeIn
      <4>2. Solves(h, w, Solution(h, w))
        BY <2>1, <4>1
      <4> QED BY <3>1, <3>2, <4>1, <4>2, SolutionsAgree
    <3>5. g[u] = value(u)
      BY <3>1
    <3> QED BY <3>3, <3>4, <3>5
  <2>3. \A t \in SUBSET s : g[t] = IF t = {} THEN 0 ELSE h[Some(t)] + g[t \ {Some(t)}]
    BY <2>2
  <2>4. Solves(h, s, g)
    <3>1. g = [t \in SUBSET s |-> g[t]]
      OBVIOUS
    <3> HIDE DEF g
    <3> QED BY <2>3, <3>1, Zenon DEF Solves
  <2> QED BY <2>4
<1> HIDE DEF G
<1>2. SUBSET S \subseteq G
  BY <1>1, SubsetInduction
<1>3. S \in G
  BY <1>2
<1> QED BY <1>3, Zenon DEF G, Solution

\* What one element adds to a sum.
LEMMA SumAt ==
    ASSUME NEW h, NEW S, IsFiniteSet(S), S # {}
    PROVE  SumFunctionOnSet(h, S)
             = h[Some(S)] + SumFunctionOnSet(h, S \ {Some(S)})
<1> DEFINE T == S \ {Some(S)}
<1>1. T \in SUBSET S /\ IsFiniteSet(T) /\ T \in SUBSET T
  BY FS_Subset
<1>2. Solves(h, S, Solution(h, S)) /\ Solves(h, T, Solution(h, T))
  BY <1>1, SolutionExists
<1>3. Solution(h, S)[T] = Solution(h, T)[T]
  BY <1>1, <1>2, SolutionsAgree
<1>4. Solution(h, S)[S] = h[Some(S)] + Solution(h, S)[T]
  BY <1>2, SolutionAt, Zenon
<1> HIDE DEF T
<1> QED BY <1>3, <1>4, SumIsSolution, Zenon DEF T

LEMMA SumOfNone ==
    ASSUME NEW h
    PROVE  SumFunctionOnSet(h, {}) = 0
<1>1. Solves(h, {}, Solution(h, {}))
  BY SolutionExists, FS_EmptySet
<1> QED BY <1>1, SolutionAt, SumIsSolution, Zenon

LEMMA SumType ==
    ASSUME NEW h, NEW S, IsFiniteSet(S), \A x \in S : h[x] \in Nat
    PROVE  SumFunctionOnSet(h, S) \in Nat
<1> DEFINE G == {s \in SUBSET S : SumFunctionOnSet(h, s) \in Nat}
<1>1. ASSUME NEW s \in SUBSET S, \A t \in SUBSET s : t # s => t \in G PROVE s \in G
  <2>1. CASE s = {}
    BY <2>1, SumOfNone
  <2>2. CASE s # {}
    <3>1. IsFiniteSet(s) /\ Some(s) \in S /\ SumFunctionOnSet(h, s \ {Some(s)}) \in Nat
      BY <1>1, <2>2, SomeIn, FS_Subset
    <3>2. SumFunctionOnSet(h, s) = h[Some(s)] + SumFunctionOnSet(h, s \ {Some(s)})
      BY <2>2, <3>1, SumAt
    <3> QED BY <3>1, <3>2
  <2> QED BY <2>1, <2>2
<1> HIDE DEF G
<1>2. SUBSET S \subseteq G
  BY <1>1, SubsetInduction
<1> QED BY <1>2 DEF G

\* Summands count, not the function they come from.
LEMMA SumSame ==
    ASSUME NEW h, NEW k, NEW S, IsFiniteSet(S), \A x \in S : h[x] = k[x]
    PROVE  SumFunctionOnSet(h, S) = SumFunctionOnSet(k, S)
<1> DEFINE G == {s \in SUBSET S : SumFunctionOnSet(h, s) = SumFunctionOnSet(k, s)}
<1>1. ASSUME NEW s \in SUBSET S, \A t \in SUBSET s : t # s => t \in G PROVE s \in G
  <2>1. CASE s = {}
    BY <2>1, SumOfNone
  <2>2. CASE s # {}
    <3>1. /\ IsFiniteSet(s) /\ Some(s) \in S
          /\ SumFunctionOnSet(h, s \ {Some(s)}) = SumFunctionOnSet(k, s \ {Some(s)})
      BY <1>1, <2>2, SomeIn, FS_Subset
    <3>2. /\ SumFunctionOnSet(h, s) = h[Some(s)] + SumFunctionOnSet(h, s \ {Some(s)})
          /\ SumFunctionOnSet(k, s) = k[Some(s)] + SumFunctionOnSet(k, s \ {Some(s)})
      BY <2>2, <3>1, SumAt
    <3> QED BY <3>1, <3>2
  <2> QED BY <2>1, <2>2
<1> HIDE DEF G
<1>2. SUBSET S \subseteq G
  BY <1>1, SubsetInduction
<1> QED BY <1>2 DEF G

LEMMA SumWithout ==
    ASSUME NEW h, NEW S, IsFiniteSet(S), \A x \in S : h[x] \in Nat, NEW x \in S
    PROVE  SumFunctionOnSet(h, S) = h[x] + SumFunctionOnSet(h, S \ {x})
<1> DEFINE G == {s \in SUBSET S :
                   \A e \in s : SumFunctionOnSet(h, s) = h[e] + SumFunctionOnSet(h, s \ {e})}
<1>1. ASSUME NEW s \in SUBSET S, \A t \in SUBSET s : t # s => t \in G PROVE s \in G
  <2> SUFFICES ASSUME NEW e \in s
               PROVE  SumFunctionOnSet(h, s) = h[e] + SumFunctionOnSet(h, s \ {e})
    OBVIOUS
  <2> DEFINE y == Some(s)
             rest == (s \ {y}) \ {e}
  <2>1. y \in s /\ IsFiniteSet(s) /\ SumFunctionOnSet(h, s) = h[y] + SumFunctionOnSet(h, s \ {y})
    BY SomeIn, SumAt, FS_Subset
  <2>2. CASE y = e
    BY <2>1, <2>2
  <2>3. CASE y # e
    <3>1. /\ s \ {y} \in SUBSET s /\ s \ {y} # s /\ e \in s \ {y}
          /\ s \ {e} \in SUBSET s /\ s \ {e} # s /\ y \in s \ {e}
          /\ (s \ {e}) \ {y} = rest
      BY <2>1, <2>3
    <3>2. /\ SumFunctionOnSet(h, s \ {y}) = h[e] + SumFunctionOnSet(h, rest)
          /\ SumFunctionOnSet(h, s \ {e}) = h[y] + SumFunctionOnSet(h, rest)
      BY <1>1, <3>1
    <3>3. IsFiniteSet(rest) /\ h[e] \in Nat /\ h[y] \in Nat /\ \A z \in rest : h[z] \in Nat
      BY <2>1, FS_Subset
    <3>4. SumFunctionOnSet(h, rest) \in Nat
      BY <3>3, SumType
    <3> HIDE DEF y, rest
    <3> QED BY <2>1, <3>2, <3>3, <3>4
  <2> QED BY <2>2, <2>3
<1> HIDE DEF G
<1>2. SUBSET S \subseteq G
  BY <1>1, SubsetInduction
<1> QED BY <1>2 DEF G

\* A subset sums up to no more.
LEMMA SumOfSubset ==
    ASSUME NEW h, NEW S, IsFiniteSet(S), \A x \in S : h[x] \in Nat, NEW T \in SUBSET S
    PROVE  SumFunctionOnSet(h, T) <= SumFunctionOnSet(h, S)
<1> DEFINE G == {s \in SUBSET S : \A t \in SUBSET s :
                   SumFunctionOnSet(h, t) <= SumFunctionOnSet(h, s)}
<1>1. ASSUME NEW s \in SUBSET S, \A t \in SUBSET s : t # s => t \in G PROVE s \in G
  <2> SUFFICES ASSUME NEW t \in SUBSET s
               PROVE  SumFunctionOnSet(h, t) <= SumFunctionOnSet(h, s)
    OBVIOUS
  <2>1. /\ IsFiniteSet(s) /\ \A x \in s : h[x] \in Nat
        /\ SumFunctionOnSet(h, s) \in Nat
    BY FS_Subset, SumType
  <2>2. CASE t = s
    BY <2>1, <2>2
  <2>3. CASE t # s
    <3>1. PICK x \in s : x \notin t
      BY <2>3
    <3> DEFINE r == s \ {x}
    <3>2. r \in SUBSET s /\ r # s /\ t \in SUBSET r /\ IsFiniteSet(r)
      BY <2>1, <3>1, FS_Subset
    <3>3. SumFunctionOnSet(h, t) <= SumFunctionOnSet(h, r)
      BY <1>1, <3>2
    <3>4. SumFunctionOnSet(h, s) = h[x] + SumFunctionOnSet(h, r)
      BY <2>1, SumWithout
    <3>5. SumFunctionOnSet(h, r) \in Nat /\ SumFunctionOnSet(h, t) \in Nat /\ h[x] \in Nat
      <4>1. IsFiniteSet(t) /\ IsFiniteSet(r)
        BY <2>1, FS_Subset
      <4> QED BY <2>1, <4>1, SumType
    <3> HIDE DEF r
    <3> QED BY <3>3, <3>4, <3>5
  <2> QED BY <2>2, <2>3
<1> HIDE DEF G
<1>2. SUBSET S \subseteq G
  BY <1>1, SubsetInduction
<1>3. S \in G
  BY <1>2
<1> QED BY <1>3 DEF G

=============================================================================
