-------------------------- MODULE FiniteInduction --------------------------
(***************************************************************************)
(* Induction without operator parameters: over the naturals, over the      *)
(* subsets of a finite set, and what follows for closures in finite sets,  *)
(* for sums over them and for functions that recur down a rank.            *)
(* The hypothesis is a set of values instead of a predicate, and the least *)
(* counterexample comes from the well-foundedness of the naturals.         *)
(***************************************************************************)
EXTENDS Integers, FiniteSetsExt, FiniteSetTheorems, WellFoundedInduction, TLAPS

-----------------------------------------------------------------------------
(* The naturals. *)

NatLess == {p \in Nat \X Nat : p[1] < p[2]}

\* A nonempty set of naturals has a least element.
LEMMA Least ==
    ASSUME NEW S, S \subseteq Nat, S # {}
    PROVE  \E m \in S : \A n \in S : m <= n
<1>1. IsWellFoundedOn(NatLess, Nat)
  BY NatLessThanWellFounded DEF OpToRel, NatLess
<1>2. PICK m \in S : \A n \in S : ~ (<<n, m>> \in NatLess)
  BY <1>1, WFMin
<1>3. \A n \in S : n \in Nat /\ m \in Nat /\ <<n, m>> \in Nat \X Nat
  OBVIOUS
<1>4. \A n \in S : ~ (n < m)
  BY <1>2, <1>3 DEF NatLess
<1>5. \A n \in S : m <= n
  BY <1>3, <1>4
<1> QED BY <1>5

\* A set of naturals with a bound has a largest member, which Max picks.
LEMMA MaxIs ==
    ASSUME NEW S, S \subseteq Nat, S # {}, NEW n \in Nat, \A k \in S : k <= n
    PROVE  Max(S) \in S /\ \A k \in S : k <= Max(S)
<1> DEFINE T == {n - k : k \in S}
<1>0. ASSUME NEW k \in S PROVE n - k \in Nat
  <2>1. k \in Nat /\ k <= n
    BY Zenon
  <2> QED BY <2>1
<1>1. T \subseteq Nat /\ T # {}
  BY <1>0, Zenon
<1> HIDE DEF T
<1>2. PICK m \in T : \A i \in T : m <= i
  BY <1>1, Least
<1>3. PICK x \in S : m = n - x
  BY <1>2 DEF T
<1>4. \A k \in S : n - x <= n - k
  BY <1>2, <1>3 DEF T
<1>5. \A k \in S : k <= x
  BY <1>4
<1>6. \E y \in S : \A k \in S : y >= k
  BY <1>5
<1>7. Max(S) \in S /\ \A k \in S : Max(S) >= k
  BY <1>6 DEF Max
<1> QED BY <1>7

\* A set that has every natural whose smaller naturals it has, has them all.
LEMMA Everywhere ==
    ASSUME NEW G, \A n \in Nat : (\A k \in Nat : k < n => k \in G) => n \in G
    PROVE  Nat \subseteq G
<1>1. SUFFICES ASSUME NEW b \in Nat \ G PROVE FALSE
  OBVIOUS
<1>2. PICK m \in Nat \ G : \A n \in Nat \ G : m <= n
  <2>1. Nat \ G \subseteq Nat /\ Nat \ G # {}
    BY <1>1
  <2> HIDE <1>1
  <2> DEFINE B == Nat \ G
  <2>2. B \subseteq Nat /\ B # {}
    BY <2>1
  <2> HIDE DEF B
  <2>3. \E m \in B : \A n \in B : m <= n
    BY <2>2, Least
  <2> QED BY <2>3 DEF B
<1>3. \A k \in Nat : k < m => k \in G
  BY <1>2
<1> QED BY <1>2, <1>3

-----------------------------------------------------------------------------
(* The subsets of a finite set. *)

\* A collection with every subset that it has without any one element.
LEMMA EverySubset ==
    ASSUME NEW S, IsFiniteSet(S), NEW G,
           \A s \in SUBSET S : (\A x \in s : s \ {x} \in G) => s \in G
    PROVE  SUBSET S \subseteq G
<1> DEFINE N == {n \in Nat : \A s \in SUBSET S : Cardinality(s) = n => s \in G}
<1>1. ASSUME NEW n \in Nat, \A k \in Nat : k < n => k \in N PROVE n \in N
  <2> SUFFICES ASSUME NEW s \in SUBSET S, Cardinality(s) = n PROVE s \in G
    OBVIOUS
  <2>1. ASSUME NEW x \in s PROVE s \ {x} \in G
    <3>1. IsFiniteSet(s)
      BY FS_Subset
    <3>2. Cardinality(s \ {x}) = n - 1 /\ Cardinality(s \ {x}) \in Nat
      BY <3>1, FS_RemoveElement, FS_CardinalityType
    <3>3. n - 1 \in N
      BY <3>2, <1>1
    <3> QED BY <3>2, <3>3
  <2> QED BY <2>1
<1> HIDE DEF N
<1>2. Nat \subseteq N
  BY <1>1, Everywhere
<1>3. ASSUME NEW s \in SUBSET S PROVE s \in G
  <2>1. Cardinality(s) \in Nat
    BY FS_Subset, FS_CardinalityType
  <2> QED BY <2>1, <1>2 DEF N
<1> QED BY <1>3

\* A subset of a finite set is finite.
LEMMA SubsetFinite == ASSUME NEW S, IsFiniteSet(S), NEW s \in SUBSET S PROVE IsFiniteSet(s)
  BY FS_Subset

-----------------------------------------------------------------------------
(* Closures in a finite set: the recursion that adds to a set what g gives *)
(* for it until nothing is new.                                            *)

\* One unfolding of the recursion that adds g[S] to S until it adds nothing.
Grow(g, D, f) == [S \in D |-> IF g[S] \subseteq S THEN S ELSE f[S \cup g[S]]]
Closure(g, U) == CHOOSE f : f = Grow(g, SUBSET U, f)

Near(U, n) == {S \in SUBSET U : Cardinality(U \ S) < n}

\* What is left out shrinks with every step.
LEMMA LeftOut ==
    ASSUME NEW U, IsFiniteSet(U), NEW g \in [SUBSET U -> SUBSET U], NEW S \in SUBSET U
    PROVE  /\ S \cup g[S] \in SUBSET U
           /\ Cardinality(U \ S) \in Nat /\ Cardinality(U \ (S \cup g[S])) \in Nat
           /\ ~ (g[S] \subseteq S) => Cardinality(U \ (S \cup g[S])) < Cardinality(U \ S)
<1> DEFINE T == U \ (S \cup g[S])
<1>1. S \cup g[S] \in SUBSET U
  OBVIOUS
<1>2. IsFiniteSet(U \ S) /\ T \subseteq U \ S
  BY FS_Difference
<1>3. IsFiniteSet(T) /\ Cardinality(T) \in Nat /\ Cardinality(U \ S) \in Nat
  BY <1>2, FS_Subset, FS_CardinalityType
<1>4. ASSUME ~ (g[S] \subseteq S) PROVE Cardinality(T) < Cardinality(U \ S)
  <2>1. T # U \ S
    BY <1>1, <1>4
  <2> HIDE DEF T
  <2>2. Cardinality(T) <= Cardinality(U \ S) /\ Cardinality(T) # Cardinality(U \ S)
    BY <1>2, <2>1, FS_Subset, Zenon
  <2> QED BY <1>3, <2>2
<1> QED BY <1>1, <1>3, <1>4

\* The recursion has a solution on the sets with fewer than n elements left out.
LEMMA ClosureStage ==
    ASSUME NEW U, IsFiniteSet(U), NEW g \in [SUBSET U -> SUBSET U], NEW n \in Nat
    PROVE  \E f : f = Grow(g, Near(U, n), f)
<1> DEFINE G == {m \in Nat : \E f : f = Grow(g, Near(U, m), f)}
<1>1. ASSUME NEW m \in Nat, \A k \in Nat : k < m => k \in G PROVE m \in G
  <2>1. CASE m = 0
    <3>1. Near(U, m) = {}
      <4>1. ASSUME NEW S \in Near(U, m) PROVE FALSE
        <5>1. S \in SUBSET U /\ Cardinality(U \ S) < m
          BY DEF Near
        <5>2. Cardinality(U \ S) \in Nat
          BY <5>1, LeftOut
        <5> QED BY <2>1, <5>1, <5>2
      <4> QED BY <4>1
    <3>2. \A f, h : Grow(g, Near(U, m), f) = Grow(g, Near(U, m), h)
      BY <3>1 DEF Grow
    <3>3. \E f : f = Grow(g, Near(U, m), f)
      BY <3>2, Zenon
    <3> QED BY <3>3
  <2>2. CASE m # 0
    <3>1. m - 1 \in Nat /\ m - 1 < m
      BY <2>2
    <3>2. m - 1 \in G
      BY <3>1, <1>1
    <3>3. PICK f : f = Grow(g, Near(U, m - 1), f)
      BY <3>2
    <3> DEFINE h == Grow(g, Near(U, m), f)
    <3>4. \A S \in Near(U, m) : ~ (g[S] \subseteq S) => S \cup g[S] \in Near(U, m - 1)
      <4> SUFFICES ASSUME NEW S \in Near(U, m), ~ (g[S] \subseteq S) PROVE S \cup g[S] \in Near(U, m - 1)
        OBVIOUS
      <4>1. S \in SUBSET U /\ Cardinality(U \ S) < m
        BY DEF Near
      <4>2. /\ S \cup g[S] \in SUBSET U /\ Cardinality(U \ S) \in Nat /\ Cardinality(U \ (S \cup g[S])) \in Nat
            /\ Cardinality(U \ (S \cup g[S])) < Cardinality(U \ S)
        BY <4>1, LeftOut
      <4>3. Cardinality(U \ (S \cup g[S])) < m - 1
        BY <4>1, <4>2
      <4> QED BY <4>2, <4>3 DEF Near
    <3>5. \A S \in Near(U, m - 1) : S \in Near(U, m)
      <4> SUFFICES ASSUME NEW S \in Near(U, m - 1) PROVE S \in Near(U, m)
        OBVIOUS
      <4>1. S \in SUBSET U /\ Cardinality(U \ S) < m - 1
        BY DEF Near
      <4>2. Cardinality(U \ S) \in Nat
        BY <4>1, LeftOut
      <4>3. Cardinality(U \ S) < m
        BY <4>1, <4>2
      <4> QED BY <4>1, <4>3 DEF Near
    <3>6. \A S \in Near(U, m - 1) : f[S] = IF g[S] \subseteq S THEN S ELSE f[S \cup g[S]]
      BY <3>3 DEF Grow
    <3>7. \A S \in Near(U, m) : h[S] = IF g[S] \subseteq S THEN S ELSE f[S \cup g[S]]
      BY DEF Grow
    <3>8. \A S \in Near(U, m - 1) : h[S] = f[S]
      BY <3>5, <3>6, <3>7
    <3>9. h = Grow(g, Near(U, m), h)
      <4>1. \A S \in Near(U, m) : ~ (g[S] \subseteq S) => h[S \cup g[S]] = f[S \cup g[S]]
        BY <3>4, <3>8
      <4> HIDE DEF h
      <4>2. Grow(g, Near(U, m), f) = Grow(g, Near(U, m), h)
        BY <4>1 DEF Grow
      <4> QED BY <4>2 DEF h
    <3> HIDE DEF h
    <3>10. \E k : k = Grow(g, Near(U, m), k)
      BY <3>9
    <3> QED BY <3>10
  <2> QED BY <2>1, <2>2
<1> HIDE DEF G
<1>2. Nat \subseteq G
  BY <1>1, Everywhere
<1> QED BY <1>2 DEF G

\* It has one on all subsets of U.
LEMMA ClosureDef ==
    ASSUME NEW U, IsFiniteSet(U), NEW g \in [SUBSET U -> SUBSET U]
    PROVE  Closure(g, U) = Grow(g, SUBSET U, Closure(g, U))
<1> DEFINE n == Cardinality(U) + 1
<1>1. n \in Nat /\ Cardinality(U) \in Nat
  BY FS_CardinalityType
<1>2. Near(U, n) = SUBSET U
  <2>1. ASSUME NEW T \in SUBSET U PROVE Cardinality(U \ T) < n
    <3>1. U \ T \subseteq U
      OBVIOUS
    <3>2. Cardinality(U \ T) <= Cardinality(U)
      BY <3>1, FS_Subset
    <3>3. Cardinality(U \ T) \in Nat
      BY <2>1, LeftOut
    <3> QED BY <1>1, <3>2, <3>3
  <2> HIDE DEF n
  <2> QED BY <2>1 DEF Near
<1> HIDE DEF n
<1>3. \E h : h = Grow(g, SUBSET U, h)
  BY <1>1, <1>2, ClosureStage
<1> QED BY <1>3 DEF Closure

\* The closure of S holds S, is closed, and lies in every closed set that holds S.
LEMMA ClosureLeast ==
    ASSUME NEW U, IsFiniteSet(U), NEW g \in [SUBSET U -> SUBSET U], NEW S \in SUBSET U
    PROVE  /\ Closure(g, U)[S] \in SUBSET U
           /\ S \subseteq Closure(g, U)[S]
           /\ g[Closure(g, U)[S]] \subseteq Closure(g, U)[S]
           /\ \A T : S \subseteq T /\ (\A R \in SUBSET U : R \subseteq T => g[R] \subseteq T)
                        => Closure(g, U)[S] \subseteq T
<1> DEFINE c == Closure(g, U)
           Smallest(R) == /\ c[R] \in SUBSET U /\ R \subseteq c[R] /\ g[c[R]] \subseteq c[R]
                       /\ \A T : R \subseteq T /\ (\A Q \in SUBSET U : Q \subseteq T => g[Q] \subseteq T) => c[R] \subseteq T
           G == {n \in Nat : \A R \in SUBSET U : Cardinality(U \ R) = n => Smallest(R)}
<1>0. \A R \in SUBSET U : c[R] = IF g[R] \subseteq R THEN R ELSE c[R \cup g[R]]
  <2>1. c = Grow(g, SUBSET U, c)
    BY ClosureDef
  <2> HIDE DEF c
  <2> QED BY <2>1 DEF Grow
<1> HIDE DEF c
<1>1. ASSUME NEW n \in Nat, \A k \in Nat : k < n => k \in G PROVE n \in G
  <2> SUFFICES ASSUME NEW R \in SUBSET U, Cardinality(U \ R) = n PROVE Smallest(R)
    OBVIOUS
  <2>1. CASE g[R] \subseteq R
    <3>1. c[R] = R
      BY <2>1, <1>0
    <3> QED BY <2>1, <3>1
  <2>2. CASE ~ (g[R] \subseteq R)
    <3> DEFINE P == R \cup g[R]
    <3>1. P \in SUBSET U /\ Cardinality(U \ P) \in Nat /\ Cardinality(U \ P) < n
      BY <2>2, LeftOut
    <3>2. c[R] = c[P]
      BY <2>2, <1>0
    <3> HIDE DEF P
    <3>3. Cardinality(U \ P) \in G
      BY <3>1, <1>1
    <3>4. Smallest(P)
      BY <3>1, <3>3
    <3> QED BY <3>2, <3>4 DEF P
  <2> QED BY <2>1, <2>2
<1> HIDE DEF G
<1>2. Nat \subseteq G
  BY <1>1, Everywhere
<1>3. Cardinality(U \ S) \in Nat
  BY LeftOut
<1>4. Smallest(S)
  BY <1>2, <1>3 DEF G
<1> QED BY <1>4 DEF c
-----------------------------------------------------------------------------
(* Sums over finite sets, as the library defines them. *)

OneOf(s) == CHOOSE x \in s : TRUE
Sum(w, S) == MapThenSumSet(LAMBDA x : w[x], S)

\* One unfolding of the sum's recursion, over the sets in D.
Unfold(w, D, f) == [s \in D |-> IF s = {} THEN 0 ELSE w[OneOf(s)] + f[s \ {OneOf(s)}]]
Iter(w, S) == CHOOSE f : f = Unfold(w, SUBSET S, f)

\* The library's sum is the value at S of the recursive function.
LEMMA SumIs == ASSUME NEW w, NEW S PROVE Sum(w, S) = Iter(w, S)[S]
  BY DEF Sum, MapThenSumSet, MapThenFoldSet, Iter, OneOf, Unfold

\* The element a sum takes next.
LEMMA OneOfIn == ASSUME NEW s, s # {} PROVE OneOf(s) \in s
  BY DEF OneOf

Upto(S, n) == {s \in SUBSET S : Cardinality(s) < n}

\* The recursion has a solution on the sets of fewer than n elements.
LEMMA IterStage ==
    ASSUME NEW w, NEW S, IsFiniteSet(S), NEW n \in Nat
    PROVE  \E f : f = Unfold(w, Upto(S, n), f)
<1> DEFINE G == {m \in Nat : \E f : f = Unfold(w, Upto(S, m), f)}
<1>1. ASSUME NEW m \in Nat, \A k \in Nat : k < m => k \in G PROVE m \in G
  <2>1. CASE m = 0
    <3>1. Upto(S, m) = {}
      <4>1. \A s \in SUBSET S : Cardinality(s) \in Nat
        BY FS_Subset, FS_CardinalityType
      <4> QED BY <2>1, <4>1 DEF Upto
    <3>2. \A f, g : Unfold(w, Upto(S, m), f) = Unfold(w, Upto(S, m), g)
      BY <3>1 DEF Unfold
    <3>3. \E f : f = Unfold(w, Upto(S, m), f)
      BY <3>2, Zenon
    <3> QED BY <3>3
  <2>2. CASE m # 0
    <3>1. m - 1 \in Nat /\ m - 1 < m
      BY <2>2
    <3>2. m - 1 \in G
      BY <3>1, <1>1
    <3>3. PICK f : f = Unfold(w, Upto(S, m - 1), f)
      BY <3>2
    <3> DEFINE g == Unfold(w, Upto(S, m), f)
    <3>4. \A s \in Upto(S, m) : s # {} => s \ {OneOf(s)} \in Upto(S, m - 1)
      <4> SUFFICES ASSUME NEW s \in Upto(S, m), s # {} PROVE s \ {OneOf(s)} \in Upto(S, m - 1)
        OBVIOUS
      <4>1. s \in SUBSET S /\ Cardinality(s) < m
        BY DEF Upto
      <4>2. IsFiniteSet(s)
        BY <4>1, FS_Subset
      <4>3. OneOf(s) \in s
        BY OneOfIn
      <4>4. Cardinality(s \ {OneOf(s)}) = Cardinality(s) - 1 /\ Cardinality(s) \in Nat
        BY <4>2, <4>3, FS_RemoveElement, FS_CardinalityType
      <4>5. s \ {OneOf(s)} \in SUBSET S
        BY <4>1
      <4>6. Cardinality(s \ {OneOf(s)}) < m - 1
        BY <4>1, <4>4
      <4> QED BY <4>5, <4>6 DEF Upto
    <3>5. \A s \in Upto(S, m - 1) : s \in Upto(S, m)
      <4>1. \A s \in SUBSET S : Cardinality(s) \in Nat
        BY FS_Subset, FS_CardinalityType
      <4> QED BY <4>1, <3>1 DEF Upto
    <3>6. \A s \in Upto(S, m - 1) : f[s] = IF s = {} THEN 0 ELSE w[OneOf(s)] + f[s \ {OneOf(s)}]
      BY <3>3 DEF Unfold
    <3>7. \A s \in Upto(S, m) : g[s] = IF s = {} THEN 0 ELSE w[OneOf(s)] + f[s \ {OneOf(s)}]
      BY DEF Unfold
    <3>8. \A s \in Upto(S, m - 1) : g[s] = f[s]
      BY <3>5, <3>6, <3>7
    <3>9. g = Unfold(w, Upto(S, m), g)
      <4>1. \A s \in Upto(S, m) : s # {} => g[s \ {OneOf(s)}] = f[s \ {OneOf(s)}]
        BY <3>4, <3>8
      <4> HIDE DEF g
      <4>2. Unfold(w, Upto(S, m), f) = Unfold(w, Upto(S, m), g)
        BY <4>1 DEF Unfold
      <4> QED BY <4>2 DEF g
    <3> HIDE DEF g
    <3>10. \E h : h = Unfold(w, Upto(S, m), h)
      BY <3>9
    <3> QED BY <3>10
  <2> QED BY <2>1, <2>2
<1> HIDE DEF G
<1>2. Nat \subseteq G
  BY <1>1, Everywhere
<1> QED BY <1>2 DEF G

\* It has one on all the subsets of S.
LEMMA IterDef ==
    ASSUME NEW w, NEW S, IsFiniteSet(S)
    PROVE  Iter(w, S) = Unfold(w, SUBSET S, Iter(w, S))
<1>1. Cardinality(S) + 1 \in Nat
  BY FS_CardinalityType
<1>2. Upto(S, Cardinality(S) + 1) = SUBSET S
  <2>1. \A s \in SUBSET S : Cardinality(s) <= Cardinality(S) /\ Cardinality(s) \in Nat
    BY FS_Subset, FS_CardinalityType
  <2>2. Cardinality(S) \in Nat
    BY FS_CardinalityType
  <2>3. \A s \in SUBSET S : Cardinality(s) < Cardinality(S) + 1
    BY <2>1, <2>2
  <2> QED BY <2>3 DEF Upto
<1> DEFINE n == Cardinality(S) + 1
<1> HIDE DEF n
<1>3. \E f : f = Unfold(w, SUBSET S, f)
  <2>1. \E f : f = Unfold(w, Upto(S, n), f)
    BY <1>1, IterStage DEF n
  <2> QED BY <1>2, <2>1 DEF n
<1> QED BY <1>3 DEF Iter

LEMMA IterAt ==
    ASSUME NEW w, NEW S, IsFiniteSet(S), NEW s \in SUBSET S
    PROVE  Iter(w, S)[s] = IF s = {} THEN 0 ELSE w[OneOf(s)] + Iter(w, S)[s \ {OneOf(s)}]
<1> DEFINE f == Iter(w, S)
<1>1. f = Unfold(w, SUBSET S, f)
  BY IterDef
<1> HIDE DEF f
<1>2. f[s] = IF s = {} THEN 0 ELSE w[OneOf(s)] + f[s \ {OneOf(s)}]
  BY <1>1 DEF Unfold
<1> QED BY <1>2 DEF f

(* Induction over the subsets of a finite set, by their size. *)
\* It depends on the weights of the set alone, not on where the recursion started.
LEMMA IterSame ==
    ASSUME NEW v, NEW w, NEW S, IsFiniteSet(S), NEW T \in SUBSET S, \A x \in T : v[x] = w[x]
    PROVE  \A s \in SUBSET T : Iter(v, T)[s] = Iter(w, S)[s]
<1>3. \A s \in SUBSET S :
        Iter(w, S)[s] = IF s = {} THEN 0 ELSE w[OneOf(s)] + Iter(w, S)[s \ {OneOf(s)}]
  BY IterAt
<1> DEFINE G == {s \in SUBSET T : Iter(v, T)[s] = Iter(w, S)[s]}
<1>0. IsFiniteSet(T)
  BY SubsetFinite
<1>1. ASSUME NEW s \in SUBSET T, \A x \in s : s \ {x} \in G PROVE s \in G
  <2>1. Iter(v, T)[s] = IF s = {} THEN 0 ELSE v[OneOf(s)] + Iter(v, T)[s \ {OneOf(s)}]
    BY <1>0, IterAt
  <2> HIDE DEF G
  <2>0. s \in SUBSET S
    OBVIOUS
  <2>2. Iter(w, S)[s] = IF s = {} THEN 0 ELSE w[OneOf(s)] + Iter(w, S)[s \ {OneOf(s)}]
    BY <2>0, <1>3
  <2> USE DEF G
  <2>3. s # {} => OneOf(s) \in s /\ OneOf(s) \in T
    BY OneOfIn
  <2>4. s # {} => v[OneOf(s)] = w[OneOf(s)] /\ Iter(v, T)[s \ {OneOf(s)}] = Iter(w, S)[s \ {OneOf(s)}]
    BY <2>3, <1>1
  <2> QED BY <2>1, <2>2, <2>4
<1> HIDE DEF G
<1>2. SUBSET T \subseteq G
  BY <1>0, <1>1, EverySubset
<1> QED BY <1>2 DEF G

(* Sums over a finite set of what w gives each element. *)

\* Equal weights have equal sums.
LEMMA SumSame ==
    ASSUME NEW v, NEW w, NEW S, IsFiniteSet(S), \A x \in S : v[x] = w[x]
    PROVE  Sum(v, S) = Sum(w, S)
  BY IterSame, SumIs

LEMMA SumEmpty == ASSUME NEW w PROVE Sum(w, {}) = 0
<1>1. IsFiniteSet({})
  BY FS_EmptySet
<1> QED BY <1>1, IterAt, SumIs

\* A sum is one weight and the sum of the rest.
LEMMA SumOneOf ==
    ASSUME NEW w, NEW S, IsFiniteSet(S), S # {}
    PROVE  Sum(w, S) = w[OneOf(S)] + Sum(w, S \ {OneOf(S)})
<1> DEFINE T == S \ {OneOf(S)}
<1>1. Sum(w, S) = w[OneOf(S)] + Iter(w, S)[T]
  BY IterAt, SumIs
<1>2. Iter(w, T)[T] = Iter(w, S)[T]
  <2>1. T \in SUBSET S
    OBVIOUS
  <2> HIDE DEF T
  <2> QED BY <2>1, IterSame
<1>3. Sum(w, T) = Iter(w, T)[T]
  BY SumIs
<1> QED BY <1>1, <1>2, <1>3

\* A sum of integers is one, a sum of naturals too.
LEMMA SumType ==
    ASSUME NEW w, NEW S, IsFiniteSet(S), \A x \in S : w[x] \in Int
    PROVE  /\ Sum(w, S) \in Int
           /\ (\A x \in S : w[x] \in Nat) => Sum(w, S) \in Nat
<1> DEFINE G == {s \in SUBSET S : /\ Sum(w, s) \in Int
                                  /\ (\A x \in s : w[x] \in Nat) => Sum(w, s) \in Nat}
<1>1. ASSUME NEW s \in SUBSET S, \A x \in s : s \ {x} \in G PROVE s \in G
  <2>1. CASE s = {}
    BY <2>1, SumEmpty
  <2>2. CASE s # {}
    <3>1. Sum(w, s) = w[OneOf(s)] + Sum(w, s \ {OneOf(s)})
      BY <2>2, SumOneOf, SubsetFinite
    <3>2. OneOf(s) \in s /\ w[OneOf(s)] \in Int
      BY <2>2, OneOfIn
    <3>3. s \ {OneOf(s)} \in G
      BY <3>2, <1>1
    <3>4. /\ Sum(w, s \ {OneOf(s)}) \in Int
          /\ (\A x \in s \ {OneOf(s)} : w[x] \in Nat) => Sum(w, s \ {OneOf(s)}) \in Nat
      BY <3>3
    <3>5. Sum(w, s) \in Int
      BY <3>1, <3>2, <3>4
    <3>6. (\A x \in s : w[x] \in Nat) => Sum(w, s) \in Nat
      <4> SUFFICES ASSUME \A x \in s : w[x] \in Nat PROVE Sum(w, s) \in Nat
        OBVIOUS
      <4>1. w[OneOf(s)] \in Nat /\ Sum(w, s \ {OneOf(s)}) \in Nat
        BY <3>2, <3>4
      <4> QED BY <4>1, <3>1
    <3> QED BY <3>5, <3>6
  <2> QED BY <2>1, <2>2
<1> HIDE DEF G
<1>2. SUBSET S \subseteq G
  BY <1>1, EverySubset
<1>3. S \in G
  BY <1>2
<1> QED BY <1>3 DEF G

\* Any element may be taken first.
LEMMA SumRemove ==
    ASSUME NEW w, NEW S, IsFiniteSet(S), \A x \in S : w[x] \in Int
    PROVE  \A x \in S : Sum(w, S) = w[x] + Sum(w, S \ {x})
<1> DEFINE G == {s \in SUBSET S : \A x \in s : Sum(w, s) = w[x] + Sum(w, s \ {x})}
<1>1. ASSUME NEW s \in SUBSET S, \A x \in s : s \ {x} \in G PROVE s \in G
  <2> SUFFICES ASSUME NEW x \in s PROVE Sum(w, s) = w[x] + Sum(w, s \ {x})
    OBVIOUS
  <2> DEFINE a == OneOf(s)
  <2>0. a \in s
    BY OneOfIn
  <2>1. Sum(w, s) = w[a] + Sum(w, s \ {a})
    BY SumOneOf, SubsetFinite
  <2> HIDE DEF a
  <2>2. CASE x = a
    BY <2>1, <2>2
  <2>3. CASE x # a
    <3>1. s \ {a} \in G /\ s \ {x} \in G /\ x \in s \ {a} /\ a \in s \ {x}
      BY <2>0, <2>3, <1>1
    <3>2. Sum(w, s \ {a}) = w[x] + Sum(w, (s \ {a}) \ {x})
      BY <3>1
    <3>3. Sum(w, s \ {x}) = w[a] + Sum(w, (s \ {x}) \ {a})
      BY <3>1
    <3>4. (s \ {a}) \ {x} = (s \ {x}) \ {a}
      OBVIOUS
    <3>5. Sum(w, (s \ {a}) \ {x}) \in Int
      BY SumType, SubsetFinite
    <3>6. w[x] \in Int /\ w[a] \in Int
      BY <2>0
    <3> DEFINE r == Sum(w, (s \ {a}) \ {x})
    <3>7. Sum(w, s \ {a}) = w[x] + r /\ Sum(w, s \ {x}) = w[a] + r
      BY <3>2, <3>3, <3>4
    <3>8. r \in Int
      BY <3>5
    <3> HIDE DEF r
    <3> QED BY <2>1, <3>6, <3>7, <3>8
  <2> QED BY <2>2, <2>3
<1> HIDE DEF G
<1>2. SUBSET S \subseteq G
  BY <1>1, EverySubset
<1>3. S \in G
  BY <1>2
<1> QED BY <1>3 DEF G

\* With natural weights a part is no more than the whole.
LEMMA SumMonotone ==
    ASSUME NEW w, NEW S, IsFiniteSet(S), \A x \in S : w[x] \in Nat
    PROVE  \A T \in SUBSET S : Sum(w, T) <= Sum(w, S)
<1> DEFINE G == {s \in SUBSET S : \A T \in SUBSET s : Sum(w, T) <= Sum(w, s)}
<1>0. ASSUME NEW s \in SUBSET S PROVE Sum(w, s) \in Nat
  BY SumType, SubsetFinite
<1>1. ASSUME NEW s \in SUBSET S, \A x \in s : s \ {x} \in G PROVE s \in G
  <2> SUFFICES ASSUME NEW T \in SUBSET s PROVE Sum(w, T) <= Sum(w, s)
    OBVIOUS
  <2>1. CASE T = s
    BY <2>1, <1>0
  <2>2. CASE T # s
    <3>1. PICK x \in s : x \notin T
      BY <2>2
    <3>2. s \ {x} \in G /\ T \in SUBSET (s \ {x})
      BY <3>1, <1>1
    <3>3. Sum(w, T) <= Sum(w, s \ {x})
      BY <3>2
    <3>4. Sum(w, s) = w[x] + Sum(w, s \ {x})
      BY SumRemove, SubsetFinite
    <3>5. Sum(w, T) \in Nat /\ Sum(w, s \ {x}) \in Nat /\ w[x] \in Nat
      BY <1>0
    <3> QED BY <3>3, <3>4, <3>5
  <2> QED BY <2>1, <2>2
<1> HIDE DEF G
<1>2. SUBSET S \subseteq G
  BY <1>1, EverySubset
<1>3. S \in G
  BY <1>2
<1> QED BY <1>3 DEF G

\* Sums of sets that have nothing in common add up.
LEMMA SumUnion ==
    ASSUME NEW w, NEW A, NEW B, IsFiniteSet(A), IsFiniteSet(B), A \cap B = {}, \A x \in A \cup B : w[x] \in Int
    PROVE  Sum(w, A \cup B) = Sum(w, A) + Sum(w, B)
<1> DEFINE G == {s \in SUBSET A : Sum(w, s \cup B) = Sum(w, s) + Sum(w, B)}
<1>1. ASSUME NEW s \in SUBSET A, \A x \in s : s \ {x} \in G PROVE s \in G
  <2>0. IsFiniteSet(s) /\ IsFiniteSet(s \cup B) /\ (\A x \in s : w[x] \in Int) /\ (\A x \in s \cup B : w[x] \in Int)
    BY SubsetFinite, FS_Union
  <2>1. CASE s = {}
    <3>1. Sum(w, B) \in Int
      BY SumType
    <3>2. s \cup B = B /\ Sum(w, s) = 0
      BY <2>1, SumEmpty
    <3> DEFINE b == Sum(w, B)
    <3>3. Sum(w, s \cup B) = b /\ b \in Int
      BY <3>1, <3>2
    <3> HIDE DEF b
    <3>4. Sum(w, s \cup B) = Sum(w, s) + b
      BY <3>2, <3>3
    <3> QED BY <3>4 DEF b
  <2>2. CASE s # {}
    <3>1. PICK x \in s : TRUE
      BY <2>2
    <3>2. (s \cup B) \ {x} = (s \ {x}) \cup B
      <4>1. x \notin B
        OBVIOUS
      <4> QED BY <4>1
    <3>3. Sum(w, s \cup B) = w[x] + Sum(w, (s \cup B) \ {x})
      BY <2>0, SumRemove
    <3>4. Sum(w, s) = w[x] + Sum(w, s \ {x})
      BY <2>0, SumRemove
    <3>5. Sum(w, (s \ {x}) \cup B) = Sum(w, s \ {x}) + Sum(w, B)
      BY <1>1
    <3>6. Sum(w, s \ {x}) \in Int /\ Sum(w, B) \in Int /\ w[x] \in Int
      <4>1. IsFiniteSet(s \ {x}) /\ \A y \in s \ {x} : w[y] \in Int
        BY <2>0, SubsetFinite
      <4> QED BY <2>0, <4>1, SumType
    <3> DEFINE a == Sum(w, s \ {x})
               b == Sum(w, B)
               c == w[x]
    <3>7. Sum(w, s \cup B) = c + (a + b) /\ Sum(w, s) = c + a /\ a \in Int /\ b \in Int /\ c \in Int
      BY <3>2, <3>3, <3>4, <3>5, <3>6
    <3> HIDE DEF a, b, c
    <3>8. Sum(w, s \cup B) = Sum(w, s) + b
      BY <3>7
    <3> QED BY <3>8 DEF b
  <2> QED BY <2>1, <2>2
<1> HIDE DEF G
<1>2. SUBSET A \subseteq G
  BY <1>1, EverySubset
<1>3. A \in G
  BY <1>2
<1> QED BY <1>3 DEF G

\* With natural weights, two sets that cover a third one sum up to no less.
LEMMA SumCover ==
    ASSUME NEW w, NEW A, NEW B, IsFiniteSet(A), IsFiniteSet(B), NEW S \in SUBSET (A \cup B),
           \A x \in A \cup B : w[x] \in Nat
    PROVE  Sum(w, S) <= Sum(w, A) + Sum(w, B)
<1> DEFINE C == B \ A
<1>1. IsFiniteSet(C) /\ C \subseteq B /\ A \cap C = {} /\ A \cup C = A \cup B /\ IsFiniteSet(A \cup B)
  BY FS_Difference, FS_Union
<1> HIDE DEF C
<1>2. Sum(w, A \cup C) = Sum(w, A) + Sum(w, C)
  BY <1>1, SumUnion
<1>3. Sum(w, S) <= Sum(w, A \cup B)
  BY <1>1, SumMonotone
<1>4. Sum(w, C) <= Sum(w, B)
  BY <1>1, SumMonotone
<1>5. Sum(w, A) \in Nat /\ Sum(w, B) \in Nat /\ Sum(w, C) \in Nat
  BY <1>1, SumType
<1>6. Sum(w, S) \in Nat
  BY <1>1, SubsetFinite, SumType
<1>7. Sum(w, S) <= Sum(w, A) + Sum(w, C)
  BY <1>1, <1>2, <1>3
<1> QED BY <1>4, <1>5, <1>6, <1>7
-----------------------------------------------------------------------------
(* Functions defined by recursion down a rank. *)

\* There is a function that gives h where it stops, at the elements of B, and
\* otherwise combines its argument with its value at the next one.
Solvable(D, V, B, h, next, c) ==
    \E f \in [D -> V] : \A x \in D : f[x] = IF x \in B THEN h[x] ELSE c[<<x, f[next[x]]>>]

\* It exists where the next one is of lower rank.
LEMMA Recursion ==
    ASSUME NEW D, NEW V, NEW N \in Nat, NEW rank \in [D -> 0 .. N], NEW B,
           NEW h \in [D -> V], NEW next \in [D -> D], NEW c \in [D \X V -> V],
           \A x \in D \ B : rank[next[x]] < rank[x]
    PROVE  Solvable(D, V, B, h, next, c)
<1> DEFINE Step(f, x) == IF x \in B THEN h[x] ELSE c[<<x, f[next[x]]>>]
           G == {n \in Nat : \E f \in [D -> V] : \A x \in D : rank[x] < n => f[x] = Step(f, x)}
<1>1. ASSUME NEW n \in Nat, \A k \in Nat : k < n => k \in G PROVE n \in G
  <2>1. CASE n = 0
    <3>1. \A x \in D : ~ (rank[x] < n)
      BY <2>1
    <3> QED BY <3>1
  <2>2. CASE n # 0
    <3>1. n - 1 \in G
      BY <1>1, <2>2
    <3>2. PICK f \in [D -> V] : \A x \in D : rank[x] < n - 1 => f[x] = Step(f, x)
      BY <3>1
    <3> DEFINE g == [x \in D |-> Step(f, x)]
    <3>3. g \in [D -> V]
      OBVIOUS
    <3>4. ASSUME NEW x \in D, rank[x] < n PROVE g[x] = Step(g, x)
      <4>1. CASE x \in B
        BY <4>1
      <4>2. CASE x \notin B
        <5>1. next[x] \in D /\ rank[next[x]] < n - 1
          BY <3>4, <4>2
        <5>2. g[next[x]] = f[next[x]]
          BY <3>2, <5>1
        <5>3. g[x] = c[<<x, f[next[x]]>>]
          BY <4>2
        <5>4. Step(g, x) = c[<<x, g[next[x]]>>]
          BY <4>2
        <5> HIDE DEF g
        <5> QED BY <5>2, <5>3, <5>4
      <4> QED BY <4>1, <4>2
    <3> HIDE DEF g, Step
    <3> QED BY <3>3, <3>4
  <2> QED BY <2>1, <2>2
<1>2. Nat \subseteq G
  <2> HIDE DEF G
  <2> QED BY <1>1, Everywhere
<1>3. N + 1 \in G
  <2>1. N + 1 \in Nat
    OBVIOUS
  <2> HIDE DEF G
  <2> QED BY <1>2, <2>1
<1>4. PICK f \in [D -> V] : \A x \in D : rank[x] < N + 1 => f[x] = Step(f, x)
  BY <1>3
<1>5. \A x \in D : rank[x] < N + 1
  OBVIOUS
<1>6. \A x \in D : f[x] = Step(f, x)
  BY <1>4, <1>5
<1> QED BY <1>6 DEF Solvable
=============================================================================
