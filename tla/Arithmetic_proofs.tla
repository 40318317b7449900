-------------------------- MODULE Arithmetic_proofs -------------------------
(***************************************************************************)
(* The least number principle, and what SumFunction of the community       *)
(* modules returns: the sum over a finite set does not depend on the order *)
(* CHOOSE takes its elements in, so any element can be taken out first.    *)
(* The library defines the sum by a recursive function over the subsets of *)
(* the domain; its equation is shown to have a solution, and every fact    *)
(* about a solution is shown for a smallest subset that would break it.    *)
(***************************************************************************)
EXTENDS Naturals, FiniteSets, Functions, TLAPS, WellFoundedInduction, FiniteSetTheorems

\* One step of the fold: the element CHOOSE takes, and what is left.
FoldStep(fun, g, s) == IF s = {} THEN 0
                   ELSE LET x == CHOOSE x \in s : TRUE IN fun[x] + g[s \ {x}]

\* g holds the sum of fun over every subset of S.
Sums(fun, S, g) == g = [s \in SUBSET S |-> FoldStep(fun, g, s)]

\* Every set of naturals that is not empty has a least element.
LEMMA LeastOf ==
  ASSUME NEW T, T \subseteq Nat, T # {}
  PROVE  \E x \in T : \A y \in T : x <= y
<1>1. \E x \in T : \A y \in T : ~ (<<y, x>> \in OpToRel(<, Nat))
  BY NatLessThanWellFounded, WFMin, Zenon
<1>2. PICK x \in T : \A y \in T : ~ (<<y, x>> \in OpToRel(<, Nat))
  BY <1>1
<1>3. ASSUME NEW y \in T PROVE x <= y
  <2>1. ~ (<<y, x>> \in OpToRel(<, Nat))
    BY <1>2
  <2>2. ~(y < x)
    BY <2>1 DEF OpToRel
  <2> QED  BY <2>2
<1> QED  BY <1>2, <1>3

\* Of the subsets of a finite set that are bad, one has no bad subset smaller than it.
LEMMA SmallestBad ==
  ASSUME NEW S, IsFiniteSet(S), NEW Bad, Bad \subseteq SUBSET S, Bad # {}
  PROVE  \E s \in Bad : \A x \in s : s \ {x} \notin Bad
<1> DEFINE Sizes == {Cardinality(s) : s \in Bad}
<1>1. \A s \in SUBSET S : IsFiniteSet(s) /\ Cardinality(s) \in Nat
  BY FS_Subset, FS_CardinalityType
<1>2. Sizes \subseteq Nat /\ Sizes # {}
  BY <1>1
<1>3. PICK n \in Sizes : \A k \in Sizes : n <= k
  BY <1>2, LeastOf
<1>4. PICK s \in Bad : n = Cardinality(s)
  BY <1>3
<1>5. ASSUME NEW x \in s, s \ {x} \in Bad PROVE FALSE
  <2>1. Cardinality(s \ {x}) = Cardinality(s) - 1
    BY <1>1, FS_RemoveElement
  <2>2. Cardinality(s) <= Cardinality(s \ {x})
    BY <1>3, <1>4, <1>5
  <2> QED  BY <1>1, <2>1, <2>2
<1> QED  BY <1>5

-----------------------------------------------------------------------------
(* The equation has a solution.                                            *)

\* A g that is right for the subsets of fewer than n elements.
Upto(fun, S, g, n) ==
  \A s \in SUBSET S : Cardinality(s) <= n => g[s] = FoldStep(fun, g, s)

LEMMA StepUpto ==
  ASSUME NEW S, IsFiniteSet(S), NEW fun \in [S -> Nat], NEW n \in Nat,
         NEW g \in [SUBSET S -> Nat], Upto(fun, S, g, n)
  PROVE  \E h \in [SUBSET S -> Nat] : Upto(fun, S, h, n + 1)
<1> DEFINE h == [s \in SUBSET S |-> IF Cardinality(s) <= n THEN g[s] ELSE FoldStep(fun, g, s)]
<1>1. \A s \in SUBSET S : IsFiniteSet(s) /\ Cardinality(s) \in Nat
  BY FS_Subset, FS_CardinalityType
<1>2. \A s \in SUBSET S : FoldStep(fun, g, s) \in Nat
  BY DEF FoldStep
<1>3. h \in [SUBSET S -> Nat]
  BY <1>2
<1>4. ASSUME NEW s \in SUBSET S, Cardinality(s) <= n + 1
      PROVE  h[s] = FoldStep(fun, h, s)
  <2>1. h[s] = FoldStep(fun, g, s)
    BY DEF Upto
  <2>2. CASE s = {}
    BY <2>1, <2>2 DEF FoldStep
  <2>3. CASE s # {}
    <3> DEFINE x == CHOOSE x \in s : TRUE
    <3>1. x \in s
      BY <2>3
    <3>2. Cardinality(s \ {x}) = Cardinality(s) - 1
      BY <1>1, <3>1, FS_RemoveElement
    <3>3. Cardinality(s \ {x}) <= n /\ s \ {x} \in SUBSET S
      BY <1>1, <1>4, <3>2
    <3>4. h[s \ {x}] = g[s \ {x}]
      BY <3>3
    <3> HIDE DEF h
    <3> QED  BY <2>1, <2>3, <3>4 DEF FoldStep
  <2> QED  BY <2>2, <2>3
<1> HIDE DEF h
<1> QED  BY <1>3, <1>4 DEF Upto

LEMMA SomeUpto ==
  ASSUME NEW S, IsFiniteSet(S), NEW fun \in [S -> Nat], NEW n \in Nat
  PROVE  \E g \in [SUBSET S -> Nat] : Upto(fun, S, g, n)
<1> DEFINE Has(k) == \E g \in [SUBSET S -> Nat] : Upto(fun, S, g, k)
           T == {k \in Nat : ~Has(k)}
<1>1. SUFFICES ASSUME T # {} PROVE FALSE
  OBVIOUS
<1>2. PICK k \in T : \A j \in T : k <= j
  BY <1>1, LeastOf
<1>3. Has(0)
  <2> DEFINE g == [s \in SUBSET S |-> 0]
  <2>1. g \in [SUBSET S -> Nat]
    OBVIOUS
  <2>2. ASSUME NEW s \in SUBSET S, Cardinality(s) <= 0 PROVE g[s] = FoldStep(fun, g, s)
    <3>1. IsFiniteSet(s) /\ Cardinality(s) \in Nat
      BY FS_Subset, FS_CardinalityType
    <3>2. s = {}
      BY <2>2, <3>1, FS_EmptySet
    <3> QED  BY <3>2 DEF FoldStep
  <2> HIDE DEF g
  <2> QED  BY <2>1, <2>2 DEF Upto
<1>4. k # 0
  BY <1>2, <1>3
<1>5. k - 1 \in Nat /\ k - 1 \notin T
  <2>1. k \in Nat /\ k - 1 \in Nat
    BY <1>2, <1>4
  <2>2. k - 1 \in T => k <= k - 1
    BY <1>2, Zenon
  <2> HIDE DEF T
  <2> QED  BY <2>1, <2>2
<1>6. PICK g \in [SUBSET S -> Nat] : Upto(fun, S, g, k - 1)
  BY <1>5
<1>7. Has((k - 1) + 1)
  BY <1>5, <1>6, StepUpto
<1>8. (k - 1) + 1 = k
  BY <1>5
<1> HIDE DEF Has
<1> QED  BY <1>2, <1>7, <1>8

LEMMA Solution ==
  ASSUME NEW S, IsFiniteSet(S), NEW fun \in [S -> Nat]
  PROVE  \E g : Sums(fun, S, g)
<1>1. Cardinality(S) \in Nat
  BY FS_CardinalityType
<1>2. PICK g \in [SUBSET S -> Nat] : Upto(fun, S, g, Cardinality(S))
  BY <1>1, SomeUpto
<1>3. \A s \in SUBSET S : Cardinality(s) <= Cardinality(S)
  BY FS_Subset
<1>4. \A s \in SUBSET S : g[s] = FoldStep(fun, g, s)
  BY <1>2, <1>3 DEF Upto
<1>5. g = [s \in SUBSET S |-> FoldStep(fun, g, s)]
  BY <1>2, <1>4
<1> QED  BY <1>5 DEF Sums

-----------------------------------------------------------------------------
(* Every solution.                                                         *)

LEMMA SolutionNat ==
  ASSUME NEW S, IsFiniteSet(S), NEW fun \in [S -> Nat], NEW g, Sums(fun, S, g)
  PROVE  \A s \in SUBSET S : g[s] \in Nat
<1> DEFINE Bad == {s \in SUBSET S : g[s] \notin Nat}
<1>1. SUFFICES ASSUME Bad # {} PROVE FALSE
  OBVIOUS
<1>2. PICK s \in Bad : \A x \in s : s \ {x} \notin Bad
  BY <1>1, SmallestBad
<1>3. g[s] = FoldStep(fun, g, s)
  BY DEF Sums
<1>4. CASE s = {}
  BY <1>3, <1>4 DEF FoldStep
<1>5. CASE s # {}
  <2> DEFINE x == CHOOSE x \in s : TRUE
  <2>1. x \in s /\ g[s] = fun[x] + g[s \ {x}]
    BY <1>3, <1>5 DEF FoldStep
  <2>2. g[s \ {x}] \in Nat /\ fun[x] \in Nat
    BY <1>2, <2>1
  <2> QED  BY <1>2, <2>1, <2>2
<1> QED  BY <1>4, <1>5

\* The sum over a set is any element's value and the sum over the others.
LEMMA SolutionTakes ==
  ASSUME NEW S, IsFiniteSet(S), NEW fun \in [S -> Nat], NEW g, Sums(fun, S, g)
  PROVE  \A s \in SUBSET S : \A x \in s : g[s] = fun[x] + g[s \ {x}]
<1> DEFINE Bad == {s \in SUBSET S : ~ \A x \in s : g[s] = fun[x] + g[s \ {x}]}
<1>1. SUFFICES ASSUME Bad # {} PROVE FALSE
  OBVIOUS
<1>2. PICK s \in Bad : \A x \in s : s \ {x} \notin Bad
  BY <1>1, SmallestBad
<1>3. PICK x \in s : g[s] # fun[x] + g[s \ {x}]
  BY <1>2
<1> DEFINE y == CHOOSE z \in s : TRUE
<1>4. y \in s /\ g[s] = fun[y] + g[s \ {y}]
  BY <1>3 DEF Sums, FoldStep
<1>5. x # y
  BY <1>3, <1>4
<1> HIDE DEF y
<1>6. g[s \ {y}] = fun[x] + g[(s \ {y}) \ {x}]
  <2>1. s \ {y} \in SUBSET S /\ s \ {y} \notin Bad /\ x \in s \ {y}
    BY <1>2, <1>3, <1>4, <1>5
  <2> QED  BY <2>1
<1>7. g[s \ {x}] = fun[y] + g[(s \ {y}) \ {x}]
  <2>1. s \ {x} \in SUBSET S /\ s \ {x} \notin Bad /\ y \in s \ {x}
    BY <1>2, <1>3, <1>4, <1>5
  <2>2. (s \ {x}) \ {y} = (s \ {y}) \ {x}
    OBVIOUS
  <2> QED  BY <2>1, <2>2
<1>8. /\ fun[x] \in Nat /\ fun[y] \in Nat
      /\ g[s \ {y}] \in Nat /\ g[s \ {x}] \in Nat /\ g[(s \ {y}) \ {x}] \in Nat
  <2>1. s \ {y} \in SUBSET S /\ s \ {x} \in SUBSET S /\ (s \ {y}) \ {x} \in SUBSET S
        /\ x \in S /\ y \in S
    BY <1>2, <1>3, <1>4
  <2> QED  BY <2>1, SolutionNat
<1>9. fun[x] + (fun[y] + g[(s \ {y}) \ {x}]) = fun[y] + (fun[x] + g[(s \ {y}) \ {x}])
  BY <1>8
<1> QED  BY <1>3, <1>4, <1>6, <1>7, <1>9, Zenon

\* Two solutions agree on what both speak of.
LEMMA SolutionsAgree ==
  ASSUME NEW S, IsFiniteSet(S), NEW f1, NEW g1, Sums(f1, S, g1),
         NEW T \in SUBSET S, NEW f2, NEW g2, Sums(f2, T, g2),
         \A x \in T : f1[x] = f2[x]
  PROVE  \A s \in SUBSET T : g1[s] = g2[s]
<1> DEFINE Bad == {s \in SUBSET T : g1[s] # g2[s]}
<1>1. SUFFICES ASSUME Bad # {} PROVE FALSE
  OBVIOUS
<1>2. Bad \subseteq SUBSET S
  OBVIOUS
<1>3. PICK s \in Bad : \A x \in s : s \ {x} \notin Bad
  BY <1>1, <1>2, SmallestBad
<1>4. g1[s] = FoldStep(f1, g1, s) /\ g2[s] = FoldStep(f2, g2, s)
  BY <1>3 DEF Sums
<1>5. CASE s = {}
  BY <1>3, <1>4, <1>5 DEF FoldStep
<1>6. CASE s # {}
  <2> DEFINE x == CHOOSE x \in s : TRUE
  <2>1. x \in s /\ g1[s] = f1[x] + g1[s \ {x}] /\ g2[s] = f2[x] + g2[s \ {x}]
    BY <1>4, <1>6 DEF FoldStep
  <2>2. g1[s \ {x}] = g2[s \ {x}] /\ f1[x] = f2[x]
    BY <1>3, <2>1
  <2> HIDE DEF x
  <2> QED  BY <1>3, <2>1, <2>2
<1> QED  BY <1>5, <1>6

-----------------------------------------------------------------------------
(* SumFunction.                                                            *)

LEMMA SumIsSolution ==
  ASSUME NEW S, IsFiniteSet(S), NEW fun \in [S -> Nat]
  PROVE  \E g : Sums(fun, S, g) /\ SumFunction(fun) = g[S]
<1> DEFINE g == CHOOSE g : Sums(fun, S, g)
<1>1. Sums(fun, S, g)
  BY Solution
<1>2. DOMAIN fun = S
  OBVIOUS
<1>3. SumFunction(fun) = g[S]
  BY <1>2 DEF SumFunction, SumFunctionOnSet, FoldFunctionOnSet, MapThenFoldSet, Sums, FoldStep
<1> QED  BY <1>1, <1>3

\* A sum of naturals is one; the sum over nothing is 0.
LEMMA SumNat ==
  ASSUME NEW S, IsFiniteSet(S), NEW fun \in [S -> Nat]
  PROVE  SumFunction(fun) \in Nat /\ (S = {} => SumFunction(fun) = 0)
<1>1. PICK g : Sums(fun, S, g) /\ SumFunction(fun) = g[S]
  BY SumIsSolution
<1>2. S = {} => g[S] = 0
  BY <1>1 DEF Sums, FoldStep
<1> QED  BY <1>1, <1>2, SolutionNat

\* Any element can be taken out of a sum first.
THEOREM SumTakes ==
  ASSUME NEW S, IsFiniteSet(S), NEW fun \in [S -> Nat], NEW x \in S
  PROVE  SumFunction(fun) = fun[x] + SumFunction([i \in S \ {x} |-> fun[i]])
<1> DEFINE T == S \ {x}
           rest == [i \in T |-> fun[i]]
<1>1. PICK g : Sums(fun, S, g) /\ SumFunction(fun) = g[S]
  BY SumIsSolution
<1>2. IsFiniteSet(T) /\ T \in SUBSET S /\ rest \in [T -> Nat]
  BY FS_Subset
<1>3. PICK h : Sums(rest, T, h) /\ SumFunction(rest) = h[T]
  BY <1>2, SumIsSolution
<1>4. \A i \in T : fun[i] = rest[i]
  OBVIOUS
<1>5. g[T] = h[T]
  <2> HIDE DEF T, rest
  <2>1. T \in SUBSET T
    OBVIOUS
  <2>2. \A s \in SUBSET T : g[s] = h[s]
    BY <1>1, <1>2, <1>3, <1>4, SolutionsAgree
  <2> QED  BY <2>1, <2>2
<1>6. g[S] = fun[x] + g[T]
  BY <1>1, SolutionTakes
<1> QED  BY <1>1, <1>3, <1>5, <1>6
=============================================================================
