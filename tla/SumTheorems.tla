----------------------------- MODULE SumTheorems ----------------------------
(* Facts about the sums of functions over finite sets, SumFunctionOnSet of   *)
(* the community modules.  The library's induction theorems take a predicate *)
(* as an operator, which no prover here can instantiate; SubsetInduction     *)
(* takes it as a set, and comes from the least element of a set of numbers.  *)
EXTENDS Integers, Functions, FiniteSetTheorems, NaturalsInduction, TLAPS

NatLess == {ss \in Nat \X Nat : ss[1] < ss[2]}

\* A set of natural numbers that is not empty has a least element.
LEMMA LeastNatural ==
    ASSUME NEW T, T \subseteq Nat, T # {}
    PROVE  \E n \in T : \A m \in T : n <= m
<1>1. IsWellFoundedOn(NatLess, Nat)
  BY NatLessThanWellFounded DEF OpToRel, NatLess
<1>2. PICK n \in T : \A m \in T : <<m, n>> \notin NatLess
  BY <1>1, WFMin
<1>3. ASSUME NEW m \in T PROVE n <= m
  <2>1. <<m, n>> \in Nat \X Nat /\ <<m, n>>[1] = m /\ <<m, n>>[2] = n
    OBVIOUS
  <2>2. ~(m < n)
    BY <1>2, <2>1 DEF NatLess
  <2> QED
    BY <2>2
<1> QED
  BY <1>3

\* What holds of a subset when it holds of those with one element less holds
\* of all subsets of a finite set.
LEMMA SubsetInduction ==
    ASSUME NEW S, IsFiniteSet(S), NEW P,
           \A U \in SUBSET S : (\A x \in U : U \ {x} \in P) => U \in P
    PROVE  \A U \in SUBSET S : U \in P
<1> DEFINE N == {n \in Nat : \E U \in SUBSET S : U \notin P /\ Cardinality(U) = n}
<1>1. SUFFICES ASSUME \E U \in SUBSET S : U \notin P PROVE FALSE
  OBVIOUS
<1>2. ASSUME NEW U \in SUBSET S
      PROVE  IsFiniteSet(U) /\ Cardinality(U) \in Nat
  BY FS_Subset, FS_CardinalityType
<1>3. N # {}
  BY <1>1, <1>2
<1>4. PICK n \in N : \A m \in N : n <= m
  <2> N \subseteq Nat
    OBVIOUS
  <2> HIDE DEF N
  <2> QED
    BY <1>3, LeastNatural
<1>5. PICK U \in SUBSET S : U \notin P /\ Cardinality(U) = n
  OBVIOUS
<1>6. ASSUME NEW x \in U PROVE U \ {x} \in P
  <2>1. Cardinality(U \ {x}) = n - 1
    BY <1>2, <1>5, FS_RemoveElement
  <2>2. U \ {x} \in SUBSET S
    OBVIOUS
  <2>3. n - 1 \notin N
    BY <1>4
  <2>4. n - 1 \in Nat
    BY <1>2, <2>1, <2>2
  <2> QED
    BY <2>1, <2>2, <2>3, <2>4
<1> QED
  BY <1>5, <1>6

-----------------------------------------------------------------------------
pick(s) == CHOOSE x \in s : TRUE

\* The recursion of Folds.tla, for a sum.
Step(g, f, s) == IF s = {} THEN 0 ELSE g[pick(s)] + f[s \ {pick(s)}]
IsSum(g, f, S) == f = [s \in SUBSET S |-> Step(g, f, s)]

LEMMA SumIsChosen ==
    ASSUME NEW g, NEW S
    PROVE  SumFunctionOnSet(g, S) = (CHOOSE f : IsSum(g, f, S))[S]
  BY DEF SumFunctionOnSet, FoldFunctionOnSet, MapThenFoldSet, IsSum, Step, pick

\* There is a function that the recursion describes.
LEMMA SumExists ==
    ASSUME NEW g, NEW S, IsFiniteSet(S)
    PROVE  \E f : IsSum(g, f, S)
<1> DEFINE Level(n) == {s \in SUBSET S : Cardinality(s) <= n}
           Exists(n) == \E f : f = [s \in Level(n) |-> Step(g, f, s)]
           N == {n \in Nat : ~Exists(n)}
<1>1. ASSUME NEW U \in SUBSET S
      PROVE  IsFiniteSet(U) /\ Cardinality(U) \in Nat
  BY FS_Subset, FS_CardinalityType
<1>2. Exists(0)
  <2>1. \A s \in Level(0) : s = {}
    BY <1>1, FS_EmptySet
  <2> DEFINE f == [s \in Level(0) |-> 0]
  <2>2. f = [s \in Level(0) |-> Step(g, f, s)]
    <3>1. \A s \in Level(0) : 0 = Step(g, f, s)
      BY <2>1 DEF Step
    <3> HIDE DEF Level
    <3> QED
      BY <3>1
  <2> HIDE DEF f, Level
  <2> QED
    BY <2>2
<1>3. ASSUME NEW n \in Nat, n # 0, Exists(n - 1)
      PROVE  Exists(n)
  <2>1. PICK h : h = [s \in Level(n - 1) |-> Step(g, h, s)]
    BY <1>3
  <2> DEFINE f == [s \in Level(n) |-> Step(g, h, s)]
  <2>2. ASSUME NEW s \in Level(n) PROVE Step(g, h, s) = Step(g, f, s)
    <3>1. CASE s = {}
      BY <3>1 DEF Step
    <3>2. CASE s # {}
      <4> DEFINE t == s \ {pick(s)}
      <4>1. pick(s) \in s
        BY <3>2 DEF pick
      <4>2. t \in SUBSET S /\ Cardinality(t) = Cardinality(s) - 1
        BY <1>1, <4>1, FS_RemoveElement
      <4>3. t \in Level(n - 1) /\ t \in Level(n)
        BY <1>1, <4>2
      <4>4. h[t] = Step(g, h, t) /\ f[t] = Step(g, h, t)
        <5> HIDE DEF Level, t
        <5> QED
          BY <2>1, <4>3
      <4> QED
        BY <3>2, <4>4 DEF Step
    <3> QED
      BY <3>1, <3>2
  <2>3. f = [s \in Level(n) |-> Step(g, f, s)]
    <3> HIDE DEF Level
    <3> QED
      BY <2>2
  <2> HIDE DEF f, Level
  <2> QED
    BY <2>3
<1>4. ASSUME NEW n \in Nat PROVE Exists(n)
  <2> SUFFICES ASSUME N # {} PROVE FALSE
    <3> HIDE DEF Exists
    <3> QED
      OBVIOUS
  <2>1. PICK m \in N : \A k \in N : m <= k
    <3> N \subseteq Nat
      OBVIOUS
    <3> HIDE DEF N
    <3> QED
      BY LeastNatural
  <2> HIDE DEF Exists
  <2>2. m \in Nat /\ ~Exists(m)
    OBVIOUS
  <2>3. m # 0
    BY <1>2, <2>2
  <2>4. m - 1 \in Nat /\ m - 1 \notin N
    BY <2>1, <2>2, <2>3
  <2> QED
    BY <1>3, <2>2, <2>3, <2>4
<1>5. Level(Cardinality(S)) = SUBSET S
  BY <1>1, FS_Subset
<1>6. Exists(Cardinality(S))
  <2> Cardinality(S) \in Nat
    BY FS_CardinalityType
  <2> HIDE DEF Exists
  <2> QED
    BY <1>4
<1> QED
  BY <1>5, <1>6 DEF IsSum

\* It is determined below a set by what is below it.
LEMMA SumUnique ==
    ASSUME NEW g, NEW S, IsFiniteSet(S), NEW T \in SUBSET S,
           NEW f, IsSum(g, f, S), NEW h, IsSum(g, h, T)
    PROVE  \A U \in SUBSET T : f[U] = h[U]
<1> DEFINE P == {U \in SUBSET T : f[U] = h[U]}
<1>1. IsFiniteSet(T)
  BY FS_Subset
<1>2. ASSUME NEW U \in SUBSET T, \A x \in U : U \ {x} \in P
      PROVE  U \in P
  <2>1. f[U] = Step(g, f, U) /\ h[U] = Step(g, h, U)
    BY DEF IsSum
  <2>2. CASE U = {}
    BY <2>1, <2>2 DEF Step
  <2>3. CASE U # {}
    <3>1. pick(U) \in U
      BY <2>3 DEF pick
    <3>2. f[U \ {pick(U)}] = h[U \ {pick(U)}]
      BY <1>2, <3>1
    <3> QED
      BY <2>1, <2>3, <3>2 DEF Step
  <2> QED
    BY <2>2, <2>3
<1>3. \A U \in SUBSET T : U \in P
  <2> HIDE DEF P
  <2> QED
    BY <1>1, <1>2, SubsetInduction
<1> QED
  BY <1>3

-----------------------------------------------------------------------------
LEMMA SumStep ==
    ASSUME NEW g, NEW S, IsFiniteSet(S)
    PROVE  SumFunctionOnSet(g, S) =
              IF S = {} THEN 0
              ELSE g[pick(S)] + SumFunctionOnSet(g, S \ {pick(S)})
<1> DEFINE T == S \ {pick(S)}
           f == CHOOSE x : IsSum(g, x, S)
           h == CHOOSE x : IsSum(g, x, T)
<1>1. T \in SUBSET S /\ IsFiniteSet(T)
  BY FS_Subset
<1>2. IsSum(g, f, S) /\ IsSum(g, h, T)
  BY <1>1, SumExists
<1>3. f[T] = h[T]
  <2> HIDE DEF f, h, T
  <2> QED
    BY <1>1, <1>2, SumUnique
<1>4. SumFunctionOnSet(g, S) = f[S] /\ SumFunctionOnSet(g, T) = h[T]
  BY SumIsChosen
<1>5. f[S] = Step(g, f, S)
  <2> HIDE DEF f
  <2> QED
    BY <1>2 DEF IsSum
<1> QED
  BY <1>3, <1>4, <1>5 DEF Step

LEMMA SumEmpty == ASSUME NEW g PROVE SumFunctionOnSet(g, {}) = 0
  BY SumStep, FS_EmptySet

\* The sum of integers is an integer, that of natural numbers a natural one.
LEMMA SumType ==
    ASSUME NEW S, IsFiniteSet(S), NEW D \in {Nat, Int}, NEW g, \A s \in S : g[s] \in D
    PROVE  SumFunctionOnSet(g, S) \in D
<1> DEFINE Sum(U) == SumFunctionOnSet(g, U)
           P == {U \in SUBSET S : Sum(U) \in D}
<1>1. ASSUME NEW U \in SUBSET S, \A x \in U : U \ {x} \in P
      PROVE  U \in P
  <2>1. IsFiniteSet(U)
    BY FS_Subset
  <2>2. CASE U = {}
    BY <2>2, SumEmpty
  <2>3. CASE U # {}
    <3>1. pick(U) \in U
      BY <2>3 DEF pick
    <3>2. Sum(U) = g[pick(U)] + Sum(U \ {pick(U)})
      BY <2>1, <2>3, SumStep
    <3>3. Sum(U \ {pick(U)}) \in D /\ g[pick(U)] \in D
      BY <1>1, <3>1
    <3> HIDE DEF Sum
    <3>4. Sum(U) \in D
      BY <3>2, <3>3
    <3> QED
      BY <3>4
  <2> QED
    BY <2>2, <2>3
<1>2. \A U \in SUBSET S : U \in P
  <2> HIDE DEF P
  <2> QED
    BY <1>1, SubsetInduction
<1> QED
  BY <1>2

\* Any element can be taken first.
LEMMA SumSplit ==
    ASSUME NEW S, IsFiniteSet(S), NEW g, \A s \in S : g[s] \in Int, NEW e \in S
    PROVE  SumFunctionOnSet(g, S) = g[e] + SumFunctionOnSet(g, S \ {e})
<1> DEFINE Sum(U) == SumFunctionOnSet(g, U)
           P == {U \in SUBSET S : \A x \in U : Sum(U) = g[x] + Sum(U \ {x})}
<1>1. ASSUME NEW U \in SUBSET S PROVE IsFiniteSet(U) /\ Sum(U) \in Int
  <2>1. IsFiniteSet(U)
    BY FS_Subset
  <2> QED
    BY <2>1, SumType
<1>2. ASSUME NEW U \in SUBSET S, \A x \in U : U \ {x} \in P
      PROVE  U \in P
  <2> SUFFICES ASSUME NEW x \in U PROVE Sum(U) = g[x] + Sum(U \ {x})
    OBVIOUS
  <2> DEFINE c == pick(U)
  <2>1. c \in U
    BY DEF pick
  <2>2. Sum(U) = g[c] + Sum(U \ {c})
    BY <1>1, SumStep
  <2> HIDE DEF c, Sum
  <2>3. CASE x = c
    BY <2>2, <2>3
  <2>4. CASE x # c
    <3> DEFINE V == (U \ {c}) \ {x}
    <3>1. x \in U \ {c} /\ c \in U \ {x} /\ V = (U \ {x}) \ {c}
      BY <2>1, <2>4
    <3>2. Sum(U \ {c}) = g[x] + Sum(V)
      BY <1>2, <2>1, <3>1
    <3>3. Sum(U \ {x}) = g[c] + Sum(V)
      BY <1>2, <3>1
    <3>4. Sum(V) \in Int /\ g[x] \in Int /\ g[c] \in Int
      BY <1>1, <2>1
    <3> HIDE DEF V
    <3> QED
      BY <2>2, <3>2, <3>3, <3>4
  <2> QED
    BY <2>3, <2>4
<1>3. \A U \in SUBSET S : U \in P
  <2> HIDE DEF P
  <2> QED
    BY <1>2, SubsetInduction
<1> QED
  BY <1>3

-----------------------------------------------------------------------------
\* A sum is bounded by that of larger summands; equal summands, equal sums.
LEMMA SumMonotone ==
    ASSUME NEW S, IsFiniteSet(S), NEW g, NEW h,
           \A s \in S : g[s] \in Int /\ h[s] \in Int /\ g[s] <= h[s]
    PROVE  SumFunctionOnSet(g, S) <= SumFunctionOnSet(h, S)
<1> DEFINE G(U) == SumFunctionOnSet(g, U)
           H(U) == SumFunctionOnSet(h, U)
           P == {U \in SUBSET S : G(U) <= H(U)}
<1>1. ASSUME NEW U \in SUBSET S
      PROVE  IsFiniteSet(U) /\ G(U) \in Int /\ H(U) \in Int
  <2>1. IsFiniteSet(U)
    BY FS_Subset
  <2> QED
    BY <2>1, SumType
<1>2. ASSUME NEW U \in SUBSET S, \A x \in U : U \ {x} \in P
      PROVE  U \in P
  <2>1. CASE U = {}
    BY <2>1, SumEmpty
  <2>2. CASE U # {}
    <3> DEFINE c == pick(U)
    <3>1. c \in U
      BY <2>2 DEF pick
    <3>2. G(U) = g[c] + G(U \ {c}) /\ H(U) = h[c] + H(U \ {c})
      BY <1>1, <2>2, SumStep
    <3>3. G(U \ {c}) <= H(U \ {c})
      BY <1>2, <3>1
    <3>4. G(U \ {c}) \in Int /\ H(U \ {c}) \in Int
      BY <1>1
    <3> HIDE DEF c, G, H
    <3> QED
      BY <3>1, <3>2, <3>3, <3>4
  <2> QED
    BY <2>1, <2>2
<1>3. \A U \in SUBSET S : U \in P
  <2> HIDE DEF P
  <2> QED
    BY <1>2, SubsetInduction
<1> QED
  BY <1>3

LEMMA SumCongruence ==
    ASSUME NEW S, IsFiniteSet(S), NEW g, NEW h,
           \A s \in S : g[s] \in Int /\ g[s] = h[s]
    PROVE  SumFunctionOnSet(g, S) = SumFunctionOnSet(h, S)
<1> DEFINE G == SumFunctionOnSet(g, S)
           H == SumFunctionOnSet(h, S)
<1>1. G \in Int /\ H \in Int
  BY SumType
<1>2. G <= H /\ H <= G
  BY SumMonotone
<1> QED
  BY <1>1, <1>2

\* When one summand changes, the sum changes by as much.
LEMMA SumChange ==
    ASSUME NEW S, IsFiniteSet(S), NEW g, NEW h, NEW e \in S, NEW d \in Int,
           \A s \in S : g[s] \in Int,
           h[e] = g[e] + d, \A s \in S \ {e} : h[s] = g[s]
    PROVE  SumFunctionOnSet(h, S) = SumFunctionOnSet(g, S) + d
<1> DEFINE G(U) == SumFunctionOnSet(g, U)
           H(U) == SumFunctionOnSet(h, U)
<1> \A s \in S : h[s] \in Int
  OBVIOUS
<1>1. IsFiniteSet(S \ {e})
  BY FS_Subset
<1>2. G(S) = g[e] + G(S \ {e}) /\ H(S) = h[e] + H(S \ {e})
  BY SumSplit
<1>3. G(S \ {e}) = H(S \ {e})
  BY <1>1, SumCongruence
<1>4. G(S \ {e}) \in Int
  BY <1>1, SumType
<1> HIDE DEF G, H
<1>5. H(S) = G(S) + d
  BY <1>2, <1>3, <1>4
<1> QED
  BY <1>5 DEF G, H

\* A sum of summands of at most d is at most d for each; of d, exactly that.
LEMMA SumBound ==
    ASSUME NEW S, IsFiniteSet(S), NEW g, NEW d \in Int,
           \A s \in S : g[s] \in Int /\ g[s] <= d
    PROVE  SumFunctionOnSet(g, S) <= Cardinality(S) * d
<1> DEFINE G(U) == SumFunctionOnSet(g, U)
           P == {U \in SUBSET S : G(U) <= Cardinality(U) * d}
<1>1. ASSUME NEW U \in SUBSET S
      PROVE  IsFiniteSet(U) /\ G(U) \in Int /\ Cardinality(U) \in Nat
  <2>1. IsFiniteSet(U)
    BY FS_Subset
  <2> QED
    BY <2>1, SumType, FS_CardinalityType
<1>2. ASSUME NEW U \in SUBSET S, \A x \in U : U \ {x} \in P
      PROVE  U \in P
  <2>1. CASE U = {}
    BY <2>1, SumEmpty, FS_EmptySet
  <2>2. CASE U # {}
    <3> DEFINE c == pick(U)
               n == Cardinality(U)
    <3>1. c \in U
      BY <2>2 DEF pick
    <3>2. G(U) = g[c] + G(U \ {c})
      BY <1>1, <2>2, SumStep
    <3>3. Cardinality(U \ {c}) = n - 1
      BY <1>1, <3>1, FS_RemoveElement
    <3>4. G(U \ {c}) <= (n - 1) * d
      BY <1>2, <3>1, <3>3
    <3>5. G(U \ {c}) \in Int /\ n \in Nat
      BY <1>1
    <3> HIDE DEF c, G, n
    <3>6. (n - 1) * d = n * d - d
      BY <3>5
    <3>7. n * d \in Int
      BY <3>5
    <3>8. G(U) <= n * d
      BY <3>1, <3>2, <3>4, <3>5, <3>6, <3>7
    <3> QED
      BY <3>8 DEF n
  <2> QED
    BY <2>1, <2>2
<1>3. \A U \in SUBSET S : U \in P
  <2> HIDE DEF P
  <2> QED
    BY <1>2, SubsetInduction
<1> QED
  BY <1>3

LEMMA SumZero ==
    ASSUME NEW S, IsFiniteSet(S), NEW g, \A s \in S : g[s] = 0
    PROVE  SumFunctionOnSet(g, S) = 0
<1> DEFINE G == SumFunctionOnSet(g, S)
<1>1. G \in Nat /\ Cardinality(S) \in Nat
  BY SumType, FS_CardinalityType
<1>2. \A s \in S : g[s] \in Int /\ g[s] <= 0
  OBVIOUS
<1>3. \A d \in Int : d = 0 => G <= Cardinality(S) * d
  BY <1>2, SumBound
<1>4. G <= Cardinality(S) * 0
  BY <1>3
<1> HIDE DEF G
<1>5. G = 0
  BY <1>1, <1>4
<1> QED
  BY <1>5 DEF G
=============================================================================
