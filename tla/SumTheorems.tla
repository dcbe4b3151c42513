----------------------------- MODULE SumTheorems -----------------------------
(***************************************************************************)
(* Facts about SumFunctionOnSet of the community modules, the sum of the   *)
(* values of a function on a finite set.  The community modules define it  *)
(* by a fold that removes chosen elements one by one; the proofs go by     *)
(* induction on the subsets of the set.                                    *)
(***************************************************************************)
EXTENDS Integers, Functions, FiniteSetTheorems, TLAPS

\* Induction on the subsets of a finite set, with the set of those for which
\* the claim holds in the place of the claim
LEMMA SubsetInduction ==
  ASSUME NEW S, IsFiniteSet(S), NEW G,
         \A T \in SUBSET S : (\A x \in T : T \ {x} \in G) => T \in G
  PROVE  SUBSET S \subseteq G
  <1> SUFFICES ASSUME (SUBSET S) \ G # {} PROVE FALSE
    OBVIOUS
  <1>1. IsWellFoundedOn(StrictSubsetOrdering(S), FiniteSubsetsOf(S))
    BY FS_StrictSubsetOrderingWellFounded
  <1>2. (SUBSET S) \ G \subseteq FiniteSubsetsOf(S)
    BY FS_FiniteSubsetsOfFinite
  <1>3. PICK T \in (SUBSET S) \ G :
          \A U \in (SUBSET S) \ G : ~(<<U, T>> \in StrictSubsetOrdering(S))
    BY <1>1, <1>2, WFMin
  <1>4. ASSUME NEW x \in T PROVE T \ {x} \in G
    <2>1. T \ {x} \in SUBSET S /\ T \ {x} # T
      OBVIOUS
    <2>2. <<T \ {x}, T>> \in StrictSubsetOrdering(S)
      BY <2>1 DEF StrictSubsetOrdering
    <2> QED
      BY <1>3, <2>1, <2>2
  <1> QED
    BY <1>3, <1>4

-----------------------------------------------------------------------------
(* The recursion that defines the sum *)

ChosenElement(T) == CHOOSE x \in T : TRUE

IsSum(f, S, g) ==
  g = [T \in SUBSET S |-> IF T = {} THEN 0 ELSE f[ChosenElement(T)] + g[T \ {ChosenElement(T)}]]

LEMMA SumIs ==
  ASSUME NEW f, NEW S
  PROVE  SumFunctionOnSet(f, S) = (CHOOSE g : IsSum(f, S, g))[S]
  BY DEF SumFunctionOnSet, FoldFunctionOnSet, MapThenFoldSet, IsSum, ChosenElement

LEMMA ChosenIn == ASSUME NEW T, T # {} PROVE ChosenElement(T) \in T
  BY DEF ChosenElement

LEMMA IsSumAt ==
  ASSUME NEW f, NEW S, NEW g, IsSum(f, S, g)
  PROVE  \A T \in SUBSET S :
           g[T] = IF T = {} THEN 0 ELSE f[ChosenElement(T)] + g[T \ {ChosenElement(T)}]
  BY DEF IsSum

LEMMA SumUnique ==
  ASSUME NEW f, NEW S, NEW g, IsSum(f, S, g), NEW R, NEW h, IsSum(f, R, h),
         IsFiniteSet(S)
  PROVE  \A T \in SUBSET (S \cap R) : g[T] = h[T]
  <1> DEFINE D == S \cap R
             G == {T \in SUBSET D : g[T] = h[T]}
  <1>g. \A T \in SUBSET S :
          g[T] = IF T = {} THEN 0 ELSE f[ChosenElement(T)] + g[T \ {ChosenElement(T)}]
    BY DEF IsSum
  <1>h. \A T \in SUBSET R :
          h[T] = IF T = {} THEN 0 ELSE f[ChosenElement(T)] + h[T \ {ChosenElement(T)}]
    BY DEF IsSum
  <1>1. ASSUME NEW T \in SUBSET D, \A x \in T : T \ {x} \in G PROVE T \in G
    <2>1. T \in SUBSET S /\ T \in SUBSET R
      OBVIOUS
    <2> HIDE DEF D, G
    <2>2. g[T] = IF T = {} THEN 0 ELSE f[ChosenElement(T)] + g[T \ {ChosenElement(T)}]
      BY <1>g, <2>1
    <2>3. h[T] = IF T = {} THEN 0 ELSE f[ChosenElement(T)] + h[T \ {ChosenElement(T)}]
      BY <1>h, <2>1
    <2>4. ASSUME T # {} PROVE g[T \ {ChosenElement(T)}] = h[T \ {ChosenElement(T)}]
      <3>1. ChosenElement(T) \in T
        BY <2>4, ChosenIn
      <3> QED
        BY <1>1, <3>1 DEF G
    <2> QED
      BY <2>2, <2>3, <2>4 DEF G
  <1>2. IsFiniteSet(D)
    BY FS_Intersection
  <1> HIDE DEF D, G
  <1>3. SUBSET D \subseteq G
    BY <1>1, <1>2, SubsetInduction
  <1> QED
    BY <1>3 DEF D, G

LEMMA SumExists ==
  ASSUME NEW f, NEW S, IsFiniteSet(S)
  PROVE  \E g : IsSum(f, S, g)
  <1> DEFINE G == {T \in SUBSET S : \E g : IsSum(f, T, g)}
  <1>1. ASSUME NEW T \in SUBSET S, \A x \in T : T \ {x} \in G PROVE T \in G
    <2> DEFINE h == [x \in T |-> CHOOSE g : IsSum(f, T \ {x}, g)]
               c(U) == ChosenElement(U)
               g == [U \in SUBSET T |-> IF U = {} THEN 0 ELSE f[c(U)] + h[c(U)][U \ {c(U)}]]
    <2>1. \A x \in T : IsSum(f, T \ {x}, h[x])
      BY <1>1
    <2> HIDE DEF h
    <2>2. ASSUME NEW U \in SUBSET T, U # {}
          PROVE  h[c(U)][U \ {c(U)}] = g[U \ {c(U)}]
      <3> DEFINE p == c(U)
                 V == U \ {p}
      <3>1. p \in U /\ V \in SUBSET T /\ V \in SUBSET (T \ {p})
        BY <2>2, ChosenIn
      <3>2. IsSum(f, T \ {p}, h[p])
        BY <2>1, <3>1
      <3>3. CASE V = {}
        BY <3>1, <3>2, <3>3, IsSumAt
      <3>4. CASE V # {}
        <4> DEFINE q == c(V)
                   W == V \ {q}
        <4>1. q \in V /\ q \in T /\ W \in SUBSET ((T \ {p}) \cap (T \ {q}))
          BY <3>1, <3>4, ChosenIn
        <4>2. IsSum(f, T \ {q}, h[q])
          BY <2>1, <4>1
        <4>3. IsFiniteSet(T \ {p})
          BY FS_Subset
        <4> HIDE DEF p, q, W, V, g
        <4>4. h[p][W] = h[q][W]
          BY <3>2, <4>1, <4>2, <4>3, SumUnique
        <4>5. h[p][V] = f[q] + h[p][W]
          BY <3>1, <3>2, <3>4, IsSumAt DEF q, W
        <4>6. g[V] = f[q] + h[q][W]
          BY <3>1, <3>4 DEF g, q, W
        <4> QED
          BY <4>4, <4>5, <4>6 DEF p, V
      <3> QED
        BY <3>3, <3>4
    <2>3. IsSum(f, T, g)
      BY <2>2 DEF IsSum
    <2> QED
      BY <2>3
  <1> HIDE DEF G
  <1>2. SUBSET S \subseteq G
    BY <1>1, SubsetInduction
  <1> QED
    BY <1>2 DEF G

LEMMA SumRecursion ==
  ASSUME NEW f, NEW S, IsFiniteSet(S)
  PROVE  SumFunctionOnSet(f, S) =
           IF S = {} THEN 0
           ELSE f[ChosenElement(S)] + SumFunctionOnSet(f, S \ {ChosenElement(S)})
  <1> DEFINE g == CHOOSE g : IsSum(f, S, g)
             R == S \ {ChosenElement(S)}
             h == CHOOSE h : IsSum(f, R, h)
  <1>1. IsFiniteSet(R)
    BY FS_Subset
  <1>2. IsSum(f, S, g) /\ IsSum(f, R, h)
    BY <1>1, SumExists
  <1>3. SumFunctionOnSet(f, S) = g[S] /\ SumFunctionOnSet(f, R) = h[R]
    BY SumIs
  <1>4. S \cap R = R /\ R \in SUBSET S
    OBVIOUS
  <1> HIDE DEF g, h, R
  <1>5. g[R] = h[R]
    BY <1>2, <1>4, SumUnique
  <1>6. g[S] = IF S = {} THEN 0 ELSE f[ChosenElement(S)] + g[S \ {ChosenElement(S)}]
    BY <1>2, IsSumAt
  <1> QED
    BY <1>3, <1>5, <1>6 DEF R

-----------------------------------------------------------------------------
(* What the sum does *)

LEMMA SumEmpty == \A f : SumFunctionOnSet(f, {}) = 0
  BY SumRecursion, FS_EmptySet

LEMMA SumInt ==
  ASSUME NEW f, NEW S, IsFiniteSet(S), \A x \in S : f[x] \in Int
  PROVE  SumFunctionOnSet(f, S) \in Int
  <1> DEFINE G == {T \in SUBSET S : SumFunctionOnSet(f, T) \in Int}
  <1>1. ASSUME NEW T \in SUBSET S, \A x \in T : T \ {x} \in G PROVE T \in G
    <2>1. IsFiniteSet(T)
      BY FS_Subset
    <2>2. T # {} => ChosenElement(T) \in T
      BY ChosenIn
    <2>3. SumFunctionOnSet(f, T) =
            IF T = {} THEN 0
            ELSE f[ChosenElement(T)] + SumFunctionOnSet(f, T \ {ChosenElement(T)})
      BY <2>1, SumRecursion
    <2> QED
      BY <1>1, <2>2, <2>3
  <1> HIDE DEF G
  <1>2. SUBSET S \subseteq G
    BY <1>1, SubsetInduction
  <1> QED
    BY <1>2 DEF G

\* Any element can be taken out, not only the one that the fold chooses
LEMMA SumRemove ==
  ASSUME NEW f, NEW S, IsFiniteSet(S), \A x \in S : f[x] \in Int, NEW y \in S
  PROVE  SumFunctionOnSet(f, S) = f[y] + SumFunctionOnSet(f, S \ {y})
  <1> DEFINE Sum(T) == SumFunctionOnSet(f, T)
             G == {T \in SUBSET S : \A x \in T : Sum(T) = f[x] + Sum(T \ {x})}
  <1>0. \A T \in SUBSET S : IsFiniteSet(T) /\ Sum(T) \in Int
    BY FS_Subset, SumInt
  <1>1. ASSUME NEW T \in SUBSET S, \A x \in T : T \ {x} \in G PROVE T \in G
    <2> SUFFICES ASSUME NEW x \in T PROVE Sum(T) = f[x] + Sum(T \ {x})
      OBVIOUS
    <2> DEFINE c == ChosenElement(T)
    <2>1. c \in T
      BY ChosenIn
    <2>2. Sum(T) = f[c] + Sum(T \ {c})
      BY <1>0, <2>1, SumRecursion
    <2>3. CASE c = x
      BY <2>2, <2>3
    <2>4. CASE c # x
      <3>1. Sum(T \ {c}) = f[x] + Sum((T \ {c}) \ {x})
        BY <1>1, <2>1, <2>4
      <3>2. Sum(T \ {x}) = f[c] + Sum((T \ {x}) \ {c})
        BY <1>1, <2>1, <2>4
      <3>3. Sum((T \ {c}) \ {x}) = Sum((T \ {x}) \ {c})
        <4>1. (T \ {c}) \ {x} = (T \ {x}) \ {c}
          OBVIOUS
        <4> QED
          BY <4>1, Zenon
      <3>4. Sum((T \ {c}) \ {x}) \in Int /\ f[c] \in Int /\ f[x] \in Int
        BY <1>0, <2>1
      <3> HIDE DEF Sum, c
      <3> QED
        BY <2>2, <3>1, <3>2, <3>3, <3>4
    <2> QED
      BY <2>3, <2>4
  <1> HIDE DEF G
  <1>2. SUBSET S \subseteq G
    BY <1>1, SubsetInduction
  <1> QED
    BY <1>2 DEF G

\* The sum is monotonic, also with something added on each side
LEMMA SumMono ==
  ASSUME NEW f, NEW g, NEW S, IsFiniteSet(S),
         \A x \in S : f[x] \in Int /\ g[x] \in Int /\ f[x] <= g[x]
  PROVE  SumFunctionOnSet(f, S) <= SumFunctionOnSet(g, S)
  <1> DEFINE SumF(T) == SumFunctionOnSet(f, T)
             SumG(T) == SumFunctionOnSet(g, T)
             G == {T \in SUBSET S : SumF(T) <= SumG(T)}
  <1>0. \A T \in SUBSET S : SumF(T) \in Int /\ SumG(T) \in Int
    BY FS_Subset, SumInt
  <1>1. ASSUME NEW T \in SUBSET S, \A x \in T : T \ {x} \in G PROVE T \in G
    <2>1. CASE T = {}
      BY <2>1, SumEmpty
    <2>2. ASSUME NEW x \in T PROVE T \in G
      <3>1. SumF(T) = f[x] + SumF(T \ {x}) /\ SumG(T) = g[x] + SumG(T \ {x})
        BY FS_Subset, SumRemove
      <3>2. SumF(T \ {x}) <= SumG(T \ {x})
        BY <1>1
      <3>3. SumF(T \ {x}) \in Int /\ SumG(T \ {x}) \in Int
        BY <1>0
      <3> HIDE DEF SumF, SumG
      <3> QED
        BY <3>1, <3>2, <3>3
    <2> QED
      BY <2>1, <2>2
  <1> HIDE DEF G
  <1>2. SUBSET S \subseteq G
    BY <1>1, SubsetInduction
  <1> QED
    BY <1>2 DEF G

LEMMA SumEqual ==
  ASSUME NEW f, NEW g, NEW S, IsFiniteSet(S),
         \A x \in S : f[x] \in Int /\ g[x] = f[x]
  PROVE  SumFunctionOnSet(g, S) = SumFunctionOnSet(f, S)
  <1>1. SumFunctionOnSet(f, S) <= SumFunctionOnSet(g, S)
    BY SumMono
  <1>2. SumFunctionOnSet(g, S) <= SumFunctionOnSet(f, S)
    BY SumMono
  <1>3. SumFunctionOnSet(f, S) \in Int /\ SumFunctionOnSet(g, S) \in Int
    BY SumInt
  <1> QED
    BY <1>1, <1>2, <1>3

LEMMA SumPlus ==
  ASSUME NEW f, NEW g, NEW h, NEW S, IsFiniteSet(S),
         \A x \in S : f[x] \in Int /\ g[x] \in Int /\ h[x] = f[x] + g[x]
  PROVE  SumFunctionOnSet(h, S) = SumFunctionOnSet(f, S) + SumFunctionOnSet(g, S)
  <1> DEFINE SumF(T) == SumFunctionOnSet(f, T)
             SumG(T) == SumFunctionOnSet(g, T)
             SumH(T) == SumFunctionOnSet(h, T)
             G == {T \in SUBSET S : SumH(T) = SumF(T) + SumG(T)}
  <1>0. \A T \in SUBSET S : SumF(T) \in Int /\ SumG(T) \in Int /\ SumH(T) \in Int
    BY FS_Subset, SumInt
  <1>1. ASSUME NEW T \in SUBSET S, \A x \in T : T \ {x} \in G PROVE T \in G
    <2>1. CASE T = {}
      BY <2>1, SumEmpty
    <2>2. ASSUME NEW x \in T PROVE T \in G
      <3>1. /\ SumF(T) = f[x] + SumF(T \ {x}) /\ SumG(T) = g[x] + SumG(T \ {x})
            /\ SumH(T) = h[x] + SumH(T \ {x})
        BY FS_Subset, SumRemove
      <3>2. SumH(T \ {x}) = SumF(T \ {x}) + SumG(T \ {x})
        BY <1>1
      <3>3. SumF(T \ {x}) \in Int /\ SumG(T \ {x}) \in Int
        BY <1>0
      <3> HIDE DEF SumF, SumG, SumH
      <3> QED
        BY <3>1, <3>2, <3>3
    <2> QED
      BY <2>1, <2>2
  <1> HIDE DEF G
  <1>2. SUBSET S \subseteq G
    BY <1>1, SubsetInduction
  <1> QED
    BY <1>2 DEF G

LEMMA SumNat ==
  ASSUME NEW f, NEW S, IsFiniteSet(S), \A x \in S : f[x] \in Nat
  PROVE  SumFunctionOnSet(f, S) \in Nat
  <1> DEFINE G == {T \in SUBSET S : SumFunctionOnSet(f, T) \in Nat}
  <1>1. ASSUME NEW T \in SUBSET S, \A x \in T : T \ {x} \in G PROVE T \in G
    <2>1. CASE T = {}
      BY <2>1, SumEmpty
    <2>2. ASSUME NEW x \in T PROVE T \in G
      <3>1. SumFunctionOnSet(f, T) = f[x] + SumFunctionOnSet(f, T \ {x})
        BY FS_Subset, SumRemove
      <3> QED
        BY <1>1, <3>1
    <2> QED
      BY <2>1, <2>2
  <1> HIDE DEF G
  <1>2. SUBSET S \subseteq G
    BY <1>1, SubsetInduction
  <1> QED
    BY <1>2 DEF G

LEMMA SumOfZeros ==
  ASSUME NEW f, NEW S, IsFiniteSet(S), \A x \in S : f[x] = 0
  PROVE  SumFunctionOnSet(f, S) = 0
  <1>1. SumFunctionOnSet(f, S) = SumFunctionOnSet(f, S) + SumFunctionOnSet(f, S)
    <2>1. \A x \in S : f[x] \in Int /\ f[x] = f[x] + f[x]
      OBVIOUS
    <2> QED
      BY <2>1, SumPlus
  <1>2. PICK n \in Int : n = SumFunctionOnSet(f, S)
    <2>1. \A x \in S : f[x] \in Int
      OBVIOUS
    <2> QED
      BY <2>1, SumInt
  <1>3. n = n + n
    BY <1>1, <1>2, Zenon
  <1>4. n = 0
    BY <1>3
  <1> QED
    BY <1>2, <1>4, Zenon

\* One value changes, and with it the sum by as much
LEMMA SumChange ==
  ASSUME NEW f, NEW g, NEW S, IsFiniteSet(S), NEW y \in S,
         \A x \in S : f[x] \in Int /\ g[x] \in Int,
         \A x \in S \ {y} : g[x] = f[x]
  PROVE  SumFunctionOnSet(g, S) = SumFunctionOnSet(f, S) + (g[y] - f[y])
  <1>1. /\ SumFunctionOnSet(f, S) = f[y] + SumFunctionOnSet(f, S \ {y})
        /\ SumFunctionOnSet(g, S) = g[y] + SumFunctionOnSet(g, S \ {y})
    BY SumRemove
  <1>2. IsFiniteSet(S \ {y})
    BY FS_Subset
  <1>3. SumFunctionOnSet(g, S \ {y}) = SumFunctionOnSet(f, S \ {y})
    BY <1>2, SumEqual
  <1>4. SumFunctionOnSet(f, S \ {y}) \in Int
    BY <1>2, SumInt
  <1> QED
    BY <1>1, <1>3, <1>4

LEMMA SumAtMostOnes ==
  ASSUME NEW f, NEW n \in Nat, \A x \in 1..n : f[x] \in {0, 1}
  PROVE  SumFunctionOnSet(f, 1..n) \in 0..n
  <1> DEFINE S == 1..n
             G == {T \in SUBSET S : SumFunctionOnSet(f, T) <= Cardinality(T)}
  <1>0. /\ IsFiniteSet(S) /\ Cardinality(S) = n
        /\ \A x \in S : f[x] \in Int /\ f[x] \in Nat /\ f[x] <= 1
    <2>1. IsFiniteSet(S) /\ Cardinality(S) = IF 1 > n THEN 0 ELSE n - 1 + 1
      BY FS_Interval
    <2> QED
      BY <2>1
  <1> SUFFICES SumFunctionOnSet(f, S) \in 0..n
    OBVIOUS
  <1> HIDE DEF S
  <1>1. ASSUME NEW T \in SUBSET S, \A x \in T : T \ {x} \in G PROVE T \in G
    <2>0. IsFiniteSet(T)
      BY <1>0, FS_Subset
    <2>1. CASE T = {}
      BY <2>1, SumEmpty, FS_EmptySet
    <2>2. ASSUME NEW x \in T PROVE T \in G
      <3>1. SumFunctionOnSet(f, T) = f[x] + SumFunctionOnSet(f, T \ {x})
        BY <1>0, <2>0, SumRemove
      <3>2. Cardinality(T \ {x}) = Cardinality(T) - 1 /\ Cardinality(T) \in Nat
        BY <2>0, FS_RemoveElement, FS_CardinalityType
      <3>3. SumFunctionOnSet(f, T \ {x}) \in Int
        BY <1>0, <2>0, FS_Subset, SumInt
      <3>4. SumFunctionOnSet(f, T \ {x}) <= Cardinality(T \ {x})
        BY <1>1
      <3> QED
        BY <1>0, <3>1, <3>2, <3>3, <3>4
    <2> QED
      BY <2>1, <2>2
  <1> HIDE DEF G
  <1>2. SUBSET S \subseteq G
    BY <1>0, <1>1, SubsetInduction
  <1>3. SumFunctionOnSet(f, S) <= n
    BY <1>0, <1>2 DEF G
  <1>4. SumFunctionOnSet(f, S) \in Nat
    BY <1>0, SumNat
  <1> QED
    BY <1>3, <1>4

\* Two functions that differ by at most one everywhere
LEMMA SumsClose ==
  ASSUME NEW n \in Nat, NEW f, NEW g,
         \A x \in 1..n : f[x] \in Int /\ g[x] \in Int /\ g[x] - f[x] \in {0, 1}
  PROVE  SumFunctionOnSet(g, 1..n) - SumFunctionOnSet(f, 1..n) \in 0..n
  <1> DEFINE h == [x \in 1..n |-> g[x] - f[x]]
  <1>1. \A x \in 1..n : /\ f[x] \in Int /\ h[x] \in Int /\ h[x] \in {0, 1}
                        /\ g[x] = f[x] + h[x]
    OBVIOUS
  <1>2. IsFiniteSet(1..n)
    BY FS_Interval
  <1> HIDE DEF h
  <1>3. SumFunctionOnSet(g, 1..n) = SumFunctionOnSet(f, 1..n) + SumFunctionOnSet(h, 1..n)
    BY <1>1, <1>2, SumPlus
  <1>4. SumFunctionOnSet(h, 1..n) \in 0..n
    BY <1>1, SumAtMostOnes
  <1>5. SumFunctionOnSet(f, 1..n) \in Int
    BY <1>1, <1>2, SumInt
  <1> QED
    BY <1>3, <1>4, <1>5

\* Fewer elements, no larger a sum
LEMMA SumSubset ==
  ASSUME NEW f, NEW S, IsFiniteSet(S), \A x \in S : f[x] \in Nat, NEW R \in SUBSET S
  PROVE  SumFunctionOnSet(f, R) <= SumFunctionOnSet(f, S)
  <1> DEFINE Sum(T) == SumFunctionOnSet(f, T)
             G == {T \in SUBSET S : \A U \in SUBSET T : Sum(U) <= Sum(T)}
  <1>0. \A T \in SUBSET S : IsFiniteSet(T) /\ Sum(T) \in Int
    BY FS_Subset, SumInt
  <1>1. ASSUME NEW T \in SUBSET S, \A x \in T : T \ {x} \in G PROVE T \in G
    <2> SUFFICES ASSUME NEW U \in SUBSET T PROVE Sum(U) <= Sum(T)
      OBVIOUS
    <2>1. CASE U = T
      BY <1>0, <2>1
    <2>2. ASSUME NEW x \in T \ U PROVE Sum(U) <= Sum(T)
      <3>1. Sum(T) = f[x] + Sum(T \ {x})
        BY <1>0, SumRemove
      <3>2. Sum(U) <= Sum(T \ {x})
        BY <1>1
      <3>3. Sum(U) \in Int /\ Sum(T \ {x}) \in Int /\ f[x] \in Nat
        BY <1>0
      <3> HIDE DEF Sum
      <3> QED
        BY <3>1, <3>2, <3>3
    <2> QED
      BY <2>1, <2>2
  <1> HIDE DEF G
  <1>2. SUBSET S \subseteq G
    BY <1>1, SubsetInduction
  <1> QED
    BY <1>2 DEF G

\* The sum is that of the elements in a part and that of the others
LEMMA SumSplit ==
  ASSUME NEW f, NEW S, IsFiniteSet(S), \A x \in S : f[x] \in Int, NEW R \in SUBSET S
  PROVE  SumFunctionOnSet(f, S) = SumFunctionOnSet(f, R) + SumFunctionOnSet(f, S \ R)
  <1> DEFINE Sum(T) == SumFunctionOnSet(f, T)
             G == {T \in SUBSET S : Sum(T) = Sum(T \cap R) + Sum(T \ R)}
  <1>0. \A T \in SUBSET S : IsFiniteSet(T) /\ Sum(T) \in Int
    BY FS_Subset, SumInt
  <1>1. ASSUME NEW T \in SUBSET S, \A x \in T : T \ {x} \in G PROVE T \in G
    <2>1. CASE T = {}
      <3>1. T \cap R = {} /\ T \ R = {}
        BY <2>1
      <3>2. Sum(T) = 0 /\ Sum(T \cap R) = 0 /\ Sum(T \ R) = 0
        BY <2>1, <3>1, SumEmpty, Zenon
      <3> QED
        BY <3>2
    <2>2. ASSUME NEW x \in T PROVE T \in G
      <3>1. Sum(T) = f[x] + Sum(T \ {x})
        BY <1>0, SumRemove
      <3>2. Sum(T \ {x}) = Sum((T \ {x}) \cap R) + Sum((T \ {x}) \ R)
        BY <1>1
      <3>3. /\ Sum((T \ {x}) \cap R) \in Int /\ Sum((T \ {x}) \ R) \in Int
            /\ Sum(T \cap R) \in Int /\ Sum(T \ R) \in Int /\ f[x] \in Int
        BY <1>0
      <3>4. CASE x \in R
        <4>1. (T \ {x}) \cap R = (T \cap R) \ {x} /\ (T \ {x}) \ R = T \ R
          BY <3>4
        <4>2. Sum((T \ {x}) \cap R) = Sum((T \cap R) \ {x}) /\ Sum((T \ {x}) \ R) = Sum(T \ R)
          BY <4>1, Zenon
        <4>3. Sum(T \cap R) = f[x] + Sum((T \cap R) \ {x})
          BY <1>0, <3>4, SumRemove
        <4> HIDE DEF Sum
        <4> QED
          BY <3>1, <3>2, <3>3, <4>2, <4>3
      <3>5. CASE x \notin R
        <4>1. (T \ {x}) \cap R = T \cap R /\ (T \ {x}) \ R = (T \ R) \ {x}
          BY <3>5
        <4>2. Sum((T \ {x}) \cap R) = Sum(T \cap R) /\ Sum((T \ {x}) \ R) = Sum((T \ R) \ {x})
          BY <4>1, Zenon
        <4>3. Sum(T \ R) = f[x] + Sum((T \ R) \ {x})
          BY <1>0, <3>5, SumRemove
        <4> HIDE DEF Sum
        <4> QED
          BY <3>1, <3>2, <3>3, <4>2, <4>3
      <3> QED
        BY <3>4, <3>5
    <2> QED
      BY <2>1, <2>2
  <1> HIDE DEF G
  <1>2. SUBSET S \subseteq G
    BY <1>1, SubsetInduction
  <1>3. Sum(S) = Sum(S \cap R) + Sum(S \ R)
    BY <1>2 DEF G
  <1>4. S \cap R = R
    OBVIOUS
  <1> QED
    BY <1>3, <1>4

\* One value is added, for a new element or to that of an old one
LEMMA SumAdd ==
  ASSUME NEW f, NEW g, NEW S, IsFiniteSet(S), NEW y, NEW d, d \in Int,
         \A x \in S : f[x] \in Int,
         \A x \in S \ {y} : g[x] = f[x],
         g[y] = IF y \in S THEN f[y] + d ELSE d
  PROVE  SumFunctionOnSet(g, S \cup {y}) = SumFunctionOnSet(f, S) + d
  <1> DEFINE T == S \cup {y}
             R == S \ {y}
  <1>1. IsFiniteSet(T) /\ IsFiniteSet(R) /\ y \in T /\ T \ {y} = R
    BY FS_AddElement, FS_Subset
  <1>2. \A x \in T : g[x] \in Int
    OBVIOUS
  <1>3. \A x \in R : f[x] \in Int /\ g[x] = f[x]
    OBVIOUS
  <1>4. SumFunctionOnSet(g, R) = SumFunctionOnSet(f, R) /\ SumFunctionOnSet(f, R) \in Int
    BY <1>1, <1>3, SumEqual, SumInt
  <1>5. SumFunctionOnSet(g, T) = g[y] + SumFunctionOnSet(g, R)
    <2>1. SumFunctionOnSet(g, T) = g[y] + SumFunctionOnSet(g, T \ {y})
      BY <1>1, <1>2, SumRemove
    <2> QED
      BY <1>1, <2>1
  <1>6. CASE y \in S
    <2>1. SumFunctionOnSet(f, S) = f[y] + SumFunctionOnSet(f, S \ {y})
      BY <1>6, SumRemove
    <2>2. f[y] \in Int
      BY <1>6
    <2> QED
      BY <1>4, <1>5, <1>6, <2>1, <2>2
  <1>7. CASE y \notin S
    <2>1. R = S
      BY <1>7
    <2>2. SumFunctionOnSet(f, R) = SumFunctionOnSet(f, S)
      BY <2>1, Zenon
    <2> QED
      BY <1>4, <1>5, <1>7, <2>2
  <1> QED
    BY <1>6, <1>7

\* One more element at the end of an interval
LEMMA SumUpTo ==
  \A m, n \in Int : \A f : m <= n /\ (\A x \in m..n : f[x] \in Int) =>
    SumFunctionOnSet(f, m..n) = f[n] + SumFunctionOnSet(f, m..(n - 1))
  <1>1. ASSUME NEW m \in Int, NEW n \in Int, NEW f, m <= n, \A x \in m..n : f[x] \in Int
        PROVE  SumFunctionOnSet(f, m..n) = f[n] + SumFunctionOnSet(f, m..(n - 1))
    <2>1. (m..n) \ {n} = m..(n - 1) /\ n \in m..n
      BY <1>1
    <2>2. PICK S, y : S = m..n /\ y = n
      OBVIOUS
    <2>3. IsFiniteSet(S) /\ y \in S /\ \A x \in S : f[x] \in Int
      BY <1>1, <2>1, <2>2, FS_Interval
    <2>4. SumFunctionOnSet(f, S) = f[y] + SumFunctionOnSet(f, S \ {y})
      BY <2>3, SumRemove
    <2> QED
      BY <2>1, <2>2, <2>4, Zenon
  <1> QED
    BY <1>1
=============================================================================
