---------------------------- MODULE SumTheorems ----------------------------
(***************************************************************************)
(* Totals of amounts: how SumFunction of the module Functions changes when *)
(* a receipt is added, changed or voided, for any number of receipts.      *)
(*                                                                         *)
(* Induction is stated here over sets and not over predicates, so that no  *)
(* theorem takes an operator for a parameter: LeastNumber comes from the   *)
(* well-foundedness of Nat, NumberInduction and FiniteSetInduction from    *)
(* LeastNumber, and each use defines the set of the sizes, or of the       *)
(* subsets, for which the claim holds.                                     *)
(***************************************************************************)
EXTENDS Integers, FiniteSets, Functions, FiniteSetTheorems, WellFoundedInduction, TLAPS

\* A set of numbers that is not empty has a least one.
LEMMA LeastNumber ==
  ASSUME NEW A \in SUBSET Nat, A # {}
  PROVE  \E m \in A : \A k \in A : m <= k
<1>1. PICK m \in A : \A k \in A : <<k, m>> \notin OpToRel(<, Nat)
  BY NatLessThanWellFounded, WFMin
<1>2. \A k \in A : ~ (k < m)
  BY <1>1 DEF OpToRel
<1>3. QED BY <1>2

\* A set that holds 0 and with each number the next holds all of them.
LEMMA NumberInduction ==
  ASSUME NEW A, 0 \in A, \A n \in Nat : n \in A => n + 1 \in A
  PROVE  Nat \subseteq A
<1> SUFFICES ASSUME Nat \ A # {} PROVE FALSE
  OBVIOUS
<1>1. PICK m \in Nat \ A : \A k \in Nat \ A : m <= k
  BY LeastNumber
<1>2. m # 0 /\ m - 1 \in Nat
  BY <1>1
<1>3. m - 1 \in A
  BY <1>1, <1>2
<1>4. QED BY <1>2, <1>3

\* A family that holds the empty set, and with a part of S each larger by one, holds S.
LEMMA FiniteSetInduction ==
  ASSUME NEW S, IsFiniteSet(S), NEW A, {} \in A,
         \A T \in SUBSET S, x \in S : x \notin T /\ T \in A => T \cup {x} \in A
  PROVE  S \in A
<1> DEFINE Sizes == {n \in Nat : \A T \in SUBSET S : Cardinality(T) = n => T \in A}
<1>1. \A T \in SUBSET S : IsFiniteSet(T) /\ Cardinality(T) \in Nat
  BY FS_Subset, FS_CardinalityType
<1>2. 0 \in Sizes
  BY <1>1, FS_EmptySet
<1>3. ASSUME NEW n \in Nat, n \in Sizes PROVE n + 1 \in Sizes
  <2> SUFFICES ASSUME NEW T \in SUBSET S, Cardinality(T) = n + 1 PROVE T \in A
    OBVIOUS
  <2>1. PICK x \in T : TRUE
    BY <1>1, FS_EmptySet
  <2>2. Cardinality(T \ {x}) = n
    <3>1. Cardinality(T \ {x}) = Cardinality(T) - 1
      BY <1>1, <2>1, FS_RemoveElement
    <3>2. QED BY <3>1
  <2>3. T \ {x} \in A
    BY <1>3, <2>2
  <2>4. QED
    <3>1. T = (T \ {x}) \cup {x} OBVIOUS
    <3>2. QED BY <3>1, <2>3
<1> HIDE DEF Sizes
<1>4. Nat \subseteq Sizes
  BY <1>2, <1>3, NumberInduction
<1>5. QED BY <1>4, <1>1 DEF Sizes

\* The recursion by which SumFunctionOnSet is defined (MapThenFoldSet of Folds).
AnElement(T) == CHOOSE x \in T : TRUE

IterStep(f, g, T) == IF T = {} THEN 0 ELSE f[AnElement(T)] + g[T \ {AnElement(T)}]

Iter(f, S) == CHOOSE g : g = [T \in SUBSET S |-> IterStep(f, g, T)]

\* A sum is the value of that recursion at the whole set.
LEMMA SumIsIter ==
  ASSUME NEW f, NEW S
  PROVE  SumFunctionOnSet(f, S) = Iter(f, S)[S]
BY DEF SumFunctionOnSet, FoldFunctionOnSet, MapThenFoldSet, Iter, IterStep, AnElement

\* The element that the recursion takes is one of the set.
LEMMA ElementIn == \A T : T # {} => AnElement(T) \in T
BY DEF AnElement

\* The recursion has a solution, the larger sets from the smaller ones.
LEMMA IterExists ==
  ASSUME NEW f, NEW S, IsFiniteSet(S)
  PROVE  Iter(f, S) = [T \in SUBSET S |-> IterStep(f, Iter(f, S), T)]
<1> DEFINE Upto(n) == {T \in SUBSET S : Cardinality(T) <= n}
           Solves(g, n) == g = [T \in Upto(n) |-> IterStep(f, g, T)]
           Sizes == {n \in Nat : \E g : Solves(g, n)}
<1>1. \A T \in SUBSET S : IsFiniteSet(T) /\ Cardinality(T) \in Nat
  BY FS_Subset, FS_CardinalityType
<1>2. 0 \in Sizes
  <2>1. \A T \in Upto(0) : T = {}
    BY <1>1, FS_EmptySet
  <2> DEFINE g == [T \in Upto(0) |-> 0]
  <2>2. Solves(g, 0)
    BY <2>1 DEF IterStep
  <2> HIDE DEF Solves
  <2>3. QED BY <2>2
<1>3. ASSUME NEW n \in Nat, n \in Sizes PROVE n + 1 \in Sizes
  <2>1. PICK g : Solves(g, n)
    BY <1>3
  <2> DEFINE h == [T \in Upto(n + 1) |-> IterStep(f, g, T)]
  <2>2. \A T \in Upto(n + 1) : T # {} => T \ {AnElement(T)} \in Upto(n)
    <3> SUFFICES ASSUME NEW T \in Upto(n + 1), T # {} PROVE T \ {AnElement(T)} \in Upto(n)
      OBVIOUS
    <3>1. Cardinality(T \ {AnElement(T)}) = Cardinality(T) - 1
      BY <1>1, FS_RemoveElement, ElementIn
    <3>2. QED BY <3>1, <1>1
  <2>3. \A T \in Upto(n) : h[T] = g[T]
    <3>1. \A T \in Upto(n) : T \in Upto(n + 1)
      BY <1>1
    <3>2. QED BY <3>1, <2>1
  <2>4. \A T \in Upto(n + 1) : IterStep(f, g, T) = IterStep(f, h, T)
    BY <2>2, <2>3 DEF IterStep
  <2>5. Solves(h, n + 1)
    BY <2>4
  <2> HIDE DEF h, Solves
  <2>6. QED BY <2>5
<1> HIDE DEF Sizes
<1>4. Cardinality(S) \in Sizes
  BY <1>2, <1>3, NumberInduction, FS_CardinalityType
<1>5. Upto(Cardinality(S)) = SUBSET S
  BY FS_Subset
<1>6. \E g : g = [T \in SUBSET S |-> IterStep(f, g, T)]
  BY <1>4, <1>5 DEF Sizes
<1>7. QED BY <1>6 DEF Iter

\* One step of the recursion.
LEMMA IterUnfolds ==
  ASSUME NEW f, NEW S, IsFiniteSet(S), NEW T \in SUBSET S
  PROVE  Iter(f, S)[T] = IF T = {} THEN 0 ELSE f[AnElement(T)] + Iter(f, S)[T \ {AnElement(T)}]
<1> DEFINE g == Iter(f, S)
<1>1. g = [U \in SUBSET S |-> IterStep(f, g, U)]
  BY IterExists
<1> HIDE DEF g
<1>2. g[T] = IterStep(f, g, T)
  BY <1>1
<1>3. QED BY <1>2 DEF IterStep, g

\* The recursion does the same for two functions and domains that agree.
LEMMA IterAgrees ==
  ASSUME NEW f, NEW g, NEW S, IsFiniteSet(S), NEW R, IsFiniteSet(R),
         \A x \in S \cap R : f[x] = g[x]
  PROVE  \A T \in SUBSET (S \cap R) : Iter(f, S)[T] = Iter(g, R)[T]
<1> DEFINE Common == SUBSET (S \cap R)
           Sizes == {n \in Nat : \A T \in Common : Cardinality(T) = n => Iter(f, S)[T] = Iter(g, R)[T]}
<1>1. \A T \in Common : IsFiniteSet(T) /\ Cardinality(T) \in Nat
  BY FS_Subset, FS_CardinalityType
<1>2. 0 \in Sizes
  <2>1. {} \in SUBSET S /\ {} \in SUBSET R
    OBVIOUS
  <2>2. Iter(f, S)[{}] = 0 /\ Iter(g, R)[{}] = 0
    BY <2>1, IterUnfolds
  <2>3. \A T \in Common : Cardinality(T) = 0 => T = {}
    BY <1>1, FS_EmptySet
  <2>4. QED BY <2>2, <2>3
<1>3. ASSUME NEW n \in Nat, n \in Sizes PROVE n + 1 \in Sizes
  <2> SUFFICES ASSUME NEW T \in Common, Cardinality(T) = n + 1
               PROVE  Iter(f, S)[T] = Iter(g, R)[T]
    OBVIOUS
  <2>1. T # {}
    BY FS_EmptySet
  <2>2. AnElement(T) \in T /\ T \ {AnElement(T)} \in Common
    BY <2>1, ElementIn
  <2>3. Cardinality(T \ {AnElement(T)}) = Cardinality(T) - 1
    BY <1>1, <2>2, FS_RemoveElement
  <2>4. Iter(f, S)[T \ {AnElement(T)}] = Iter(g, R)[T \ {AnElement(T)}]
    BY <1>3, <2>2, <2>3
  <2>5. QED BY IterUnfolds, <2>1, <2>2, <2>4
<1> HIDE DEF Sizes
<1>4. Nat \subseteq Sizes
  BY <1>2, <1>3, NumberInduction
<1>5. QED BY <1>1, <1>4 DEF Sizes

\* A sum depends on the values within its set only.
LEMMA SumAgrees ==
  ASSUME NEW f, NEW g, NEW S, IsFiniteSet(S), \A x \in S : f[x] = g[x]
  PROVE  SumFunctionOnSet(f, S) = SumFunctionOnSet(g, S)
BY SumIsIter, IterAgrees

\* A sum is one of its terms, whichever CHOOSE takes, and the sum of the others.
LEMMA SumUnfolds ==
  ASSUME NEW f, NEW S, IsFiniteSet(S), S # {}
  PROVE  /\ AnElement(S) \in S
         /\ SumFunctionOnSet(f, S) = f[AnElement(S)] + SumFunctionOnSet(f, S \ {AnElement(S)})
<1> DEFINE R == S \ {AnElement(S)}
<1>1. AnElement(S) \in S
  BY ElementIn
<1>2. IsFiniteSet(R) /\ R \in SUBSET S
  BY FS_RemoveElement
<1>3. Iter(f, S)[S] = f[AnElement(S)] + Iter(f, S)[R]
  BY IterUnfolds
<1>4. Iter(f, S)[R] = Iter(f, R)[R]
  BY IterAgrees, <1>2
<1>5. QED BY <1>1, <1>3, <1>4, SumIsIter

\* Nothing adds up to 0.
LEMMA SumOfNothing ==
  ASSUME NEW f
  PROVE  SumFunctionOnSet(f, {}) = 0
<1>1. Iter(f, {}) = [T \in SUBSET {} |-> IterStep(f, Iter(f, {}), T)]
  BY IterExists, FS_EmptySet
<1>2. {} \in SUBSET {} /\ IterStep(f, Iter(f, {}), {}) = 0
  BY DEF IterStep
<1>3. QED BY <1>1, <1>2, SumIsIter

\* Integers add up to an integer.
LEMMA SumIsInt ==
  ASSUME NEW f, NEW S, IsFiniteSet(S), \A x \in S : f[x] \in Int
  PROVE  SumFunctionOnSet(f, S) \in Int
<1> DEFINE Sizes == {n \in Nat : \A T \in SUBSET S :
                       Cardinality(T) = n => SumFunctionOnSet(f, T) \in Int}
<1>1. \A T \in SUBSET S : IsFiniteSet(T) /\ Cardinality(T) \in Nat
  BY FS_Subset, FS_CardinalityType
<1>2. 0 \in Sizes
  BY <1>1, FS_EmptySet, SumOfNothing
<1>3. ASSUME NEW n \in Nat, n \in Sizes PROVE n + 1 \in Sizes
  <2> SUFFICES ASSUME NEW T \in SUBSET S, Cardinality(T) = n + 1
               PROVE  SumFunctionOnSet(f, T) \in Int
    OBVIOUS
  <2>1. T # {}
    BY FS_EmptySet
  <2>2. AnElement(T) \in T /\ SumFunctionOnSet(f, T) = f[AnElement(T)] + SumFunctionOnSet(f, T \ {AnElement(T)})
    BY <1>1, <2>1, SumUnfolds
  <2>3. Cardinality(T \ {AnElement(T)}) = Cardinality(T) - 1
    BY <1>1, <2>2, FS_RemoveElement
  <2>4. SumFunctionOnSet(f, T \ {AnElement(T)}) \in Int
    BY <1>3, <2>3
  <2>5. QED BY <2>2, <2>4
<1> HIDE DEF Sizes
<1>4. Nat \subseteq Sizes
  BY <1>2, <1>3, NumberInduction
<1>5. QED BY <1>1, <1>4 DEF Sizes

\* Any element may be taken first.
LEMMA SumTakes ==
  ASSUME NEW f, NEW S, IsFiniteSet(S), \A x \in S : f[x] \in Int, NEW e \in S
  PROVE  SumFunctionOnSet(f, S) = f[e] + SumFunctionOnSet(f, S \ {e})
<1> DEFINE Sizes == {n \in Nat : \A T \in SUBSET S : Cardinality(T) = n =>
                       \A x \in T : SumFunctionOnSet(f, T) = f[x] + SumFunctionOnSet(f, T \ {x})}
<1>1. \A T \in SUBSET S : /\ IsFiniteSet(T) /\ Cardinality(T) \in Nat
                          /\ SumFunctionOnSet(f, T) \in Int
  BY FS_Subset, FS_CardinalityType, SumIsInt
<1>2. 0 \in Sizes
  BY <1>1, FS_EmptySet
<1>3. ASSUME NEW n \in Nat, n \in Sizes PROVE n + 1 \in Sizes
  <2> SUFFICES ASSUME NEW T \in SUBSET S, Cardinality(T) = n + 1, NEW x \in T
               PROVE  SumFunctionOnSet(f, T) = f[x] + SumFunctionOnSet(f, T \ {x})
    OBVIOUS
  <2> DEFINE y == AnElement(T)
  <2>1. y \in T /\ SumFunctionOnSet(f, T) = f[y] + SumFunctionOnSet(f, T \ {y})
    BY <1>1, SumUnfolds
  <2>2. CASE x = y
    BY <2>1, <2>2
  <2>3. CASE x # y
    <3>1. Cardinality(T \ {y}) = n /\ Cardinality(T \ {x}) = n
      <4>1. Cardinality(T \ {y}) = Cardinality(T) - 1 /\ Cardinality(T \ {x}) = Cardinality(T) - 1
        BY <1>1, <2>1, FS_RemoveElement
      <4>2. QED BY <4>1
    <3> DEFINE rest == SumFunctionOnSet(f, (T \ {x}) \ {y})
    <3>2. SumFunctionOnSet(f, T \ {x}) = f[y] + rest
      BY <1>3, <2>1, <2>3, <3>1
    <3>3. SumFunctionOnSet(f, T \ {y}) = f[x] + rest
      <4>1. SumFunctionOnSet(f, T \ {y}) = f[x] + SumFunctionOnSet(f, (T \ {y}) \ {x})
        BY <1>3, <2>1, <2>3, <3>1
      <4>2. (T \ {y}) \ {x} = (T \ {x}) \ {y}
        OBVIOUS
      <4>3. QED BY <4>1, <4>2
    <3>4. f[x] \in Int /\ f[y] \in Int /\ rest \in Int
      BY <1>1, <2>1
    <3> HIDE DEF rest, y
    <3>5. QED BY <2>1, <3>2, <3>3, <3>4
  <2>4. QED BY <2>2, <2>3
<1> HIDE DEF Sizes
<1>4. Nat \subseteq Sizes
  BY <1>2, <1>3, NumberInduction
<1>5. QED BY <1>1, <1>4 DEF Sizes

\* One element more adds its value.
LEMMA SumAdds ==
  ASSUME NEW f, NEW S, IsFiniteSet(S), NEW e, e \notin S, \A x \in S \cup {e} : f[x] \in Int
  PROVE  SumFunctionOnSet(f, S \cup {e}) = f[e] + SumFunctionOnSet(f, S)
<1>1. IsFiniteSet(S \cup {e}) /\ e \in S \cup {e}
  BY FS_AddElement
<1>2. (S \cup {e}) \ {e} = S
  OBVIOUS
<1>3. QED BY <1>1, <1>2, SumTakes

-----------------------------------------------------------------------------
\* The total of a function with a finite domain.
Summable(f) == IsFiniteSet(DOMAIN f) /\ \A x \in DOMAIN f : f[x] \in Int

\* The total is an integer.
LEMMA SumInteger ==
  ASSUME NEW f, Summable(f)
  PROVE  SumFunction(f) \in Int
BY SumIsInt DEF SumFunction, Summable

\* Equal functions have equal totals.
LEMMA SumSame ==
  ASSUME NEW f, Summable(f), NEW g, DOMAIN g = DOMAIN f, \A x \in DOMAIN f : f[x] = g[x]
  PROVE  SumFunction(f) = SumFunction(g)
BY SumAgrees DEF SumFunction, Summable

\* A function of nothing has the total 0.
LEMMA SumEmpty ==
  ASSUME NEW f, DOMAIN f = {}
  PROVE  SumFunction(f) = 0
BY SumOfNothing DEF SumFunction

\* A function that grows by one element has its value more.
LEMMA SumGrown ==
  ASSUME NEW f, Summable(f), NEW g, NEW e, e \notin DOMAIN f, DOMAIN g = DOMAIN f \cup {e},
         g[e] \in Int, \A x \in DOMAIN f : g[x] = f[x]
  PROVE  SumFunction(g) = SumFunction(f) + g[e]
<1> DEFINE S == DOMAIN f
<1>1. SumFunctionOnSet(g, S \cup {e}) = g[e] + SumFunctionOnSet(g, S)
  BY SumAdds DEF Summable
<1>2. SumFunctionOnSet(g, S) = SumFunctionOnSet(f, S)
  BY SumAgrees DEF Summable
<1>3. /\ SumFunction(g) = SumFunctionOnSet(g, S \cup {e})
      /\ SumFunction(f) = SumFunctionOnSet(f, S)
  BY DEF SumFunction
<1>4. SumFunctionOnSet(f, S) \in Int
  BY SumIsInt DEF Summable
<1>5. QED BY <1>1, <1>2, <1>3, <1>4

\* A function that changes at one element changes its total by as much.
LEMMA SumChanged ==
  ASSUME NEW f, Summable(f), NEW g, DOMAIN g = DOMAIN f, NEW e \in DOMAIN f, g[e] \in Int,
         \A x \in DOMAIN f \ {e} : g[x] = f[x]
  PROVE  SumFunction(g) = SumFunction(f) - f[e] + g[e]
<1> DEFINE S == DOMAIN f
<1>1. IsFiniteSet(S) /\ IsFiniteSet(S \ {e})
  BY FS_RemoveElement DEF Summable
<1>2. /\ SumFunctionOnSet(f, S) = f[e] + SumFunctionOnSet(f, S \ {e})
      /\ SumFunctionOnSet(g, S) = g[e] + SumFunctionOnSet(g, S \ {e})
  <2>1. \A x \in S : f[x] \in Int /\ g[x] \in Int
    BY DEF Summable
  <2>2. QED BY <1>1, <2>1, SumTakes
<1>3. SumFunctionOnSet(f, S \ {e}) = SumFunctionOnSet(g, S \ {e})
  BY <1>1, SumAgrees
<1>4. SumFunctionOnSet(f, S \ {e}) \in Int /\ f[e] \in Int
  BY <1>1, SumIsInt DEF Summable
<1>5. SumFunction(f) = SumFunctionOnSet(f, S) /\ SumFunction(g) = SumFunctionOnSet(g, S)
  BY DEF SumFunction
<1>6. QED BY <1>2, <1>3, <1>4, <1>5

\* Two functions added up have the two totals together.
LEMMA SumTogether ==
  ASSUME NEW f, Summable(f), NEW g, Summable(g), DOMAIN g = DOMAIN f,
         NEW h, DOMAIN h = DOMAIN f, \A x \in DOMAIN f : h[x] = f[x] + g[x]
  PROVE  SumFunction(h) = SumFunction(f) + SumFunction(g)
<1> DEFINE S == DOMAIN f
           A == {T \in SUBSET S :
                   SumFunctionOnSet(h, T) = SumFunctionOnSet(f, T) + SumFunctionOnSet(g, T)}
<1>1. IsFiniteSet(S) /\ \A x \in S : f[x] \in Int /\ g[x] \in Int /\ h[x] \in Int /\ h[x] = f[x] + g[x]
  BY DEF Summable
<1>2. {} \in A
  BY SumOfNothing
<1>3. ASSUME NEW T \in SUBSET S, NEW x \in S, x \notin T, T \in A PROVE T \cup {x} \in A
  <2>1. IsFiniteSet(T)
    BY <1>1, FS_Subset
  <2>2. /\ SumFunctionOnSet(f, T \cup {x}) = f[x] + SumFunctionOnSet(f, T)
        /\ SumFunctionOnSet(g, T \cup {x}) = g[x] + SumFunctionOnSet(g, T)
        /\ SumFunctionOnSet(h, T \cup {x}) = h[x] + SumFunctionOnSet(h, T)
    BY <1>1, <1>3, <2>1, SumAdds
  <2>3. SumFunctionOnSet(f, T) \in Int /\ SumFunctionOnSet(g, T) \in Int
    BY <1>1, <2>1, SumIsInt
  <2>4. QED BY <1>1, <1>3, <2>2, <2>3
<1>4. S \in A
  <2> HIDE DEF A
  <2>1. QED BY <1>1, <1>2, <1>3, FiniteSetInduction
<1>5. QED BY <1>4 DEF SumFunction

\* What is nowhere greater has no greater total.
LEMMA SumAtMost ==
  ASSUME NEW f, Summable(f), NEW g, Summable(g), DOMAIN g = DOMAIN f,
         \A x \in DOMAIN f : f[x] <= g[x]
  PROVE  SumFunction(f) <= SumFunction(g)
<1> DEFINE S == DOMAIN f
           A == {T \in SUBSET S : SumFunctionOnSet(f, T) <= SumFunctionOnSet(g, T)}
<1>1. IsFiniteSet(S) /\ \A x \in S : f[x] \in Int /\ g[x] \in Int /\ f[x] <= g[x]
  BY DEF Summable
<1>2. {} \in A
  BY SumOfNothing
<1>3. ASSUME NEW T \in SUBSET S, NEW x \in S, x \notin T, T \in A PROVE T \cup {x} \in A
  <2>1. IsFiniteSet(T)
    BY <1>1, FS_Subset
  <2>2. /\ SumFunctionOnSet(f, T \cup {x}) = f[x] + SumFunctionOnSet(f, T)
        /\ SumFunctionOnSet(g, T \cup {x}) = g[x] + SumFunctionOnSet(g, T)
    BY <1>1, <1>3, <2>1, SumAdds
  <2>3. SumFunctionOnSet(f, T) \in Int /\ SumFunctionOnSet(g, T) \in Int
    BY <1>1, <2>1, SumIsInt
  <2>4. QED BY <1>1, <1>3, <2>2, <2>3
<1>4. S \in A
  <2> HIDE DEF A
  <2>1. QED BY <1>1, <1>2, <1>3, FiniteSetInduction
<1>5. QED BY <1>4 DEF SumFunction

\* Zeros add up to 0.
LEMMA SumOfZeros ==
  ASSUME NEW f, IsFiniteSet(DOMAIN f), \A x \in DOMAIN f : f[x] = 0
  PROVE  SumFunction(f) = 0
<1>1. Summable(f)
  BY DEF Summable
<1>2. SumFunction(f) = SumFunction(f) + SumFunction(f)
  BY <1>1, SumTogether
<1>3. QED BY <1>1, <1>2, SumInteger

\* Natural numbers add up to a natural number.
LEMMA SumNatural ==
  ASSUME NEW f, IsFiniteSet(DOMAIN f), \A x \in DOMAIN f : f[x] \in Nat
  PROVE  SumFunction(f) \in Nat
<1> DEFINE zeros == [x \in DOMAIN f |-> 0]
<1>1. SumFunction(zeros) = 0
  BY SumOfZeros
<1>2. Summable(f) /\ Summable(zeros)
  BY DEF Summable
<1>3. SumFunction(zeros) <= SumFunction(f)
  BY <1>2, SumAtMost
<1>4. QED BY <1>1, <1>2, <1>3, SumInteger

\* What is 0 can be left out of a total.
LEMMA SumWhole ==
  ASSUME NEW f, Summable(f), NEW g, DOMAIN g \subseteq DOMAIN f,
         \A x \in DOMAIN g : g[x] = f[x], \A x \in DOMAIN f \ DOMAIN g : f[x] = 0
  PROVE  SumFunction(g) = SumFunction(f)
<1> DEFINE S == DOMAIN f
           T == DOMAIN g
           A == {U \in SUBSET S : SumFunctionOnSet(f, U) = SumFunctionOnSet(g, U \cap T)}
<1>1. IsFiniteSet(S) /\ (\A x \in S : f[x] \in Int) /\ (\A x \in T : g[x] \in Int)
  BY DEF Summable
<1>2. {} \in A
  <2>1. {} \cap T = {}
    OBVIOUS
  <2>2. QED BY <2>1, SumOfNothing
<1>3. ASSUME NEW U \in SUBSET S, NEW x \in S, x \notin U, U \in A PROVE U \cup {x} \in A
  <2> SUFFICES SumFunctionOnSet(f, U \cup {x}) = SumFunctionOnSet(g, (U \cup {x}) \cap T)
    OBVIOUS
  <2>1. IsFiniteSet(U) /\ IsFiniteSet(U \cap T)
    BY <1>1, FS_Subset
  <2>2. SumFunctionOnSet(f, U \cup {x}) = f[x] + SumFunctionOnSet(f, U)
    BY <1>1, <1>3, <2>1, SumAdds
  <2>3. SumFunctionOnSet(f, U) = SumFunctionOnSet(g, U \cap T) /\ SumFunctionOnSet(f, U) \in Int
    BY <1>1, <1>3, <2>1, SumIsInt
  <2>4. CASE x \in T
    <3>1. (U \cup {x}) \cap T = (U \cap T) \cup {x}
      BY <2>4
    <3>2. SumFunctionOnSet(g, (U \cap T) \cup {x}) = g[x] + SumFunctionOnSet(g, U \cap T)
      BY <1>1, <1>3, <2>1, <2>4, SumAdds
    <3>3. QED BY <2>2, <2>3, <2>4, <3>1, <3>2
  <2>5. CASE x \notin T
    <3>1. (U \cup {x}) \cap T = U \cap T /\ f[x] = 0
      BY <2>5
    <3>2. SumFunctionOnSet(g, (U \cup {x}) \cap T) = SumFunctionOnSet(g, U \cap T)
      BY <3>1
    <3>3. f[x] + SumFunctionOnSet(f, U) = SumFunctionOnSet(f, U)
      BY <2>3, <3>1
    <3>4. QED BY <2>2, <2>3, <3>2, <3>3
  <2>6. QED BY <2>4, <2>5
<1>4. S \in A
  <2> HIDE DEF A
  <2>1. QED BY <1>1, <1>2, <1>3, FiniteSetInduction
<1>5. S \cap T = T
  OBVIOUS
<1>6. QED BY <1>4, <1>5 DEF SumFunction

\* The total of a function at one element is its value there.
LEMMA SumOne ==
  ASSUME NEW f, NEW e, DOMAIN f = {e}, f[e] \in Int
  PROVE  SumFunction(f) = f[e]
<1> DEFINE none == [x \in {} |-> 0]
<1>1. DOMAIN none = {}
  OBVIOUS
<1> HIDE DEF none
<1>2. Summable(none) /\ SumFunction(none) = 0
  BY <1>1, FS_EmptySet, SumEmpty DEF Summable
<1>3. SumFunction(f) = SumFunction(none) + f[e]
  BY <1>1, <1>2, SumGrown
<1>4. QED
  BY <1>2, <1>3

\* Each of natural numbers is part of their total.
LEMMA SumTerm ==
  ASSUME NEW f, IsFiniteSet(DOMAIN f), \A x \in DOMAIN f : f[x] \in Nat, NEW e \in DOMAIN f
  PROVE  f[e] <= SumFunction(f)
<1> DEFINE g == [x \in DOMAIN f |-> IF x = e THEN 0 ELSE f[x]]
<1>1. Summable(f)
  BY DEF Summable
<1>2. /\ DOMAIN g = DOMAIN f /\ g[e] = 0 /\ \A x \in DOMAIN f : g[x] \in Nat
      /\ \A x \in DOMAIN f \ {e} : g[x] = f[x]
  OBVIOUS
<1> HIDE DEF g
<1>3. SumFunction(g) = SumFunction(f) - f[e] + g[e]
  BY <1>1, <1>2, SumChanged
<1>4. SumFunction(g) \in Nat /\ SumFunction(f) \in Int /\ f[e] \in Nat
  BY <1>1, <1>2, SumNatural, SumInteger
<1>5. QED
  BY <1>2, <1>3, <1>4

\* Opposite values have opposite totals.
LEMMA SumOpposite ==
  ASSUME NEW f, Summable(f), NEW g, DOMAIN g = DOMAIN f, \A x \in DOMAIN f : g[x] = - f[x]
  PROVE  SumFunction(g) = - SumFunction(f)
<1> DEFINE h == [x \in DOMAIN f |-> 0]
<1>1. DOMAIN h = DOMAIN f /\ \A x \in DOMAIN f : h[x] = 0
  OBVIOUS
<1> HIDE DEF h
<1>2. Summable(g) /\ \A x \in DOMAIN f : h[x] = f[x] + g[x]
  BY <1>1 DEF Summable
<1>3. SumFunction(h) = SumFunction(f) + SumFunction(g) /\ SumFunction(h) = 0
  BY <1>1, <1>2, SumTogether, SumOfZeros DEF Summable
<1>4. QED
  BY <1>2, <1>3, SumInteger

\* What is nowhere greater and has the same total is the same.
LEMMA SumEqual ==
  ASSUME NEW f, Summable(f), NEW g, Summable(g), DOMAIN g = DOMAIN f,
         \A x \in DOMAIN f : f[x] <= g[x], SumFunction(f) = SumFunction(g)
  PROVE  \A x \in DOMAIN f : f[x] = g[x]
<1> DEFINE h == [x \in DOMAIN f |-> g[x] - f[x]]
<1>1. DOMAIN h = DOMAIN f /\ \A x \in DOMAIN f : h[x] = g[x] - f[x]
  OBVIOUS
<1> HIDE DEF h
<1>2. /\ \A x \in DOMAIN f : h[x] \in Nat /\ g[x] = f[x] + h[x] /\ f[x] \in Int /\ g[x] \in Int
      /\ Summable(h)
  BY <1>1 DEF Summable
<1>3. SumFunction(g) = SumFunction(f) + SumFunction(h)
  BY <1>1, <1>2, SumTogether
<1>4. SumFunction(h) = 0
  BY <1>2, <1>3, SumInteger
<1>5. \A x \in DOMAIN f : h[x] <= 0
  BY <1>1, <1>2, <1>4, SumTerm DEF Summable
<1>6. QED
  BY <1>1, <1>2, <1>5
============================================================================
