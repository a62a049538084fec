------------------------------ MODULE SumTheorems ------------------------------
(***************************************************************************)
(* What the sum of a function over a finite set is, SumFunctionOnSet of    *)
(* the module Functions: the facts that the proofs about wallets, pools    *)
(* and margins need.  The sum is a recursive function, so its recursion    *)
(* has to be shown to have a solution first; that, and each fact, goes by  *)
(* induction on the size of the set.                                       *)
(***************************************************************************)
EXTENDS Integers, Functions, FiniteSets, FiniteSetTheorems, TLAPS

\* The order of the natural numbers is well founded.
LEMMA NatOrderWellFounded == IsWellFoundedOn({ss \in Nat \X Nat : ss[1] < ss[2]}, Nat)
BY NatLessThanWellFounded, Zenon DEF OpToRel

\* Induction over the natural numbers, for a set of them.
LEMMA NatSetInduction ==
    ASSUME NEW K \in SUBSET Nat, 0 \in K, \A n \in K : n + 1 \in K
    PROVE  K = Nat
<1> DEFINE R == {ss \in Nat \X Nat : ss[1] < ss[2]}
<1> SUFFICES ASSUME K # Nat PROVE FALSE
  OBVIOUS
<1> DEFINE U == Nat \ K
<1>1. IsWellFoundedOn(R, Nat)
  BY NatOrderWellFounded
<1>2. U \subseteq Nat /\ U # {}
  OBVIOUS
<1> HIDE DEF R, U
<1>3. PICK x \in U : \A y \in U : ~(<<y, x>> \in R)
  BY <1>1, <1>2, WFMin
<1>4. x \in Nat /\ x # 0 /\ x - 1 \in Nat /\ x - 1 < x
  BY DEF U
<1>5. <<x - 1, x>> \in R
  BY <1>4 DEF R
<1>6. x - 1 \notin U
  BY <1>3, <1>5
<1> QED  BY <1>3, <1>4, <1>6 DEF U

-------------------------------------------------------------------------------
(***************************************************************************)
(* The recursion behind the sum.                                           *)
(***************************************************************************)
SumPick(s) == CHOOSE x \in s : TRUE

SumStep(f, s, g) == IF s = {} THEN 0 ELSE f[SumPick(s)] + g[s \ {SumPick(s)}]

IsSumming(f, S, g) == g = [s \in SUBSET S |-> SumStep(f, s, g)]

\* The sum is the value of a function that satisfies the recursion.
LEMMA SumIsChosen ==
    ASSUME NEW f, NEW S
    PROVE  SumFunctionOnSet(f, S) = (CHOOSE g : IsSumming(f, S, g))[S]
BY Zenon DEF SumFunctionOnSet, FoldFunctionOnSet, MapThenFoldSet, IsSumming, SumStep, SumPick

\* What is picked from a set is in it.
LEMMA SumPickIn == ASSUME NEW s, s # {} PROVE SumPick(s) \in s
BY DEF SumPick

\* The set without what was picked is one smaller.
LEMMA SumPickSmaller ==
    ASSUME NEW S, IsFiniteSet(S), NEW s \in SUBSET S, s # {}
    PROVE  /\ s \ {SumPick(s)} \in SUBSET S
           /\ Cardinality(s) \in Nat /\ Cardinality(s \ {SumPick(s)}) \in Nat
           /\ Cardinality(s \ {SumPick(s)}) = Cardinality(s) - 1
<1>1. IsFiniteSet(s) /\ SumPick(s) \in s
  BY FS_Subset, SumPickIn
<1>2. IsFiniteSet(s \ {SumPick(s)}) /\ Cardinality(s \ {SumPick(s)}) = Cardinality(s) - 1
  BY <1>1, FS_RemoveElement
<1> QED  BY <1>1, <1>2, FS_CardinalityType

\* Some function satisfies the recursion, and its values are integers.
LEMMA SummingExists ==
    ASSUME NEW S, IsFiniteSet(S), NEW f, \A x \in S : f[x] \in Int
    PROVE  \E g \in [SUBSET S -> Int] : IsSumming(f, S, g)
<1> DEFINE Small(n) == {s \in SUBSET S : Cardinality(s) <= n}
<1> DEFINE Solves(g, n) == g \in [Small(n) -> Int] /\ \A s \in Small(n) : g[s] = SumStep(f, s, g)
<1> DEFINE K == {n \in Nat : \E g : Solves(g, n)}
<1>1. 0 \in K
  <2> DEFINE g == [s \in Small(0) |-> 0]
  <2>1. \A s \in Small(0) : s = {}
    <3> SUFFICES ASSUME NEW s \in Small(0), s # {} PROVE FALSE
      OBVIOUS
    <3>1. IsFiniteSet(s) /\ Cardinality(s) \in Nat /\ Cardinality(s) <= 0
      BY FS_Subset, FS_CardinalityType
    <3> QED  BY <3>1, FS_EmptySet
  <2>2. Solves(g, 0)
    BY <2>1 DEF SumStep
  <2> QED  BY <2>2
<1>2. ASSUME NEW n \in K PROVE n + 1 \in K
  <2>1. PICK g : Solves(g, n)
    OBVIOUS
  <2> DEFINE h == [s \in Small(n + 1) |-> IF s \in Small(n) THEN g[s] ELSE SumStep(f, s, g)]
  <2>2. ASSUME NEW s \in Small(n + 1), s # {}
        PROVE  s \ {SumPick(s)} \in Small(n) /\ s \ {SumPick(s)} \in Small(n + 1)
    BY <2>2, SumPickSmaller
  <2>3. \A s \in Small(n) : s \in Small(n + 1)
    <3> SUFFICES ASSUME NEW s \in Small(n) PROVE Cardinality(s) <= n + 1
      OBVIOUS
    <3> QED  BY FS_Subset, FS_CardinalityType
  <2>4. \A s \in Small(n + 1) : SumStep(f, s, g) = SumStep(f, s, h)
    BY <2>2, <2>3 DEF SumStep
  <2>5. \A s \in Small(n + 1) : h[s] = SumStep(f, s, h)
    BY <2>1, <2>4
  <2>6. \A s \in Small(n + 1) : SumStep(f, s, g) \in Int
    BY <2>1, <2>2, SumPickIn DEF SumStep
  <2>7. h \in [Small(n + 1) -> Int]
    BY <2>1, <2>6
  <2> HIDE DEF h
  <2>8. Solves(h, n + 1)
    BY <2>5, <2>7
  <2> QED  BY <2>8
<1>3. K = Nat
  <2> HIDE DEF K
  <2>1. K \in SUBSET Nat
    BY DEF K
  <2> QED  BY <1>1, <1>2, <2>1, NatSetInduction
<1>4. Cardinality(S) \in Nat
  BY FS_CardinalityType
<1>5. PICK g : Solves(g, Cardinality(S))
  BY <1>3, <1>4
<1>6. Small(Cardinality(S)) = SUBSET S
  BY FS_Subset
<1>7. g \in [SUBSET S -> Int] /\ \A s \in SUBSET S : g[s] = SumStep(f, s, g)
  BY <1>5, <1>6
<1> QED  BY <1>7 DEF IsSumming

\* Two functions that satisfy the recursion agree where what they sum agrees.
LEMMA SummingUnique ==
    ASSUME NEW S, IsFiniteSet(S), NEW T, IsFiniteSet(T), NEW f, NEW g, NEW h, NEW k,
           IsSumming(f, S, h), IsSumming(g, T, k),
           NEW U \in SUBSET S, U \in SUBSET T, \A x \in U : f[x] = g[x]
    PROVE  h[U] = k[U]
<1> DEFINE K == {n \in Nat : \A s \in SUBSET U : Cardinality(s) <= n => h[s] = k[s]}
<1>0. \A s \in SUBSET U : h[s] = SumStep(f, s, h) /\ k[s] = SumStep(g, s, k)
  BY DEF IsSumming
<1>1. ASSUME NEW n \in Nat, NEW s \in SUBSET U, Cardinality(s) <= n, s # {},
             \A r \in SUBSET U : Cardinality(r) <= n - 1 => h[r] = k[r]
      PROVE  h[s] = k[s]
  <2>1. IsFiniteSet(U)
    BY FS_Subset
  <2>2. s \ {SumPick(s)} \in SUBSET U /\ Cardinality(s \ {SumPick(s)}) <= n - 1
    BY <1>1, <2>1, SumPickSmaller
  <2>3. h[s \ {SumPick(s)}] = k[s \ {SumPick(s)}]
    BY <1>1, <2>2
  <2>4. f[SumPick(s)] = g[SumPick(s)]
    BY <1>1, SumPickIn
  <2> QED  BY <1>0, <1>1, <2>3, <2>4 DEF SumStep
<1>2. h[{}] = k[{}]
  BY <1>0 DEF SumStep
<1>3. 0 \in K
  <2> SUFFICES ASSUME NEW s \in SUBSET U, Cardinality(s) <= 0 PROVE s = {}
    BY <1>2
  <2>1. IsFiniteSet(s)
    BY FS_Subset
  <2>2. Cardinality(s) \in Nat
    BY <2>1, FS_CardinalityType
  <2> QED  BY <2>1, <2>2, FS_EmptySet
<1>4. ASSUME NEW n \in K PROVE n + 1 \in K
  <2>1. n + 1 \in Nat /\ (n + 1) - 1 = n
    OBVIOUS
  <2> SUFFICES ASSUME NEW s \in SUBSET U, Cardinality(s) <= n + 1, s # {} PROVE h[s] = k[s]
    BY <1>2, <2>1
  <2>2. \A r \in SUBSET U : Cardinality(r) <= (n + 1) - 1 => h[r] = k[r]
    BY <2>1
  <2> HIDE DEF K
  <2> QED  BY <1>1, <2>1, <2>2
<1>5. K = Nat
  <2> HIDE DEF K
  <2>1. K \in SUBSET Nat
    BY DEF K
  <2> QED  BY <1>3, <1>4, <2>1, NatSetInduction
<1>6. Cardinality(U) \in Nat
  BY FS_Subset, FS_CardinalityType
<1>7. Cardinality(U) \in K
  BY <1>5, <1>6
<1> QED  BY <1>6, <1>7

-------------------------------------------------------------------------------
(* The facts.                                                               *)

\* The sums of f over the subsets of S, as one function.
IsSumsOf(g, f, S) ==
    /\ g \in [SUBSET S -> Int] /\ IsSumming(f, S, g)
    /\ \A U \in SUBSET S : SumFunctionOnSet(f, U) = g[U]

\* The sum is what a function that satisfies the recursion says.
LEMMA SumBySumming ==
    ASSUME NEW S, IsFiniteSet(S), NEW f, \A x \in S : f[x] \in Int
    PROVE  \E g : IsSumsOf(g, f, S)
<1>1. PICK g \in [SUBSET S -> Int] : IsSumming(f, S, g)
  BY SummingExists
<1>2. ASSUME NEW U \in SUBSET S PROVE SumFunctionOnSet(f, U) = g[U]
  <2>1. IsFiniteSet(U) /\ \A x \in U : f[x] \in Int
    BY FS_Subset
  <2>2. \E h : IsSumming(f, U, h)
    BY <2>1, SummingExists
  <2> DEFINE h == CHOOSE h : IsSumming(f, U, h)
  <2>3. IsSumming(f, U, h)
    BY <2>2
  <2>4. SumFunctionOnSet(f, U) = h[U]
    BY SumIsChosen
  <2> HIDE DEF h
  <2>5. h[U] = g[U]
    BY <1>1, <2>1, <2>3, SummingUnique
  <2> QED  BY <2>4, <2>5
<1> QED  BY <1>1, <1>2 DEF IsSumsOf

\* The sum over no index is zero.
LEMMA SumEmpty == ASSUME NEW f PROVE SumFunctionOnSet(f, {}) = 0
<1>1. IsFiniteSet({})
  BY FS_EmptySet
<1>2. PICK g : IsSumsOf(g, f, {})
  BY <1>1, SumBySumming
<1> QED  BY <1>2 DEF IsSumsOf, IsSumming, SumStep

\* The sum of integers is an integer.
LEMMA SumType ==
    ASSUME NEW S, IsFiniteSet(S), NEW f, \A x \in S : f[x] \in Int
    PROVE  SumFunctionOnSet(f, S) \in Int
<1>1. PICK g : IsSumsOf(g, f, S)
  BY SumBySumming
<1> QED  BY <1>1 DEF IsSumsOf

\* Functions that agree on the indices have the same sum.
LEMMA SumSame ==
    ASSUME NEW S, IsFiniteSet(S), NEW f, NEW g, \A x \in S : f[x] = g[x] /\ f[x] \in Int
    PROVE  SumFunctionOnSet(f, S) = SumFunctionOnSet(g, S)
<1>1. PICK h : IsSumsOf(h, f, S)
  BY SumBySumming
<1>2. PICK k : IsSumsOf(k, g, S)
  <2>1. \A x \in S : g[x] \in Int
    OBVIOUS
  <2> QED  BY <2>1, SumBySumming
<1>3. h[S] = k[S]
  BY <1>1, <1>2, SummingUnique DEF IsSumsOf
<1> QED  BY <1>1, <1>2, <1>3 DEF IsSumsOf

\* Whichever index is taken out first, the sum is its value and the sum of the rest.
LEMMA SumRemove ==
    ASSUME NEW S, IsFiniteSet(S), NEW f, \A x \in S : f[x] \in Int, NEW y \in S
    PROVE  SumFunctionOnSet(f, S) = f[y] + SumFunctionOnSet(f, S \ {y})
<1>1. PICK g : IsSumsOf(g, f, S)
  BY SumBySumming
<1> DEFINE K == {n \in Nat : \A s \in SUBSET S : Cardinality(s) <= n =>
                                \A x \in s : g[s] = f[x] + g[s \ {x}]}
<1>0. \A s \in SUBSET S : s # {} => g[s] = f[SumPick(s)] + g[s \ {SumPick(s)}]
  BY <1>1 DEF IsSumsOf, IsSumming, SumStep
<1>2. 0 \in K
  <2> SUFFICES ASSUME NEW s \in SUBSET S, Cardinality(s) <= 0 PROVE s = {}
    OBVIOUS
  <2>1. IsFiniteSet(s)
    BY FS_Subset
  <2>2. Cardinality(s) \in Nat
    BY <2>1, FS_CardinalityType
  <2> QED  BY <2>1, <2>2, FS_EmptySet
<1>3. ASSUME NEW n \in K PROVE n + 1 \in K
  <2> SUFFICES ASSUME NEW s \in SUBSET S, Cardinality(s) <= n + 1, NEW x \in s
               PROVE  g[s] = f[x] + g[s \ {x}]
    OBVIOUS
  <2> DEFINE c == SumPick(s)
  <2>1. c \in s /\ g[s] = f[c] + g[s \ {c}]
    BY <1>0, SumPickIn
  <2>2. \A z \in s : s \ {z} \in SUBSET S /\ Cardinality(s \ {z}) <= n
    <3> SUFFICES ASSUME NEW z \in s PROVE Cardinality(s \ {z}) <= n
      OBVIOUS
    <3>1. IsFiniteSet(s)
      BY FS_Subset
    <3>2. Cardinality(s) \in Nat /\ Cardinality(s \ {z}) = Cardinality(s) - 1
      BY <3>1, FS_RemoveElement, FS_CardinalityType
    <3> QED  BY <3>2
  <2> HIDE DEF c
  <2>3. CASE x = c
    BY <2>1, <2>3
  <2>4. CASE x # c
    <3>1. g[s \ {c}] = f[x] + g[(s \ {c}) \ {x}]
      BY <2>1, <2>2, <2>4
    <3>2. g[s \ {x}] = f[c] + g[(s \ {x}) \ {c}]
      BY <2>1, <2>2, <2>4
    <3>3. (s \ {c}) \ {x} = (s \ {x}) \ {c} /\ (s \ {c}) \ {x} \in SUBSET S
      OBVIOUS
    <3>4. g[(s \ {c}) \ {x}] \in Int /\ f[x] \in Int /\ f[c] \in Int
      BY <1>1, <2>1, <3>3 DEF IsSumsOf
    <3>5. g[s \ {x}] = f[c] + g[(s \ {c}) \ {x}]
      BY <3>2, <3>3
    <3> QED  BY <2>1, <3>1, <3>4, <3>5
  <2> QED  BY <2>3, <2>4
<1>4. K = Nat
  <2> HIDE DEF K
  <2>1. K \in SUBSET Nat
    BY DEF K
  <2> QED  BY <1>2, <1>3, <2>1, NatSetInduction
<1>5. Cardinality(S) \in Nat
  BY FS_CardinalityType
<1>6. Cardinality(S) \in K
  BY <1>4, <1>5
<1>7. g[S] = f[y] + g[S \ {y}]
  <2>1. S \in SUBSET S /\ Cardinality(S) <= Cardinality(S)
    BY <1>5
  <2> QED  BY <1>6, <2>1
<1> QED  BY <1>1, <1>7 DEF IsSumsOf

\* An index more adds its value.
LEMMA SumAdd ==
    ASSUME NEW S, IsFiniteSet(S), NEW y, y \notin S, NEW f, \A x \in S \cup {y} : f[x] \in Int
    PROVE  SumFunctionOnSet(f, S \cup {y}) = f[y] + SumFunctionOnSet(f, S)
<1>1. IsFiniteSet(S \cup {y}) /\ (S \cup {y}) \ {y} = S /\ y \in S \cup {y}
  BY FS_AddElement
<1> DEFINE T == S \cup {y}
<1>2. SumFunctionOnSet(f, T) = f[y] + SumFunctionOnSet(f, T \ {y})
  <2> HIDE DEF T
  <2>1. IsFiniteSet(T) /\ y \in T /\ \A x \in T : f[x] \in Int
    BY <1>1 DEF T
  <2> QED  BY <2>1, SumRemove
<1> QED  BY <1>1, <1>2

\* A change of one value changes the sum by as much.
LEMMA SumUpdate ==
    ASSUME NEW S, IsFiniteSet(S), NEW f, NEW g, NEW y \in S,
           \A x \in S : f[x] \in Int /\ g[x] \in Int,
           \A x \in S : x # y => g[x] = f[x]
    PROVE  /\ SumFunctionOnSet(f, S) \in Int
           /\ SumFunctionOnSet(g, S) = SumFunctionOnSet(f, S) - f[y] + g[y]
<1> DEFINE T == S \ {y}
<1>1. IsFiniteSet(T) /\ \A x \in T : f[x] = g[x] /\ f[x] \in Int
  BY FS_RemoveElement
<1>2. SumFunctionOnSet(f, S) = f[y] + SumFunctionOnSet(f, T)
  BY SumRemove
<1>3. SumFunctionOnSet(g, S) = g[y] + SumFunctionOnSet(g, T)
  BY SumRemove
<1> HIDE DEF T
<1>4. SumFunctionOnSet(f, T) = SumFunctionOnSet(g, T) /\ SumFunctionOnSet(f, T) \in Int
  BY <1>1, SumSame, SumType
<1> QED  BY <1>2, <1>3, <1>4

\* Induction over the subsets of a finite set, one element at a time.
LEMMA FiniteSetInduction ==
    ASSUME NEW S, IsFiniteSet(S), NEW K \in SUBSET SUBSET S, {} \in K,
           \A T \in K : \A x \in S \ T : T \cup {x} \in K
    PROVE  S \in K
<1> DEFINE M == {n \in Nat : \A T \in SUBSET S : Cardinality(T) <= n => T \in K}
<1>1. 0 \in M
  <2> SUFFICES ASSUME NEW T \in SUBSET S, Cardinality(T) <= 0 PROVE T = {}
    OBVIOUS
  <2>1. IsFiniteSet(T)
    BY FS_Subset
  <2>2. Cardinality(T) \in Nat
    BY <2>1, FS_CardinalityType
  <2> QED  BY <2>1, <2>2, FS_EmptySet
<1>2. ASSUME NEW n \in M PROVE n + 1 \in M
  <2> SUFFICES ASSUME NEW T \in SUBSET S, Cardinality(T) <= n + 1, T # {} PROVE T \in K
    OBVIOUS
  <2>1. PICK x : x \in T
    OBVIOUS
  <2>2. IsFiniteSet(T)
    BY FS_Subset
  <2>3. Cardinality(T) \in Nat /\ Cardinality(T \ {x}) = Cardinality(T) - 1
    BY <2>1, <2>2, FS_RemoveElement, FS_CardinalityType
  <2>4. T \ {x} \in SUBSET S /\ Cardinality(T \ {x}) <= n
    BY <2>3
  <2>5. T \ {x} \in K
    BY <2>4
  <2>6. x \in S \ (T \ {x}) => (T \ {x}) \cup {x} \in K
    <3> HIDE DEF M
    <3> QED  BY <2>5
  <2>7. x \in S \ (T \ {x}) /\ (T \ {x}) \cup {x} = T
    BY <2>1
  <2> HIDE DEF M
  <2> QED  BY <2>6, <2>7
<1>3. M = Nat
  <2> HIDE DEF M
  <2>1. M \in SUBSET Nat
    BY DEF M
  <2> QED  BY <1>1, <1>2, <2>1, NatSetInduction
<1>4. Cardinality(S) \in M /\ Cardinality(S) <= Cardinality(S)
  <2> HIDE DEF M
  <2> QED  BY <1>3, FS_CardinalityType
<1>5. S \in SUBSET S
  OBVIOUS
<1> QED  BY <1>4, <1>5

\* The larger summands have the larger sum.
LEMMA SumMonotone ==
    ASSUME NEW S, IsFiniteSet(S), NEW f, NEW g,
           \A x \in S : f[x] \in Int /\ g[x] \in Int /\ f[x] <= g[x]
    PROVE  SumFunctionOnSet(f, S) <= SumFunctionOnSet(g, S)
<1> DEFINE K == {T \in SUBSET S : SumFunctionOnSet(f, T) <= SumFunctionOnSet(g, T)}
<1>1. {} \in K
  BY SumEmpty
<1>2. ASSUME NEW T \in K, NEW x \in S \ T PROVE T \cup {x} \in K
  <2>1. T \in SUBSET S /\ SumFunctionOnSet(f, T) <= SumFunctionOnSet(g, T)
    OBVIOUS
  <2> HIDE DEF K
  <2>2. IsFiniteSet(T)
    BY <2>1, FS_Subset
  <2>3. SumFunctionOnSet(f, T) \in Int /\ SumFunctionOnSet(g, T) \in Int
    BY <2>1, <2>2, SumType
  <2>4. /\ SumFunctionOnSet(f, T \cup {x}) = f[x] + SumFunctionOnSet(f, T)
        /\ SumFunctionOnSet(g, T \cup {x}) = g[x] + SumFunctionOnSet(g, T)
    BY <2>1, <2>2, SumAdd
  <2>5. SumFunctionOnSet(f, T \cup {x}) <= SumFunctionOnSet(g, T \cup {x})
    BY <2>1, <2>3, <2>4
  <2> QED  BY <2>1, <2>5 DEF K
<1>3. K \in SUBSET SUBSET S
  OBVIOUS
<1> HIDE DEF K
<1>4. S \in K
  BY <1>1, <1>2, <1>3, FiniteSetInduction
<1> QED  BY <1>4 DEF K

\* The sum of zeros is zero.
LEMMA SumZero ==
    ASSUME NEW S, IsFiniteSet(S), NEW f, \A x \in S : f[x] = 0
    PROVE  SumFunctionOnSet(f, S) = 0
<1> DEFINE K == {T \in SUBSET S : SumFunctionOnSet(f, T) = 0}
<1>1. {} \in K
  BY SumEmpty
<1>2. ASSUME NEW T \in K, NEW x \in S \ T PROVE T \cup {x} \in K
  <2>1. T \in SUBSET S /\ SumFunctionOnSet(f, T) = 0
    OBVIOUS
  <2> HIDE DEF K
  <2>2. IsFiniteSet(T)
    BY <2>1, FS_Subset
  <2>3. SumFunctionOnSet(f, T \cup {x}) = f[x] + SumFunctionOnSet(f, T)
    BY <2>1, <2>2, SumAdd
  <2> QED  BY <2>1, <2>3 DEF K
<1>3. K \in SUBSET SUBSET S
  OBVIOUS
<1> HIDE DEF K
<1>4. S \in K
  BY <1>1, <1>2, <1>3, FiniteSetInduction
<1> QED  BY <1>4 DEF K

\* The sum of natural numbers is one, and is at least each of them.
LEMMA SumOfNaturals ==
    ASSUME NEW S, IsFiniteSet(S), NEW f, \A x \in S : f[x] \in Nat
    PROVE  SumFunctionOnSet(f, S) \in Nat /\ \A y \in S : f[y] <= SumFunctionOnSet(f, S)
<1>1. ASSUME NEW T \in SUBSET S PROVE SumFunctionOnSet(f, T) \in Nat
  <2> DEFINE z == [x \in S |-> 0]
  <2>1. IsFiniteSet(T)
    BY FS_Subset
  <2>2. \A x \in T : z[x] = 0 /\ z[x] \in Int /\ f[x] \in Int /\ z[x] <= f[x]
    OBVIOUS
  <2> HIDE DEF z
  <2>3. SumFunctionOnSet(z, T) = 0
    BY <2>1, <2>2, SumZero
  <2>4. SumFunctionOnSet(z, T) <= SumFunctionOnSet(f, T)
    BY <2>1, <2>2, SumMonotone
  <2>5. SumFunctionOnSet(f, T) \in Int
    BY <2>1, <2>2, SumType
  <2> QED  BY <2>3, <2>4, <2>5
<1>2. ASSUME NEW y \in S PROVE f[y] <= SumFunctionOnSet(f, S)
  <2>1. SumFunctionOnSet(f, S) = f[y] + SumFunctionOnSet(f, S \ {y})
    BY SumRemove
  <2>2. SumFunctionOnSet(f, S \ {y}) \in Nat
    BY <1>1
  <2> QED  BY <2>1, <2>2
<1> QED  BY <1>1, <1>2

\* The sum of natural numbers over fewer indices is no larger.
LEMMA SumOfFewer ==
    ASSUME NEW S, IsFiniteSet(S), NEW T \in SUBSET S, NEW f, \A x \in S : f[x] \in Nat
    PROVE  SumFunctionOnSet(f, T) <= SumFunctionOnSet(f, S)
<1> DEFINE K == {U \in SUBSET S : SumFunctionOnSet(f, U \cap T) <= SumFunctionOnSet(f, U)}
<1>1. {} \in K
  <2>1. {} \cap T = {}
    OBVIOUS
  <2> QED  BY <2>1, SumEmpty
<1>2. ASSUME NEW U \in K, NEW x \in S \ U PROVE U \cup {x} \in K
  <2>1. U \in SUBSET S /\ SumFunctionOnSet(f, U \cap T) <= SumFunctionOnSet(f, U)
    OBVIOUS
  <2> HIDE DEF K
  <2>2. IsFiniteSet(U) /\ IsFiniteSet(U \cap T)
    <3>1. U \cap T \in SUBSET S
      BY <2>1
    <3> QED  BY <2>1, <3>1, FS_Subset
  <2>3. SumFunctionOnSet(f, U) \in Int /\ SumFunctionOnSet(f, U \cap T) \in Int /\ f[x] \in Nat
    BY <2>1, <2>2, SumType
  <2>4. SumFunctionOnSet(f, U \cup {x}) = f[x] + SumFunctionOnSet(f, U)
    BY <2>1, <2>2, SumAdd
  <2>5. CASE x \in T
    <3>1. (U \cup {x}) \cap T = (U \cap T) \cup {x} /\ x \notin U \cap T
      BY <2>5
    <3>2. SumFunctionOnSet(f, (U \cap T) \cup {x}) = f[x] + SumFunctionOnSet(f, U \cap T)
      <4>1. PICK V : V = U \cap T
        OBVIOUS
      <4>2. IsFiniteSet(V) /\ x \notin V /\ \A y \in V \cup {x} : f[y] \in Int
        BY <2>1, <2>2, <2>3, <3>1, <4>1
      <4>3. SumFunctionOnSet(f, V \cup {x}) = f[x] + SumFunctionOnSet(f, V)
        BY <4>2, SumAdd
      <4> QED  BY <4>1, <4>3
    <3>3. SumFunctionOnSet(f, (U \cup {x}) \cap T) = f[x] + SumFunctionOnSet(f, U \cap T)
      BY <3>1, <3>2
    <3>4. SumFunctionOnSet(f, (U \cup {x}) \cap T) <= SumFunctionOnSet(f, U \cup {x})
      BY <2>1, <2>3, <2>4, <3>3
    <3> QED  BY <2>1, <3>4 DEF K
  <2>6. CASE x \notin T
    <3>1. (U \cup {x}) \cap T = U \cap T
      BY <2>6
    <3>2. SumFunctionOnSet(f, (U \cup {x}) \cap T) <= SumFunctionOnSet(f, U \cup {x})
      BY <2>1, <2>3, <2>4, <3>1
    <3> QED  BY <2>1, <3>2 DEF K
  <2> QED  BY <2>5, <2>6
<1>3. K \in SUBSET SUBSET S
  OBVIOUS
<1> HIDE DEF K
<1>4. S \in K
  BY <1>1, <1>2, <1>3, FiniteSetInduction
<1>5. S \cap T = T
  OBVIOUS
<1> QED  BY <1>4, <1>5 DEF K

================================================================================
