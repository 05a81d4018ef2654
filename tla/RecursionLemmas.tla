---------------------------- MODULE RecursionLemmas ----------------------------
(***************************************************************************)
(* What recursive definitions compute, for the proofs about loops that are *)
(* modelled as recursive functions: a function that lists the turns of a   *)
(* loop exists, and a claim about all turns fails at a least one, if it    *)
(* fails at all.  Also maxima and sums over finite sets.                   *)
(***************************************************************************)
EXTENDS Integers, FiniteSetsExt, Functions, FiniteSetTheorems, WellFoundedInduction, TLAPS

-------------------------------------------------------------------------------
\* Recursion on the naturals.

\* A set of naturals has a least element.
LEMMA LeastNat ==
  ASSUME NEW T, T \subseteq Nat, T # {}
  PROVE  \E n \in T : \A m \in T : n <= m
<1> DEFINE R == {ss \in Nat \X Nat : ss[1] < ss[2]}
<1>1. R = OpToRel(<, Nat)
  BY DEF OpToRel
<1>2. IsWellFoundedOn(R, Nat)
  BY <1>1, NatLessThanWellFounded
<1>3. PICK n \in T : \A m \in T : ~ (<<m, n>> \in R)
  BY <1>2, WFMin
<1>4. \A m \in T : ~ (m < n)
  BY <1>3
<1> QED
  BY <1>3, <1>4

\* g lists what n turns of a loop over the values of S make of c.
Turns(g, S, c, step, n) ==
  g[0] = c /\ \A i \in 1 .. n : g[i-1] \in S => g[i] = step[<<g[i-1], i>>]

LEMMA Recursion ==
  ASSUME NEW S, NEW c \in S, NEW step \in [S \X Nat -> S], NEW n \in Nat
  PROVE  \E g \in [0 .. n -> S] : Turns(g, S, c, step, n)
<1> DEFINE Bad == {k \in Nat : ~ \E g \in [0 .. k -> S] : Turns(g, S, c, step, k)}
<1>1. ASSUME Bad # {}
      PROVE  FALSE
  <2>1. PICK k \in Bad : \A m \in Bad : k <= m
    BY <1>1, LeastNat
  <2>2. CASE k = 0
    <3> DEFINE g == [i \in 0 .. 0 |-> c]
    <3>1. g \in [0 .. k -> S] /\ Turns(g, S, c, step, k)
      BY <2>2 DEF Turns
    <3> QED
      BY <3>1
  <2>3. CASE k # 0
    <3>1. k \in Nat /\ k - 1 \in Nat /\ k - 1 \notin Bad /\ k \in Bad
      BY <2>1, <2>3
    <3>2. PICK g \in [0 .. k-1 -> S] : Turns(g, S, c, step, k-1)
      BY <3>1
    <3> DEFINE h == [i \in 0 .. k |-> IF i = k THEN step[<<g[k-1], k>>] ELSE g[i]]
    <3>3. k - 1 \in 0 .. k-1 /\ step[<<g[k-1], k>>] \in S
      BY <3>1
    <3>4. h \in [0 .. k -> S]
      BY <3>1, <3>3
    <3>5. h[0] = c
      BY <2>3, <3>1, <3>2 DEF Turns
    <3>6. ASSUME NEW i \in 1 .. k
          PROVE  h[i] = step[<<h[i-1], i>>]
      <4>1. i - 1 \in 0 .. k-1 /\ h[i-1] = g[i-1] /\ i \in 0 .. k
        BY <3>1
      <4>2. CASE i = k
        BY <4>1, <4>2
      <4>3. CASE i # k
        <5>1. i \in 1 .. k-1 /\ h[i] = g[i]
          BY <3>1, <4>1, <4>3
        <5> QED
          BY <3>2, <4>1, <5>1 DEF Turns
      <4> QED
        BY <4>2, <4>3
    <3> HIDE DEF h
    <3>7. Turns(h, S, c, step, k)
      BY <3>5, <3>6 DEF Turns
    <3> QED
      BY <3>1, <3>4, <3>7
  <2> QED
    BY <2>2, <2>3
<1> QED
  BY <1>1

\* They do not leave S.
LEMMA TurnsStay ==
  ASSUME NEW S, NEW c \in S, NEW step \in [S \X Nat -> S], NEW n \in Nat,
         NEW g, Turns(g, S, c, step, n)
  PROVE  \A i \in 0 .. n : g[i] \in S
<1> DEFINE Bad == {i \in 0 .. n : g[i] \notin S}
<1>1. ASSUME Bad # {}
      PROVE  FALSE
  <2>1. PICK i \in Bad : \A j \in Bad : i <= j
    <3>1. Bad \subseteq Nat
      OBVIOUS
    <3> HIDE DEF Bad
    <3> QED
      BY <1>1, <3>1, LeastNat
  <2>2. CASE i = 0
    BY <2>1, <2>2 DEF Turns
  <2>3. CASE i # 0
    <3>1. i \in 1 .. n /\ i - 1 \in 0 .. n /\ i - 1 \notin Bad
      BY <2>1, <2>3
    <3>2. g[i-1] \in S /\ i \in Nat
      BY <3>1
    <3>3. g[i] = step[<<g[i-1], i>>]
      BY <3>1, <3>2 DEF Turns
    <3> QED
      BY <3>2, <3>3
  <2> QED
    BY <2>2, <2>3
<1> QED
  BY <1>1

\* Sets that are subsets of V, and one larger than the other until V is reached.
Growing(c, V, n) ==
  /\ \A i \in 0 .. n : c[i] \in SUBSET V
  /\ \A i \in 1 .. n : c[i-1] \subseteq c[i] /\ (c[i-1] # V => c[i] # c[i-1])

\* As many of them as V has elements reach it.
LEMMA GrownUp ==
  ASSUME NEW V, IsFiniteSet(V), NEW c, Growing(c, V, Cardinality(V))
  PROVE  c[Cardinality(V)] = V
<1> DEFINE n == Cardinality(V)
           Bad == {i \in 0 .. n : c[i] # V /\ ~ Cardinality(c[i]) >= i}
<1>1. n \in Nat /\ \A i \in 0 .. n : /\ c[i] \in SUBSET V /\ IsFiniteSet(c[i])
                                     /\ Cardinality(c[i]) \in Nat
  BY FS_Subset, FS_CardinalityType DEF Growing
<1>2. \A i \in 1 .. n : c[i-1] \subseteq c[i] /\ (c[i-1] # V => c[i] # c[i-1])
  BY DEF Growing
<1> HIDE DEF n
<1>3. ASSUME Bad # {}
      PROVE  FALSE
  <2>1. PICK i \in Bad : \A k \in Bad : i <= k
    <3>1. Bad \subseteq Nat
      OBVIOUS
    <3> HIDE DEF Bad
    <3> QED
      BY <1>3, <3>1, LeastNat
  <2>2. i \in 0 .. n /\ c[i] # V /\ ~ Cardinality(c[i]) >= i
    OBVIOUS
  <2>3. 0 \in 0 .. n /\ Cardinality(c[0]) \in Nat
    BY <1>1
  <2>4. i # 0
    BY <2>2, <2>3
  <2>5. i \in 1 .. n /\ i - 1 \in 0 .. n /\ ~ (i <= i - 1)
    BY <1>1, <2>2, <2>4
  <2>6. i - 1 \notin Bad
    <3> HIDE DEF Bad
    <3> QED
      BY <2>1, <2>5
  <2>7. c[i-1] # V
    BY <1>1, <1>2, <2>2, <2>5
  <2>8. Cardinality(c[i-1]) >= i - 1
    BY <2>5, <2>6, <2>7
  <2>9. PICK e \in c[i] : e \notin c[i-1]
    BY <1>2, <2>5, <2>7
  <2> DEFINE C == c[i-1]
  <2>10. C \cup {e} \subseteq c[i] /\ IsFiniteSet(C) /\ IsFiniteSet(c[i])
    BY <1>1, <1>2, <2>5
  <2> HIDE DEF C
  <2>11. IsFiniteSet(C \cup {e}) /\ Cardinality(C \cup {e}) = Cardinality(C) + 1
    BY <2>9, <2>10, FS_AddElement DEF C
  <2>12. Cardinality(C \cup {e}) <= Cardinality(c[i])
    BY <2>10, FS_Subset
  <2>13. Cardinality(C) \in Nat /\ Cardinality(c[i]) \in Nat /\ i \in Nat
    BY <2>5, <2>10, FS_CardinalityType
  <2> QED
    BY <2>2, <2>8, <2>11, <2>12, <2>13 DEF C
<1>4. n \in 0 .. n /\ n \notin Bad
  BY <1>1, <1>3
<1>5. CASE Cardinality(c[n]) >= n
  <2>1. Cardinality(c[n]) <= n
    BY <1>1, <1>4, FS_Subset DEF n
  <2>2. Cardinality(c[n]) = Cardinality(V)
    BY <1>1, <1>4, <1>5, <2>1 DEF n
  <2> QED
    BY <1>1, <1>4, <2>2, FS_Subset DEF n
<1> QED
  BY <1>4, <1>5 DEF n

-------------------------------------------------------------------------------
\* Maxima and sums.

LEMMA MaxOf ==
  ASSUME NEW S, S \subseteq Nat, NEW x \in S, \A y \in S : y <= x
  PROVE  Max(S) = x
<1> DEFINE m == CHOOSE y \in S : \A z \in S : y >= z
<1>1. \A y \in S : x >= y
  OBVIOUS
<1>2. m \in S /\ \A y \in S : m >= y
  BY <1>1
<1>3. Max(S) = m
  BY DEF Max
<1> HIDE DEF m
<1>4. x \in Nat /\ m \in Nat /\ m <= x /\ m >= x
  BY <1>2
<1> QED
  BY <1>3, <1>4

\* The sum is what a function says that loses the value of each element that leaves.
LEMMA SumByElements ==
  ASSUME NEW S, IsFiniteSet(S), NEW f \in [S -> Nat],
         NEW sum \in [SUBSET S -> Nat], sum[{}] = 0,
         \A T \in SUBSET S : \A s \in T : sum[T] = f[s] + sum[T \ {s}]
  PROVE  SumFunction(f) = sum[S]
<1> DEFINE first(T) == CHOOSE s \in T : TRUE
           next(g, T) == IF T = {} THEN 0 ELSE f[first(T)] + g[T \ {first(T)}]
<1>1. \A T \in SUBSET S : T # {} => first(T) \in T
  OBVIOUS
<1>2. sum = [T \in SUBSET S |-> next(sum, T)]
  <2>1. \A T \in SUBSET S : sum[T] = next(sum, T)
    <3> HIDE DEF first
    <3> QED
      BY <1>1
  <2> HIDE DEF next
  <2> QED
    BY <2>1
<1>3. ASSUME NEW g, g = [T \in SUBSET S |-> next(g, T)]
      PROVE  g = sum
  <2> DEFINE Bad == {k \in Nat : \E T \in SUBSET S : k = Cardinality(T) /\ g[T] # sum[T]}
  <2>1. \A T \in SUBSET S : g[T] = next(g, T)
    BY <1>3
  <2>2. ASSUME Bad # {}
        PROVE  FALSE
    <3>1. PICK k \in Bad : \A m \in Bad : k <= m
      <4>1. Bad \subseteq Nat
        OBVIOUS
      <4> HIDE DEF Bad
      <4> QED
        BY <2>2, <4>1, LeastNat
    <3>2. PICK T \in SUBSET S : g[T] # sum[T] /\ k = Cardinality(T)
      BY <3>1
    <3> HIDE DEF first
    <3>3. T # {}
      BY <2>1, <3>2
    <3> DEFINE U == T \ {first(T)}
    <3>4. first(T) \in T /\ U \in SUBSET S
      BY <1>1, <3>3
    <3>5. Cardinality(U) = k - 1 /\ k \in Nat
      <4>1. IsFiniteSet(T) /\ k \in Nat
        BY <3>2, FS_Subset, FS_CardinalityType
      <4> QED
        BY <3>2, <3>4, <4>1, FS_RemoveElement
    <3>6. g[U] = sum[U]
      <4>1. k - 1 \in Nat
        BY <3>4, <3>5, FS_Subset, FS_CardinalityType
      <4>2. k - 1 \notin Bad
        BY <3>1, <3>5
      <4> QED
        BY <3>4, <3>5, <4>1, <4>2
    <3>7. sum[T] = f[first(T)] + sum[U] /\ g[T] = f[first(T)] + g[U]
      BY <2>1, <3>3, <3>4
    <3> QED
      BY <3>2, <3>6, <3>7
  <2>3. \A T \in SUBSET S : g[T] = sum[T]
    <3>1. \A T \in SUBSET S : Cardinality(T) \in Nat
      BY FS_Subset, FS_CardinalityType
    <3> QED
      BY <2>2, <3>1
  <2>4. g = [T \in SUBSET S |-> g[T]]
    BY <1>3
  <2> HIDE DEF next
  <2> QED
    BY <2>3, <2>4
<1> DEFINE iter == CHOOSE g : g = [T \in SUBSET S |-> next(g, T)]
<1>4. iter = sum
  <2> HIDE DEF next
  <2>1. iter = [T \in SUBSET S |-> next(iter, T)]
    BY <1>2
  <2> HIDE DEF iter
  <2> QED
    BY <1>3, <2>1
<1>5. SumFunction(f) = iter[S]
  <2>1. DOMAIN f = S
    OBVIOUS
  <2> QED
    BY <2>1 DEF SumFunction, SumFunctionOnSet, FoldFunctionOnSet, MapThenFoldSet
<1> QED
  BY <1>4, <1>5

\* If h sends each element of X to an element of S, what it sends to all of S, counted
\* element by element, is X.
LEMMA SumOfParts ==
  ASSUME NEW S, IsFiniteSet(S), NEW X, IsFiniteSet(X), NEW h \in [X -> S],
         NEW f \in [S -> Nat], \A s \in S : f[s] = Cardinality({x \in X : h[x] = s})
  PROVE  SumFunction(f) = Cardinality(X)
<1> DEFINE Part(T) == {x \in X : h[x] \in T}
           sum == [T \in SUBSET S |-> Cardinality(Part(T))]
<1>1. ASSUME NEW T \in SUBSET S, NEW s \in T
      PROVE  sum[T] = f[s] + sum[T \ {s}]
  <2> DEFINE here == {x \in X : h[x] = s}
             rest == Part(T \ {s})
  <2>1. Part(T) = here \cup rest /\ here \cap rest = {}
    OBVIOUS
  <2>2. IsFiniteSet(here) /\ IsFiniteSet(rest)
    BY FS_Subset
  <2>3. f[s] = Cardinality(here) /\ sum[T \ {s}] = Cardinality(rest)
    OBVIOUS
  <2>4. sum[T] = Cardinality(Part(T))
    OBVIOUS
  <2> HIDE DEF here, rest, sum, Part
  <2>5. Cardinality(here \cup rest) = Cardinality(here) + Cardinality(rest) - Cardinality({})
    BY <2>1, <2>2, FS_Union
  <2>6. /\ Cardinality({}) = 0 /\ Cardinality(here) \in Nat /\ Cardinality(rest) \in Nat
    BY <2>2, FS_EmptySet, FS_CardinalityType
  <2> QED
    BY <2>1, <2>3, <2>4, <2>5, <2>6
<1>2. sum[{}] = 0
  <2>1. Part({}) = {}
    OBVIOUS
  <2> QED
    BY <2>1, FS_EmptySet
<1>3. sum[S] = Cardinality(X)
  <2>1. Part(S) = X
    OBVIOUS
  <2> QED
    BY <2>1
<1>4. sum \in [SUBSET S -> Nat]
  <2>1. \A T \in SUBSET S : IsFiniteSet(Part(T))
    BY FS_Subset
  <2> HIDE DEF Part
  <2> QED
    BY <2>1, FS_CardinalityType
<1> HIDE DEF sum
<1> QED
  BY <1>1, <1>2, <1>3, <1>4, SumByElements
===============================================================================
