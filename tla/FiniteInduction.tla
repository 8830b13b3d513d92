---------------------------- MODULE FiniteInduction ----------------------------
(***************************************************************************)
(* Induction over finite sets and over intervals, the functions that       *)
(* recursion over an interval defines, and what sums over a finite set     *)
(* come to: the facts about data that the proofs of the models need.       *)
(* Induction is stated for a set P of the things that have a property: it  *)
(* follows from the well-foundedness of the strict subsets of a finite set.*)
(***************************************************************************)
EXTENDS Functions, FiniteSetTheorems, TLAPS

LEMMA SubsetInduction ==
    ASSUME NEW S, IsFiniteSet(S), NEW P,
           \A T \in SUBSET S : (\A U \in SUBSET T : U # T => U \in P) => T \in P
    PROVE  \A T \in SUBSET S : T \in P
<1> DEFINE Bad == {T \in SUBSET S : T \notin P}
           Less == StrictSubsetOrdering(S)
<1> SUFFICES ASSUME Bad # {} PROVE FALSE
  OBVIOUS
<1>1. IsWellFoundedOn(Less, SUBSET S)
  <2>1. FiniteSubsetsOf(S) = SUBSET S
    BY FS_FiniteSubsetsOfFinite
  <2>2. IsWellFoundedOn(StrictSubsetOrdering(S), FiniteSubsetsOf(S))
    BY FS_StrictSubsetOrderingWellFounded
  <2> QED BY <2>1, <2>2
<1>2. Bad \subseteq SUBSET S
  OBVIOUS
<1> HIDE DEF Bad, Less
<1>3. PICK T \in Bad : \A U \in Bad : ~(<<U, T>> \in Less)
  BY <1>1, <1>2, WFMin
<1>4. T \in SUBSET S /\ T \notin P
  BY DEF Bad
<1>5. ASSUME NEW U \in SUBSET T, U # T PROVE U \in P
  <2>1. <<U, T>> \in Less
    BY <1>4, <1>5 DEF Less, StrictSubsetOrdering
  <2>2. U \in SUBSET S
    BY <1>4
  <2> QED BY <1>3, <2>1, <2>2 DEF Bad
<1> QED BY <1>4, <1>5

LEMMA IntervalInduction ==
    ASSUME NEW n \in Nat, NEW P, 0 \in P, \A k \in 0 .. n - 1 : k \in P => k + 1 \in P
    PROVE  \A k \in 0 .. n : k \in P
<1> DEFINE Q == {T \in SUBSET (0 .. n) : \A k \in 0 .. n : T = 0 .. k => k \in P}
<1>1. IsFiniteSet(0 .. n)
  BY FS_Interval
<1>2. ASSUME NEW T \in SUBSET (0 .. n), \A U \in SUBSET T : U # T => U \in Q
      PROVE  T \in Q
  <2> SUFFICES ASSUME NEW k \in 0 .. n, T = 0 .. k PROVE k \in P
    OBVIOUS
  <2>1. CASE k = 0
    BY <2>1
  <2>2. CASE k # 0
    <3>1. k - 1 \in 0 .. n - 1 /\ k - 1 \in 0 .. n /\ (k - 1) + 1 = k
      BY <2>2
    <3>2. k \in 0 .. k /\ k \notin 0 .. k - 1 /\ 0 .. k - 1 \subseteq 0 .. k
      OBVIOUS
    <3>3. 0 .. k - 1 \in Q
      BY <1>2, <3>2
    <3> QED BY <3>1, <3>3
  <2> QED BY <2>1, <2>2
<1> HIDE DEF Q
<1>3. \A T \in SUBSET (0 .. n) : T \in Q
  BY <1>1, <1>2, SubsetInduction
<1> QED
  <2> SUFFICES ASSUME NEW k \in 0 .. n PROVE k \in P
    OBVIOUS
  <2>1. 0 .. k \in SUBSET (0 .. n)
    OBVIOUS
  <2> QED BY <1>3, <2>1 DEF Q

(* A function that is defined by recursion over an interval exists, and    *)
(* takes its values in any set that holds the first value and is closed    *)
(* under the step: the rule by which a fold preserves an invariant.        *)
Iterates(f, n, a, g) == f[0] = a /\ \A k \in 1 .. n : f[k] = g[<<k, f[k - 1]>>]

LEMMA Recursion ==
    ASSUME NEW n \in Nat, NEW X, NEW a \in X,
           NEW g, \A k \in 1 .. n, x \in X : g[<<k, x>>] \in X
    PROVE  \E f \in [0 .. n -> X] : Iterates(f, n, a, g)
<1> DEFINE Defines(f, m) ==
               f[0] = a /\ \A j \in 1 .. m : f[j] = g[<<j, f[j - 1]>>]
           P == {m \in 0 .. n : \E f \in [0 .. m -> X] : Defines(f, m)}
<1>1. 0 \in P
  <2> DEFINE f == [j \in 0 .. 0 |-> a]
  <2>1. f \in [0 .. 0 -> X] /\ Defines(f, 0)
    OBVIOUS
  <2> HIDE DEF f
  <2> QED BY <2>1
<1>2. ASSUME NEW m \in 0 .. n - 1, m \in P PROVE m + 1 \in P
  <2>1. PICK f \in [0 .. m -> X] : Defines(f, m)
    BY <1>2
  <2> DEFINE new == [j \in 0 .. m + 1 |-> IF j <= m THEN f[j] ELSE g[<<m + 1, f[m]>>]]
  <2>2. m \in Nat /\ m + 1 \in 1 .. n /\ m + 1 \in 0 .. n /\ f[m] \in X
    OBVIOUS
  <2>3. g[<<m + 1, f[m]>>] \in X
    BY <2>2
  <2>4. new \in [0 .. m + 1 -> X]
    BY <2>2, <2>3
  <2>5. new[0] = a
    BY <2>1, <2>2
  <2>6. ASSUME NEW j \in 1 .. m + 1 PROVE new[j] = g[<<j, new[j - 1]>>]
    <3>1. j \in 0 .. m + 1 /\ j - 1 \in 0 .. m /\ j - 1 \in 0 .. m + 1
      BY <2>2
    <3>2. new[j - 1] = f[j - 1]
      BY <3>1
    <3>3. CASE j <= m
      <4>1. j \in 1 .. m /\ new[j] = f[j]
        BY <3>1, <3>3
      <4> QED BY <2>1, <3>2, <4>1
    <3>4. CASE ~(j <= m)
      <4>1. j = m + 1 /\ j - 1 = m
        BY <2>2, <3>4
      <4>2. new[j] = g[<<m + 1, f[m]>>]
        BY <3>1, <3>4
      <4> HIDE DEF new
      <4> QED BY <3>2, <4>1, <4>2
    <3> QED BY <3>3, <3>4
  <2> HIDE DEF new
  <2> QED BY <2>2, <2>4, <2>5, <2>6
<1> HIDE DEF P
<1>3. \A m \in 0 .. n : m \in P
  BY <1>1, <1>2, IntervalInduction
<1>4. n \in P
  <2>1. n \in 0 .. n
    OBVIOUS
  <2> QED BY <1>3, <2>1
<1> QED BY <1>4 DEF P, Iterates

-----------------------------------------------------------------------------
(* The recursion that a sum is defined by.                                 *)
Pick(s) == CHOOSE x \in s : TRUE
Step(f, it, s) == IF s = {} THEN 0 ELSE f[Pick(s)] + it[s \ {Pick(s)}]
Iter(f, S) == CHOOSE it : it = [s \in SUBSET S |-> Step(f, it, s)]

LEMMA SumIter == ASSUME NEW f, NEW S PROVE SumFunctionOnSet(f, S) = Iter(f, S)[S]
  BY DEF SumFunctionOnSet, FoldFunctionOnSet, MapThenFoldSet, Iter, Step, Pick

LEMMA PickIn == ASSUME NEW s, s # {} PROVE Pick(s) \in s
  BY DEF Pick

\* The function exists: it is built up by the size of the subsets.
LEMMA IterValue ==
    ASSUME NEW f, NEW S, IsFiniteSet(S)
    PROVE  \A s \in SUBSET S : Iter(f, S)[s] = Step(f, Iter(f, S), s)
<1> DEFINE n == Cardinality(S)
           Small(k) == {s \in SUBSET S : Cardinality(s) <= k}
           P == {k \in 0 .. n : \E it : it = [s \in Small(k) |-> Step(f, it, s)]}
<1>0. n \in Nat
  BY FS_CardinalityType
<1>1. ASSUME NEW s \in SUBSET S
      PROVE  /\ IsFiniteSet(s) /\ Cardinality(s) \in Nat /\ Cardinality(s) <= n
             /\ s # {} => /\ s \ {Pick(s)} \in SUBSET S
                          /\ Cardinality(s \ {Pick(s)}) = Cardinality(s) - 1
  <2>1. IsFiniteSet(s) /\ Cardinality(s) <= n
    BY FS_Subset
  <2> QED BY <2>1, FS_CardinalityType, FS_RemoveElement, PickIn
<1>2. Small(n) = SUBSET S
  BY <1>1
<1>3. 0 \in P
  <2> DEFINE it == [s \in Small(0) |-> 0]
  <2>1. ASSUME NEW s \in Small(0) PROVE s = {}
    <3>1. s \in SUBSET S /\ Cardinality(s) <= 0
      OBVIOUS
    <3>2. IsFiniteSet(s) /\ Cardinality(s) \in Nat
      BY <1>1, <3>1
    <3>3. Cardinality(s) = 0
      BY <3>1, <3>2
    <3> QED BY <3>2, <3>3, FS_EmptySet
  <2>2. it = [s \in Small(0) |-> Step(f, it, s)]
    BY <2>1 DEF Step
  <2> HIDE DEF it
  <2>3. 0 \in 0 .. n
    BY <1>0
  <2> QED BY <2>2, <2>3
<1>4. ASSUME NEW k \in 0 .. n - 1, k \in P PROVE k + 1 \in P
  <2>1. PICK it : it = [s \in Small(k) |-> Step(f, it, s)]
    BY <1>4
  <2> DEFINE new == [s \in Small(k + 1) |-> Step(f, it, s)]
  <2>2. ASSUME NEW s \in Small(k + 1) PROVE Step(f, it, s) = Step(f, new, s)
    <3>1. CASE s = {}
      BY <3>1 DEF Step
    <3>2. CASE s # {}
      <4> DEFINE r == s \ {Pick(s)}
      <4>1. r \in Small(k) /\ r \in Small(k + 1)
        BY <1>0, <1>1, <3>2
      <4>2. new[r] = Step(f, it, r) /\ it[r] = Step(f, it, r)
        <5>1. new[r] = Step(f, it, r)
          BY <4>1
        <5>2. it[r] = Step(f, it, r)
          BY <2>1, <4>1
        <5> QED BY <5>1, <5>2
      <4> QED BY <3>2, <4>2 DEF Step
    <3> QED BY <3>1, <3>2
  <2>3. new = [s \in Small(k + 1) |-> Step(f, new, s)]
    BY <2>2
  <2>4. k + 1 \in 0 .. n
    BY <1>0
  <2> HIDE DEF new
  <2> QED BY <2>3, <2>4
<1> HIDE DEF P
<1>5. \A k \in 0 .. n : k \in P
  BY <1>0, <1>3, <1>4, IntervalInduction
<1>6. n \in P
  BY <1>0, <1>5
<1>7. \E it : it = [s \in SUBSET S |-> Step(f, it, s)]
  BY <1>2, <1>6 DEF P
<1>8. Iter(f, S) = [s \in SUBSET S |-> Step(f, Iter(f, S), s)]
  BY <1>7 DEF Iter
<1>9. ASSUME NEW it, it = [s \in SUBSET S |-> Step(f, it, s)]
      PROVE  \A s \in SUBSET S : it[s] = Step(f, it, s)
  BY <1>9
<1> QED BY <1>8, <1>9

\* On a smaller set the recursion takes the same values.
LEMMA IterAgree ==
    ASSUME NEW f, NEW S, IsFiniteSet(S), NEW T \in SUBSET S
    PROVE  \A s \in SUBSET T : Iter(f, S)[s] = Iter(f, T)[s]
<1> DEFINE P == {s \in SUBSET T : Iter(f, S)[s] = Iter(f, T)[s]}
<1>1. IsFiniteSet(T)
  BY FS_Subset
<1>2. ASSUME NEW s \in SUBSET T, \A u \in SUBSET s : u # s => u \in P
      PROVE  s \in P
  <2>1. /\ Iter(f, S)[s] = Step(f, Iter(f, S), s)
        /\ Iter(f, T)[s] = Step(f, Iter(f, T), s)
    <3>1. s \in SUBSET S
      OBVIOUS
    <3>2. Iter(f, S)[s] = Step(f, Iter(f, S), s)
      BY <3>1, IterValue
    <3>3. Iter(f, T)[s] = Step(f, Iter(f, T), s)
      BY <1>1, IterValue
    <3> QED BY <3>2, <3>3
  <2>2. CASE s = {}
    BY <2>1, <2>2 DEF Step
  <2>3. CASE s # {}
    <3>1. s \ {Pick(s)} \in P
      BY <1>2, <2>3, PickIn
    <3> QED BY <2>1, <2>3, <3>1 DEF Step
  <2> QED BY <2>2, <2>3
<1> HIDE DEF P
<1>3. \A s \in SUBSET T : s \in P
  BY <1>1, <1>2, SubsetInduction
<1> QED BY <1>3 DEF P

\* The sum of nothing is zero, and of something the picked value and the rest.
LEMMA SumRecursion ==
    ASSUME NEW f, NEW S, IsFiniteSet(S)
    PROVE  SumFunctionOnSet(f, S) =
             IF S = {} THEN 0
             ELSE f[Pick(S)] + SumFunctionOnSet(f, S \ {Pick(S)})
<1>1. Iter(f, S)[S] = Step(f, Iter(f, S), S)
  BY IterValue
<1>2. CASE S = {}
  BY <1>1, <1>2, SumIter DEF Step
<1>3. CASE S # {}
  <2> DEFINE R == S \ {Pick(S)}
  <2>1. Iter(f, S)[R] = Iter(f, R)[R]
    BY IterAgree
  <2>2. Iter(f, S)[S] = f[Pick(S)] + Iter(f, S)[R]
    BY <1>1, <1>3 DEF Step
  <2>3. SumFunctionOnSet(f, R) = Iter(f, R)[R] /\ SumFunctionOnSet(f, S) = Iter(f, S)[S]
    BY SumIter
  <2> QED BY <1>3, <2>1, <2>2, <2>3
<1> QED BY <1>2, <1>3

-----------------------------------------------------------------------------
\* The sum of nothing.
LEMMA SumEmpty == ASSUME NEW f PROVE SumFunctionOnSet(f, {}) = 0
  BY SumRecursion, FS_EmptySet

\* A sum of integers is an integer.
LEMMA SumInt ==
    ASSUME NEW S, IsFiniteSet(S), NEW f, \A x \in S : f[x] \in Int
    PROVE  SumFunctionOnSet(f, S) \in Int
<1> DEFINE P == {T \in SUBSET S : SumFunctionOnSet(f, T) \in Int}
<1>1. ASSUME NEW T \in SUBSET S, \A U \in SUBSET T : U # T => U \in P
      PROVE  T \in P
  <2>1. IsFiniteSet(T)
    BY FS_Subset
  <2>2. CASE T = {}
    BY <2>2, SumEmpty
  <2>3. CASE T # {}
    <3>1. Pick(T) \in T
      BY <2>3, PickIn
    <3>2. T \ {Pick(T)} \in P
      BY <1>1, <3>1
    <3>3. SumFunctionOnSet(f, T) = f[Pick(T)] + SumFunctionOnSet(f, T \ {Pick(T)})
      BY <2>1, <2>3, SumRecursion
    <3> QED BY <3>1, <3>2, <3>3
  <2> QED BY <2>2, <2>3
<1> HIDE DEF P
<1>2. \A T \in SUBSET S : T \in P
  BY <1>1, SubsetInduction
<1> QED BY <1>2 DEF P

\* Any element may be taken out first: the order of the fold does not matter.
LEMMA SumRemove ==
    ASSUME NEW S, IsFiniteSet(S), NEW f, \A x \in S : f[x] \in Int, NEW e \in S
    PROVE  SumFunctionOnSet(f, S) = f[e] + SumFunctionOnSet(f, S \ {e})
<1> DEFINE P == {T \in SUBSET S : \A x \in T :
                   SumFunctionOnSet(f, T) = f[x] + SumFunctionOnSet(f, T \ {x})}
<1>1. ASSUME NEW T \in SUBSET S, \A U \in SUBSET T : U # T => U \in P
      PROVE  T \in P
  <2> SUFFICES ASSUME NEW x \in T
               PROVE  SumFunctionOnSet(f, T) = f[x] + SumFunctionOnSet(f, T \ {x})
    OBVIOUS
  <2> DEFINE y == Pick(T)
  <2>0. y \in T
    BY PickIn
  <2> HIDE DEF y
  <2>1. IsFiniteSet(T) /\ IsFiniteSet(T \ {x}) /\ IsFiniteSet((T \ {x}) \ {y})
    <3>1. T \in SUBSET S /\ T \ {x} \in SUBSET S /\ (T \ {x}) \ {y} \in SUBSET S
      OBVIOUS
    <3> QED BY <3>1, FS_Subset
  <2>2. SumFunctionOnSet(f, T) = f[y] + SumFunctionOnSet(f, T \ {y})
    BY <2>1, SumRecursion DEF y
  <2>3. CASE x = y
    BY <2>2, <2>3
  <2>4. CASE x # y
    <3> DEFINE R == (T \ {x}) \ {y}
    <3>1. SumFunctionOnSet(f, T \ {y}) = f[x] + SumFunctionOnSet(f, R)
      <4>1. T \ {y} \in P /\ x \in T \ {y} /\ (T \ {y}) \ {x} = R
        BY <1>1, <2>0, <2>4
      <4> QED BY <4>1
    <3>2. SumFunctionOnSet(f, T \ {x}) = f[y] + SumFunctionOnSet(f, R)
      <4>1. T \ {x} \in P /\ y \in T \ {x}
        BY <1>1, <2>0, <2>4
      <4> QED BY <4>1
    <3>3. f[x] \in Int /\ f[y] \in Int /\ SumFunctionOnSet(f, R) \in Int
      <4>1. \A z \in R : f[z] \in Int
        OBVIOUS
      <4> QED BY <2>0, <2>1, <4>1, SumInt
    <3> HIDE DEF R
    <3> QED BY <2>2, <3>1, <3>2, <3>3
  <2> QED BY <2>3, <2>4
<1> HIDE DEF P
<1>2. \A T \in SUBSET S : T \in P
  BY <1>1, SubsetInduction
<1> QED BY <1>2 DEF P

\* Adding an element adds its value.
LEMMA SumAdd ==
    ASSUME NEW S, IsFiniteSet(S), NEW e, e \notin S, NEW f, \A x \in S \cup {e} : f[x] \in Int
    PROVE  SumFunctionOnSet(f, S \cup {e}) = f[e] + SumFunctionOnSet(f, S)
<1>1. IsFiniteSet(S \cup {e}) /\ (S \cup {e}) \ {e} = S /\ e \in S \cup {e}
  BY FS_AddElement
<1> QED BY <1>1, SumRemove

\* Functions that agree on the set have the same sum.
LEMMA SumSame ==
    ASSUME NEW S, IsFiniteSet(S), NEW f, NEW g, \A x \in S : f[x] = g[x]
    PROVE  SumFunctionOnSet(f, S) = SumFunctionOnSet(g, S)
<1> DEFINE P == {T \in SUBSET S : SumFunctionOnSet(f, T) = SumFunctionOnSet(g, T)}
<1>1. ASSUME NEW T \in SUBSET S, \A U \in SUBSET T : U # T => U \in P
      PROVE  T \in P
  <2>1. IsFiniteSet(T)
    BY FS_Subset
  <2>2. CASE T = {}
    BY <2>2, SumEmpty
  <2>3. CASE T # {}
    <3>1. Pick(T) \in T
      BY <2>3, PickIn
    <3>2. T \ {Pick(T)} \in P
      BY <1>1, <3>1
    <3>3. /\ SumFunctionOnSet(f, T) = f[Pick(T)] + SumFunctionOnSet(f, T \ {Pick(T)})
          /\ SumFunctionOnSet(g, T) = g[Pick(T)] + SumFunctionOnSet(g, T \ {Pick(T)})
      BY <2>1, <2>3, SumRecursion
    <3> QED BY <3>1, <3>2, <3>3
  <2> QED BY <2>2, <2>3
<1> HIDE DEF P
<1>2. \A T \in SUBSET S : T \in P
  BY <1>1, SubsetInduction
<1> QED BY <1>2 DEF P

\* Changing one value changes the sum by the difference.
LEMMA SumChange ==
    ASSUME NEW S, IsFiniteSet(S), NEW e \in S,
           NEW f, NEW g, \A x \in S : f[x] \in Int /\ g[x] \in Int,
           \A x \in S \ {e} : f[x] = g[x]
    PROVE  SumFunctionOnSet(g, S) = SumFunctionOnSet(f, S) + (g[e] - f[e])
<1>1. IsFiniteSet(S \ {e})
  BY FS_Subset
<1>2. SumFunctionOnSet(f, S \ {e}) = SumFunctionOnSet(g, S \ {e})
  BY <1>1, SumSame
<1>3. SumFunctionOnSet(f, S \ {e}) \in Int
  BY <1>1, SumInt
<1>4. /\ SumFunctionOnSet(f, S) = f[e] + SumFunctionOnSet(f, S \ {e})
      /\ SumFunctionOnSet(g, S) = g[e] + SumFunctionOnSet(g, S \ {e})
  BY SumRemove
<1> QED BY <1>2, <1>3, <1>4

\* A sum of values that are not negative is not negative, and none exceeds it.
LEMMA SumNat ==
    ASSUME NEW S, IsFiniteSet(S), NEW f, \A x \in S : f[x] \in Nat
    PROVE  /\ SumFunctionOnSet(f, S) \in Nat
           /\ \A x \in S : f[x] <= SumFunctionOnSet(f, S)
<1> DEFINE P == {T \in SUBSET S : SumFunctionOnSet(f, T) \in Nat}
<1>1. ASSUME NEW T \in SUBSET S, \A U \in SUBSET T : U # T => U \in P
      PROVE  T \in P
  <2>1. IsFiniteSet(T)
    BY FS_Subset
  <2>2. CASE T = {}
    BY <2>2, SumEmpty
  <2>3. CASE T # {}
    <3>1. Pick(T) \in T
      BY <2>3, PickIn
    <3>2. T \ {Pick(T)} \in P
      BY <1>1, <3>1
    <3>3. SumFunctionOnSet(f, T) = f[Pick(T)] + SumFunctionOnSet(f, T \ {Pick(T)})
      BY <2>1, <2>3, SumRecursion
    <3> QED BY <3>1, <3>2, <3>3
  <2> QED BY <2>2, <2>3
<1> HIDE DEF P
<1>2. \A T \in SUBSET S : T \in P
  BY <1>1, SubsetInduction
<1>3. \A T \in SUBSET S : SumFunctionOnSet(f, T) \in Nat
  BY <1>2 DEF P
<1>4. ASSUME NEW x \in S PROVE f[x] <= SumFunctionOnSet(f, S)
  <2>1. SumFunctionOnSet(f, S) = f[x] + SumFunctionOnSet(f, S \ {x})
    BY SumRemove
  <2>2. SumFunctionOnSet(f, S \ {x}) \in Nat
    BY <1>3
  <2> QED BY <2>1, <2>2
<1> QED BY <1>3, <1>4

\* A sum of larger values over more elements is not smaller.
LEMMA SumMonotone ==
    ASSUME NEW S, IsFiniteSet(S), NEW T \in SUBSET S, NEW f, NEW g,
           \A x \in S : f[x] \in Nat /\ g[x] \in Nat, \A x \in S : f[x] <= g[x]
    PROVE  SumFunctionOnSet(f, T) <= SumFunctionOnSet(g, S)
<1> DEFINE P == {U \in SUBSET S : SumFunctionOnSet(f, U \cap T) <= SumFunctionOnSet(g, U)}
<1>1. ASSUME NEW U \in SUBSET S, \A V \in SUBSET U : V # U => V \in P
      PROVE  U \in P
  <2>1. IsFiniteSet(U) /\ IsFiniteSet(U \cap T)
    <3>1. U \cap T \in SUBSET S
      OBVIOUS
    <3> QED BY <3>1, FS_Subset
  <2>2. CASE U = {}
    <3>1. SumFunctionOnSet(g, U) = 0 /\ SumFunctionOnSet(f, U \cap T) = 0
      <4>1. U \cap T = {}
        BY <2>2
      <4> QED BY <2>2, <4>1, SumEmpty
    <3> QED BY <3>1
  <2>3. ASSUME NEW e \in U PROVE U \in P
    <3> DEFINE V == U \ {e}
    <3>1. V \in P /\ V \in SUBSET S
      BY <1>1
    <3>2. SumFunctionOnSet(g, U) = g[e] + SumFunctionOnSet(g, V)
      <4>1. \A x \in U : g[x] \in Int
        OBVIOUS
      <4> QED BY <2>1, <4>1, SumRemove
    <3>3. SumFunctionOnSet(f, V \cap T) \in Nat /\ SumFunctionOnSet(g, V) \in Nat
      <4>1. V \cap T \in SUBSET S
        OBVIOUS
      <4>2. IsFiniteSet(V) /\ IsFiniteSet(V \cap T)
        BY <3>1, <4>1, FS_Subset
      <4>3. (\A x \in V \cap T : f[x] \in Nat) /\ (\A x \in V : g[x] \in Nat)
        OBVIOUS
      <4> HIDE DEF V
      <4> QED BY <4>2, <4>3, SumNat
    <3>4. CASE e \in T
      <4>1. SumFunctionOnSet(f, U \cap T) = f[e] + SumFunctionOnSet(f, V \cap T)
        <5>1. (U \cap T) \ {e} = V \cap T /\ e \in U \cap T
          BY <3>4
        <5>2. \A x \in U \cap T : f[x] \in Int
          OBVIOUS
        <5> QED BY <2>1, <5>1, <5>2, SumRemove
      <4>2. SumFunctionOnSet(f, V \cap T) <= SumFunctionOnSet(g, V)
        BY <3>1
      <4>3. f[e] \in Nat /\ g[e] \in Nat /\ f[e] <= g[e]
        OBVIOUS
      <4> QED BY <3>2, <3>3, <4>1, <4>2, <4>3
    <3>5. CASE e \notin T
      <4>1. U \cap T = V \cap T
        BY <3>5
      <4>2. SumFunctionOnSet(f, V \cap T) <= SumFunctionOnSet(g, V)
        BY <3>1
      <4>3. g[e] \in Nat
        OBVIOUS
      <4> QED BY <3>2, <3>3, <4>1, <4>2, <4>3
    <3> QED BY <3>4, <3>5
  <2> QED BY <2>2, <2>3
<1> HIDE DEF P
<1>2. \A U \in SUBSET S : U \in P
  BY <1>1, SubsetInduction
<1>3. S \in P
  BY <1>2
<1>4. S \cap T = T
  OBVIOUS
<1> QED BY <1>3, <1>4 DEF P

LEMMA SumZero ==
    ASSUME NEW S, IsFiniteSet(S), NEW f, \A x \in S : f[x] = 0
    PROVE  SumFunctionOnSet(f, S) = 0
<1> DEFINE P == {T \in SUBSET S : SumFunctionOnSet(f, T) = 0}
<1>1. ASSUME NEW T \in SUBSET S, \A U \in SUBSET T : U # T => U \in P PROVE T \in P
  <2>1. CASE T = {}
    BY <2>1, SumEmpty
  <2>2. CASE T # {}
    <3>1. PICK e \in T : TRUE
      BY <2>2
    <3>2. IsFiniteSet(T) /\ \A x \in T : f[x] \in Int
      BY FS_Subset
    <3>3. SumFunctionOnSet(f, T) = f[e] + SumFunctionOnSet(f, T \ {e})
      BY <3>1, <3>2, SumRemove
    <3>4. SumFunctionOnSet(f, T \ {e}) = 0 /\ f[e] = 0
      BY <1>1, <3>1
    <3> QED BY <3>3, <3>4
  <2> QED BY <2>1, <2>2
<1> HIDE DEF P
<1>2. S \in P
  BY <1>1, SubsetInduction
<1> QED BY <1>2 DEF P

(* Sums over disjoint sets, and sums of sums.                               *)
LEMMA SumUnion ==
    ASSUME NEW S, IsFiniteSet(S), NEW T, IsFiniteSet(T), S \cap T = {},
           NEW f, \A x \in S \cup T : f[x] \in Int
    PROVE  SumFunctionOnSet(f, S \cup T) = SumFunctionOnSet(f, S) + SumFunctionOnSet(f, T)
<1> DEFINE P == {U \in SUBSET T :
                  SumFunctionOnSet(f, S \cup U) = SumFunctionOnSet(f, S) + SumFunctionOnSet(f, U)}
<1>0. SumFunctionOnSet(f, S) \in Int
  <2>1. \A x \in S : f[x] \in Int
    OBVIOUS
  <2> QED BY <2>1, SumInt
<1>1. ASSUME NEW U \in SUBSET T, \A V \in SUBSET U : V # U => V \in P PROVE U \in P
  <2>1. CASE U = {}
    <3>1. S \cup U = S /\ SumFunctionOnSet(f, U) = 0
      BY <2>1, SumEmpty
    <3>2. SumFunctionOnSet(f, S \cup U) = SumFunctionOnSet(f, S)
      BY <3>1
    <3>3. SumFunctionOnSet(f, S \cup U) = SumFunctionOnSet(f, S) + SumFunctionOnSet(f, U)
      BY <1>0, <3>1, <3>2
    <3> QED BY <3>3
  <2>2. CASE U # {}
    <3>1. PICK e \in U : TRUE
      BY <2>2
    <3> DEFINE V == U \ {e}
    <3>2. /\ SumFunctionOnSet(f, S \cup V) = SumFunctionOnSet(f, S) + SumFunctionOnSet(f, V)
      BY <1>1, <3>1
    <3>3. IsFiniteSet(U) /\ \A x \in U : f[x] \in Int
      BY FS_Subset
    <3>4. SumFunctionOnSet(f, U) = f[e] + SumFunctionOnSet(f, V)
      BY <3>1, <3>3, SumRemove
    <3>5. IsFiniteSet(S \cup U) /\ \A x \in S \cup U : f[x] \in Int
      BY <3>3, FS_Union
    <3>6. (S \cup U) \ {e} = S \cup V /\ e \in S \cup U
      BY <3>1
    <3>7. SumFunctionOnSet(f, S \cup U) = f[e] + SumFunctionOnSet(f, (S \cup U) \ {e})
      BY <3>5, <3>6, SumRemove
    <3>8. f[e] \in Int /\ SumFunctionOnSet(f, V) \in Int
      <4>1. IsFiniteSet(V) /\ \A x \in V : f[x] \in Int
        BY <3>3, FS_Subset
      <4> QED BY <3>1, <3>3, <4>1, SumInt
    <3> HIDE DEF V
    <3>9. SumFunctionOnSet(f, S \cup U) = f[e] + SumFunctionOnSet(f, S \cup V)
      BY <3>6, <3>7
    <3>10. SumFunctionOnSet(f, S \cup U) = SumFunctionOnSet(f, S) + SumFunctionOnSet(f, U)
      BY <1>0, <3>2, <3>4, <3>8, <3>9
    <3> QED BY <3>10
  <2> QED BY <2>1, <2>2
<1> HIDE DEF P
<1>2. T \in P
  BY <1>1, SubsetInduction
<1> QED BY <1>2 DEF P

LEMMA SumPlus ==
    ASSUME NEW S, IsFiniteSet(S), NEW f, NEW g, NEW h,
           \A x \in S : f[x] \in Int /\ g[x] \in Int /\ h[x] = f[x] + g[x]
    PROVE  SumFunctionOnSet(h, S) = SumFunctionOnSet(f, S) + SumFunctionOnSet(g, S)
<1> DEFINE P == {U \in SUBSET S :
                  SumFunctionOnSet(h, U) = SumFunctionOnSet(f, U) + SumFunctionOnSet(g, U)}
<1>1. ASSUME NEW U \in SUBSET S, \A V \in SUBSET U : V # U => V \in P PROVE U \in P
  <2>1. CASE U = {}
    BY <2>1, SumEmpty
  <2>2. CASE U # {}
    <3>1. PICK e \in U : TRUE
      BY <2>2
    <3> DEFINE V == U \ {e}
    <3>2. SumFunctionOnSet(h, V) = SumFunctionOnSet(f, V) + SumFunctionOnSet(g, V)
      BY <1>1, <3>1
    <3>3. IsFiniteSet(U) /\ IsFiniteSet(V)
      BY FS_Subset
    <3>4. \A x \in U : f[x] \in Int /\ g[x] \in Int /\ h[x] \in Int /\ h[x] = f[x] + g[x]
      OBVIOUS
    <3>5. /\ SumFunctionOnSet(f, U) = f[e] + SumFunctionOnSet(f, V)
          /\ SumFunctionOnSet(g, U) = g[e] + SumFunctionOnSet(g, V)
          /\ SumFunctionOnSet(h, U) = h[e] + SumFunctionOnSet(h, V)
      BY <3>1, <3>3, <3>4, SumRemove
    <3>6. SumFunctionOnSet(f, V) \in Int /\ SumFunctionOnSet(g, V) \in Int
      <4>1. \A x \in V : f[x] \in Int /\ g[x] \in Int
        OBVIOUS
      <4> QED BY <3>3, <4>1, SumInt
    <3> HIDE DEF V
    <3>7. SumFunctionOnSet(h, U) = SumFunctionOnSet(f, U) + SumFunctionOnSet(g, U)
      BY <3>1, <3>2, <3>4, <3>5, <3>6
    <3> QED BY <3>7
  <2> QED BY <2>1, <2>2
<1> HIDE DEF P
<1>2. S \in P
  BY <1>1, SubsetInduction
<1> QED BY <1>2 DEF P
=============================================================================
