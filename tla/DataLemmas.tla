----------------------------- MODULE DataLemmas -----------------------------
(***************************************************************************)
(* Facts about numbers, sums, folds, recursion and sequences that several  *)
(* proofs need.  The library states induction and recursion for operators, *)
(* which no prover here can instantiate; these state them for sets and     *)
(* functions.  To show P(i) for every i up to n, IntervalInduction is used *)
(* with the set {i \in 0 .. n : P(i)}; that a recursive function exists    *)
(* follows from RecursionExists with the function that computes one value  *)
(* from the value before.                                                  *)
(***************************************************************************)
EXTENDS Integers, FiniteSets, FiniteSetsExt, SequencesExt,
        FiniteSetTheorems, SequenceTheorems, WellFoundedInduction, TLAPS

-----------------------------------------------------------------------------
(***************************************************************************)
(* Least and greatest elements.                                            *)
(***************************************************************************)

\* A set of natural numbers that is not empty has a least element: the
\* intervals that end in its elements are finite sets, and one of them includes
\* no other.
LEMMA LeastElement ==
    ASSUME NEW S \in SUBSET Nat, S # {}
    PROVE  \E x \in S : \A y \in S : x <= y
  <1> DEFINE T == {0 .. x : x \in S}
  <1>1. T \subseteq FiniteSubsetsOf(Nat) /\ T # {}
    <2>1. ASSUME NEW x \in S PROVE 0 .. x \in FiniteSubsetsOf(Nat)
      <3>1. IsFiniteSet(0 .. x)
        BY FS_Interval
      <3> QED
        BY <3>1 DEF FiniteSubsetsOf
    <2> QED
      BY <2>1
  <1>2. PICK t \in T : \A u \in T : ~(<<u, t>> \in StrictSubsetOrdering(Nat))
    BY <1>1, FS_StrictSubsetOrderingWellFounded, WFMin
  <1>3. PICK x \in S : t = 0 .. x
    BY <1>2
  <1>4. ASSUME NEW y \in S, y < x PROVE FALSE
    <2>1. 0 .. y \subseteq 0 .. x /\ 0 .. y # 0 .. x
      BY <1>4
    <2>2. 0 .. y \in SUBSET Nat /\ 0 .. x \in SUBSET Nat
      OBVIOUS
    <2>3. <<0 .. y, 0 .. x>> \in StrictSubsetOrdering(Nat)
      BY <2>1, <2>2 DEF StrictSubsetOrdering
    <2> QED
      BY <1>2, <1>3, <2>3
  <1> QED
    BY <1>4

LEMMA MinIsLeast ==
    ASSUME NEW S \in SUBSET Nat, S # {}
    PROVE  Min(S) \in S /\ \A y \in S : Min(S) <= y
  BY LeastElement DEF Min

\* A set of natural numbers below a bound has a greatest element: the least
\* distance from the bound is its own.
LEMMA MaxIsGreatest ==
    ASSUME NEW n \in Nat, NEW S \in SUBSET (0 .. n), S # {}
    PROVE  Max(S) \in S /\ \A y \in S : y <= Max(S)
  <1> DEFINE T == {n - x : x \in S}
  <1>1. T \in SUBSET Nat /\ T # {}
    <2>1. ASSUME NEW x \in S PROVE x \in 0 .. n /\ n - x \in Nat
      <3>1. x \in 0 .. n
        OBVIOUS
      <3> QED
        BY <3>1
    <2> QED
      BY <2>1
  <1>2. PICK t \in T : \A u \in T : t <= u
    BY <1>1, LeastElement
  <1>3. PICK x \in S : t = n - x
    BY <1>2
  <1>4. ASSUME NEW y \in S PROVE x >= y
    <2>1. n - y \in T /\ x \in 0 .. n /\ y \in 0 .. n
      OBVIOUS
    <2>2. n - x <= n - y
      BY <1>2, <1>3, <2>1
    <2> QED
      BY <2>1, <2>2
  <1>5. \E z \in S : \A y \in S : z >= y
    BY <1>4
  <1>6. Max(S) \in S /\ \A y \in S : Max(S) >= y
    BY <1>5 DEF Max
  <1> QED
    BY <1>6

LEMMA MinOfTwo ==
    ASSUME NEW a \in Int, NEW b \in Int
    PROVE  Min({a, b}) = IF a <= b THEN a ELSE b
  <1>1. \E x \in {a, b} : \A y \in {a, b} : x <= y
    OBVIOUS
  <1>2. Min({a, b}) \in {a, b} /\ \A y \in {a, b} : Min({a, b}) <= y
    BY <1>1 DEF Min
  <1> QED
    BY <1>2

LEMMA MaxOfTwo ==
    ASSUME NEW a \in Int, NEW b \in Int
    PROVE  Max({a, b}) = IF a <= b THEN b ELSE a
  <1>1. \E x \in {a, b} : \A y \in {a, b} : x >= y
    OBVIOUS
  <1>2. Max({a, b}) \in {a, b} /\ \A y \in {a, b} : Max({a, b}) >= y
    BY <1>1 DEF Max
  <1> QED
    BY <1>2

-----------------------------------------------------------------------------
(***************************************************************************)
(* Induction and recursion over an interval.                               *)
(***************************************************************************)

\* What holds of 0, and of i if it holds of i - 1, holds up to n.
LEMMA IntervalInduction ==
    ASSUME NEW n \in Nat, NEW S, 0 \in S,
           \A i \in 1 .. n : i - 1 \in S => i \in S
    PROVE  \A i \in 0 .. n : i \in S
  <1> DEFINE B == {i \in 0 .. n : i \notin S}
  <1> SUFFICES ASSUME B # {} PROVE FALSE
    OBVIOUS
  <1>1. PICK i \in B : \A j \in B : i <= j
    <2>1. B \in SUBSET Nat
      OBVIOUS
    <2> HIDE DEF B
    <2> QED
      BY <2>1, LeastElement
  <1>2. i \in 1 .. n /\ i - 1 \in 0 .. n /\ i - 1 \notin B
    BY <1>1
  <1> QED
    BY <1>1, <1>2

\* The values of a function stay in a set that each step keeps.
LEMMA RecursionStays ==
    ASSUME NEW n \in Nat, NEW V, NEW f, f[0] \in V,
           \A i \in 1 .. n : f[i - 1] \in V => f[i] \in V
    PROVE  f[n] \in V /\ \A i \in 0 .. n : f[i] \in V
  <1> DEFINE S == {i \in 0 .. n : f[i] \in V}
  <1>1. 0 \in S
    OBVIOUS
  <1>2. ASSUME NEW i \in 1 .. n, i - 1 \in S PROVE i \in S
    BY <1>2
  <1>3. \A i \in 0 .. n : i \in S
    <2> HIDE DEF S
    <2> QED
      BY <1>1, <1>2, IntervalInduction
  <1> QED
    BY <1>3

\* The function that starts with e and applies step up to n.
IsRecursion(f, n, e, step) ==
    f = [i \in 0 .. n |-> IF i = 0 THEN e ELSE step[<<i, f[i - 1]>>]]

LEMMA RecursionExists ==
    ASSUME NEW n \in Nat, NEW V, NEW e \in V, NEW step \in [(1 .. n) \X V -> V]
    PROVE  \E f \in [0 .. n -> V] : IsRecursion(f, n, e, step)
  <1> DEFINE S == {k \in 0 .. n : \E f \in [0 .. k -> V] : IsRecursion(f, k, e, step)}
  <1>1. 0 \in S
    <2> DEFINE f == [i \in 0 .. 0 |-> e]
    <2>1. f \in [0 .. 0 -> V] /\ \A i \in 0 .. 0 : i = 0
      OBVIOUS
    <2>2. f = [i \in 0 .. 0 |-> IF i = 0 THEN e ELSE step[<<i, f[i - 1]>>]]
      BY <2>1
    <2>3. IsRecursion(f, 0, e, step)
      BY <2>2 DEF IsRecursion
    <2> HIDE DEF f
    <2>4. 0 \in 0 .. n
      OBVIOUS
    <2> QED
      BY <2>1, <2>3, <2>4
  <1>2. ASSUME NEW k \in 1 .. n, k - 1 \in S PROVE k \in S
    <2>1. PICK g \in [0 .. k - 1 -> V] : IsRecursion(g, k - 1, e, step)
      BY <1>2
    <2> DEFINE f == [i \in 0 .. k |-> IF i = k THEN step[<<k, g[k - 1]>>] ELSE g[i]]
    <2>2. f \in [0 .. k -> V]
      <3>1. g[k - 1] \in V
        OBVIOUS
      <3>2. step[<<k, g[k - 1]>>] \in V
        BY <3>1
      <3> QED
        BY <3>2
    <2>3. ASSUME NEW i \in 0 .. k
          PROVE  f[i] = IF i = 0 THEN e ELSE step[<<i, f[i - 1]>>]
      <3>1. CASE i = k
        <4>1. f[i] = step[<<i, g[i - 1]>>] /\ f[i - 1] = g[i - 1] /\ i # 0
          BY <3>1
        <4> QED
          BY <4>1
      <3>2. CASE i # k
        <4>1. i \in 0 .. k - 1 /\ (i # 0 => i - 1 \in 0 .. k - 1 /\ i - 1 # k)
          BY <3>2
        <4>2. g[i] = IF i = 0 THEN e ELSE step[<<i, g[i - 1]>>]
          BY <2>1, <4>1 DEF IsRecursion
        <4>3. f[i] = g[i] /\ (i # 0 => f[i - 1] = g[i - 1])
          BY <3>2, <4>1
        <4> QED
          BY <4>2, <4>3
      <3> QED
        BY <3>1, <3>2
    <2>4. f = [i \in 0 .. k |-> IF i = 0 THEN e ELSE step[<<i, f[i - 1]>>]]
      BY <2>3
    <2>5. IsRecursion(f, k, e, step)
      BY <2>4 DEF IsRecursion
    <2> HIDE DEF f
    <2> QED
      BY <2>2, <2>5
  <1>3. n \in S
    <2> HIDE DEF S
    <2> QED
      BY <1>1, <1>2, IntervalInduction
  <1> QED
    BY <1>3

-----------------------------------------------------------------------------
(***************************************************************************)
(* The same over the subsets of a finite set, as in the folds.             *)
(***************************************************************************)

\* What holds of the empty set, and of a set if it holds of every set with one
\* element less.
LEMMA SubsetInduction ==
    ASSUME NEW S, IsFiniteSet(S), NEW P, {} \in P,
           \A T \in SUBSET S : T # {} /\ (\A x \in T : T \ {x} \in P) => T \in P
    PROVE  \A T \in SUBSET S : T \in P
  <1> DEFINE Q == {k \in 0 .. Cardinality(S) : \A T \in SUBSET S : Cardinality(T) = k => T \in P}
  <1>1. Cardinality(S) \in Nat
    BY FS_CardinalityType
  <1>2. ASSUME NEW T \in SUBSET S
        PROVE  IsFiniteSet(T) /\ Cardinality(T) \in 0 .. Cardinality(S)
    BY <1>1, FS_Subset, FS_CardinalityType
  <1>3. 0 \in Q
    <2>1. ASSUME NEW T \in SUBSET S, Cardinality(T) = 0 PROVE T \in P
      BY <1>2, <2>1, FS_EmptySet
    <2> QED
      BY <1>1, <2>1
  <1>4. ASSUME NEW k \in 1 .. Cardinality(S), k - 1 \in Q PROVE k \in Q
    <2>1. ASSUME NEW T \in SUBSET S, Cardinality(T) = k PROVE T \in P
      <3>1. T # {}
        BY <2>1, FS_EmptySet
      <3>2. ASSUME NEW x \in T PROVE T \ {x} \in P
        <4>1. T \ {x} \in SUBSET S /\ Cardinality(T \ {x}) = k - 1
          BY <1>2, <2>1, FS_RemoveElement
        <4> QED
          BY <1>4, <4>1
      <3> QED
        BY <3>1, <3>2
    <2>2. k \in 0 .. Cardinality(S)
      BY <1>1
    <2> QED
      BY <2>1, <2>2
  <1>5. \A k \in 0 .. Cardinality(S) : k \in Q
    <2> HIDE DEF Q
    <2> QED
      BY <1>1, <1>3, <1>4, IntervalInduction
  <1>6. ASSUME NEW T \in SUBSET S PROVE T \in P
    <2>1. Cardinality(T) \in Q
      BY <1>2, <1>5
    <2> QED
      BY <2>1
  <1> QED
    BY <1>6

\* The function that folds step over a set, taking out the element that choice
\* names.
IsFold(f, S, e, step, choice) ==
    f = [T \in SUBSET S |-> IF T = {} THEN e
                            ELSE step[<<choice[T], f[T \ {choice[T]}]>>]]

LEMMA FoldExists ==
    ASSUME NEW S, IsFiniteSet(S), NEW V, NEW e \in V, NEW step \in [S \X V -> V],
           NEW choice, \A T \in SUBSET S : T # {} => choice[T] \in T
    PROVE  \E f \in [SUBSET S -> V] : IsFold(f, S, e, step, choice)
  <1> DEFINE Small(k) == {T \in SUBSET S : Cardinality(T) <= k}
             Upto(f, k) == \A T \in Small(k) :
                 f[T] = IF T = {} THEN e ELSE step[<<choice[T], f[T \ {choice[T]}]>>]
             Q == {k \in 0 .. Cardinality(S) : \E f \in [SUBSET S -> V] : Upto(f, k)}
  <1>1. Cardinality(S) \in Nat
    BY FS_CardinalityType
  <1>2. ASSUME NEW T \in SUBSET S
        PROVE  IsFiniteSet(T) /\ Cardinality(T) \in 0 .. Cardinality(S)
    BY <1>1, FS_Subset, FS_CardinalityType
  <1>3. 0 \in Q
    <2> DEFINE f == [T \in SUBSET S |-> e]
    <2>1. f \in [SUBSET S -> V]
      OBVIOUS
    <2>2. ASSUME NEW T \in Small(0) PROVE T = {} /\ f[T] = e
      <3>1. Cardinality(T) = 0 /\ T \in SUBSET S /\ IsFiniteSet(T)
        BY <1>2
      <3> QED
        BY <3>1, FS_EmptySet
    <2> HIDE DEF f
    <2>3. Upto(f, 0) /\ 0 \in 0 .. Cardinality(S)
      BY <1>1, <2>2
    <2> HIDE DEF Upto
    <2> QED
      BY <2>1, <2>3
  <1>4. ASSUME NEW k \in 1 .. Cardinality(S), k - 1 \in Q PROVE k \in Q
    <2>1. PICK g \in [SUBSET S -> V] : Upto(g, k - 1)
      BY <1>4
    <2> DEFINE f == [T \in SUBSET S |-> IF Cardinality(T) = k /\ T # {}
                                        THEN step[<<choice[T], g[T \ {choice[T]}]>>] ELSE g[T]]
    <2>2. f \in [SUBSET S -> V]
      <3>1. ASSUME NEW T \in SUBSET S, T # {} PROVE step[<<choice[T], g[T \ {choice[T]}]>>] \in V
        <4>1. choice[T] \in S /\ T \ {choice[T]} \in SUBSET S
          BY <3>1
        <4>2. g[T \ {choice[T]}] \in V
          BY <4>1
        <4> QED
          BY <4>1, <4>2
      <3> QED
        BY <3>1
    <2>3. \A T \in SUBSET S : f[T] = IF Cardinality(T) = k /\ T # {}
                                     THEN step[<<choice[T], g[T \ {choice[T]}]>>] ELSE g[T]
      OBVIOUS
    <2> HIDE DEF f
    <2>4. ASSUME NEW T \in Small(k)
          PROVE  f[T] = IF T = {} THEN e ELSE step[<<choice[T], f[T \ {choice[T]}]>>]
      <3>1. CASE T = {}
        <4>1. Cardinality(T) = 0 /\ 0 <= k - 1
          BY <1>1, <3>1, FS_EmptySet
        <4>2. T \in Small(k - 1)
          BY <4>1
        <4>3. f[T] = g[T]
          BY <2>3, <3>1
        <4> QED
          BY <2>1, <3>1, <4>2, <4>3
      <3>2. CASE T # {}
        <4> DEFINE R == T \ {choice[T]}
        <4>1. R \in SUBSET S /\ Cardinality(R) = Cardinality(T) - 1
          BY <1>2, <3>2, FS_RemoveElement
        <4>2. f[R] = g[R]
          <5>1. Cardinality(R) # k
            BY <1>2, <4>1
          <5> QED
            BY <2>3, <4>1, <5>1
        <4>3. CASE Cardinality(T) = k
          BY <2>3, <3>2, <4>2, <4>3
        <4>4. CASE Cardinality(T) # k
          <5>0. Cardinality(T) <= k /\ Cardinality(T) \in Nat /\ k \in Nat
            BY <1>1, <1>2
          <5>1. T \in Small(k - 1) /\ f[T] = g[T]
            <6>1. Cardinality(T) <= k - 1
              BY <4>4, <5>0
            <6> QED
              BY <2>3, <4>4, <6>1
          <5>2. g[T] = step[<<choice[T], g[R]>>]
            BY <2>1, <3>2, <5>1
          <5> QED
            BY <3>2, <4>2, <5>1, <5>2
        <4> QED
          BY <4>3, <4>4
      <3> QED
        BY <3>1, <3>2
    <2>5. Upto(f, k)
      BY <2>4
    <2>6. k \in 0 .. Cardinality(S)
      BY <1>1
    <2> HIDE DEF Upto
    <2> QED
      BY <2>2, <2>5, <2>6
  <1>5. Cardinality(S) \in Q
    <2> HIDE DEF Q
    <2>1. \A k \in 0 .. Cardinality(S) : k \in Q
      BY <1>1, <1>3, <1>4, IntervalInduction
    <2> QED
      BY <1>1, <2>1
  <1>6. PICK f \in [SUBSET S -> V] : Upto(f, Cardinality(S))
    BY <1>5
  <1>7. SUBSET S = Small(Cardinality(S))
    BY <1>2
  <1>8. f = [T \in SUBSET S |-> IF T = {} THEN e ELSE step[<<choice[T], f[T \ {choice[T]}]>>]]
    BY <1>6, <1>7
  <1> QED
    BY <1>8 DEF IsFold

-----------------------------------------------------------------------------
(***************************************************************************)
(* Sums.                                                                   *)
(***************************************************************************)

\* The sums over the subsets of S, as SumFunctionOnSet folds them.
IsSums(it, f, S) ==
    it = [T \in SUBSET S |-> IF T = {} THEN 0
                             ELSE LET x == CHOOSE x \in T : TRUE IN f[x] + it[T \ {x}]]

LEMMA SumsExist ==
    ASSUME NEW S, IsFiniteSet(S), NEW f, \A x \in S : f[x] \in Int
    PROVE  \E it \in [SUBSET S -> Int] : IsSums(it, f, S) /\ SumFunctionOnSet(f, S) = it[S]
  <1> DEFINE first(T) == CHOOSE x \in T : TRUE
             step == [x \in S \X Int |-> f[x[1]] + x[2]]
             choice == [T \in SUBSET S |-> first(T)]
             Body(it) == it = [T \in SUBSET S |-> IF T = {} THEN 0
                                                  ELSE LET x == first(T) IN f[x] + it[T \ {x}]]
             all == CHOOSE it : Body(it)
  <1>1. step \in [S \X Int -> Int]
    OBVIOUS
  <1>2. \A T \in SUBSET S : T # {} => first(T) \in T /\ choice[T] \in T
    OBVIOUS
  <1>3. PICK it \in [SUBSET S -> Int] : IsFold(it, S, 0, step, choice)
    <2>1. 0 \in Int
      OBVIOUS
    <2> HIDE DEF step, choice, first
    <2> QED
      BY <1>1, <1>2, <2>1, FoldExists
  <1>4. Body(it)
    <2>1. ASSUME NEW T \in SUBSET S, T # {}
          PROVE  step[<<choice[T], it[T \ {choice[T]}]>>] = f[first(T)] + it[T \ {first(T)}]
      <3>1. choice[T] = first(T) /\ first(T) \in S /\ T \ {first(T)} \in SUBSET S
        BY <1>2, <2>1
      <3> HIDE DEF first, choice
      <3>2. it[T \ {first(T)}] \in Int
        BY <3>1
      <3> QED
        BY <3>1, <3>2
    <2> HIDE DEF step, choice, first
    <2> QED
      BY <1>3, <2>1 DEF IsFold
  <1>5. Body(all)
    <2> HIDE DEF Body
    <2> QED
      BY <1>4
  <1>6. SumFunctionOnSet(f, S) = all[S]
    BY DEF SumFunctionOnSet, FoldFunctionOnSet, MapThenFoldSet
  <1> HIDE DEF all, step, choice
  <1> DEFINE Good == {T \in SUBSET S : all[T] \in Int}
  <1>7. {} \in Good
    BY <1>5
  <1>8. ASSUME NEW T \in SUBSET S, T # {}, \A x \in T : T \ {x} \in Good
        PROVE  T \in Good
    <2>1. first(T) \in T /\ first(T) \in S
      BY <1>2, <1>8
    <2>2. all[T] = f[first(T)] + all[T \ {first(T)}]
      BY <1>5, <1>8
    <2> HIDE DEF Body, first
    <2>3. all[T \ {first(T)}] \in Int /\ f[first(T)] \in Int
      BY <1>8, <2>1
    <2> QED
      BY <2>2, <2>3
  <1>9. \A T \in SUBSET S : T \in Good
    <2> HIDE DEF Good, Body, first
    <2> QED
      BY <1>7, <1>8, SubsetInduction
  <1>10. IsSums(all, f, S)
    BY <1>5 DEF IsSums
  <1>11. all \in [SUBSET S -> Int]
    <2>1. all = [T \in SUBSET S |-> all[T]]
      BY <1>5
    <2> HIDE DEF Body
    <2> QED
      BY <1>9, <2>1
  <1> QED
    BY <1>6, <1>10, <1>11

\* The sum over a set does not depend on the set it is taken from.
LEMMA SumsAgree ==
    ASSUME NEW S, IsFiniteSet(S), NEW f, NEW it, IsSums(it, f, S),
           NEW S2 \in SUBSET S, NEW it2, IsSums(it2, f, S2)
    PROVE  \A T \in SUBSET S2 : it2[T] = it[T]
  <1> DEFINE Good == {T \in SUBSET S2 : it2[T] = it[T]}
             first(T) == CHOOSE x \in T : TRUE
  <1>1. {} \in Good
    BY DEF IsSums
  <1>2. ASSUME NEW T \in SUBSET S2, T # {}, \A x \in T : T \ {x} \in Good
        PROVE  T \in Good
    <2>1. first(T) \in T
      BY <1>2
    <2>2. it2[T \ {first(T)}] = it[T \ {first(T)}]
      BY <1>2, <2>1
    <2>3. it2[T] = f[first(T)] + it2[T \ {first(T)}]
      BY <1>2 DEF IsSums
    <2>4. it[T] = f[first(T)] + it[T \ {first(T)}]
      BY <1>2 DEF IsSums
    <2> QED
      BY <2>2, <2>3, <2>4
  <1>3. IsFiniteSet(S2)
    BY FS_Subset
  <1>4. \A T \in SUBSET S2 : T \in Good
    <2> HIDE DEF Good
    <2> QED
      BY <1>1, <1>2, <1>3, SubsetInduction
  <1> QED
    BY <1>4

\* Taking one element out, whichever it is.
LEMMA SumRemove ==
    ASSUME NEW S, IsFiniteSet(S), NEW f, \A x \in S : f[x] \in Int
    PROVE  /\ SumFunctionOnSet(f, S) \in Int
           /\ S = {} => SumFunctionOnSet(f, S) = 0
           /\ \A x \in S : /\ SumFunctionOnSet(f, S \ {x}) \in Int
                            /\ SumFunctionOnSet(f, S) = f[x] + SumFunctionOnSet(f, S \ {x})
  <1> DEFINE first(T) == CHOOSE x \in T : TRUE
  <1>1. PICK it \in [SUBSET S -> Int] : IsSums(it, f, S) /\ SumFunctionOnSet(f, S) = it[S]
    BY SumsExist
  <1>2. ASSUME NEW T \in SUBSET S PROVE SumFunctionOnSet(f, T) = it[T]
    <2>1. IsFiniteSet(T) /\ \A x \in T : f[x] \in Int
      BY FS_Subset
    <2>2. PICK it2 \in [SUBSET T -> Int] : IsSums(it2, f, T) /\ SumFunctionOnSet(f, T) = it2[T]
      BY <2>1, SumsExist
    <2> QED
      BY <1>1, <2>2, SumsAgree
  <1>3. it[{}] = 0 /\ \A T \in SUBSET S : T # {} => it[T] = f[first(T)] + it[T \ {first(T)}]
    BY <1>1 DEF IsSums
  <1> DEFINE Good == {T \in SUBSET S : \A x \in T : it[T] = f[x] + it[T \ {x}]}
  <1>4. {} \in Good
    OBVIOUS
  <1>5. ASSUME NEW T \in SUBSET S, T # {}, \A x \in T : T \ {x} \in Good
        PROVE  T \in Good
    <2> DEFINE y == first(T)
    <2>1. y \in T /\ it[T] = f[y] + it[T \ {y}]
      BY <1>3, <1>5
    <2> HIDE DEF y, first
    <2>2. ASSUME NEW x \in T, x # y PROVE it[T] = f[x] + it[T \ {x}]
      <3>1. it[T \ {y}] = f[x] + it[(T \ {y}) \ {x}]
        BY <1>5, <2>1, <2>2
      <3>2. it[T \ {x}] = f[y] + it[(T \ {x}) \ {y}]
        BY <1>5, <2>1, <2>2
      <3>3. (T \ {y}) \ {x} = (T \ {x}) \ {y} /\ (T \ {x}) \ {y} \in SUBSET S
        OBVIOUS
      <3> DEFINE z == it[(T \ {x}) \ {y}]
      <3>4. f[x] \in Int /\ f[y] \in Int /\ z \in Int
        BY <2>1, <2>2, <3>3
      <3>5. it[T \ {y}] = f[x] + z /\ it[T \ {x}] = f[y] + z
        BY <3>1, <3>2, <3>3
      <3> HIDE DEF z
      <3>6. it[T] = f[y] + (f[x] + z)
        BY <2>1, <3>5
      <3>7. f[x] + it[T \ {x}] = f[x] + (f[y] + z)
        BY <3>5
      <3>8. f[y] + (f[x] + z) = f[x] + (f[y] + z)
        BY <3>4
      <3> QED
        BY <3>6, <3>7, <3>8
    <2> QED
      BY <2>1, <2>2
  <1>6. \A T \in SUBSET S : T \in Good
    <2> HIDE DEF Good, first
    <2> QED
      BY <1>4, <1>5, SubsetInduction
  <1>7. ASSUME NEW x \in S
        PROVE  /\ SumFunctionOnSet(f, S \ {x}) \in Int
               /\ SumFunctionOnSet(f, S) = f[x] + SumFunctionOnSet(f, S \ {x})
    <2>1. S \ {x} \in SUBSET S /\ S \in Good
      BY <1>6
    <2>2. SumFunctionOnSet(f, S \ {x}) = it[S \ {x}] /\ it[S \ {x}] \in Int
      BY <1>2, <2>1
    <2>3. it[S] = f[x] + it[S \ {x}]
      BY <2>1
    <2> QED
      BY <1>1, <2>2, <2>3
  <1>8. SumFunctionOnSet(f, S) \in Int
    <2>1. S \in SUBSET S
      OBVIOUS
    <2> QED
      BY <1>1, <2>1
  <1>9. S = {} => SumFunctionOnSet(f, S) = 0
    BY <1>1, <1>3
  <1> QED
    BY <1>7, <1>8, <1>9

\* Two functions that agree on a set have the same sum over it.
LEMMA SumSame ==
    ASSUME NEW S, IsFiniteSet(S), NEW f, NEW g, \A x \in S : f[x] \in Int /\ g[x] = f[x]
    PROVE  SumFunctionOnSet(g, S) = SumFunctionOnSet(f, S)
  <1> DEFINE Good == {T \in SUBSET S : SumFunctionOnSet(g, T) = SumFunctionOnSet(f, T)}
  <1>1. ASSUME NEW T \in SUBSET S
        PROVE  IsFiniteSet(T) /\ \A x \in T : f[x] \in Int /\ g[x] \in Int /\ g[x] = f[x]
    BY FS_Subset
  <1>2. {} \in Good
    <2>1. {} \in SUBSET S
      OBVIOUS
    <2> QED
      BY <1>1, <2>1, SumRemove
  <1>3. ASSUME NEW T \in SUBSET S, T # {}, \A x \in T : T \ {x} \in Good
        PROVE  T \in Good
    <2>1. PICK x \in T : TRUE
      BY <1>3
    <2>2. SumFunctionOnSet(g, T) = g[x] + SumFunctionOnSet(g, T \ {x})
      BY <1>1, SumRemove
    <2>3. SumFunctionOnSet(f, T) = f[x] + SumFunctionOnSet(f, T \ {x})
      BY <1>1, SumRemove
    <2> QED
      BY <1>1, <1>3, <2>2, <2>3
  <1>4. \A T \in SUBSET S : T \in Good
    <2> HIDE DEF Good
    <2> QED
      BY <1>2, <1>3, SubsetInduction
  <1> QED
    BY <1>4

\* A sum of less is not more.
LEMMA SumLess ==
    ASSUME NEW S, IsFiniteSet(S), NEW f, NEW g, \A x \in S : f[x] \in Int /\ g[x] \in Int /\ g[x] <= f[x]
    PROVE  SumFunctionOnSet(g, S) <= SumFunctionOnSet(f, S)
  <1> DEFINE Good == {T \in SUBSET S : SumFunctionOnSet(g, T) <= SumFunctionOnSet(f, T)}
  <1>1. ASSUME NEW T \in SUBSET S
        PROVE  IsFiniteSet(T) /\ \A x \in T : f[x] \in Int /\ g[x] \in Int /\ g[x] <= f[x]
    BY FS_Subset
  <1>2. {} \in Good
    <2>1. {} \in SUBSET S
      OBVIOUS
    <2>2. SumFunctionOnSet(f, {}) = 0
      BY <1>1, <2>1, SumRemove
    <2>3. SumFunctionOnSet(g, {}) = 0
      BY <1>1, <2>1, SumRemove
    <2> QED
      BY <2>1, <2>2, <2>3
  <1>3. ASSUME NEW T \in SUBSET S, T # {}, \A x \in T : T \ {x} \in Good
        PROVE  T \in Good
    <2>1. PICK x \in T : TRUE
      BY <1>3
    <2>2. SumFunctionOnSet(g, T) = g[x] + SumFunctionOnSet(g, T \ {x}) /\ SumFunctionOnSet(g, T \ {x}) \in Int
      BY <1>1, SumRemove
    <2>3. SumFunctionOnSet(f, T) = f[x] + SumFunctionOnSet(f, T \ {x}) /\ SumFunctionOnSet(f, T \ {x}) \in Int
      BY <1>1, SumRemove
    <2>4. SumFunctionOnSet(g, T \ {x}) <= SumFunctionOnSet(f, T \ {x}) /\ g[x] <= f[x]
      BY <1>1, <1>3
    <2>5. f[x] \in Int /\ g[x] \in Int
      BY <1>1
    <2>6. SumFunctionOnSet(g, T) <= SumFunctionOnSet(f, T)
      BY <2>2, <2>3, <2>4, <2>5
    <2> QED
      BY <2>6
  <1>4. \A T \in SUBSET S : T \in Good
    <2> HIDE DEF Good
    <2> QED
      BY <1>2, <1>3, SubsetInduction
  <1> QED
    BY <1>4

\* Changing the function at one element.
LEMMA SumChange ==
    ASSUME NEW S, IsFiniteSet(S), NEW f, NEW g, NEW x \in S, g[x] \in Int,
           \A y \in S : f[y] \in Int, \A y \in S \ {x} : g[y] = f[y]
    PROVE  SumFunctionOnSet(g, S) = SumFunctionOnSet(f, S) - f[x] + g[x]
  <1>1. IsFiniteSet(S \ {x})
    BY FS_Subset
  <1>2. /\ SumFunctionOnSet(f, S) = f[x] + SumFunctionOnSet(f, S \ {x})
        /\ SumFunctionOnSet(f, S \ {x}) \in Int /\ SumFunctionOnSet(f, S) \in Int
    BY SumRemove
  <1>3. SumFunctionOnSet(g, S) = g[x] + SumFunctionOnSet(g, S \ {x})
    <2>1. \A y \in S : g[y] \in Int
      OBVIOUS
    <2> QED
      BY <2>1, SumRemove
  <1>4. SumFunctionOnSet(g, S \ {x}) = SumFunctionOnSet(f, S \ {x})
    BY <1>1, SumSame
  <1>5. f[x] \in Int /\ g[x] \in Int
    OBVIOUS
  <1> QED
    BY <1>2, <1>3, <1>4, <1>5

\* The same with its hypotheses named.
Integral(f, S) == \A y \in S : f[y] \in Int
DiffersAt(f, g, S, x) == \A y \in S \ {x} : g[y] = f[y]

LEMMA SumDiffers ==
    ASSUME NEW S, IsFiniteSet(S), NEW f, NEW g, NEW x \in S,
           Integral(f, S), Integral(g, S), DiffersAt(f, g, S, x)
    PROVE  SumFunctionOnSet(g, S) = SumFunctionOnSet(f, S) - f[x] + g[x]
  <1>1. g[x] \in Int /\ (\A y \in S : f[y] \in Int) /\ (\A y \in S \ {x} : g[y] = f[y])
    BY DEF Integral, DiffersAt
  <1> QED
    BY <1>1, SumChange

\* Natural numbers add up to one that is not less than any of them.
LEMMA SumNat ==
    ASSUME NEW S, IsFiniteSet(S), NEW f, \A x \in S : f[x] \in Nat
    PROVE  SumFunctionOnSet(f, S) \in Nat /\ \A x \in S : f[x] <= SumFunctionOnSet(f, S)
  <1> DEFINE Good == {T \in SUBSET S : SumFunctionOnSet(f, T) \in Nat}
  <1>1. ASSUME NEW T \in SUBSET S PROVE IsFiniteSet(T) /\ \A x \in T : f[x] \in Int
    BY FS_Subset
  <1>2. {} \in Good
    <2>1. {} \in SUBSET S
      OBVIOUS
    <2>2. SumFunctionOnSet(f, {}) = 0
      BY <1>1, <2>1, SumRemove
    <2> QED
      BY <2>1, <2>2
  <1>3. ASSUME NEW T \in SUBSET S, T # {}, \A x \in T : T \ {x} \in Good
        PROVE  T \in Good
    <2>1. PICK x \in T : TRUE
      BY <1>3
    <2>2. SumFunctionOnSet(f, T) = f[x] + SumFunctionOnSet(f, T \ {x})
      BY <1>1, SumRemove
    <2>3. SumFunctionOnSet(f, T \ {x}) \in Nat /\ f[x] \in Nat
      BY <1>3
    <2> QED
      BY <2>2, <2>3
  <1>4. \A T \in SUBSET S : T \in Good
    <2> HIDE DEF Good
    <2> QED
      BY <1>2, <1>3, SubsetInduction
  <1>5. ASSUME NEW x \in S PROVE f[x] <= SumFunctionOnSet(f, S)
    <2>1. SumFunctionOnSet(f, S) = f[x] + SumFunctionOnSet(f, S \ {x})
      BY SumRemove
    <2>2. SumFunctionOnSet(f, S \ {x}) \in Nat /\ f[x] \in Nat
      BY <1>4
    <2> QED
      BY <2>1, <2>2
  <1> QED
    BY <1>4, <1>5

\* A sum over a part and over the rest.
LEMMA SumSplit ==
    ASSUME NEW S, IsFiniteSet(S), NEW f, Integral(f, S), NEW P \in SUBSET S
    PROVE  /\ SumFunctionOnSet(f, P) \in Int /\ SumFunctionOnSet(f, S \ P) \in Int
           /\ SumFunctionOnSet(f, S) = SumFunctionOnSet(f, P) + SumFunctionOnSet(f, S \ P)
  <1> DEFINE Good == {T \in SUBSET P : SumFunctionOnSet(f, S) = SumFunctionOnSet(f, T) + SumFunctionOnSet(f, S \ T)}
  <1>1. ASSUME NEW T \in SUBSET S
        PROVE  IsFiniteSet(T) /\ (\A x \in T : f[x] \in Int) /\ SumFunctionOnSet(f, T) \in Int
    <2>1. IsFiniteSet(T) /\ \A x \in T : f[x] \in Int
      BY FS_Subset DEF Integral
    <2> QED
      BY <2>1, SumRemove
  <1>2. {} \in Good
    <2>1. {} \in SUBSET S /\ S \ {} = S /\ S \in SUBSET S
      OBVIOUS
    <2>2. SumFunctionOnSet(f, {}) = 0
      BY <1>1, <2>1, SumRemove
    <2>3. SumFunctionOnSet(f, S) \in Int
      BY <1>1, <2>1
    <2>4. SumFunctionOnSet(f, S) = SumFunctionOnSet(f, {}) + SumFunctionOnSet(f, S)
      BY <2>2, <2>3
    <2> QED
      BY <2>1, <2>4
  <1>3. ASSUME NEW T \in SUBSET P, T # {}, \A x \in T : T \ {x} \in Good
        PROVE  T \in Good
    <2>1. PICK x \in T : TRUE
      BY <1>3
    <2> DEFINE R == T \ {x}
    <2>2. SumFunctionOnSet(f, T) = f[x] + SumFunctionOnSet(f, R)
      <3>1. T \in SUBSET S
        OBVIOUS
      <3> QED
        BY <1>1, <3>1, SumRemove
    <2>3. SumFunctionOnSet(f, S \ R) = f[x] + SumFunctionOnSet(f, S \ T)
      <3>1. S \ R \in SUBSET S /\ x \in S \ R /\ (S \ R) \ {x} = S \ T
        OBVIOUS
      <3> HIDE DEF R
      <3>2. SumFunctionOnSet(f, S \ R) = f[x] + SumFunctionOnSet(f, (S \ R) \ {x})
        BY <1>1, <3>1, SumRemove
      <3> QED
        BY <3>1, <3>2
    <2>4. SumFunctionOnSet(f, S) = SumFunctionOnSet(f, R) + SumFunctionOnSet(f, S \ R)
      BY <1>3, <2>1
    <2>5. /\ f[x] \in Int /\ SumFunctionOnSet(f, R) \in Int /\ SumFunctionOnSet(f, S \ T) \in Int
          /\ SumFunctionOnSet(f, S) \in Int
      <3>1. R \in SUBSET S /\ S \ T \in SUBSET S /\ S \in SUBSET S /\ x \in S
        OBVIOUS
      <3> HIDE DEF R
      <3> QED
        BY <1>1, <3>1
    <2> HIDE DEF R
    <2>6. SumFunctionOnSet(f, S) = SumFunctionOnSet(f, T) + SumFunctionOnSet(f, S \ T)
      BY <2>2, <2>3, <2>4, <2>5
    <2> QED
      BY <2>6
  <1>4. IsFiniteSet(P)
    BY FS_Subset
  <1>5. \A T \in SUBSET P : T \in Good
    <2> HIDE DEF Good
    <2> QED
      BY <1>2, <1>3, <1>4, SubsetInduction
  <1>6. P \in Good /\ P \in SUBSET S /\ S \ P \in SUBSET S
    BY <1>5
  <1> QED
    BY <1>1, <1>6

\* The sum of a function, when it changes in one place and when it gets less.
LEMMA SumAt ==
    ASSUME NEW S, IsFiniteSet(S), NEW f \in [S -> Int], NEW g \in [S -> Int], NEW x \in S,
           DiffersAt(f, g, S, x)
    PROVE  /\ SumFunction(f) \in Int /\ SumFunction(g) \in Int
           /\ SumFunction(g) = SumFunction(f) - f[x] + g[x]
  <1>1. SumFunction(f) = SumFunctionOnSet(f, S) /\ SumFunction(g) = SumFunctionOnSet(g, S)
    BY DEF SumFunction
  <1>2. Integral(f, S) /\ Integral(g, S)
    BY DEF Integral
  <1>3. SumFunctionOnSet(f, S) \in Int /\ SumFunctionOnSet(g, S) \in Int
    <2>1. (\A y \in S : f[y] \in Int) /\ (\A y \in S : g[y] \in Int)
      OBVIOUS
    <2> QED
      BY <2>1, SumRemove
  <1> QED
    BY <1>1, <1>2, <1>3, SumDiffers

Below(g, f, S) == \A x \in S : g[x] <= f[x]

LEMMA SumBelow ==
    ASSUME NEW S, IsFiniteSet(S), NEW f \in [S -> Int], NEW g \in [S -> Int], Below(g, f, S)
    PROVE  SumFunction(g) <= SumFunction(f)
  <1>1. SumFunction(f) = SumFunctionOnSet(f, S) /\ SumFunction(g) = SumFunctionOnSet(g, S)
    BY DEF SumFunction
  <1>2. \A x \in S : f[x] \in Int /\ g[x] \in Int /\ g[x] <= f[x]
    BY DEF Below
  <1> QED
    BY <1>1, <1>2, SumLess

LEMMA SumOfNats ==
    ASSUME NEW S, IsFiniteSet(S), NEW f \in [S -> Nat]
    PROVE  SumFunction(f) \in Nat /\ \A x \in S : f[x] <= SumFunction(f)
  <1>1. SumFunction(f) = SumFunctionOnSet(f, S) /\ \A x \in S : f[x] \in Nat
    BY DEF SumFunction
  <1> QED
    BY <1>1, SumNat

-----------------------------------------------------------------------------
(***************************************************************************)
(* Sequences.                                                              *)
(***************************************************************************)
LEMMA RemoveAtProperties ==
    ASSUME NEW S, NEW s \in Seq(S), NEW i \in 1 .. Len(s)
    PROVE  /\ RemoveAt(s, i) \in Seq(S) /\ Len(RemoveAt(s, i)) = Len(s) - 1
           /\ \A k \in 1 .. Len(s) - 1 : RemoveAt(s, i)[k] = IF k < i THEN s[k] ELSE s[k + 1]
  <1> DEFINE before == SubSeq(s, 1, i - 1)
             after == SubSeq(s, i + 1, Len(s))
  <1>0. Len(s) \in Nat /\ \A k \in 1 .. Len(s) : s[k] \in S
    BY LenProperties, ElementOfSeq
  <1>1. /\ before \in Seq(S) /\ Len(before) = i - 1
        /\ \A k \in 1 .. i - 1 : before[k] = s[k]
    <2>1. i - 1 \in Int /\ \A k \in 1 .. i - 1 : s[k] \in S
      BY <1>0
    <2>2. /\ before \in Seq(S)
          /\ Len(before) = IF 1 <= i - 1 THEN i - 1 - 1 + 1 ELSE 0
          /\ \A k \in 1 .. i - 1 - 1 + 1 : before[k] = s[1 + k - 1]
      BY <2>1, SubSeqProperties
    <2> QED
      BY <1>0, <2>2
  <1>2. /\ after \in Seq(S) /\ Len(after) = Len(s) - i
        /\ \A k \in 1 .. Len(s) - i : after[k] = s[i + k]
    <2>1. i + 1 \in Int /\ Len(s) \in Int /\ \A k \in i + 1 .. Len(s) : s[k] \in S
      BY <1>0
    <2>2. /\ after \in Seq(S)
          /\ Len(after) = IF i + 1 <= Len(s) THEN Len(s) - (i + 1) + 1 ELSE 0
          /\ \A k \in 1 .. Len(s) - (i + 1) + 1 : after[k] = s[i + 1 + k - 1]
      BY <2>1, SubSeqProperties
    <2> QED
      BY <1>0, <2>2
  <1> HIDE DEF before, after
  <1>3. /\ before \o after \in Seq(S)
        /\ Len(before \o after) = Len(before) + Len(after)
        /\ \A k \in 1 .. Len(before) + Len(after) :
             (before \o after)[k] = IF k <= Len(before) THEN before[k] ELSE after[k - Len(before)]
    BY <1>1, <1>2, ConcatProperties
  <1>4. ASSUME NEW k \in 1 .. Len(s) - 1
        PROVE  (before \o after)[k] = IF k < i THEN s[k] ELSE s[k + 1]
    <2>1. k \in 1 .. Len(before) + Len(after)
      BY <1>0, <1>1, <1>2
    <2>2. CASE k < i
      BY <1>0, <1>1, <1>3, <2>1, <2>2
    <2>3. CASE ~(k < i)
      <3>1. k - (i - 1) \in 1 .. Len(s) - i /\ ~(k <= i - 1) /\ i + (k - (i - 1)) = k + 1
        BY <1>0, <2>3
      <3> QED
        BY <1>1, <1>2, <1>3, <2>1, <2>3, <3>1
    <2> QED
      BY <2>2, <2>3
  <1>5. RemoveAt(s, i) = before \o after
    BY DEF RemoveAt, before, after
  <1>6. Len(before \o after) = Len(s) - 1
    BY <1>0, <1>1, <1>2, <1>3
  <1> QED
    BY <1>3, <1>4, <1>5, <1>6

\* What is left after the first occurrence of an element has been removed.
LEMMA RemoveFirstProperties ==
    ASSUME NEW S, NEW s \in Seq(S), NEW e, \E i \in 1 .. Len(s) : s[i] = e
    PROVE  /\ RemoveFirst(s, e) \in Seq(S) /\ Len(RemoveFirst(s, e)) = Len(s) - 1
           /\ \A k \in 1 .. Len(s) - 1 : \E j \in 1 .. Len(s) : RemoveFirst(s, e)[k] = s[j]
  <1> DEFINE I == {i \in 1 .. Len(s) : s[i] = e}
             i == Min(I)
  <1>1. Len(s) \in Nat
    BY LenProperties
  <1>2. i \in 1 .. Len(s)
    <2>1. I \in SUBSET Nat /\ I # {}
      OBVIOUS
    <2>2. i \in I
      BY <2>1, MinIsLeast
    <2> QED
      BY <2>2
  <1>3. RemoveFirst(s, e) = RemoveAt(s, i)
    BY DEF RemoveFirst, SelectInSeq
  <1> HIDE DEF i
  <1>4. /\ RemoveAt(s, i) \in Seq(S) /\ Len(RemoveAt(s, i)) = Len(s) - 1
        /\ \A k \in 1 .. Len(s) - 1 : RemoveAt(s, i)[k] = IF k < i THEN s[k] ELSE s[k + 1]
    BY <1>2, RemoveAtProperties
  <1>5. ASSUME NEW k \in 1 .. Len(s) - 1 PROVE \E j \in 1 .. Len(s) : RemoveAt(s, i)[k] = s[j]
    <2>1. k \in 1 .. Len(s) /\ k + 1 \in 1 .. Len(s)
      BY <1>1
    <2> QED
      BY <1>4, <2>1
  <1> QED
    BY <1>3, <1>4, <1>5

-----------------------------------------------------------------------------
(***************************************************************************)
(* FoldSet.                                                                *)
(***************************************************************************)
AnyOf(T) == CHOOSE x \in T : TRUE

\* A relation I between the sets folded so far and the results: it holds of every
\* function that takes the steps of the fold, and there is such a function.
LEMMA FoldHolds ==
    ASSUME NEW S, IsFiniteSet(S), NEW I, NEW f, <<{}, f[{}]>> \in I,
           \A T \in SUBSET S : T # {} /\ <<T \ {AnyOf(T)}, f[T \ {AnyOf(T)}]>> \in I => <<T, f[T]>> \in I
    PROVE  \A T \in SUBSET S : <<T, f[T]>> \in I
  <1> DEFINE Good == {T \in SUBSET S : <<T, f[T]>> \in I}
  <1>1. {} \in Good
    OBVIOUS
  <1>2. ASSUME NEW T \in SUBSET S, T # {}, \A x \in T : T \ {x} \in Good
        PROVE  T \in Good
    <2>1. AnyOf(T) \in T
      BY <1>2 DEF AnyOf
    <2> QED
      BY <1>2, <2>1
  <1>3. \A T \in SUBSET S : T \in Good
    <2> HIDE DEF Good
    <2> QED
      BY <1>1, <1>2, SubsetInduction
  <1> QED
    BY <1>3

Folded(f, S, e, next) ==
    f = [T \in SUBSET S |-> IF T = {} THEN e ELSE next[<<AnyOf(T), f[T \ {AnyOf(T)}]>>]]

FoldKeeps(S, V, I, next) ==
    \A T \in SUBSET S : \A u \in V :
        T # {} /\ <<T \ {AnyOf(T)}, u>> \in I => <<T, next[<<AnyOf(T), u>>]>> \in I
Foldable(S, V, I, e, next) ==
    \E f \in [SUBSET S -> V] : Folded(f, S, e, next) /\ \A T \in SUBSET S : <<T, f[T]>> \in I
LEMMA FoldedExists ==
    ASSUME NEW S, IsFiniteSet(S), NEW V, NEW I \in SUBSET ((SUBSET S) \X V), NEW e \in V, <<{}, e>> \in I,
           NEW next, FoldKeeps(S, V, I, next)
    PROVE  Foldable(S, V, I, e, next)
  <1> DEFINE step == [x \in S \X V |-> IF next[x] \in V THEN next[x] ELSE e]
             choice == [T \in SUBSET S |-> AnyOf(T)]
  <1>1. step \in [S \X V -> V]
    OBVIOUS
  <1>2. \A T \in SUBSET S : T # {} => choice[T] \in T
    BY DEF AnyOf
  <1>0. \E f \in [SUBSET S -> V] : IsFold(f, S, e, step, choice)
    <2> HIDE DEF step, choice
    <2> QED
      BY <1>1, <1>2, FoldExists
  <1>3. PICK f \in [SUBSET S -> V] : IsFold(f, S, e, step, choice)
    BY <1>0
  <1>4. f[{}] = e
    BY <1>3 DEF IsFold
  <1>5. ASSUME NEW T \in SUBSET S, T # {}
        PROVE  AnyOf(T) \in T /\ T \ {AnyOf(T)} \in SUBSET S /\ f[T] = step[<<AnyOf(T), f[T \ {AnyOf(T)}]>>]
    <2>1. choice[T] = AnyOf(T) /\ AnyOf(T) \in T
      BY <1>2, <1>5
    <2> HIDE DEF step, choice
    <2> QED
      BY <1>3, <1>5, <2>1 DEF IsFold
  <1>6. ASSUME NEW T \in SUBSET S, T # {}, <<T \ {AnyOf(T)}, f[T \ {AnyOf(T)}]>> \in I
        PROVE  f[T] = next[<<AnyOf(T), f[T \ {AnyOf(T)}]>>] /\ <<T, f[T]>> \in I
    <2>1. f[T \ {AnyOf(T)}] \in V
      BY <1>5, <1>6
    <2>2. <<T, next[<<AnyOf(T), f[T \ {AnyOf(T)}]>>]>> \in I
      BY <1>6, <2>1 DEF FoldKeeps
    <2> DEFINE x == <<AnyOf(T), f[T \ {AnyOf(T)}]>>
    <2>3. x \in S \X V /\ next[x] \in V
      BY <1>5, <1>6, <2>1, <2>2
    <2>4. step[x] = next[x]
      BY <2>3
    <2> HIDE DEF step
    <2> QED
      BY <1>5, <1>6, <2>2, <2>4
  <1>7. \A T \in SUBSET S : <<T, f[T]>> \in I
    <2> HIDE DEF step, choice
    <2>1. <<{}, f[{}]>> \in I
      BY <1>4
    <2>2. \A T \in SUBSET S : T # {} /\ <<T \ {AnyOf(T)}, f[T \ {AnyOf(T)}]>> \in I => <<T, f[T]>> \in I
      BY <1>6
    <2> QED
      BY <2>1, <2>2, FoldHolds
  <1>8. ASSUME NEW T \in SUBSET S, T # {} PROVE f[T] = next[<<AnyOf(T), f[T \ {AnyOf(T)}]>>]
    BY <1>5, <1>6, <1>7, <1>8
  <1>9. f = [T \in SUBSET S |-> IF T = {} THEN e ELSE next[<<AnyOf(T), f[T \ {AnyOf(T)}]>>]]
    <2>1. \A T \in SUBSET S : f[T] = IF T = {} THEN e ELSE next[<<AnyOf(T), f[T \ {AnyOf(T)}]>>]
      BY <1>4, <1>8
    <2> QED
      BY <2>1
  <1>10. Folded(f, S, e, next)
    BY <1>9 DEF Folded
  <1> HIDE DEF step, choice
  <1> QED
    BY <1>3, <1>7, <1>10 DEF Foldable

FoldTakes(S, V, e, next, f) ==
    f[{}] = e /\ \A T \in SUBSET S : T # {} /\ f[T \ {AnyOf(T)}] \in V =>
                    f[T] = next[<<AnyOf(T), f[T \ {AnyOf(T)}]>>]
LEMMA FoldDone ==
    ASSUME NEW S, IsFiniteSet(S), NEW V, NEW I \in SUBSET ((SUBSET S) \X V), NEW e \in V, <<{}, e>> \in I,
           NEW next, FoldKeeps(S, V, I, next), NEW f, FoldTakes(S, V, e, next, f)
    PROVE  <<S, f[S]>> \in I
  <1>1. ASSUME NEW T \in SUBSET S, T # {}, <<T \ {AnyOf(T)}, f[T \ {AnyOf(T)}]>> \in I
        PROVE  <<T, f[T]>> \in I
    <2>1. f[T \ {AnyOf(T)}] \in V
      BY <1>1
    <2> QED
      BY <1>1, <2>1 DEF FoldKeeps, FoldTakes
  <1>2. \A T \in SUBSET S : T # {} /\ <<T \ {AnyOf(T)}, f[T \ {AnyOf(T)}]>> \in I => <<T, f[T]>> \in I
    BY <1>1
  <1>3. \A T \in SUBSET S : <<T, f[T]>> \in I
    BY <1>2, FoldHolds DEF FoldTakes
  <1> QED
    BY <1>3
=============================================================================
