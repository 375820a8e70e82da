------------------------------ MODULE NumberLemmas ------------------------------
(* Facts about natural numbers and intervals that several proofs need. *)
EXTENDS Integers, FiniteSets, FiniteSetTheorems, WellFoundedInduction, TLAPS

(* Every nonempty set of naturals has a least element. *)
LEMMA LeastNat ==
  ASSUME NEW T \in SUBSET Nat, T # {}
  PROVE  \E n \in T : \A m \in T : n <= m
  <1>1. PICK n \in T : \A m \in T : <<m, n>> \notin OpToRel(<, Nat)
    BY WFMin, NatLessThanWellFounded
  <1>2. \A m \in T : ~(m < n)
    BY <1>1 DEF OpToRel
  <1> QED
    BY <1>2

(* An index of a ring of N slots runs through it at most twice. *)
LEMMA Wraps ==
  ASSUME NEW N \in Nat \ {0}, NEW x \in 0 .. (2 * N - 1)
  PROVE  x % N = IF x < N THEN x ELSE x - N
  OBVIOUS

(* How many numbers an interval has. *)
LEMMA IntervalSize ==
  ASSUME NEW a \in Int, NEW b \in Int, a <= b + 1
  PROVE  IsFiniteSet(a .. b) /\ Cardinality(a .. b) = b - a + 1
  BY FS_Interval

(* The k-th element of an interval, found by counting. *)
LEMMA KthOfInterval ==
  ASSUME NEW c \in Nat, NEW n \in Nat, c <= n, NEW k \in 1 .. (n - c)
  PROVE  LET kept == (c + 1) .. n
         IN  (CHOOSE i \in kept : Cardinality({j \in kept : j <= i}) = k) = c + k
  <1> DEFINE kept == (c + 1) .. n
             At(i) == Cardinality({j \in kept : j <= i})
  <1>1. ASSUME NEW i \in kept PROVE At(i) = i - c
    <2>1. {j \in kept : j <= i} = (c + 1) .. i
      OBVIOUS
    <2>2. Cardinality((c + 1) .. i) = i - (c + 1) + 1
      BY IntervalSize
    <2>3. i - (c + 1) + 1 = i - c
      OBVIOUS
    <2> QED
      BY <2>1, <2>2, <2>3, Zenon DEF At
  <1>2. c + k \in kept
    OBVIOUS
  <1> HIDE DEF At
  <1>3. At(c + k) = k /\ \A i \in kept : At(i) = k => i = c + k
    BY <1>1, <1>2
  <1>4. (CHOOSE i \in kept : At(i) = k) = c + k
    BY <1>2, <1>3
  <1> QED
    BY <1>4 DEF At

(* A nonempty set of indices has a greatest one. *)
LEMMA GreatestIndex ==
  ASSUME NEW n \in Nat, NEW S \in SUBSET (1 .. n), S # {}
  PROVE  \E i \in S : \A j \in S : j <= i
  <1> DEFINE T == {n - j : j \in S}
  <1>1. T \in SUBSET Nat /\ T # {}
    <2>1. PICK x \in S : TRUE
      OBVIOUS
    <2>2. n - x \in T
      OBVIOUS
    <2>3. \A j \in S : n - j \in Nat
      OBVIOUS
    <2> QED
      BY <2>2, <2>3
  <1>2. PICK t \in T : \A u \in T : t <= u
    BY <1>1, LeastNat
  <1>3. PICK i \in S : t = n - i
    OBVIOUS
  <1>4. ASSUME NEW j \in S PROVE j <= i
    <2>1. n - j \in T
      OBVIOUS
    <2>2. n - i <= n - j
      BY <1>2, <1>3, <2>1
    <2> QED
      BY <2>2
  <1> QED
    BY <1>4

(* Of several indices one has exactly one above it. *)
LEMMA LastButOne ==
  ASSUME NEW n \in Nat, NEW S \in SUBSET (1 .. n), Cardinality(S) > 1
  PROVE  \E i \in S : Cardinality({j \in S : j > i}) = 1
  <1>1. S # {}
    BY FS_EmptySet
  <1>2. PICK m \in S : \A j \in S : j <= m
    BY <1>1, GreatestIndex
  <1>3. S \ {m} # {}
    <2> SUFFICES ASSUME S = {m} PROVE FALSE
      BY <1>2
    <2> QED
      BY FS_Singleton
  <1>4. PICK i \in S \ {m} : \A j \in S \ {m} : j <= i
    BY <1>3, GreatestIndex
  <1>5. {j \in S : j > i} = {m}
    <2>1. i \in Int /\ m \in Int /\ i < m
      BY <1>2, <1>4
    <2>2. \A j \in S : j > i => j = m
      BY <1>4, <2>1
    <2> QED
      BY <2>1, <2>2
  <1> QED
    BY <1>4, <1>5, FS_Singleton

================================================================================
