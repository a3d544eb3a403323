-------------------------- MODULE InductionLemmas --------------------------
(***************************************************************************)
(* Natural numbers: least and greatest elements, induction over the        *)
(* members of a set, and functions defined by recursion. The models'       *)
(* searches (the nearest section below an address, the first region after  *)
(* it) and their folds over sequences rest on these.                       *)
(*                                                                         *)
(* The theorems of NaturalsInduction take a predicate as a parameter; here *)
(* the predicate is the set of numbers that satisfy it, so that a proof    *)
(* can name it. That < is well-founded is derived from the theorem that    *)
(* strict inclusion of finite sets is: m < n iff 0..m is inside 0..n.      *)
(***************************************************************************)
EXTENDS Integers, WellFoundedInduction, FiniteSetTheorems, TLAPS

(* Every set of naturals that has an element has a least one.              *)
LEMMA LeastNumber ==
  ASSUME NEW S \in SUBSET Nat, S # {}
  PROVE  \E m \in S : \A n \in S : m <= n
<1> DEFINE T == {0..n : n \in S}
           R == StrictSubsetOrdering(Nat)
           F == FiniteSubsetsOf(Nat)
<1>1. T \subseteq F /\ T # {}
  <2>1. \A n \in S : 0..n \in SUBSET Nat /\ IsFiniteSet(0..n)
    BY FS_Interval
  <2>2. QED
    BY <2>1 DEF FiniteSubsetsOf
<1>2. \E x \in T : \A y \in T : ~(<<y, x>> \in R)
  <2> HIDE DEF T, R, F
  <2>1. IsWellFoundedOn(R, F)
    BY FS_StrictSubsetOrderingWellFounded DEF R, F
  <2>2. QED
    BY <2>1, <1>1, WFMin
<1>3. PICK m \in S : \A n \in S : ~(<<0..n, 0..m>> \in R)
  BY <1>2
<1>4. ASSUME NEW n \in S, n < m PROVE <<0..n, 0..m>> \in R
  <2>1. 0..n \in SUBSET Nat /\ 0..m \in SUBSET Nat /\ 0..n \subseteq 0..m
    BY <1>4
  <2>2. m \in 0..m /\ m \notin 0..n
    BY <1>4
  <2>3. QED
    BY <2>1, <2>2 DEF StrictSubsetOrdering
<1>5. \A n \in S : ~(n < m)
  <2> HIDE DEF R
  <2>1. QED
    BY <1>3, <1>4
<1>6. QED
  BY <1>5

(* Every set of naturals that has an element and a bound has a greatest.   *)
LEMMA GreatestNumber ==
  ASSUME NEW S \in SUBSET Nat, S # {}, NEW b \in Nat, \A n \in S : n <= b
  PROVE  \E m \in S : \A n \in S : n <= m
<1> DEFINE D == {b - n : n \in S}
<1>1. D \in SUBSET Nat /\ D # {}
  <2>1. \A n \in S : b - n \in Nat
    OBVIOUS
  <2>2. QED
    BY <2>1
<1>2. PICK d \in D : \A e \in D : d <= e
  <2> HIDE DEF D
  <2>1. QED
    BY <1>1, LeastNumber
<1>3. PICK m \in S : d = b - m
  BY <1>2
<1>4. \A n \in S : b - m <= b - n
  BY <1>2, <1>3
<1>5. QED
  BY <1>4

(* Induction: what holds of 0, and of n + 1 when of n, holds of all.       *)
LEMMA Induction ==
  ASSUME NEW P, 0 \in P, \A n \in Nat : n \in P => n + 1 \in P
  PROVE  \A n \in Nat : n \in P
<1> DEFINE S == Nat \ P
<1>1. ASSUME S # {} PROVE FALSE
  <2>1. S \in SUBSET Nat
    OBVIOUS
  <2>2. PICK m \in S : \A n \in S : m <= n
    <3> HIDE DEF S
    <3>1. QED
      BY <1>1, <2>1, LeastNumber
  <2>3. m # 0 /\ m - 1 \in Nat /\ m - 1 \notin S
    BY <2>2
  <2>4. QED
    BY <2>2, <2>3
<1>2. QED
  BY <1>1

(* There is a function with a given first value in which each value        *)
(* follows from the one before: recursive definitions define something.    *)
Computes(f, n, D, base, step) ==
  /\ f \in [0..n -> D]
  /\ f = [i \in 0..n |-> IF i = 0 THEN base ELSE step[<<i, f[i - 1]>>]]

LEMMA Recursion ==
  ASSUME NEW D, NEW base \in D, NEW step \in [Nat \X D -> D], NEW n \in Nat
  PROVE  \E f : Computes(f, n, D, base, step)
<1> DEFINE P == {k \in Nat : \E f \in [0..k -> D] :
                    \A i \in 0..k : f[i] = IF i = 0 THEN base ELSE step[<<i, f[i - 1]>>]}
<1>1. 0 \in P
  <2> DEFINE f == [i \in 0..0 |-> base]
  <2>1. f \in [0..0 -> D]
    OBVIOUS
  <2>2. \A i \in 0..0 : f[i] = IF i = 0 THEN base ELSE step[<<i, f[i - 1]>>]
    OBVIOUS
  <2>3. QED
    BY <2>1, <2>2
<1>2. ASSUME NEW k \in Nat, k \in P PROVE k + 1 \in P
  <2>1. PICK f \in [0..k -> D] :
          \A i \in 0..k : f[i] = IF i = 0 THEN base ELSE step[<<i, f[i - 1]>>]
    BY <1>2
  <2> DEFINE g == [i \in 0..(k + 1) |-> IF i = k + 1 THEN step[<<k + 1, f[k]>>] ELSE f[i]]
  <2>2. step[<<k + 1, f[k]>>] \in D
    OBVIOUS
  <2>3. g \in [0..(k + 1) -> D]
    BY <2>2
  <2>4. ASSUME NEW i \in 0..(k + 1)
        PROVE  g[i] = IF i = 0 THEN base ELSE step[<<i, g[i - 1]>>]
    <3>1. CASE i = k + 1
      <4>1. g[i] = step[<<k + 1, f[k]>>] /\ i # 0 /\ i - 1 = k /\ k \in 0..(k + 1)
        BY <3>1
      <4>2. g[k] = f[k]
        BY <4>1
      <4>3. QED
        BY <3>1, <4>1, <4>2
    <3>2. CASE i \in 0..k
      <4>1. g[i] = f[i] /\ (i # 0 => i - 1 \in 0..k /\ i - 1 \in 0..(k + 1))
        BY <3>2
      <4>2. i # 0 => g[i - 1] = f[i - 1]
        BY <4>1
      <4>3. QED
        BY <2>1, <3>2, <4>1, <4>2
    <3>3. QED
      BY <3>1, <3>2
  <2> HIDE DEF g
  <2>5. QED
    BY <2>3, <2>4
<1>3. n \in P
  <2> HIDE DEF P
  <2>1. QED
    BY <1>1, <1>2, Induction
<1>4. PICK f \in [0..n -> D] :
        \A i \in 0..n : f[i] = IF i = 0 THEN base ELSE step[<<i, f[i - 1]>>]
  BY <1>3
<1>5. f = [i \in 0..n |-> IF i = 0 THEN base ELSE step[<<i, f[i - 1]>>]]
  BY <1>4
<1>6. QED
  BY <1>5 DEF Computes
=============================================================================
