-------------------------- MODULE NatRecursion --------------------------
(***************************************************************************)
(* Induction and recursion over 0..n, without operators as parameters: a   *)
(* set that is not all of 0..n has a least number missing, and a function  *)
(* defined by recursion is built up argument by argument.                  *)
(***************************************************************************)
EXTENDS Integers, WellFoundedInduction, TLAPS

(* A set of numbers has a least one. *)
LEMMA LeastNumber ==
  ASSUME NEW S \in SUBSET Nat, S # {}
  PROVE  \E n \in S : \A m \in S : n <= m
<1> DEFINE R == {ss \in Nat \X Nat : ss[1] < ss[2]}
<1>1. IsWellFoundedOn(R, Nat)
  BY NatLessThanWellFounded DEF OpToRel
<1>2. \A m, n \in Nat : m < n => <<m, n>> \in R
  OBVIOUS
<1> HIDE DEF R
<1>3. PICK n \in S : \A m \in S : ~(<<m, n>> \in R)
  BY <1>1, WFMin
<1>4. \A m \in S : ~(m < n)
  BY <1>2, <1>3
<1> QED  BY <1>4

(* A set that holds 0, and with k - 1 also k, holds every number up to n. *)
LEMMA InductionUpTo ==
  ASSUME NEW n \in Nat, NEW S, 0 \in S,
         \A k \in 1..n : k - 1 \in S => k \in S
  PROVE  0..n \subseteq S
<1> DEFINE B == (0..n) \ S
<1> SUFFICES ASSUME B # {} PROVE FALSE
  OBVIOUS
<1>1. PICK k \in B : \A m \in B : k <= m
  <2>1. B \in SUBSET Nat
    OBVIOUS
  <2> HIDE DEF B
  <2> QED  BY <2>1, LeastNumber
<1>2. k \in 1..n /\ k - 1 \in 0..n
  BY <1>1
<1>3. k - 1 \in S
  BY <1>1, <1>2
<1> QED  BY <1>1, <1>2, <1>3

(* f[i] is computed from f[i - 1] and i, and f[0] is a. *)
Recursive(f, A, n, a, step) ==
  /\ f \in [0..n -> A]
  /\ f[0] = a
  /\ \A i \in 1..n : f[i] = step[<<f[i - 1], i>>]

(* What a recursion over 0..n computes exists. *)
LEMMA RecursionUpTo ==
  ASSUME NEW A, NEW n \in Nat, NEW a \in A, NEW step \in [A \X (1..n) -> A]
  PROVE  \E f : Recursive(f, A, n, a, step)
<1> DEFINE Upto(k, f) == f[0] = a /\ \A i \in 1..k : f[i] = step[<<f[i - 1], i>>]
           S == {k \in 0..n : \E f \in [0..n -> A] : Upto(k, f)}
<1>1. 0 \in S
  <2>1. [i \in 0..n |-> a] \in [0..n -> A] /\ 0 \in 0..n
    OBVIOUS
  <2>2. Upto(0, [i \in 0..n |-> a])
    OBVIOUS
  <2> QED  BY <2>1, <2>2
<1>2. ASSUME NEW k \in 1..n, k - 1 \in S
      PROVE  k \in S
  <2>1. PICK f \in [0..n -> A] : Upto(k - 1, f)
    BY <1>2
  <2> DEFINE g == [f EXCEPT ![k] = step[<<f[k - 1], k>>]]
  <2>2. k - 1 \in 0..n /\ k \in 0..n /\ f[k - 1] \in A
    BY <2>1
  <2>3. step[<<f[k - 1], k>>] \in A
    BY <2>2
  <2>4. g \in [0..n -> A] /\ g[k] = step[<<f[k - 1], k>>]
        /\ \A i \in 0..n : i # k => g[i] = f[i]
    BY <2>2, <2>3
  <2> HIDE DEF g
  <2>5. g[0] = a
    BY <2>1, <2>4
  <2>6. ASSUME NEW i \in 1..k PROVE g[i] = step[<<g[i - 1], i>>]
    <3>1. i - 1 \in 0..n /\ i - 1 # k /\ i \in 0..n
      BY <2>2
    <3>2. g[i - 1] = f[i - 1]
      BY <3>1, <2>4
    <3>3. CASE i = k
      BY <3>2, <3>3, <2>4
    <3>4. CASE i # k
      <4>1. i \in 1..(k - 1)
        BY <3>4
      <4>2. f[i] = step[<<f[i - 1], i>>]
        BY <4>1, <2>1
      <4>3. g[i] = f[i]
        BY <3>1, <3>4, <2>4
      <4> QED  BY <3>2, <4>2, <4>3
    <3> QED  BY <3>3, <3>4
  <2> QED  BY <2>2, <2>4, <2>5, <2>6
<1> HIDE DEF S
<1>3. n \in S
  BY <1>1, <1>2, InductionUpTo
<1> QED  BY <1>3 DEF S, Recursive
=============================================================================
