----------------------------- MODULE Iteration -----------------------------
(***************************************************************************)
(* Induction for the proofs about recursive functions, in terms of sets    *)
(* and functions (and not of operators, which the provers do not           *)
(* instantiate).                                                           *)
(***************************************************************************)
EXTENDS Integers, WellFoundedInduction, TLAPS

LEMMA LeastNat ==
  ASSUME NEW A \in SUBSET Nat, A # {}
  PROVE  \E x \in A : \A y \in A : x <= y
<1> DEFINE R == {ss \in Nat \X Nat : ss[1] < ss[2]}
<1>1. IsWellFoundedOn(R, Nat)
  BY NatLessThanWellFounded DEF OpToRel
<1> HIDE DEF R
<1>2. PICK x \in A : \A y \in A : ~(<<y, x>> \in R)
  BY <1>1, WFMin
<1>3. ASSUME NEW y \in A PROVE x <= y
  <2>1. ~(y < x)
    BY <1>2 DEF R
  <2> QED
    BY <2>1
<1> QED
  BY <1>3

(* Induction: a set of numbers with 0 and with the successor of each of its *)
(* members holds every number.                                              *)
LEMMA SetInduction ==
  ASSUME NEW A \in SUBSET Nat, 0 \in A, \A n \in A : n + 1 \in A
  PROVE  A = Nat
<1> SUFFICES ASSUME Nat \ A # {} PROVE FALSE
  OBVIOUS
<1>1. PICK x \in Nat \ A : \A y \in Nat \ A : x <= y
  BY LeastNat
<1>2. x # 0 /\ x - 1 \in Nat
  BY <1>1
<1>3. x - 1 \in A
  BY <1>1, <1>2
<1> QED
  BY <1>1, <1>2, <1>3

(* Induction up to a bound. *)
LEMMA BoundedInduction ==
  ASSUME NEW n \in Nat, NEW A, 0 \in A, \A i \in 1..n : i - 1 \in A => i \in A
  PROVE  \A i \in 0..n : i \in A
<1> DEFINE B == {i \in Nat : i <= n => i \in A}
<1>1. 0 \in B
  OBVIOUS
<1>2. ASSUME NEW i \in B PROVE i + 1 \in B
  <2>1. CASE i + 1 <= n
    <3>1. i \in A /\ i + 1 \in 1..n /\ (i + 1) - 1 = i
      BY <2>1
    <3> QED
      BY <3>1
  <2>2. CASE ~(i + 1 <= n)
    BY <2>2
  <2> QED
    BY <2>1, <2>2
<1>3. B \in SUBSET Nat
  OBVIOUS
<1> HIDE DEF B
<1>4. B = Nat
  BY <1>1, <1>2, <1>3, SetInduction
<1> QED
  BY <1>4 DEF B

(* g is what F makes of s in n steps, step by step. *)
Runs(S, F, s, n, g) ==
  g \in [0..n -> S] /\ g[0] = s /\ \A i \in 1..n : g[i] = F[i][g[i - 1]]

LEMMA Iterates ==
  ASSUME NEW S, NEW F \in [Nat -> [S -> S]], NEW s \in S
  PROVE  \A n \in Nat : \E g : Runs(S, F, s, n, g)
<1> DEFINE A == {n \in Nat : \E g \in [0..n -> S] :
                   g[0] = s /\ \A i \in 1..n : g[i] = F[i][g[i - 1]]}
<1>1. 0 \in A
  <2> DEFINE g == [i \in 0..0 |-> s]
  <2>1. g \in [0..0 -> S] /\ g[0] = s /\ \A i \in 1..0 : g[i] = F[i][g[i - 1]]
    OBVIOUS
  <2> HIDE DEF g
  <2> QED
    BY <2>1
<1>2. ASSUME NEW n \in A PROVE n + 1 \in A
  <2>1. PICK g \in [0..n -> S] : g[0] = s /\ \A i \in 1..n : g[i] = F[i][g[i - 1]]
    OBVIOUS
  <2>2. n \in Nat /\ g[n] \in S
    BY <2>1
  <2> DEFINE x == F[n + 1][g[n]]
  <2>3. x \in S
    BY <2>2
  <2> HIDE DEF x
  <2> DEFINE h == [i \in 0..(n + 1) |-> IF i = n + 1 THEN x ELSE g[i]]
  <2>4. h \in [0..(n + 1) -> S]
    BY <2>1, <2>2, <2>3
  <2>5. h[0] = s
    BY <2>1, <2>2
  <2>6. ASSUME NEW i \in 1..(n + 1) PROVE h[i] = F[i][h[i - 1]]
    <3>1. CASE i = n + 1
      <4>1. h[i] = x /\ h[i - 1] = g[n]
        BY <2>2, <3>1
      <4> QED
        BY <4>1, <3>1 DEF x
    <3>2. CASE i # n + 1
      <4>1. i \in 1..n /\ h[i] = g[i] /\ h[i - 1] = g[i - 1]
        BY <2>2, <3>2
      <4> QED
        BY <4>1, <2>1
    <3> QED
      BY <3>1, <3>2
  <2> HIDE DEF h
  <2>7. \E k \in [0..(n + 1) -> S] :
          k[0] = s /\ \A i \in 1..(n + 1) : k[i] = F[i][k[i - 1]]
    BY <2>4, <2>5, <2>6
  <2>8. n + 1 \in Nat
    BY <2>2
  <2> QED
    BY <2>7, <2>8, Zenon
<1>3. A \in SUBSET Nat
  OBVIOUS
<1> HIDE DEF A
<1>4. A = Nat
  BY <1>1, <1>2, <1>3, SetInduction
<1> QED
  BY <1>4 DEF A, Runs
=============================================================================
