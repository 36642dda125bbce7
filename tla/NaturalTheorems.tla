-------------------------- MODULE NaturalTheorems ---------------------------
(* Facts about natural numbers that the proof modules share: the             *)
(* least-number principle, to take a minimal counterexample and to know what *)
(* the minimum of a set is, and how the numbers of a ring are laid out.      *)
EXTENDS Naturals, NaturalsInduction, WellFoundedInduction, TLAPS

NatLess == {ss \in Nat \X Nat : ss[1] < ss[2]}

(* Every set of natural numbers that is not empty has a least member.        *)
LEMMA LeastMember ==
  ASSUME NEW T \in SUBSET Nat, T # {}
  PROVE  \E x \in T : \A y \in T : x <= y
<1>1. IsWellFoundedOn(NatLess, Nat)
  BY NatLessThanWellFounded, Zenon DEF OpToRel, NatLess
<1>2. \A a, b \in Nat : a < b => <<a, b>> \in NatLess
  BY DEF NatLess
<1>3. PICK x \in T : \A y \in T : ~ (<<y, x>> \in NatLess)
  BY <1>1, WFMin
<1>4. \A y \in T : ~ (y < x)
  BY <1>2, <1>3
<1> QED
  BY <1>4, x \in Nat, T \subseteq Nat

(* Numbers that differ by less than the size of a ring have slots of their   *)
(* own in it.                                                                *)
LEMMA ApartInRing == ASSUME NEW s \in Nat, s > 0, NEW m \in Nat, NEW n \in Nat, m < n, n - m < s
                     PROVE  m % s # n % s
<1> SUFFICES ASSUME m % s = n % s PROVE FALSE
  OBVIOUS
<1> DEFINE p == m \div s
           q == n \div s
<1>1. p \in Nat /\ q \in Nat /\ m % s \in Nat
  OBVIOUS
<1>2. m = s * p + (m % s) /\ n = s * q + (n % s)
  OBVIOUS
<1> HIDE DEF p, q
<1>3. CASE q <= p
  <2>1. PICK d \in Nat : p = q + d
    BY <1>1, <1>3
  <2>2. s * p = s * q + s * d /\ s * d \in Nat
    BY <1>1, <2>1
  <2> QED
    BY <1>1, <1>2, <2>2
<1>4. CASE q > p
  <2>1. PICK d \in Nat : q = p + 1 + d
    BY <1>1, <1>4
  <2>2. s * q = s * p + s + s * d /\ s * d \in Nat /\ s * p \in Nat
    BY <1>1, <2>1
  <2> QED
    BY <1>1, <1>2, <2>2
<1> QED
  BY <1>1, <1>3, <1>4

(* A slot that is not the last of the ring is followed by the next number's. *)
LEMMA NextInRing == ASSUME NEW s \in Nat, s > 0, NEW n \in Nat, (n % s) + 1 < s
                    PROVE  (n + 1) % s = (n % s) + 1
<1> DEFINE q == n \div s
           r == n % s
           q2 == (n + 1) \div s
           r2 == (n + 1) % s
<1>1. q \in Nat /\ r \in Nat /\ q2 \in Nat /\ r2 \in Nat /\ r2 < s
  OBVIOUS
<1>2. n = s * q + r /\ n + 1 = s * q2 + r2
  OBVIOUS
<1>3. r + 1 < s
  OBVIOUS
<1> HIDE DEF q, r, q2, r2
<1>4. CASE q2 < q
  <2>1. PICK d \in Nat : q = q2 + 1 + d
    BY <1>1, <1>4
  <2>2. s * q = s * q2 + s + s * d /\ s * d \in Nat /\ s * q2 \in Nat
    BY <1>1, <2>1
  <2> QED
    BY <1>1, <1>2, <2>2
<1>5. CASE q2 > q
  <2>1. PICK d \in Nat : q2 = q + 1 + d
    BY <1>1, <1>5
  <2>2. s * q2 = s * q + s + s * d /\ s * d \in Nat /\ s * q \in Nat
    BY <1>1, <2>1
  <2> QED
    BY <1>1, <1>2, <1>3, <2>2
<1>6. CASE q2 = q
  <2>1. s * q \in Nat /\ s * q2 = s * q
    BY <1>1, <1>6
  <2>2. r2 = r + 1
    BY <1>1, <1>2, <2>1
  <2> QED
    BY <2>2 DEF r, r2
<1> QED
  BY <1>1, <1>4, <1>5, <1>6

(* Once round a ring is where one was. *)
LEMMA RoundTheRing == ASSUME NEW s \in Nat, s > 0, NEW n \in Nat
                      PROVE  (n + s) % s = n % s
<1> DEFINE q == n \div s
           r == n % s
           q2 == (n + s) \div s
           r2 == (n + s) % s
<1>1. q \in Nat /\ r \in Nat /\ r < s /\ q2 \in Nat /\ r2 \in Nat /\ r2 < s
  OBVIOUS
<1>2. n = s * q + r /\ n + s = s * q2 + r2
  OBVIOUS
<1> HIDE DEF q, r, q2, r2
<1>3. CASE q2 < q + 1
  <2>1. PICK d \in Nat : q + 1 = q2 + 1 + d
    BY <1>1, <1>3
  <2>2. s * q = s * q2 + s * d /\ s * d \in Nat /\ s * q2 \in Nat
    BY <1>1, <2>1
  <2>3. r2 = s * d + s + r
    BY <1>1, <1>2, <2>2
  <2> QED
    BY <1>1, <2>2, <2>3
<1>4. CASE q2 > q + 1
  <2>1. PICK d \in Nat : q2 = q + 1 + 1 + d
    BY <1>1, <1>4
  <2>2. s * q2 = s * q + s + s + s * d /\ s * d \in Nat /\ s * q \in Nat
    BY <1>1, <2>1
  <2> QED
    BY <1>1, <1>2, <2>2
<1>5. CASE q2 = q + 1
  <2>1. s * q \in Nat /\ s * q2 = s * q + s
    BY <1>1, <1>5
  <2>2. r2 = r
    BY <1>1, <1>2, <2>1
  <2> QED
    BY <2>2 DEF r, r2
<1> QED
  BY <1>1, <1>3, <1>4, <1>5
=============================================================================
