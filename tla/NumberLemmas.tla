---------------------------- MODULE NumberLemmas ----------------------------
(***************************************************************************)
(* What the proofs of this project need to know of numbers: induction, and *)
(* division by a number that is a constant.                                *)
(*                                                                         *)
(* The theorems of the library on induction take an operator, which the    *)
(* provers cannot instantiate; that every set of numbers has a least       *)
(* element does not, and follows from the library's theorem that < is well *)
(* founded.                                                                *)
(***************************************************************************)
EXTENDS Integers, WellFoundedInduction, TLAPS

(* The library's theorem, for sets that are not constant as well.          *)
LEMMA Minimal ==
    \A R, S, T : IsWellFoundedOn(R, S) /\ T \subseteq S /\ T # {}
        => \E x \in T : \A y \in T : ~(<<y, x>> \in R)
BY WFMin, Zenon

LEMMA LeastBy ==
    ASSUME NEW R, IsWellFoundedOn(R, Nat),
           \A x \in Nat : \A y \in Nat : (<<x, y>> \in R) <=> (x < y),
           NEW T, T \subseteq Nat, T # {}
    PROVE  \E x \in T : \A y \in T : x <= y
<1>1. PICK x \in T : \A y \in T : ~(<<y, x>> \in R)
  BY ONLY Minimal, IsWellFoundedOn(R, Nat), T \subseteq Nat, T # {}, Zenon
<1>2. ASSUME NEW y \in T PROVE x <= y
  <2>1. x \in Nat /\ y \in Nat
    BY Zenon
  <2>2. ~(y < x)
    BY <1>1, <2>1, Zenon
  <2>3. QED
    BY <2>1, <2>2
<1>3. QED
  BY <1>2

(* A set of numbers that is not empty has a least element.                 *)
THEOREM LeastNat ==
    ASSUME NEW T \in SUBSET Nat, T # {}
    PROVE  \E x \in T : \A y \in T : x <= y
<1>1. \E R : /\ IsWellFoundedOn(R, Nat)
             /\ \A x \in Nat : \A y \in Nat : (<<x, y>> \in R) <=> (x < y)
  <2>1. IsWellFoundedOn(OpToRel(<, Nat), Nat)
    BY NatLessThanWellFounded
  <2>2. \A x \in Nat : \A y \in Nat : (<<x, y>> \in OpToRel(<, Nat)) <=> (x < y)
    BY DEF OpToRel
  <2>3. QED
    BY <2>1, <2>2, Zenon
<1>2. QED
  BY <1>1, LeastBy

(* A set that has 0, and with a number the next, has them all.             *)
THEOREM Induct ==
    ASSUME NEW A \in SUBSET Nat, 0 \in A, \A n \in A : n + 1 \in A
    PROVE  A = Nat
<1> SUFFICES ASSUME A # Nat PROVE FALSE
  OBVIOUS
<1>1. Nat \ A # {} /\ Nat \ A \in SUBSET Nat
  OBVIOUS
<1>2. PICK x \in Nat \ A : \A y \in Nat \ A : x <= y
  BY <1>1, LeastNat
<1>3. x # 0
  OBVIOUS
<1>4. x - 1 \in Nat /\ x - 1 \in A
  BY <1>2, <1>3
<1>5. QED
  BY <1>4
----------------------------------------------------------------------------
(* Division, for a divisor that is not a number written down.              *)
LEMMA Euclid ==
    ASSUME NEW p \in Nat \ {0}, NEW t \in Nat
    PROVE  t = p * (t \div p) + (t % p) /\ t % p \in Nat /\ t % p < p /\ t \div p \in Nat
OBVIOUS

LEMMA TimesLess ==
    ASSUME NEW p \in Nat \ {0}, NEW a \in Int, NEW b \in Int, a < b
    PROVE  p * a + p <= p * b
OBVIOUS

LEMMA IntEuclid ==
    ASSUME NEW p \in Nat \ {0}, NEW t \in Int
    PROVE  t = p * (t \div p) + (t % p) /\ t % p \in 0 .. p - 1 /\ t \div p \in Int
OBVIOUS

LEMMA OneRemainder ==
    ASSUME NEW p \in Nat \ {0}, NEW q \in Int, NEW r \in 0 .. p - 1, NEW t \in Int, t = p * q + r
    PROVE  t % p = r
<1> DEFINE q2 == t \div p
           r2 == t % p
<1>1. t = p * q2 + r2 /\ r2 \in 0 .. p - 1 /\ q2 \in Int
  BY IntEuclid
<1> HIDE DEF q2, r2
<1>2. CASE q < q2
  <2>1. p * q + p <= p * q2
    BY <1>1, <1>2, TimesLess
  <2>2. QED
    BY <1>1, <2>1
<1>3. CASE q2 < q
  <2>1. p * q2 + p <= p * q
    BY <1>1, <1>3, TimesLess
  <2>2. QED
    BY <1>1, <2>1
<1>4. CASE q = q2
  BY <1>1, <1>4 DEF r2
<1>5. QED
  BY <1>1, <1>2, <1>3, <1>4

(* The remainder d later: it has grown by d, or begun again.               *)
LEMMA RemainderLater ==
    ASSUME NEW p \in Nat \ {0}, NEW t \in Nat, NEW d \in Nat
    PROVE  /\ (t % p) + d < p => (t + d) % p = (t % p) + d
           /\ (t % p) + d \in p .. 2 * p - 1 => (t + d) % p = (t % p) + d - p
<1> DEFINE q == t \div p
           r == t % p
<1>1. t = p * q + r /\ r \in Nat /\ r < p /\ q \in Nat
  BY Euclid
<1> HIDE DEF q, r
<1>2. ASSUME r + d < p PROVE (t + d) % p = r + d
  <2>1. t + d = p * q + (r + d) /\ r + d \in 0 .. p - 1 /\ t + d \in Nat
    BY <1>1, <1>2
  <2>2. QED
    BY <1>1, <2>1, OneRemainder
<1>3. ASSUME r + d \in p .. 2 * p - 1 PROVE (t + d) % p = r + d - p
  <2> DEFINE a == q + 1
             b == r + d - p
             c == t + d
  <2>1. p * (q + 1) = p * q + p
    BY <1>1
  <2>2. c = p * a + b /\ a \in Int /\ b \in 0 .. p - 1 /\ c \in Nat
    BY <1>1, <1>3, <2>1
  <2> HIDE DEF a, b, c
  <2>3. c % p = b
    BY <2>2, OneRemainder
  <2>4. QED
    BY <2>3 DEF b, c
<1>4. QED
  BY <1>2, <1>3 DEF r

(* What is a multiple of p further has the same remainder.                 *)
LEMMA SameRemainder ==
    ASSUME NEW p \in Nat \ {0}, NEW t \in Int, NEW k \in Int, (t % p) + k \in 0 .. p - 1
    PROVE  (t + k) % p = (t % p) + k
<1> DEFINE q == t \div p
           r == t % p
           x == r + k
           y == t + k
<1>1. t = p * q + r /\ r \in 0 .. p - 1 /\ q \in Int
  BY IntEuclid
<1> HIDE DEF q, r
<1>2. y = p * q + x /\ x \in 0 .. p - 1 /\ y \in Int
  BY <1>1 DEF r
<1> HIDE DEF x, y
<1>3. y % p = x
  BY <1>1, <1>2, OneRemainder
<1>4. QED
  BY <1>3 DEF x, y, r

LEMMA RemainderOver ==
    ASSUME NEW p \in Nat \ {0}, NEW t \in Int, NEW k \in Int, (t % p) + k \in -p .. -1
    PROVE  (t + k) % p = (t % p) + k + p
<1> DEFINE q == t \div p
           a == q - 1
           r == t % p
           x == r + k + p
           y == t + k
<1>1. t = p * q + r /\ r \in 0 .. p - 1 /\ q \in Int
  BY IntEuclid
<1> HIDE DEF q, r
<1>2. p * (q - 1) = p * q - p
  BY <1>1
<1>3. y = p * a + x /\ x \in 0 .. p - 1 /\ y \in Int /\ a \in Int
  BY <1>1, <1>2 DEF r
<1> HIDE DEF x, y, a
<1>4. y % p = x
  BY <1>3, OneRemainder
<1>5. QED
  BY <1>4 DEF x, y, r

LEMMA RemainderOf ==
    ASSUME NEW p \in Nat \ {0}, NEW t \in Int, NEW c \in Int
    PROVE  ((t % p) - c) % p = (t - c) % p
<1> DEFINE q == t \div p
           r == t % p
           y == t - c
           z == r - c
           qy == y \div p
           x == y % p
           a == qy - q
<1>1. t = p * q + r /\ r \in 0 .. p - 1 /\ q \in Int
  BY IntEuclid
<1>2. y = p * qy + x /\ x \in 0 .. p - 1 /\ qy \in Int
  <2>1. y \in Int
    OBVIOUS
  <2> HIDE DEF y
  <2>2. QED
    BY <2>1, IntEuclid
<1> HIDE DEF q, r, qy, x
<1>3. p * (qy - q) = p * qy - p * q
  BY <1>1, <1>2
<1>4. z = p * a + x /\ a \in Int /\ z \in Int
  BY <1>1, <1>2, <1>3
<1> HIDE DEF a, z, y
<1>5. z % p = x
  BY <1>2, <1>4, OneRemainder
<1>6. QED
  BY <1>5 DEF x, z, y, r
=============================================================================
