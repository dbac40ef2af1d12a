-------------------------- MODULE ModularArithmetic --------------------------
(* Facts about counters and clocks that wrap. *)
EXTENDS Integers, TLAPS

\* A remainder is determined by any quotient and remainder.
LEMMA ModUnique ==
    ASSUME NEW n \in Int, NEW t \in Nat, NEW m \in Nat \ {0}, t < m
    PROVE  (m * n + t) % m = t
OBVIOUS

\* Reducing one summand first does not change a sum modulo m.
LEMMA ModAdd ==
    ASSUME NEW x \in Int, NEW y \in Int, NEW m \in Nat \ {0}
    PROVE  ((x % m) + y) % m = (x + y) % m
<1> DEFINE q == x \div m
           r == x % m
           k == (r + y) \div m
           t == (r + y) % m
<1>1. q \in Int /\ r \in Nat /\ x = m * q + r
  OBVIOUS
<1>2. k \in Int /\ t \in Nat /\ t < m /\ r + y = m * k + t
  BY <1>1
<1> HIDE DEF q, r, k, t
<1>3. x + y = m * (q + k) + t
  BY <1>1, <1>2
<1>4. (m * (q + k) + t) % m = t
  <2>1. q + k \in Int
    BY <1>1, <1>2
  <2> QED
    BY <1>2, <2>1, ModUnique, Zenon
<1> QED
  BY <1>3, <1>4 DEF r, t

\* Nor does reducing what is subtracted.
LEMMA ModSub ==
    ASSUME NEW x \in Int, NEW y \in Int, NEW m \in Nat \ {0}
    PROVE  (x - (y % m)) % m = (x - y) % m
<1> DEFINE q == y \div m
           r == y % m
           k == (x - r) \div m
           t == (x - r) % m
<1>1. q \in Int /\ r \in Nat /\ y = m * q + r
  OBVIOUS
<1>2. k \in Int /\ t \in Nat /\ t < m /\ x - r = m * k + t
  BY <1>1
<1> HIDE DEF q, r, k, t
<1>3. x - y = m * (k - q) + t
  BY <1>1, <1>2
<1>4. (m * (k - q) + t) % m = t
  <2>1. k - q \in Int
    BY <1>1, <1>2
  <2> QED
    BY <1>2, <2>1, ModUnique, Zenon
<1> QED
  BY <1>3, <1>4 DEF r, t

\* The remainder of a number within one period of zero.
LEMMA ModNear ==
    ASSUME NEW x \in Int, NEW m \in Nat \ {0}, -m <= x, x < m
    PROVE  x % m = IF x >= 0 THEN x ELSE x + m
<1>1. CASE x >= 0
  <2>1. x \in Nat /\ x < m /\ m * 0 + x = x
    BY <1>1
  <2>2. (m * 0 + x) % m = x
    BY <2>1, ModUnique
  <2> QED
    BY <1>1, <2>1, <2>2
<1>2. CASE x < 0
  <2>1. x + m \in Nat /\ x + m < m /\ m * (-1) + (x + m) = x
    BY <1>2
  <2>2. (m * (-1) + (x + m)) % m = x + m
    BY <2>1, ModUnique
  <2> QED
    BY <1>2, <2>1, <2>2
<1> QED
  BY <1>1, <1>2

\* The remainder of the sum of two remainders.
LEMMA ModSum ==
    ASSUME NEW m \in Nat \ {0}, NEW x \in 0 .. m - 1, NEW y \in 0 .. m - 1
    PROVE  (x + y) % m = IF x + y < m THEN x + y ELSE x + y - m
<1>1. CASE x + y < m
  <2>1. x + y \in Nat /\ m * 0 + (x + y) = x + y
    OBVIOUS
  <2>2. (m * 0 + (x + y)) % m = x + y
    BY <1>1, <2>1, ModUnique
  <2> QED
    BY <1>1, <2>1, <2>2
<1>2. CASE x + y >= m
  <2>1. x + y - m \in Nat /\ x + y - m < m /\ m * 1 + (x + y - m) = x + y
    BY <1>2
  <2>2. (m * 1 + (x + y - m)) % m = x + y - m
    BY <2>1, ModUnique
  <2> QED
    BY <1>2, <2>1, <2>2
<1> QED
  BY <1>1, <1>2
==============================================================================
