--------------------------- MODULE DivisionLemmas ---------------------------
(***************************************************************************)
(* Quotients and remainders by a number that is a parameter: the slots of  *)
(* the deque's ring and of the timing wheel, and the ticks of the clock.   *)
(***************************************************************************)
EXTENDS Integers, TLAPS

\* Multiples of k are at least k apart.
LEMMA MultiplesApart ==
  ASSUME NEW k \in Nat \ {0}, NEW p \in Int, NEW q \in Int, p < q
  PROVE  k * p + k <= k * q
  <1>1. PICK d \in Nat : q = p + 1 + d
    <2>1. q - p - 1 \in Nat OBVIOUS
    <2>2. QED BY <2>1
  <1>2. k * q = k * p + k + k * d BY <1>1
  <1>3. k * d >= 0 OBVIOUS
  <1>4. QED BY <1>2, <1>3

\* Euclid: a number is its quotient times the divisor plus its remainder.
LEMMA DivMod ==
  ASSUME NEW k \in Nat \ {0}, NEW i \in Nat
  PROVE  i = k * (i \div k) + (i % k)
  OBVIOUS

\* The quotient is a number, the remainder one below the divisor.
LEMMA DivModType ==
  ASSUME NEW k \in Nat \ {0}, NEW i \in Nat
  PROVE  i \div k \in Nat /\ i % k \in 0..(k - 1)
  OBVIOUS

\* A later time is not in an earlier tick.
LEMMA DivMono ==
  ASSUME NEW k \in Nat \ {0}, NEW i \in Nat, NEW j \in Nat, i <= j
  PROVE  i \div k <= j \div k
  <1> DEFINE p == i \div k
             q == j \div k
             r == i % k
             s == j % k
  <1>1. i = k * p + r /\ j = k * q + s BY DivMod
  <1>2. p \in Nat /\ q \in Nat /\ r \in 0..(k - 1) /\ s \in 0..(k - 1)
    BY DivModType
  <1>3. SUFFICES ASSUME q < p PROVE FALSE BY <1>2
  <1> HIDE DEF p, q, r, s
  <1>4. k * q + k <= k * p BY <1>2, <1>3, MultiplesApart
  <1>5. k * p \in Int /\ k * q \in Int BY <1>2
  <1>6. QED BY <1>1, <1>2, <1>4, <1>5

\* Whole turns do not change the slot.
LEMMA ModAdd ==
  ASSUME NEW k \in Nat \ {0}, NEW i \in Nat, NEW n \in Nat
  PROVE  (i + k * n) \in Nat /\ (i + k * n) % k = i % k
  <1> DEFINE j == i + k * n
             p == i \div k
             q == j \div k
             r == i % k
             s == j % k
  <1>1. j \in Nat
    <2>1. k * n \in Nat OBVIOUS
    <2>2. QED BY <2>1
  <1>2. i = k * p + r /\ j = k * q + s BY <1>1, DivMod
  <1>3. p \in Nat /\ q \in Nat /\ r \in 0..(k - 1) /\ s \in 0..(k - 1)
    BY <1>1, DivModType
  <1>4. j = i + k * n OBVIOUS
  <1> HIDE DEF j, p, q, r, s
  <1>5. k * (p + n) = k * p + k * n BY <1>3
  <1>6. k * p \in Int /\ k * q \in Int /\ k * n \in Int /\ k * (p + n) \in Int
    BY <1>3
  <1>7. CASE p + n < q
    <2>1. k * (p + n) + k <= k * q BY <1>3, <1>7, MultiplesApart
    <2>2. FALSE BY <1>2, <1>3, <1>4, <1>5, <1>6, <2>1
    <2>3. QED BY <2>2
  <1>8. CASE q < p + n
    <2>1. k * q + k <= k * (p + n) BY <1>3, <1>8, MultiplesApart
    <2>2. FALSE BY <1>2, <1>3, <1>4, <1>5, <1>6, <2>1
    <2>3. QED BY <2>2
  <1>9. CASE q = p + n
    <2>1. r = s BY <1>2, <1>3, <1>4, <1>5, <1>6, <1>9
    <2>2. QED BY <1>1, <2>1 DEF j, r, s
  <1>10. QED BY <1>3, <1>7, <1>8, <1>9

\* Any k consecutive numbers visit every slot: from m on, the slot of i, which
\* lies before m, comes up within one turn.
LEMMA TurnVisits ==
  ASSUME NEW k \in Nat \ {0}, NEW i \in Nat, NEW m \in Nat, i <= m
  PROVE  \E j \in Nat : j >= m /\ j < m + k /\ j % k = i % k
  <1> DEFINE e == m - i + k - 1
             n == e \div k
             r == e % k
  <1>1. e \in Nat OBVIOUS
  <1>2. e = k * n + r BY <1>1, DivMod
  <1>3. n \in Nat /\ r \in 0..(k - 1) BY <1>1, DivModType
  <1>4. e = m - i + k - 1 OBVIOUS
  <1> HIDE DEF e, n, r
  <1>5. i + k * n \in Nat /\ (i + k * n) % k = i % k BY <1>3, ModAdd
  <1>6. k * n \in Int BY <1>3
  <1>7. i + k * n >= m /\ i + k * n < m + k BY <1>2, <1>3, <1>4, <1>6
  <1>8. QED BY <1>5, <1>7
=============================================================================
