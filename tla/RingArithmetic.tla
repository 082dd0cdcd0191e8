--------------------------- MODULE RingArithmetic ---------------------------
(***************************************************************************)
(* Facts about the remainder by the size of a ring.                        *)
(***************************************************************************)
EXTENDS Integers, TLAPS


(* Division with remainder, for a divisor that is not constant.  A claim   *)
(* number is a number of rounds of the ring and a slot.                    *)
LEMMA DivMod ==
  ASSUME NEW M \in Nat \ {0}, NEW n \in Nat
  PROVE n = M * (n \div M) + (n % M) /\ n % M \in 0 .. M - 1 /\ n \div M \in Nat
OBVIOUS

(* The rounds and the slot are determined by the claim number.             *)
LEMMA Uniq ==
  ASSUME NEW M \in Nat \ {0}, NEW q1 \in Int, NEW q2 \in Int, NEW r1 \in 0..M-1, NEW r2 \in 0..M-1,
         M * q1 + r1 = M * q2 + r2
  PROVE q1 = q2 /\ r1 = r2
<1>1. M * (q1 - q2) = r2 - r1
  OBVIOUS
<1>2. q1 - q2 <= 0 
  <2> SUFFICES ASSUME q1 - q2 >= 1 PROVE FALSE OBVIOUS
  <2>1. M * (q1 - q2) >= M OBVIOUS
  <2> QED BY <1>1, <2>1
<1>3. q1 - q2 >= 0
  <2> SUFFICES ASSUME q2 - q1 >= 1 PROVE FALSE OBVIOUS
  <2>1. M * (q2 - q1) >= M OBVIOUS
  <2>2. M * (q2 - q1) = r1 - r2 BY <1>1
  <2> QED BY <2>2, <2>1
<1> QED BY <1>2, <1>3

(* The remainder of a successor: the index that NewNextIndex leaves behind *)
(* (cift.c:122-128) is the slot of the next claim.                         *)
LEMMA ModNext ==
  ASSUME NEW M \in Nat \ {0}, NEW n \in Nat
  PROVE (n + 1) % M = IF (n % M) + 1 >= M THEN 0 ELSE (n % M) + 1
<1> DEFINE q == n \div M
           r == n % M
           p == (n + 1) \div M
           s == (n + 1) % M
<1>1. n = M * q + r /\ r \in 0 .. M - 1 /\ q \in Nat
  BY DivMod
<1>2. n + 1 = M * p + s /\ s \in 0 .. M - 1 /\ p \in Nat
  <2>1. n + 1 \in Nat
    OBVIOUS
  <2> QED BY <2>1, DivMod
<1> HIDE DEF q, r, p, s
<1>3. CASE r + 1 >= M
  <2> DEFINE z == 0
             d == q + 1
  <2>1. M * d + z = M * p + s
    BY <1>1, <1>2, <1>3
  <2>2. z \in 0 .. M - 1 /\ d \in Int /\ p \in Int /\ s \in 0 .. M - 1
    BY <1>1, <1>2
  <2>3. d = p /\ z = s
    <3> HIDE DEF z, d
    <3> QED BY <2>1, <2>2, Uniq
  <2> QED BY <2>3, <1>3 DEF r, s
<1>4. CASE r + 1 < M
  <2>1. M * q + (r + 1) = M * p + s
    BY <1>1, <1>2, <1>4
  <2>2. r + 1 \in 0 .. M - 1
    BY <1>1, <1>4
  <2>3. s = r + 1
    BY <1>1, <1>2, <2>1, <2>2, Uniq
  <2>4. r + 1 >= M <=> FALSE
    BY <1>1, <1>4
  <2> QED BY <2>3, <2>4 DEF r, s
<1> QED BY <1>1, <1>3, <1>4

(* Two claims of one slot are at least a whole ring apart.                 *)
LEMMA ModGap ==
  ASSUME NEW M \in Nat \ {0}, NEW m \in Nat, NEW n \in Nat, m < n, m % M = n % M
  PROVE n >= m + M
<1>1. m = M * (m \div M) + (m % M) /\ m \div M \in Nat
  BY DivMod
<1>2. n = M * (n \div M) + (n % M) /\ n \div M \in Nat
  BY DivMod
<1>3. M * ((n \div M) - (m \div M)) = n - m /\ n - m > 0
  BY <1>1, <1>2
<1>4. (n \div M) - (m \div M) >= 1
  BY <1>3, <1>1, <1>2
<1>5. M * ((n \div M) - (m \div M)) >= M
  BY <1>4, <1>1, <1>2
<1> QED BY <1>3, <1>5

(* A slot is its own remainder.                                            *)
LEMMA ModSlot ==
  ASSUME NEW M \in Nat \ {0}, NEW r \in 0 .. M - 1
  PROVE  r % M = r
<1>1. r \in Nat
  OBVIOUS
<1>2. r = M * (r \div M) + (r % M) /\ r % M \in 0 .. M - 1 /\ r \div M \in Nat
  BY <1>1, DivMod
<1>3. M * 0 + r = M * (r \div M) + (r % M)
  BY <1>1, <1>2
<1> QED BY <1>2, <1>3, Uniq

(* The slot after a slot.                                                  *)
LEMMA ModSucc ==
  ASSUME NEW M \in Nat \ {0}, NEW n \in Nat
  PROVE  ((n % M) + 1) % M = (n + 1) % M
<1> DEFINE r == n % M
<1>1. r \in 0 .. M - 1 /\ r \in Nat
  BY DivMod
<1>2. r % M = r
  BY <1>1, ModSlot
<1>3. (r + 1) % M = IF (r % M) + 1 >= M THEN 0 ELSE (r % M) + 1
  <2> HIDE DEF r
  <2> QED BY <1>1, ModNext
<1>4. (n + 1) % M = IF r + 1 >= M THEN 0 ELSE r + 1
  BY ModNext
<1> QED BY <1>2, <1>3, <1>4

(* A whole ring further on is the same slot.                               *)
LEMMA ModRing ==
  ASSUME NEW M \in Nat \ {0}, NEW n \in Nat
  PROVE  (n + M) % M = n % M
<1> DEFINE q == n \div M
           r == n % M
           p == (n + M) \div M
           s == (n + M) % M
<1>1. n = M * q + r /\ r \in 0 .. M - 1 /\ q \in Nat
  BY DivMod
<1>2. n + M = M * p + s /\ s \in 0 .. M - 1 /\ p \in Nat
  <2>1. n + M \in Nat
    OBVIOUS
  <2> QED BY <2>1, DivMod
<1> HIDE DEF q, r, p, s
<1>3. M * (q + 1) = M * q + M
  BY <1>1
<1>4. M * (q + 1) + r = M * p + s
  BY <1>1, <1>2, <1>3
<1>5. q + 1 \in Int /\ p \in Int
  BY <1>1, <1>2
<1>6. r = s
  BY <1>1, <1>2, <1>4, <1>5, Uniq
<1> QED BY <1>6 DEF r, s

(* From the slot of n it is as far to the slot of n + j as from n.         *)
LEMMA ModShift ==
  ASSUME NEW M \in Nat \ {0}, NEW n \in Nat, NEW j \in Nat
  PROVE  ((n % M) + j) % M = (n + j) % M
<1> DEFINE q == n \div M
           r == n % M
           p == (r + j) \div M
           s == (r + j) % M
           u == (n + j) \div M
           v == (n + j) % M
<1>1. n = M * q + r /\ r \in 0 .. M - 1 /\ q \in Nat
  BY DivMod
<1>2. r + j = M * p + s /\ s \in 0 .. M - 1 /\ p \in Nat
  <2>1. r + j \in Nat
    BY <1>1
  <2> HIDE DEF r
  <2> QED BY <2>1, DivMod
<1>3. n + j = M * u + v /\ v \in 0 .. M - 1 /\ u \in Nat
  <2>1. n + j \in Nat
    OBVIOUS
  <2> QED BY <2>1, DivMod
<1> HIDE DEF q, r, p, s, u, v
<1> DEFINE w == q + p
<1>4. M * w = M * q + M * p
  BY <1>1, <1>2
<1>5. M * w + s = M * u + v
  BY <1>1, <1>2, <1>3, <1>4
<1>6. w \in Int /\ u \in Int
  BY <1>1, <1>2, <1>3
<1> HIDE DEF w
<1>7. s \in 0 .. M - 1 /\ v \in 0 .. M - 1
  BY <1>2, <1>3
<1>8. s = v
  BY <1>5, <1>6, <1>7, Uniq
<1> QED BY <1>8 DEF r, s, v

=============================================================================
