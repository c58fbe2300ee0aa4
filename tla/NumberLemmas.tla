---------------------------- MODULE NumberLemmas ----------------------------
(***************************************************************************)
(* What the proofs of several modules need of numbers: quotients and       *)
(* remainders, and induction.                                              *)
(***************************************************************************)
EXTENDS Integers, WellFoundedInduction, TLAPS

(* Remainders. *)

LEMMA Quotient ==
    ASSUME NEW a \in Int, NEW p \in Nat \ {0}
    PROVE  \E k \in Int, r \in 0 .. p - 1 : a = p * k + r /\ a \div p = k /\ a % p = r
<1>1. PICK k \in Int : k = a \div p /\ p * k <= a /\ a < p * k + p
  BY Z3
<1>2. a % p = a - p * k
  BY <1>1
<1> QED
  BY <1>1, <1>2

\* What lies within one period of a multiple.
LEMMA Remainder ==
    ASSUME NEW a \in Int, NEW p \in Nat \ {0}, NEW k \in Int, NEW r \in 0 .. p - 1,
           a = p * k + r
    PROVE  a % p = r /\ a \div p = k
<1>1. PICK q \in Int, s \in 0 .. p - 1 : a = p * q + s /\ a \div p = q /\ a % p = s
  BY Quotient
<1>2. p * (q - k) = r - s
  BY <1>1, Z3
<1>3. q - k >= 1 => p * (q - k) >= p
  BY <1>1, Z3
<1>4. q - k <= -1 => p * (q - k) <= -p
  BY <1>1, Z3
<1>5. ~(q - k >= 1) /\ ~(q - k <= -1)
  BY <1>1, <1>2, <1>3, <1>4
<1>6. q = k
  BY <1>1, <1>5
<1> QED
  BY <1>1, <1>6

\* A sum does not see that a remainder was taken before.
LEMMA RemainderOfSum ==
    ASSUME NEW a \in Int, NEW b \in Int, NEW p \in Nat \ {0}
    PROVE  ((a % p) + b) % p = (a + b) % p
<1>1. PICK k \in Int, s \in 0 .. p - 1 : a = p * k + s /\ a % p = s
  BY Quotient
<1>2. PICK l \in Int, r \in 0 .. p - 1 : s + b = p * l + r /\ (s + b) % p = r
  <2>1. s + b \in Int
    OBVIOUS
  <2> QED
    BY <2>1, Quotient
<1>3. a + b = p * (k + l) + r
  <2>1. p * (k + l) = p * k + p * l
    BY Z3
  <2> QED
    BY <1>1, <1>2, <2>1
<1>4. a + b \in Int /\ k + l \in Int
  OBVIOUS
<1>5. (a + b) % p = r
  BY <1>3, <1>4, Remainder
<1> QED
  BY <1>1, <1>2, <1>5

\* Nor does it see a multiple of the period.
LEMMA RemainderWithout ==
    ASSUME NEW x \in Int, NEW p \in Nat \ {0}, NEW k \in Int
    PROVE  (p * k + x) % p = x % p
<1>1. PICK l \in Int, s \in 0 .. p - 1 : x = p * l + s /\ x % p = s
  BY Quotient
<1> DEFINE y == p * k + x
<1>2. y = p * (k + l) + s
  <2>1. p * (k + l) = p * k + p * l /\ p * k \in Int /\ p * l \in Int
    BY Z3
  <2> QED
    BY <1>1, <2>1
<1>3. y \in Int /\ k + l \in Int
  BY Z3
<1> HIDE DEF y
<1>4. y % p = s
  BY <1>2, <1>3, Remainder
<1> QED
  BY <1>1, <1>4 DEF y

LEMMA RemainderOfSmall ==
    ASSUME NEW p \in Nat \ {0}, NEW a \in 0 .. p - 1
    PROVE  a % p = a
<1>1. a = p * 0 + a
  BY Z3
<1> QED
  BY <1>1, Remainder

\* A value seen n ticks ago is seen n + 1 ticks ago after the next one.
LEMMA OneTickOlder ==
    ASSUME NEW p \in Nat \ {0}, NEW c \in 0 .. p - 1, NEW n \in Nat
    PROVE  (((c + 1) % p) - (n + 1)) % p = (c - n) % p
<1>1. (((c + 1) % p) + (-(n + 1))) % p = ((c + 1) + (-(n + 1))) % p
  <2>1. c + 1 \in Int /\ -(n + 1) \in Int
    OBVIOUS
  <2> QED
    BY <2>1, RemainderOfSum
<1>2. (c + 1) % p \in Int
  OBVIOUS
<1>3. /\ ((c + 1) % p) + (-(n + 1)) = ((c + 1) % p) - (n + 1)
      /\ (c + 1) + (-(n + 1)) = c - n
  BY <1>2
<1> QED
  BY <1>1, <1>3

\* ... and n ticks take a value that was seen n ticks ago to the present one.
LEMMA AgeHasPassed ==
    ASSUME NEW p \in Nat \ {0}, NEW c \in 0 .. p - 1, NEW n \in Nat
    PROVE  (((c - n) % p) + n) % p = c
<1>1. (((c - n) % p) + n) % p = ((c - n) + n) % p
  <2>1. c - n \in Int /\ n \in Int
    OBVIOUS
  <2> QED
    BY <2>1, RemainderOfSum
<1>2. (c - n) + n = c
  OBVIOUS
<1> QED
  BY <1>1, <1>2, RemainderOfSmall

LEMMA NextOfSum ==
    ASSUME NEW p \in Nat \ {0}, NEW v \in Int, NEW e \in Nat
    PROVE  (((v + e) % p) + 1) % p = (v + (e + 1)) % p
<1>1. (((v + e) % p) + 1) % p = ((v + e) + 1) % p
  <2>1. v + e \in Int /\ 1 \in Int
    OBVIOUS
  <2> QED
    BY <2>1, RemainderOfSum
<1>2. (v + e) + 1 = v + (e + 1)
  OBVIOUS
<1> QED
  BY <1>1, <1>2

\* A remainder is no more than the number.
LEMMA RemainderIsLess ==
    ASSUME NEW p \in Nat \ {0}, NEW a \in Nat
    PROVE  a % p <= a
<1>1. PICK k \in Int, r \in 0 .. p - 1 : a = p * k + r /\ a % p = r
  <2>1. a \in Int
    OBVIOUS
  <2> QED
    BY <2>1, Quotient
<1>2. k <= -1 => p * k <= -p
  BY Z3
<1>3. k >= 0 => p * k >= 0
  BY Z3
<1> QED
  BY <1>1, <1>2, <1>3

\* Numbers closer than p with one remainder are the same.
LEMMA SameRemainder ==
    ASSUME NEW p \in Nat \ {0}, NEW a \in Int, NEW b \in Int, a % p = b % p,
           a - b < p, b - a < p
    PROVE  a = b
<1>1. PICK k \in Int, r \in 0 .. p - 1 : a = p * k + r /\ a % p = r
  BY Quotient
<1>2. PICK l \in Int, s \in 0 .. p - 1 : b = p * l + s /\ b % p = s
  BY Quotient
<1>3. p * (k - l) = a - b
  BY <1>1, <1>2, Z3
<1>4. k - l >= 1 => p * (k - l) >= p
  BY <1>1, <1>2, Z3
<1>5. k - l <= -1 => p * (k - l) <= -p
  BY <1>1, <1>2, Z3
<1>6. k = l
  BY <1>1, <1>2, <1>3, <1>4, <1>5
<1> QED
  BY <1>1, <1>2, <1>6

-----------------------------------------------------------------------------
(* Induction, by the least number without a property. *)

Below == {ss \in Nat \X Nat : ss[1] < ss[2]}

LEMMA BelowIsWellFounded == IsWellFoundedOn(Below, Nat)
BY NatLessThanWellFounded DEF Below, OpToRel

LEMMA Least ==
    ASSUME NEW T \in SUBSET Nat, T # {}
    PROVE  \E m \in T : \A n \in T : m <= n
<1>1. PICK m \in T : \A n \in T : ~(<<n, m>> \in Below)
  BY BelowIsWellFounded, WFMin
<1>2. ASSUME NEW n \in T
      PROVE  m <= n
  <2>1. n \in Nat /\ m \in Nat /\ ~(<<n, m>> \in Below)
    BY <1>1
  <2> QED
    BY <2>1 DEF Below
<1> QED
  BY <1>2

LEMMA Induction ==
    ASSUME NEW S, 0 \in S, \A n \in Nat : n \in S => n + 1 \in S
    PROVE  \A n \in Nat : n \in S
<1> SUFFICES ASSUME NEW k \in Nat, k \notin S
             PROVE  FALSE
  OBVIOUS
<1> DEFINE T == Nat \ S
<1>1. PICK m \in T : \A n \in T : m <= n
  <2>1. T \in SUBSET Nat /\ T # {}
    OBVIOUS
  <2> HIDE DEF T
  <2> QED
    BY <2>1, Least
<1>2. m # 0 /\ m - 1 \in Nat
  OBVIOUS
<1>3. m - 1 \in S
  BY <1>1, <1>2
<1>4. m - 1 + 1 \in S
  BY <1>2, <1>3
<1> QED
  BY <1>4
=============================================================================
