---------------------------- MODULE NaturalFacts ----------------------------
(***************************************************************************)
(* Induction on the natural numbers, in a form its users can instantiate,  *)
(* and what quotients and remainders are: facts of arithmetic, about no    *)
(* state of the program.                                                   *)
(***************************************************************************)
EXTENDS Integers, WellFoundedInduction, TLAPS

(* Induction on the natural numbers, for a set of them.                     *)
LEMMA Induction ==
  ASSUME NEW S, 0 \in S, \A n \in Nat : n \in S => n + 1 \in S
  PROVE  Nat \subseteq S
<1>1. SUFFICES ASSUME {n \in Nat : n \notin S} # {} PROVE FALSE
  OBVIOUS
<1> DEFINE R == OpToRel(<, Nat)
           B == {n \in Nat : n \notin S}
<1>2. IsWellFoundedOn(R, Nat)
  BY NatLessThanWellFounded
<1>3. \A i, j \in Nat : i < j => <<i, j>> \in R
  BY DEF OpToRel
<1> HIDE DEF R
<1>4. PICK m \in B : \A k \in B : ~(<<k, m>> \in R)
  <2>1. B \subseteq Nat /\ B # {}
    BY <1>1
  <2> HIDE DEF B
  <2>2. QED
    BY <1>2, <2>1, WFMin
<1>5. CASE m = 0
  BY <1>5
<1>6. CASE m # 0
  <2>1. m - 1 \in Nat /\ m - 1 < m
    BY <1>6
  <2>2. m - 1 \in S
    BY <2>1, <1>3, <1>4
  <2>3. QED
    BY <2>1, <2>2, <1>4
<1>7. QED
  BY <1>5, <1>6

(* A set of natural numbers has a smallest one.                             *)
LEMMA Smallest ==
  ASSUME NEW B \in SUBSET Nat, B # {}
  PROVE  \E m \in B : \A k \in B : m <= k
<1> DEFINE R == OpToRel(<, Nat)
<1>1. IsWellFoundedOn(R, Nat)
  BY NatLessThanWellFounded
<1>2. \A i, j \in Nat : i < j => <<i, j>> \in R
  BY DEF OpToRel
<1> HIDE DEF R
<1>3. PICK m \in B : \A k \in B : ~(<<k, m>> \in R)
  BY <1>1, WFMin
<1>4. m \in Nat
  OBVIOUS
<1>5. ASSUME NEW k \in B PROVE m <= k
  <2>1. k \in Nat /\ ~(k < m)
    BY <1>2, <1>3, <1>4
  <2>2. QED
    BY <2>1, <1>4
<1>6. QED
  BY <1>5

-----------------------------------------------------------------------------
(* The remainder is the one number below the modulus that is so far away.   *)
LEMMA RemainderIs ==
  ASSUME NEW M \in Nat \ {0}, NEW a \in Int
  PROVE  /\ a % M \in 0 .. M - 1
         /\ a \div M \in Int
         /\ a = (a \div M) * M + (a % M)
  OBVIOUS

\* A multiple of M strictly between -M and M is zero times M.
LEMMA MultipleIsSmall ==
  ASSUME NEW M \in Nat \ {0}, NEW k \in Int, k * M < M, -M < k * M
  PROVE  k = 0
<1>1. CASE k >= 1
  <2>1. (k - 1) * M >= 0
    BY <1>1
  <2>2. (k - 1) * M = k * M - M
    OBVIOUS
  <2>3. QED
    BY <2>1, <2>2
<1>2. CASE k <= -1
  <2>1. (-1 - k) * M >= 0
    BY <1>2
  <2>2. (-1 - k) * M = -M - k * M
    OBVIOUS
  <2>3. QED
    BY <2>1, <2>2
<1>3. QED
  BY <1>1, <1>2

\* A residue that differs from a number by a multiple is its remainder.
LEMMA RemainderUnique ==
  ASSUME NEW M \in Nat \ {0}, NEW a \in Int, NEW r \in 0 .. M - 1, NEW k \in Int, a = k * M + r
  PROVE  a % M = r
<1> DEFINE q == a \div M
           s == a % M
<1>1. s \in 0 .. M - 1 /\ q \in Int /\ a = q * M + s
  BY RemainderIs
<1> HIDE DEF q, s
<1>2. (k - q) * M = s - r
  <2>1. k * M \in Int /\ q * M \in Int /\ (k - q) * M = k * M - q * M
    BY <1>1
  <2>2. QED
    BY <1>1, <2>1
<1>3. k - q = 0
  BY <1>1, <1>2, MultipleIsSmall
<1>4. QED
  BY <1>1, <1>2, <1>3 DEF s

(* A quotient is the only factor that leaves a remainder.                   *)
LEMMA QuotientUnique ==
  ASSUME NEW M \in Nat \ {0}, NEW a \in Int, NEW r \in 0 .. M - 1, NEW k \in Int, a = k * M + r
  PROVE  a \div M = k
<1> DEFINE q == a \div M
           s == a % M
<1>1. s \in 0 .. M - 1 /\ q \in Int /\ a = q * M + s
  BY RemainderIs
<1>2. s = r
  BY RemainderUnique
<1> HIDE DEF q, s
<1>3. (k - q) * M = 0
  <2>1. k * M \in Int /\ q * M \in Int /\ (k - q) * M = k * M - q * M
    BY <1>1
  <2>2. QED
    BY <1>1, <1>2, <2>1
<1>4. k - q = 0
  BY <1>1, <1>3, MultipleIsSmall
<1>5. QED
  BY <1>1, <1>4 DEF q

(* Congruent numbers have one remainder.                                    *)
LEMMA SameRemainder ==
  ASSUME NEW M \in Nat \ {0}, NEW a \in Int, NEW b \in Int, NEW k \in Int, a = b + k * M
  PROVE  a % M = b % M
<1>1. b % M \in 0 .. M - 1 /\ b \div M \in Int /\ b = (b \div M) * M + (b % M)
  BY RemainderIs
<1> DEFINE q == b \div M
           r == b % M
<1>2. q \in Int /\ r \in 0 .. M - 1 /\ b = q * M + r
  BY <1>1
<1> HIDE DEF q, r
<1>3. q + k \in Int /\ a = (q + k) * M + r
  BY <1>2
<1>4. a % M = r
  BY <1>2, <1>3, RemainderUnique
<1>5. QED
  BY <1>4 DEF r

(* A sum, a difference and a product see no more of a number than its       *)
(* remainder.                                                               *)
LEMMA RemainderOfSum ==
  ASSUME NEW M \in Nat \ {0}, NEW a \in Int, NEW b \in Int
  PROVE  /\ ((a % M) + b) % M = (a + b) % M
         /\ (b + (a % M)) % M = (b + a) % M
         /\ ((a % M) - b) % M = (a - b) % M
         /\ (b - (a % M)) % M = (b - a) % M
<1> DEFINE q == a \div M
           r == a % M
<1>1. r \in Int /\ q \in Int /\ a = q * M + r
  BY RemainderIs
<1> HIDE DEF q, r
<1>2. -q \in Int /\ (-q) * M = -(q * M) /\ q * M \in Int
  BY <1>1
<1>3. /\ a + b = (r + b) + q * M
      /\ b + a = (b + r) + q * M
      /\ a - b = (r - b) + q * M
      /\ b - a = (b - r) + (-q) * M
  BY <1>1, <1>2
<1>4. /\ (a + b) % M = (r + b) % M
      /\ (b + a) % M = (b + r) % M
      /\ (a - b) % M = (r - b) % M
      /\ (b - a) % M = (b - r) % M
  <2>1. ASSUME NEW x \in Int, NEW y \in Int, NEW k \in Int, x = y + k * M
        PROVE  x % M = y % M
    BY <2>1, SameRemainder
  <2>2. (a + b) % M = (r + b) % M
    <3> DEFINE x == a + b
               y == r + b
    <3>1. x \in Int /\ y \in Int /\ x = y + q * M
      BY <1>1, <1>3
    <3> HIDE DEF x, y
    <3>2. x % M = y % M
      BY <1>1, <2>1, <3>1
    <3>3. QED
      BY <3>2 DEF x, y
  <2>3. a + b = b + a /\ r + b = b + r
    BY <1>1
  <2>4. (b + a) % M = (b + r) % M
    BY <2>2, <2>3
  <2>5. (a - b) % M = (r - b) % M
    <3> DEFINE x == a - b
               y == r - b
    <3>1. x \in Int /\ y \in Int /\ x = y + q * M
      BY <1>1, <1>3
    <3> HIDE DEF x, y
    <3>2. x % M = y % M
      BY <1>1, <2>1, <3>1
    <3>3. QED
      BY <3>2 DEF x, y
  <2>6. (b - a) % M = (b - r) % M
    <3> DEFINE x == b - a
               y == b - r
               k == -q
    <3>1. x \in Int /\ y \in Int /\ k \in Int /\ x = y + k * M
      BY <1>1, <1>2, <1>3
    <3> HIDE DEF x, y, k
    <3>2. x % M = y % M
      BY <2>1, <3>1
    <3>3. QED
      BY <3>2 DEF x, y
  <2>7. QED
    BY <2>2, <2>4, <2>5, <2>6
<1>5. QED
  BY <1>4 DEF r

\* A remainder may be taken of a factor first.
LEMMA RemainderOfProduct ==
  ASSUME NEW M \in Nat \ {0}, NEW a \in Int, NEW b \in Int
  PROVE  /\ ((a % M) * b) % M = (a * b) % M
         /\ (b * (a % M)) % M = (b * a) % M
<1> DEFINE q == a \div M
           r == a % M
<1>1. r \in Int /\ q \in Int /\ a = q * M + r
  BY RemainderIs
<1> HIDE DEF q, r
<1>2. /\ a * b = r * b + (q * b) * M
      /\ b * a = b * r + (q * b) * M
  BY <1>1
<1>3. q * b \in Int /\ a * b \in Int /\ r * b \in Int /\ b * a \in Int /\ b * r \in Int
  BY <1>1
<1>4. (a * b) % M = (r * b) % M /\ (b * a) % M = (b * r) % M
  BY <1>2, <1>3, SameRemainder
<1>5. QED
  BY <1>4 DEF r
=============================================================================
