-------------------------- MODULE Parties_proofs --------------------------
(***************************************************************************)
(* Theorems about Parties: what is assembled fits the sum of the secrets,  *)
(* for every ring, every number of parties and every vector of shares.     *)
(***************************************************************************)
EXTENDS Parties, NaturalFacts, FiniteSetTheorems, SequenceTheorems, TLAPS

-----------------------------------------------------------------------------
(* The ring. *)

\* The degree is a power of two, and the indices of an element run to it.
LEMMA DegreeIs ==
  /\ Degree \in Nat \ {0} /\ Index = 1 .. Degree
  /\ TwoTo \in [0 .. DegreePower -> Nat \ {0}]
  /\ TwoTo[0] = 1
  /\ \A n \in 1 .. DegreePower : TwoTo[n] = 2 * TwoTo[n - 1]
<1>0. DegreePower \in Nat
  BY RingAssumption
<1> DEFINE Step(g, m) == g = [n \in 0 .. m |-> IF n = 0 THEN 1 ELSE 2 * g[n - 1]]
           Have == {m \in Nat : \E g : Step(g, m) /\ \A n \in 0 .. m : g[n] \in Nat \ {0}}
<1>1. 0 \in Have
  <2> DEFINE g == [n \in 0 .. 0 |-> 1]
  <2>1. Step(g, 0)
    OBVIOUS
  <2>2. \A n \in 0 .. 0 : g[n] \in Nat \ {0}
    OBVIOUS
  <2> HIDE DEF g, Step
  <2>3. QED
    BY <2>1, <2>2
<1>2. ASSUME NEW m \in Nat, m \in Have
      PROVE  m + 1 \in Have
  <2>1. PICK g : Step(g, m) /\ \A n \in 0 .. m : g[n] \in Nat \ {0}
    BY <1>2
  <2> DEFINE h == [n \in 0 .. m + 1 |-> IF n = m + 1 THEN 2 * g[m] ELSE g[n]]
  <2>2. \A n \in 0 .. m : h[n] = g[n] /\ g[n] = IF n = 0 THEN 1 ELSE 2 * g[n - 1]
    BY <2>1
  <2>3. h[m + 1] = 2 * h[m] /\ h[m + 1] \in Nat \ {0}
    BY <2>1
  <2>4. \A n \in 0 .. m + 1 : h[n] = IF n = 0 THEN 1 ELSE 2 * h[n - 1]
    <3>1. SUFFICES ASSUME NEW n \in 0 .. m + 1
                   PROVE  h[n] = IF n = 0 THEN 1 ELSE 2 * h[n - 1]
      OBVIOUS
    <3>2. CASE n = m + 1
      BY <2>3, <3>2
    <3>3. CASE n # m + 1 /\ n # 0
      <4>1. n \in 0 .. m /\ n - 1 \in 0 .. m
        BY <3>3
      <4> HIDE DEF h
      <4>2. QED
        BY <2>2, <3>3, <4>1
    <3>4. CASE n = 0
      <4>1. 0 \in 0 .. m
        OBVIOUS
      <4> HIDE DEF h
      <4>2. QED
        BY <2>2, <3>4, <4>1
    <3>5. QED
      BY <3>2, <3>3, <3>4
  <2>5. Step(h, m + 1)
    BY <2>4
  <2>6. \A n \in 0 .. m + 1 : h[n] \in Nat \ {0}
    BY <2>1, <2>3
  <2> HIDE DEF h, Step
  <2>7. QED
    BY <2>5, <2>6
<1> HIDE DEF Step
<1>3. Nat \subseteq Have
  <2> HIDE DEF Have
  <2>1. QED
    BY <1>1, <1>2, Induction
<1>4. DegreePower \in Have
  BY <1>0, <1>3
<1>5. PICK g : Step(g, DegreePower) /\ \A n \in 0 .. DegreePower : g[n] \in Nat \ {0}
  BY <1>4
<1>6. Step(TwoTo, DegreePower)
  <2> DEFINE Loop == CHOOSE t : t = [n \in 0 .. DegreePower |-> IF n = 0 THEN 1 ELSE 2 * t[n - 1]]
  <2>1. Loop = [n \in 0 .. DegreePower |-> IF n = 0 THEN 1 ELSE 2 * Loop[n - 1]]
    BY <1>5 DEF Step
  <2>2. TwoTo = Loop
    BY DEF TwoTo
  <2>3. QED
    BY <2>1, <2>2 DEF Step
<1>7. \A n \in 0 .. DegreePower : TwoTo[n] = IF n = 0 THEN 1 ELSE 2 * TwoTo[n - 1]
  BY <1>6 DEF Step
<1>8. \A n \in Nat : n \in {k \in Nat : k <= DegreePower => TwoTo[k] \in Nat \ {0}}
  <2> DEFINE S == {k \in Nat : k <= DegreePower => TwoTo[k] \in Nat \ {0}}
  <2>1. 0 \in S
    BY <1>0, <1>7
  <2>2. ASSUME NEW n \in Nat, n \in S PROVE n + 1 \in S
    <3>1. SUFFICES ASSUME n + 1 <= DegreePower PROVE TwoTo[n + 1] \in Nat \ {0}
      OBVIOUS
    <3>2. TwoTo[n] \in Nat \ {0} /\ n + 1 \in 0 .. DegreePower /\ n + 1 # 0 /\ (n + 1) - 1 = n
      BY <1>0, <2>2, <3>1
    <3>3. TwoTo[n + 1] = 2 * TwoTo[n]
      BY <1>7, <3>2
    <3>4. QED
      BY <3>2, <3>3
  <2> HIDE DEF S
  <2>3. Nat \subseteq S
    BY <2>1, <2>2, Induction
  <2>4. QED
    BY <2>3 DEF S
<1>9. \A n \in 0 .. DegreePower : TwoTo[n] \in Nat \ {0}
  BY <1>0, <1>8
<1>10. TwoTo \in [0 .. DegreePower -> Nat \ {0}]
  <2>1. TwoTo = [n \in 0 .. DegreePower |-> TwoTo[n]]
    BY <1>6 DEF Step
  <2>2. QED
    BY <1>9, <2>1
<1>11. Degree \in Nat \ {0}
  BY <1>0, <1>9 DEF Degree
<1>12. QED
  BY <1>0, <1>7, <1>10, <1>11 DEF Index

(* Tuple only works a function out.                                        *)
LEMMA TupleIs ==
  ASSUME NEW T, NEW f \in [Index -> T]
  PROVE  Tuple(f) = f
<1>1. Degree \in Nat \ {0} /\ Index = 1 .. Degree
  BY DegreeIs
<1> DEFINE s == SubSeq(f, 1, Degree)
<1>2. \A i \in 1 .. Degree : f[i] \in T
  BY <1>1
<1>3. /\ s \in Seq(T) /\ Len(s) = Degree
      /\ \A i \in 1 .. Degree : s[i] = f[i]
  BY <1>1, <1>2, SubSeqProperties
<1> HIDE DEF s
<1>4. s = [i \in 1 .. Degree |-> s[i]]
  BY <1>3
<1>5. s = f
  BY <1>1, <1>3, <1>4
<1>6. QED
  BY <1>5 DEF Tuple, s

\* The coefficients of an element are residues.
LEMMA ElementHas ==
  /\ \A a \in Elements, i \in Index : a[i] \in 0 .. Modulus - 1
  /\ \A a, b \in Elements : (\A i \in Index : a[i] = b[i]) => a = b
  BY DEF Elements

\* What the pointwise operations return.
LEMMA PlusIs ==
  ASSUME NEW a \in Elements, NEW b \in Elements
  PROVE  /\ Plus(a, b) \in Elements
         /\ \A i \in Index : Plus(a, b)[i] = (a[i] + b[i]) % Modulus
<1> DEFINE f == [i \in Index |-> (a[i] + b[i]) % Modulus]
<1>1. \A i \in Index : (a[i] + b[i]) % Modulus \in 0 .. Modulus - 1
  <2>1. \A i \in Index : a[i] + b[i] \in Int
    BY ElementHas, RingAssumption
  <2>2. QED
    BY <2>1, RemainderIs, RingAssumption
<1>2. f \in [Index -> 0 .. Modulus - 1]
  BY <1>1
<1>3. Plus(a, b) = f
  BY <1>2, TupleIs DEF Plus
<1>4. QED
  BY <1>2, <1>3 DEF Elements

\* Subtraction stays in the ring.
LEMMA MinusIs ==
  ASSUME NEW a \in Elements, NEW b \in Elements
  PROVE  /\ Minus(a, b) \in Elements
         /\ \A i \in Index : Minus(a, b)[i] = (a[i] - b[i]) % Modulus
<1> DEFINE f == [i \in Index |-> (a[i] - b[i]) % Modulus]
<1>1. \A i \in Index : (a[i] - b[i]) % Modulus \in 0 .. Modulus - 1
  <2>1. \A i \in Index : a[i] - b[i] \in Int
    BY ElementHas, RingAssumption
  <2>2. QED
    BY <2>1, RemainderIs, RingAssumption
<1>2. f \in [Index -> 0 .. Modulus - 1]
  BY <1>1
<1>3. Minus(a, b) = f
  BY <1>2, TupleIs DEF Minus
<1>4. QED
  BY <1>2, <1>3 DEF Elements

\* So does a product, coefficient by coefficient.
LEMMA TimesIs ==
  ASSUME NEW a \in Elements, NEW b \in Elements
  PROVE  /\ Times(a, b) \in Elements
         /\ \A i \in Index : Times(a, b)[i] = (a[i] * b[i]) % Modulus
<1> DEFINE f == [i \in Index |-> (a[i] * b[i]) % Modulus]
<1>1. \A i \in Index : (a[i] * b[i]) % Modulus \in 0 .. Modulus - 1
  <2>1. \A i \in Index : a[i] * b[i] \in Int
    BY ElementHas, RingAssumption
  <2>2. QED
    BY <2>1, RemainderIs, RingAssumption
<1>2. f \in [Index -> 0 .. Modulus - 1]
  BY <1>1
<1>3. Times(a, b) = f
  BY <1>2, TupleIs DEF Times
<1>4. QED
  BY <1>2, <1>3 DEF Elements

\* A vector of integers, coded modulo the prime.
LEMMA ScaledIs ==
  ASSUME NEW k \in Int, NEW a \in [Index -> Int]
  PROVE  /\ Scaled(k, a) \in Elements
         /\ \A i \in Index : Scaled(k, a)[i] = (k * a[i]) % Modulus
<1> DEFINE f == [i \in Index |-> (k * a[i]) % Modulus]
<1>1. \A i \in Index : (k * a[i]) % Modulus \in 0 .. Modulus - 1
  <2>1. \A i \in Index : k * a[i] \in Int
    OBVIOUS
  <2>2. QED
    BY <2>1, RemainderIs, RingAssumption
<1>2. f \in [Index -> 0 .. Modulus - 1]
  BY <1>1
<1>3. Scaled(k, a) = f
  BY <1>2, TupleIs DEF Scaled
<1>4. QED
  BY <1>2, <1>3 DEF Elements

\* Zero is an element.
LEMMA ZeroIs ==
  Zero \in Elements /\ \A i \in Index : Zero[i] = 0
<1> DEFINE f == [i \in Index |-> 0]
<1>1. 0 \in 0 .. Modulus - 1
  BY RingAssumption
<1>2. f \in [Index -> 0 .. Modulus - 1]
  BY <1>1
<1>3. Zero = f
  BY <1>2, TupleIs DEF Zero
<1>4. QED
  BY <1>2, <1>3 DEF Elements

\* An element is a vector of integers.
LEMMA ElementsAreIntegers == Elements \subseteq [Index -> Int]
  BY RingAssumption DEF Elements

(* Elements with Plus are a commutative group, and every operation of the  *)
(* kernels is linear.                                                      *)
LEMMA SmallRemainder ==
  \A x \in 0 .. Modulus - 1 : x % Modulus = x
  BY RingAssumption

\* Addition commutes.
LEMMA PlusCommutes ==
  ASSUME NEW a \in Elements, NEW b \in Elements
  PROVE  Plus(a, b) = Plus(b, a)
<1>1. \A i \in Index : a[i] + b[i] = b[i] + a[i]
  BY ElementHas, RingAssumption
<1>2. \A i \in Index : Plus(a, b)[i] = Plus(b, a)[i]
  BY <1>1, PlusIs
<1>3. QED
  BY <1>2, ElementHas, PlusIs

\* Addition associates.
LEMMA PlusAssociates ==
  ASSUME NEW a \in Elements, NEW b \in Elements, NEW c \in Elements
  PROVE  Plus(Plus(a, b), c) = Plus(a, Plus(b, c))
<1>1. ASSUME NEW i \in Index
      PROVE  Plus(Plus(a, b), c)[i] = Plus(a, Plus(b, c))[i]
  <2>1. a[i] \in Int /\ b[i] \in Int /\ c[i] \in Int
    BY ElementHas, RingAssumption
  <2>2. /\ Plus(Plus(a, b), c)[i] = (((a[i] + b[i]) % Modulus) + c[i]) % Modulus
        /\ Plus(a, Plus(b, c))[i] = (a[i] + ((b[i] + c[i]) % Modulus)) % Modulus
    BY PlusIs
  <2>3. (((a[i] + b[i]) % Modulus) + c[i]) % Modulus = ((a[i] + b[i]) + c[i]) % Modulus
    <3>1. a[i] + b[i] \in Int
      BY <2>1
    <3>2. QED
      BY <2>1, <3>1, RemainderOfSum, RingAssumption
  <2>4. (a[i] + ((b[i] + c[i]) % Modulus)) % Modulus = (a[i] + (b[i] + c[i])) % Modulus
    <3>1. b[i] + c[i] \in Int
      BY <2>1
    <3>2. QED
      BY <2>1, <3>1, RemainderOfSum, RingAssumption
  <2>5. (a[i] + b[i]) + c[i] = a[i] + (b[i] + c[i])
    BY <2>1
  <2>6. QED
    BY <2>2, <2>3, <2>4, <2>5
<1>2. Plus(a, b) \in Elements /\ Plus(b, c) \in Elements
  BY PlusIs
<1>3. Plus(Plus(a, b), c) \in Elements /\ Plus(a, Plus(b, c)) \in Elements
  BY <1>2, PlusIs
<1>4. QED
  BY <1>1, <1>3, ElementHas

\* Zero adds nothing.
LEMMA PlusZero ==
  ASSUME NEW a \in Elements
  PROVE  Plus(a, Zero) = a
<1>1. ASSUME NEW i \in Index
      PROVE  Plus(a, Zero)[i] = a[i]
  <2>1. a[i] \in 0 .. Modulus - 1 /\ Zero[i] = 0
    BY ElementHas, ZeroIs
  <2>2. a[i] + Zero[i] = a[i]
    BY <2>1, RingAssumption
  <2>3. QED
    BY <2>1, <2>2, PlusIs, ZeroIs, SmallRemainder
<1>2. QED
  BY <1>1, ElementHas, PlusIs, ZeroIs

\* The laws of one residue that the operations on elements inherit.
LEMMA ResidueLaws ==
  ASSUME NEW x \in Int, NEW y \in Int, NEW z \in Int
  PROVE  /\ (((x + y) % Modulus) * z) % Modulus
                = (((x * z) % Modulus) + ((y * z) % Modulus)) % Modulus
         /\ (((x * y) % Modulus) * z) % Modulus = (x * ((y * z) % Modulus)) % Modulus
         /\ (0 - ((x + y) % Modulus)) % Modulus
                = (((0 - x) % Modulus) + ((0 - y) % Modulus)) % Modulus
         /\ (x - y) % Modulus = (x + ((0 - y) % Modulus)) % Modulus
         /\ (x + ((0 - x) % Modulus)) % Modulus = 0
         /\ (((0 - x) % Modulus) * y) % Modulus = (0 - ((x * y) % Modulus)) % Modulus
<1> DEFINE M == Modulus
<1>0. M \in Nat \ {0} /\ M > 1
  BY RingAssumption
<1> HIDE DEF M
<1>1. /\ x + y \in Int /\ x * z \in Int /\ y * z \in Int /\ x * y \in Int
      /\ 0 - x \in Int /\ 0 - y \in Int
  OBVIOUS
<1>2. \A p, q \in Int : /\ ((p % M) + q) % M = (p + q) % M
                        /\ (q + (p % M)) % M = (q + p) % M
                        /\ (q - (p % M)) % M = (q - p) % M
                        /\ ((p % M) * q) % M = (p * q) % M
                        /\ (q * (p % M)) % M = (q * p) % M
                        /\ p % M \in Int
  <2>1. SUFFICES ASSUME NEW p \in Int, NEW q \in Int
                 PROVE  /\ ((p % M) + q) % M = (p + q) % M
                        /\ (q + (p % M)) % M = (q + p) % M
                        /\ (q - (p % M)) % M = (q - p) % M
                        /\ ((p % M) * q) % M = (p * q) % M
                        /\ (q * (p % M)) % M = (q * p) % M
                        /\ p % M \in Int
    OBVIOUS
  <2>2. /\ ((p % M) + q) % M = (p + q) % M
        /\ (q + (p % M)) % M = (q + p) % M
        /\ (q - (p % M)) % M = (q - p) % M
    BY <1>0, RemainderOfSum
  <2>3. /\ ((p % M) * q) % M = (p * q) % M
        /\ (q * (p % M)) % M = (q * p) % M
    BY <1>0, RemainderOfProduct
  <2>4. p % M \in Int
    BY <1>0, RemainderIs
  <2>5. QED
    BY <2>2, <2>3, <2>4
<1>3. (((x + y) % M) * z) % M = (((x * z) % M) + ((y * z) % M)) % M
  <2>1. (((x + y) % M) * z) % M = ((x + y) * z) % M
    BY <1>1, <1>2
  <2>2. (((x * z) % M) + ((y * z) % M)) % M = ((x * z) + ((y * z) % M)) % M
    <3> DEFINE p == x * z q == (y * z) % M
    <3>1. p \in Int /\ q \in Int
      BY <1>1, <1>2
    <3> HIDE DEF p, q
    <3>2. ((p % M) + q) % M = (p + q) % M
      BY <1>0, <3>1, RemainderOfSum
    <3>3. QED
      BY <3>2 DEF p, q
  <2>3. ((x * z) + ((y * z) % M)) % M = (x * z + y * z) % M
    BY <1>1, <1>2
  <2>4. (x + y) * z = x * z + y * z
    OBVIOUS
  <2>5. QED
    BY <2>1, <2>2, <2>3, <2>4
<1>4. (((x * y) % M) * z) % M = (x * ((y * z) % M)) % M
  <2>1. (((x * y) % M) * z) % M = ((x * y) * z) % M
    BY <1>1, <1>2
  <2>2. (x * ((y * z) % M)) % M = (x * (y * z)) % M
    BY <1>1, <1>2
  <2>3. (x * y) * z = x * (y * z)
    OBVIOUS
  <2>4. QED
    BY <2>1, <2>2, <2>3
<1>5. (0 - ((x + y) % M)) % M = (((0 - x) % M) + ((0 - y) % M)) % M
  <2>1. (0 - ((x + y) % M)) % M = (0 - (x + y)) % M
    BY <1>1, <1>2
  <2>2. (((0 - x) % M) + ((0 - y) % M)) % M = ((0 - x) + ((0 - y) % M)) % M
    <3> DEFINE p == 0 - x q == (0 - y) % M
    <3>1. p \in Int /\ q \in Int
      BY <1>1, <1>2
    <3> HIDE DEF p, q
    <3>2. ((p % M) + q) % M = (p + q) % M
      BY <1>0, <3>1, RemainderOfSum
    <3>3. QED
      BY <3>2 DEF p, q
  <2>3. ((0 - x) + ((0 - y) % M)) % M = ((0 - x) + (0 - y)) % M
    BY <1>1, <1>2
  <2>4. (0 - x) + (0 - y) = 0 - (x + y)
    OBVIOUS
  <2>5. QED
    BY <2>1, <2>2, <2>3, <2>4
<1>6. (x - y) % M = (x + ((0 - y) % M)) % M
  <2>1. (x + ((0 - y) % M)) % M = (x + (0 - y)) % M
    BY <1>1, <1>2
  <2>2. x + (0 - y) = x - y
    OBVIOUS
  <2>3. QED
    BY <2>1, <2>2
<1>7. (x + ((0 - x) % M)) % M = 0
  <2>1. (x + ((0 - x) % M)) % M = (x + (0 - x)) % M
    BY <1>1, <1>2
  <2>2. x + (0 - x) = 0
    OBVIOUS
  <2>3. 0 % M = 0
    BY <1>0
  <2>4. QED
    BY <2>1, <2>2, <2>3
<1>8. (((0 - x) % M) * y) % M = (0 - ((x * y) % M)) % M
  <2>1. (((0 - x) % M) * y) % M = ((0 - x) * y) % M
    BY <1>1, <1>2
  <2>2. (0 - ((x * y) % M)) % M = (0 - (x * y)) % M
    BY <1>1, <1>2
  <2>3. (0 - x) * y = 0 - (x * y)
    OBVIOUS
  <2>4. QED
    BY <2>1, <2>2, <2>3
<1>9. QED
  BY <1>3, <1>4, <1>5, <1>6, <1>7, <1>8 DEF M

Negated(a) == Minus(Zero, a)

\* A negation is an element.
LEMMA NegatedIs ==
  ASSUME NEW a \in Elements
  PROVE  /\ Negated(a) \in Elements
         /\ \A i \in Index : Negated(a)[i] = (0 - a[i]) % Modulus
  BY MinusIs, ZeroIs DEF Negated

\* Multiplication commutes.
LEMMA TimesCommutes ==
  ASSUME NEW a \in Elements, NEW b \in Elements
  PROVE  Times(a, b) = Times(b, a)
<1>1. \A i \in Index : a[i] * b[i] = b[i] * a[i]
  BY ElementHas, RingAssumption
<1>2. \A i \in Index : Times(a, b)[i] = Times(b, a)[i]
  BY <1>1, TimesIs
<1>3. QED
  BY <1>2, ElementHas, TimesIs

\* Multiplication distributes over addition.
LEMMA TimesDistributes ==
  ASSUME NEW a \in Elements, NEW b \in Elements, NEW c \in Elements
  PROVE  Times(Plus(a, b), c) = Plus(Times(a, c), Times(b, c))
<1>1. /\ Plus(a, b) \in Elements /\ Times(a, c) \in Elements /\ Times(b, c) \in Elements
  BY PlusIs, TimesIs
<1>2. /\ Times(Plus(a, b), c) \in Elements /\ Plus(Times(a, c), Times(b, c)) \in Elements
  BY <1>1, PlusIs, TimesIs
<1>3. ASSUME NEW i \in Index
      PROVE  Times(Plus(a, b), c)[i] = Plus(Times(a, c), Times(b, c))[i]
  <2>1. a[i] \in Int /\ b[i] \in Int /\ c[i] \in Int
    BY ElementHas, RingAssumption
  <2>2. Times(Plus(a, b), c)[i] = (((a[i] + b[i]) % Modulus) * c[i]) % Modulus
    BY <1>1, PlusIs, TimesIs
  <2>3. Plus(Times(a, c), Times(b, c))[i]
          = (((a[i] * c[i]) % Modulus) + ((b[i] * c[i]) % Modulus)) % Modulus
    BY <1>1, PlusIs, TimesIs
  <2>4. QED
    BY <2>1, <2>2, <2>3, ResidueLaws
<1>4. QED
  BY <1>2, <1>3, ElementHas

\* Multiplication associates.
LEMMA TimesAssociates ==
  ASSUME NEW a \in Elements, NEW b \in Elements, NEW c \in Elements
  PROVE  Times(Times(a, b), c) = Times(a, Times(b, c))
<1>1. /\ Times(a, b) \in Elements /\ Times(b, c) \in Elements
  BY TimesIs
<1>2. /\ Times(Times(a, b), c) \in Elements /\ Times(a, Times(b, c)) \in Elements
  BY <1>1, TimesIs
<1>3. ASSUME NEW i \in Index
      PROVE  Times(Times(a, b), c)[i] = Times(a, Times(b, c))[i]
  <2>1. a[i] \in Int /\ b[i] \in Int /\ c[i] \in Int
    BY ElementHas, RingAssumption
  <2>2. /\ Times(Times(a, b), c)[i] = (((a[i] * b[i]) % Modulus) * c[i]) % Modulus
        /\ Times(a, Times(b, c))[i] = (a[i] * ((b[i] * c[i]) % Modulus)) % Modulus
    BY <1>1, TimesIs
  <2>3. QED
    BY <2>1, <2>2, ResidueLaws
<1>4. QED
  BY <1>2, <1>3, ElementHas

\* The negation of a sum is the sum of the negations.
LEMMA NegatedDistributes ==
  ASSUME NEW a \in Elements, NEW b \in Elements
  PROVE  Negated(Plus(a, b)) = Plus(Negated(a), Negated(b))
<1>1. /\ Plus(a, b) \in Elements /\ Negated(a) \in Elements /\ Negated(b) \in Elements
  BY PlusIs, NegatedIs
<1>2. /\ Negated(Plus(a, b)) \in Elements /\ Plus(Negated(a), Negated(b)) \in Elements
  BY <1>1, PlusIs, NegatedIs
<1>3. ASSUME NEW i \in Index
      PROVE  Negated(Plus(a, b))[i] = Plus(Negated(a), Negated(b))[i]
  <2>1. a[i] \in Int /\ b[i] \in Int
    BY ElementHas, RingAssumption
  <2>2. /\ Negated(Plus(a, b))[i] = (0 - ((a[i] + b[i]) % Modulus)) % Modulus
        /\ Plus(Negated(a), Negated(b))[i]
             = (((0 - a[i]) % Modulus) + ((0 - b[i]) % Modulus)) % Modulus
    BY <1>1, PlusIs, NegatedIs
  <2>3. QED
    BY <2>1, <2>2, ResidueLaws
<1>4. QED
  BY <1>2, <1>3, ElementHas

\* Subtracting is adding the negation.
LEMMA MinusIsPlus ==
  ASSUME NEW a \in Elements, NEW b \in Elements
  PROVE  Minus(a, b) = Plus(a, Negated(b))
<1>1. /\ Minus(a, b) \in Elements /\ Plus(a, Negated(b)) \in Elements /\ Negated(b) \in Elements
  BY PlusIs, MinusIs, NegatedIs
<1>2. ASSUME NEW i \in Index
      PROVE  Minus(a, b)[i] = Plus(a, Negated(b))[i]
  <2>1. a[i] \in Int /\ b[i] \in Int
    BY ElementHas, RingAssumption
  <2>2. /\ Minus(a, b)[i] = (a[i] - b[i]) % Modulus
        /\ Plus(a, Negated(b))[i] = (a[i] + ((0 - b[i]) % Modulus)) % Modulus
    BY <1>1, PlusIs, MinusIs, NegatedIs
  <2>3. QED
    BY <2>1, <2>2, ResidueLaws
<1>3. QED
  BY <1>1, <1>2, ElementHas

\* An element and its negation cancel.
LEMMA NegatedCancels ==
  ASSUME NEW a \in Elements
  PROVE  Plus(a, Negated(a)) = Zero /\ Plus(Negated(a), a) = Zero
<1>1. Plus(a, Negated(a)) \in Elements /\ Negated(a) \in Elements
  BY PlusIs, NegatedIs
<1>2. ASSUME NEW i \in Index
      PROVE  Plus(a, Negated(a))[i] = Zero[i]
  <2>1. a[i] \in Int
    BY ElementHas, RingAssumption
  <2>2. Plus(a, Negated(a))[i] = (a[i] + ((0 - a[i]) % Modulus)) % Modulus
    BY <1>1, PlusIs, NegatedIs
  <2>3. QED
    BY <2>1, <2>2, ResidueLaws, ZeroIs
<1>3. QED
  BY <1>1, <1>2, ElementHas, ZeroIs, PlusCommutes

\* The negation of a factor negates the product.
LEMMA NegatedTimes ==
  ASSUME NEW a \in Elements, NEW b \in Elements
  PROVE  Times(Negated(a), b) = Negated(Times(a, b))
<1>1. Times(a, b) \in Elements /\ Negated(a) \in Elements
  BY TimesIs, NegatedIs
<1>2. Times(Negated(a), b) \in Elements /\ Negated(Times(a, b)) \in Elements
  BY <1>1, TimesIs, NegatedIs
<1>3. ASSUME NEW i \in Index
      PROVE  Times(Negated(a), b)[i] = Negated(Times(a, b))[i]
  <2>1. a[i] \in Int /\ b[i] \in Int
    BY ElementHas, RingAssumption
  <2>2. /\ Times(Negated(a), b)[i] = (((0 - a[i]) % Modulus) * b[i]) % Modulus
        /\ Negated(Times(a, b))[i] = (0 - ((a[i] * b[i]) % Modulus)) % Modulus
    BY <1>1, TimesIs, NegatedIs
  <2>3. QED
    BY <2>1, <2>2, ResidueLaws
<1>4. QED
  BY <1>2, <1>3, ElementHas

\* Multiplying by a number is multiplying by a constant element.
Constant(k) == [i \in Index |-> k % Modulus]

\* Scaling by a constant is multiplying by the constant element.
LEMMA ScaledIsTimes ==
  ASSUME NEW k \in Int, NEW a \in Elements
  PROVE  /\ Constant(k) \in Elements
         /\ Scaled(k, a) = Times(Constant(k), a)
<1>1. Constant(k) \in Elements
  <2>1. k % Modulus \in 0 .. Modulus - 1
    BY RemainderIs, RingAssumption
  <2>2. QED
    BY <2>1 DEF Constant, Elements
<1>2. a \in [Index -> Int]
  BY ElementsAreIntegers
<1>3. Scaled(k, a) \in Elements /\ Times(Constant(k), a) \in Elements
  BY <1>1, <1>2, ScaledIs, TimesIs
<1>4. ASSUME NEW i \in Index
      PROVE  Scaled(k, a)[i] = Times(Constant(k), a)[i]
  <2>1. Times(Constant(k), a)[i] = ((k % Modulus) * a[i]) % Modulus
    BY <1>1, TimesIs DEF Constant
  <2>2. a[i] \in Int
    BY <1>2
  <2>3. ((k % Modulus) * a[i]) % Modulus = (k * a[i]) % Modulus
    BY <2>2, RemainderOfProduct, RingAssumption
  <2>4. QED
    BY <1>2, <2>1, <2>3, ScaledIs
<1>5. QED
  BY <1>1, <1>3, <1>4, ElementHas

\* Zero under the other operations.
LEMMA ZeroLaws ==
  /\ Negated(Zero) = Zero
  /\ \A a \in Elements : Times(Zero, a) = Zero /\ Times(a, Zero) = Zero /\ Plus(Zero, a) = a
<1>1. Negated(Zero) = Zero
  <2>1. \A i \in Index : Negated(Zero)[i] = 0 % Modulus
    BY NegatedIs, ZeroIs
  <2>2. 0 % Modulus = 0
    BY RingAssumption
  <2>3. QED
    BY <2>1, <2>2, ElementHas, NegatedIs, ZeroIs
<1>2. ASSUME NEW a \in Elements
      PROVE  Times(Zero, a) = Zero /\ Times(a, Zero) = Zero /\ Plus(Zero, a) = a
  <2>1. ASSUME NEW i \in Index PROVE Times(Zero, a)[i] = Zero[i]
    <3>1. 0 * a[i] = 0
      BY ElementHas, RingAssumption
    <3>2. Times(Zero, a)[i] = 0 % Modulus
      BY <3>1, TimesIs, ZeroIs
    <3>3. 0 % Modulus = 0
      BY RingAssumption
    <3>4. QED
      BY <3>2, <3>3, ZeroIs
  <2>2. Times(Zero, a) = Zero
    BY <2>1, ElementHas, TimesIs, ZeroIs
  <2>3. QED
    BY <2>2, TimesCommutes, PlusCommutes, PlusZero, ZeroIs
<1>3. QED
  BY <1>1, <1>2

-----------------------------------------------------------------------------
(* The automorphisms permute the values of an element in the NTT form.     *)

\* Reversing the bits of an index gives an index.
LEMMA BitReversedIs ==
  ASSUME NEW x \in Int
  PROVE  BitReversed(x) \in 0 .. Degree - 1
<1>0. /\ DegreePower \in Nat /\ TwoTo[0] = 1
      /\ \A n \in 0 .. DegreePower : TwoTo[n] \in Nat \ {0}
      /\ \A n \in 1 .. DegreePower : TwoTo[n] = 2 * TwoTo[n - 1]
  BY RingAssumption, DegreeIs
<1> DEFINE Bit(b) == (x \div TwoTo[b - 1]) % 2
           Step(g, m) == g = [b \in 0 .. m |-> IF b = 0 THEN 0 ELSE 2 * g[b - 1] + Bit(b)]
           Below(g, m) == \A b \in 0 .. m : g[b] \in 0 .. TwoTo[b] - 1
           Have == {m \in Nat : m <= DegreePower => \E g : Step(g, m) /\ Below(g, m)}
<1>1. \A b \in 1 .. DegreePower : Bit(b) \in 0 .. 1
  <2>1. ASSUME NEW b \in 1 .. DegreePower PROVE Bit(b) \in 0 .. 1
    <3>1. b - 1 \in 0 .. DegreePower
      BY <1>0
    <3>2. TwoTo[b - 1] \in Nat \ {0}
      BY <1>0, <3>1
    <3>3. x \div TwoTo[b - 1] \in Int
      BY <3>2
    <3>4. QED
      BY <3>3
  <2>2. QED
    BY <2>1
<1>2. 0 \in Have
  <2> DEFINE g == [b \in 0 .. 0 |-> 0]
  <2>1. Step(g, 0)
    OBVIOUS
  <2>2. Below(g, 0)
    BY <1>0
  <2> HIDE DEF g, Step, Below
  <2>3. QED
    BY <2>1, <2>2
<1> HIDE DEF Bit
<1>3. ASSUME NEW m \in Nat, m \in Have
      PROVE  m + 1 \in Have
  <2>0. SUFFICES ASSUME m + 1 <= DegreePower
                 PROVE  \E g : Step(g, m + 1) /\ Below(g, m + 1)
    OBVIOUS
  <2>1. PICK g : Step(g, m) /\ Below(g, m)
    BY <1>0, <1>3, <2>0
  <2> DEFINE h == [b \in 0 .. m + 1 |-> IF b = m + 1 THEN 2 * g[m] + Bit(m + 1) ELSE g[b]]
  <2>2. \A b \in 0 .. m : h[b] = g[b] /\ g[b] = IF b = 0 THEN 0 ELSE 2 * g[b - 1] + Bit(b)
    BY <2>1
  <2>3. h[m + 1] = 2 * h[m] + Bit(m + 1)
    OBVIOUS
  <2>4. h[m + 1] \in 0 .. TwoTo[m + 1] - 1
    <3>1. m + 1 \in 1 .. DegreePower /\ (m + 1) - 1 = m /\ m \in 0 .. m /\ m \in 0 .. DegreePower
      BY <1>0, <2>0
    <3>2. /\ Bit(m + 1) \in 0 .. 1 /\ TwoTo[m + 1] = 2 * TwoTo[m] /\ TwoTo[m] \in Nat \ {0}
          /\ h[m] \in 0 .. TwoTo[m] - 1
      BY <1>0, <1>1, <2>1, <2>2, <3>1
    <3> HIDE DEF h
    <3>3. QED
      BY <2>3, <3>2
  <2>5. \A b \in 0 .. m + 1 : h[b] = IF b = 0 THEN 0 ELSE 2 * h[b - 1] + Bit(b)
    <3>1. SUFFICES ASSUME NEW b \in 0 .. m + 1
                   PROVE  h[b] = IF b = 0 THEN 0 ELSE 2 * h[b - 1] + Bit(b)
      OBVIOUS
    <3>2. CASE b = m + 1
      BY <2>3, <3>2
    <3>3. CASE b # m + 1 /\ b # 0
      <4>1. b \in 0 .. m /\ b - 1 \in 0 .. m
        BY <3>3
      <4> HIDE DEF h
      <4>2. QED
        BY <2>2, <3>3, <4>1
    <3>4. CASE b = 0
      <4>1. 0 \in 0 .. m
        OBVIOUS
      <4> HIDE DEF h
      <4>2. QED
        BY <2>2, <3>4, <4>1
    <3>5. QED
      BY <3>2, <3>3, <3>4
  <2>6. Step(h, m + 1)
    BY <2>5
  <2>7. Below(h, m + 1)
    <3>1. \A b \in 0 .. m : h[b] \in 0 .. TwoTo[b] - 1
      BY <2>1, <2>2
    <3>2. \A b \in 0 .. m + 1 : b \in 0 .. m \/ b = m + 1
      OBVIOUS
    <3> HIDE DEF h
    <3>3. QED
      BY <2>4, <3>1, <3>2
  <2> HIDE DEF h, Step, Below
  <2>8. QED
    BY <2>6, <2>7
<1> HIDE DEF Step
<1>4. Nat \subseteq Have
  <2> HIDE DEF Have
  <2>1. QED
    BY <1>2, <1>3, Induction
<1>5. PICK g : Step(g, DegreePower) /\ Below(g, DegreePower)
  <2> HIDE DEF Below
  <2>1. DegreePower \in Have /\ DegreePower <= DegreePower
    BY <1>0, <1>4
  <2>2. QED
    BY <2>1
<1> DEFINE Loop == CHOOSE l : l = [b \in 0 .. DegreePower |-> IF b = 0 THEN 0 ELSE 2 * l[b - 1] + Bit(b)]
<1>6. Step(Loop, DegreePower)
  BY <1>5 DEF Step
<1>7. BitReversed(x) = Loop[DegreePower]
  BY DEF BitReversed, Bit
<1> HIDE DEF Loop
<1>8. Loop[DegreePower] \in 0 .. Degree - 1
  <2>1. Loop = [b \in 0 .. DegreePower |-> IF b = 0 THEN 0 ELSE 2 * Loop[b - 1] + Bit(b)]
    BY <1>6 DEF Step
  <2>2. \A b \in 0 .. DegreePower : Loop[b] = IF b = 0 THEN 0 ELSE 2 * Loop[b - 1] + Bit(b)
    BY <2>1
  <2> DEFINE S == {b \in Nat : b <= DegreePower => Loop[b] \in 0 .. TwoTo[b] - 1}
  <2>3. 0 \in S
    BY <1>0, <2>2
  <2>4. ASSUME NEW b \in Nat, b \in S PROVE b + 1 \in S
    <3>1. SUFFICES ASSUME b + 1 <= DegreePower PROVE Loop[b + 1] \in 0 .. TwoTo[b + 1] - 1
      OBVIOUS
    <3>2. /\ b + 1 \in 1 .. DegreePower /\ b \in 0 .. DegreePower /\ b + 1 \in 0 .. DegreePower
          /\ b + 1 # 0 /\ (b + 1) - 1 = b /\ b <= DegreePower
      BY <1>0, <3>1
    <3>3. /\ Loop[b] \in 0 .. TwoTo[b] - 1 /\ TwoTo[b + 1] = 2 * TwoTo[b] /\ TwoTo[b] \in Nat \ {0}
          /\ Bit(b + 1) \in 0 .. 1
      BY <1>0, <1>1, <2>4, <3>2
    <3>4. Loop[b + 1] = 2 * Loop[b] + Bit(b + 1)
      BY <2>2, <3>2
    <3>5. QED
      BY <3>3, <3>4
  <2> HIDE DEF S
  <2>5. Nat \subseteq S
    BY <2>3, <2>4, Induction
  <2>6. QED
    BY <1>0, <2>5 DEF S, Degree
<1>9. QED
  BY <1>7, <1>8

\* The exponents of the points the transform evaluates at are integers.
LEMMA ExponentIs == Exponent \in [Index -> Int]
<1> DEFINE f == [j \in Index |-> 2 * BitReversed(j - 1) + 1]
<1>1. \A j \in Index : 2 * BitReversed(j - 1) + 1 \in Int
  <2>1. ASSUME NEW j \in Index PROVE 2 * BitReversed(j - 1) + 1 \in Int
    <3>1. j - 1 \in Int
      BY DegreeIs
    <3>2. BitReversed(j - 1) \in 0 .. Degree - 1
      BY <3>1, BitReversedIs
    <3>3. QED
      BY <3>2, DegreeIs
  <2>2. QED
    BY <2>1
<1>2. f \in [Index -> Int]
  BY <1>1
<1>3. QED
  BY <1>2, TupleIs DEF Exponent

\* The value an automorphism brings to an index.
Source(g, j) == BitReversed(((g * Exponent[j]) \div 2) % Degree) + 1

\* A Galois element permutes an element into an element.
LEMMA PermutedIs ==
  ASSUME NEW g \in Int, NEW a \in Elements
  PROVE  /\ Permuted(g, a) \in Elements
         /\ \A j \in Index : Source(g, j) \in Index /\ Permuted(g, a)[j] = a[Source(g, j)]
<1> DEFINE f == [j \in Index |-> a[Source(g, j)]]
<1>1. \A j \in Index : Source(g, j) \in Index
  <2>1. SUFFICES ASSUME NEW j \in Index PROVE Source(g, j) \in Index
    OBVIOUS
  <2>2. Exponent[j] \in Int /\ g * Exponent[j] \in Int
    BY ExponentIs
  <2>3. (g * Exponent[j]) \div 2 \in Int
    BY <2>2
  <2>4. ((g * Exponent[j]) \div 2) % Degree \in Int
    BY <2>3, DegreeIs, RemainderIs
  <2>5. BitReversed(((g * Exponent[j]) \div 2) % Degree) \in 0 .. Degree - 1
    BY <2>4, BitReversedIs
  <2>6. QED
    BY <2>5, DegreeIs DEF Source
<1>2. f \in [Index -> 0 .. Modulus - 1]
  BY <1>1, ElementHas
<1>3. Permuted(g, a) = f
  <2>1. f = [j \in Index |-> a[BitReversed(((g * Exponent[j]) \div 2) % Degree) + 1]]
    BY DEF Source
  <2>2. QED
    BY <1>2, <2>1, TupleIs DEF Permuted
<1>4. QED
  BY <1>1, <1>2, <1>3 DEF Elements

\* A permutation keeps sums.
LEMMA PermutedDistributes ==
  ASSUME NEW g \in Int, NEW a \in Elements, NEW b \in Elements
  PROVE  Permuted(g, Plus(a, b)) = Plus(Permuted(g, a), Permuted(g, b))
<1>1. Plus(a, b) \in Elements /\ Permuted(g, a) \in Elements /\ Permuted(g, b) \in Elements
  BY PlusIs, PermutedIs
<1>2. Permuted(g, Plus(a, b)) \in Elements /\ Plus(Permuted(g, a), Permuted(g, b)) \in Elements
  BY <1>1, PlusIs, PermutedIs
<1>3. ASSUME NEW j \in Index
      PROVE  Permuted(g, Plus(a, b))[j] = Plus(Permuted(g, a), Permuted(g, b))[j]
  <2>1. Source(g, j) \in Index
    BY PermutedIs
  <2>2. Permuted(g, Plus(a, b))[j] = (a[Source(g, j)] + b[Source(g, j)]) % Modulus
    BY <1>1, <2>1, PermutedIs, PlusIs
  <2>3. QED
    BY <1>1, <2>2, PermutedIs, PlusIs
<1>4. QED
  BY <1>2, <1>3, ElementHas

\* A permutation keeps zero.
LEMMA PermutedZero ==
  ASSUME NEW g \in Int
  PROVE  Permuted(g, Zero) = Zero
<1>1. \A j \in Index : Permuted(g, Zero)[j] = Zero[j]
  BY PermutedIs, ZeroIs
<1>2. QED
  BY <1>1, ElementHas, PermutedIs, ZeroIs

-----------------------------------------------------------------------------
(* Sums. *)

\* Induction on a finite set, for a set of its subsets.
LEMMA SetInduction ==
  ASSUME NEW D, IsFiniteSet(D), NEW F, {} \in F,
         \A S \in SUBSET D : (S # {} /\ \A x \in S : S \ {x} \in F) => S \in F
  PROVE  \A S \in SUBSET D : S \in F
<1> DEFINE G == {n \in Nat : \A S \in SUBSET D : Cardinality(S) = n => S \in F}
<1>1. \A S \in SUBSET D : IsFiniteSet(S) /\ Cardinality(S) \in Nat
  BY FS_Subset, FS_CardinalityType
<1>2. 0 \in G
  BY <1>1, FS_EmptySet
<1>3. ASSUME NEW n \in Nat, n \in G
      PROVE  n + 1 \in G
  <2>1. SUFFICES ASSUME NEW S \in SUBSET D, Cardinality(S) = n + 1
                 PROVE  S \in F
    OBVIOUS
  <2>2. S # {}
    BY <2>1, FS_EmptySet
  <2>3. ASSUME NEW x \in S PROVE S \ {x} \in F
    <3>1. S \ {x} \in SUBSET D /\ Cardinality(S \ {x}) = n
      BY <1>1, <2>1, FS_RemoveElement
    <3>2. QED
      BY <1>3, <3>1
  <2>4. QED
    BY <2>2, <2>3
<1> HIDE DEF G
<1>4. Nat \subseteq G
  BY <1>2, <1>3, Induction
<1>5. QED
  BY <1>1, <1>4 DEF G

\* The sums of the parts of f: every element is added to the sum of the rest.
Sums(f, D, sum) ==
  /\ sum \in [SUBSET D -> Elements]
  /\ sum[{}] = Zero
  /\ \A S \in SUBSET D : \A x \in S : sum[S] = Plus(f[x], sum[S \ {x}])

\* AddAll takes some order; there is such a sum, and any order gives it.
LEMMA SumsExist ==
  ASSUME NEW D, IsFiniteSet(D), NEW f \in [D -> Elements]
  PROVE  \E sum : Sums(f, D, sum) /\ sum[D] = AddAll(f)
<1> DEFINE Pick_(S) == CHOOSE x \in S : TRUE
           Body(g, S) == IF S = {} THEN Zero ELSE Plus(f[Pick_(S)], g[S \ {Pick_(S)}])
           Step(g, n) == /\ DOMAIN g = SUBSET D
                         /\ \A S \in SUBSET D : Cardinality(S) <= n =>
                              g[S] \in Elements /\ g[S] = Body(g, S)
           Have == {n \in Nat : \E g : Step(g, n)}
<1>1. \A S \in SUBSET D : IsFiniteSet(S) /\ Cardinality(S) \in Nat
  BY FS_Subset, FS_CardinalityType
<1>2. \A S \in SUBSET D : S # {} => /\ Pick_(S) \in S /\ Pick_(S) \in D
                                     /\ S \ {Pick_(S)} \in SUBSET D
                                     /\ Cardinality(S \ {Pick_(S)}) = Cardinality(S) - 1
  <2>1. SUFFICES ASSUME NEW S \in SUBSET D, S # {}
                 PROVE  /\ Pick_(S) \in S /\ Pick_(S) \in D
                        /\ S \ {Pick_(S)} \in SUBSET D
                        /\ Cardinality(S \ {Pick_(S)}) = Cardinality(S) - 1
    OBVIOUS
  <2>2. Pick_(S) \in S
    BY <2>1
  <2> HIDE DEF Pick_
  <2>3. QED
    BY <1>1, <2>2, FS_RemoveElement
<1> HIDE DEF Pick_
<1>3. 0 \in Have
  <2> DEFINE g == [S \in SUBSET D |-> Zero]
  <2>1. \A S \in SUBSET D : Cardinality(S) <= 0 => S = {}
    BY <1>1, FS_EmptySet
  <2>2. Step(g, 0)
    BY <2>1, ZeroIs
  <2>3. QED
    BY <2>2
<1>4. ASSUME NEW n \in Nat, n \in Have
      PROVE  n + 1 \in Have
  <2>1. PICK g : Step(g, n)
    BY <1>4
  <2> DEFINE h == [S \in SUBSET D |-> Body(g, S)]
  <2>2. \A S \in SUBSET D : Cardinality(S) <= n => h[S] = g[S]
    BY <2>1
  <2>3. ASSUME NEW S \in SUBSET D, Cardinality(S) <= n + 1
        PROVE  h[S] \in Elements /\ h[S] = Body(h, S)
    <3>1. CASE S = {}
      BY <3>1, ZeroIs
    <3>2. CASE S # {}
      <4> DEFINE T == S \ {Pick_(S)}
      <4>1. T \in SUBSET D /\ Cardinality(T) <= n /\ f[Pick_(S)] \in Elements
        BY <1>1, <1>2, <2>3, <3>2
      <4>2. h[S] = Plus(f[Pick_(S)], g[T])
        BY <3>2
      <4> HIDE DEF T
      <4>3. g[T] \in Elements /\ h[T] = g[T]
        BY <2>1, <2>2, <4>1
      <4> HIDE DEF h
      <4>4. QED
        BY <3>2, <4>1, <4>2, <4>3, PlusIs DEF T
    <3>3. QED
      BY <3>1, <3>2
  <2>4. DOMAIN h = SUBSET D
    OBVIOUS
  <2> HIDE DEF h, Body
  <2>5. Step(h, n + 1)
    BY <2>3, <2>4
  <2>6. QED
    BY <2>5
<1> HIDE DEF Step
<1>5. Nat \subseteq Have
  <2> HIDE DEF Have
  <2>1. QED
    BY <1>3, <1>4, Induction
<1>6. D \in SUBSET D /\ Cardinality(D) \in Nat
  BY <1>1
<1>7. PICK g : Step(g, Cardinality(D))
  BY <1>5, <1>6
<1>8. \A S \in SUBSET D : g[S] \in Elements /\ g[S] = Body(g, S)
  <2>1. \A S \in SUBSET D : Cardinality(S) <= Cardinality(D)
    BY FS_Subset
  <2>2. QED
    BY <1>7, <2>1 DEF Step
<1> DEFINE HH == [S \in SUBSET D |-> g[S]]
<1>9. HH = [S \in SUBSET D |-> Body(HH, S)]
  <2>1. \A S \in SUBSET D : HH[S] = Body(HH, S)
    <3>1. SUFFICES ASSUME NEW S \in SUBSET D PROVE HH[S] = Body(HH, S)
      OBVIOUS
    <3>2. S # {} => S \ {Pick_(S)} \in SUBSET D
      BY <1>2
    <3>3. HH[S] = g[S] /\ (S # {} => HH[S \ {Pick_(S)}] = g[S \ {Pick_(S)}])
      BY <3>2
    <3>4. g[S] = Body(g, S)
      BY <1>8
    <3> HIDE DEF HH
    <3>5. QED
      BY <3>3, <3>4
  <2>2. QED
    BY <2>1
<1> DEFINE sum == CHOOSE iter : iter = [S \in SUBSET D |-> Body(iter, S)]
<1>10. sum = [S \in SUBSET D |-> Body(sum, S)]
  <2> HIDE DEF HH, Body
  <2>1. QED
    BY <1>9
<1>11. AddAll(f) = sum[D]
  <2>1. DOMAIN f = D
    OBVIOUS
  <2>2. AddAll(f) = FoldFunctionOnSet(Plus, Zero, f, D)
    BY <2>1 DEF AddAll, FoldFunction
  <2>3. QED
    BY <2>2 DEF FoldFunctionOnSet, MapThenFoldSet, Pick_
<1> HIDE DEF sum
<1>12. \A S \in SUBSET D : sum[S] = Body(sum, S)
  <2> HIDE DEF Body
  <2>1. QED
    BY <1>10
<1>13. sum[{}] = Zero /\ \A S \in SUBSET D : S # {} => sum[S] = Plus(f[Pick_(S)], sum[S \ {Pick_(S)}])
  BY <1>12
<1> HIDE DEF Body
<1>14. \A S \in SUBSET D : sum[S] \in Elements
  <2> DEFINE F == {S \in SUBSET D : sum[S] \in Elements}
  <2>1. {} \in F
    BY <1>13, ZeroIs
  <2>2. ASSUME NEW S \in SUBSET D, S # {}, \A x \in S : S \ {x} \in F
        PROVE  S \in F
    <3>1. Pick_(S) \in S /\ f[Pick_(S)] \in Elements
      BY <1>2, <2>2
    <3>2. sum[S \ {Pick_(S)}] \in Elements
      BY <2>2, <3>1
    <3>3. QED
      <4>1. S \in SUBSET D /\ sum[S] = Plus(f[Pick_(S)], sum[S \ {Pick_(S)}])
        BY <1>13, <2>2
      <4>2. sum[S] \in Elements
        BY <3>1, <3>2, <4>1, PlusIs
      <4>3. QED
        BY <4>1, <4>2
  <2> HIDE DEF F
  <2>3. \A S \in SUBSET D : S \in F
    BY <2>1, <2>2, SetInduction
  <2>4. QED
    BY <2>3 DEF F
<1>15. \A S \in SUBSET D : \A x \in S : sum[S] = Plus(f[x], sum[S \ {x}])
  <2> DEFINE F == {S \in SUBSET D : \A x \in S : sum[S] = Plus(f[x], sum[S \ {x}])}
  <2>1. {} \in F
    OBVIOUS
  <2>2. ASSUME NEW S \in SUBSET D, S # {}, \A x \in S : S \ {x} \in F
        PROVE  S \in F
    <3>1. SUFFICES ASSUME NEW x \in S PROVE sum[S] = Plus(f[x], sum[S \ {x}])
      OBVIOUS
    <3> DEFINE p == Pick_(S)
               R == (S \ {p}) \ {x}
    <3>2. p \in S /\ sum[S] = Plus(f[p], sum[S \ {p}])
      BY <1>2, <1>13, <2>2
    <3> HIDE DEF p
    <3>3. CASE p = x
      BY <3>2, <3>3
    <3>4. CASE p # x
      <4>1. x \in S \ {p} /\ p \in S \ {x} /\ (S \ {x}) \ {p} = R /\ R \in SUBSET D
        BY <3>2, <3>4
      <4>2. sum[S \ {p}] = Plus(f[x], sum[R])
        BY <2>2, <3>2, <4>1
      <4>3. sum[S \ {x}] = Plus(f[p], sum[R])
        BY <2>2, <4>1
      <4> HIDE DEF R
      <4>4. f[x] \in Elements /\ f[p] \in Elements /\ sum[R] \in Elements
        BY <1>14, <3>2, <4>1
      <4>5. Plus(f[p], Plus(f[x], sum[R])) = Plus(f[x], Plus(f[p], sum[R]))
        BY <4>4, PlusAssociates, PlusCommutes
      <4>6. QED
        BY <3>2, <4>2, <4>3, <4>5
    <3>5. QED
      BY <3>3, <3>4
  <2> HIDE DEF F
  <2>3. \A S \in SUBSET D : S \in F
    BY <2>1, <2>2, SetInduction
  <2>4. QED
    BY <2>3 DEF F
<1>16. sum \in [SUBSET D -> Elements]
  <2>1. DOMAIN sum = SUBSET D /\ sum = [S \in SUBSET D |-> sum[S]]
    <3> HIDE DEF Pick_
    <3>1. QED
      BY <1>10
  <2>2. QED
    BY <1>14, <2>1
<1>17. QED
  BY <1>11, <1>13, <1>15, <1>16 DEF Sums

\* Whatever adds up the parts of f adds up to AddAll.
LEMMA SumIs ==
  ASSUME NEW D, IsFiniteSet(D), NEW f \in [D -> Elements], NEW t, Sums(f, D, t)
  PROVE  t[D] = AddAll(f) /\ AddAll(f) \in Elements
<1>1. PICK s : Sums(f, D, s) /\ s[D] = AddAll(f)
  BY SumsExist
<1> DEFINE F == {S \in SUBSET D : t[S] = s[S]}
<1>2. {} \in F
  BY <1>1 DEF Sums
<1>3. ASSUME NEW S \in SUBSET D, S # {}, \A x \in S : S \ {x} \in F
      PROVE  S \in F
  <2>1. PICK x \in S : TRUE
    BY <1>3
  <2>2. t[S] = Plus(f[x], t[S \ {x}]) /\ s[S] = Plus(f[x], s[S \ {x}])
    BY <1>1 DEF Sums
  <2>3. QED
    BY <1>3, <2>2
<1> HIDE DEF F
<1>4. \A S \in SUBSET D : S \in F
  BY <1>2, <1>3, SetInduction
<1>5. D \in SUBSET D
  OBVIOUS
<1>6. t[D] = s[D]
  BY <1>4, <1>5 DEF F
<1>7. t[D] \in Elements
  BY <1>5 DEF Sums
<1>8. QED
  BY <1>1, <1>6, <1>7

\* A sum over the vector is an element.
LEMMA SumIsElement ==
  ASSUME NEW D, IsFiniteSet(D), NEW f \in [D -> Elements]
  PROVE  AddAll(f) \in Elements
  BY SumsExist, SumIs

\* A linear map of the sum is the sum of the images.
LEMMA SumMapped ==
  ASSUME NEW D, IsFiniteSet(D), NEW f \in [D -> Elements],
         NEW T \in [Elements -> Elements], T[Zero] = Zero,
         \A a, b \in Elements : T[Plus(a, b)] = Plus(T[a], T[b])
  PROVE  AddAll([x \in D |-> T[f[x]]]) = T[AddAll(f)]
<1>1. PICK s : Sums(f, D, s) /\ s[D] = AddAll(f)
  BY SumsExist
<1> DEFINE g == [x \in D |-> T[f[x]]]
           t == [S \in SUBSET D |-> T[s[S]]]
<1>2. s \in [SUBSET D -> Elements]
  BY <1>1 DEF Sums
<1>3. t \in [SUBSET D -> Elements] /\ t[{}] = Zero
  BY <1>1, <1>2 DEF Sums
<1>4. ASSUME NEW S \in SUBSET D, NEW x \in S
      PROVE  t[S] = Plus(g[x], t[S \ {x}])
  <2>1. s[S] = Plus(f[x], s[S \ {x}])
    BY <1>1 DEF Sums
  <2>2. f[x] \in Elements /\ s[S \ {x}] \in Elements
    BY <1>2
  <2>3. T[s[S]] = Plus(T[f[x]], T[s[S \ {x}]])
    BY <2>1, <2>2
  <2>4. QED
    BY <2>3
<1>5. g \in [D -> Elements] /\ t[D] = T[s[D]]
  OBVIOUS
<1> HIDE DEF g, t
<1>6. Sums(g, D, t)
  BY <1>3, <1>4 DEF Sums
<1>7. t[D] = AddAll(g)
  BY <1>5, <1>6, SumIs
<1>8. QED
  BY <1>1, <1>5, <1>7 DEF g

\* Four terms can be added in either pairing.
LEMMA PlusExchange ==
  ASSUME NEW a \in Elements, NEW b \in Elements, NEW c \in Elements, NEW d \in Elements
  PROVE  Plus(Plus(a, c), Plus(b, d)) = Plus(Plus(a, b), Plus(c, d))
<1>1. Plus(a, c) \in Elements /\ Plus(b, d) \in Elements /\ Plus(c, d) \in Elements /\ Plus(a, b) \in Elements
  BY PlusIs
<1>2. Plus(Plus(a, c), Plus(b, d)) = Plus(a, Plus(c, Plus(b, d)))
  BY <1>1, PlusAssociates
<1>3. Plus(c, Plus(b, d)) = Plus(Plus(c, b), d) /\ Plus(c, b) = Plus(b, c)
  BY PlusAssociates, PlusCommutes
<1>4. Plus(Plus(b, c), d) = Plus(b, Plus(c, d))
  BY PlusAssociates
<1>5. Plus(a, Plus(b, Plus(c, d))) = Plus(Plus(a, b), Plus(c, d))
  BY <1>1, PlusAssociates
<1>6. QED
  BY <1>2, <1>3, <1>4, <1>5

\* Two sums at once.
LEMMA SumOfSums ==
  ASSUME NEW D, IsFiniteSet(D), NEW f \in [D -> Elements], NEW g \in [D -> Elements]
  PROVE  AddAll([x \in D |-> Plus(f[x], g[x])]) = Plus(AddAll(f), AddAll(g))
<1>1. PICK s : Sums(f, D, s) /\ s[D] = AddAll(f)
  BY SumsExist
<1>2. PICK r : Sums(g, D, r) /\ r[D] = AddAll(g)
  BY SumsExist
<1> DEFINE h == [x \in D |-> Plus(f[x], g[x])]
           t == [S \in SUBSET D |-> Plus(s[S], r[S])]
<1>3. s \in [SUBSET D -> Elements] /\ r \in [SUBSET D -> Elements]
  BY <1>1, <1>2 DEF Sums
<1>4. t \in [SUBSET D -> Elements]
  BY <1>3, PlusIs
<1>5. t[{}] = Zero
  BY <1>1, <1>2, ZeroIs, PlusZero DEF Sums
<1>6. ASSUME NEW S \in SUBSET D, NEW x \in S
      PROVE  t[S] = Plus(h[x], t[S \ {x}])
  <2> DEFINE R == S \ {x}
  <2>1. s[S] = Plus(f[x], s[R]) /\ r[S] = Plus(g[x], r[R]) /\ R \in SUBSET D
    BY <1>1, <1>2 DEF Sums
  <2>2. t[S] = Plus(s[S], r[S]) /\ h[x] = Plus(f[x], g[x]) /\ t[R] = Plus(s[R], r[R])
    BY <2>1
  <2> HIDE DEF R
  <2>3. /\ f[x] \in Elements /\ g[x] \in Elements /\ s[R] \in Elements /\ r[R] \in Elements
    BY <1>3, <2>1
  <2> HIDE DEF h, t
  <2>4. QED
    BY <2>1, <2>2, <2>3, PlusExchange DEF R
<1>7. h \in [D -> Elements] /\ t[D] = Plus(s[D], r[D])
  BY PlusIs
<1> HIDE DEF h, t
<1>8. Sums(h, D, t)
  BY <1>4, <1>5, <1>6 DEF Sums
<1>9. QED
  BY <1>1, <1>2, <1>7, <1>8, SumIs DEF h

\* A sum of zeros is zero.
LEMMA SumOfZeros ==
  ASSUME NEW D, IsFiniteSet(D)
  PROVE  AddAll([x \in D |-> Zero]) = Zero
<1> DEFINE f == [x \in D |-> Zero]
           t == [S \in SUBSET D |-> Zero]
<1>1. f \in [D -> Elements] /\ t \in [SUBSET D -> Elements] /\ t[D] = Zero
  BY ZeroIs
<1>2. Sums(f, D, t)
  BY <1>1, ZeroIs, PlusZero DEF Sums
<1> HIDE DEF f, t
<1>3. QED
  BY <1>1, <1>2, SumIs DEF f

\* A summand that grows lets the sum grow as much.
LEMMA SumGrows ==
  ASSUME NEW D, IsFiniteSet(D), NEW f \in [D -> Elements], NEW q \in D, NEW e \in Elements,
         NEW g \in [D -> Elements], g[q] = Plus(e, f[q]), \A x \in D \ {q} : g[x] = f[x]
  PROVE  AddAll(g) = Plus(e, AddAll(f))
<1>1. PICK s : Sums(f, D, s) /\ s[D] = AddAll(f)
  BY SumsExist
<1> DEFINE t == [S \in SUBSET D |-> IF q \in S THEN Plus(e, s[S]) ELSE s[S]]
<1>2. s \in [SUBSET D -> Elements]
  BY <1>1 DEF Sums
<1>3. t \in [SUBSET D -> Elements]
  BY <1>2, PlusIs
<1>4. t[{}] = Zero /\ t[D] = Plus(e, s[D])
  BY <1>1 DEF Sums
<1>5. ASSUME NEW S \in SUBSET D, NEW x \in S
      PROVE  t[S] = Plus(g[x], t[S \ {x}])
  <2> DEFINE R == S \ {x}
  <2>1. s[S] = Plus(f[x], s[R]) /\ R \in SUBSET D
    BY <1>1 DEF Sums
  <2>2. s[R] \in Elements /\ f[x] \in Elements
    BY <1>2, <2>1
  <2>3. CASE x = q
    <3>1. t[S] = Plus(e, s[S]) /\ t[R] = s[R]
      BY <2>1, <2>3
    <3>2. Plus(e, Plus(f[x], s[R])) = Plus(Plus(e, f[x]), s[R])
      BY <2>2, PlusAssociates
    <3> HIDE DEF t, R
    <3>3. QED
      BY <2>1, <2>3, <3>1, <3>2 DEF R
  <2>4. CASE x # q /\ q \in S
    <3>1. t[S] = Plus(e, s[S]) /\ t[R] = Plus(e, s[R]) /\ g[x] = f[x]
      BY <2>1, <2>4
    <3>2. Plus(e, Plus(f[x], s[R])) = Plus(f[x], Plus(e, s[R]))
      BY <2>2, PlusAssociates, PlusCommutes
    <3> HIDE DEF t, R
    <3>3. QED
      BY <2>1, <3>1, <3>2 DEF R
  <2>5. CASE x # q /\ q \notin S
    <3>1. t[S] = s[S] /\ t[R] = s[R] /\ g[x] = f[x]
      BY <2>1, <2>5
    <3>2. QED
      BY <2>1, <3>1
  <2>6. QED
    BY <2>3, <2>4, <2>5
<1> HIDE DEF t
<1>6. Sums(g, D, t)
  BY <1>3, <1>4, <1>5 DEF Sums
<1>7. QED
  BY <1>1, <1>4, <1>6, SumIs

\* How often a party is among the first m of a list.
Count(list, m, p) == Cardinality({k \in 1 .. m : list[k] = p})

\* How often a party is in a vector is a number, whichever end it is counted from.
LEMMA CountIs ==
  ASSUME NEW n \in Nat, NEW list \in [1 .. n -> Parties]
  PROVE  /\ \A m \in 0 .. n, p \in Parties : Count(list, m, p) \in Nat
         /\ \A p \in Parties : Count(list, 0, p) = 0
         /\ \A m \in 0 .. n - 1, p \in Parties :
              Count(list, m + 1, p)
                = IF p = list[m + 1] THEN 1 + Count(list, m, p) ELSE Count(list, m, p)
<1>1. ASSUME NEW m \in 0 .. n, NEW p \in Parties
      PROVE  IsFiniteSet({k \in 1 .. m : list[k] = p})
  <2>1. IsFiniteSet(1 .. m)
    BY FS_Interval
  <2>2. {k \in 1 .. m : list[k] = p} \in SUBSET (1 .. m)
    OBVIOUS
  <2>3. QED
    BY <2>1, <2>2, FS_Subset
<1>2. \A m \in 0 .. n, p \in Parties : Count(list, m, p) \in Nat
  BY <1>1, FS_CardinalityType DEF Count
<1>3. ASSUME NEW p \in Parties
      PROVE  Count(list, 0, p) = 0
  <2>1. {k \in 1 .. 0 : list[k] = p} = {}
    OBVIOUS
  <2>2. QED
    BY <2>1, FS_EmptySet DEF Count
<1>4. ASSUME NEW m \in 0 .. n - 1, NEW p \in Parties, NEW l, l = m + 1
      PROVE  Count(list, l, p)
               = IF p = list[l] THEN 1 + Count(list, m, p) ELSE Count(list, m, p)
  <2> DEFINE K == {k \in 1 .. m : list[k] = p}
             L == {k \in 1 .. l : list[k] = p}
  <2>1. CASE p = list[l]
    <3>1. L = K \cup {l} /\ l \notin K
      BY <1>4, <2>1
    <3>2. IsFiniteSet(K) /\ Cardinality(K) \in Nat
      BY <1>1, FS_CardinalityType
    <3> HIDE DEF K, L
    <3>3. Cardinality(L) = Cardinality(K) + 1
      BY <3>1, <3>2, FS_AddElement
    <3>4. QED
      BY <2>1, <3>2, <3>3 DEF Count, K, L
  <2>2. CASE p # list[l]
    <3>1. L = K
      BY <1>4, <2>2
    <3>2. QED
      BY <2>2, <3>1 DEF Count
  <2>3. QED
    BY <2>1, <2>2
<1>5. QED
  BY <1>2, <1>3, <1>4

\* Scaling by a count is adding that often.
LEMMA ScaledOnce ==
  ASSUME NEW a \in Elements
  PROVE  /\ Scaled(0, a) = Zero
         /\ Scaled(1, a) = a
         /\ \A c \in Nat : Scaled(1 + c, a) = Plus(a, Scaled(c, a))
<1>1. a \in [Index -> Int] /\ \A i \in Index : a[i] \in 0 .. Modulus - 1
  BY ElementsAreIntegers, ElementHas
<1>2. \A c \in Nat : Scaled(c, a) \in Elements
  BY <1>1, ScaledIs
<1>3. Scaled(0, a) = Zero
  <2>1. ASSUME NEW i \in Index PROVE Scaled(0, a)[i] = Zero[i]
    <3>1. 0 * a[i] = 0
      BY <1>1
    <3>2. Scaled(0, a)[i] = 0 % Modulus
      BY <1>1, <3>1, ScaledIs
    <3>3. 0 % Modulus = 0
      BY RingAssumption
    <3>4. QED
      BY <3>2, <3>3, ZeroIs
  <2>2. QED
    BY <1>2, <2>1, ElementHas, ZeroIs
<1>4. Scaled(1, a) = a
  <2>1. ASSUME NEW i \in Index PROVE Scaled(1, a)[i] = a[i]
    <3>1. 1 * a[i] = a[i]
      BY <1>1
    <3>2. QED
      BY <1>1, <3>1, ScaledIs, SmallRemainder
  <2>2. QED
    BY <1>2, <2>1, ElementHas
<1>5. ASSUME NEW c \in Nat, NEW d, d = 1 + c PROVE Scaled(d, a) = Plus(a, Scaled(c, a))
  <2>1. ASSUME NEW i \in Index PROVE Scaled(d, a)[i] = Plus(a, Scaled(c, a))[i]
    <3>1. a[i] \in Int /\ c * a[i] \in Int /\ d \in Int
      BY <1>1, <1>5
    <3>2. Plus(a, Scaled(c, a))[i] = (a[i] + ((c * a[i]) % Modulus)) % Modulus
      BY <1>1, <1>2, PlusIs, ScaledIs
    <3>3. (a[i] + ((c * a[i]) % Modulus)) % Modulus = (a[i] + c * a[i]) % Modulus
      BY <3>1, RemainderOfSum, RingAssumption
    <3>4. d * a[i] = a[i] + c * a[i]
      <4>1. \A x \in Int : (1 + c) * x = x + c * x
        OBVIOUS
      <4>2. QED
        BY <1>5, <3>1, <4>1
    <3>5. Scaled(d, a)[i] = (d * a[i]) % Modulus
      BY <1>1, <3>1, ScaledIs
    <3>6. QED
      BY <3>2, <3>3, <3>4, <3>5
  <2>2. d \in Nat
    BY <1>5
  <2>3. Plus(a, Scaled(c, a)) \in Elements
    BY <1>2, PlusIs
  <2>4. QED
    BY <1>2, <2>1, <2>2, <2>3, ElementHas
<1>6. QED
  BY <1>3, <1>4, <1>5

\* The sum over a vector of shares is the sum over the parties, each as
\* often as it is in the vector, in whatever order they came.
LEMMA SumCounted ==
  ASSUME NEW n \in Nat, NEW list \in [1 .. n -> Parties], NEW w \in [Parties -> Elements]
  PROVE  AddAll([k \in 1 .. n |-> w[list[k]]])
           = AddAll([p \in Parties |-> Scaled(Count(list, n, p), w[p])])
<1>0. IsFiniteSet(1 .. n) /\ IsFiniteSet(Parties)
  BY FS_Interval, PartiesAssumption
<1> DEFINE f == [k \in 1 .. n |-> w[list[k]]]
           g(m) == [p \in Parties |-> Scaled(Count(list, m, p), w[p])]
<1>1. f \in [1 .. n -> Elements]
  OBVIOUS
<1>2. PICK s : Sums(f, 1 .. n, s) /\ s[1 .. n] = AddAll(f)
  <2> HIDE DEF f
  <2>1. QED
    BY <1>0, <1>1, SumsExist
<1>3. \A m \in 0 .. n : g(m) \in [Parties -> Elements]
  <2>1. \A m \in 0 .. n, p \in Parties : Scaled(Count(list, m, p), w[p]) \in Elements
    <3>1. SUFFICES ASSUME NEW m \in 0 .. n, NEW p \in Parties
                   PROVE  Scaled(Count(list, m, p), w[p]) \in Elements
      OBVIOUS
    <3>2. Count(list, m, p) \in Int /\ w[p] \in [Index -> Int]
      <4>1. Count(list, m, p) \in Nat
        BY CountIs
      <4>2. QED
        BY <4>1, ElementsAreIntegers
    <3>3. QED
      BY <3>2, ScaledIs
  <2>2. QED
    BY <2>1
<1>4. \A m \in 0 .. n, p \in Parties : g(m)[p] = Scaled(Count(list, m, p), w[p])
  OBVIOUS
<1>5. g(0) = [p \in Parties |-> Zero]
  <2>1. \A p \in Parties : Scaled(Count(list, 0, p), w[p]) = Zero
    <3>1. \A p \in Parties : Count(list, 0, p) = 0
      BY CountIs
    <3>2. QED
      BY <3>1, ScaledOnce
  <2>2. QED
    BY <2>1
<1> HIDE DEF g
<1> DEFINE G == {m \in Nat : m <= n => s[1 .. m] = AddAll(g(m))}
<1>6. 0 \in G
  <2>1. 1 .. 0 = {}
    OBVIOUS
  <2>2. s[1 .. 0] = Zero
    BY <1>2, <2>1 DEF Sums
  <2>3. AddAll(g(0)) = Zero
    BY <1>0, <1>5, SumOfZeros
  <2>4. QED
    BY <2>2, <2>3
<1>7. ASSUME NEW m \in Nat, m \in G, NEW l, l = m + 1
      PROVE  l \in G
  <2>1. SUFFICES ASSUME l <= n
                 PROVE  s[1 .. l] = AddAll(g(l))
    BY <1>7
  <2>2. m \in 0 .. n - 1 /\ m \in 0 .. n /\ l \in 0 .. n /\ l \in 1 .. n /\ l \in 1 .. l
    BY <1>7, <2>1
  <2> DEFINE q == list[l]
  <2>3. s[1 .. l] = Plus(w[q], s[1 .. m])
    <3>1. (1 .. l) \ {l} = 1 .. m /\ 1 .. l \in SUBSET (1 .. n)
      BY <1>7, <2>1
    <3>2. f[l] = w[q]
      BY <2>2
    <3> HIDE DEF f, q
    <3>3. QED
      BY <1>2, <2>2, <3>1, <3>2 DEF Sums
  <2>4. s[1 .. m] = AddAll(g(m))
    BY <1>7, <2>2
  <2>5. q \in Parties /\ w[q] \in Elements
    BY <2>2
  <2> HIDE DEF q
  <2>6. g(l)[q] = Plus(w[q], g(m)[q]) /\ \A p \in Parties \ {q} : g(l)[p] = g(m)[p]
    <3>1. \A p \in Parties : Count(list, l, p)
                = IF p = q THEN 1 + Count(list, m, p) ELSE Count(list, m, p)
      BY <1>7, <2>2, CountIs DEF q
    <3>2. Count(list, m, q) \in Nat
      BY <2>2, <2>5, CountIs
    <3>3. Scaled(1 + Count(list, m, q), w[q]) = Plus(w[q], Scaled(Count(list, m, q), w[q]))
      BY <2>5, <3>2, ScaledOnce
    <3>4. QED
      BY <1>4, <2>2, <2>5, <3>1, <3>3
  <2> DEFINE gl == g(l)
             gm == g(m)
  <2>7. gl \in [Parties -> Elements] /\ gm \in [Parties -> Elements]
    BY <1>3, <2>2
  <2> HIDE DEF gl, gm
  <2>8. AddAll(gl) = Plus(w[q], AddAll(gm))
    <3>1. gl[q] = Plus(w[q], gm[q]) /\ \A p \in Parties \ {q} : gl[p] = gm[p]
      BY <2>6 DEF gl, gm
    <3>2. QED
      BY <1>0, <2>5, <2>7, <3>1, SumGrows
  <2>9. QED
    BY <2>3, <2>4, <2>8 DEF gl, gm
<1> HIDE DEF G
<1>8. Nat \subseteq G
  BY <1>6, <1>7, Induction
<1>9. s[1 .. n] = AddAll(g(n))
  BY <1>8 DEF G
<1>10. QED
  BY <1>2, <1>9 DEF g

\* A list the collector may be called with is a vector of parties.
LEMMA ListIs ==
  ASSUME NEW list \in Lists
  PROVE  /\ Len(list) \in 0 .. MaxList
         /\ list \in [1 .. Len(list) -> Parties]
         /\ Counted(list) = [p \in Parties |-> Count(list, Len(list), p)]
<1>1. PICK n \in 0 .. MaxList : list \in [1 .. n -> Parties]
  BY DEF Lists
<1>2. n \in Nat
  BY PartiesAssumption
<1>3. list \in Seq(Parties) /\ Len(list) = n
  BY <1>1, <1>2
<1>4. QED
  BY <1>1, <1>3 DEF Counted, Count

\* What a vector counts of every party is a number.
LEMMA CountedIs ==
  ASSUME NEW list \in Lists
  PROVE  /\ Counted(list) \in [Parties -> Nat]
         /\ \A k \in 1 .. Len(list) : Counted(list)[list[k]] > 0
<1>1. /\ Len(list) \in Nat /\ list \in [1 .. Len(list) -> Parties]
      /\ Counted(list) = [p \in Parties |-> Count(list, Len(list), p)]
  BY ListIs, PartiesAssumption
<1>2. Counted(list) \in [Parties -> Nat]
  <2>1. \A p \in Parties : Count(list, Len(list), p) \in Nat
    BY <1>1, CountIs
  <2>2. QED
    BY <1>1, <2>1
<1>3. ASSUME NEW k \in 1 .. Len(list)
      PROVE  Counted(list)[list[k]] > 0
  <2> DEFINE K == {j \in 1 .. Len(list) : list[j] = list[k]}
  <2>1. IsFiniteSet(1 .. Len(list))
    BY <1>1, FS_Interval
  <2>2. K \in SUBSET (1 .. Len(list)) /\ k \in K
    OBVIOUS
  <2> HIDE DEF K
  <2>3. IsFiniteSet(K)
    BY <2>1, <2>2, FS_Subset
  <2>4. Cardinality(K) # 0 /\ Cardinality(K) \in Nat
    BY <2>2, <2>3, FS_EmptySet, FS_CardinalityType
  <2>5. list[k] \in Parties
    BY <1>1
  <2>6. Counted(list)[list[k]] = Cardinality(K)
    BY <1>1, <2>5 DEF Count, K
  <2>7. QED
    BY <2>4, <2>6
<1>4. QED
  BY <1>2, <1>3

\* What a collector adds up: everyone's part as often as the vector has it.
LEMMA SumOfVector ==
  ASSUME NEW list \in Lists, NEW w \in [Parties -> Elements]
  PROVE  LET sum == AddAll([k \in 1 .. Len(list) |-> w[list[k]]])
         IN  /\ sum = AddAll([p \in Parties |-> Scaled(Counted(list)[p], w[p])])
             /\ sum \in Elements
             /\ Everyone(Counted(list)) => sum = AddAll(w)
<1> DEFINE n == Len(list)
           f == [k \in 1 .. n |-> w[list[k]]]
           g == [p \in Parties |-> Scaled(Count(list, n, p), w[p])]
           h == [p \in Parties |-> Scaled(Counted(list)[p], w[p])]
<1>1. /\ n \in Nat /\ list \in [1 .. n -> Parties]
      /\ Counted(list) = [p \in Parties |-> Count(list, n, p)]
  BY ListIs, PartiesAssumption
<1>2. AddAll(f) = AddAll(g)
  <2> HIDE DEF n
  <2>1. QED
    BY <1>1, SumCounted
<1>3. g = h
  BY <1>1
<1>4. AddAll(f) \in Elements
  <2>1. IsFiniteSet(1 .. n) /\ f \in [1 .. n -> Elements]
    BY <1>1, FS_Interval
  <2> HIDE DEF f, n
  <2>2. QED
    BY <2>1, SumIsElement
<1>5. Everyone(Counted(list)) => h = w
  <2>1. \A p \in Parties : Scaled(1, w[p]) = w[p]
    BY ScaledOnce
  <2>2. QED
    BY <2>1 DEF Everyone
<1>6. QED
  BY <1>2, <1>3, <1>4, <1>5

\* The sum of the images under a linear map of the secrets, or of what else
\* each party has, is the image of the sum over the vector.
LEMMA MappedVector ==
  ASSUME NEW list \in Lists, NEW w \in [Parties -> Elements],
         NEW T \in [Elements -> Elements], T[Zero] = Zero,
         \A a, b \in Elements : T[Plus(a, b)] = Plus(T[a], T[b])
  PROVE  AddAll([k \in 1 .. Len(list) |-> T[w[list[k]]]])
           = T[AddAll([p \in Parties |-> Scaled(Counted(list)[p], w[p])])]
<1> DEFINE n == Len(list)
           D == 1 .. n
           f == [k \in D |-> w[list[k]]]
<1>1. n \in Nat /\ list \in [1 .. n -> Parties]
  BY ListIs, PartiesAssumption
<1>2. IsFiniteSet(D) /\ f \in [D -> Elements]
  BY <1>1, FS_Interval
<1>3. AddAll(f) = AddAll([p \in Parties |-> Scaled(Counted(list)[p], w[p])])
  BY SumOfVector
<1>4. [k \in D |-> T[f[k]]] = [k \in 1 .. Len(list) |-> T[w[list[k]]]]
  OBVIOUS
<1> HIDE DEF f, D
<1>5. AddAll([k \in D |-> T[f[k]]]) = T[AddAll(f)]
  BY <1>2, SumMapped
<1>6. QED
  BY <1>3, <1>4, <1>5

-----------------------------------------------------------------------------
(* Types, and which calls belong to a ceremony.                            *)

Shape ==
  /\ TypeOK
  /\ first = [p \in Parties |-> first[p]]
  /\ second = [p \in Parties |-> second[p]]

\* The shape holds before any party acts.
LEMMA InitShape == ASSUME Init PROVE Shape
<1>1. (CHOOSE u \in Blinds : TRUE) \in Blinds
  BY PartiesAssumption
<1>2. QED
  BY <1>1 DEF Init, Shape, TypeOK, Nothing

\* A call that makes a share or assembles an object keeps the types.
LEMMA MakeShape ==
  ASSUME Shape, UNCHANGED <<scheme, ceremony>>, NEW p \in Parties, NEW share,
         share.generated \in BOOLEAN, Make(p, share)
  PROVE  Shape'
  BY DEF Make, Shape, TypeOK

\* Assembling keeps the shape.
LEMMA AssembleShape ==
  ASSUME Shape, UNCHANGED <<scheme, ceremony>>, NEW object,
         object.generated \in BOOLEAN, Assemble(object)
  PROVE  Shape'
  BY DEF Assemble, Shape, TypeOK

\* A collector that throws keeps the shape.
LEMMA FailShape ==
  ASSUME Shape, UNCHANGED <<scheme, ceremony>>, Throws \/ Faults
  PROVE  Shape'
  BY DEF Throws, Faults, Shape, TypeOK

\* The shares the parties make.
PublicShare(p, seed) ==
  [generated |-> TRUE, seed |-> seed, parts |-> PublicKeyParts(p, Common[seed])]
FirstShare(p, seed, u) ==
  [generated |-> TRUE, seed |-> seed, blind |-> u, parts |-> RelinFirstParts(p, Common[seed], u)]
SecondShare(p, m, u) ==
  [generated |-> TRUE, of |-> m, blind |-> u, parts |-> RelinSecondParts(p, m.parts, u)]
GaloisShare(p, customized, elements, seed) ==
  [generated |-> TRUE, seed |-> seed, customized |-> customized,
   keys |-> [g \in elements |-> GaloisParts(p, g, Common[seed])],
   zero |-> GaloisParts(p, GaloisZero, Common[seed])]
PartialBfv(p, c) ==
  [generated |-> FALSE, of |-> c, parts |-> <<Part0["BFV"][c], Intt(Product(c, p))>>]
PartialCkks(p, c) ==
  [generated |-> TRUE, of |-> c, parts |-> <<Part0["CKKS"][c], Product(c, p)>>]

Fresh(p, seed) == Minus(Zero, Times(Common[seed], Secret[p]))
MaskedBfv(p, c, seed, mask) ==
  BootstrapShare(c, seed, <<Minus(Intt(Product(c, p)), Lifted(mask)),
                            Plus(Intt(Fresh(p, seed)), Lifted(mask))>>)
MaskedCkks(p, c, seed, mask) ==
  BootstrapShare(c, seed, <<Minus(Product(c, p), EncodedAt(mask, ManagerScale)),
                            Plus(Fresh(p, seed), EncodedAt(mask, ManagerScale))>>)

\* What a share of every ceremony is made of.
LEMMA SharesHave ==
  /\ \A p, seed : PublicShare(p, seed).generated \in BOOLEAN
  /\ \A p, seed, u : FirstShare(p, seed, u).generated \in BOOLEAN
  /\ \A p, m, u : SecondShare(p, m, u).generated \in BOOLEAN
  /\ \A p, z, e, seed : GaloisShare(p, z, e, seed).generated \in BOOLEAN
  /\ \A p, c : PartialBfv(p, c).generated \in BOOLEAN
  /\ \A p, c : PartialCkks(p, c).generated \in BOOLEAN
  /\ \A p, c, seed, mask : MaskedBfv(p, c, seed, mask).generated \in BOOLEAN
  /\ \A p, c, seed, mask : MaskedCkks(p, c, seed, mask).generated \in BOOLEAN
  BY DEF PublicShare, FirstShare, SecondShare, GaloisShare, PartialBfv, PartialCkks,
         MaskedBfv, MaskedCkks, BootstrapShare

\* What the calls of a party do.
LEMMA PartyCalls ==
  ASSUME NEW p
  PROVE  /\ GeneratePublicKeyShare(p) =>
              Throws \/ (~first[p].generated /\ \E seed \in Seeds : Make(p, PublicShare(p, seed)))
         /\ GenerateRelinKeyInit(p) =>
              Throws \/ (~first[p].generated
                           /\ \E seed \in Seeds : Make(p, FirstShare(p, seed, blind[p])))
         /\ GenerateRelinKeyShare(p) =>
              Throws \/ (/\ middle.generated /\ ~second[p].generated
                         /\ second' = [second EXCEPT ![p] = SecondShare(p, middle, blind[p])]
                         /\ raised' = "no"
                         /\ UNCHANGED <<blind, first, middle, result>>)
         /\ GenerateGaloisKeyShare(p) =>
              Throws \/ (~first[p].generated
                           /\ \E object \in GaloisObjects, seed \in Seeds :
                                Make(p, GaloisShare(p, object.customized, object.elements, seed)))
         /\ DecryptPartialBfv(p) =>
              scheme = "BFV" /\ \E c \in Ciphertexts["BFV"] : Make(p, PartialBfv(p, c))
         /\ DecryptPartialCkks(p) =>
              scheme = "CKKS" /\ \E c \in Ciphertexts["CKKS"] : Make(p, PartialCkks(p, c))
         /\ ParticipantBfv(p) =>
              scheme = "BFV"
                /\ \E c \in Ciphertexts["BFV"], seed \in Seeds, mask \in Masks["BFV"] :
                     Make(p, MaskedBfv(p, c, seed, mask))
         /\ ParticipantCkks(p) =>
              scheme = "CKKS"
                /\ \E c \in Ciphertexts["CKKS"], seed \in Seeds, mask \in Masks["CKKS"] :
                     Make(p, MaskedCkks(p, c, seed, mask))
<1>1. GeneratePublicKeyShare(p) =>
        Throws \/ (~first[p].generated /\ \E seed \in Seeds : Make(p, PublicShare(p, seed)))
  BY DEF GeneratePublicKeyShare, PublicShare
<1>2. GenerateRelinKeyInit(p) =>
        Throws \/ (~first[p].generated
                     /\ \E seed \in Seeds : Make(p, FirstShare(p, seed, blind[p])))
  BY DEF GenerateRelinKeyInit, FirstShare
<1>3. GenerateRelinKeyShare(p) =>
        Throws \/ (/\ middle.generated /\ ~second[p].generated
                   /\ second' = [second EXCEPT ![p] = SecondShare(p, middle, blind[p])]
                   /\ raised' = "no"
                   /\ UNCHANGED <<blind, first, middle, result>>)
  BY DEF GenerateRelinKeyShare, SecondShare
<1>4. GenerateGaloisKeyShare(p) =>
        Throws \/ (~first[p].generated
                     /\ \E object \in GaloisObjects, seed \in Seeds :
                          Make(p, GaloisShare(p, object.customized, object.elements, seed)))
  BY DEF GenerateGaloisKeyShare, GaloisShare
<1>5. DecryptPartialBfv(p) =>
        scheme = "BFV" /\ \E c \in Ciphertexts["BFV"] : Make(p, PartialBfv(p, c))
  BY DEF DecryptPartialBfv, PartialBfv
<1>6. DecryptPartialCkks(p) =>
        scheme = "CKKS" /\ \E c \in Ciphertexts["CKKS"] : Make(p, PartialCkks(p, c))
  BY DEF DecryptPartialCkks, PartialCkks
<1>7. ParticipantBfv(p) =>
        scheme = "BFV"
          /\ \E c \in Ciphertexts["BFV"], seed \in Seeds, mask \in Masks["BFV"] :
               Make(p, MaskedBfv(p, c, seed, mask))
  BY DEF ParticipantBfv, MaskedBfv, Fresh
<1>8. ParticipantCkks(p) =>
        scheme = "CKKS"
          /\ \E c \in Ciphertexts["CKKS"], seed \in Seeds, mask \in Masks["CKKS"] :
               Make(p, MaskedCkks(p, c, seed, mask))
  BY DEF ParticipantCkks, MaskedCkks, Fresh
<1>9. QED
  BY <1>1, <1>2, <1>3, <1>4, <1>5, <1>6, <1>7, <1>8

\* The objects that are assembled.
PublicResult(list) ==
  [generated |-> TRUE, from |-> Counted(list),
   parts |-> SummedKey([k \in 1..Len(list) |-> first[list[k]].parts])]
MiddleOf(shares, list) ==
  [generated |-> TRUE, from |-> Counted(list),
   parts |-> <<AddAll(Picked(shares, list, 1)), AddAll(Picked(shares, list, 2))>>]
RelinResult(list) ==
  [generated |-> TRUE, from |-> Counted(list), of |-> middle,
   parts |-> <<Plus(AddAll(Picked(second, list, 1)), AddAll(Picked(second, list, 2))),
               middle.parts[2]>>]
GaloisResult(list, elements, walked) ==
  [generated |-> FALSE, from |-> Counted(list), asked |-> elements,
   keys |-> [g \in walked |-> SummedKey([k \in 1..Len(list) |-> first[list[k]].keys[g]])],
   zero |-> SummedKey([k \in 1..Len(list) |-> first[list[k]].zero])]
MessageBfv(list) ==
  [generated |-> FALSE, from |-> Counted(list), of |-> Origins(list),
   message |-> Rounded(FusedSum(list))]
MessageCkks(list) ==
  [generated |-> TRUE, from |-> Counted(list), of |-> Origins(list),
   message |-> DecodedAt(FusedSum(list), first[list[1]].of.scale)]
OpenedBfv(list, c) == Rounded(Plus(Part0["BFV"][c], AddAll(Picked(first, list, 1))))
OpenedCkks(list, c) ==
  RealPart(DecodedAt(Plus(Part0["CKKS"][c], AddAll(Picked(first, list, 1))), c.scale))
RefreshedBfv(list, c, seed) ==
  Refreshed(list, c, seed,
    <<Plus(AddAll(Picked(first, list, 2)), Lifted(OpenedBfv(list, c))), Intt(Common[seed])>>)
RefreshedCkks(list, c, seed) ==
  Refreshed(list, c, seed,
    <<Plus(AddAll(Picked(first, list, 2)), EncodedAt(OpenedCkks(list, c), ManagerScale)),
      Common[seed]>>)

\* What every collector assembles is made of.
LEMMA ResultsHave ==
  /\ \A list : PublicResult(list).generated \in BOOLEAN
  /\ \A list : RelinResult(list).generated \in BOOLEAN
  /\ \A list, e, w : GaloisResult(list, e, w).generated \in BOOLEAN
  /\ \A list : MessageBfv(list).generated \in BOOLEAN
  /\ \A list : MessageCkks(list).generated \in BOOLEAN
  /\ \A list, c, seed : RefreshedBfv(list, c, seed).generated \in BOOLEAN
  /\ \A list, c, seed : RefreshedCkks(list, c, seed).generated \in BOOLEAN
  BY DEF PublicResult, RelinResult, GaloisResult, MessageBfv, MessageCkks, RefreshedBfv,
         RefreshedCkks, Refreshed

\* What the calls of the collector do.
LEMMA CollectorCalls ==
  ASSUME NEW list
  PROVE  /\ AssemblePublicKeyShare(list) =>
              Throws \/ (AllMade(first, list) /\ Assemble(PublicResult(list)))
         /\ AssembleRelinKeyInit(list) =>
              Throws \/ (/\ AllMade(first, list)
                         /\ middle' = MiddleOf(first, list)
                         /\ raised' = "no"
                         /\ UNCHANGED <<blind, first, second, result>>)
         /\ AssembleRelinKeyShare(list) =>
              Throws \/ (/\ AllMade(second, list) /\ middle.generated
                         /\ Assemble(RelinResult(list)))
         /\ AssembleGaloisKeyShare(list) =>
              Throws \/ Faults
                \/ \E object \in GaloisObjects : \E walked \in SUBSET object.elements :
                     /\ AllMade(first, list)
                     /\ \A k \in 1..Len(list) : walked \subseteq DOMAIN first[list[k]].keys
                     /\ Assemble(GaloisResult(list, object.elements, walked))
         /\ DecryptBfv(list) =>
              Throws \/ (/\ scheme = "BFV" /\ Len(list) # 0
                         /\ \A k \in 1..Len(list) : Partial(list[k])
                         /\ Assemble(MessageBfv(list)))
         /\ DecryptCkks(list) =>
              Throws \/ (/\ scheme = "CKKS" /\ Len(list) # 0
                         /\ \A k \in 1..Len(list) : Partial(list[k])
                         /\ Assemble(MessageCkks(list)))
         /\ CoordinatorBfv(list) =>
              Throws \/ Faults
                \/ \E c \in Ciphertexts["BFV"], seed \in Seeds :
                     /\ scheme = "BFV" /\ Len(list) # 0
                     /\ \A k \in 1..Len(list) : first[list[k]].generated
                     /\ Assemble(RefreshedBfv(list, c, seed))
         /\ CoordinatorCkks(list) =>
              Throws \/ Faults
                \/ \E c \in Ciphertexts["CKKS"], seed \in Seeds :
                     /\ scheme = "CKKS" /\ Len(list) # 0
                     /\ \A k \in 1..Len(list) : first[list[k]].generated
                     /\ Assemble(RefreshedCkks(list, c, seed))
<1>1. AssemblePublicKeyShare(list) =>
        Throws \/ (AllMade(first, list) /\ Assemble(PublicResult(list)))
  BY DEF AssemblePublicKeyShare, PublicResult
<1>2. AssembleRelinKeyInit(list) =>
        Throws \/ (/\ AllMade(first, list)
                   /\ middle' = MiddleOf(first, list)
                   /\ raised' = "no"
                   /\ UNCHANGED <<blind, first, second, result>>)
  BY DEF AssembleRelinKeyInit, MiddleOf
<1>3. AssembleRelinKeyShare(list) =>
        Throws \/ (/\ AllMade(second, list) /\ middle.generated
                   /\ Assemble(RelinResult(list)))
  BY DEF AssembleRelinKeyShare, RelinResult
<1>4. ASSUME AssembleGaloisKeyShare(list), ~Throws, ~Faults
      PROVE  \E object \in GaloisObjects : \E walked \in SUBSET object.elements :
                     /\ AllMade(first, list)
                     /\ \A k \in 1..Len(list) : walked \subseteq DOMAIN first[list[k]].keys
                     /\ Assemble(GaloisResult(list, object.elements, walked))
  <2>1. PICK object \in GaloisObjects :
          LET w == IF object.customized THEN {} ELSE object.elements
          IN  /\ AllMade(first, list)
              /\ \A k \in 1..Len(list) : w \subseteq DOMAIN first[list[k]].keys
              /\ Assemble(GaloisResult(list, object.elements, w))
    BY <1>4 DEF AssembleGaloisKeyShare, GaloisResult
  <2> DEFINE w == IF object.customized THEN {} ELSE object.elements
  <2>2. w \in SUBSET object.elements
    OBVIOUS
  <2>3. /\ AllMade(first, list)
        /\ \A k \in 1..Len(list) : w \subseteq DOMAIN first[list[k]].keys
        /\ Assemble(GaloisResult(list, object.elements, w))
    BY <2>1
  <2> HIDE DEF w
  <2>4. QED
    BY <2>2, <2>3
<1>5. DecryptBfv(list) =>
        Throws \/ (/\ scheme = "BFV" /\ Len(list) # 0
                   /\ \A k \in 1..Len(list) : Partial(list[k])
                   /\ Assemble(MessageBfv(list)))
  BY DEF DecryptBfv, MessageBfv
<1>6. DecryptCkks(list) =>
        Throws \/ (/\ scheme = "CKKS" /\ Len(list) # 0
                   /\ \A k \in 1..Len(list) : Partial(list[k])
                   /\ Assemble(MessageCkks(list)))
  BY DEF DecryptCkks, MessageCkks
<1>7. ASSUME CoordinatorBfv(list), ~Throws, ~Faults
      PROVE  \E c \in Ciphertexts["BFV"], seed \in Seeds :
                     /\ scheme = "BFV" /\ Len(list) # 0
                     /\ \A k \in 1..Len(list) : first[list[k]].generated
                     /\ Assemble(RefreshedBfv(list, c, seed))
  BY <1>7 DEF CoordinatorBfv, RefreshedBfv, OpenedBfv
<1>8. ASSUME CoordinatorCkks(list), ~Throws, ~Faults
      PROVE  \E c \in Ciphertexts["CKKS"], seed \in Seeds :
                     /\ scheme = "CKKS" /\ Len(list) # 0
                     /\ \A k \in 1..Len(list) : first[list[k]].generated
                     /\ Assemble(RefreshedCkks(list, c, seed))
  BY <1>8 DEF CoordinatorCkks, RefreshedCkks, OpenedCkks
<1>9. QED
  BY <1>1, <1>2, <1>3, <1>4, <1>5, <1>6, <1>7, <1>8

\* A party's step keeps the shape.
LEMMA PartyStepShape ==
  ASSUME Shape, UNCHANGED <<scheme, ceremony>>, NEW p \in Parties, PartyStep(p)
  PROVE  Shape'
<1>1. CASE NewManager(p)
  BY <1>1 DEF NewManager, Shape, TypeOK
<1>2. CASE GeneratePublicKeyShare(p)
  BY <1>2, PartyCalls, SharesHave, MakeShape, FailShape
<1>3. CASE GenerateRelinKeyInit(p)
  BY <1>3, PartyCalls, SharesHave, MakeShape, FailShape
<1>4. CASE GenerateRelinKeyShare(p)
  <2>1. CASE Throws
    BY <2>1, FailShape
  <2>2. CASE ~Throws
    <3> DEFINE share == SecondShare(p, middle, blind[p])
    <3>1. /\ second' = [second EXCEPT ![p] = share]
          /\ raised' = "no"
          /\ UNCHANGED <<blind, first, middle, result>>
      BY <1>4, <2>2, PartyCalls
    <3>2. share.generated \in BOOLEAN
      BY SharesHave
    <3> HIDE DEF share
    <3>3. QED
      BY <3>1, <3>2 DEF Shape, TypeOK
  <2>3. QED
    BY <2>1, <2>2
<1>5. CASE GenerateGaloisKeyShare(p)
  BY <1>5, PartyCalls, SharesHave, MakeShape, FailShape
<1>6. CASE DecryptPartialBfv(p)
  BY <1>6, PartyCalls, SharesHave, MakeShape
<1>7. CASE DecryptPartialCkks(p)
  BY <1>7, PartyCalls, SharesHave, MakeShape
<1>8. CASE ParticipantBfv(p)
  BY <1>8, PartyCalls, SharesHave, MakeShape
<1>9. CASE ParticipantCkks(p)
  BY <1>9, PartyCalls, SharesHave, MakeShape
<1>10. QED
  BY <1>1, <1>2, <1>3, <1>4, <1>5, <1>6, <1>7, <1>8, <1>9 DEF PartyStep

\* A collector's step keeps the shape.
LEMMA CollectorStepShape ==
  ASSUME Shape, UNCHANGED <<scheme, ceremony>>, NEW list \in Lists, CollectorStep(list)
  PROVE  Shape'
<1>1. CASE AssemblePublicKeyShare(list)
  BY <1>1, CollectorCalls, ResultsHave, AssembleShape, FailShape
<1>2. CASE AssembleRelinKeyInit(list)
  <2>1. CASE Throws
    BY <2>1, FailShape
  <2>2. CASE ~Throws
    <3>1. /\ middle' = MiddleOf(first, list) /\ raised' = "no"
          /\ UNCHANGED <<blind, first, second, result>>
      BY <1>2, <2>2, CollectorCalls
    <3>2. MiddleOf(first, list).generated \in BOOLEAN
      BY DEF MiddleOf
    <3>3. QED
      BY <3>1, <3>2 DEF Shape, TypeOK
  <2>3. QED
    BY <2>1, <2>2
<1>3. CASE AssembleRelinKeyShare(list)
  BY <1>3, CollectorCalls, ResultsHave, AssembleShape, FailShape
<1>4. CASE AssembleGaloisKeyShare(list)
  <2>1. Throws \/ Faults \/ \E e, w : Assemble(GaloisResult(list, e, w))
    BY <1>4, CollectorCalls
  <2>2. QED
    BY <2>1, ResultsHave, AssembleShape, FailShape
<1>5. CASE DecryptBfv(list)
  BY <1>5, CollectorCalls, ResultsHave, AssembleShape, FailShape
<1>6. CASE DecryptCkks(list)
  BY <1>6, CollectorCalls, ResultsHave, AssembleShape, FailShape
<1>7. CASE CoordinatorBfv(list)
  <2>1. Throws \/ Faults \/ \E c, seed : Assemble(RefreshedBfv(list, c, seed))
    BY <1>7, CollectorCalls
  <2>2. QED
    BY <2>1, ResultsHave, AssembleShape, FailShape
<1>8. CASE CoordinatorCkks(list)
  <2>1. Throws \/ Faults \/ \E c, seed : Assemble(RefreshedCkks(list, c, seed))
    BY <1>8, CollectorCalls
  <2>2. QED
    BY <2>1, ResultsHave, AssembleShape, FailShape
<1>9. QED
  BY <1>1, <1>2, <1>3, <1>4, <1>5, <1>6, <1>7, <1>8 DEF CollectorStep

(* The ceremony, the shares and what is assembled keep their types, for    *)
(* every ring, every number of parties and every length of a vector.       *)
THEOREM ShapeAlways == Spec => []Shape
<1>1. Init => Shape
  BY InitShape
<1>2. Shape /\ [Next]_vars => Shape'
  <2>1. SUFFICES ASSUME Shape, [Next]_vars PROVE Shape'
    OBVIOUS
  <2>2. CASE Next
    BY <2>1, <2>2, PartyStepShape, CollectorStepShape DEF Next
  <2>3. CASE UNCHANGED vars
    BY <2>1, <2>3 DEF vars, Shape, TypeOK
  <2>4. QED
    BY <2>1, <2>2, <2>3
<1>3. QED
  BY <1>1, <1>2, PTL DEF Spec

(* Every call keeps its types.  (HEMultiPartyManager)                      *)
THEOREM TypeCorrect == Spec => []TypeOK
<1>1. Shape => TypeOK
  BY DEF Shape
<1>2. QED
  BY <1>1, ShapeAlways, PTL

\* The calls of each ceremony.
LEMMA CallsOf ==
  ASSUME Next
  PROVE  /\ ~Assembled(result) /\ UNCHANGED <<scheme, ceremony>>
         /\ ceremony = "publickey" =>
              \/ \E p \in Parties : GeneratePublicKeyShare(p)
              \/ \E list \in Lists : AssemblePublicKeyShare(list)
         /\ ceremony = "relinkey" =>
              \/ \E p \in Parties : NewManager(p) \/ GenerateRelinKeyInit(p)
                                      \/ GenerateRelinKeyShare(p)
              \/ \E list \in Lists : AssembleRelinKeyInit(list) \/ AssembleRelinKeyShare(list)
         /\ ceremony = "galoiskey" =>
              \/ \E p \in Parties : GenerateGaloisKeyShare(p)
              \/ \E list \in Lists : AssembleGaloisKeyShare(list)
         /\ ceremony = "decrypt" =>
              \/ \E p \in Parties : DecryptPartialBfv(p) \/ DecryptPartialCkks(p)
              \/ \E list \in Lists : DecryptBfv(list) \/ DecryptCkks(list)
         /\ ceremony = "bootstrap" =>
              \/ \E p \in Parties : ParticipantBfv(p) \/ ParticipantCkks(p)
              \/ \E list \in Lists : CoordinatorBfv(list) \/ CoordinatorCkks(list)
<1>1. \A p : /\ NewManager(p) \/ GenerateRelinKeyInit(p) \/ GenerateRelinKeyShare(p)
                  => ceremony = "relinkey"
             /\ GeneratePublicKeyShare(p) => ceremony = "publickey"
             /\ GenerateGaloisKeyShare(p) => ceremony = "galoiskey"
             /\ DecryptPartialBfv(p) \/ DecryptPartialCkks(p) => ceremony = "decrypt"
             /\ ParticipantBfv(p) \/ ParticipantCkks(p) => ceremony = "bootstrap"
  BY DEF NewManager, GenerateRelinKeyInit, GenerateRelinKeyShare, GeneratePublicKeyShare,
         GenerateGaloisKeyShare, DecryptPartialBfv, DecryptPartialCkks, ParticipantBfv,
         ParticipantCkks
<1>2. \A list : /\ AssembleRelinKeyInit(list) \/ AssembleRelinKeyShare(list)
                     => ceremony = "relinkey"
                /\ AssemblePublicKeyShare(list) => ceremony = "publickey"
                /\ AssembleGaloisKeyShare(list) => ceremony = "galoiskey"
                /\ DecryptBfv(list) \/ DecryptCkks(list) => ceremony = "decrypt"
                /\ CoordinatorBfv(list) \/ CoordinatorCkks(list) => ceremony = "bootstrap"
  BY DEF AssembleRelinKeyInit, AssembleRelinKeyShare, AssemblePublicKeyShare,
         AssembleGaloisKeyShare, DecryptBfv, DecryptCkks, CoordinatorBfv, CoordinatorCkks
<1>3. /\ ~Assembled(result) /\ UNCHANGED <<scheme, ceremony>>
      /\ \/ \E p \in Parties : PartyStep(p)
         \/ \E list \in Lists : CollectorStep(list)
  BY DEF Next
<1>4. QED
  BY <1>1, <1>2, <1>3 DEF PartyStep, CollectorStep

-----------------------------------------------------------------------------
(* The public key. *)

PublicInv ==
  ceremony = "publickey" =>
    /\ \A p \in Parties :
         first[p].generated => \E seed \in Seeds : first[p] = PublicShare(p, seed)
    /\ Assembled(result) =>
         \E list \in Lists : AllMade(first, list) /\ result = PublicResult(list)

\* Every step keeps what is known of a joint public key.
LEMMA PublicStep ==
  ASSUME Shape, PublicInv, Next
  PROVE  PublicInv'
<1>1. SUFFICES ASSUME ceremony = "publickey" PROVE PublicInv'
  BY CallsOf DEF PublicInv
<1>2. /\ ~Assembled(result) /\ UNCHANGED <<scheme, ceremony>>
      /\ \/ \E p \in Parties : GeneratePublicKeyShare(p)
         \/ \E list \in Lists : AssemblePublicKeyShare(list)
  BY <1>1, CallsOf
<1>3. CASE Throws
  BY <1>2, <1>3 DEF Throws, PublicInv
<1>4. CASE ~Throws /\ \E p \in Parties : GeneratePublicKeyShare(p)
  <2>1. PICK p \in Parties, seed \in Seeds : Make(p, PublicShare(p, seed))
    BY <1>4, PartyCalls
  <2> DEFINE share == PublicShare(p, seed)
  <2>2. first' = [first EXCEPT ![p] = share] /\ result' = result
    BY <2>1 DEF Make
  <2> HIDE DEF share
  <2>3. first'[p] = share /\ \A o \in Parties \ {p} : first'[o] = first[o]
    BY <2>2 DEF Shape
  <2>4. ASSUME NEW o \in Parties, first'[o].generated
        PROVE  \E s \in Seeds : first'[o] = PublicShare(o, s)
    <3>1. CASE o = p
      BY <2>3, <3>1 DEF share
    <3>2. CASE o # p
      BY <1>1, <2>3, <2>4, <3>2 DEF PublicInv
    <3>3. QED
      BY <3>1, <3>2
  <2>5. ~Assembled(result)'
    BY <1>2, <2>2 DEF Assembled
  <2>6. \A o, s : PublicShare(o, s)' = PublicShare(o, s)
    BY DEF PublicShare
  <2>7. QED
    BY <2>4, <2>5, <2>6 DEF PublicInv
<1>5. CASE ~Throws /\ \E list \in Lists : AssemblePublicKeyShare(list)
  <2>1. PICK list \in Lists : AllMade(first, list) /\ Assemble(PublicResult(list))
    BY <1>5, CollectorCalls
  <2>2. result' = PublicResult(list) /\ first' = first
    BY <2>1 DEF Assemble
  <2>3. PublicResult(list)' = PublicResult(list) /\ AllMade(first, list)'
    BY <2>1, <2>2 DEF PublicResult, AllMade
  <2>4. QED
    BY <1>1, <2>2, <2>3 DEF PublicInv
<1>6. QED
  BY <1>2, <1>3, <1>4, <1>5

\* A public key so made fits the sum of the secrets counted in it.
LEMMA PublicFits ==
  ASSUME PublicInv, ceremony = "publickey", Assembled(result), SameSeed(result.from)
  PROVE  Plus(result.parts[1], Times(result.parts[2], SecretOf(result.from))) = Zero
<1>1. PICK list \in Lists : AllMade(first, list) /\ result = PublicResult(list)
  BY DEF PublicInv
<1> DEFINE n == Len(list)
           a == Common[first[list[1]].seed]
           s == SecretOf(Counted(list))
           T == [x \in Elements |-> Negated(Times(x, a))]
           parts == [k \in 1 .. n |-> first[list[k]].parts]
<1>2. /\ n \in Nat \ {0} /\ list \in [1 .. n -> Parties]
      /\ \A k \in 1 .. n : first[list[k]].generated
  BY <1>1, ListIs, PartiesAssumption DEF AllMade
<1>3. \A k \in 1 .. n : \E seed \in Seeds : first[list[k]] = PublicShare(list[k], seed)
  BY <1>2 DEF PublicInv
<1>4. \A k \in 1 .. n : first[list[k]].seed = first[list[1]].seed
  <2>1. \A k \in 1 .. n : list[k] \in Givers(Counted(list))
    BY <1>2, CountedIs DEF Givers
  <2>2. result.from = Counted(list)
    BY <1>1 DEF PublicResult
  <2>3. QED
    BY <1>2, <2>1, <2>2 DEF SameSeed
<1>5. a \in Elements
  <2>1. 1 \in 1 .. n
    BY <1>2
  <2>2. PICK seed \in Seeds : first[list[1]] = PublicShare(list[1], seed)
    BY <1>3, <2>1
  <2>3. first[list[1]].seed = seed
    BY <2>2 DEF PublicShare
  <2>4. QED
    BY <2>3, PartiesAssumption
<1>6. \A k \in 1 .. n : parts[k] = <<Negated(Times(Secret[list[k]], a)), a>>
  <2>1. ASSUME NEW k \in 1 .. n PROVE parts[k] = <<Negated(Times(Secret[list[k]], a)), a>>
    <3>1. PICK seed \in Seeds : first[list[k]] = PublicShare(list[k], seed)
      BY <1>3
    <3>2. first[list[k]].seed = seed /\ first[list[k]].parts = PublicKeyParts(list[k], Common[seed])
      BY <3>1 DEF PublicShare
    <3>3. Common[seed] = a
      BY <1>4, <3>2
    <3> HIDE DEF a
    <3>4. QED
      BY <3>2, <3>3 DEF PublicKeyParts, Negated
  <2>2. QED
    BY <2>1
<1> HIDE DEF a
<1>7. T \in [Elements -> Elements] /\ \A x \in Elements : T[x] = Negated(Times(x, a))
  BY <1>5, TimesIs, NegatedIs
<1>8. T[Zero] = Zero /\ \A x, y \in Elements : T[Plus(x, y)] = Plus(T[x], T[y])
  <2>1. T[Zero] = Zero
    <3>1. Times(Zero, a) = Zero /\ Negated(Zero) = Zero
      BY <1>5, ZeroLaws
    <3>2. QED
      BY <1>7, <3>1, ZeroIs
  <2>2. ASSUME NEW x \in Elements, NEW y \in Elements
        PROVE  T[Plus(x, y)] = Plus(T[x], T[y])
    <3>1. Times(Plus(x, y), a) = Plus(Times(x, a), Times(y, a))
      BY <1>5, TimesDistributes
    <3>2. Negated(Plus(Times(x, a), Times(y, a))) = Plus(Negated(Times(x, a)), Negated(Times(y, a)))
      BY <1>5, TimesIs, NegatedDistributes
    <3> HIDE DEF T
    <3>3. QED
      BY <1>7, <3>1, <3>2, PlusIs
  <2> HIDE DEF T
  <2>3. QED
    BY <2>1, <2>2
<1> HIDE DEF T
<1>9. AddAll([k \in 1 .. n |-> T[Secret[list[k]]]]) = T[s]
  BY <1>7, <1>8, MappedVector, PartiesAssumption DEF SecretOf
<1>10. result.parts = <<AddAll([k \in DOMAIN parts |-> parts[k][1]]), parts[1][2]>>
  BY <1>1 DEF PublicResult, SummedKey
<1>11. [k \in DOMAIN parts |-> parts[k][1]] = [k \in 1 .. n |-> T[Secret[list[k]]]]
  <2>1. \A k \in 1 .. n : parts[k][1] = T[Secret[list[k]]]
    <3>1. SUFFICES ASSUME NEW k \in 1 .. n PROVE parts[k][1] = T[Secret[list[k]]]
      OBVIOUS
    <3>2. Secret[list[k]] \in Elements /\ parts[k] = <<Negated(Times(Secret[list[k]], a)), a>>
      BY <1>2, <1>6, PartiesAssumption
    <3> HIDE DEF parts
    <3>3. QED
      BY <1>7, <3>2
  <2>2. DOMAIN parts = 1 .. n
    OBVIOUS
  <2> HIDE DEF parts
  <2>3. QED
    BY <2>1, <2>2
<1>12. parts[1][2] = a
  <2>1. 1 \in 1 .. n
    BY <1>2
  <2> HIDE DEF parts
  <2>2. QED
    BY <1>6, <2>1
<1> HIDE DEF parts
<1>13. result.parts[1] = Negated(Times(s, a)) /\ result.parts[2] = a /\ s \in Elements
  <2>1. s \in Elements
    BY SumOfVector, PartiesAssumption DEF SecretOf
  <2> HIDE DEF s
  <2>2. AddAll([k \in DOMAIN parts |-> parts[k][1]]) = T[s]
    BY <1>9, <1>11
  <2>3. T[s] = Negated(Times(s, a))
    BY <1>7, <2>1
  <2>4. QED
    BY <1>10, <1>12, <2>1, <2>2, <2>3
<1>14. SecretOf(result.from) = s
  BY <1>1 DEF PublicResult
<1> HIDE DEF s
<1>15. Plus(Negated(Times(s, a)), Times(a, s)) = Zero
  BY <1>5, <1>13, TimesCommutes, TimesIs, NegatedCancels
<1>16. QED
  BY <1>13, <1>14, <1>15

(* A public key assembled from shares of one seed is the public key of the *)
(* sum of the secrets in the vector, for every ring, every number of       *)
(* parties and every vector of shares.  (generate_public_key_stage1 and 2) *)
THEOREM PublicKeyFits == Spec => []PublicKeyFitsTheVector
<1>1. Init => PublicInv
  <2>1. SUFFICES ASSUME Init PROVE PublicInv
    OBVIOUS
  <2>2. \A p \in Parties : ~first[p].generated
    BY <2>1 DEF Init, Nothing
  <2>3. ~Assembled(result)
    BY <2>1 DEF Init, Nothing, Assembled
  <2>4. QED
    BY <2>2, <2>3 DEF PublicInv
<1>2. Shape /\ PublicInv /\ [Next]_vars => PublicInv'
  <2>1. SUFFICES ASSUME Shape, PublicInv, [Next]_vars PROVE PublicInv'
    OBVIOUS
  <2>2. CASE Next
    BY <2>1, <2>2, PublicStep
  <2>3. CASE UNCHANGED vars
    BY <2>1, <2>3 DEF vars, PublicInv, Assembled, AllMade, PublicResult, PublicShare
  <2>4. QED
    BY <2>1, <2>2, <2>3
<1>3. PublicInv => PublicKeyFitsTheVector
  BY PublicFits DEF PublicKeyFitsTheVector
<1>4. QED
  BY <1>1, <1>2, <1>3, ShapeAlways, PTL DEF Spec

-----------------------------------------------------------------------------
(* Sums of what a kernel makes of everyone's part. *)

\* A common factor comes out of a sum.
LEMMA SumTimes ==
  ASSUME NEW D, IsFiniteSet(D), NEW f \in [D -> Elements], NEW a \in Elements
  PROVE  /\ AddAll([x \in D |-> Times(f[x], a)]) = Times(AddAll(f), a)
         /\ AddAll([x \in D |-> Times(a, f[x])]) = Times(a, AddAll(f))
<1> DEFINE T == [x \in Elements |-> Times(x, a)]
<1>1. T \in [Elements -> Elements] /\ \A x \in Elements : T[x] = Times(x, a)
  BY TimesIs
<1> HIDE DEF T
<1>2. T[Zero] = Zero /\ \A x, y \in Elements : T[Plus(x, y)] = Plus(T[x], T[y])
  BY <1>1, ZeroIs, ZeroLaws, PlusIs, TimesDistributes
<1>3. AddAll([x \in D |-> T[f[x]]]) = T[AddAll(f)]
  BY <1>1, <1>2, SumMapped
<1>4. AddAll(f) \in Elements
  BY SumIsElement
<1>5. [x \in D |-> T[f[x]]] = [x \in D |-> Times(f[x], a)]
  BY <1>1
<1>6. [x \in D |-> Times(f[x], a)] = [x \in D |-> Times(a, f[x])]
  <2>1. \A x \in D : Times(f[x], a) = Times(a, f[x])
    BY TimesCommutes
  <2>2. QED
    BY <2>1
<1>7. QED
  BY <1>1, <1>3, <1>4, <1>5, <1>6, TimesCommutes

\* A negation comes out of a sum.
LEMMA SumNegated ==
  ASSUME NEW D, IsFiniteSet(D), NEW f \in [D -> Elements]
  PROVE  AddAll([x \in D |-> Negated(f[x])]) = Negated(AddAll(f))
<1> DEFINE T == [x \in Elements |-> Negated(x)]
<1>1. T \in [Elements -> Elements] /\ \A x \in Elements : T[x] = Negated(x)
  BY NegatedIs
<1> HIDE DEF T
<1>2. T[Zero] = Zero /\ \A x, y \in Elements : T[Plus(x, y)] = Plus(T[x], T[y])
  BY <1>1, ZeroIs, ZeroLaws, PlusIs, NegatedDistributes
<1>3. AddAll([x \in D |-> T[f[x]]]) = T[AddAll(f)]
  BY <1>1, <1>2, SumMapped
<1>4. AddAll(f) \in Elements
  BY SumIsElement
<1>5. [x \in D |-> T[f[x]]] = [x \in D |-> Negated(f[x])]
  BY <1>1
<1>6. QED
  BY <1>1, <1>3, <1>4, <1>5

\* A common scale comes out of a sum.
LEMMA SumScaled ==
  ASSUME NEW D, IsFiniteSet(D), NEW f \in [D -> Elements], NEW c \in Int
  PROVE  AddAll([x \in D |-> Scaled(c, f[x])]) = Scaled(c, AddAll(f))
<1>1. AddAll(f) \in Elements
  BY SumIsElement
<1>2. [x \in D |-> Scaled(c, f[x])] = [x \in D |-> Times(Constant(c), f[x])]
  <2>1. \A x \in D : Scaled(c, f[x]) = Times(Constant(c), f[x])
    BY ScaledIsTimes
  <2>2. QED
    BY <2>1
<1>3. Constant(c) \in Elements
  BY ScaledIsTimes, ZeroIs
<1>4. AddAll([x \in D |-> Times(Constant(c), f[x])]) = Times(Constant(c), AddAll(f))
  BY <1>3, SumTimes
<1>5. QED
  BY <1>1, <1>2, <1>4, ScaledIsTimes

\* A sum of differences is the difference of the sums.
LEMMA SumOfDifferences ==
  ASSUME NEW D, IsFiniteSet(D), NEW f \in [D -> Elements], NEW g \in [D -> Elements]
  PROVE  AddAll([x \in D |-> Minus(f[x], g[x])]) = Minus(AddAll(f), AddAll(g))
<1> DEFINE h == [x \in D |-> Negated(g[x])]
<1>1. h \in [D -> Elements]
  BY NegatedIs
<1>2. \A x \in D : Minus(f[x], g[x]) = Plus(f[x], h[x])
  BY MinusIsPlus
<1>3. [x \in D |-> Minus(f[x], g[x])] = [x \in D |-> Plus(f[x], h[x])]
  BY <1>2
<1>4. AddAll(h) = Negated(AddAll(g))
  BY SumNegated
<1> HIDE DEF h
<1>5. AddAll([x \in D |-> Plus(f[x], h[x])]) = Plus(AddAll(f), AddAll(h))
  BY <1>1, SumOfSums
<1>6. AddAll(f) \in Elements /\ AddAll(g) \in Elements
  BY SumIsElement
<1>7. QED
  BY <1>3, <1>4, <1>5, <1>6, MinusIsPlus

-----------------------------------------------------------------------------
(* The relinearization key. *)

\* An assembled first round, of shares that are still there.
IsMiddle(shares, m) ==
  \E list \in Lists : AllMade(shares, list) /\ m = MiddleOf(shares, list)

RelinInv ==
  ceremony = "relinkey" =>
    /\ \A p \in Parties :
         first[p].generated =>
           \E seed \in Seeds, u \in Blinds : first[p] = FirstShare(p, seed, u)
    /\ middle.generated => IsMiddle(first, middle)
    /\ \A p \in Parties :
         second[p].generated =>
           /\ IsMiddle(first, second[p].of)
           /\ \E u \in Blinds : second[p] = SecondShare(p, second[p].of, u)
    /\ Assembled(result) =>
         \E list \in Lists : /\ AllMade(second, list) /\ middle.generated
                             /\ result = RelinResult(list)

\* Another party's first share changes no round that was assembled.
LEMMA MiddleKept ==
  ASSUME NEW f, NEW p \in Parties, ~f[p].generated, NEW g,
         \A o \in Parties \ {p} : g[o] = f[o], NEW m, IsMiddle(f, m)
  PROVE  IsMiddle(g, m)
<1>1. PICK list \in Lists : AllMade(f, list) /\ m = MiddleOf(f, list)
  BY DEF IsMiddle
<1>2. list \in [1 .. Len(list) -> Parties]
  BY ListIs
<1>3. \A k \in 1 .. Len(list) : list[k] \in Parties \ {p}
  BY <1>1, <1>2 DEF AllMade
<1>4. \A k \in 1 .. Len(list) : g[list[k]] = f[list[k]]
  BY <1>3
<1>5. AllMade(g, list)
  BY <1>1, <1>4 DEF AllMade
<1>6. Picked(g, list, 1) = Picked(f, list, 1) /\ Picked(g, list, 2) = Picked(f, list, 2)
  BY <1>4 DEF Picked
<1>7. MiddleOf(g, list) = MiddleOf(f, list)
  BY <1>6 DEF MiddleOf
<1>8. QED
  BY <1>1, <1>5, <1>7 DEF IsMiddle

\* Every step keeps what is known of a joint relinearization key.
LEMMA RelinStep ==
  ASSUME Shape, RelinInv, Next
  PROVE  RelinInv'
<1>1. SUFFICES ASSUME ceremony = "relinkey" PROVE RelinInv'
  BY CallsOf DEF RelinInv
<1>2. /\ ~Assembled(result) /\ UNCHANGED <<scheme, ceremony>>
      /\ \/ \E p \in Parties : NewManager(p) \/ GenerateRelinKeyInit(p) \/ GenerateRelinKeyShare(p)
         \/ \E list \in Lists : AssembleRelinKeyInit(list) \/ AssembleRelinKeyShare(list)
  BY <1>1, CallsOf
<1>3. CASE UNCHANGED <<first, second, middle, result>>
  BY <1>2, <1>3 DEF RelinInv, Assembled
<1>4. CASE \E p \in Parties : NewManager(p)
  BY <1>3, <1>4 DEF NewManager
<1>5. CASE Throws
  BY <1>3, <1>5 DEF Throws
<1>6. CASE ~Throws /\ \E p \in Parties : GenerateRelinKeyInit(p)
  <2>1. PICK p \in Parties, seed \in Seeds :
          ~first[p].generated /\ Make(p, FirstShare(p, seed, blind[p]))
    BY <1>6, PartyCalls
  <2> DEFINE u == blind[p]
             share == FirstShare(p, seed, u)
  <2>2. /\ u \in Blinds /\ first' = [first EXCEPT ![p] = share]
        /\ UNCHANGED <<second, middle, result>>
    BY <2>1 DEF Make, Shape, TypeOK
  <2> HIDE DEF u, share
  <2>3. first'[p] = share /\ \A o \in Parties \ {p} : first'[o] = first[o]
    BY <2>2 DEF Shape
  <2>4. \A m : IsMiddle(first, m) => IsMiddle(first', m)
    BY <2>1, <2>3, MiddleKept
  <2>5. ASSUME NEW o \in Parties, first'[o].generated
        PROVE  \E s \in Seeds, v \in Blinds : first'[o] = FirstShare(o, s, v)
    <3>1. CASE o = p
      BY <2>2, <2>3, <3>1 DEF share
    <3>2. CASE o # p
      BY <1>1, <2>3, <2>5, <3>2 DEF RelinInv
    <3>3. QED
      BY <3>1, <3>2
  <2>6. middle'.generated => IsMiddle(first', middle')
    BY <1>1, <2>2, <2>4 DEF RelinInv
  <2>7. \A o \in Parties :
          second'[o].generated =>
            /\ IsMiddle(first', second'[o].of)
            /\ \E v \in Blinds : second'[o] = SecondShare(o, second'[o].of, v)
    BY <1>1, <2>2, <2>4 DEF RelinInv
  <2>8. ~Assembled(result')
    BY <1>2, <2>2
  <2>9. QED
    BY <2>5, <2>6, <2>7, <2>8 DEF RelinInv
<1>7. CASE ~Throws /\ \E p \in Parties : GenerateRelinKeyShare(p)
  <2>1. PICK p \in Parties :
          /\ middle.generated /\ ~second[p].generated
          /\ second' = [second EXCEPT ![p] = SecondShare(p, middle, blind[p])]
          /\ UNCHANGED <<blind, first, middle, result>>
    BY <1>7, PartyCalls
  <2> DEFINE u == blind[p]
             share == SecondShare(p, middle, u)
  <2>2. u \in Blinds
    BY DEF Shape, TypeOK
  <2>3. share.of = middle
    BY DEF SecondShare
  <2>4. second'[p] = share /\ \A o \in Parties \ {p} : second'[o] = second[o]
    BY <2>1 DEF Shape
  <2>5. ASSUME NEW o \in Parties, second'[o].generated
        PROVE  /\ IsMiddle(first', second'[o].of)
               /\ \E v \in Blinds : second'[o] = SecondShare(o, second'[o].of, v)
    <3>1. CASE o = p
      <4>1. IsMiddle(first, middle)
        BY <1>1, <2>1 DEF RelinInv
      <4>2. second'[o] = SecondShare(o, second'[o].of, u) /\ second'[o].of = middle
        BY <2>3, <2>4, <3>1
      <4> HIDE DEF u, share
      <4>3. QED
        BY <2>1, <2>2, <4>1, <4>2
    <3>2. CASE o # p
      BY <1>1, <2>1, <2>4, <2>5, <3>2 DEF RelinInv
    <3>3. QED
      BY <3>1, <3>2
  <2>6. ~Assembled(result')
    BY <1>2, <2>1
  <2>7. QED
    BY <1>1, <2>1, <2>5, <2>6 DEF RelinInv
<1>8. CASE ~Throws /\ \E list \in Lists : AssembleRelinKeyInit(list)
  <2>1. PICK list \in Lists :
          /\ AllMade(first, list)
          /\ middle' = MiddleOf(first, list)
          /\ UNCHANGED <<blind, first, second, result>>
    BY <1>8, CollectorCalls
  <2>2. IsMiddle(first', middle')
    BY <2>1 DEF IsMiddle
  <2>3. ~Assembled(result')
    BY <1>2, <2>1
  <2>4. QED
    BY <1>1, <2>1, <2>2, <2>3 DEF RelinInv
<1>9. CASE ~Throws /\ \E list \in Lists : AssembleRelinKeyShare(list)
  <2>1. PICK list \in Lists : /\ AllMade(second, list) /\ middle.generated
                              /\ Assemble(RelinResult(list))
    BY <1>9, CollectorCalls
  <2>2. result' = RelinResult(list) /\ UNCHANGED <<first, second, middle>>
    BY <2>1 DEF Assemble
  <2>3. RelinResult(list)' = RelinResult(list)
    BY <2>2 DEF RelinResult
  <2>4. QED
    BY <1>1, <2>1, <2>2, <2>3 DEF RelinInv
<1>10. QED
  BY <1>2, <1>4, <1>5, <1>6, <1>7, <1>8, <1>9

\* Everyone's terms under a common factor, and a vector that has everyone once.
LEMMA FactorOfAll ==
  ASSUME NEW f \in [Parties -> Elements], NEW a \in Elements
  PROVE  /\ AddAll([p \in Parties |-> Times(f[p], a)]) = Times(AddAll(f), a)
         /\ AddAll([p \in Parties |-> Times(a, f[p])]) = Times(a, AddAll(f))
<1>1. IsFiniteSet(Parties)
  BY PartiesAssumption
<1>2. QED
  BY <1>1, SumTimes
LEMMA VectorOfAll ==
  ASSUME NEW list \in Lists, Everyone(Counted(list)), NEW w \in [Parties -> Elements],
         NEW f, f = [k \in 1 .. Len(list) |-> w[list[k]]]
  PROVE  AddAll(f) = AddAll(w)
BY SumOfVector

\* A party that is counted is in the vector.
LEMMA GiverIsIn ==
  ASSUME NEW list \in Lists, NEW p \in Parties, Counted(list)[p] > 0
  PROVE  \E k \in 1 .. Len(list) : list[k] = p
<1> DEFINE K == {k \in 1 .. Len(list) : list[k] = p}
<1>1. Counted(list)[p] = Cardinality(K)
  BY DEF Counted
<1> HIDE DEF K
<1>2. K # {}
  BY <1>1, FS_EmptySet
<1>3. QED
  BY <1>2 DEF K

\* The algebra of the two rounds: -uas + Ps^2 and as(u - s) add up to what
\* as times s completes to Ps^2.
LEMMA RelinAlgebra ==
  ASSUME NEW a \in Elements, NEW u \in Elements, NEW s \in Elements, NEW c \in Elements
  PROVE  LET m1 == Plus(Negated(Times(u, a)), Times(c, s))
             m2 == Times(a, s)
         IN  Plus(Plus(Times(m1, s), Times(m2, Minus(u, s))), Times(m2, s))
               = Times(c, Times(s, s))
<1> DEFINE m1 == Plus(Negated(Times(u, a)), Times(c, s))
           m2 == Times(a, s)
           x == Times(Times(u, a), s)
           y == Times(m2, s)
           z == Times(c, Times(s, s))
<1>1. /\ Times(u, a) \in Elements /\ Times(c, s) \in Elements /\ Times(s, s) \in Elements
      /\ m2 \in Elements /\ Negated(Times(u, a)) \in Elements /\ Negated(s) \in Elements
      /\ Times(a, s) \in Elements /\ Times(u, s) \in Elements
  BY TimesIs, NegatedIs
<1>2. m1 \in Elements /\ x \in Elements /\ y \in Elements /\ z \in Elements
  BY <1>1, PlusIs, TimesIs
<1>3. Times(m1, s) = Plus(Negated(x), z)
  <2>1. Times(m1, s) = Plus(Times(Negated(Times(u, a)), s), Times(Times(c, s), s))
    BY <1>1, TimesDistributes
  <2>2. Times(Negated(Times(u, a)), s) = Negated(x)
    BY <1>1, NegatedTimes
  <2>3. Times(Times(c, s), s) = z
    BY TimesAssociates
  <2>4. QED
    BY <2>1, <2>2, <2>3
<1>4. Times(m2, Minus(u, s)) = Plus(x, Negated(y))
  <2>1. Minus(u, s) = Plus(u, Negated(s)) /\ Plus(u, Negated(s)) \in Elements
    BY <1>1, MinusIsPlus, PlusIs
  <2>2. Times(m2, Plus(u, Negated(s))) = Times(Plus(u, Negated(s)), m2)
    BY <1>1, <2>1, TimesCommutes
  <2>3. Times(Plus(u, Negated(s)), m2) = Plus(Times(u, m2), Times(Negated(s), m2))
    BY <1>1, TimesDistributes
  <2>4. Times(u, m2) = x
    BY TimesAssociates
  <2>5. Times(Negated(s), m2) = Negated(Times(s, m2)) /\ Times(s, m2) = y
    BY <1>1, NegatedTimes, TimesCommutes
  <2>6. QED
    BY <2>1, <2>2, <2>3, <2>4, <2>5
<1> HIDE DEF m1, m2, x, y, z
<1>5. Plus(Plus(Plus(Negated(x), z), Plus(x, Negated(y))), y) = z
  <2>1. /\ Negated(x) \in Elements /\ Negated(y) \in Elements
        /\ Plus(Negated(x), z) \in Elements /\ Plus(x, Negated(y)) \in Elements
    BY <1>2, NegatedIs, PlusIs
  <2>2. Plus(Plus(Plus(Negated(x), z), Plus(x, Negated(y))), y)
          = Plus(Plus(Negated(x), z), Plus(Plus(x, Negated(y)), y))
    BY <1>2, <2>1, PlusAssociates
  <2>3. Plus(Plus(x, Negated(y)), y) = x
    <3>1. Plus(Plus(x, Negated(y)), y) = Plus(x, Plus(Negated(y), y))
      BY <1>2, <2>1, PlusAssociates
    <3>2. QED
      BY <1>2, <3>1, NegatedCancels, PlusZero
  <2>4. Plus(Plus(Negated(x), z), x) = z
    <3>1. Plus(Negated(x), z) = Plus(z, Negated(x))
      BY <1>2, <2>1, PlusCommutes
    <3>2. Plus(Plus(z, Negated(x)), x) = Plus(z, Plus(Negated(x), x))
      BY <1>2, <2>1, PlusAssociates
    <3>3. QED
      BY <1>2, <3>1, <3>2, NegatedCancels, PlusZero
  <2>5. QED
    BY <2>2, <2>3, <2>4
<1>6. QED
  BY <1>3, <1>4, <1>5 DEF m1, m2, x, y, z

\* The first round collected from everyone, from one seed.
LEMMA FirstRoundIs ==
  ASSUME Shape, RelinInv, ceremony = "relinkey", NEW list \in Lists, AllMade(first, list),
         Everyone(Counted(list)), SameSeed(Counted(list))
  PROVE  \E a \in Elements :
           LET u == AddAll([p \in Parties |-> first[p].blind])
               m == MiddleOf(first, list)
           IN  /\ [p \in Parties |-> first[p].blind] \in [Parties -> Elements]
               /\ m.parts[1] = Plus(Negated(Times(u, a)), Scaled(PFactor, Joint))
               /\ m.parts[2] = Times(a, Joint)
<1> DEFINE U == [p \in Parties |-> first[p].blind]
           a == Common[first[list[1]].seed]
           w1 == [p \in Parties |-> Plus(Negated(Times(U[p], a)), Scaled(PFactor, Secret[p]))]
           w2 == [p \in Parties |-> Times(a, Secret[p])]
<1>1. /\ Len(list) \in Nat \ {0} /\ list \in [1 .. Len(list) -> Parties]
      /\ Secret \in [Parties -> Elements] /\ IsFiniteSet(Parties) /\ PFactor \in Int
  BY ListIs, PartiesAssumption DEF AllMade
<1>2. ASSUME NEW p \in Parties
      PROVE  /\ p \in Givers(Counted(list))
             /\ \E seed \in Seeds, u \in Blinds : first[p] = FirstShare(p, seed, u)
             /\ first[p].seed \in Seeds /\ first[p].blind \in Blinds
  <2>1. Counted(list)[p] = 1
    BY DEF Everyone
  <2>2. PICK k \in 1 .. Len(list) : list[k] = p
    BY <2>1, GiverIsIn
  <2>3. first[p].generated
    BY <2>2 DEF AllMade
  <2>4. PICK seed \in Seeds, u \in Blinds : first[p] = FirstShare(p, seed, u)
    BY <2>3 DEF RelinInv
  <2>5. first[p].seed = seed /\ first[p].blind = u
    BY <2>4 DEF FirstShare
  <2>6. QED
    BY <2>1, <2>4, <2>5 DEF Givers
<1>3. \A p \in Parties : Common[first[p].seed] = a /\ first[p].seed \in Seeds
  <2>1. 1 \in 1 .. Len(list)
    BY <1>1
  <2>2. list[1] \in Parties
    BY <1>1, <2>1
  <2>3. \A p \in Parties : first[p].seed = first[list[1]].seed
    BY <1>2, <2>2 DEF SameSeed
  <2>4. \A p \in Parties : first[p].seed \in Seeds
    BY <1>2
  <2>5. QED
    BY <2>3, <2>4
<1>4. a \in Elements
  <2>1. 1 \in 1 .. Len(list)
    BY <1>1
  <2>2. list[1] \in Parties
    BY <1>1, <2>1
  <2>3. QED
    BY <1>3, <2>2, PartiesAssumption
<1> HIDE DEF a
<1>5. U \in [Parties -> Elements]
  <2>1. \A p \in Parties : first[p].blind \in Blinds
    BY <1>2
  <2>2. QED
    BY <2>1, PartiesAssumption
<1>6. \A p \in Parties : first[p].parts = <<w1[p], w2[p]>>
  <2>1. SUFFICES ASSUME NEW p \in Parties PROVE first[p].parts = <<w1[p], w2[p]>>
    OBVIOUS
  <2>2. PICK seed \in Seeds, u \in Blinds : first[p] = FirstShare(p, seed, u)
    BY <1>2
  <2>3. /\ first[p].parts = RelinFirstParts(p, Common[seed], u)
        /\ first[p].seed = seed /\ first[p].blind = u
    BY <2>2 DEF FirstShare
  <2>4. Common[seed] = a /\ U[p] = u
    BY <1>3, <2>3
  <2>5. QED
    BY <2>3, <2>4 DEF RelinFirstParts, Negated
<1>7. w2 \in [Parties -> Elements] /\ AddAll(w2) = Times(a, Joint)
  <2>1. w2 \in [Parties -> Elements]
    BY <1>1, <1>4, TimesIs
  <2>2. QED
    <3>1. AddAll(w2) = Times(a, AddAll(Secret))
      <4>1. Secret \in [Parties -> Elements] /\ a \in Elements
        BY <1>1, <1>4
      <4> HIDE DEF a
      <4>2. QED
        BY <4>1, FactorOfAll
    <3>2. QED
      BY <2>1, <3>1 DEF Joint
<1>8. w1 \in [Parties -> Elements]
      /\ AddAll(w1) = Plus(Negated(Times(AddAll(U), a)), Scaled(PFactor, Joint))
  <2> DEFINE f == [p \in Parties |-> Times(U[p], a)]
             g == [p \in Parties |-> Negated(f[p])]
             h == [p \in Parties |-> Scaled(PFactor, Secret[p])]
  <2>1. f \in [Parties -> Elements]
    BY <1>4, <1>5, TimesIs
  <2>2. AddAll(f) = Times(AddAll(U), a)
    <3> HIDE DEF U
    <3>1. QED
      BY <1>4, <1>5, FactorOfAll
  <2>3. w1 = [p \in Parties |-> Plus(g[p], h[p])]
    OBVIOUS
  <2> HIDE DEF f
  <2>4. g \in [Parties -> Elements] /\ AddAll(g) = Negated(AddAll(f))
    BY <1>1, <2>1, SumNegated, NegatedIs
  <2>5. h \in [Parties -> Elements] /\ AddAll(h) = Scaled(PFactor, Joint)
    <3>1. \A p \in Parties : Scaled(PFactor, Secret[p]) \in Elements
      BY <1>1, ElementsAreIntegers, ScaledIs
    <3>2. QED
      BY <1>1, <3>1, SumScaled DEF Joint
  <2> HIDE DEF g, h
  <2>6. \A p \in Parties : Plus(g[p], h[p]) \in Elements
    BY <2>4, <2>5, PlusIs
  <2>7. AddAll([p \in Parties |-> Plus(g[p], h[p])]) = Plus(AddAll(g), AddAll(h))
    BY <1>1, <2>4, <2>5, SumOfSums
  <2>8. QED
    BY <2>2, <2>3, <2>4, <2>5, <2>6, <2>7
<1>9. \A k \in 1 .. Len(list) : first[list[k]].parts = <<w1[list[k]], w2[list[k]]>>
  BY <1>1, <1>6
<1> HIDE DEF w1, w2
<1>10. /\ Picked(first, list, 1) = [k \in 1 .. Len(list) |-> w1[list[k]]]
       /\ Picked(first, list, 2) = [k \in 1 .. Len(list) |-> w2[list[k]]]
  <2>1. ASSUME NEW k \in 1 .. Len(list)
        PROVE  first[list[k]].parts[1] = w1[list[k]] /\ first[list[k]].parts[2] = w2[list[k]]
    <3>1. first[list[k]].parts = <<w1[list[k]], w2[list[k]]>>
      BY <1>9
    <3>2. QED
      BY <3>1
  <2>2. QED
    BY <2>1 DEF Picked
<1>11. /\ AddAll(Picked(first, list, 1)) = AddAll(w1)
       /\ AddAll(Picked(first, list, 2)) = AddAll(w2)
  <2>1. Everyone(Counted(list)) /\ w1 \in [Parties -> Elements] /\ w2 \in [Parties -> Elements]
    BY <1>7, <1>8
  <2>2. QED
    BY <1>10, <2>1, VectorOfAll
<1> HIDE DEF U
<1>12. /\ MiddleOf(first, list).parts[1] = Plus(Negated(Times(AddAll(U), a)), Scaled(PFactor, Joint))
       /\ MiddleOf(first, list).parts[2] = Times(a, Joint)
  BY <1>7, <1>8, <1>11 DEF MiddleOf
<1>13. QED
  BY <1>4, <1>5, <1>12 DEF U

\* A relinearization key so made by everyone fits the joint secret.
LEMMA RelinFits ==
  ASSUME Shape, RelinInv, ceremony = "relinkey", Assembled(result),
         Everyone(result.from), Everyone(result.of.from), SameSeed(result.of.from),
         \A p \in Parties : /\ second[p].of = result.of
                            /\ second[p].blind = first[p].blind
  PROVE  Plus(result.parts[1], Times(result.parts[2], Joint))
           = Scaled(PFactor, Times(Joint, Joint))
<1>1. PICK list \in Lists : /\ AllMade(second, list) /\ middle.generated
                            /\ result = RelinResult(list)
  BY DEF RelinInv
<1>2. PICK list1 \in Lists : AllMade(first, list1) /\ middle = MiddleOf(first, list1)
  BY <1>1 DEF RelinInv, IsMiddle
<1>3. /\ result.from = Counted(list) /\ result.of = middle
      /\ middle.from = Counted(list1)
      /\ result.parts = <<Plus(AddAll(Picked(second, list, 1)), AddAll(Picked(second, list, 2))),
                          middle.parts[2]>>
  BY <1>1, <1>2 DEF RelinResult, MiddleOf
<1> DEFINE U == [p \in Parties |-> first[p].blind]
           m1 == middle.parts[1]
           m2 == middle.parts[2]
           u == AddAll(U)
<1>4. PICK a \in Elements :
        /\ U \in [Parties -> Elements]
        /\ m1 = Plus(Negated(Times(u, a)), Scaled(PFactor, Joint))
        /\ m2 = Times(a, Joint)
  BY <1>2, <1>3, FirstRoundIs
<1>5. /\ Secret \in [Parties -> Elements] /\ IsFiniteSet(Parties) /\ PFactor \in Int
      /\ Joint \in Elements
  BY PartiesAssumption, SumIsElement DEF Joint
<1>6. u \in Elements
  <2> HIDE DEF U
  <2>1. QED
    BY <1>4, <1>5, SumIsElement
<1>7. m1 \in Elements /\ m2 \in Elements
  <2>1. Scaled(PFactor, Joint) \in Elements
    BY <1>5, ElementsAreIntegers, ScaledIs
  <2>2. Negated(Times(u, a)) \in Elements
    BY <1>6, TimesIs, NegatedIs
  <2> HIDE DEF m1, m2, u
  <2>3. QED
    BY <1>4, <1>5, <2>1, <2>2, PlusIs, TimesIs
<1>8. \A p \in Parties : second[p].parts = <<Times(m1, Secret[p]), Times(m2, Minus(U[p], Secret[p]))>>
  <2>1. SUFFICES ASSUME NEW p \in Parties
                 PROVE  second[p].parts = <<Times(m1, Secret[p]), Times(m2, Minus(U[p], Secret[p]))>>
    OBVIOUS
  <2>2. second[p].generated
    <3>1. Counted(list)[p] = 1
      BY <1>3 DEF Everyone
    <3>2. PICK k \in 1 .. Len(list) : list[k] = p
      BY <3>1, GiverIsIn
    <3>3. QED
      BY <1>1, <3>2 DEF AllMade
  <2>3. PICK v \in Blinds : second[p] = SecondShare(p, second[p].of, v)
    BY <2>2 DEF RelinInv
  <2>4. second[p].of = middle /\ second[p].blind = U[p]
    BY <1>3
  <2>5. second[p].blind = v /\ second[p].parts = RelinSecondParts(p, middle.parts, v)
    BY <2>3, <2>4 DEF SecondShare
  <2>6. QED
    BY <2>4, <2>5 DEF RelinSecondParts
<1> DEFINE w1 == [p \in Parties |-> Times(m1, Secret[p])]
           d == [p \in Parties |-> Minus(U[p], Secret[p])]
           w2 == [p \in Parties |-> Times(m2, d[p])]
<1>9. \A p \in Parties : second[p].parts = <<w1[p], w2[p]>>
  BY <1>8
<1> HIDE DEF m1, m2
<1>10. w1 \in [Parties -> Elements] /\ AddAll(w1) = Times(m1, Joint)
  <2>1. w1 \in [Parties -> Elements]
    BY <1>5, <1>7, TimesIs
  <2>2. QED
    BY <1>5, <1>7, <2>1, SumTimes DEF Joint
<1> HIDE DEF U, u
<1>11. d \in [Parties -> Elements] /\ AddAll(d) = Minus(u, Joint)
  <2>1. d \in [Parties -> Elements]
    BY <1>4, <1>5, MinusIs
  <2>2. QED
    BY <1>4, <1>5, <2>1, SumOfDifferences DEF Joint, u
<1> HIDE DEF d
<1>12. w2 \in [Parties -> Elements] /\ AddAll(w2) = Times(m2, AddAll(d))
  <2>1. w2 \in [Parties -> Elements]
    BY <1>7, <1>11, TimesIs
  <2>2. QED
    BY <1>5, <1>7, <1>11, <2>1, SumTimes
<1> HIDE DEF w1, w2
<1>13. /\ Picked(second, list, 1) = [k \in 1 .. Len(list) |-> w1[list[k]]]
       /\ Picked(second, list, 2) = [k \in 1 .. Len(list) |-> w2[list[k]]]
  <2>1. list \in [1 .. Len(list) -> Parties]
    BY ListIs
  <2>2. \A k \in 1 .. Len(list) : second[list[k]].parts = <<w1[list[k]], w2[list[k]]>>
    BY <1>9, <2>1
  <2>3. QED
    <3>1. ASSUME NEW k \in 1 .. Len(list)
          PROVE  second[list[k]].parts[1] = w1[list[k]] /\ second[list[k]].parts[2] = w2[list[k]]
      <4>1. second[list[k]].parts = <<w1[list[k]], w2[list[k]]>>
        BY <2>2
      <4>2. QED
        BY <4>1
    <3>2. QED
      BY <3>1 DEF Picked
<1>14. /\ AddAll(Picked(second, list, 1)) = Times(m1, Joint)
       /\ AddAll(Picked(second, list, 2)) = Times(m2, Minus(u, Joint))
  <2>1. Everyone(Counted(list))
    BY <1>3
  <2>2. AddAll(Picked(second, list, 1)) = AddAll(w1)
    BY <1>10, <1>13, <2>1, VectorOfAll
  <2>3. AddAll(Picked(second, list, 2)) = AddAll(w2)
    BY <1>12, <1>13, <2>1, VectorOfAll
  <2>4. QED
    BY <1>10, <1>11, <1>12, <2>2, <2>3
<1>15. result.parts[1] = Plus(Times(m1, Joint), Times(m2, Minus(u, Joint)))
       /\ result.parts[2] = m2
  BY <1>3, <1>14 DEF m2
<1> DEFINE c == Constant(PFactor)
<1>16. c \in Elements /\ Scaled(PFactor, Joint) = Times(c, Joint)
  BY <1>5, ScaledIsTimes
<1>17. Scaled(PFactor, Times(Joint, Joint)) = Times(c, Times(Joint, Joint))
  BY <1>5, TimesIs, ScaledIsTimes
<1> HIDE DEF c
<1>18. Plus(Plus(Times(m1, Joint), Times(m2, Minus(u, Joint))), Times(m2, Joint))
         = Times(c, Times(Joint, Joint))
  BY <1>4, <1>5, <1>6, <1>16, RelinAlgebra
<1>19. QED
  BY <1>15, <1>17, <1>18

(* A relinearization key switches from the square of the joint secret when *)
(* both rounds were collected from everyone, the first from one seed, from *)
(* shares of the collected first round, by managers that were not made     *)
(* again: for every ring and every number of parties.                      *)
(* (the four relinearization stages)                                       *)
THEOREM RelinKeyFits == Spec => []RelinKeyFitsJointSecret
<1>1. Init => RelinInv
  <2>1. SUFFICES ASSUME Init PROVE RelinInv
    OBVIOUS
  <2>2. /\ \A p \in Parties : ~first[p].generated /\ ~second[p].generated
        /\ ~middle.generated
    BY <2>1 DEF Init, Nothing
  <2>3. ~Assembled(result)
    BY <2>1 DEF Init, Nothing, Assembled
  <2>4. QED
    BY <2>2, <2>3 DEF RelinInv
<1>2. Shape /\ RelinInv /\ [Next]_vars => RelinInv'
  <2>1. SUFFICES ASSUME Shape, RelinInv, [Next]_vars PROVE RelinInv'
    OBVIOUS
  <2>2. CASE Next
    BY <2>1, <2>2, RelinStep
  <2>3. CASE UNCHANGED vars
    <3>1. \A list : RelinResult(list)' = RelinResult(list)
      BY <2>3 DEF vars, RelinResult
    <3>2. QED
      BY <2>1, <2>3, <3>1 DEF vars, RelinInv
  <2>4. QED
    BY <2>1, <2>2, <2>3
<1>3. Shape /\ RelinInv => RelinKeyFitsJointSecret
  BY RelinFits DEF RelinKeyFitsJointSecret
<1>4. QED
  BY <1>1, <1>2, <1>3, ShapeAlways, PTL DEF Spec

-----------------------------------------------------------------------------
(* The Galois keys. *)

GaloisElements == {GaloisZero} \union UNION GaloisSets

\* The exponent a Galois element is undone by is an integer.
LEMMA InverseExponentIs ==
  ASSUME NEW g \in GaloisElements
  PROVE  InverseExponent(g) \in Int
<1>1. PICK j \in Index : (g * (2 * j - 1)) % (2 * Degree) = 1
  BY GaloisAssumption DEF GaloisElements
<1>2. \E h \in {2 * i - 1 : i \in Index} : (g * h) % (2 * Degree) = 1
  BY <1>1
<1>3. InverseExponent(g) \in {2 * i - 1 : i \in Index}
  BY <1>2 DEF InverseExponent
<1>4. \A i \in Index : 2 * i - 1 \in Int
  BY DegreeIs
<1>5. QED
  BY <1>3, <1>4

\* What one party adds to the key of an element is linear in its secret, and
\* the sum over the vector fits the sum of the secrets.
LEMMA KeyFits ==
  ASSUME NEW list \in Lists, Len(list) # 0, NEW a \in Elements, NEW g \in GaloisElements,
         NEW parts, DOMAIN parts = 1 .. Len(list),
         \A k \in 1 .. Len(list) : parts[k] = GaloisParts(list[k], g, a)
  PROVE  LET key == SummedKey(parts)
             s == SecretOf(Counted(list))
         IN  Plus(key[1], Times(key[2], Permuted(InverseExponent(g), s))) = Scaled(PFactor, s)
<1> DEFINE n == Len(list)
           h == InverseExponent(g)
           c == Constant(PFactor)
           s == SecretOf(Counted(list))
           T == [x \in Elements |-> Plus(Negated(Times(Permuted(h, x), a)), Scaled(PFactor, x))]
<1>1. /\ n \in Nat \ {0} /\ list \in [1 .. n -> Parties]
      /\ Secret \in [Parties -> Elements] /\ PFactor \in Int
  BY ListIs, PartiesAssumption
<1>2. h \in Int
  BY InverseExponentIs
<1>3. c \in Elements /\ \A x \in Elements : Scaled(PFactor, x) = Times(c, x)
  BY <1>1, ScaledIsTimes, ZeroIs
<1>4. \A k \in 1 .. n : parts[k] = <<Plus(Negated(Times(Permuted(h, Secret[list[k]]), a)),
                                           Scaled(PFactor, Secret[list[k]])), a>>
  BY DEF GaloisParts, Negated
<1> HIDE DEF h, c
<1>5. \A x \in Elements : /\ Permuted(h, x) \in Elements
                          /\ Times(Permuted(h, x), a) \in Elements
                          /\ Negated(Times(Permuted(h, x), a)) \in Elements
                          /\ Times(c, x) \in Elements
  BY <1>2, <1>3, PermutedIs, TimesIs, NegatedIs
<1>6. /\ T \in [Elements -> Elements]
      /\ \A x \in Elements : T[x] = Plus(Negated(Times(Permuted(h, x), a)), Times(c, x))
  BY <1>3, <1>5, PlusIs
<1>7. \A k \in 1 .. n : parts[k] = <<T[Secret[list[k]]], a>>
  <2>1. \A k \in 1 .. n : Secret[list[k]] \in Elements
    BY <1>1
  <2>2. QED
    BY <1>4, <2>1
<1> HIDE DEF T
<1>8. T[Zero] = Zero
  <2>1. Permuted(h, Zero) = Zero /\ Times(Zero, a) = Zero /\ Times(c, Zero) = Zero /\ Negated(Zero) = Zero
    BY <1>2, <1>3, PermutedZero, ZeroLaws
  <2>2. QED
    BY <1>6, <2>1, ZeroIs, PlusZero
<1>9. ASSUME NEW x \in Elements, NEW y \in Elements
      PROVE  T[Plus(x, y)] = Plus(T[x], T[y])
  <2> DEFINE px == Times(Permuted(h, x), a)
             py == Times(Permuted(h, y), a)
             cx == Times(c, x)
             cy == Times(c, y)
  <2>1. /\ px \in Elements /\ py \in Elements /\ cx \in Elements /\ cy \in Elements
        /\ Negated(px) \in Elements /\ Negated(py) \in Elements /\ Plus(x, y) \in Elements
        /\ Permuted(h, x) \in Elements /\ Permuted(h, y) \in Elements
    BY <1>5, PlusIs
  <2>2. Times(Permuted(h, Plus(x, y)), a) = Plus(px, py)
    BY <1>2, <2>1, PermutedDistributes, TimesDistributes
  <2>3. Times(c, Plus(x, y)) = Plus(cx, cy)
    BY <1>3, <2>1, TimesDistributes, TimesCommutes
  <2>4. T[Plus(x, y)] = Plus(Negated(Plus(px, py)), Plus(cx, cy))
    BY <1>6, <2>1, <2>2, <2>3
  <2>5. T[x] = Plus(Negated(px), cx) /\ T[y] = Plus(Negated(py), cy)
    BY <1>6
  <2> HIDE DEF px, py, cx, cy
  <2>6. Negated(Plus(px, py)) = Plus(Negated(px), Negated(py))
    BY <2>1, NegatedDistributes
  <2>7. QED
    BY <2>1, <2>4, <2>5, <2>6, PlusExchange
<1>10. AddAll([k \in 1 .. n |-> T[Secret[list[k]]]]) = T[s]
  BY <1>1, <1>6, <1>8, <1>9, MappedVector DEF SecretOf
<1>11. [k \in DOMAIN parts |-> parts[k][1]] = [k \in 1 .. n |-> T[Secret[list[k]]]]
  <2>1. \A k \in 1 .. n : parts[k][1] = T[Secret[list[k]]]
    <3>1. SUFFICES ASSUME NEW k \in 1 .. n PROVE parts[k][1] = T[Secret[list[k]]]
      OBVIOUS
    <3>2. parts[k] = <<T[Secret[list[k]]], a>>
      BY <1>7
    <3>3. QED
      BY <3>2
  <2>2. QED
    BY <2>1
<1>12. parts[1][2] = a
  <2>1. 1 \in 1 .. n
    BY <1>1
  <2>2. QED
    BY <1>7, <2>1
<1>13. s \in Elements
  BY <1>1, SumOfVector DEF SecretOf
<1> DEFINE key == SummedKey(parts)
<1>14. key[1] = T[s] /\ key[2] = a
  <2> HIDE DEF s
  <2>1. key = <<AddAll([k \in DOMAIN parts |-> parts[k][1]]), parts[1][2]>>
    BY DEF SummedKey
  <2>2. AddAll([k \in DOMAIN parts |-> parts[k][1]]) = T[s]
    BY <1>10, <1>11
  <2> HIDE DEF key
  <2>3. QED
    BY <1>12, <2>1, <2>2
<1> HIDE DEF s, key
<1> DEFINE x == Times(Permuted(h, s), a)
           y == Times(c, s)
<1>15. Times(a, Permuted(h, s)) = x /\ x \in Elements /\ y \in Elements /\ Negated(x) \in Elements
  BY <1>5, <1>13, TimesCommutes
<1>16. key[1] = Plus(Negated(x), y)
  BY <1>6, <1>13, <1>14
<1> HIDE DEF x, y
<1>17. Plus(Plus(Negated(x), y), x) = y
  <2>1. Plus(Plus(Negated(x), y), x) = Plus(x, Plus(Negated(x), y))
    BY <1>15, PlusIs, PlusCommutes
  <2>2. Plus(x, Plus(Negated(x), y)) = Plus(Plus(x, Negated(x)), y)
    BY <1>15, PlusAssociates
  <2>3. QED
    BY <1>15, <2>1, <2>2, NegatedCancels, ZeroLaws
<1>18. Plus(key[1], Times(key[2], Permuted(h, s))) = Scaled(PFactor, s)
  BY <1>3, <1>13, <1>14, <1>15, <1>16, <1>17 DEF y
<1>19. QED
  BY <1>18 DEF key, h, s

GaloisInv ==
  ceremony = "galoiskey" =>
    /\ \A p \in Parties :
         first[p].generated =>
           \E elements \in GaloisSets, seed \in Seeds :
             first[p] = GaloisShare(p, first[p].customized, elements, seed)
    /\ Assembled(result) =>
         \E list \in Lists, elements \in GaloisSets : \E walked \in SUBSET elements :
           /\ AllMade(first, list)
           /\ \A k \in 1 .. Len(list) : walked \subseteq DOMAIN first[list[k]].keys
           /\ result = GaloisResult(list, elements, walked)

\* Every step keeps what is known of a joint Galois key.
LEMMA GaloisStep ==
  ASSUME Shape, GaloisInv, Next
  PROVE  GaloisInv'
<1>1. SUFFICES ASSUME ceremony = "galoiskey" PROVE GaloisInv'
  BY CallsOf DEF GaloisInv
<1>2. /\ ~Assembled(result) /\ UNCHANGED <<scheme, ceremony>>
      /\ \/ \E p \in Parties : GenerateGaloisKeyShare(p)
         \/ \E list \in Lists : AssembleGaloisKeyShare(list)
  BY <1>1, CallsOf
<1>3. CASE Throws \/ Faults
  <2>1. UNCHANGED <<first, result>>
    BY <1>3 DEF Throws, Faults
  <2>2. ~Assembled(result')
    BY <1>2, <2>1
  <2>3. QED
    BY <1>1, <2>1, <2>2 DEF GaloisInv
<1>4. CASE ~Throws /\ \E p \in Parties : GenerateGaloisKeyShare(p)
  <2>1. PICK p \in Parties, object \in GaloisObjects, seed \in Seeds :
          Make(p, GaloisShare(p, object.customized, object.elements, seed))
    BY <1>4, PartyCalls
  <2> DEFINE z == object.customized
             elements == object.elements
             share == GaloisShare(p, z, elements, seed)
  <2>2. /\ elements \in GaloisSets /\ share.customized = z
        /\ first' = [first EXCEPT ![p] = share] /\ result' = result
    BY <2>1 DEF Make, GaloisObjects, GaloisShare
  <2>3. share = GaloisShare(p, share.customized, elements, seed)
    BY <2>2
  <2> HIDE DEF share, elements, z
  <2>4. first'[p] = share /\ \A o \in Parties \ {p} : first'[o] = first[o]
    BY <2>2 DEF Shape
  <2>5. ASSUME NEW o \in Parties, first'[o].generated
        PROVE  \E e \in GaloisSets, s \in Seeds :
                 first'[o] = GaloisShare(o, first'[o].customized, e, s)
    <3>1. CASE o = p
      BY <2>2, <2>3, <2>4, <3>1
    <3>2. CASE o # p
      BY <1>1, <2>4, <2>5, <3>2 DEF GaloisInv
    <3>3. QED
      BY <3>1, <3>2
  <2>6. ~Assembled(result')
    BY <1>2, <2>2
  <2>7. QED
    BY <2>5, <2>6 DEF GaloisInv
<1>5. CASE ~(Throws \/ Faults) /\ \E list \in Lists : AssembleGaloisKeyShare(list)
  <2>1. PICK list \in Lists, object \in GaloisObjects : \E walked \in SUBSET object.elements :
                     /\ AllMade(first, list)
                     /\ \A k \in 1..Len(list) : walked \subseteq DOMAIN first[list[k]].keys
                     /\ Assemble(GaloisResult(list, object.elements, walked))
    BY <1>5, CollectorCalls
  <2> DEFINE elements == object.elements
  <2>2. elements \in GaloisSets
    BY DEF GaloisObjects
  <2>3. PICK walked \in SUBSET elements :
                     /\ AllMade(first, list)
                     /\ \A k \in 1..Len(list) : walked \subseteq DOMAIN first[list[k]].keys
                     /\ Assemble(GaloisResult(list, elements, walked))
    BY <2>1
  <2> HIDE DEF elements
  <2>4. result' = GaloisResult(list, elements, walked) /\ first' = first
    BY <2>3 DEF Assemble
  <2>5. GaloisResult(list, elements, walked)' = GaloisResult(list, elements, walked)
    BY <2>4 DEF GaloisResult
  <2>6. QED
    BY <1>1, <2>2, <2>3, <2>4, <2>5 DEF GaloisInv
<1>6. QED
  BY <1>2, <1>3, <1>4, <1>5

\* A Galois key so made fits the sum of the secrets counted in it.
LEMMA GaloisFits ==
  ASSUME GaloisInv, ceremony = "galoiskey", Assembled(result), SameSeed(result.from)
  PROVE  LET s == SecretOf(result.from)
             Fits(key, g) == Plus(key[1], Times(key[2], Permuted(InverseExponent(g), s)))
                                = Scaled(PFactor, s)
         IN  /\ \A g \in DOMAIN result.keys : Fits(result.keys[g], g)
             /\ Fits(result.zero, GaloisZero)
<1>0. PICK list \in Lists, elements \in GaloisSets : \E walked \in SUBSET elements :
           /\ AllMade(first, list)
           /\ \A k \in 1 .. Len(list) : walked \subseteq DOMAIN first[list[k]].keys
           /\ result = GaloisResult(list, elements, walked)
  BY DEF GaloisInv
<1>1. PICK walked \in SUBSET elements :
           /\ AllMade(first, list)
           /\ \A k \in 1 .. Len(list) : walked \subseteq DOMAIN first[list[k]].keys
           /\ result = GaloisResult(list, elements, walked)
  BY <1>0
<1> DEFINE n == Len(list)
           a == Common[first[list[1]].seed]
<1>2. /\ n \in Nat \ {0} /\ list \in [1 .. n -> Parties]
      /\ \A k \in 1 .. n : first[list[k]].generated
  BY <1>1, ListIs, PartiesAssumption DEF AllMade
<1>3. /\ result.from = Counted(list) /\ DOMAIN result.keys = walked
      /\ \A g \in walked : result.keys[g] = SummedKey([k \in 1 .. n |-> first[list[k]].keys[g]])
      /\ result.zero = SummedKey([k \in 1 .. n |-> first[list[k]].zero])
  BY <1>1 DEF GaloisResult
<1>4. \A k \in 1 .. n : first[list[k]].seed = first[list[1]].seed
  <2>1. \A k \in 1 .. n : list[k] \in Givers(Counted(list))
    BY <1>2, CountedIs DEF Givers
  <2>2. QED
    BY <1>2, <1>3, <2>1 DEF SameSeed
<1>5. ASSUME NEW k \in 1 .. n
      PROVE  /\ first[list[k]].seed \in Seeds
             /\ \A g \in walked : first[list[k]].keys[g] = GaloisParts(list[k], g, a)
             /\ first[list[k]].zero = GaloisParts(list[k], GaloisZero, a)
  <2>1. list[k] \in Parties /\ first[list[k]].generated
    BY <1>2
  <2>2. PICK e \in GaloisSets, seed \in Seeds :
          first[list[k]] = GaloisShare(list[k], first[list[k]].customized, e, seed)
    BY <2>1 DEF GaloisInv
  <2> DEFINE z == first[list[k]].customized
  <2>3. first[list[k]] = GaloisShare(list[k], z, e, seed)
    BY <2>2
  <2> HIDE DEF z
  <2>4. /\ first[list[k]].seed = seed
        /\ first[list[k]].keys = [g \in e |-> GaloisParts(list[k], g, Common[seed])]
        /\ first[list[k]].zero = GaloisParts(list[k], GaloisZero, Common[seed])
    BY <2>3 DEF GaloisShare
  <2>5. Common[seed] = a
    BY <1>4, <2>4
  <2> HIDE DEF a
  <2>6. walked \subseteq e
    BY <1>1, <2>4
  <2>7. QED
    BY <2>4, <2>5, <2>6
<1>6. a \in Elements
  <2>1. 1 \in 1 .. n
    BY <1>2
  <2>2. QED
    BY <1>5, <2>1, PartiesAssumption
<1> HIDE DEF a
<1>7. ASSUME NEW g \in walked
      PROVE  LET key == result.keys[g]
                 s == SecretOf(result.from)
             IN  Plus(key[1], Times(key[2], Permuted(InverseExponent(g), s))) = Scaled(PFactor, s)
  <2> DEFINE parts == [k \in 1 .. n |-> first[list[k]].keys[g]]
  <2>1. DOMAIN parts = 1 .. n /\ \A k \in 1 .. n : parts[k] = GaloisParts(list[k], g, a)
    BY <1>5
  <2>2. g \in GaloisElements
    BY <1>1 DEF GaloisElements
  <2>3. result.keys[g] = SummedKey(parts)
    BY <1>3
  <2> HIDE DEF parts
  <2>4. QED
    BY <1>2, <1>3, <1>6, <2>1, <2>2, <2>3, KeyFits
<1>8. LET key == result.zero
          s == SecretOf(result.from)
      IN  Plus(key[1], Times(key[2], Permuted(InverseExponent(GaloisZero), s))) = Scaled(PFactor, s)
  <2> DEFINE parts == [k \in 1 .. n |-> first[list[k]].zero]
  <2>1. DOMAIN parts = 1 .. n /\ \A k \in 1 .. n : parts[k] = GaloisParts(list[k], GaloisZero, a)
    BY <1>5
  <2>2. GaloisZero \in GaloisElements
    BY DEF GaloisElements
  <2>3. result.zero = SummedKey(parts)
    BY <1>3
  <2> HIDE DEF parts
  <2>4. QED
    BY <1>2, <1>3, <1>6, <2>1, <2>2, <2>3, KeyFits
<1>9. QED
  BY <1>3, <1>7, <1>8

(* An assembled Galois key switches from the permuted sum of the secrets   *)
(* in the vector to that sum, for every element it holds and the zero key, *)
(* for every ring, every number of parties and every set of elements.      *)
(* (generate_galois_key_stage_1 and 2)                                     *)
THEOREM GaloisKeyFits == Spec => []GaloisKeyFitsTheVector
<1>1. Init => GaloisInv
  <2>1. SUFFICES ASSUME Init PROVE GaloisInv
    OBVIOUS
  <2>2. \A p \in Parties : ~first[p].generated
    BY <2>1 DEF Init, Nothing
  <2>3. ~Assembled(result)
    BY <2>1 DEF Init, Nothing, Assembled
  <2>4. QED
    BY <2>2, <2>3 DEF GaloisInv
<1>2. Shape /\ GaloisInv /\ [Next]_vars => GaloisInv'
  <2>1. SUFFICES ASSUME Shape, GaloisInv, [Next]_vars PROVE GaloisInv'
    OBVIOUS
  <2>2. CASE Next
    BY <2>1, <2>2, GaloisStep
  <2>3. CASE UNCHANGED vars
    <3>1. \A list, e, w : GaloisResult(list, e, w)' = GaloisResult(list, e, w)
      BY <2>3 DEF vars, GaloisResult
    <3>2. QED
      BY <2>1, <2>3, <3>1 DEF vars, GaloisInv
  <2>4. QED
    BY <2>1, <2>2, <2>3
<1>3. GaloisInv => GaloisKeyFitsTheVector
  BY GaloisFits DEF GaloisKeyFitsTheVector
<1>4. QED
  BY <1>1, <1>2, <1>3, ShapeAlways, PTL DEF Spec

-----------------------------------------------------------------------------
(* The transforms. *)

\* A dot product is the last of its partial sums.
DotSums(a, b, sum) ==
  /\ sum \in [0 .. Degree -> Int]
  /\ sum[0] = 0
  /\ \A k \in 1 .. Degree : sum[k] = sum[k - 1] + a[k] * b[k]

\* A sum of products, from its first term on.
LEMMA DotIs ==
  ASSUME NEW a \in [Index -> Int], NEW b \in [Index -> Int]
  PROVE  \E sum : DotSums(a, b, sum) /\ Dot(a, b) = sum[Degree] % Modulus
<1>0. Degree \in Nat \ {0} /\ Index = 1 .. Degree
  BY DegreeIs
<1> DEFINE Step(g, m) == g = [k \in 0 .. m |-> IF k = 0 THEN 0 ELSE g[k - 1] + a[k] * b[k]]
           Whole(g, m) == \A k \in 0 .. m : g[k] \in Int
           Have == {m \in Nat : m <= Degree => \E g : Step(g, m) /\ Whole(g, m)}
<1>1. \A k \in 1 .. Degree : a[k] * b[k] \in Int
  BY <1>0
<1>2. 0 \in Have
  <2> DEFINE g == [k \in 0 .. 0 |-> 0]
  <2>1. Step(g, 0)
    OBVIOUS
  <2>2. Whole(g, 0)
    OBVIOUS
  <2> HIDE DEF g, Step, Whole
  <2>3. QED
    BY <2>1, <2>2
<1>3. ASSUME NEW m \in Nat, m \in Have, NEW l, l = m + 1
      PROVE  l \in Have
  <2>0. SUFFICES ASSUME l <= Degree
                 PROVE  \E g : Step(g, l) /\ Whole(g, l)
    BY <1>3
  <2>1. PICK g : Step(g, m) /\ Whole(g, m)
    BY <1>0, <1>3, <2>0
  <2> DEFINE h == [k \in 0 .. l |-> IF k = l THEN g[m] + a[l] * b[l] ELSE g[k]]
  <2>2. \A k \in 0 .. m : h[k] = g[k] /\ g[k] = IF k = 0 THEN 0 ELSE g[k - 1] + a[k] * b[k]
    BY <1>3, <2>1
  <2>3. h[l] = h[m] + a[l] * b[l] /\ l - 1 = m /\ l # 0 /\ m \in 0 .. m
    BY <1>3
  <2>4. \A k \in 0 .. l : h[k] = IF k = 0 THEN 0 ELSE h[k - 1] + a[k] * b[k]
    <3>1. SUFFICES ASSUME NEW k \in 0 .. l
                   PROVE  h[k] = IF k = 0 THEN 0 ELSE h[k - 1] + a[k] * b[k]
      OBVIOUS
    <3> HIDE DEF h
    <3>2. CASE k = l
      BY <2>3, <3>2
    <3>3. CASE k # l /\ k # 0
      <4>1. k \in 0 .. m /\ k - 1 \in 0 .. m
        BY <1>3, <3>3
      <4>2. QED
        BY <2>2, <3>3, <4>1
    <3>4. CASE k = 0
      <4>1. 0 \in 0 .. m
        OBVIOUS
      <4>2. QED
        BY <2>2, <3>4, <4>1
    <3>5. QED
      BY <3>2, <3>3, <3>4
  <2>5. Step(h, l)
    BY <2>4
  <2>6. Whole(h, l)
    <3>1. l \in 1 .. Degree
      BY <1>3, <2>0
    <3>2. a[l] * b[l] \in Int
      BY <1>1, <3>1
    <3>3. \A k \in 0 .. l : k \in 0 .. m \/ k = l
      BY <1>3
    <3> HIDE DEF h
    <3>4. h[m] \in Int /\ \A k \in 0 .. m : h[k] \in Int
      BY <2>1, <2>2
    <3>5. h[l] \in Int
      BY <2>3, <3>2, <3>4
    <3>6. QED
      BY <3>3, <3>4, <3>5
  <2> HIDE DEF h, Step, Whole
  <2>7. QED
    BY <2>5, <2>6
<1> HIDE DEF Step, Whole
<1>4. Nat \subseteq Have
  <2> HIDE DEF Have
  <2>1. QED
    BY <1>2, <1>3, Induction
<1>5. PICK g : Step(g, Degree) /\ Whole(g, Degree)
  <2>1. Degree \in Have /\ Degree <= Degree
    BY <1>0, <1>4
  <2>2. QED
    BY <2>1
<1> DEFINE Loop == CHOOSE l : l = [k \in 0 .. Degree |-> IF k = 0 THEN 0 ELSE l[k - 1] + a[k] * b[k]]
<1>6. Loop = [k \in 0 .. Degree |-> IF k = 0 THEN 0 ELSE Loop[k - 1] + a[k] * b[k]]
  BY <1>5 DEF Step
<1>7. Dot(a, b) = Loop[Degree] % Modulus
  BY DEF Dot
<1> HIDE DEF Loop
<1>8. \A k \in 0 .. Degree : Loop[k] = IF k = 0 THEN 0 ELSE Loop[k - 1] + a[k] * b[k]
  BY <1>6
<1>9. \A k \in 0 .. Degree : Loop[k] \in Int
  <2> DEFINE S == {k \in Nat : k <= Degree => Loop[k] \in Int}
  <2>1. 0 \in S
    BY <1>0, <1>8
  <2>2. ASSUME NEW k \in Nat, k \in S, NEW l, l = k + 1 PROVE l \in S
    <3>1. SUFFICES ASSUME l <= Degree PROVE Loop[l] \in Int
      BY <2>2
    <3>2. l \in 1 .. Degree /\ l \in 0 .. Degree /\ l # 0 /\ l - 1 = k /\ k <= Degree
      BY <1>0, <2>2, <3>1
    <3>3. Loop[k] \in Int /\ a[l] * b[l] \in Int /\ Loop[l] = Loop[k] + a[l] * b[l]
      BY <1>1, <1>8, <2>2, <3>2
    <3>4. QED
      BY <3>3
  <2> HIDE DEF S
  <2>3. Nat \subseteq S
    BY <2>1, <2>2, Induction
  <2>4. QED
    BY <1>0, <2>3 DEF S
<1>10. DotSums(a, b, Loop)
  <2>1. Loop \in [0 .. Degree -> Int]
    BY <1>6, <1>9
  <2>2. Loop[0] = 0
    BY <1>0, <1>8
  <2>3. \A k \in 1 .. Degree : Loop[k] = Loop[k - 1] + a[k] * b[k]
    BY <1>0, <1>8
  <2>4. QED
    BY <2>1, <2>2, <2>3 DEF DotSums
<1>11. QED
  BY <1>7, <1>10

\* It is a residue.
LEMMA DotIsResidue ==
  ASSUME NEW a \in [Index -> Int], NEW b \in [Index -> Int]
  PROVE  Dot(a, b) \in 0 .. Modulus - 1
<1>1. PICK s : DotSums(a, b, s) /\ Dot(a, b) = s[Degree] % Modulus
  BY DotIs
<1>2. s[Degree] \in Int
  BY <1>1, DegreeIs DEF DotSums
<1>3. QED
  BY <1>1, <1>2, RemainderIs, RingAssumption

\* A power of the root, as the tables hold it.
LEMMA RootPowerIs ==
  ASSUME NEW k \in Nat
  PROVE  RootPower(k) \in Int
<1> DEFINE Step(g, m) == g = [j \in 0 .. m |-> IF j = 0 THEN 1 ELSE (g[j - 1] * Root) % Modulus]
           Whole(g, m) == \A j \in 0 .. m : g[j] \in Int
           Have == {m \in Nat : \E g : Step(g, m) /\ Whole(g, m)}
<1>1. \A x \in Int : (x * Root) % Modulus \in Int
  <2>1. SUFFICES ASSUME NEW x \in Int PROVE (x * Root) % Modulus \in Int
    OBVIOUS
  <2>2. x * Root \in Int
    BY RingAssumption
  <2>3. QED
    BY <2>2, RemainderIs, RingAssumption
<1>2. 0 \in Have
  <2> DEFINE g == [j \in 0 .. 0 |-> 1]
  <2>1. Step(g, 0)
    OBVIOUS
  <2>2. Whole(g, 0)
    OBVIOUS
  <2> HIDE DEF g, Step, Whole
  <2>3. QED
    BY <2>1, <2>2
<1>3. ASSUME NEW m \in Nat, m \in Have, NEW l, l = m + 1
      PROVE  l \in Have
  <2>1. PICK g : Step(g, m) /\ Whole(g, m)
    BY <1>3
  <2> DEFINE h == [j \in 0 .. l |-> IF j = l THEN (g[m] * Root) % Modulus ELSE g[j]]
  <2>2. \A j \in 0 .. m : h[j] = g[j] /\ g[j] = IF j = 0 THEN 1 ELSE (g[j - 1] * Root) % Modulus
    <3>1. \A j \in 0 .. m : j \in 0 .. l /\ j # l
      BY <1>3
    <3>2. \A j \in 0 .. m : h[j] = g[j]
      BY <3>1, Zenon
    <3>3. g = [j \in 0 .. m |-> IF j = 0 THEN 1 ELSE (g[j - 1] * Root) % Modulus]
      BY <2>1
    <3>4. \A j \in 0 .. m : g[j] = IF j = 0 THEN 1 ELSE (g[j - 1] * Root) % Modulus
      BY <3>3, Zenon
    <3> HIDE DEF h
    <3>5. QED
      BY <3>2, <3>4
  <2>3. h[l] = (h[m] * Root) % Modulus /\ l - 1 = m /\ l # 0 /\ m \in 0 .. m
    BY <1>3
  <2>4. \A j \in 0 .. l : h[j] = IF j = 0 THEN 1 ELSE (h[j - 1] * Root) % Modulus
    <3>1. SUFFICES ASSUME NEW j \in 0 .. l
                   PROVE  h[j] = IF j = 0 THEN 1 ELSE (h[j - 1] * Root) % Modulus
      OBVIOUS
    <3> HIDE DEF h
    <3>2. CASE j = l
      BY <2>3, <3>2
    <3>3. CASE j # l /\ j # 0
      <4>1. j \in 0 .. m /\ j - 1 \in 0 .. m
        BY <1>3, <3>3
      <4>2. QED
        BY <2>2, <3>3, <4>1
    <3>4. CASE j = 0
      <4>1. 0 \in 0 .. m
        OBVIOUS
      <4>2. QED
        BY <2>2, <3>4, <4>1
    <3>5. QED
      BY <3>2, <3>3, <3>4
  <2>5. Step(h, l)
    BY <2>4
  <2>6. Whole(h, l)
    <3>1. \A j \in 0 .. l : j \in 0 .. m \/ j = l
      BY <1>3
    <3> HIDE DEF h
    <3>2. h[m] \in Int /\ \A j \in 0 .. m : h[j] \in Int
      BY <2>1, <2>2, <2>3
    <3>3. h[l] \in Int
      BY <1>1, <2>3, <3>2
    <3>4. QED
      BY <3>1, <3>2, <3>3
  <2>7. l \in Nat
    BY <1>3
  <2> HIDE DEF h, Step, Whole
  <2>8. QED
    BY <2>5, <2>6, <2>7
<1> HIDE DEF Step, Whole
<1>4. Nat \subseteq Have
  <2> HIDE DEF Have
  <2>1. QED
    BY <1>2, <1>3, Induction
<1>5. PICK g : Step(g, k) /\ Whole(g, k)
  BY <1>4
<1> DEFINE Loop == CHOOSE l : l = [j \in 0 .. k |-> IF j = 0 THEN 1 ELSE (l[j - 1] * Root) % Modulus]
<1>6. Loop = [j \in 0 .. k |-> IF j = 0 THEN 1 ELSE (Loop[j - 1] * Root) % Modulus]
  BY <1>5 DEF Step
<1>7. RootPower(k) = Loop[k]
  BY DEF RootPower
<1> HIDE DEF Loop
<1>8. \A j \in 0 .. k : Loop[j] = IF j = 0 THEN 1 ELSE (Loop[j - 1] * Root) % Modulus
  BY <1>6
<1> DEFINE S == {j \in Nat : j <= k => Loop[j] \in Int}
<1>9. 0 \in S
  BY <1>8
<1>10. ASSUME NEW j \in Nat, j \in S PROVE j + 1 \in S
  <2>1. SUFFICES ASSUME j + 1 <= k PROVE Loop[j + 1] \in Int
    OBVIOUS
  <2>2. j + 1 \in 0 .. k /\ j + 1 # 0 /\ (j + 1) - 1 = j /\ j <= k
    BY <2>1
  <2>3. Loop[j] \in Int /\ Loop[j + 1] = (Loop[j] * Root) % Modulus
    BY <1>8, <1>10, <2>2
  <2>4. QED
    BY <1>1, <2>3
<1> HIDE DEF S
<1>11. Nat \subseteq S
  BY <1>9, <1>10, Induction
<1>12. QED
  BY <1>7, <1>11 DEF S

\* A number that is not a multiple of the prime has an inverse.
LEMMA InverseIs ==
  ASSUME NEW k \in 1 .. Modulus - 1
  PROVE  InverseOf(k) \in 1 .. Modulus - 1 /\ (InverseOf(k) * k) % Modulus = 1
<1>1. \E x \in 1 .. Modulus - 1 : (x * k) % Modulus = 1
  BY PrimeAssumption
<1>2. QED
  BY <1>1 DEF InverseOf

\* The tables are matrices of integers.
Tables == [Index -> [Index -> Int]]

\* Both tables of powers are tables.
LEMMA TablesAre == Forward \in Tables /\ Backward \in Tables
<1>0. Degree \in Nat \ {0} /\ Index = 1 .. Degree
  BY DegreeIs
<1> DEFINE turn == 2 * Degree
           e(j, i) == (Exponent[j] * (i - 1)) % turn
           b(j, i) == (InverseOf(Degree) * RootPower((turn - e(j, i)) % turn)) % Modulus
           there(j) == [i \in Index |-> RootPower(e(j, i))]
           back(i) == [j \in Index |-> b(j, i)]
<1>1. turn \in Nat \ {0}
  BY <1>0
<1>2. ASSUME NEW j \in Index, NEW i \in Index
      PROVE  RootPower(e(j, i)) \in Int /\ b(j, i) \in Int
  <2>1. Exponent[j] * (i - 1) \in Int
    BY <1>0, ExponentIs
  <2> HIDE DEF turn
  <2>2. e(j, i) \in Nat /\ e(j, i) \in Int
    BY <1>1, <2>1, RemainderIs
  <2> HIDE DEF e
  <2>3. turn - e(j, i) \in Int
    BY <1>1, <2>2
  <2>4. (turn - e(j, i)) % turn \in Nat
    BY <1>1, <2>3, RemainderIs
  <2>5. RootPower((turn - e(j, i)) % turn) \in Int /\ RootPower(e(j, i)) \in Int
    BY <2>2, <2>4, RootPowerIs
  <2>6. InverseOf(Degree) \in Int
    BY <1>0, InverseIs, TablesAssumption, RingAssumption
  <2>7. InverseOf(Degree) * RootPower((turn - e(j, i)) % turn) \in Int
    BY <2>5, <2>6
  <2>8. b(j, i) \in Int
    BY <2>7, RemainderIs, RingAssumption
  <2>9. QED
    BY <2>5, <2>8
<1>3. \A j \in Index : there(j) \in [Index -> Int] /\ back(j) \in [Index -> Int]
  <2> HIDE DEF e, b
  <2>1. QED
    BY <1>2
<1>4. Forward = Tuple([j \in Index |-> Tuple(there(j))])
  BY DEF Forward
<1>5. Backward = Tuple([i \in Index |-> Tuple(back(i))])
  BY DEF Backward
<1> HIDE DEF there, back
<1>6. \A j \in Index : Tuple(there(j)) = there(j) /\ Tuple(back(j)) = back(j)
  BY <1>3, TupleIs
<1>7. /\ [j \in Index |-> Tuple(there(j))] \in [Index -> [Index -> Int]]
      /\ [i \in Index |-> Tuple(back(i))] \in [Index -> [Index -> Int]]
  BY <1>3, <1>6
<1> DEFINE A == [j \in Index |-> Tuple(there(j))]
           B == [i \in Index |-> Tuple(back(i))]
           R == [Index -> Int]
<1>8. A \in [Index -> R] /\ B \in [Index -> R] /\ Forward = Tuple(A) /\ Backward = Tuple(B)
  BY <1>4, <1>5, <1>7
<1> HIDE DEF A, B, R
<1>9. Forward \in [Index -> R] /\ Backward \in [Index -> R]
  BY <1>8, TupleIs
<1>10. QED
  BY <1>9 DEF R, Tables

\* Numbers of one residue may stand for one another in a sum.
Same(x, y) == x % Modulus = y % Modulus

\* Adding the same number keeps a congruence.
LEMMA SumOfSame ==
  ASSUME NEW p \in Int, NEW x \in Int, NEW y \in Int, Same(x, y)
  PROVE  Same(p + x, p + y)
<1>1. (p + (x % Modulus)) % Modulus = (p + x) % Modulus
  BY RingAssumption, RemainderOfSum
<1>2. (p + (y % Modulus)) % Modulus = (p + y) % Modulus
  BY RingAssumption, RemainderOfSum
<1>3. QED
  BY <1>1, <1>2 DEF Same

\* A dot product is linear in its second vector, modulo the prime.
Mixed(x, y, c) == (x + c * y) % Modulus
IsMixed(z, x, y, c) == \A i \in Index : z[i] % Modulus = Mixed(x[i], y[i], c)

\* A sum of products is linear in its second factor.
LEMMA DotLinear ==
  ASSUME NEW a \in [Index -> Int], NEW x \in [Index -> Int], NEW y \in [Index -> Int],
         NEW z \in [Index -> Int], NEW c \in Int, IsMixed(z, x, y, c)
  PROVE  Dot(a, z) = Mixed(Dot(a, x), Dot(a, y), c)
<1>0. Degree \in Nat \ {0} /\ Index = 1 .. Degree /\ Modulus \in Nat \ {0}
  BY DegreeIs, RingAssumption
<1>1. PICK s : DotSums(a, z, s) /\ Dot(a, z) = s[Degree] % Modulus
  BY DotIs
<1>2. PICK t : DotSums(a, x, t) /\ Dot(a, x) = t[Degree] % Modulus
  BY DotIs
<1>3. PICK u : DotSums(a, y, u) /\ Dot(a, y) = u[Degree] % Modulus
  BY DotIs
<1>4. \A k \in 0 .. Degree : s[k] \in Int /\ t[k] \in Int /\ u[k] \in Int
  BY <1>1, <1>2, <1>3 DEF DotSums
<1> DEFINE S == {k \in Nat : k <= Degree => s[k] % Modulus = (t[k] + c * u[k]) % Modulus}
<1>5. 0 \in S
  <2>1. s[0] = 0 /\ t[0] = 0 /\ u[0] = 0
    BY <1>1, <1>2, <1>3 DEF DotSums
  <2>2. t[0] + c * u[0] = 0
    BY <2>1
  <2>3. QED
    BY <2>1, <2>2
<1>6. ASSUME NEW k \in Nat, k \in S, NEW l, l = k + 1 PROVE l \in S
  <2>1. SUFFICES ASSUME l <= Degree PROVE s[l] % Modulus = (t[l] + c * u[l]) % Modulus
    BY <1>6
  <2>2. l \in 1 .. Degree /\ l - 1 = k /\ k \in 0 .. Degree /\ k <= Degree
    BY <1>0, <1>6, <2>1
  <2>3. s[l] = s[k] + a[l] * z[l] /\ t[l] = t[k] + a[l] * x[l] /\ u[l] = u[k] + a[l] * y[l]
    BY <1>1, <1>2, <1>3, <2>2 DEF DotSums
  <2>4. s[k] % Modulus = (t[k] + c * u[k]) % Modulus
    BY <1>6, <2>2
  <2>5. z[l] % Modulus = (x[l] + c * y[l]) % Modulus
    BY <1>0, <2>2 DEF IsMixed, Mixed
  <2> DEFINE A == a[l] X == x[l] Y == y[l] Z == z[l] p == s[k] q == t[k] r == u[k]
             w == X + c * Y
             v == q + c * r
  <2>6. /\ A \in Int /\ X \in Int /\ Y \in Int /\ Z \in Int
        /\ p \in Int /\ q \in Int /\ r \in Int
    BY <1>0, <1>4, <2>2
  <2>7. p % Modulus = v % Modulus /\ Z % Modulus = w % Modulus
    BY <2>4, <2>5
  <2>8. s[l] = p + A * Z /\ t[l] = q + A * X /\ u[l] = r + A * Y
    BY <2>3
  <2> HIDE DEF A, X, Y, Z, p, q, r
  <2>9. w \in Int /\ v \in Int
    BY <2>6
  <2>10. (q + A * X) + c * (r + A * Y) = v + A * w
    BY <2>6
  <2> HIDE DEF v, w
  <2>11. A * Z \in Int /\ A * w \in Int /\ Z % Modulus \in Int /\ p % Modulus \in Int
    BY <1>0, <2>6, <2>9, RemainderIs
  <2>12. (A * Z) % Modulus = (A * w) % Modulus
    <3>1. (A * (Z % Modulus)) % Modulus = (A * Z) % Modulus
      BY <1>0, <2>6, RemainderOfProduct
    <3>2. (A * (w % Modulus)) % Modulus = (A * w) % Modulus
      BY <1>0, <2>6, <2>9, RemainderOfProduct
    <3>3. QED
      BY <2>7, <3>1, <3>2
  <2> DEFINE AZ == A * Z
             Aw == A * w
  <2>13. AZ \in Int /\ Aw \in Int /\ Same(AZ, Aw) /\ Same(p, v)
    BY <2>7, <2>11, <2>12 DEF Same
  <2>14. (p + A * Z) % Modulus = (p + A * w) % Modulus /\ (A * w + p) % Modulus = (A * w + v) % Modulus
    <3> HIDE DEF AZ, Aw
    <3>1. Same(p + AZ, p + Aw)
      BY <2>6, <2>13, SumOfSame
    <3>2. Same(Aw + p, Aw + v)
      BY <2>6, <2>9, <2>13, SumOfSame
    <3>3. QED
      BY <3>1, <3>2 DEF AZ, Aw, Same
  <2>15. A * w + p = p + A * w /\ A * w + v = v + A * w
    BY <2>6, <2>9, <2>11
  <2>16. QED
    BY <2>8, <2>10, <2>14, <2>15
<1> HIDE DEF S
<1>7. Nat \subseteq S
  BY <1>5, <1>6, Induction
<1> DEFINE p == s[Degree] q == t[Degree] r == u[Degree]
<1>8. p % Modulus = (q + c * r) % Modulus
  BY <1>0, <1>7 DEF S
<1>9. p \in Int /\ q \in Int /\ r \in Int
  BY <1>0, <1>4
<1>10. Dot(a, z) = p % Modulus /\ Dot(a, x) = q % Modulus /\ Dot(a, y) = r % Modulus
  BY <1>1, <1>2, <1>3
<1> HIDE DEF p, q, r
<1>11. /\ q % Modulus \in Int /\ r % Modulus \in Int /\ c * r \in Int
       /\ c * (r % Modulus) \in Int
  <2>1. q % Modulus \in Int /\ r % Modulus \in Int /\ c * r \in Int
    BY <1>0, <1>9, RemainderIs
  <2>2. QED
    BY <2>1
<1>12. ((q % Modulus) + c * (r % Modulus)) % Modulus = (q + c * (r % Modulus)) % Modulus
  <2> DEFINE e == c * (r % Modulus)
  <2>1. e \in Int
    BY <1>11
  <2> HIDE DEF e
  <2>2. ((q % Modulus) + e) % Modulus = (q + e) % Modulus
    BY <1>0, <1>9, <2>1, RemainderOfSum
  <2>3. QED
    BY <2>2 DEF e
<1>13. (c * (r % Modulus)) % Modulus = (c * r) % Modulus
  BY <1>0, <1>9, RemainderOfProduct
<1> DEFINE C == c * (r % Modulus)
           R == c * r
<1>14. (q + c * (r % Modulus)) % Modulus = (q + c * r) % Modulus
  <2>1. C \in Int /\ R \in Int /\ Same(C, R)
    BY <1>11, <1>13 DEF Same
  <2> HIDE DEF C, R
  <2>2. Same(q + C, q + R)
    BY <1>9, <2>1, SumOfSame
  <2>3. QED
    BY <2>2 DEF Same, C, R
<1>15. QED
  BY <1>8, <1>10, <1>12, <1>14 DEF Mixed

\* The vector that is one at an index and zero elsewhere.
Unit(k) == [i \in Index |-> IF i = k THEN 1 ELSE 0]

\* Against a unit vector it picks one term.
LEMMA DotUnit ==
  ASSUME NEW a \in [Index -> Int], NEW n \in Index
  PROVE  Dot(a, Unit(n)) = a[n] % Modulus
<1>0. Degree \in Nat \ {0} /\ Index = 1 .. Degree /\ a[n] \in Int
  BY DegreeIs
<1>1. Unit(n) \in [Index -> Int] /\ \A i \in Index : Unit(n)[i] = IF i = n THEN 1 ELSE 0
  BY DEF Unit
<1>2. PICK s : DotSums(a, Unit(n), s) /\ Dot(a, Unit(n)) = s[Degree] % Modulus
  BY <1>1, DotIs
<1> DEFINE S == {k \in Nat : k <= Degree => s[k] = IF n <= k THEN a[n] ELSE 0}
<1>3. 0 \in S
  BY <1>0, <1>2 DEF DotSums
<1>4. ASSUME NEW k \in Nat, k \in S, NEW l, l = k + 1 PROVE l \in S
  <2>1. SUFFICES ASSUME l <= Degree PROVE s[l] = IF n <= l THEN a[n] ELSE 0
    BY <1>4
  <2>2. l \in 1 .. Degree /\ l - 1 = k /\ k <= Degree
    BY <1>0, <1>4, <2>1
  <2>3. s[l] = s[k] + a[l] * Unit(n)[l] /\ s[k] = IF n <= k THEN a[n] ELSE 0
    BY <1>2, <1>4, <2>2 DEF DotSums
  <2>4. CASE l = n
    <3>1. Unit(n)[l] = 1 /\ ~(n <= k)
      BY <1>0, <1>1, <1>4, <2>2, <2>4
    <3>2. QED
      BY <1>0, <2>3, <2>4, <3>1
  <2>5. CASE l # n
    <3>1. Unit(n)[l] = 0 /\ (n <= k <=> n <= l) /\ a[l] \in Int
      BY <1>0, <1>1, <1>4, <2>2, <2>5
    <3>2. a[l] * Unit(n)[l] = 0
      BY <3>1
    <3>3. QED
      BY <1>0, <2>3, <3>1, <3>2
  <2>6. QED
    BY <2>4, <2>5
<1> HIDE DEF S
<1>5. Nat \subseteq S
  BY <1>3, <1>4, Induction
<1>6. QED
  BY <1>0, <1>2, <1>5 DEF S

\* A transform is a table times a vector.
Transform(table, v) == [i \in Index |-> Dot(table[i], v)]

\* A transform of an element is an element.
LEMMA TransformIs ==
  ASSUME NEW t \in Tables, NEW v \in [Index -> Int]
  PROVE  Transform(t, v) \in Elements /\ \A i \in Index : Transform(t, v)[i] = Dot(t[i], v)
<1>1. \A i \in Index : Dot(t[i], v) \in 0 .. Modulus - 1
  BY DotIsResidue DEF Tables
<1>2. QED
  BY <1>1 DEF Transform, Elements

\* So are both transforms the kernels compute.
LEMMA NttIs ==
  ASSUME NEW v \in Elements
  PROVE  /\ Ntt(v) = Transform(Forward, v) /\ Intt(v) = Transform(Backward, v)
         /\ Ntt(v) \in Elements /\ Intt(v) \in Elements
<1>1. Transform(Forward, v) \in Elements /\ Transform(Backward, v) \in Elements
  BY TransformIs, TablesAre, ElementsAreIntegers
<1>2. Ntt(v) = Tuple(Transform(Forward, v)) /\ Intt(v) = Tuple(Transform(Backward, v))
  BY DEF Ntt, Intt, Transform
<1>3. QED
  BY <1>1, <1>2, TupleIs DEF Elements

\* Transforms are linear.
LEMMA TransformLinear ==
  ASSUME NEW t \in Tables, NEW x \in [Index -> Int], NEW y \in [Index -> Int],
         NEW z \in [Index -> Int], NEW c \in Int, IsMixed(z, x, y, c)
  PROVE  \A i \in Index :
           Transform(t, z)[i] = Mixed(Transform(t, x)[i], Transform(t, y)[i], c)
<1>1. SUFFICES ASSUME NEW i \in Index
               PROVE  Transform(t, z)[i] = Mixed(Transform(t, x)[i], Transform(t, y)[i], c)
  OBVIOUS
<1>2. t[i] \in [Index -> Int]
  BY DEF Tables
<1>3. Dot(t[i], z) = Mixed(Dot(t[i], x), Dot(t[i], y), c)
  BY <1>2, DotLinear
<1>4. /\ Transform(t, x)[i] = Dot(t[i], x) /\ Transform(t, y)[i] = Dot(t[i], y)
      /\ Transform(t, z)[i] = Dot(t[i], z)
  BY DEF Transform
<1>5. QED
  BY <1>3, <1>4

\* A transform keeps sums.
LEMMA TransformPlus ==
  ASSUME NEW t \in Tables, NEW a \in Elements, NEW b \in Elements
  PROVE  Transform(t, Plus(a, b)) = Plus(Transform(t, a), Transform(t, b))
<1>1. a \in [Index -> Int] /\ b \in [Index -> Int] /\ Plus(a, b) \in [Index -> Int]
  BY PlusIs, ElementsAreIntegers
<1>2. IsMixed(Plus(a, b), a, b, 1)
  <2>1. SUFFICES ASSUME NEW i \in Index
                 PROVE  Plus(a, b)[i] % Modulus = (a[i] + 1 * b[i]) % Modulus
    BY DEF IsMixed, Mixed
  <2>2. Plus(a, b)[i] = (a[i] + b[i]) % Modulus /\ Plus(a, b)[i] \in 0 .. Modulus - 1
    BY PlusIs, ElementHas
  <2>3. a[i] + 1 * b[i] = a[i] + b[i]
    BY <1>1
  <2>4. QED
    BY <2>2, <2>3, SmallRemainder
<1>3. /\ Transform(t, a) \in Elements /\ Transform(t, b) \in Elements
      /\ Transform(t, Plus(a, b)) \in Elements
  BY <1>1, TransformIs
<1>4. \A i \in Index :
        Transform(t, Plus(a, b))[i] = Mixed(Transform(t, a)[i], Transform(t, b)[i], 1)
  BY <1>1, <1>2, TransformLinear
<1>5. \A i \in Index : Transform(t, Plus(a, b))[i] = Plus(Transform(t, a), Transform(t, b))[i]
  <2>1. \A i \in Index : Transform(t, a)[i] \in Int /\ Transform(t, b)[i] \in Int
    BY <1>3, ElementHas, RingAssumption
  <2>2. \A i \in Index : Transform(t, a)[i] + 1 * Transform(t, b)[i]
                            = Transform(t, a)[i] + Transform(t, b)[i]
    BY <2>1
  <2>3. QED
    BY <1>3, <1>4, <2>2, PlusIs DEF Mixed
<1>6. QED
  BY <1>3, <1>5, ElementHas, PlusIs

\* A transform keeps zero.
LEMMA TransformZero ==
  ASSUME NEW t \in Tables
  PROVE  Transform(t, Zero) = Zero
<1>1. Zero \in [Index -> Int] /\ \A i \in Index : Zero[i] = 0
  BY ZeroIs, ElementsAreIntegers
<1>2. IsMixed(Zero, Zero, Zero, -1)
  BY <1>1 DEF IsMixed, Mixed
<1>3. \A i \in Index :
        Transform(t, Zero)[i] = Mixed(Transform(t, Zero)[i], Transform(t, Zero)[i], -1)
  BY <1>1, <1>2, TransformLinear
<1>4. Transform(t, Zero) \in Elements
  BY <1>1, TransformIs
<1>5. ASSUME NEW i \in Index PROVE Transform(t, Zero)[i] = Zero[i]
  <2>1. Transform(t, Zero)[i] \in Int
    BY <1>4, ElementHas, RingAssumption
  <2>2. Transform(t, Zero)[i] + (-1) * Transform(t, Zero)[i] = 0
    BY <2>1
  <2>3. 0 % Modulus = 0
    BY SmallRemainder, RingAssumption
  <2>4. QED
    BY <1>1, <1>3, <2>2, <2>3 DEF Mixed
<1>6. QED
  BY <1>4, <1>5, ElementHas, ZeroIs

\* The beginning of an element.
Leading(v, n) == [j \in Index |-> IF j <= n THEN v[j] ELSE 0]

\* A table that undoes another one gives every element back.
LEMMA TransformBack ==
  ASSUME NEW a \in Tables, NEW b \in Tables, Undoes(b, a), NEW v \in Elements
  PROVE  Transform(b, Transform(a, v)) = v
<1>0. Degree \in Nat \ {0} /\ Index = 1 .. Degree /\ Modulus \in Nat \ {0}
  BY DegreeIs, RingAssumption
<1>1. ASSUME NEW n
      PROVE  Leading(v, n) \in Elements /\ \A j \in Index : Leading(v, n)[j] = IF j <= n THEN v[j] ELSE 0
  <2>1. \A j \in Index : v[j] \in 0 .. Modulus - 1
    BY ElementHas
  <2>2. 0 \in 0 .. Modulus - 1
    BY <1>0
  <2>3. QED
    BY <2>1, <2>2 DEF Leading, Elements
<1> DEFINE Back(x) == Transform(b, Transform(a, x))
           S == {n \in Nat : n <= Degree => Back(Leading(v, n)) = Leading(v, n)}
<1>2. 0 \in S
  <2>1. \A j \in Index : Leading(v, 0)[j] = Zero[j]
    BY <1>0, <1>1, ZeroIs
  <2>2. Leading(v, 0) = Zero
    BY <1>1, <2>1, ZeroIs, ElementHas
  <2>3. QED
    BY <2>2, TransformZero
<1>3. ASSUME NEW n \in Nat, n \in S, NEW l, l = n + 1 PROVE l \in S
  <2>1. SUFFICES ASSUME l <= Degree PROVE Back(Leading(v, l)) = Leading(v, l)
    BY <1>3
  <2>2. l \in Index /\ n <= Degree
    BY <1>0, <1>3, <2>1
  <2>3. Back(Leading(v, n)) = Leading(v, n)
    BY <1>3, <2>2
  <2> DEFINE c == v[l]
             x == Leading(v, n)
             z == Leading(v, l)
             e == Unit(l)
  <2>4. x \in Elements /\ z \in Elements
    BY <1>1
  <2>5. x \in [Index -> Int] /\ z \in [Index -> Int] /\ e \in [Index -> Int] /\ c \in Int
    <3>1. x \in [Index -> Int] /\ z \in [Index -> Int]
      BY <2>4, ElementsAreIntegers
    <3>2. e \in [Index -> Int]
      BY DEF Unit
    <3>3. c \in Int
      BY <2>2, ElementHas, RingAssumption
    <3>4. QED
      BY <3>1, <3>2, <3>3
  <2>6. IsMixed(z, x, e, c)
    <3>1. SUFFICES ASSUME NEW i \in Index PROVE z[i] = x[i] + c * e[i]
      BY DEF IsMixed, Mixed
    <3>2. e[i] = IF i = l THEN 1 ELSE 0
      BY DEF Unit
    <3>3. x[i] = (IF i <= n THEN v[i] ELSE 0) /\ z[i] = (IF i <= l THEN v[i] ELSE 0)
      BY <1>1
    <3>4. v[i] \in Int /\ i \in Int /\ l \in Int
      BY <1>0, <2>2, ElementHas
    <3>5. CASE i = l
      <4>1. x[i] = 0 /\ z[i] = c /\ e[i] = 1
        BY <1>3, <3>2, <3>3, <3>4, <3>5
      <4> HIDE DEF c
      <4>2. QED
        BY <2>5, <4>1
    <3>6. CASE i # l
      <4>1. x[i] = z[i] /\ e[i] = 0 /\ x[i] \in Int
        BY <1>3, <3>2, <3>3, <3>4, <3>6
      <4> HIDE DEF c
      <4>2. QED
        BY <2>5, <4>1
    <3>7. QED
      BY <3>5, <3>6
  <2> HIDE DEF c, x, z, e
  <2>7. \A i \in Index :
          Transform(a, z)[i] = Mixed(Transform(a, x)[i], Transform(a, e)[i], c)
    BY <2>5, <2>6, TransformLinear
  <2>8. /\ Transform(a, z) \in Elements /\ Transform(a, x) \in Elements
        /\ Transform(a, e) \in Elements
    BY <2>5, TransformIs
  <2> DEFINE az == Transform(a, z)
             ax == Transform(a, x)
             ae == Transform(a, e)
  <2>9. /\ az \in [Index -> Int] /\ ax \in [Index -> Int] /\ ae \in [Index -> Int]
        /\ IsMixed(az, ax, ae, c)
    <3>1. az \in [Index -> Int] /\ ax \in [Index -> Int] /\ ae \in [Index -> Int]
      BY <2>8, ElementsAreIntegers
    <3>2. \A i \in Index : az[i] % Modulus = az[i]
      BY <2>8, ElementHas, SmallRemainder
    <3>3. \A i \in Index : az[i] = Mixed(ax[i], ae[i], c)
      BY <2>7
    <3> HIDE DEF az, ax, ae
    <3>4. QED
      BY <3>1, <3>2, <3>3 DEF IsMixed
  <2>10. \A i \in Index : ae[i] = a[i][l] % Modulus
    <3>1. SUFFICES ASSUME NEW i \in Index PROVE ae[i] = a[i][l] % Modulus
      OBVIOUS
    <3>2. a[i] \in [Index -> Int]
      BY DEF Tables
    <3>3. ae[i] = Dot(a[i], Unit(l))
      BY DEF Transform, e
    <3>4. QED
      BY <2>2, <3>2, <3>3, DotUnit
  <2>11. \A i \in Index : Transform(b, ae)[i] = IF i = l THEN 1 ELSE 0
    <3>1. SUFFICES ASSUME NEW i \in Index PROVE Transform(b, ae)[i] = IF i = l THEN 1 ELSE 0
      OBVIOUS
    <3> DEFINE col == [j \in Index |-> a[j][l]]
               null == [j \in Index |-> 0]
    <3>2. b[i] \in [Index -> Int] /\ col \in [Index -> Int] /\ null \in [Index -> Int]
      BY <2>2 DEF Tables
    <3>3. IsMixed(ae, col, null, 0)
      <4>1. SUFFICES ASSUME NEW j \in Index
                     PROVE  ae[j] % Modulus = (col[j] + 0 * null[j]) % Modulus
        BY DEF IsMixed, Mixed
      <4>2. col[j] = a[j][l] /\ null[j] = 0 /\ col[j] \in Int
        BY <3>2
      <4> HIDE DEF col, null, ae
      <4>3. col[j] + 0 * null[j] = col[j]
        BY <4>2
      <4>4. ae[j] = col[j] % Modulus
        BY <2>10, <4>2
      <4>5. (col[j] % Modulus) % Modulus = col[j] % Modulus
        BY <1>0, <4>2, RemainderIs, SmallRemainder
      <4>6. QED
        BY <4>3, <4>4, <4>5
    <3>4. Dot(b[i], col) = IF i = l THEN 1 ELSE 0
      BY <2>2 DEF Undoes
    <3>5. Transform(b, ae)[i] = Dot(b[i], ae)
      BY DEF Transform
    <3> HIDE DEF col, null, ae
    <3>6. Dot(b[i], ae) = Mixed(Dot(b[i], col), Dot(b[i], null), 0)
      <4> DEFINE row == b[i]
      <4>1. row \in [Index -> Int] /\ ae \in [Index -> Int] /\ 0 \in Int
        BY <2>9, <3>2
      <4> HIDE DEF row
      <4>2. Dot(row, ae) = Mixed(Dot(row, col), Dot(row, null), 0)
        BY <3>2, <3>3, <4>1, DotLinear
      <4>3. QED
        BY <4>2 DEF row
    <3>7. Dot(b[i], null) \in 0 .. Modulus - 1 /\ Dot(b[i], col) \in 0 .. Modulus - 1
      BY <3>2, DotIsResidue
    <3>8. Dot(b[i], col) + 0 * Dot(b[i], null) = Dot(b[i], col)
      BY <1>0, <3>7
    <3>9. Dot(b[i], col) % Modulus = Dot(b[i], col)
      BY <3>7, SmallRemainder
    <3>10. QED
      BY <3>4, <3>5, <3>6, <3>8, <3>9 DEF Mixed
  <2> HIDE DEF az, ax, ae
  <2>12. \A i \in Index :
           Transform(b, az)[i] = Mixed(Transform(b, ax)[i], Transform(b, ae)[i], c)
    BY <2>5, <2>9, TransformLinear
  <2>13. Transform(b, ax) = x
    BY <2>3 DEF x, ax
  <2>14. \A i \in Index : Transform(b, az)[i] = z[i]
    <3>1. SUFFICES ASSUME NEW i \in Index PROVE Transform(b, az)[i] = z[i]
      OBVIOUS
    <3>2. Transform(b, ae)[i] = e[i]
      BY <2>11 DEF e, Unit
    <3>3. Transform(b, az)[i] = (x[i] + c * e[i]) % Modulus
      BY <2>12, <2>13, <3>2 DEF Mixed
    <3>4. z[i] % Modulus = z[i]
      BY <2>4, ElementHas, SmallRemainder
    <3>5. QED
      BY <2>6, <3>3, <3>4 DEF IsMixed, Mixed
  <2>15. Transform(b, az) \in Elements
    BY <2>9, TransformIs
  <2>16. Transform(b, az) = z
    BY <2>4, <2>14, <2>15, ElementHas
  <2>17. QED
    BY <2>16 DEF az, z
<1> HIDE DEF S
<1>4. Nat \subseteq S
  BY <1>2, <1>3, Induction
<1>5. Back(Leading(v, Degree)) = Leading(v, Degree)
  BY <1>0, <1>4 DEF S
<1>6. \A j \in Index : Leading(v, Degree)[j] = v[j]
  BY <1>0, <1>1
<1>7. Leading(v, Degree) = v
  BY <1>1, <1>6, ElementHas
<1>8. QED
  BY <1>5, <1>7

(* The transforms are linear and undo each other.                          *)
LEMMA Transforms ==
  /\ \A v \in Elements : Ntt(v) \in Elements /\ Intt(v) \in Elements
  /\ \A v \in Elements : Intt(Ntt(v)) = v /\ Ntt(Intt(v)) = v
  /\ \A v, w \in Elements : /\ Ntt(Plus(v, w)) = Plus(Ntt(v), Ntt(w))
                            /\ Intt(Plus(v, w)) = Plus(Intt(v), Intt(w))
  /\ Ntt(Zero) = Zero /\ Intt(Zero) = Zero
<1>1. ASSUME NEW v \in Elements PROVE Intt(Ntt(v)) = v /\ Ntt(Intt(v)) = v
  BY NttIs, TransformBack, TablesAre, TablesAssumption
<1>2. ASSUME NEW v \in Elements, NEW w \in Elements
      PROVE  Ntt(Plus(v, w)) = Plus(Ntt(v), Ntt(w)) /\ Intt(Plus(v, w)) = Plus(Intt(v), Intt(w))
  BY NttIs, PlusIs, TransformPlus, TablesAre
<1>3. QED
  BY <1>1, <1>2, NttIs, ZeroIs, TransformZero, TablesAre

-----------------------------------------------------------------------------
(* Rounding: BFV messages carry an error of their own. *)

Messages == [Index -> 0 .. PlainModulus - 1]

\* t times a residue is q times a number, modulo t times q, up to an error
\* of w roundings.
NearAt(x, k, w) ==
  \E e, z \in Int :
    /\ PlainModulus * x = (k * Modulus + e) + z * (PlainModulus * Modulus)
    /\ -(w * (PlainModulus + 1)) <= 2 * e /\ 2 * e <= w * (PlainModulus + 1)

\* Coefficient by coefficient.
Near(x, k, w) == \A i \in Index : NearAt(x[i], k[i], w)

\* The plain modulus and the number of parties fit the modulus.
LEMMA ModuliAre ==
  /\ Modulus \in Nat \ {0} /\ PlainModulus \in Nat \ {0} /\ PlainModulus + 1 < Modulus
  /\ Cardinality(Parties) \in Nat
<1>1. Cardinality(Parties) \in Nat
  BY PartiesAssumption, FS_CardinalityType
<1>2. PlainModulus \in Nat \ {0} /\ Modulus \in Nat \ {0}
  BY MessagesAssumption, RingAssumption
<1>3. \A n, k \in Nat : k <= (n + 1) * k
  <2>1. \A n, k \in Nat : (n + 1) * k = n * k + k /\ n * k >= 0
    OBVIOUS
  <2>2. QED
    BY <2>1
<1>4. PlainModulus + 1 <= (Cardinality(Parties) + 1) * (PlainModulus + 1)
  BY <1>1, <1>2, <1>3
<1>5. QED
  BY <1>1, <1>2, <1>4, MessagesAssumption

\* Errors of a sum add up.
LEMMA NearAtPlus ==
  ASSUME NEW x \in Int, NEW k \in Int, NEW w \in Int, NearAt(x, k, w),
         NEW y \in Int, NEW l \in Int, NEW v \in Int, NearAt(y, l, v)
  PROVE  NearAt((x + y) % Modulus, k + l, w + v)
<1> DEFINE t == PlainModulus
           q == Modulus
           P == t * q
           u == t + 1
<1>0. t \in Int /\ q \in Nat \ {0} /\ u \in Int
  BY ModuliAre
<1>1. PICK e \in Int, z \in Int :
        t * x = (k * q + e) + z * P /\ -(w * u) <= 2 * e /\ 2 * e <= w * u
  BY DEF NearAt
<1>2. PICK f \in Int, s \in Int :
        t * y = (l * q + f) + s * P /\ -(v * u) <= 2 * f /\ 2 * f <= v * u
  BY DEF NearAt
<1> DEFINE d == (x + y) \div q
           r == (x + y) % q
<1>3. d \in Int /\ r \in Int /\ x + y = d * q + r
  <2>1. x + y \in Int
    OBVIOUS
  <2>2. QED
    BY <1>0, <2>1, RemainderIs
<1> HIDE DEF d, r
<1>4. P \in Int /\ P = t * q
  BY <1>0
<1> SUFFICES NearAt(r, k + l, w + v)
  BY DEF r
<1> HIDE DEF t, q, P, u
<1>5. t * r = ((k + l) * q + (e + f)) + ((z + s) - d) * P
  <2>1. r = (x + y) - d * q
    BY <1>0, <1>3
  <2>2. t * r = (t * x + t * y) - d * P
    <3>1. \A a, b, c, g \in Int : a * ((b + c) - g * q) = (a * b + a * c) - g * (a * q)
      BY <1>0
    <3>2. QED
      BY <1>0, <1>3, <1>4, <2>1, <3>1
  <2>3. t * r = (((k * q + e) + z * P) + ((l * q + f) + s * P)) - d * P
    BY <1>1, <1>2, <2>2
  <2>4. (((k * q + e) + z * P) + ((l * q + f) + s * P)) - d * P
          = ((k + l) * q + (e + f)) + ((z + s) - d) * P
    BY <1>0, <1>3, <1>4
  <2>5. QED
    BY <2>3, <2>4
<1>6. -((w + v) * u) <= 2 * (e + f) /\ 2 * (e + f) <= (w + v) * u
  <2>1. (w + v) * u = w * u + v * u /\ w * u \in Int /\ v * u \in Int
    BY <1>0
  <2>2. QED
    BY <1>1, <1>2, <2>1
<1>7. e + f \in Int /\ (z + s) - d \in Int
  BY <1>3
<1>8. QED
  BY <1>5, <1>6, <1>7 DEF NearAt, t, q, P, u

\* Negating keeps how near a coefficient is to a multiple.
LEMMA NearAtNegated ==
  ASSUME NEW x \in Int, NEW k \in Int, NEW w \in Int, NearAt(x, k, w)
  PROVE  NearAt((0 - x) % Modulus, 0 - k, w)
<1> DEFINE t == PlainModulus
           q == Modulus
           P == t * q
           u == t + 1
<1>0. t \in Int /\ q \in Nat \ {0} /\ u \in Int
  BY ModuliAre
<1>1. PICK e \in Int, z \in Int :
        t * x = (k * q + e) + z * P /\ -(w * u) <= 2 * e /\ 2 * e <= w * u
  BY DEF NearAt
<1> DEFINE d == (0 - x) \div q
           r == (0 - x) % q
<1>3. d \in Int /\ r \in Int /\ 0 - x = d * q + r
  <2>1. 0 - x \in Int
    OBVIOUS
  <2>2. QED
    BY <1>0, <2>1, RemainderIs
<1> HIDE DEF d, r
<1>4. P \in Int /\ P = t * q
  BY <1>0
<1> SUFFICES NearAt(r, 0 - k, w)
  BY DEF r
<1> HIDE DEF t, q, P, u
<1>5. t * r = ((0 - k) * q + (0 - e)) + ((0 - z) - d) * P
  <2>1. r = (0 - x) - d * q
    BY <1>0, <1>3
  <2>2. t * r = (0 - t * x) - d * P
    <3>1. \A a, b, g \in Int : a * ((0 - b) - g * q) = (0 - a * b) - g * (a * q)
      BY <1>0
    <3>2. QED
      BY <1>0, <1>3, <1>4, <2>1, <3>1
  <2>3. t * r = (0 - ((k * q + e) + z * P)) - d * P
    BY <1>1, <2>2
  <2>4. (0 - ((k * q + e) + z * P)) - d * P
          = ((0 - k) * q + (0 - e)) + ((0 - z) - d) * P
    BY <1>0, <1>3, <1>4
  <2>5. QED
    BY <2>3, <2>4
<1>6. -(w * u) <= 2 * (0 - e) /\ 2 * (0 - e) <= w * u
  <2>1. w * u \in Int
    BY <1>0
  <2>2. QED
    BY <1>1, <2>1
<1>7. 0 - e \in Int /\ (0 - z) - d \in Int
  BY <1>3
<1>8. QED
  BY <1>5, <1>6, <1>7 DEF NearAt, t, q, P, u

\* Rounding removes an error below half of q.
LEMMA NearAtRounded ==
  ASSUME NEW x \in Int, NEW k \in Int, NEW w \in Int, NearAt(x, k, w),
         w * (PlainModulus + 1) < Modulus
  PROVE  ((2 * PlainModulus * x + Modulus) \div (2 * Modulus)) % PlainModulus = k % PlainModulus
<1> DEFINE t == PlainModulus
           q == Modulus
           P == t * q
           u == t + 1
           W == w * u
<1>0. t \in Nat \ {0} /\ q \in Nat \ {0} /\ u \in Int /\ W \in Int /\ W < q
  BY ModuliAre
<1>1. PICK e \in Int, z \in Int :
        t * x = (k * q + e) + z * P /\ -W <= 2 * e /\ 2 * e <= W
  BY DEF NearAt
<1> HIDE DEF W
<1>2. 2 * e + q \in 0 .. (2 * q - 1)
  BY <1>0, <1>1
<1>3. P = t * q /\ P \in Int
  BY <1>0
<1> SUFFICES ((2 * t * x + q) \div (2 * q)) % t = k % t
  OBVIOUS
<1> HIDE DEF t, q, P, u
<1>4. 2 * t * x + q = (k + z * t) * (2 * q) + (2 * e + q)
  <2>1. 2 * t * x = 2 * (t * x)
    BY <1>0
  <2>2. 2 * ((k * q + e) + z * (t * q)) + q = (k + z * t) * (2 * q) + (2 * e + q)
    BY <1>0
  <2>3. QED
    BY <1>1, <1>3, <2>1, <2>2
<1> DEFINE Q == 2 * q
           a == 2 * t * x + q
           r == 2 * e + q
           K == k + z * t
<1>5. Q \in Nat \ {0} /\ a \in Int /\ r \in 0 .. Q - 1 /\ K \in Int /\ a = K * Q + r
  <2>1. Q \in Nat \ {0} /\ K \in Int /\ r \in 0 .. Q - 1
    BY <1>0, <1>2
  <2>2. a \in Int
    BY <1>0
  <2>3. QED
    BY <1>4, <2>1, <2>2
<1>6. a \div Q = K
  <2> HIDE DEF Q, a, r, K
  <2>1. QED
    BY <1>5, QuotientUnique
<1>7. K % t = k % t
  BY <1>0, <1>5, SameRemainder
<1>8. QED
  BY <1>6, <1>7

\* Lifting a message makes one rounding error.
LEMMA NearAtLifted ==
  ASSUME NEW x \in 0 .. PlainModulus - 1
  PROVE  NearAt((x * (Modulus \div PlainModulus)
                   + ((x * (Modulus % PlainModulus) + ((PlainModulus + 1) \div 2))
                          \div PlainModulus)) % Modulus, x, 1)
<1> DEFINE t == PlainModulus
           q == Modulus
           u == t + 1
           Q == q \div t
           R == q % t
           h == u \div 2
           n == x * R + h
           f == n \div t
           g == n % t
           y == x * Q + f
           d == y \div q
           r == y % q
<1>0. t \in Nat \ {0} /\ q \in Nat \ {0} /\ u \in Int /\ u = t + 1 /\ x \in Int
  BY ModuliAre
<1>1. Q \in Int /\ R \in Int /\ q = Q * t + R
  BY <1>0, RemainderIs
<1>2. h \in Int /\ 2 * h <= u /\ u - 1 <= 2 * h
  BY <1>0
<1>3. n \in Int
  BY <1>0, <1>1, <1>2
<1>4. f \in Int /\ g \in 0 .. t - 1 /\ n = f * t + g
  BY <1>0, <1>3, RemainderIs
<1>5. y \in Int
  BY <1>0, <1>1, <1>4
<1>6. d \in Int /\ r \in Int /\ y = d * q + r
  BY <1>0, <1>5, RemainderIs
<1>7. n = x * R + h /\ y = x * Q + f
  OBVIOUS
<1> SUFFICES NearAt(r, x, 1)
  OBVIOUS
<1> HIDE DEF t, q, u, Q, R, h, n, f, g, y, d, r
<1>8. t * y = x * q + (h - g)
  <2>1. t * y = x * (Q * t) + f * t
    BY <1>0, <1>1, <1>4, <1>7
  <2>2. f * t = (x * R + h) - g
    BY <1>0, <1>1, <1>2, <1>4, <1>7
  <2>3. x * q = x * (Q * t) + x * R
    BY <1>0, <1>1
  <2>4. x * (Q * t) \in Int /\ x * R \in Int
    BY <1>0, <1>1
  <2>5. QED
    BY <1>2, <1>4, <2>1, <2>2, <2>3, <2>4
<1>9. t * r = (x * q + (h - g)) + (0 - d) * (t * q)
  <2>1. r = y - d * q
    BY <1>0, <1>5, <1>6
  <2>2. t * (y - d * q) = t * y + (0 - d) * (t * q)
    BY <1>0, <1>5, <1>6
  <2>3. QED
    BY <1>8, <2>1, <2>2
<1>10. /\ -(1 * (t + 1)) <= 2 * (h - g) /\ 2 * (h - g) <= 1 * (t + 1)
       /\ h - g \in Int /\ 0 - d \in Int
  BY <1>0, <1>2, <1>4, <1>6
<1>11. QED
  BY <1>9, <1>10 DEF NearAt, t, q

\* The coefficients of Lifted and Rounded.
LEMMA LiftedIs ==
  ASSUME NEW m \in Messages
  PROVE  Lifted(m) \in Elements /\ Near(Lifted(m), m, 1)
<1> DEFINE F(x) == (x * (Modulus \div PlainModulus)
                      + ((x * (Modulus % PlainModulus) + ((PlainModulus + 1) \div 2))
                            \div PlainModulus)) % Modulus
           f == [i \in Index |-> F(m[i])]
<1>1. ASSUME NEW x \in Int PROVE F(x) \in 0 .. Modulus - 1
  <2> DEFINE Q == Modulus \div PlainModulus
             R == Modulus % PlainModulus
             h == (PlainModulus + 1) \div 2
             n == x * R + h
             g == n \div PlainModulus
             y == x * Q + g
  <2>1. Q \in Int /\ R \in Int /\ h \in Int
    BY ModuliAre, RemainderIs
  <2>2. n \in Int
    <3> HIDE DEF Q, R, h
    <3>1. QED
      BY <2>1
  <2>3. g \in Int
    <3> HIDE DEF n
    <3>1. QED
      BY <2>2, ModuliAre, RemainderIs
  <2>4. y \in Int
    <3> HIDE DEF Q, g
    <3>1. QED
      BY <2>1, <2>3
  <2>5. F(x) = y % Modulus
    OBVIOUS
  <2> HIDE DEF F, y
  <2>6. QED
    BY <2>4, <2>5, ModuliAre, RemainderIs
<1>2. \A i \in Index : m[i] \in 0 .. PlainModulus - 1 /\ m[i] \in Int
  BY ModuliAre DEF Messages
<1>3. \A i \in Index : NearAt(F(m[i]), m[i], 1)
  BY <1>2, NearAtLifted
<1>4. Lifted(m) = Tuple(f)
  BY DEF Lifted
<1> HIDE DEF F
<1>5. f \in [Index -> 0 .. Modulus - 1]
  BY <1>1, <1>2
<1>6. Lifted(m) = f
  BY <1>4, <1>5, TupleIs
<1>7. QED
  BY <1>3, <1>5, <1>6 DEF Elements, Near

\* Rounding what is near an encoding gives what was encoded, modulo the plain modulus.
LEMMA RoundedIs ==
  ASSUME NEW x \in Elements, NEW k \in [Index -> Int], NEW w \in Int, Near(x, k, w),
         w * (PlainModulus + 1) < Modulus
  PROVE  Rounded(x) = [i \in Index |-> k[i] % PlainModulus]
<1> DEFINE f == [i \in Index |->
                   ((2 * PlainModulus * x[i] + Modulus) \div (2 * Modulus)) % PlainModulus]
           g == [i \in Index |-> k[i] % PlainModulus]
<1>1. f = g
  <2>1. ASSUME NEW i \in Index
        PROVE  ((2 * PlainModulus * x[i] + Modulus) \div (2 * Modulus)) % PlainModulus
                  = k[i] % PlainModulus
    <3> DEFINE X == x[i] K == k[i]
    <3>1. X \in Int /\ K \in Int /\ NearAt(X, K, w)
      BY ElementHas, RingAssumption DEF Near
    <3> HIDE DEF X, K
    <3>2. ((2 * PlainModulus * X + Modulus) \div (2 * Modulus)) % PlainModulus = K % PlainModulus
      BY <3>1, NearAtRounded
    <3>3. QED
      BY <3>2 DEF X, K
  <2>2. QED
    BY <2>1
<1>2. g \in [Index -> Int]
  <2>1. \A i \in Index : k[i] % PlainModulus \in Int
    BY ModuliAre, RemainderIs
  <2>2. QED
    BY <2>1
<1>3. Rounded(x) = Tuple(f)
  BY DEF Rounded
<1> HIDE DEF f, g
<1>4. Tuple(g) = g
  BY <1>2, TupleIs
<1>5. QED
  BY <1>1, <1>3, <1>4 DEF g

\* Sums of near elements are near, by the sum of the errors.
LEMMA NearPlus ==
  ASSUME NEW x \in Elements, NEW k \in [Index -> Int], NEW w \in Int, Near(x, k, w),
         NEW y \in Elements, NEW l \in [Index -> Int], NEW v \in Int, Near(y, l, v)
  PROVE  Near(Plus(x, y), [i \in Index |-> k[i] + l[i]], w + v)
<1>1. ASSUME NEW i \in Index
      PROVE  NearAt(Plus(x, y)[i], k[i] + l[i], w + v)
  <2>1. x[i] \in Int /\ y[i] \in Int /\ k[i] \in Int /\ l[i] \in Int
    BY ElementHas, RingAssumption
  <2>2. NearAt(x[i], k[i], w) /\ NearAt(y[i], l[i], v)
    BY DEF Near
  <2>3. NearAt((x[i] + y[i]) % Modulus, k[i] + l[i], w + v)
    BY <2>1, <2>2, NearAtPlus
  <2>4. QED
    BY <2>3, PlusIs
<1>2. QED
  BY <1>1 DEF Near

\* Negating keeps how near an element is.
LEMMA NearNegated ==
  ASSUME NEW x \in Elements, NEW k \in [Index -> Int], NEW w \in Int, Near(x, k, w)
  PROVE  Near(Negated(x), [i \in Index |-> 0 - k[i]], w)
<1>1. ASSUME NEW i \in Index
      PROVE  NearAt(Negated(x)[i], 0 - k[i], w)
  <2>1. x[i] \in Int /\ k[i] \in Int /\ NearAt(x[i], k[i], w)
    BY ElementHas, RingAssumption DEF Near
  <2>2. NearAt((0 - x[i]) % Modulus, 0 - k[i], w)
    BY <2>1, NearAtNegated
  <2>3. QED
    BY <2>2, NegatedIs
<1>2. QED
  BY <1>1 DEF Near

\* A message is opened as it was lifted, alone or with everyone's errors.
LEMMA LiftedOpens ==
  ASSUME NEW m \in Messages
  PROVE  Rounded(Lifted(m)) = m
<1>1. \A i \in Index : m[i] \in 0 .. PlainModulus - 1
  BY DEF Messages
<1>2. m \in [Index -> Int] /\ m = [i \in Index |-> m[i]]
  BY ModuliAre DEF Messages
<1>3. \A i \in Index : m[i] % PlainModulus = m[i]
  BY <1>1, ModuliAre
<1>4. 1 * (PlainModulus + 1) < Modulus
  BY ModuliAre
<1>5. Rounded(Lifted(m)) = [i \in Index |-> m[i] % PlainModulus]
  BY <1>2, <1>4, LiftedIs, RoundedIs
<1>6. QED
  BY <1>2, <1>3, <1>5

\* Dividing by a scale is the inverse of multiplying by it.
LEMMA ScaledBack ==
  ASSUME NEW s \in 1 .. Modulus - 1, NEW m \in Elements
  PROVE  Scaled(InverseOf(s), Scaled(s, m)) = m
<1>1. InverseOf(s) \in Int /\ s \in Int /\ (InverseOf(s) * s) % Modulus = 1
  BY InverseIs, RingAssumption
<1> DEFINE v == InverseOf(s)
<1>2. v \in Int /\ (v * s) % Modulus = 1
  BY <1>1
<1> HIDE DEF v
<1>3. Scaled(s, m) \in Elements /\ \A i \in Index : Scaled(s, m)[i] = (s * m[i]) % Modulus
  BY <1>1, ScaledIs, ElementsAreIntegers
<1> DEFINE y == Scaled(s, m)
<1>4. Scaled(v, y) \in Elements /\ \A i \in Index : Scaled(v, y)[i] = (v * y[i]) % Modulus
  BY <1>2, <1>3, ScaledIs, ElementsAreIntegers
<1>5. ASSUME NEW i \in Index PROVE Scaled(v, y)[i] = m[i]
  <2> DEFINE x == m[i]
             n == v * s
  <2>1. x \in 0 .. Modulus - 1 /\ x \in Int
    BY ElementHas, RingAssumption
  <2>2. Scaled(v, y)[i] = (v * ((s * x) % Modulus)) % Modulus
    BY <1>3, <1>4
  <2> HIDE DEF x, y
  <2>3. s * x \in Int /\ n \in Int /\ n % Modulus = 1
    BY <1>1, <1>2, <2>1
  <2>4. (v * ((s * x) % Modulus)) % Modulus = (v * (s * x)) % Modulus
    <3> DEFINE z == s * x
    <3>1. z \in Int /\ Modulus \in Nat \ {0}
      BY <2>3, ModuliAre
    <3> HIDE DEF z
    <3>2. (v * (z % Modulus)) % Modulus = (v * z) % Modulus
      BY <1>2, <3>1, RemainderOfProduct
    <3>3. QED
      BY <3>2 DEF z
  <2>5. v * (s * x) = n * x
    BY <1>1, <1>2, <2>1
  <2> HIDE DEF n
  <2>6. ((n % Modulus) * x) % Modulus = (n * x) % Modulus
    BY <2>1, <2>3, ModuliAre, RemainderOfProduct
  <2>7. 1 * x = x
    BY <2>1
  <2>8. (n * x) % Modulus = x
    BY <2>1, <2>3, <2>6, <2>7, SmallRemainder
  <2>9. QED
    BY <2>2, <2>4, <2>5, <2>8 DEF x
<1>6. Scaled(v, y) = m
  BY <1>4, <1>5, ElementHas
<1>7. QED
  BY <1>6 DEF v

\* Decoding at the scale of the encoding gives the message back.
LEMMA EncodedOpens ==
  ASSUME NEW s \in 1 .. Modulus - 1, NEW m \in Elements
  PROVE  EncodedAt(m, s) \in Elements /\ DecodedAt(EncodedAt(m, s), s) = m
<1>1. Scaled(s, m) \in Elements
  BY ScaledIs, ElementsAreIntegers, RingAssumption
<1>2. Ntt(Scaled(s, m)) \in Elements /\ Intt(Ntt(Scaled(s, m))) = Scaled(s, m)
  BY <1>1, Transforms
<1>3. QED
  BY <1>2, ScaledBack DEF EncodedAt, DecodedAt

\* What is taken away and put back.
LEMMA MinusPlus ==
  ASSUME NEW a \in Elements, NEW b \in Elements
  PROVE  Plus(Minus(a, b), b) = a
<1>1. Negated(b) \in Elements
  BY NegatedIs
<1>2. Plus(Plus(a, Negated(b)), b) = Plus(a, Plus(Negated(b), b))
  BY <1>1, PlusAssociates
<1>3. QED
  BY <1>2, MinusIsPlus, NegatedCancels, PlusZero

\* The joint secret is an element.
LEMMA JointIs == Joint \in Elements
  BY SumIsElement, PartiesAssumption DEF Joint

\* The first part of a ciphertext, and the product of its second with a secret.
LEMMA CiphertextIs ==
  /\ \A c \in Ciphertexts["BFV"] : ~c.ntt =>
       /\ c.message \in Messages
       /\ Part0["BFV"][c] = Intt(Minus(Ntt(Lifted(c.message)), Times(Noise, Joint)))
  /\ \A c \in Ciphertexts["CKKS"] :
       /\ c.message \in Elements /\ c.scale \in 1 .. Modulus - 1
       /\ Part0["CKKS"][c] = Minus(EncodedAt(c.message, c.scale), Times(Noise, Joint))
  /\ \A c \in Ciphertexts["BFV"] \union Ciphertexts["CKKS"], p \in Parties :
       Product(c, p) = Times(Noise, Secret[p])
<1>1. DOMAIN Ciphertexts = {"BFV", "CKKS"} /\ Noise \in Elements
  BY MessagesAssumption
<1>2. \A c \in Ciphertexts["CKKS"] :
        c.message \in Elements /\ c.ntt /\ c.scale \in 1 .. Modulus - 1
  BY MessagesAssumption
<1>3. \A c \in Ciphertexts["BFV"] : c.message \in Messages
  BY MessagesAssumption DEF Messages
<1>4. \A c \in Ciphertexts["BFV"] : ~c.ntt =>
        Part0["BFV"][c] = Intt(Minus(Ntt(Lifted(c.message)), Times(Noise, Joint)))
  BY <1>1 DEF Part0
<1>5. \A c \in Ciphertexts["CKKS"] :
        Part0["CKKS"][c] = Minus(EncodedAt(c.message, c.scale), Times(Noise, Joint))
  BY <1>1, <1>2 DEF Part0
<1>6. \A c, p : Product(c, p) = Times(Noise, Secret[p])
  <2>1. Ntt(Intt(Noise)) = Noise
    BY <1>1, Transforms
  <2>2. QED
    BY <2>1 DEF Product, Part1
<1>7. QED
  BY <1>2, <1>3, <1>4, <1>5, <1>6

-----------------------------------------------------------------------------
(* Joint decryption. *)

\* What a party's share of a decryption is, in a scheme.
IsPartial(s, share, p) ==
  \/ s = "BFV" /\ \E c \in Ciphertexts["BFV"] : share = PartialBfv(p, c)
  \/ s = "CKKS" /\ \E c \in Ciphertexts["CKKS"] : share = PartialCkks(p, c)

DecryptInv ==
  ceremony = "decrypt" =>
    /\ \A p \in Parties : Partial(p) => IsPartial(scheme, first[p], p)
    /\ Assembled(result) =>
         \E list \in Lists :
           /\ Len(list) # 0 /\ \A k \in 1 .. Len(list) : Partial(list[k])
           /\ \/ scheme = "BFV" /\ result = MessageBfv(list)
              \/ scheme = "CKKS" /\ result = MessageCkks(list)

\* Every step keeps what is known of a joint decryption.
LEMMA DecryptStep ==
  ASSUME Shape, DecryptInv, Next
  PROVE  DecryptInv'
<1>1. SUFFICES ASSUME ceremony = "decrypt" PROVE DecryptInv'
  BY CallsOf DEF DecryptInv
<1>2. /\ ~Assembled(result) /\ UNCHANGED <<scheme, ceremony>>
      /\ \/ \E p \in Parties : DecryptPartialBfv(p) \/ DecryptPartialCkks(p)
         \/ \E list \in Lists : DecryptBfv(list) \/ DecryptCkks(list)
  BY <1>1, CallsOf
<1>3. CASE Throws
  BY <1>2, <1>3 DEF Throws, DecryptInv, Partial
<1>4. CASE ~Throws /\ \E p \in Parties : DecryptPartialBfv(p) \/ DecryptPartialCkks(p)
  <2>1. PICK p \in Parties : \E share : IsPartial(scheme, share, p) /\ Make(p, share)
    BY <1>4, PartyCalls DEF IsPartial
  <2>2. PICK share : IsPartial(scheme, share, p) /\ Make(p, share)
    BY <2>1
  <2>3. first' = [first EXCEPT ![p] = share] /\ result' = result
    BY <2>2 DEF Make
  <2>4. first'[p] = share /\ \A o \in Parties \ {p} : first'[o] = first[o]
    BY <2>3 DEF Shape
  <2>5. ASSUME NEW o \in Parties, Partial(o)'
        PROVE  IsPartial(scheme, first'[o], o)
    <3>1. CASE o = p
      BY <2>2, <2>4, <3>1
    <3>2. CASE o # p
      BY <1>1, <2>4, <2>5, <3>2 DEF DecryptInv, Partial
    <3>3. QED
      BY <3>1, <3>2
  <2>6. ~Assembled(result)'
    BY <1>2, <2>3 DEF Assembled
  <2>7. \A o : IsPartial(scheme, first[o], o)' <=> IsPartial(scheme, first'[o], o)
    BY <1>2 DEF IsPartial, PartialBfv, PartialCkks
  <2>8. QED
    BY <2>5, <2>6, <2>7 DEF DecryptInv
<1>5. CASE ~Throws /\ \E list \in Lists : DecryptBfv(list) \/ DecryptCkks(list)
  <2>1. PICK list \in Lists :
          /\ Len(list) # 0 /\ \A k \in 1 .. Len(list) : Partial(list[k])
          /\ \/ scheme = "BFV" /\ Assemble(MessageBfv(list))
             \/ scheme = "CKKS" /\ Assemble(MessageCkks(list))
    BY <1>5, CollectorCalls
  <2>2. /\ first' = first
        /\ \/ scheme = "BFV" /\ result' = MessageBfv(list)
           \/ scheme = "CKKS" /\ result' = MessageCkks(list)
    BY <2>1 DEF Assemble
  <2>3. MessageBfv(list)' = MessageBfv(list) /\ MessageCkks(list)' = MessageCkks(list)
    BY <2>2 DEF MessageBfv, MessageCkks, Origins, FusedSum, Picked
  <2>4. \A p : Partial(p)' <=> Partial(p)
    BY <2>2 DEF Partial
  <2>5. \A p \in Parties : Partial(p) => IsPartial(scheme, first[p], p)'
    BY <1>1, <1>2, <2>2 DEF DecryptInv, IsPartial
  <2>6. QED
    BY <1>2, <2>1, <2>2, <2>3, <2>4, <2>5 DEF DecryptInv
<1>6. QED
  BY <1>2, <1>3, <1>4, <1>5

\* Everyone's products of a c1 with the secrets, transformed or not, add up
\* to its product with the joint secret.
LEMMA ProductsAdd ==
  ASSUME NEW list \in Lists, Everyone(Counted(list)), NEW n \in Elements,
         NEW T \in [Elements -> Elements], T[Zero] = Zero,
         \A a, b \in Elements : T[Plus(a, b)] = Plus(T[a], T[b])
  PROVE  AddAll([k \in 1 .. Len(list) |-> T[Times(n, Secret[list[k]])]]) = T[Times(n, Joint)]
<1> DEFINE w == [p \in Parties |-> Times(n, Secret[p])]
           v == [p \in Parties |-> T[w[p]]]
<1>1. /\ w \in [Parties -> Elements] /\ v \in [Parties -> Elements] /\ IsFiniteSet(Parties)
      /\ Secret \in [Parties -> Elements]
  <2>1. \A p \in Parties : Times(n, Secret[p]) \in Elements
    BY PartiesAssumption, TimesIs
  <2>2. QED
    BY <2>1, PartiesAssumption
<1>2. AddAll(w) = Times(n, Joint)
  BY <1>1, SumTimes DEF Joint
<1>3. list \in [1 .. Len(list) -> Parties]
  BY ListIs
<1>4. [k \in 1 .. Len(list) |-> T[Times(n, Secret[list[k]])]] = [k \in 1 .. Len(list) |-> v[list[k]]]
  BY <1>3
<1> HIDE DEF w
<1>5. AddAll(v) = T[AddAll(w)]
  BY <1>1, SumMapped
<1> HIDE DEF v
<1>6. AddAll([k \in 1 .. Len(list) |-> v[list[k]]]) = AddAll(v)
  BY <1>1, SumOfVector
<1>7. QED
  BY <1>2, <1>4, <1>5, <1>6

\* The two transformations of such a product.
LEMMA LinearMaps ==
  /\ LET T == [x \in Elements |-> x]
     IN  /\ T \in [Elements -> Elements] /\ T[Zero] = Zero
         /\ \A a, b \in Elements : T[Plus(a, b)] = Plus(T[a], T[b])
  /\ LET T == [x \in Elements |-> Intt(x)]
     IN  /\ T \in [Elements -> Elements] /\ T[Zero] = Zero
         /\ \A a, b \in Elements : T[Plus(a, b)] = Plus(T[a], T[b])
<1>1. \A a, b \in Elements : Plus(a, b) \in Elements
  BY PlusIs
<1>2. QED
  BY <1>1, ZeroIs, Transforms

\* The sums that are opened.
LEMMA FusedOpens ==
  ASSUME NEW list \in Lists, Everyone(Counted(list))
  PROVE  /\ \A x \in Elements :
              Plus(Intt(Minus(Ntt(x), Times(Noise, Joint))),
                   AddAll([k \in 1 .. Len(list) |-> Intt(Times(Noise, Secret[list[k]]))])) = x
         /\ \A x \in Elements :
              Plus(Minus(x, Times(Noise, Joint)),
                   AddAll([k \in 1 .. Len(list) |-> Times(Noise, Secret[list[k]])])) = x
<1> DEFINE NJ == Times(Noise, Joint)
           I == [x \in Elements |-> x]
           T == [x \in Elements |-> Intt(x)]
<1>1. NJ \in Elements /\ Noise \in Elements
  BY JointIs, MessagesAssumption, TimesIs
<1>2. list \in [1 .. Len(list) -> Parties]
  BY ListIs
<1>3. \A k \in 1 .. Len(list) : Times(Noise, Secret[list[k]]) \in Elements
  BY <1>1, <1>2, PartiesAssumption, TimesIs
<1>4. AddAll([k \in 1 .. Len(list) |-> Times(Noise, Secret[list[k]])]) = NJ
  <2>1. [k \in 1 .. Len(list) |-> I[Times(Noise, Secret[list[k]])]]
           = [k \in 1 .. Len(list) |-> Times(Noise, Secret[list[k]])]
    BY <1>3
  <2>2. I[NJ] = NJ
    BY <1>1
  <2>3. /\ I \in [Elements -> Elements] /\ I[Zero] = Zero
        /\ \A a, b \in Elements : I[Plus(a, b)] = Plus(I[a], I[b])
    BY LinearMaps
  <2> HIDE DEF I
  <2>4. AddAll([k \in 1 .. Len(list) |-> I[Times(Noise, Secret[list[k]])]]) = I[NJ]
    BY <1>1, <2>3, ProductsAdd
  <2>5. QED
    BY <2>1, <2>2, <2>4
<1>5. AddAll([k \in 1 .. Len(list) |-> Intt(Times(Noise, Secret[list[k]]))]) = Intt(NJ)
  <2>1. [k \in 1 .. Len(list) |-> T[Times(Noise, Secret[list[k]])]]
           = [k \in 1 .. Len(list) |-> Intt(Times(Noise, Secret[list[k]]))]
    BY <1>3
  <2>2. T[NJ] = Intt(NJ)
    BY <1>1
  <2>3. /\ T \in [Elements -> Elements] /\ T[Zero] = Zero
        /\ \A a, b \in Elements : T[Plus(a, b)] = Plus(T[a], T[b])
    BY LinearMaps
  <2> HIDE DEF T
  <2>4. AddAll([k \in 1 .. Len(list) |-> T[Times(Noise, Secret[list[k]])]]) = T[NJ]
    BY <1>1, <2>3, ProductsAdd
  <2>5. QED
    BY <2>1, <2>2, <2>4
<1> HIDE DEF NJ
<1>6. ASSUME NEW x \in Elements
      PROVE  Plus(Intt(Minus(Ntt(x), NJ)), Intt(NJ)) = x /\ Plus(Minus(x, NJ), NJ) = x
  <2>1. Ntt(x) \in Elements /\ Minus(Ntt(x), NJ) \in Elements
    BY <1>1, Transforms, MinusIs
  <2>2. Plus(Intt(Minus(Ntt(x), NJ)), Intt(NJ)) = Intt(Plus(Minus(Ntt(x), NJ), NJ))
    BY <1>1, <2>1, Transforms
  <2>3. Plus(Minus(Ntt(x), NJ), NJ) = Ntt(x)
    BY <1>1, <2>1, MinusPlus
  <2>4. QED
    BY <1>1, <2>2, <2>3, Transforms, MinusPlus
<1>7. QED
  BY <1>4, <1>5, <1>6 DEF NJ

\* A decryption so made by everyone opens to the message.
LEMMA DecryptOpens ==
  ASSUME DecryptInv, ceremony = "decrypt", Assembled(result), Everyone(result.from),
         NEW c \in Ciphertexts[scheme], result.of = {c}, scheme = "BFV" => ~c.ntt
  PROVE  result.message = c.message
<1>1. PICK list \in Lists :
        /\ Len(list) # 0 /\ \A k \in 1 .. Len(list) : Partial(list[k])
        /\ \/ scheme = "BFV" /\ result = MessageBfv(list)
           \/ scheme = "CKKS" /\ result = MessageCkks(list)
  BY DEF DecryptInv
<1>2. result.from = Counted(list) /\ result.of = Origins(list)
  BY <1>1 DEF MessageBfv, MessageCkks
<1> DEFINE n == Len(list)
<1>3. Everyone(Counted(list)) /\ n \in Nat \ {0} /\ list \in [1 .. n -> Parties] /\ 1 \in 1 .. n
  BY <1>1, <1>2, ListIs, PartiesAssumption
<1>4. \A k \in 1 .. n : first[list[k]].of = c
  <2>1. Origins(list) = {c}
    BY <1>2
  <2>2. \A k \in 1 .. n : first[list[k]].of \in Origins(list)
    BY DEF Origins
  <2>3. QED
    BY <2>1, <2>2
<1>5. \A k \in 1 .. n : IsPartial(scheme, first[list[k]], list[k])
  BY <1>1, <1>3 DEF DecryptInv
<1>6. CASE scheme = "BFV"
  <2>1. c \in Ciphertexts["BFV"] /\ ~c.ntt
    BY <1>6
  <2>2. \A k \in 1 .. n :
          /\ first[list[k]].parts[1] = Part0["BFV"][c]
          /\ first[list[k]].parts[2] = Intt(Times(Noise, Secret[list[k]]))
    <3>1. SUFFICES ASSUME NEW k \in 1 .. n
                   PROVE  /\ first[list[k]].parts[1] = Part0["BFV"][c]
                          /\ first[list[k]].parts[2] = Intt(Times(Noise, Secret[list[k]]))
      OBVIOUS
    <3>2. PICK d \in Ciphertexts["BFV"] : first[list[k]] = PartialBfv(list[k], d)
      BY <1>5, <1>6 DEF IsPartial
    <3>3. /\ first[list[k]].of = d
          /\ first[list[k]].parts = <<Part0["BFV"][d], Intt(Product(d, list[k]))>>
      BY <3>2 DEF PartialBfv
    <3>4. d = c
      BY <1>4, <3>3
    <3>5. Product(c, list[k]) = Times(Noise, Secret[list[k]])
      BY <1>3, <2>1, CiphertextIs
    <3>6. QED
      BY <3>3, <3>4, <3>5
  <2>3. Picked(first, list, 2) = [k \in 1 .. n |-> Intt(Times(Noise, Secret[list[k]]))]
    BY <2>2 DEF Picked
  <2>4. /\ c.message \in Messages
        /\ Part0["BFV"][c] = Intt(Minus(Ntt(Lifted(c.message)), Times(Noise, Joint)))
    BY <2>1, CiphertextIs
  <2>5. first[list[1]].parts[1] = Intt(Minus(Ntt(Lifted(c.message)), Times(Noise, Joint)))
    BY <1>3, <2>2, <2>4
  <2>6. FusedSum(list) = Lifted(c.message)
    BY <1>3, <2>3, <2>4, <2>5, FusedOpens, LiftedIs DEF FusedSum
  <2>7. result.message = Rounded(FusedSum(list))
    BY <1>1, <1>6 DEF MessageBfv
  <2>8. QED
    BY <2>4, <2>6, <2>7, LiftedOpens
<1>7. CASE scheme = "CKKS"
  <2>1. c \in Ciphertexts["CKKS"]
    BY <1>7
  <2>2. \A k \in 1 .. n :
          /\ first[list[k]].parts[1] = Part0["CKKS"][c]
          /\ first[list[k]].parts[2] = Times(Noise, Secret[list[k]])
    <3>1. SUFFICES ASSUME NEW k \in 1 .. n
                   PROVE  /\ first[list[k]].parts[1] = Part0["CKKS"][c]
                          /\ first[list[k]].parts[2] = Times(Noise, Secret[list[k]])
      OBVIOUS
    <3>2. PICK d \in Ciphertexts["CKKS"] : first[list[k]] = PartialCkks(list[k], d)
      BY <1>5, <1>7 DEF IsPartial
    <3>3. /\ first[list[k]].of = d
          /\ first[list[k]].parts = <<Part0["CKKS"][d], Product(d, list[k])>>
      BY <3>2 DEF PartialCkks
    <3>4. d = c
      BY <1>4, <3>3
    <3>5. Product(c, list[k]) = Times(Noise, Secret[list[k]])
      BY <1>3, <2>1, CiphertextIs
    <3>6. QED
      BY <3>3, <3>4, <3>5
  <2>3. Picked(first, list, 2) = [k \in 1 .. n |-> Times(Noise, Secret[list[k]])]
    BY <2>2 DEF Picked
  <2>4. /\ c.message \in Elements /\ c.scale \in 1 .. Modulus - 1
        /\ Part0["CKKS"][c] = Minus(EncodedAt(c.message, c.scale), Times(Noise, Joint))
    BY <2>1, CiphertextIs
  <2>5. first[list[1]].parts[1] = Minus(EncodedAt(c.message, c.scale), Times(Noise, Joint))
    BY <1>3, <2>2, <2>4
  <2>6. FusedSum(list) = EncodedAt(c.message, c.scale)
    BY <1>3, <2>3, <2>4, <2>5, FusedOpens, EncodedOpens DEF FusedSum
  <2>7. result.message = DecodedAt(FusedSum(list), c.scale)
    <3>1. result.message = DecodedAt(FusedSum(list), first[list[1]].of.scale)
      BY <1>1, <1>7 DEF MessageCkks
    <3>2. first[list[1]].of = c
      BY <1>3, <1>4
    <3>3. QED
      BY <3>1, <3>2
  <2>8. QED
    BY <2>4, <2>6, <2>7, EncodedOpens
<1>8. QED
  BY <1>1, <1>6, <1>7

(* Partial decryptions of one ciphertext by everyone open its message, for *)
(* every ring, every number of parties and every order of the shares: in   *)
(* CKKS always, in BFV when the ciphertext was in coefficients.            *)
(* (partial_decrypt_stage_1 and 2)                                         *)
THEOREM DecryptionOpens == Spec => []JointDecryptionOpens
<1>1. Init => DecryptInv
  <2>1. SUFFICES ASSUME Init PROVE DecryptInv
    OBVIOUS
  <2>2. \A p \in Parties : ~Partial(p)
    BY <2>1 DEF Init, Nothing, Partial
  <2>3. ~Assembled(result)
    BY <2>1 DEF Init, Nothing, Assembled
  <2>4. QED
    BY <2>2, <2>3 DEF DecryptInv
<1>2. Shape /\ DecryptInv /\ [Next]_vars => DecryptInv'
  <2>1. SUFFICES ASSUME Shape, DecryptInv, [Next]_vars PROVE DecryptInv'
    OBVIOUS
  <2>2. CASE Next
    BY <2>1, <2>2, DecryptStep
  <2>3. CASE UNCHANGED vars
    <3>1. \A list : MessageBfv(list)' = MessageBfv(list) /\ MessageCkks(list)' = MessageCkks(list)
      BY <2>3 DEF vars, MessageBfv, MessageCkks, Origins, FusedSum, Picked
    <3>2. \A p : (Partial(p)' <=> Partial(p))
                   /\ (IsPartial(scheme, first[p], p)' <=> IsPartial(scheme, first[p], p))
      BY <2>3 DEF vars, Partial, IsPartial
    <3>3. Assembled(result)' <=> Assembled(result)
      BY <2>3 DEF vars, Assembled
    <3>4. QED
      BY <2>1, <2>3, <3>1, <3>2, <3>3 DEF vars, DecryptInv
  <2>4. QED
    BY <2>1, <2>2, <2>3
<1>3. DecryptInv => JointDecryptionOpens
  BY DecryptOpens DEF JointDecryptionOpens
<1>4. QED
  BY <1>1, <1>2, <1>3, ShapeAlways, PTL DEF Spec

-----------------------------------------------------------------------------
(* Distributed bootstrapping. *)

IsLinear(T) ==
  /\ T \in [Elements -> Elements] /\ T[Zero] = Zero
  /\ \A a, b \in Elements : T[Plus(a, b)] = Plus(T[a], T[b])

\* A linear map keeps differences.
LEMMA LinearMinus ==
  ASSUME NEW T, IsLinear(T), NEW a \in Elements, NEW b \in Elements
  PROVE  T[Minus(a, b)] = Minus(T[a], T[b])
<1>1. T[a] \in Elements /\ T[b] \in Elements /\ Negated(b) \in Elements /\ T[Negated(b)] \in Elements
  BY NegatedIs DEF IsLinear
<1>2. T[Minus(a, b)] = Plus(T[a], T[Negated(b)])
  BY <1>1, MinusIsPlus DEF IsLinear
<1>3. Plus(T[Negated(b)], T[b]) = Zero
  <2>1. Plus(Negated(b), b) = Zero
    BY NegatedCancels
  <2>2. T[Plus(Negated(b), b)] = Plus(T[Negated(b)], T[b])
    BY <1>1 DEF IsLinear
  <2>3. QED
    BY <2>1, <2>2 DEF IsLinear
<1> DEFINE x == T[b]
           y == T[Negated(b)]
<1>4. x \in Elements /\ y \in Elements /\ Plus(y, x) = Zero /\ Negated(x) \in Elements
  BY <1>1, <1>3, NegatedIs
<1> HIDE DEF x, y
<1>5. y = Negated(x)
  <2>1. Plus(Plus(y, x), Negated(x)) = Plus(y, Plus(x, Negated(x)))
    BY <1>4, PlusAssociates
  <2>2. Plus(x, Negated(x)) = Zero /\ Plus(y, Zero) = y /\ Plus(Zero, Negated(x)) = Negated(x)
    BY <1>4, NegatedCancels, PlusZero, ZeroLaws
  <2>3. QED
    BY <1>4, <2>1, <2>2
<1>6. QED
  BY <1>1, <1>2, <1>5, MinusIsPlus DEF x, y

\* Sums over everyone.
LEMMA SumOfAll ==
  ASSUME NEW T, IsLinear(T), NEW f \in [Parties -> Elements]
  PROVE  AddAll([p \in Parties |-> T[f[p]]]) = T[AddAll(f)] /\ AddAll(f) \in Elements
  BY PartiesAssumption, SumMapped, SumIsElement DEF IsLinear

\* A linear map of everyone's products is that of the product with the joint secret.
LEMMA ProductsOfAll ==
  ASSUME NEW n \in Elements, NEW T, IsLinear(T)
  PROVE  AddAll([p \in Parties |-> T[Times(n, Secret[p])]]) = T[Times(n, Joint)]
<1> DEFINE w == [p \in Parties |-> Times(n, Secret[p])]
<1>1. w \in [Parties -> Elements]
  BY PartiesAssumption, TimesIs
<1>2. AddAll(w) = Times(n, Joint)
  BY PartiesAssumption, SumTimes DEF Joint
<1>3. [p \in Parties |-> T[w[p]]] = [p \in Parties |-> T[Times(n, Secret[p])]]
  OBVIOUS
<1> HIDE DEF w
<1>4. AddAll([p \in Parties |-> T[w[p]]]) = T[AddAll(w)]
  BY <1>1, SumOfAll
<1>5. QED
  BY <1>2, <1>3, <1>4

\* The maps the ceremony is made of.
LEMMA Maps ==
  /\ IsLinear([x \in Elements |-> x])
  /\ IsLinear([x \in Elements |-> Intt(x)])
  /\ IsLinear([x \in Elements |-> Negated(x)])
  /\ IsLinear([x \in Elements |-> Intt(Negated(x))])
  /\ \A s \in Int : IsLinear([x \in Elements |-> EncodedAt(x, s)])
  /\ IsLinear([x \in Elements |-> RealPart(x)])
<1>1. \A a, b \in Elements : Plus(a, b) \in Elements /\ Negated(a) \in Elements
  BY PlusIs, NegatedIs
<1>2. \A a, b \in Elements : Negated(Plus(a, b)) = Plus(Negated(a), Negated(b))
  BY NegatedDistributes
<1>3. \A s \in Int : \A a, b \in Elements :
        /\ Scaled(s, a) \in Elements /\ Scaled(s, Zero) = Zero
        /\ Scaled(s, Plus(a, b)) = Plus(Scaled(s, a), Scaled(s, b))
  <2>1. SUFFICES ASSUME NEW s \in Int, NEW a \in Elements, NEW b \in Elements
                 PROVE  /\ Scaled(s, a) \in Elements /\ Scaled(s, Zero) = Zero
                        /\ Scaled(s, Plus(a, b)) = Plus(Scaled(s, a), Scaled(s, b))
    OBVIOUS
  <2> DEFINE C == Constant(s)
  <2>2. /\ C \in Elements /\ Scaled(s, a) = Times(C, a) /\ Scaled(s, b) = Times(C, b)
        /\ Scaled(s, Zero) = Times(C, Zero) /\ Scaled(s, Plus(a, b)) = Times(C, Plus(a, b))
    BY <1>1, ScaledIsTimes, ZeroIs
  <2> HIDE DEF C
  <2>3. Times(C, Plus(a, b)) = Plus(Times(C, a), Times(C, b))
    <3>1. Plus(a, b) \in Elements
      BY <1>1
    <3>2. Times(C, Plus(a, b)) = Times(Plus(a, b), C)
      BY <2>2, <3>1, TimesCommutes
    <3>3. Times(Plus(a, b), C) = Plus(Times(a, C), Times(b, C))
      BY <2>2, TimesDistributes
    <3>4. Times(a, C) = Times(C, a) /\ Times(b, C) = Times(C, b)
      BY <2>2, TimesCommutes
    <3>5. QED
      BY <3>2, <3>3, <3>4
  <2>4. QED
    BY <2>2, <2>3, TimesIs, ZeroLaws
<1>4. IsLinear([x \in Elements |-> x])
  BY <1>1, ZeroIs DEF IsLinear
<1>5. IsLinear([x \in Elements |-> Intt(x)])
  BY <1>1, ZeroIs, Transforms DEF IsLinear
<1>6. IsLinear([x \in Elements |-> Negated(x)])
  BY <1>1, <1>2, ZeroIs, ZeroLaws DEF IsLinear
<1>7. IsLinear([x \in Elements |-> Intt(Negated(x))])
  <2> DEFINE T == [x \in Elements |-> Intt(Negated(x))]
  <2>1. \A x \in Elements : T[x] = Intt(Negated(x)) /\ T[x] \in Elements
    BY <1>1, Transforms
  <2>2. T[Zero] = Zero
    BY <2>1, ZeroIs, ZeroLaws, Transforms
  <2>3. \A a, b \in Elements : T[Plus(a, b)] = Plus(T[a], T[b])
    <3>1. SUFFICES ASSUME NEW a \in Elements, NEW b \in Elements
                   PROVE  T[Plus(a, b)] = Plus(T[a], T[b])
      OBVIOUS
    <3>2. T[Plus(a, b)] = Intt(Plus(Negated(a), Negated(b)))
      BY <1>1, <1>2, <2>1
    <3>3. Intt(Plus(Negated(a), Negated(b))) = Plus(Intt(Negated(a)), Intt(Negated(b)))
      BY <1>1, Transforms
    <3> HIDE DEF T
    <3>4. QED
      BY <2>1, <3>2, <3>3
  <2>4. T \in [Elements -> Elements]
    BY <2>1
  <2>5. QED
    BY <2>2, <2>3, <2>4 DEF IsLinear
<1>8. ASSUME NEW s \in Int PROVE IsLinear([x \in Elements |-> EncodedAt(x, s)])
  <2> DEFINE T == [x \in Elements |-> EncodedAt(x, s)]
  <2>1. \A x \in Elements : T[x] = Ntt(Scaled(s, x)) /\ T[x] \in Elements
    BY <1>3, <1>8, Transforms DEF EncodedAt
  <2>2. T[Zero] = Zero
    BY <1>3, <1>8, <2>1, ZeroIs, Transforms
  <2>3. \A a, b \in Elements : T[Plus(a, b)] = Plus(T[a], T[b])
    <3>1. SUFFICES ASSUME NEW a \in Elements, NEW b \in Elements
                   PROVE  T[Plus(a, b)] = Plus(T[a], T[b])
      OBVIOUS
    <3>2. T[Plus(a, b)] = Ntt(Plus(Scaled(s, a), Scaled(s, b)))
      <4>1. T[Plus(a, b)] = Ntt(Scaled(s, Plus(a, b)))
        BY <1>1, <2>1
      <4>2. Scaled(s, Plus(a, b)) = Plus(Scaled(s, a), Scaled(s, b))
        BY <1>3, <1>8
      <4>3. QED
        BY <4>1, <4>2
    <3>3. Ntt(Plus(Scaled(s, a), Scaled(s, b))) = Plus(Ntt(Scaled(s, a)), Ntt(Scaled(s, b)))
      BY <1>3, <1>8, Transforms
    <3> HIDE DEF T
    <3>4. QED
      BY <2>1, <3>2, <3>3
  <2>4. T \in [Elements -> Elements]
    BY <2>1
  <2>5. QED
    BY <2>2, <2>3, <2>4 DEF IsLinear
<1>9. IsLinear([x \in Elements |-> RealPart(x)])
  <2> DEFINE v == InverseOf(2)
             H(x) == Intt(Permuted(GaloisZero, Ntt(x)))
  <2>1. v \in Int /\ GaloisZero \in Int
    <3>1. 2 \in 1 .. Modulus - 1
      BY ModuliAre
    <3>2. v \in 1 .. Modulus - 1
      BY <3>1, InverseIs
    <3>3. QED
      BY <3>2, GaloisAssumption, RingAssumption
  <2>2. \A a, b \in Elements : H(a) \in Elements /\ H(Plus(a, b)) = Plus(H(a), H(b))
    BY <1>1, <2>1, Transforms, PermutedIs, PermutedDistributes
  <2>3. H(Zero) = Zero
    BY <2>1, Transforms, PermutedZero
  <2>4. \A x : RealPart(x) = Scaled(v, Plus(x, H(x)))
    BY DEF RealPart
  <2> HIDE DEF v, H
  <2>5. \A a \in Elements : RealPart(a) \in Elements
    BY <1>1, <1>3, <2>1, <2>2, <2>4
  <2>6. RealPart(Zero) = Zero
    BY <1>3, <2>1, <2>3, <2>4, ZeroIs, PlusZero
  <2>7. \A a, b \in Elements : RealPart(Plus(a, b)) = Plus(RealPart(a), RealPart(b))
    <3>1. SUFFICES ASSUME NEW a \in Elements, NEW b \in Elements
                   PROVE  RealPart(Plus(a, b)) = Plus(RealPart(a), RealPart(b))
      OBVIOUS
    <3>2. Plus(Plus(a, b), Plus(H(a), H(b))) = Plus(Plus(a, H(a)), Plus(b, H(b)))
      BY <2>2, PlusExchange
    <3>3. Plus(a, H(a)) \in Elements /\ Plus(b, H(b)) \in Elements
      BY <1>1, <2>2
    <3>4. Scaled(v, Plus(Plus(a, H(a)), Plus(b, H(b))))
             = Plus(Scaled(v, Plus(a, H(a))), Scaled(v, Plus(b, H(b))))
      BY <1>3, <2>1, <3>3
    <3>5. QED
      BY <2>2, <2>4, <3>2, <3>4
  <2>8. QED
    BY <1>1, <2>5, <2>6, <2>7, ZeroIs DEF IsLinear
<1>10. QED
  BY <1>4, <1>5, <1>6, <1>7, <1>8, <1>9

\* Masks that everyone lifts: their sum is near the sum of the masks, and the
\* errors are as many as the parties.
LEMMA NearSum ==
  ASSUME NEW m \in [Parties -> Messages]
  PROVE  \E K \in [Index -> Int] :
            Near(AddAll([p \in Parties |-> Lifted(m[p])]), K, Cardinality(Parties))
<1> DEFINE f == [p \in Parties |-> Lifted(m[p])]
<1>1. f \in [Parties -> Elements] /\ IsFiniteSet(Parties)
  BY PartiesAssumption, LiftedIs
<1>2. \A p \in Parties : m[p] \in [Index -> Int] /\ Near(f[p], m[p], 1)
  <2>1. \A p \in Parties : m[p] \in Messages
    OBVIOUS
  <2>2. QED
    BY <2>1, LiftedIs, ModuliAre DEF Messages
<1> HIDE DEF f
<1>3. PICK s : Sums(f, Parties, s) /\ s[Parties] = AddAll(f)
  BY <1>1, SumsExist
<1> DEFINE F == {S \in SUBSET Parties : \E K \in [Index -> Int] : Near(s[S], K, Cardinality(S))}
<1>4. {} \in F
  <2> DEFINE K == [i \in Index |-> 0]
  <2>1. s[{}] = Zero /\ Cardinality({}) = 0
    BY <1>3, FS_EmptySet DEF Sums
  <2>2. K \in [Index -> Int]
    OBVIOUS
  <2>3. Near(Zero, K, 0)
    <3>1. ASSUME NEW i \in Index PROVE NearAt(Zero[i], K[i], 0)
      <4>1. Zero[i] = 0 /\ K[i] = 0
        BY ZeroIs
      <4>2. NearAt(0, 0, 0)
        <5>1. PlainModulus * 0 = (0 * Modulus + 0) + 0 * (PlainModulus * Modulus)
          BY ModuliAre
        <5>2. 0 <= 2 * 0 /\ 2 * 0 <= 0 * (PlainModulus + 1) /\ -(0 * (PlainModulus + 1)) <= 2 * 0
          BY ModuliAre
        <5>3. QED
          BY <5>1, <5>2 DEF NearAt
      <4>3. QED
        BY <4>1, <4>2
    <3>2. QED
      BY <3>1 DEF Near
  <2> HIDE DEF K
  <2>4. QED
    BY <2>1, <2>2, <2>3
<1>5. ASSUME NEW S \in SUBSET Parties, S # {}, \A x \in S : S \ {x} \in F
      PROVE  S \in F
  <2>1. PICK x \in S : TRUE
    BY <1>5
  <2> DEFINE R == S \ {x}
  <2>2. PICK L \in [Index -> Int] : Near(s[R], L, Cardinality(R))
    BY <1>5
  <2>3. IsFiniteSet(S) /\ IsFiniteSet(R) /\ R \in SUBSET Parties
    BY <1>1, FS_Subset
  <2>4. Cardinality(S) = 1 + Cardinality(R) /\ Cardinality(R) \in Int
    BY <2>3, FS_RemoveElement, FS_CardinalityType
  <2>5. s[S] = Plus(f[x], s[R]) /\ f[x] \in Elements /\ s[R] \in Elements
    BY <1>1, <1>3, <2>3 DEF Sums
  <2> HIDE DEF R
  <2> DEFINE k == m[x]
             K == [i \in Index |-> k[i] + L[i]]
  <2>6. k \in [Index -> Int] /\ Near(f[x], k, 1)
    BY <1>2
  <2>7. K \in [Index -> Int]
    BY <2>6
  <2>8. Near(Plus(f[x], s[R]), K, 1 + Cardinality(R))
    <3> HIDE DEF k
    <3>1. QED
      BY <2>2, <2>4, <2>5, <2>6, NearPlus
  <2> HIDE DEF K
  <2>9. QED
    BY <2>4, <2>5, <2>7, <2>8
<1> HIDE DEF F
<1>6. \A S \in SUBSET Parties : S \in F
  BY <1>1, <1>4, <1>5, SetInduction
<1>7. QED
  BY <1>3, <1>6 DEF F, f

\* What a party's share of a bootstrapping is, in a scheme.
IsMasked(s, share, p) ==
  \/ s = "BFV" /\ \E c \in Ciphertexts["BFV"], seed \in Seeds, mask \in Masks["BFV"] :
                     share = MaskedBfv(p, c, seed, mask)
  \/ s = "CKKS" /\ \E c \in Ciphertexts["CKKS"], seed \in Seeds, mask \in Masks["CKKS"] :
                      share = MaskedCkks(p, c, seed, mask)

IsRefreshed(s, object, list) ==
  \/ s = "BFV" /\ \E c \in Ciphertexts["BFV"], seed \in Seeds :
                     object = RefreshedBfv(list, c, seed)
  \/ s = "CKKS" /\ \E c \in Ciphertexts["CKKS"], seed \in Seeds :
                      object = RefreshedCkks(list, c, seed)

BootstrapInv ==
  ceremony = "bootstrap" =>
    /\ \A p \in Parties : first[p].generated => IsMasked(scheme, first[p], p)
    /\ Assembled(result) =>
         \E list \in Lists :
           /\ Len(list) # 0 /\ \A k \in 1 .. Len(list) : first[list[k]].generated
           /\ IsRefreshed(scheme, result, list)

\* Only the shares and the ciphertext decide what is refreshed.
LEMMA RefreshedKept ==
  ASSUME UNCHANGED <<scheme, first>>
  PROVE  /\ \A list, c, seed : /\ RefreshedBfv(list, c, seed)' = RefreshedBfv(list, c, seed)
                               /\ RefreshedCkks(list, c, seed)' = RefreshedCkks(list, c, seed)
         /\ \A list : IsRefreshed(scheme, result, list)' <=> IsRefreshed(scheme, result', list)
<1>1. \A list, c, seed : /\ RefreshedBfv(list, c, seed)' = RefreshedBfv(list, c, seed)
                         /\ RefreshedCkks(list, c, seed)' = RefreshedCkks(list, c, seed)
  BY DEF RefreshedBfv, RefreshedCkks, Refreshed, OpenedBfv, OpenedCkks, Picked, Origins
<1>2. QED
  BY <1>1 DEF IsRefreshed

\* Every step keeps what is known of a distributed bootstrapping.
LEMMA BootstrapStep ==
  ASSUME Shape, BootstrapInv, Next
  PROVE  BootstrapInv'
<1>1. SUFFICES ASSUME ceremony = "bootstrap" PROVE BootstrapInv'
  BY CallsOf DEF BootstrapInv
<1>2. /\ ~Assembled(result) /\ UNCHANGED <<scheme, ceremony>>
      /\ \/ \E p \in Parties : ParticipantBfv(p) \/ ParticipantCkks(p)
         \/ \E list \in Lists : CoordinatorBfv(list) \/ CoordinatorCkks(list)
  BY <1>1, CallsOf
<1>3. CASE Throws \/ Faults
  <2>1. first' = first /\ result' = result
    BY <1>3 DEF Throws, Faults
  <2>2. ~Assembled(result)'
    BY <1>2, <2>1 DEF Assembled
  <2>3. \A p : IsMasked(scheme, first[p], p)' <=> IsMasked(scheme, first[p], p)
    BY <1>2, <2>1 DEF IsMasked, MaskedBfv, MaskedCkks
  <2>4. QED
    BY <1>1, <2>1, <2>2, <2>3 DEF BootstrapInv
<1>4. CASE ~Throws /\ \E p \in Parties : ParticipantBfv(p) \/ ParticipantCkks(p)
  <2>1. PICK p \in Parties : \E share : IsMasked(scheme, share, p) /\ Make(p, share)
    BY <1>4, PartyCalls DEF IsMasked
  <2>2. PICK share : IsMasked(scheme, share, p) /\ Make(p, share)
    BY <2>1
  <2>3. first' = [first EXCEPT ![p] = share] /\ result' = result
    BY <2>2 DEF Make
  <2>4. first'[p] = share /\ \A o \in Parties \ {p} : first'[o] = first[o]
    BY <2>3 DEF Shape
  <2>5. ASSUME NEW o \in Parties, first'[o].generated
        PROVE  IsMasked(scheme, first'[o], o)
    <3>1. CASE o = p
      BY <2>2, <2>4, <3>1
    <3>2. CASE o # p
      BY <1>1, <2>4, <2>5, <3>2 DEF BootstrapInv
    <3>3. QED
      BY <3>1, <3>2
  <2>6. ~Assembled(result)'
    BY <1>2, <2>3 DEF Assembled
  <2>7. \A o : IsMasked(scheme, first[o], o)' <=> IsMasked(scheme, first'[o], o)
    BY <1>2 DEF IsMasked, MaskedBfv, MaskedCkks
  <2>8. QED
    BY <2>5, <2>6, <2>7 DEF BootstrapInv
<1>5. CASE ~Throws /\ ~Faults /\ \E list \in Lists : CoordinatorBfv(list) \/ CoordinatorCkks(list)
  <2>1. PICK list \in Lists :
          /\ Len(list) # 0 /\ \A k \in 1 .. Len(list) : first[list[k]].generated
          /\ \E object : IsRefreshed(scheme, object, list) /\ Assemble(object)
    <3>1. PICK list \in Lists : CoordinatorBfv(list) \/ CoordinatorCkks(list)
      BY <1>5
    <3>2. CASE CoordinatorBfv(list)
      <4>1. PICK c \in Ciphertexts["BFV"], seed \in Seeds :
              /\ scheme = "BFV" /\ Len(list) # 0
              /\ \A k \in 1 .. Len(list) : first[list[k]].generated
              /\ Assemble(RefreshedBfv(list, c, seed))
        BY <1>5, <3>2, CollectorCalls
      <4>2. QED
        BY <4>1 DEF IsRefreshed
    <3>3. CASE CoordinatorCkks(list)
      <4>1. PICK c \in Ciphertexts["CKKS"], seed \in Seeds :
              /\ scheme = "CKKS" /\ Len(list) # 0
              /\ \A k \in 1 .. Len(list) : first[list[k]].generated
              /\ Assemble(RefreshedCkks(list, c, seed))
        BY <1>5, <3>3, CollectorCalls
      <4>2. QED
        BY <4>1 DEF IsRefreshed
    <3>4. QED
      BY <3>1, <3>2, <3>3
  <2>2. first' = first /\ IsRefreshed(scheme, result', list)
    BY <2>1 DEF Assemble
  <2>3. IsRefreshed(scheme, result, list)'
    BY <1>2, <2>2, RefreshedKept
  <2>4. \A p \in Parties : first[p].generated => IsMasked(scheme, first[p], p)'
    BY <1>1, <1>2, <2>2 DEF BootstrapInv, IsMasked, MaskedBfv, MaskedCkks
  <2>5. QED
    BY <2>1, <2>2, <2>3, <2>4 DEF BootstrapInv
<1>6. QED
  BY <1>2, <1>3, <1>4, <1>5

\* A vector of one seed has it in every share.
LEMMA OneSeed ==
  ASSUME NEW n \in Nat, NEW s \in [1 .. n -> Seeds], NEW seed,
         Cardinality({s[k] : k \in 1 .. n} \union {seed}) = 1
  PROVE  \A k \in 1 .. n : s[k] = seed
<1> DEFINE R == {s[k] : k \in 1 .. n}
           T == R \union {seed}
<1>1. IsFiniteSet(R)
  <2>1. s \in Surjection(1 .. n, R) /\ IsFiniteSet(1 .. n)
    BY FS_Interval DEF Surjection
  <2> HIDE DEF R
  <2>2. QED
    BY <2>1, FS_Surjection
<1>2. IsFiniteSet(T)
  <2> HIDE DEF R
  <2>1. QED
    BY <1>1, FS_AddElement
<1>3. PICK x : T = {x}
  <2> HIDE DEF T
  <2>1. Cardinality(T) = 1
    BY DEF T
  <2>2. QED
    BY <1>2, <2>1, FS_Singleton
<1>4. \A k \in 1 .. n : s[k] \in T
  OBVIOUS
<1>5. seed \in T
  OBVIOUS
<1>6. QED
  BY <1>3, <1>4, <1>5

\* What a share says of itself.
LEMMA MaskedHas ==
  \A p, c, seed, mask :
    /\ MaskedBfv(p, c, seed, mask).of = c /\ MaskedBfv(p, c, seed, mask).seed = seed
    /\ MaskedCkks(p, c, seed, mask).of = c /\ MaskedCkks(p, c, seed, mask).seed = seed
  BY DEF MaskedBfv, MaskedCkks, BootstrapShare

\* The parts of a bootstrapping share, by the scheme of its ciphertext.
LEMMA MaskedParts ==
  \A p, c, seed, mask :
    /\ MaskedBfv(p, c, seed, mask).parts
         = <<Minus(Intt(Product(c, p)), Lifted(mask)), Plus(Intt(Fresh(p, seed)), Lifted(mask))>>
    /\ MaskedCkks(p, c, seed, mask).parts
         = <<Minus(Product(c, p), EncodedAt(mask, ManagerScale)),
             Plus(Fresh(p, seed), EncodedAt(mask, ManagerScale))>>
  BY DEF MaskedBfv, MaskedCkks, BootstrapShare

\* Everyone gave a share of c made under the seed of the coordinator.
OneCiphertext(list, c, seed) ==
  /\ list \in Lists /\ Len(list) # 0 /\ Everyone(Counted(list))
  /\ \A p \in Parties : first[p].generated => IsMasked(scheme, first[p], p)
  /\ \A k \in 1 .. Len(list) : first[list[k]].generated
  /\ Origins(list) = {c}
  /\ Cardinality({first[list[k]].seed : k \in 1 .. Len(list)} \union {seed}) = 1

\* Then everyone masked that ciphertext under that seed.
LEMMA EveryoneMasked ==
  ASSUME NEW list, NEW c, NEW seed, OneCiphertext(list, c, seed)
  PROVE  /\ scheme = "BFV" =>
              \A p \in Parties : \E mask \in Masks["BFV"] : first[p] = MaskedBfv(p, c, seed, mask)
         /\ scheme = "CKKS" =>
              \A p \in Parties : \E mask \in Masks["CKKS"] : first[p] = MaskedCkks(p, c, seed, mask)
<1> DEFINE n == Len(list)
           s == [k \in 1 .. n |-> first[list[k]].seed]
<1>0. /\ list \in Lists /\ Len(list) # 0 /\ Everyone(Counted(list))
      /\ \A p \in Parties : first[p].generated => IsMasked(scheme, first[p], p)
      /\ \A k \in 1 .. n : first[list[k]].generated
      /\ Origins(list) = {c}
      /\ Cardinality({first[list[k]].seed : k \in 1 .. n} \union {seed}) = 1
  BY DEF OneCiphertext
<1>1. n \in Nat \ {0} /\ list \in [1 .. n -> Parties]
  BY <1>0, ListIs, PartiesAssumption
<1>2. ASSUME NEW k \in 1 .. n
      PROVE  /\ IsMasked(scheme, first[list[k]], list[k])
             /\ first[list[k]].seed \in Seeds
             /\ first[list[k]].of = c
  <2>1. IsMasked(scheme, first[list[k]], list[k])
    BY <1>0, <1>1
  <2>2. \/ \E d, e, mask : e \in Seeds /\ first[list[k]] = MaskedBfv(list[k], d, e, mask)
        \/ \E d, e, mask : e \in Seeds /\ first[list[k]] = MaskedCkks(list[k], d, e, mask)
    BY <2>1 DEF IsMasked
  <2>3. first[list[k]].seed \in Seeds
    BY <2>2, MaskedHas
  <2>4. first[list[k]].of \in Origins(list)
    BY DEF Origins
  <2>5. QED
    BY <1>0, <2>1, <2>3, <2>4
<1>3. s \in [1 .. n -> Seeds] /\ {s[k] : k \in 1 .. n} = {first[list[k]].seed : k \in 1 .. Len(list)}
  BY <1>2
<1>4. \A k \in 1 .. n : first[list[k]].seed = seed
  <2>1. \A k \in 1 .. n : s[k] = first[list[k]].seed
    OBVIOUS
  <2>2. Cardinality({s[k] : k \in 1 .. n} \union {seed}) = 1
    BY <1>0, <1>3
  <2> HIDE DEF s
  <2>3. \A k \in 1 .. n : s[k] = seed
    BY <1>1, <1>3, <2>2, OneSeed
  <2>4. QED
    BY <2>1, <2>3
<1>5. ASSUME NEW p \in Parties
      PROVE  IsMasked(scheme, first[p], p) /\ first[p].of = c /\ first[p].seed = seed
  <2>1. Counted(list)[p] > 0
    BY <1>0 DEF Everyone
  <2>2. PICK k \in 1 .. n : list[k] = p
    BY <1>0, <2>1, GiverIsIn
  <2>3. QED
    BY <1>2, <1>4, <2>2
<1>6. CASE scheme = "BFV"
  <2>1. SUFFICES ASSUME NEW p \in Parties
                 PROVE  \E mask \in Masks["BFV"] : first[p] = MaskedBfv(p, c, seed, mask)
    BY <1>6
  <2>2. PICK d \in Ciphertexts["BFV"], e \in Seeds, mask \in Masks["BFV"] :
          first[p] = MaskedBfv(p, d, e, mask)
    BY <1>5, <1>6 DEF IsMasked
  <2>3. first[p].of = d /\ first[p].seed = e
    BY <2>2, MaskedHas
  <2>4. QED
    BY <1>5, <2>2, <2>3
<1>7. CASE scheme = "CKKS"
  <2>1. SUFFICES ASSUME NEW p \in Parties
                 PROVE  \E mask \in Masks["CKKS"] : first[p] = MaskedCkks(p, c, seed, mask)
    BY <1>7
  <2>2. PICK d \in Ciphertexts["CKKS"], e \in Seeds, mask \in Masks["CKKS"] :
          first[p] = MaskedCkks(p, d, e, mask)
    BY <1>5, <1>7 DEF IsMasked
  <2>3. first[p].of = d /\ first[p].seed = e
    BY <2>2, MaskedHas
  <2>4. QED
    BY <1>5, <2>2, <2>3
<1>8. QED
  BY <1>6, <1>7

\* What a collector adds up of parts that everyone gave.
LEMMA PickedAll ==
  ASSUME NEW list \in Lists, Everyone(Counted(list)), NEW w \in [Parties -> Elements], NEW j,
         \A p \in Parties : first[p].parts[j] = w[p]
  PROVE  AddAll(Picked(first, list, j)) = AddAll(w)
<1>1. list \in [1 .. Len(list) -> Parties]
  BY ListIs
<1>2. Picked(first, list, j) = [k \in 1 .. Len(list) |-> w[list[k]]]
  BY <1>1 DEF Picked
<1>3. QED
  BY <1>2, SumOfVector

\* Sums that the coordinator and the decryption regroup.
LEMMA Regroup ==
  ASSUME NEW x \in Elements, NEW y \in Elements, NEW a \in Elements, NEW b \in Elements
  PROVE  /\ Plus(Minus(x, y), Minus(y, a)) = Minus(x, a)
         /\ Plus(Plus(Plus(Negated(y), a), b), y) = Plus(a, b)
<1>1. Negated(y) \in Elements /\ Negated(a) \in Elements
  BY NegatedIs
<1>2. Plus(Minus(x, y), Minus(y, a)) = Minus(x, a)
  <2>1. Plus(Plus(x, Negated(y)), Plus(y, Negated(a)))
           = Plus(x, Plus(Negated(y), Plus(y, Negated(a))))
    BY <1>1, PlusIs, PlusAssociates
  <2>2. Plus(Negated(y), Plus(y, Negated(a))) = Plus(Plus(Negated(y), y), Negated(a))
    BY <1>1, PlusAssociates
  <2>3. Plus(Plus(Negated(y), y), Negated(a)) = Negated(a)
    BY <1>1, NegatedCancels, ZeroLaws
  <2>4. QED
    BY <2>1, <2>2, <2>3, MinusIsPlus
<1>3. Plus(Plus(Plus(Negated(y), a), b), y) = Plus(a, b)
  <2> DEFINE n == Negated(y)
             d == Plus(a, b)
  <2>1. n \in Elements /\ d \in Elements /\ Plus(n, y) = Zero
    BY <1>1, PlusIs, NegatedCancels
  <2>2. Plus(Plus(n, a), b) = Plus(n, d)
    BY <1>1, PlusAssociates
  <2> HIDE DEF n, d
  <2>3. Plus(n, d) = Plus(d, n)
    BY <2>1, PlusCommutes
  <2>4. Plus(Plus(d, n), y) = Plus(d, Plus(n, y))
    BY <2>1, PlusAssociates
  <2>5. Plus(d, Zero) = d
    BY <2>1, PlusZero
  <2>6. QED
    BY <2>1, <2>2, <2>3, <2>4, <2>5 DEF n, d
<1>4. QED
  BY <1>2, <1>3

\* BFV: masks taken out of a lifted message and put back open it again, with
\* the rounding errors of everyone's masks.
LEMMA MasksCancel ==
  ASSUME NEW m \in Messages, NEW A \in Elements, NEW K \in [Index -> Int],
         Near(A, K, Cardinality(Parties))
  PROVE  LET opened == Rounded(Minus(Lifted(m), A))
         IN  /\ opened \in Messages
             /\ Rounded(Plus(A, Lifted(opened))) = m
<1> DEFINE n == Cardinality(Parties)
           t == PlainModulus
           N == [i \in Index |-> 0 - K[i]]
           D == [i \in Index |-> m[i] + N[i]]
           opened == [i \in Index |-> D[i] % t]
           E == [i \in Index |-> K[i] + opened[i]]
<1>1. /\ n \in Int /\ t \in Nat \ {0} /\ (1 + n) * (t + 1) < Modulus /\ (n + 1) * (t + 1) < Modulus
      /\ 1 + n \in Int /\ n + 1 \in Int
  <2>1. n \in Nat /\ t \in Nat \ {0} /\ (n + 1) * (t + 1) < Modulus
    BY ModuliAre, MessagesAssumption
  <2> HIDE DEF n, t
  <2>2. 1 + n = n + 1
    BY <2>1
  <2>3. QED
    BY <2>1, <2>2
<1>2. m \in [Index -> Int] /\ \A i \in Index : m[i] \in 0 .. t - 1
  BY <1>1 DEF Messages
<1>3. N \in [Index -> Int] /\ D \in [Index -> Int]
  <2>1. N \in [Index -> Int]
    OBVIOUS
  <2> HIDE DEF N
  <2>2. QED
    BY <1>2, <2>1
<1>4. opened \in Messages /\ opened \in [Index -> Int]
  <2>1. \A i \in Index : D[i] \in Int
    BY <1>3
  <2> HIDE DEF D, t
  <2>2. \A x \in Int : x % t \in 0 .. t - 1 /\ x % t \in Int
    <3>1. t \in Nat \ {0}
      BY <1>1
    <3>2. SUFFICES ASSUME NEW x \in Int PROVE x % t \in 0 .. t - 1 /\ x % t \in Int
      OBVIOUS
    <3>3. x % t \in 0 .. t - 1
      BY <3>1, RemainderIs
    <3>4. QED
      BY <3>3
  <2>3. \A i \in Index : D[i] % t \in 0 .. t - 1 /\ D[i] % t \in Int
    BY <2>1, <2>2
  <2>4. opened \in [Index -> 0 .. t - 1] /\ opened \in [Index -> Int]
    BY <2>3
  <2>5. [Index -> 0 .. t - 1] = Messages
    BY DEF Messages, t
  <2>6. QED
    BY <2>4, <2>5
<1>5. Rounded(Minus(Lifted(m), A)) = opened
  <2>1. Lifted(m) \in Elements /\ Near(Lifted(m), m, 1) /\ Negated(A) \in Elements
    BY LiftedIs, NegatedIs
  <2>2. Near(Negated(A), N, n)
    BY <1>1, NearNegated
  <2> HIDE DEF n, N
  <2>3. Near(Plus(Lifted(m), Negated(A)), D, 1 + n)
    BY <1>1, <1>2, <1>3, <2>1, <2>2, NearPlus
  <2>4. Minus(Lifted(m), A) = Plus(Lifted(m), Negated(A)) /\ Minus(Lifted(m), A) \in Elements
    BY <2>1, MinusIsPlus, MinusIs
  <2> DEFINE X == Minus(Lifted(m), A)
             w == 1 + n
  <2>5. X \in Elements /\ Near(X, D, w) /\ w \in Int /\ w * (PlainModulus + 1) < Modulus
    BY <1>1, <2>3, <2>4
  <2> HIDE DEF X, D, w
  <2>6. Rounded(X) = [i \in Index |-> D[i] % PlainModulus]
    BY <1>3, <2>5, RoundedIs
  <2>7. QED
    BY <2>6 DEF X
<1>6. Rounded(Plus(A, Lifted(opened))) = [i \in Index |-> E[i] % t]
  <2> HIDE DEF opened
  <2>1. Lifted(opened) \in Elements /\ Near(Lifted(opened), opened, 1)
    BY <1>4, LiftedIs
  <2> DEFINE w == n + 1
             X == Plus(A, Lifted(opened))
  <2>2. E \in [Index -> Int]
    BY <1>4
  <2>3. X \in Elements /\ w \in Int /\ w * (PlainModulus + 1) < Modulus
    BY <1>1, <2>1, PlusIs
  <2>4. Near(X, E, w)
    <3>1. Near(A, K, n)
      OBVIOUS
    <3> HIDE DEF n
    <3>2. QED
      BY <1>1, <1>4, <2>1, <3>1, NearPlus
  <2> HIDE DEF X, E, w
  <2>5. Rounded(X) = [i \in Index |-> E[i] % PlainModulus]
    BY <2>2, <2>3, <2>4, RoundedIs
  <2>6. QED
    BY <2>5 DEF X
<1>7. ASSUME NEW i \in Index PROVE E[i] % t = m[i]
  <2> DEFINE k == K[i]
             x == m[i]
  <2>1. k \in Int /\ x \in 0 .. t - 1 /\ x \in Int
    BY <1>1, <1>2
  <2>2. E[i] = k + ((x + (0 - k)) % t)
    OBVIOUS
  <2> HIDE DEF k, x, E, t
  <2>3. (k + ((x + (0 - k)) % t)) % t = (k + (x + (0 - k))) % t
    <3> DEFINE y == x + (0 - k)
    <3>1. y \in Int
      BY <2>1
    <3> HIDE DEF y
    <3>2. (k + (y % t)) % t = (k + y) % t
      BY <1>1, <2>1, <3>1, RemainderOfSum
    <3>3. QED
      BY <3>2 DEF y
  <2>4. k + (x + (0 - k)) = x
    BY <2>1
  <2>5. x % t = x
    BY <1>1, <2>1
  <2>6. QED
    BY <2>2, <2>3, <2>4, <2>5 DEF x
<1>8. [i \in Index |-> E[i] % t] = m
  <2>1. m = [i \in Index |-> m[i]]
    BY <1>2
  <2> HIDE DEF E, t
  <2>2. QED
    BY <1>7, <2>1
<1>9. QED
  BY <1>4, <1>5, <1>6, <1>8

\* For BFV, the refreshed ciphertext opens to the message: the masks cancel up to rounding.
LEMMA BfvKept ==
  ASSUME NEW list \in Lists, Everyone(Counted(list)), NEW c \in Ciphertexts["BFV"], ~c.ntt,
         NEW seed \in Seeds,
         \A p \in Parties : \E mask \in Masks["BFV"] : first[p] = MaskedBfv(p, c, seed, mask)
  PROVE  LET parts == RefreshedBfv(list, c, seed).parts
         IN  Rounded(Plus(parts[1], Intt(Times(Ntt(parts[2]), Joint)))) = c.message
<1> DEFINE a == Common[seed]
           mask == [p \in Parties |-> CHOOSE m \in Masks["BFV"] : first[p] = MaskedBfv(p, c, seed, m)]
           L == [p \in Parties |-> Lifted(mask[p])]
           I == [x \in Elements |-> Intt(x)]
           U == [x \in Elements |-> Intt(Negated(x))]
           P == [p \in Parties |-> I[Times(Noise, Secret[p])]]
           Q == [p \in Parties |-> U[Times(a, Secret[p])]]
           A == AddAll(L)
           NJ == Intt(Times(Noise, Joint))
           aJ == Intt(Times(a, Joint))
<1>1. /\ a \in Elements /\ Noise \in Elements /\ Joint \in Elements
      /\ Times(Noise, Joint) \in Elements /\ Times(a, Joint) \in Elements
      /\ NJ \in Elements /\ aJ \in Elements
  BY PartiesAssumption, MessagesAssumption, JointIs, TimesIs, Transforms
<1>2. IsLinear(I) /\ IsLinear(U)
  BY Maps
<1>3. ASSUME NEW p \in Parties
      PROVE  mask[p] \in Messages /\ first[p] = MaskedBfv(p, c, seed, mask[p])
  <2>1. Masks["BFV"] \subseteq Messages
    BY MessagesAssumption DEF Messages
  <2>2. \E m \in Masks["BFV"] : first[p] = MaskedBfv(p, c, seed, m)
    OBVIOUS
  <2>3. mask[p] \in Masks["BFV"] /\ first[p] = MaskedBfv(p, c, seed, mask[p])
    BY <2>2
  <2>4. QED
    BY <2>1, <2>3
<1>4. mask \in [Parties -> Messages]
  BY <1>3
<1> HIDE DEF mask
<1>5. PICK K \in [Index -> Int] : Near(A, K, Cardinality(Parties))
  BY <1>4, NearSum
<1>6. L \in [Parties -> Elements] /\ \A p \in Parties : L[p] = Lifted(mask[p])
  BY <1>3, LiftedIs
<1>7. \A p \in Parties : /\ Times(Noise, Secret[p]) \in Elements /\ Times(a, Secret[p]) \in Elements
                         /\ Product(c, p) = Times(Noise, Secret[p])
  BY <1>1, PartiesAssumption, TimesIs, CiphertextIs
<1>8. /\ \A p \in Parties : P[p] = Intt(Times(Noise, Secret[p]))
      /\ \A p \in Parties : Q[p] = Intt(Fresh(p, seed))
  <2>1. \A p \in Parties : Fresh(p, seed) = Negated(Times(a, Secret[p]))
    BY DEF Fresh, Negated
  <2>2. \A x \in Elements : I[x] = Intt(x) /\ U[x] = Intt(Negated(x))
    OBVIOUS
  <2> HIDE DEF I, U, a
  <2>3. QED
    BY <1>7, <2>1, <2>2
<1>9. P \in [Parties -> Elements] /\ Q \in [Parties -> Elements]
  <2> HIDE DEF I, U, a
  <2>1. QED
    BY <1>2, <1>7 DEF IsLinear
<1>10. AddAll(P) = NJ /\ AddAll(Q) = Negated(aJ)
  <2>1. I[Times(Noise, Joint)] = NJ /\ U[Times(a, Joint)] = Intt(Negated(Times(a, Joint)))
    BY <1>1
  <2>2. Intt(Negated(Times(a, Joint))) = Negated(aJ)
    <3> DEFINE x == Times(a, Joint)
    <3>1. x \in Elements /\ Negated(x) \in Elements
      BY <1>1, NegatedIs
    <3>2. I[Minus(Zero, x)] = Minus(I[Zero], I[x])
      <4> HIDE DEF I, x
      <4>1. QED
        BY <1>2, <3>1, ZeroIs, LinearMinus
    <3>3. I[Zero] = Zero
      BY <1>2 DEF IsLinear
    <3>4. I[Negated(x)] = Intt(Negated(x)) /\ I[x] = Intt(x)
      BY <3>1
    <3> HIDE DEF I, x
    <3>5. QED
      BY <3>2, <3>3, <3>4 DEF Negated, x
  <2> HIDE DEF I, U, a, NJ, aJ
  <2>3. AddAll(P) = I[Times(Noise, Joint)] /\ AddAll(Q) = U[Times(a, Joint)]
    BY <1>1, <1>2, ProductsOfAll
  <2>4. QED
    BY <2>1, <2>2, <2>3
<1>11. A \in Elements
  <2> HIDE DEF L
  <2>1. QED
    BY <1>6, PartiesAssumption, SumIsElement
<1> DEFINE first1 == [p \in Parties |-> Minus(P[p], L[p])]
           first2 == [p \in Parties |-> Plus(Q[p], L[p])]
<1>12. /\ first1 \in [Parties -> Elements] /\ first2 \in [Parties -> Elements]
       /\ \A p \in Parties : first[p].parts[1] = first1[p] /\ first[p].parts[2] = first2[p]
  <2> HIDE DEF P, Q, L
  <2>1. first1 \in [Parties -> Elements] /\ first2 \in [Parties -> Elements]
    BY <1>6, <1>9, PlusIs, MinusIs
  <2>2. ASSUME NEW p \in Parties
        PROVE  first[p].parts[1] = first1[p] /\ first[p].parts[2] = first2[p]
    <3>1. first[p].parts = <<Minus(Intt(Product(c, p)), Lifted(mask[p])),
                             Plus(Intt(Fresh(p, seed)), Lifted(mask[p]))>>
      BY <1>3, MaskedParts
    <3>2. first1[p] = Minus(P[p], L[p]) /\ first2[p] = Plus(Q[p], L[p])
      OBVIOUS
    <3> HIDE DEF first1, first2
    <3>3. QED
      BY <1>6, <1>7, <1>8, <3>1, <3>2
  <2>3. QED
    BY <2>1, <2>2
<1>13. AddAll(first1) = Minus(NJ, A) /\ AddAll(first2) = Plus(Negated(aJ), A)
  <2> HIDE DEF P, Q, L, NJ, aJ
  <2>1. AddAll(first1) = Minus(AddAll(P), A)
    BY <1>6, <1>9, PartiesAssumption, SumOfDifferences
  <2>2. AddAll(first2) = Plus(AddAll(Q), A)
    BY <1>6, <1>9, PartiesAssumption, SumOfSums
  <2>3. QED
    BY <1>10, <2>1, <2>2
<1> HIDE DEF first1, first2, P, Q, L, A
<1>14. /\ AddAll(Picked(first, list, 1)) = Minus(NJ, A)
       /\ AddAll(Picked(first, list, 2)) = Plus(Negated(aJ), A)
  BY <1>12, <1>13, PickedAll
<1> DEFINE m == c.message
           opened == OpenedBfv(list, c)
<1>15. m \in Messages /\ Part0["BFV"][c] = Minus(Lifted(m), NJ) /\ Lifted(m) \in Elements
  <2>1. /\ m \in Messages
        /\ Part0["BFV"][c] = Intt(Minus(Ntt(Lifted(m)), Times(Noise, Joint)))
    BY CiphertextIs
  <2> HIDE DEF m
  <2>2. Lifted(m) \in Elements /\ Ntt(Lifted(m)) \in Elements
    BY <2>1, LiftedIs, Transforms
  <2> DEFINE x == Ntt(Lifted(m))
             y == Times(Noise, Joint)
  <2>3. x \in Elements /\ y \in Elements /\ Minus(x, y) \in Elements
    BY <1>1, <2>2, MinusIs
  <2>4. I[x] = Intt(x) /\ I[y] = Intt(y) /\ I[Minus(x, y)] = Intt(Minus(x, y))
    BY <2>3
  <2> HIDE DEF x, y, I
  <2>5. I[Minus(x, y)] = Minus(I[x], I[y])
    BY <1>2, <2>3, LinearMinus
  <2>6. Intt(x) = Lifted(m)
    BY <2>2, Transforms DEF x
  <2>7. QED
    BY <2>1, <2>2, <2>4, <2>5, <2>6 DEF x, y
<1> HIDE DEF m, NJ
<1>16. opened = Rounded(Minus(Lifted(m), A))
  <2>1. Plus(Minus(Lifted(m), NJ), Minus(NJ, A)) = Minus(Lifted(m), A)
    BY <1>1, <1>11, <1>15, ZeroIs, Regroup
  <2>2. QED
    BY <1>14, <1>15, <2>1 DEF OpenedBfv
<1> HIDE DEF opened
<1>17. opened \in Messages /\ Rounded(Plus(A, Lifted(opened))) = m
  BY <1>5, <1>11, <1>15, <1>16, MasksCancel
<1> DEFINE parts == RefreshedBfv(list, c, seed).parts
<1>18. parts[1] = Plus(Plus(Negated(aJ), A), Lifted(opened)) /\ parts[2] = Intt(a)
  BY <1>14 DEF RefreshedBfv, Refreshed, opened
<1>19. Intt(Times(Ntt(parts[2]), Joint)) = aJ
  BY <1>1, <1>18, Transforms
<1> HIDE DEF parts, aJ
<1>20. Plus(parts[1], aJ) = Plus(A, Lifted(opened))
  BY <1>1, <1>11, <1>17, <1>18, LiftedIs, ZeroIs, Regroup
<1>21. QED
  BY <1>17, <1>19, <1>20 DEF parts, m

\* For CKKS, the masks cancel exactly, encoded at the scale of the manager.
LEMMA CkksKept ==
  ASSUME NEW list \in Lists, Everyone(Counted(list)), NEW c \in Ciphertexts["CKKS"],
         c.scale = ManagerScale, RealPart(c.message) = c.message, NEW seed \in Seeds,
         \A p \in Parties : \E mask \in Masks["CKKS"] : first[p] = MaskedCkks(p, c, seed, mask)
  PROVE  LET parts == RefreshedCkks(list, c, seed).parts
         IN  DecodedAt(Plus(parts[1], Times(parts[2], Joint)), ManagerScale) = c.message
<1> DEFINE a == Common[seed]
           s == ManagerScale
           mask == [p \in Parties |-> CHOOSE x \in Masks["CKKS"] : first[p] = MaskedCkks(p, c, seed, x)]
           E == [x \in Elements |-> EncodedAt(x, s)]
           R == [x \in Elements |-> RealPart(x)]
           I == [x \in Elements |-> x]
           U == [x \in Elements |-> Negated(x)]
           L == [p \in Parties |-> E[mask[p]]]
           P == [p \in Parties |-> I[Times(Noise, Secret[p])]]
           Q == [p \in Parties |-> U[Times(a, Secret[p])]]
           A == AddAll(L)
           B == AddAll(mask)
           NJ == Times(Noise, Joint)
           aJ == Times(a, Joint)
           m == c.message
<1>1. /\ a \in Elements /\ Noise \in Elements /\ Joint \in Elements
      /\ NJ \in Elements /\ aJ \in Elements
      /\ s \in 1 .. Modulus - 1 /\ s \in Int /\ m \in Elements
  BY PartiesAssumption, MessagesAssumption, JointIs, TimesIs
<1>2. IsLinear(I) /\ IsLinear(U) /\ IsLinear(E) /\ IsLinear(R)
  BY <1>1, Maps
<1>3. ASSUME NEW p \in Parties
      PROVE  mask[p] \in Elements /\ RealPart(mask[p]) = mask[p]
                /\ first[p] = MaskedCkks(p, c, seed, mask[p])
  <2>1. \E x \in Masks["CKKS"] : first[p] = MaskedCkks(p, c, seed, x)
    OBVIOUS
  <2>2. mask[p] \in Masks["CKKS"] /\ first[p] = MaskedCkks(p, c, seed, mask[p])
    BY <2>1
  <2>3. QED
    BY <2>2, MessagesAssumption
<1>4. mask \in [Parties -> Elements]
  BY <1>3
<1> HIDE DEF mask
<1>5. \A x \in Elements : E[x] = EncodedAt(x, s) /\ R[x] = RealPart(x) /\ I[x] = x /\ U[x] = Negated(x)
  OBVIOUS
<1> HIDE DEF E, R, I, U
<1>6. L \in [Parties -> Elements] /\ \A p \in Parties : L[p] = EncodedAt(mask[p], s)
  BY <1>2, <1>3, <1>5 DEF IsLinear
<1>7. \A p \in Parties : /\ Times(Noise, Secret[p]) \in Elements /\ Times(a, Secret[p]) \in Elements
                         /\ Product(c, p) = Times(Noise, Secret[p])
  BY <1>1, PartiesAssumption, TimesIs, CiphertextIs
<1>8. /\ \A p \in Parties : P[p] = Times(Noise, Secret[p])
      /\ \A p \in Parties : Q[p] = Fresh(p, seed)
  <2>1. \A p \in Parties : Fresh(p, seed) = Negated(Times(a, Secret[p]))
    BY DEF Fresh, Negated
  <2> HIDE DEF a
  <2>2. QED
    BY <1>5, <1>7, <2>1
<1>9. P \in [Parties -> Elements] /\ Q \in [Parties -> Elements]
  <2> HIDE DEF a
  <2>1. QED
    BY <1>2, <1>7 DEF IsLinear
<1>10. AddAll(P) = NJ /\ AddAll(Q) = Negated(aJ)
  <2>1. I[NJ] = NJ /\ U[aJ] = Negated(aJ)
    BY <1>1, <1>5
  <2> HIDE DEF a
  <2>2. AddAll(P) = I[Times(Noise, Joint)] /\ AddAll(Q) = U[Times(a, Joint)]
    BY <1>1, <1>2, ProductsOfAll
  <2>3. QED
    BY <2>1, <2>2
<1>11. A = E[B] /\ A \in Elements /\ B \in Elements /\ R[B] = B
  <2>1. A = E[B] /\ B \in Elements
    BY <1>2, <1>4, SumOfAll
  <2>2. AddAll([p \in Parties |-> R[mask[p]]]) = R[B]
    BY <1>2, <1>4, SumOfAll
  <2>3. [p \in Parties |-> R[mask[p]]] = mask
    <3>1. \A p \in Parties : R[mask[p]] = mask[p]
      BY <1>3, <1>5
    <3>2. QED
      BY <1>4, <3>1
  <2> HIDE DEF L, B
  <2>4. A \in Elements
    BY <1>6, PartiesAssumption, SumIsElement
  <2>5. QED
    BY <2>1, <2>2, <2>3, <2>4 DEF B
<1> DEFINE first1 == [p \in Parties |-> Minus(P[p], L[p])]
           first2 == [p \in Parties |-> Plus(Q[p], L[p])]
<1>12. /\ first1 \in [Parties -> Elements] /\ first2 \in [Parties -> Elements]
       /\ \A p \in Parties : first[p].parts[1] = first1[p] /\ first[p].parts[2] = first2[p]
  <2> HIDE DEF P, Q, L
  <2>1. first1 \in [Parties -> Elements] /\ first2 \in [Parties -> Elements]
    BY <1>6, <1>9, PlusIs, MinusIs
  <2>2. ASSUME NEW p \in Parties
        PROVE  first[p].parts[1] = first1[p] /\ first[p].parts[2] = first2[p]
    <3>1. first[p].parts = <<Minus(Product(c, p), EncodedAt(mask[p], s)),
                             Plus(Fresh(p, seed), EncodedAt(mask[p], s))>>
      BY <1>3, MaskedParts
    <3>2. first1[p] = Minus(P[p], L[p]) /\ first2[p] = Plus(Q[p], L[p])
      OBVIOUS
    <3> HIDE DEF first1, first2
    <3>3. QED
      BY <1>6, <1>7, <1>8, <3>1, <3>2
  <2>3. QED
    BY <2>1, <2>2
<1>13. AddAll(first1) = Minus(NJ, A) /\ AddAll(first2) = Plus(Negated(aJ), A)
  <2> HIDE DEF P, Q, L, NJ, aJ
  <2>1. AddAll(first1) = Minus(AddAll(P), A)
    BY <1>6, <1>9, PartiesAssumption, SumOfDifferences
  <2>2. AddAll(first2) = Plus(AddAll(Q), A)
    BY <1>6, <1>9, PartiesAssumption, SumOfSums
  <2>3. QED
    BY <1>10, <2>1, <2>2
<1> HIDE DEF first1, first2, P, Q, L, A, B
<1>14. /\ AddAll(Picked(first, list, 1)) = Minus(NJ, A)
       /\ AddAll(Picked(first, list, 2)) = Plus(Negated(aJ), A)
  BY <1>12, <1>13, PickedAll
<1>15. Part0["CKKS"][c] = Minus(EncodedAt(m, s), NJ) /\ c.scale = s
  BY CiphertextIs
<1> DEFINE d == Minus(m, B)
<1>16. R[m] = m
  BY <1>1, <1>5
<1> HIDE DEF m, NJ, s
<1>17. d \in Elements /\ R[d] = d /\ E[d] = Minus(E[m], A)
  <2>1. d \in Elements
    BY <1>1, <1>11, MinusIs
  <2>2. R[d] = Minus(R[m], R[B]) /\ E[d] = Minus(E[m], E[B])
    BY <1>1, <1>2, <1>11, LinearMinus
  <2>3. QED
    BY <1>11, <1>16, <2>1, <2>2
<1>18. OpenedCkks(list, c) = d
  <2>1. EncodedAt(m, s) \in Elements /\ EncodedAt(m, s) = E[m]
    BY <1>1, <1>5, EncodedOpens
  <2>2. Plus(Minus(EncodedAt(m, s), NJ), Minus(NJ, A)) = Minus(EncodedAt(m, s), A)
    BY <1>1, <1>11, <2>1, ZeroIs, Regroup
  <2>3. Minus(EncodedAt(m, s), A) = EncodedAt(d, s)
    BY <1>5, <1>17, <2>1
  <2> HIDE DEF d
  <2>4. DecodedAt(EncodedAt(d, s), s) = d
    BY <1>1, <1>17, EncodedOpens
  <2>5. OpenedCkks(list, c) = RealPart(DecodedAt(Plus(Part0["CKKS"][c], Minus(NJ, A)), s))
    BY <1>14, <1>15 DEF OpenedCkks
  <2>6. OpenedCkks(list, c) = RealPart(d)
    BY <1>15, <2>2, <2>3, <2>4, <2>5
  <2>7. QED
    BY <1>5, <1>17, <2>6
<1> DEFINE parts == RefreshedCkks(list, c, seed).parts
<1>19. parts[1] = Plus(Plus(Negated(aJ), A), EncodedAt(d, s)) /\ parts[2] = a
  <2> HIDE DEF d
  <2>1. QED
    BY <1>14, <1>18 DEF RefreshedCkks, Refreshed, s
<1>20. Times(parts[2], Joint) = aJ
  BY <1>19
<1> HIDE DEF parts, aJ
<1>21. Plus(parts[1], aJ) = EncodedAt(m, s)
  <2>1. EncodedAt(d, s) \in Elements /\ EncodedAt(d, s) = E[d]
    <3> HIDE DEF d
    <3>1. QED
      BY <1>1, <1>5, <1>17, EncodedOpens
  <2>2. Plus(parts[1], aJ) = Plus(A, EncodedAt(d, s))
    <3> HIDE DEF d
    <3>1. QED
      BY <1>1, <1>11, <1>19, <2>1, ZeroIs, Regroup
  <2>3. Plus(E[B], E[d]) = E[Plus(B, d)]
    <3> HIDE DEF d
    <3>1. QED
      BY <1>2, <1>11, <1>17 DEF IsLinear
  <2>4. Plus(B, d) = m
    <3>1. Plus(B, d) = Plus(d, B)
      BY <1>11, <1>17, PlusCommutes
    <3>2. Plus(d, B) = m
      BY <1>1, <1>11, MinusPlus
    <3>3. QED
      BY <3>1, <3>2
  <2>5. QED
    BY <1>1, <1>5, <1>11, <2>1, <2>2, <2>3, <2>4
<1>22. DecodedAt(EncodedAt(m, s), s) = m
  BY <1>1, EncodedOpens
<1>23. QED
  BY <1>20, <1>21, <1>22 DEF parts, m, s

\* So what everyone bootstrapped opens to the message, in either scheme.
LEMMA BootstrapKeeps ==
  ASSUME BootstrapInv, ceremony = "bootstrap", Assembled(result), Everyone(result.from),
         Cardinality(result.seeds) = 1, NEW c \in Ciphertexts[scheme], result.of = {c},
         IF scheme = "BFV" THEN ~c.ntt
         ELSE c.scale = ManagerScale /\ RealPart(c.message) = c.message
  PROVE  Opened(result.parts) = c.message
<1>1. PICK list \in Lists :
        /\ Len(list) # 0 /\ \A k \in 1 .. Len(list) : first[list[k]].generated
        /\ IsRefreshed(scheme, result, list)
  BY DEF BootstrapInv
<1>2. \A p \in Parties : first[p].generated => IsMasked(scheme, first[p], p)
  BY DEF BootstrapInv
<1>3. PICK d, seed :
        /\ seed \in Seeds /\ d \in Ciphertexts[scheme]
        /\ \/ scheme = "BFV" /\ result = RefreshedBfv(list, d, seed)
           \/ scheme = "CKKS" /\ result = RefreshedCkks(list, d, seed)
  BY <1>1 DEF IsRefreshed
<1>4. /\ result.from = Counted(list) /\ result.of = Origins(list) \union {d}
      /\ result.seeds = {first[list[k]].seed : k \in 1 .. Len(list)} \union {seed}
  BY <1>3 DEF RefreshedBfv, RefreshedCkks, Refreshed
<1>5. d = c /\ Everyone(Counted(list))
  BY <1>4
<1>6. Origins(list) = {c}
  <2>1. Len(list) \in Nat \ {0}
    BY <1>1, ListIs, PartiesAssumption
  <2>2. first[list[1]].of \in Origins(list)
    BY <2>1 DEF Origins
  <2>3. QED
    BY <1>4, <1>5, <2>2
<1>7. Cardinality({first[list[k]].seed : k \in 1 .. Len(list)} \union {seed}) = 1
  BY <1>4
<1>11. /\ scheme = "BFV" =>
            \A p \in Parties : \E mask \in Masks["BFV"] : first[p] = MaskedBfv(p, c, seed, mask)
       /\ scheme = "CKKS" =>
            \A p \in Parties : \E mask \in Masks["CKKS"] : first[p] = MaskedCkks(p, c, seed, mask)
  <2>1. OneCiphertext(list, c, seed)
    BY <1>1, <1>2, <1>5, <1>6, <1>7 DEF OneCiphertext
  <2>2. QED
    BY <2>1, EveryoneMasked
<1>8. CASE scheme = "BFV"
  <2>1. \A p \in Parties : \E mask \in Masks["BFV"] : first[p] = MaskedBfv(p, c, seed, mask)
    BY <1>8, <1>11
  <2>2. c \in Ciphertexts["BFV"] /\ ~c.ntt /\ result = RefreshedBfv(list, c, seed)
    BY <1>3, <1>5, <1>8
  <2>3. QED
    BY <1>3, <1>5, <1>8, <2>1, <2>2, BfvKept DEF Opened
<1>9. CASE scheme = "CKKS"
  <2>1. \A p \in Parties : \E mask \in Masks["CKKS"] : first[p] = MaskedCkks(p, c, seed, mask)
    BY <1>9, <1>11
  <2>2. /\ c \in Ciphertexts["CKKS"] /\ result = RefreshedCkks(list, c, seed)
        /\ c.scale = ManagerScale /\ RealPart(c.message) = c.message
    BY <1>3, <1>5, <1>9
  <2>3. QED
    BY <1>3, <1>5, <1>9, <2>1, <2>2, CkksKept DEF Opened
<1>10. QED
  BY <1>3, <1>8, <1>9

(* Distributed bootstrapping by everyone, of one ciphertext and under one  *)
(* seed, keeps the message, for every ring, every number of parties, every *)
(* choice of masks and every order of the shares, as long as the rounding  *)
(* errors of everyone's masks fit (MessagesAssumption).                    *)
(* (distributed_bootstrapping_stage1 and 2)                                *)
THEOREM BootstrappingKeeps == Spec => []BootstrappingKeepsMessage
<1>1. Init => BootstrapInv
  <2>1. SUFFICES ASSUME Init PROVE BootstrapInv
    OBVIOUS
  <2>2. \A p \in Parties : ~first[p].generated
    BY <2>1 DEF Init, Nothing
  <2>3. ~Assembled(result)
    BY <2>1 DEF Init, Nothing, Assembled
  <2>4. QED
    BY <2>2, <2>3 DEF BootstrapInv
<1>2. Shape /\ BootstrapInv /\ [Next]_vars => BootstrapInv'
  <2>1. SUFFICES ASSUME Shape, BootstrapInv, [Next]_vars PROVE BootstrapInv'
    OBVIOUS
  <2>2. CASE Next
    BY <2>1, <2>2, BootstrapStep
  <2>3. CASE UNCHANGED vars
    <3>1. /\ scheme' = scheme /\ ceremony' = ceremony /\ first' = first /\ result' = result
      BY <2>3 DEF vars
    <3>2. \A list : IsRefreshed(scheme, result, list)' <=> IsRefreshed(scheme, result, list)
      BY <3>1, RefreshedKept
    <3>3. \A p : IsMasked(scheme, first[p], p)' <=> IsMasked(scheme, first[p], p)
      BY <3>1 DEF IsMasked, MaskedBfv, MaskedCkks
    <3>4. Assembled(result)' <=> Assembled(result)
      BY <3>1 DEF Assembled
    <3>5. QED
      BY <2>1, <3>1, <3>2, <3>3, <3>4 DEF BootstrapInv
  <2>4. QED
    BY <2>1, <2>2, <2>3
<1>3. BootstrapInv => BootstrappingKeepsMessage
  BY BootstrapKeeps DEF BootstrappingKeepsMessage
<1>4. QED
  BY <1>1, <1>2, <1>3, ShapeAlways, PTL DEF Spec
=============================================================================
