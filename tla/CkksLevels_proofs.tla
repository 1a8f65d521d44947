-------------------------- MODULE CkksLevels_proofs --------------------------
(***************************************************************************)
(* Proofs about CkksLevels for every chain of primes and every set of      *)
(* objects.                                                                *)
(***************************************************************************)
EXTENDS CkksLevels, TLAPS

(* An application that stays in the automatic mode: its plaintexts have    *)
(* the scales of their levels, and it multiplies by no factor that changes *)
(* a scale outside of the mode.                                            *)
LevelScalesOnly ==
  /\ Automatic
  /\ ~PlainDrops
  /\ \A e \in Encodings : PlainHasLevelScale(e)
  /\ Fractions \subseteq {FALSE}
  /\ ScaleFactors \subseteq {0}

(* The factors of dropped() are below 2^63, which multiply_plain converts  *)
(* them to a signed integer of 64 bits by.                                 *)
FactorsFit ==
  \A k \in 0 .. Top : \A l \in 0 .. Top :
    l < k => LevelScale[l] + LogPrime[l + 1] - LevelScale[k] \in 0 .. 62

(* A term of the scale a ciphertext says it has.                           *)
Bears(x) == x.data # {} => x.scale \in x.data

(* What holds of every ciphertext and every plaintext.                     *)
Good(x) ==
  /\ x \in Cipher
  /\ Bears(x)
  /\ x.relin => x.rescale
  /\ LevelScalesOnly => HasLevelScale(x)
  /\ LevelScalesOnly /\ FactorsFit => x.data = {x.scale}

GoodPlain(p) ==
  /\ p \in Plain
  /\ LevelScalesOnly => PlainHasLevelScale(p)

IInv ==
  /\ ct \in [Ciphertexts -> SUBSET Cipher]
  /\ pt \in [Plaintexts -> SUBSET Plain]
  /\ \A c \in Ciphertexts : \A x \in ct[c] : Good(x)
  /\ \A p \in Plaintexts : \A x \in pt[p] : GoodPlain(x)

-----------------------------------------------------------------------------
(* The operations of the manual mode.                                      *)

LEMMA ShiftedOne == \A s, bits \in Int : Shifted({s}, bits) = {s + bits}
  BY DEF Shifted

LEMMA ShiftedType ==
  ASSUME NEW terms \in SUBSET Int, NEW bits \in Int
  PROVE  Shifted(terms, bits) \in SUBSET Int
  BY DEF Shifted

LEMMA ShiftedBears ==
  ASSUME NEW terms \in SUBSET Int, NEW scale \in Int, NEW bits \in Int,
         terms # {} => scale \in terms
  PROVE  Shifted(terms, bits) # {} => scale + bits \in Shifted(terms, bits)
  BY DEF Shifted

LEMMA ChainTypes ==
  /\ L \in Nat /\ Top \in 0 .. L
  /\ \A l \in 0 .. L : LogPrime[l] \in Int
  /\ \A l \in 0 .. Top : LevelScale[l] \in Int
  BY LevelsAssumption DEF Levels

LEMMA CipherTypes ==
  ASSUME NEW x \in Cipher
  PROVE  /\ x.depth \in 0 .. L /\ x.scale \in Int /\ x.data \in SUBSET Int
         /\ x.rescale \in BOOLEAN /\ x.relin \in BOOLEAN
         /\ Level(x) \in 0 .. L /\ x.depth = L - Level(x)
  BY ChainTypes DEF Cipher, Levels, Level

(* Rescaling gives the scale of the next level to the square of the scale  *)
(* of a level.                                                             *)
LEMMA NextScale ==
  ASSUME NEW l \in 1 .. Top
  PROVE  LevelScale[l - 1] = 2 * LevelScale[l] - LogPrime[l]
  BY LevelsAssumption DEF SetRescaleMode, Levels

LEMMA RescaledGood ==
  ASSUME NEW x, Good(x), NEW z \in Rescaled(x)
  PROVE  /\ Good(z)
         /\ x.rescale /\ ~z.rescale /\ ~x.relin /\ ~z.relin
         /\ z.depth = x.depth + 1
<1> DEFINE bits == LogPrime[Level(x)]
<1>1. /\ x.rescale /\ ~x.relin /\ Level(x) # 0
      /\ z = [x EXCEPT !.depth = @ + 1, !.scale = @ - bits,
                       !.rescale = FALSE, !.data = Shifted(@, -bits)]
  BY DEF Rescaled
<1>2. x \in Cipher /\ Level(x) \in 1 .. L /\ bits \in Int /\ -bits \in Int
  BY <1>1, CipherTypes, ChainTypes DEF Good
<1> HIDE DEF bits
<1>3. /\ z.depth = x.depth + 1
      /\ z.scale = x.scale - bits
      /\ z.rescale = FALSE
      /\ z.relin = x.relin
      /\ z.data = Shifted(x.data, -bits)
  BY <1>1, <1>2 DEF Cipher
<1>4. z \in Cipher
  <2>1. Shifted(x.data, -bits) \in SUBSET Int
    BY <1>2, ShiftedType, CipherTypes
  <2>2. x.depth + 1 \in Levels
    BY <1>2, CipherTypes, ChainTypes DEF Levels
  <2>3. x.scale - bits \in Int
    BY <1>2, CipherTypes
  <2>4. QED
    BY <1>1, <1>2, <2>1, <2>2, <2>3 DEF Cipher
<1>5. ASSUME LevelScalesOnly PROVE HasLevelScale(z)
  <2>1. Level(x) \in 1 .. Top /\ x.scale = 2 * LevelScale[Level(x)]
    BY <1>1, <1>2, <1>5, ChainTypes DEF Good, HasLevelScale
  <2>2. Level(z) = Level(x) - 1
    BY <1>2, <1>3, CipherTypes, ChainTypes DEF Level
  <2>3. LevelScale[Level(x) - 1] = 2 * LevelScale[Level(x)] - bits
    BY <2>1, NextScale DEF bits
  <2>4. z.scale = LevelScale[Level(z)]
    BY <1>3, <2>1, <2>2, <2>3
  <2>5. Level(z) \in 0 .. Top
    BY <2>1, <2>2, ChainTypes
  <2>6. QED
    BY <1>3, <2>4, <2>5, ChainTypes DEF HasLevelScale
<1>6. ASSUME LevelScalesOnly, FactorsFit PROVE z.data = {z.scale}
  <2>1. x.data = {x.scale} /\ x.scale \in Int
    BY <1>2, <1>6, CipherTypes DEF Good
  <2>2. z.data = {x.scale + (-bits)}
    BY <1>2, <1>3, <2>1, ShiftedOne
  <2>3. QED
    BY <1>2, <1>3, <2>1, <2>2
<1>7. Bears(z)
  <2>1. x.data # {} => x.scale \in x.data
    BY DEF Good, Bears
  <2>2. Shifted(x.data, -bits) # {} => x.scale + (-bits) \in Shifted(x.data, -bits)
    BY <1>2, <2>1, CipherTypes, ShiftedBears
  <2>3. x.scale + (-bits) = x.scale - bits
    BY <1>2, CipherTypes
  <2>4. QED
    BY <1>3, <2>2, <2>3 DEF Bears
<1>8. QED
  BY <1>1, <1>3, <1>4, <1>5, <1>6, <1>7 DEF Good

LEMMA SettledGood ==
  ASSUME NEW x, Good(x), NEW z \in Settled(x)
  PROVE  /\ Good(z)
         /\ ~z.rescale /\ ~x.relin /\ ~z.relin
         /\ LevelsLeft(z) = LevelsLeft(x)
<1>1. CASE x.rescale
  <2>1. z \in Rescaled(x)
    BY <1>1 DEF Settled
  <2>2. /\ Good(z) /\ ~z.rescale /\ ~x.relin /\ ~z.relin
        /\ z.depth = x.depth + 1
    BY <2>1, RescaledGood
  <2>3. x.depth \in Int /\ L \in Int
    BY LevelsAssumption DEF Good, Cipher, Levels
  <2>4. QED
    BY <1>1, <2>2, <2>3 DEF LevelsLeft, Level
<1>2. CASE ~x.rescale
  BY <1>2 DEF Settled, Good
<1>3. QED
  BY <1>1, <1>2

LEMMA ScaledUpFields ==
  ASSUME NEW x \in Cipher, NEW bits \in Int
  PROVE  LET z == ScaledUp(x, bits) IN
         /\ z \in Cipher
         /\ z.depth = x.depth /\ z.scale = x.scale + bits
         /\ z.rescale = x.rescale /\ z.relin = x.relin
         /\ bits \in 0 .. 62 => z.data = Shifted(x.data, bits)
         /\ Bears(x) => Bears(z)
<1> DEFINE terms == IF bits \in 0 .. 62 THEN Shifted(x.data, bits) ELSE {}
<1>1. ScaledUp(x, bits) = [x EXCEPT !.scale = @ + bits, !.data = terms]
  BY DEF ScaledUp
<1>2. terms \in SUBSET Int
  BY ShiftedType, CipherTypes
<1>3. bits \in 0 .. 62 => terms = Shifted(x.data, bits)
  OBVIOUS
<1>4. x.scale + bits \in Int
  BY CipherTypes
<1>5. Bears(x) => (terms # {} => x.scale + bits \in terms)
  BY ShiftedBears, CipherTypes DEF Bears
<1> HIDE DEF terms
<1> DEFINE z == ScaledUp(x, bits)
<1>6. /\ z \in Cipher
      /\ z.depth = x.depth /\ z.scale = x.scale + bits
      /\ z.rescale = x.rescale /\ z.relin = x.relin
      /\ z.data = terms
  BY <1>1, <1>2, <1>4 DEF Cipher
<1> HIDE DEF z
<1>7. Bears(x) => Bears(z)
  BY <1>5, <1>6 DEF Bears
<1>8. QED
  BY <1>3, <1>6, <1>7 DEF z

-----------------------------------------------------------------------------
(* Preparing the operands.                                                 *)

(* What dropped() makes of a ciphertext without a pending rescaling.       *)
LEMMA BroughtDownGood ==
  ASSUME NEW x, Good(x), ~x.rescale, NEW depth \in Nat, x.depth <= depth,
         NEW z \in BroughtDown(x, depth)
  PROVE  /\ Good(z)
         /\ ~z.rescale /\ ~x.relin /\ ~z.relin
         /\ z.depth = depth
<1>0. x \in Cipher /\ ~x.relin
  BY DEF Good
<1>1. CASE x.depth = depth
  BY <1>0, <1>1 DEF BroughtDown
<1>2. CASE x.depth # depth
  <2> DEFINE level == L - depth
             bits == LogPrime[level + 1]
             factor == LevelScale[level] + bits - x.scale
             terms == Shifted(ScaledUp(x, factor).data, -bits)
  <2>1. /\ depth <= L /\ level <= Top
        /\ z = [depth |-> depth, scale |-> LevelScale[level], rescale |-> FALSE,
                relin |-> FALSE, data |-> terms]
    BY <1>2, ChainTypes DEF BroughtDown
  <2>2. level \in 0 .. Top /\ level + 1 \in 0 .. L /\ level < Level(x)
    BY <1>0, <1>2, <2>1, CipherTypes, ChainTypes DEF Level
  <2>3. LevelScale[level] \in Int /\ bits \in Int /\ -bits \in Int /\ factor \in Int
    BY <1>0, <2>2, CipherTypes, ChainTypes
  <2>4. terms \in SUBSET Int
    <3>1. ScaledUp(x, factor).data \in SUBSET Int
      BY <1>0, <2>3, ScaledUpFields, CipherTypes
    <3>2. QED
      BY <2>3, <3>1, ShiftedType
  <2>5. Level(z) = level
    BY <2>1, ChainTypes DEF Level
  <2>6. z \in Cipher
    BY <2>1, <2>3, <2>4 DEF Cipher, Levels
  <2>7. HasLevelScale(z)
    BY <2>1, <2>2, <2>3, <2>5 DEF HasLevelScale
  <2>8. ASSUME LevelScalesOnly, FactorsFit PROVE z.data = {z.scale}
    <3>1. Level(x) \in 0 .. Top /\ x.scale = LevelScale[Level(x)] /\ x.data = {x.scale}
      BY <2>8, ChainTypes DEF Good, HasLevelScale
    <3>2. factor \in 0 .. 62
      BY <2>2, <2>8, <3>1 DEF FactorsFit
    <3>3. ScaledUp(x, factor).data = {x.scale + factor}
      <4>1. ScaledUp(x, factor).data = Shifted(x.data, factor)
        BY <1>0, <2>3, <3>2, ScaledUpFields
      <4>2. Shifted({x.scale}, factor) = {x.scale + factor}
        BY <1>0, <2>3, ShiftedOne, CipherTypes
      <4>3. QED
        BY <3>1, <4>1, <4>2
    <3>4. x.scale + factor = LevelScale[level] + bits
      BY <1>0, <2>3, CipherTypes
    <3>5. LevelScale[level] + bits \in Int
      BY <2>3
    <3>6. Shifted({LevelScale[level] + bits}, -bits)
            = {LevelScale[level] + bits + (-bits)}
      BY <2>3, <3>5, ShiftedOne
    <3>7. terms = Shifted({LevelScale[level] + bits}, -bits)
      BY <3>3, <3>4
    <3>8. LevelScale[level] + bits + (-bits) = LevelScale[level]
      BY <2>3
    <3>9. QED
      BY <2>1, <3>6, <3>7, <3>8
  <2>9. Bears(z)
    <3> DEFINE y == ScaledUp(x, factor)
    <3>1. y \in Cipher /\ y.scale = x.scale + factor /\ Bears(y)
      BY <1>0, <2>3, ScaledUpFields DEF Good
    <3> HIDE DEF y
    <3>2. y.data \in SUBSET Int /\ y.scale \in Int
      BY <3>1, CipherTypes
    <3>3. Shifted(y.data, -bits) # {} => y.scale + (-bits) \in Shifted(y.data, -bits)
      BY <2>3, <3>1, <3>2, ShiftedBears DEF Bears
    <3>4. y.scale + (-bits) = LevelScale[level]
      BY <1>0, <2>3, <3>1, CipherTypes
    <3>5. QED
      BY <2>1, <3>3, <3>4 DEF Bears, y
  <2>10. QED
    BY <1>0, <2>1, <2>6, <2>7, <2>8, <2>9 DEF Good
<1>3. QED
  BY <1>1, <1>2

(* The level an operation on two operands works on.                        *)
Least(m, n) == Budget!Lesser(m, n)

LEMMA LevelsLeftType ==
  ASSUME NEW x \in Cipher
  PROVE  LevelsLeft(x) \in Int /\ (~x.rescale => LevelsLeft(x) = Level(x))
  BY CipherTypes, ChainTypes DEF LevelsLeft

(* The operands of a binary operation in the automatic mode: either they   *)
(* are the ciphertexts given, both waiting for a rescaling, or none waits  *)
(* and none has a third part.                                              *)
LEMMA PreparedGood ==
  ASSUME NEW x, NEW y, Good(x), Good(y), NEW keep \in BOOLEAN,
         NEW a, NEW b, <<a, b>> \in Prepared(x, y, keep)
  PROVE  /\ Good(a) /\ Good(b)
         /\ HasLevelScale(a) /\ HasLevelScale(b)
         /\ a.depth = b.depth
         /\ LevelsLeft(a) = Least(LevelsLeft(x), LevelsLeft(y))
         /\ \/ keep /\ a = x /\ b = y /\ x.rescale /\ y.rescale
            \/ /\ ~a.rescale /\ ~b.rescale /\ ~a.relin /\ ~b.relin
               /\ ~x.relin /\ ~y.relin
<1>1. PICK p \in Unscaled(x, y, keep) :
        /\ <<a, b>> \in OneLevel(p)
        /\ HasLevelScale(a) /\ HasLevelScale(b)
  BY DEF Prepared
<1>2. CASE keep /\ KeepsRescale(x, y)
  <2>1. p = <<x, y>> /\ x.rescale /\ y.rescale /\ x.depth = y.depth
    BY <1>2 DEF Unscaled, KeepsRescale
  <2>2. x.depth \in Int /\ y.depth \in Int
    BY CipherTypes DEF Good
  <2>3. a = x /\ b = y
    BY <1>1, <2>1, <2>2 DEF OneLevel, BroughtDown
  <2>4. LevelsLeft(x) = LevelsLeft(y)
    BY <2>1 DEF LevelsLeft, Level
  <2>5. QED
    BY <1>1, <1>2, <2>1, <2>3, <2>4 DEF Least, Budget!Lesser
<1>3. CASE ~(keep /\ KeepsRescale(x, y))
  <2>1. PICK s \in Settled(x), t \in Settled(y) : p = <<s, t>>
    BY <1>3 DEF Unscaled
  <2>2. /\ Good(s) /\ ~s.rescale /\ ~s.relin /\ ~x.relin
        /\ LevelsLeft(s) = LevelsLeft(x)
        /\ Good(t) /\ ~t.rescale /\ ~t.relin /\ ~y.relin
        /\ LevelsLeft(t) = LevelsLeft(y)
    BY SettledGood
  <2>3. /\ s.depth \in Nat /\ t.depth \in Nat /\ L \in Int
        /\ LevelsLeft(s) = L - s.depth /\ LevelsLeft(t) = L - t.depth
    BY <2>2, CipherTypes, ChainTypes DEF Good, LevelsLeft, Level
  <2>4. CASE s.depth < t.depth
    <3>1. a \in BroughtDown(s, t.depth) /\ b = t
      BY <1>1, <2>1, <2>4 DEF OneLevel
    <3>2. /\ Good(a) /\ ~a.rescale /\ ~a.relin /\ a.depth = t.depth
      BY <2>2, <2>3, <2>4, <3>1, BroughtDownGood
    <3>3. LevelsLeft(a) = L - t.depth
      BY <3>2, ChainTypes, <2>3 DEF LevelsLeft, Level
    <3>4. LevelsLeft(a) = Least(LevelsLeft(x), LevelsLeft(y))
      BY <2>2, <2>3, <2>4, <3>3 DEF Least, Budget!Lesser
    <3>5. QED
      BY <1>1, <2>2, <3>1, <3>2, <3>4
  <2>5. CASE ~(s.depth < t.depth)
    <3>1. a = s /\ b \in BroughtDown(t, s.depth)
      BY <1>1, <2>1, <2>5 DEF OneLevel
    <3>2. /\ Good(b) /\ ~b.rescale /\ ~b.relin /\ b.depth = s.depth
      <4>1. t.depth <= s.depth
        BY <2>3, <2>5
      <4>2. QED
        BY <2>2, <2>3, <3>1, <4>1, BroughtDownGood
    <3>3. LevelsLeft(a) = Least(LevelsLeft(x), LevelsLeft(y))
      BY <2>2, <2>3, <2>5, <3>1 DEF Least, Budget!Lesser
    <3>4. QED
      BY <1>1, <2>2, <3>1, <3>2, <3>3
  <2>6. QED
    BY <2>4, <2>5
<1>4. QED
  BY <1>2, <1>3

LEMMA PreparedPlainGood ==
  ASSUME NEW x, NEW p, Good(x), GoodPlain(p),
         NEW a, NEW b, <<a, b>> \in PreparedPlain(x, p)
  PROVE  /\ Good(a) /\ GoodPlain(b)
         /\ HasLevelScale(a) /\ PlainHasLevelScale(b)
         /\ a.depth = b.depth
         /\ ~a.rescale /\ ~a.relin /\ ~x.relin
         /\ LevelsLeft(a) = Least(LevelsLeft(x), Level(p))
<1>1. PICK s \in Settled(x) :
        /\ <<a, b>> \in OneLevelPlain(s, p)
        /\ HasLevelScale(a) /\ PlainHasLevelScale(b)
  BY DEF PreparedPlain
<1>2. /\ Good(s) /\ ~s.rescale /\ ~s.relin /\ ~x.relin
      /\ LevelsLeft(s) = LevelsLeft(x)
  BY SettledGood
<1>3. /\ s.depth \in Nat /\ p.depth \in Nat /\ L \in Int /\ p \in Plain
      /\ LevelsLeft(s) = L - s.depth
  BY <1>2, CipherTypes, ChainTypes DEF Good, LevelsLeft, Level, GoodPlain, Plain
<1>4. CASE s.depth < p.depth
  <2>1. a \in BroughtDown(s, p.depth) /\ b = p
    BY <1>1, <1>4 DEF OneLevelPlain
  <2>2. Good(a) /\ ~a.rescale /\ ~a.relin /\ a.depth = p.depth
    BY <1>2, <1>3, <1>4, <2>1, BroughtDownGood
  <2>3. LevelsLeft(a) = L - p.depth
    BY <1>3, <2>2 DEF LevelsLeft, Level
  <2>4. LevelsLeft(a) = Least(LevelsLeft(x), Level(p))
    BY <1>2, <1>3, <1>4, <2>3 DEF Least, Budget!Lesser, Level
  <2>5. QED
    BY <1>1, <1>2, <2>1, <2>2, <2>4
<1>5. CASE ~(s.depth < p.depth)
  <2>1. a = s /\ b = [p EXCEPT !.depth = s.depth]
    BY <1>1, <1>5 DEF OneLevelPlain
  <2>2. b \in Plain /\ b.depth = s.depth
    BY <1>3, <2>1 DEF Plain
  <2>3. LevelsLeft(a) = Least(LevelsLeft(x), Level(p))
    BY <1>2, <1>3, <1>5, <2>1 DEF Least, Budget!Lesser, Level
  <2>4. QED
    BY <1>1, <1>2, <2>1, <2>2, <2>3 DEF GoodPlain
<1>6. QED
  BY <1>4, <1>5

-----------------------------------------------------------------------------
(* What the operations make of good operands.                              *)

LEMMA TimesCipherGood ==
  ASSUME NEW a, NEW b, Good(a), Good(b), NEW z \in TimesCipher(a, b)
  PROVE  /\ Good(z) /\ z.rescale /\ z.relin
         /\ z.depth = a.depth /\ a.depth = b.depth
         /\ ~a.rescale /\ ~b.rescale /\ ~a.relin /\ ~b.relin
<1> DEFINE terms == UNION {Shifted(a.data, t) : t \in b.data}
<1>1. /\ ~a.relin /\ ~b.relin /\ ~a.rescale /\ ~b.rescale /\ a.depth = b.depth
      /\ z = [depth |-> a.depth, scale |-> a.scale + b.scale, rescale |-> TRUE,
              relin |-> TRUE, data |-> terms]
  BY DEF TimesCipher
<1>2. a \in Cipher /\ b \in Cipher
  BY DEF Good
<1>3. /\ a.scale \in Int /\ b.scale \in Int
      /\ a.data \in SUBSET Int /\ b.data \in SUBSET Int
  BY <1>2, CipherTypes
<1>4. terms \in SUBSET Int
  BY <1>3, ShiftedType
<1>5. z \in Cipher
  BY <1>1, <1>2, <1>3, <1>4 DEF Cipher
<1>6. Level(z) = Level(a) /\ Level(b) = Level(a)
  BY <1>1 DEF Level
<1>7. ASSUME LevelScalesOnly PROVE HasLevelScale(z)
  <2>1. /\ Level(a) \in 0 .. Top
        /\ a.scale = LevelScale[Level(a)] /\ b.scale = LevelScale[Level(a)]
    BY <1>1, <1>6, <1>7, ChainTypes DEF Good, HasLevelScale
  <2>2. z.scale = 2 * LevelScale[Level(a)]
    BY <1>1, <1>3, <2>1
  <2>3. QED
    BY <1>1, <1>6, <2>1, <2>2 DEF HasLevelScale
<1>8. ASSUME LevelScalesOnly, FactorsFit PROVE z.data = {z.scale}
  <2>1. a.data = {a.scale} /\ b.data = {b.scale}
    BY <1>8 DEF Good
  <2>2. terms = Shifted({a.scale}, b.scale)
    BY <2>1
  <2>3. terms = {a.scale + b.scale}
    BY <1>3, <2>2, ShiftedOne
  <2>4. QED
    BY <1>1, <2>3
<1>9. Bears(z)
  <2>1. /\ a.data # {} => a.scale \in a.data
        /\ b.data # {} => b.scale \in b.data
    BY DEF Good, Bears
  <2>2. Shifted(a.data, b.scale) # {} =>
          a.scale + b.scale \in Shifted(a.data, b.scale)
    BY <1>3, <2>1, ShiftedBears
  <2>3. terms # {} => Shifted(a.data, b.scale) # {} /\ b.scale \in b.data
    BY <2>1 DEF Shifted
  <2>4. QED
    BY <1>1, <2>2, <2>3 DEF Bears
<1>10. QED
  BY <1>1, <1>5, <1>7, <1>8, <1>9 DEF Good

(* A factor of the scale of the level, in a plaintext or a constant.       *)
TimesScale(a, bits) ==
  [a EXCEPT !.scale = @ + bits, !.rescale = TRUE, !.data = Shifted(@, bits)]

LEMMA TimesScaleGood ==
  ASSUME NEW a, Good(a), NEW bits \in Int,
         LevelScalesOnly => ~a.rescale /\ bits = LevelScale[Level(a)]
  PROVE  LET z == TimesScale(a, bits) IN
         Good(z) /\ z.rescale /\ z.relin = a.relin /\ z.depth = a.depth
<1> DEFINE terms == Shifted(a.data, bits)
           sum == a.scale + bits
           z == TimesScale(a, bits)
<1>0. z = [a EXCEPT !.scale = sum, !.rescale = TRUE, !.data = terms]
  BY DEF TimesScale
<1>1. a \in Cipher
  BY DEF Good
<1>2. a.scale \in Int /\ sum \in Int /\ terms \in SUBSET Int
  BY <1>1, CipherTypes, ShiftedType
<1> HIDE DEF terms, sum, z
<1>3. /\ z \in Cipher
      /\ z.depth = a.depth /\ z.scale = sum /\ z.rescale = TRUE
      /\ z.relin = a.relin /\ z.data = terms
  BY <1>0, <1>1, <1>2 DEF Cipher
<1>5. ASSUME LevelScalesOnly PROVE HasLevelScale(z)
  <2>1. Level(a) \in 0 .. Top /\ a.scale = LevelScale[Level(a)]
    BY <1>5, ChainTypes DEF Good, HasLevelScale
  <2>2. z.scale = 2 * LevelScale[Level(a)]
    BY <1>2, <1>3, <1>5, <2>1 DEF sum
  <2>3. Level(z) = Level(a)
    BY <1>3 DEF Level
  <2>4. QED
    BY <1>3, <2>1, <2>2, <2>3 DEF HasLevelScale
<1>6. ASSUME LevelScalesOnly, FactorsFit PROVE z.data = {z.scale}
  <2>1. a.data = {a.scale}
    BY <1>6 DEF Good
  <2>2. QED
    BY <1>2, <1>3, <2>1, ShiftedOne DEF sum, terms
<1>7. Bears(z)
  <2>1. a.data # {} => a.scale \in a.data
    BY DEF Good, Bears
  <2>2. QED
    BY <1>1, <1>3, <2>1, CipherTypes, ShiftedBears DEF Bears, sum, terms
<1>8. QED
  BY <1>3, <1>5, <1>6, <1>7 DEF Good, z

LEMMA TimesPlainGood ==
  ASSUME NEW a, NEW b, Good(a), GoodPlain(b), LevelScalesOnly => ~a.rescale,
         NEW z \in TimesPlain(a, b)
  PROVE  /\ Good(z) /\ z.rescale /\ ~z.relin /\ z.depth = a.depth
         /\ ~a.relin /\ a.depth = b.depth
<1>1. /\ ~a.relin /\ a.depth = b.depth
      /\ z = TimesScale(a, b.scale)
  BY DEF TimesPlain, TimesScale
<1>2. b.scale \in Int
  BY DEF GoodPlain, Plain
<1>3. LevelScalesOnly => b.scale = LevelScale[Level(a)]
  BY <1>1 DEF GoodPlain, PlainHasLevelScale, Level
<1>4. Good(z) /\ z.rescale /\ z.relin = a.relin /\ z.depth = a.depth
  BY <1>1, <1>2, <1>3, TimesScaleGood
<1>5. QED
  BY <1>1, <1>4

LEMMA TimesConstantGood ==
  ASSUME NEW a, Good(a), NEW bits \in Int,
         LevelScalesOnly => ~a.rescale /\ bits = LevelScale[Level(a)],
         NEW z \in TimesConstant(a, bits)
  PROVE  Good(z) /\ z.rescale /\ ~z.relin /\ ~a.relin /\ z.depth = a.depth
<1>1. /\ ~a.relin
      /\ z = TimesScale(a, bits)
  BY DEF TimesConstant, TimesScale
<1>2. Good(z) /\ z.rescale /\ z.relin = a.relin /\ z.depth = a.depth
  BY <1>1, TimesScaleGood
<1>3. QED
  BY <1>1, <1>2

(* Terms added with the scale of the ciphertext, which may start to wait   *)
(* for a rescaling.                                                        *)
PlusTerms(a, terms, rescale) ==
  [a EXCEPT !.rescale = rescale, !.data = Together(@, terms)]

LEMMA PlusTermsGood ==
  ASSUME NEW a, Good(a), NEW terms \in SUBSET Int, NEW rescale \in BOOLEAN,
         a.rescale => rescale,
         LevelScalesOnly => rescale = a.rescale,
         LevelScalesOnly /\ FactorsFit => terms = {a.scale}
  PROVE  LET z == PlusTerms(a, terms, rescale) IN
         /\ Good(z) /\ z.depth = a.depth
         /\ z.rescale = rescale /\ z.relin = a.relin
<1> DEFINE data == Together(a.data, terms)
           z == PlusTerms(a, terms, rescale)
<1>1. z = [a EXCEPT !.rescale = rescale, !.data = data]
  BY DEF PlusTerms
<1>2. a \in Cipher
  BY DEF Good
<1>3. data \in SUBSET Int
  BY <1>2, CipherTypes DEF Together
<1> HIDE DEF data, z
<1>4. /\ z \in Cipher
      /\ z.depth = a.depth /\ z.scale = a.scale /\ z.rescale = rescale
      /\ z.relin = a.relin /\ z.data = data
  BY <1>1, <1>2, <1>3 DEF Cipher
<1>5. ASSUME LevelScalesOnly PROVE HasLevelScale(z)
  <2>1. Level(z) = Level(a)
    BY <1>4 DEF Level
  <2>2. QED
    BY <1>4, <1>5, <2>1 DEF Good, HasLevelScale
<1>6. ASSUME LevelScalesOnly, FactorsFit PROVE z.data = {z.scale}
  <2>1. a.data = {a.scale} /\ terms = {a.scale}
    BY <1>6 DEF Good
  <2>2. QED
    BY <1>4, <2>1 DEF data, Together
<1>7. z.relin => z.rescale
  BY <1>4 DEF Good
<1>8. Bears(z)
  BY <1>4 DEF Good, Bears, data, Together
<1>9. QED
  BY <1>4, <1>5, <1>6, <1>7, <1>8 DEF Good, z

LEMMA PlusCipherGood ==
  ASSUME NEW a, NEW b, Good(a), Good(b),
         LevelScalesOnly => a.rescale = b.rescale,
         NEW z \in PlusCipher(a, b)
  PROVE  /\ Good(z) /\ z.depth = a.depth /\ a.depth = b.depth
         /\ z.rescale = (a.rescale \/ b.rescale)
         /\ z.relin = a.relin /\ a.relin = b.relin
<1>1. /\ a.depth = b.depth /\ a.relin = b.relin
      /\ z = PlusTerms(a, b.data, a.rescale \/ b.rescale)
  BY DEF PlusCipher, PlusTerms
<1>2. /\ a.rescale \in BOOLEAN /\ b.rescale \in BOOLEAN
      /\ b.data \in SUBSET Int /\ a.scale \in Int /\ b.scale \in Int
  BY CipherTypes DEF Good
<1>3. ASSUME LevelScalesOnly, FactorsFit PROVE b.data = {a.scale}
  BY <1>1, <1>3 DEF Good, HasLevelScale, Level
<1>4. (a.rescale \/ b.rescale) \in BOOLEAN
  OBVIOUS
<1>5. LevelScalesOnly => (a.rescale \/ b.rescale) = a.rescale
  BY <1>2
<1>6. QED
  BY <1>1, <1>2, <1>3, <1>4, <1>5, PlusTermsGood

LEMMA PlusPlainGood ==
  ASSUME NEW a, NEW b, Good(a), GoodPlain(b), LevelScalesOnly => ~a.rescale,
         NEW z \in PlusPlain(a, b)
  PROVE  /\ Good(z) /\ z.depth = a.depth /\ a.depth = b.depth
         /\ z.rescale = a.rescale /\ ~z.relin /\ ~a.relin
<1>1. /\ a.depth = b.depth /\ ~a.relin
      /\ z = [a EXCEPT !.data = Together(@, {b.scale})]
  BY DEF PlusPlain
<1>2. a \in Cipher /\ a.rescale \in BOOLEAN /\ a.scale \in Int /\ b.scale \in Int
  BY CipherTypes DEF Good, GoodPlain, Plain
<1>3. z = PlusTerms(a, {b.scale}, a.rescale)
  BY <1>1, <1>2 DEF PlusTerms, Cipher
<1>4. ASSUME LevelScalesOnly, FactorsFit PROVE {b.scale} = {a.scale}
  <2>1. Level(b) = Level(a)
    BY <1>1 DEF Level
  <2>2. b.scale = LevelScale[Level(a)]
    BY <1>4, <2>1 DEF GoodPlain, PlainHasLevelScale
  <2>3. a.scale = LevelScale[Level(a)]
    BY <1>4, ChainTypes DEF Good, HasLevelScale
  <2>4. QED
    BY <2>2, <2>3
<1>5. QED
  BY <1>1, <1>2, <1>3, <1>4, PlusTermsGood

LEMMA PlusComplexGood ==
  ASSUME NEW a, Good(a)
  PROVE  LET z == PlusComplex(a) IN
         /\ Good(z) /\ z.depth = a.depth
         /\ z.rescale = a.rescale /\ z.relin = a.relin
<1>1. a \in Cipher /\ a.rescale \in BOOLEAN /\ a.scale \in Int
  BY CipherTypes DEF Good
<1>2. PlusComplex(a) = PlusTerms(a, {a.scale}, a.rescale)
  BY <1>1 DEF PlusComplex, PlusTerms, Cipher
<1>3. QED
  BY <1>1, <1>2, PlusTermsGood

LEMMA PlusConstantGood ==
  ASSUME NEW a, Good(a), NEW z \in PlusConstant(a)
  PROVE  /\ Good(z) /\ z.depth = a.depth
         /\ z.rescale = a.rescale /\ ~z.relin /\ ~a.relin
<1>1. ~a.relin /\ z = PlusComplex(a)
  BY DEF PlusConstant, PlusComplex
<1>2. QED
  BY <1>1, PlusComplexGood

LEMMA RelinearizedGood ==
  ASSUME NEW a, Good(a), NEW z \in Relinearized(a)
  PROVE  /\ Good(z) /\ z.depth = a.depth /\ z.rescale = a.rescale
         /\ ~z.relin /\ a.relin /\ a.rescale
<1>1. a.relin /\ z = [a EXCEPT !.relin = FALSE] /\ a \in Cipher /\ a.rescale
  BY DEF Relinearized, Good
<1>2. /\ z \in Cipher /\ ~z.relin
      /\ z.depth = a.depth /\ z.scale = a.scale /\ z.rescale = a.rescale
      /\ z.data = a.data
  BY <1>1 DEF Cipher
<1>3. Level(z) = Level(a)
  BY <1>2 DEF Level
<1>4. QED
  BY <1>1, <1>2, <1>3 DEF Good, Bears, HasLevelScale

(* Factors that are 1 while all scales are those of the levels.            *)
LEMMA ScaledUpGood ==
  ASSUME NEW a, Good(a), NEW bits \in Int, LevelScalesOnly => bits = 0
  PROVE  LET z == ScaledUp(a, bits) IN
         /\ Good(z) /\ z.depth = a.depth
         /\ z.rescale = a.rescale /\ z.relin = a.relin
<1> DEFINE z == ScaledUp(a, bits)
<1>1. /\ z \in Cipher
      /\ z.depth = a.depth /\ z.scale = a.scale + bits
      /\ z.rescale = a.rescale /\ z.relin = a.relin
      /\ bits \in 0 .. 62 => z.data = Shifted(a.data, bits)
      /\ Bears(z)
  BY ScaledUpFields DEF Good
<1> HIDE DEF z
<1>2. a.scale \in Int
  BY CipherTypes DEF Good
<1>3. ASSUME LevelScalesOnly PROVE HasLevelScale(z)
  <2>1. z.scale = a.scale /\ Level(z) = Level(a)
    BY <1>1, <1>2, <1>3 DEF Level
  <2>2. QED
    BY <1>1, <1>3, <2>1 DEF Good, HasLevelScale
<1>4. ASSUME LevelScalesOnly, FactorsFit PROVE z.data = {z.scale}
  <2>1. a.data = {a.scale} /\ bits = 0
    BY <1>4 DEF Good
  <2>2. z.data = Shifted({a.scale}, bits)
    BY <1>1, <2>1
  <2>3. z.data = {a.scale + bits}
    BY <1>2, <2>2, ShiftedOne
  <2>4. QED
    BY <1>1, <2>3
<1>5. QED
  BY <1>1, <1>3, <1>4 DEF Good, z

LEMMA TimesComplexGood ==
  ASSUME NEW a, Good(a), NEW fraction \in BOOLEAN, LevelScalesOnly => ~fraction
  PROVE  LET z == TimesComplex(a, fraction) IN
         /\ Good(z) /\ z.depth = a.depth
         /\ z.rescale = a.rescale /\ z.relin = a.relin
<1> DEFINE z == TimesComplex(a, fraction)
           bits == IF fraction THEN LogPrime[Level(a)] ELSE 0
           sum == a.scale + bits
           terms == Shifted(a.data, bits)
<1>1. z = [a EXCEPT !.scale = sum, !.data = terms]
  BY DEF TimesComplex
<1>2. a \in Cipher /\ a.scale \in Int /\ bits \in Int
  BY CipherTypes, ChainTypes DEF Good
<1>3. sum \in Int /\ terms \in SUBSET Int
  BY <1>2, ShiftedType, CipherTypes
<1>4. LevelScalesOnly => bits = 0
  OBVIOUS
<1> HIDE DEF z, bits
<1>5. /\ z \in Cipher
      /\ z.depth = a.depth /\ z.scale = sum /\ z.rescale = a.rescale
      /\ z.relin = a.relin /\ z.data = terms
  <2> HIDE DEF sum, terms
  <2>1. QED
    BY <1>1, <1>2, <1>3 DEF Cipher
<1>6. ASSUME LevelScalesOnly PROVE HasLevelScale(z)
  <2>1. z.scale = a.scale /\ Level(z) = Level(a)
    BY <1>2, <1>4, <1>5, <1>6 DEF Level
  <2>2. QED
    BY <1>5, <1>6, <2>1 DEF Good, HasLevelScale
<1>7. ASSUME LevelScalesOnly, FactorsFit PROVE z.data = {z.scale}
  <2>1. a.data = {a.scale} /\ bits = 0
    BY <1>4, <1>7 DEF Good
  <2>2. QED
    BY <1>2, <1>5, <2>1, ShiftedOne
<1>8. Bears(z)
  <2>1. a.data # {} => a.scale \in a.data
    BY DEF Good, Bears
  <2>2. terms # {} => sum \in terms
    BY <1>2, <2>1, CipherTypes, ShiftedBears
  <2>3. QED
    BY <1>5, <2>2 DEF Bears
<1>9. QED
  BY <1>5, <1>6, <1>7, <1>8 DEF Good, z

(* Dropping primes in the manual mode.                                     *)
LEMMA DroppedGood ==
  ASSUME ~Automatic, NEW a, Good(a), NEW z \in Dropped(a) \cup DroppedInplace(a)
  PROVE  Good(z)
<1>1. a \in Cipher /\ (a.relin => a.rescale)
  BY DEF Good
<1> DEFINE terms == IF a.relin THEN {} ELSE a.data
<1>2. /\ Level(a) # 0
      /\ \/ z = [a EXCEPT !.depth = @ + 1]
         \/ z = [a EXCEPT !.depth = @ + 1, !.data = terms]
  BY DEF Dropped, DroppedInplace
<1>3. a.depth + 1 \in Levels /\ terms \in SUBSET Int
  BY <1>1, <1>2, CipherTypes, ChainTypes DEF Levels
<1> HIDE DEF terms
<1>4. /\ z \in Cipher /\ z.relin = a.relin /\ z.rescale = a.rescale
      /\ z.scale = a.scale /\ z.data \in {terms, a.data}
  BY <1>1, <1>2, <1>3 DEF Cipher
<1>5. Bears(z)
  BY <1>4 DEF Good, Bears, terms
<1>6. QED
  BY <1>1, <1>4, <1>5 DEF Good, LevelScalesOnly

-----------------------------------------------------------------------------
(* What the public operations return, and the levels they cost.            *)

LEMMA OperandsGood ==
  ASSUME NEW x, NEW y, Good(x), Good(y), NEW keep \in BOOLEAN,
         NEW o \in Operands(x, y, keep)
  PROVE  LET a == o[1]
             b == o[2] IN
         /\ Good(a) /\ Good(b)
         /\ Automatic =>
              /\ a.depth = b.depth
              /\ LevelsLeft(a) = Least(LevelsLeft(x), LevelsLeft(y))
              /\ \/ a = x /\ b = y /\ x.rescale /\ y.rescale
                 \/ /\ ~a.rescale /\ ~b.rescale /\ ~a.relin /\ ~b.relin
                    /\ ~x.relin /\ ~y.relin
<1>1. CASE Automatic
  <2>1. o \in Prepared(x, y, keep)
    BY <1>1 DEF Operands
  <2>2. o = <<o[1], o[2]>>
    BY <2>1 DEF Prepared, OneLevel
  <2>3. QED
    BY <2>1, <2>2, PreparedGood
<1>2. CASE ~Automatic
  BY <1>2 DEF Operands
<1>3. QED
  BY <1>1, <1>2

LEMMA OperandsPlainGood ==
  ASSUME NEW x, NEW p, Good(x), GoodPlain(p), NEW o \in OperandsPlain(x, p)
  PROVE  LET a == o[1]
             b == o[2] IN
         /\ Good(a) /\ GoodPlain(b)
         /\ Automatic =>
              /\ a.depth = b.depth
              /\ ~a.rescale /\ ~a.relin /\ ~x.relin
              /\ LevelsLeft(a) = Least(LevelsLeft(x), Level(p))
<1>1. CASE Automatic
  <2>1. o \in PreparedPlain(x, p)
    BY <1>1 DEF OperandsPlain
  <2>2. o = <<o[1], o[2]>>
    BY <2>1 DEF PreparedPlain, OneLevelPlain
  <2>3. QED
    BY <2>1, <2>2, PreparedPlainGood
<1>2. CASE ~Automatic
  BY <1>2 DEF OperandsPlain
<1>3. QED
  BY <1>1, <1>2

LEMMA LeastFacts ==
  ASSUME NEW m \in Int, NEW n \in Int
  PROVE  /\ Least(m, n) \in Int /\ Least(m, n) <= m /\ Least(m, n) <= n
         /\ m <= n => Least(m, n) = m
  BY DEF Least, Budget!Lesser

(* The levels left of objects that have the scales of levels.              *)
LEMMA LeftRange ==
  ASSUME NEW x, Good(x), LevelScalesOnly
  PROVE  /\ LevelsLeft(x) \in Int /\ LevelsLeft(x) <= Top
         /\ LevelsLeft(x) >= -1
         /\ ~x.rescale => LevelsLeft(x) >= 0 /\ LevelsLeft(x) = Level(x)
         /\ x.rescale => LevelsLeft(x) = Level(x) - 1
<1>1. Level(x) \in 0 .. Top
  BY DEF Good, HasLevelScale
<1>2. QED
  BY <1>1, ChainTypes DEF LevelsLeft

LEMMA LeftRangePlain ==
  ASSUME NEW p, GoodPlain(p), LevelScalesOnly
  PROVE  Level(p) \in 0 .. Top
  BY DEF GoodPlain, PlainHasLevelScale

LEMMA ProductGood ==
  ASSUME NEW x, NEW y, Good(x), Good(y), NEW z \in Product(x, y)
  PROVE  /\ Good(z)
         /\ LevelScalesOnly =>
              /\ z.rescale /\ z.relin /\ ~x.relin /\ ~y.relin
              /\ LevelsLeft(z) = Least(LevelsLeft(x), LevelsLeft(y)) - 1
              /\ LevelsLeft(x) >= 0 /\ LevelsLeft(y) >= 0
<1>1. PICK o \in Operands(x, y, FALSE) : z \in TimesCipher(o[1], o[2])
  BY DEF Product
<1> DEFINE a == o[1]
           b == o[2]
<1>2. /\ Good(a) /\ Good(b)
      /\ Automatic =>
           /\ LevelsLeft(a) = Least(LevelsLeft(x), LevelsLeft(y))
           /\ \/ a = x /\ b = y /\ x.rescale /\ y.rescale
              \/ /\ ~a.rescale /\ ~b.rescale /\ ~a.relin /\ ~b.relin
                 /\ ~x.relin /\ ~y.relin
  BY OperandsGood
<1>3. Good(z) /\ z.rescale /\ z.relin /\ z.depth = a.depth /\ ~a.rescale
  BY <1>1, <1>2, TimesCipherGood
<1> HIDE DEF a, b
<1>4. ASSUME LevelScalesOnly
      PROVE  /\ ~x.relin /\ ~y.relin
             /\ LevelsLeft(z) = Least(LevelsLeft(x), LevelsLeft(y)) - 1
             /\ LevelsLeft(x) >= 0 /\ LevelsLeft(y) >= 0
  <2>1. /\ LevelsLeft(a) = Least(LevelsLeft(x), LevelsLeft(y))
        /\ ~x.relin /\ ~y.relin
    BY <1>2, <1>3, <1>4 DEF LevelScalesOnly
  <2>2. LevelsLeft(a) >= 0 /\ LevelsLeft(a) = Level(a) /\ LevelsLeft(a) \in Int
    BY <1>2, <1>3, <1>4, LeftRange
  <2>3. LevelsLeft(z) = Level(z) - 1
    BY <1>3, <1>4, LeftRange
  <2>4. Level(z) = Level(a)
    BY <1>3 DEF Level
  <2>5. LevelsLeft(x) \in Int /\ LevelsLeft(y) \in Int
    BY <1>4, LeftRange
  <2>6. LevelsLeft(x) >= 0 /\ LevelsLeft(y) >= 0
    BY <2>1, <2>2, <2>5 DEF Least, Budget!Lesser
  <2>7. QED
    BY <2>1, <2>2, <2>3, <2>4, <2>6
<1>5. QED
  BY <1>3, <1>4

LEMMA PlainProductGood ==
  ASSUME NEW x, NEW p, Good(x), GoodPlain(p), NEW z \in PlainProduct(x, p)
  PROVE  /\ Good(z) /\ z.rescale /\ ~z.relin
         /\ LevelScalesOnly =>
              /\ ~x.relin
              /\ LevelsLeft(z) = Least(LevelsLeft(x), Level(p)) - 1
              /\ LevelsLeft(x) >= 0
<1>1. PICK o \in OperandsPlain(x, p) : z \in TimesPlain(o[1], o[2])
  BY DEF PlainProduct
<1> DEFINE a == o[1]
<1>2. /\ Good(a) /\ GoodPlain(o[2])
      /\ Automatic => /\ ~a.rescale /\ ~x.relin
                      /\ LevelsLeft(a) = Least(LevelsLeft(x), Level(p))
  BY OperandsPlainGood
<1>3. LevelScalesOnly => ~a.rescale
  BY <1>2 DEF LevelScalesOnly
<1>4. Good(z) /\ z.rescale /\ ~z.relin /\ z.depth = a.depth
  BY <1>1, <1>2, <1>3, TimesPlainGood
<1> HIDE DEF a
<1>5. ASSUME LevelScalesOnly
      PROVE  /\ ~x.relin
             /\ LevelsLeft(z) = Least(LevelsLeft(x), Level(p)) - 1
             /\ LevelsLeft(x) >= 0
  <2>1. ~x.relin /\ LevelsLeft(a) = Least(LevelsLeft(x), Level(p))
    BY <1>2, <1>5 DEF LevelScalesOnly
  <2>2. LevelsLeft(a) >= 0 /\ LevelsLeft(a) = Level(a)
    BY <1>2, <1>3, <1>5, LeftRange
  <2>3. LevelsLeft(z) = Level(z) - 1
    BY <1>4, <1>5, LeftRange
  <2>4. Level(z) = Level(a)
    BY <1>4 DEF Level
  <2>5. LevelsLeft(x) \in Int /\ Level(p) \in Int
    BY <1>5, LeftRange, LeftRangePlain, ChainTypes
  <2>6. LevelsLeft(x) >= 0
    BY <2>1, <2>2, <2>5 DEF Least, Budget!Lesser
  <2>7. QED
    BY <2>1, <2>2, <2>3, <2>4, <2>6
<1>6. QED
  BY <1>4, <1>5

LEMMA ConstantProductGood ==
  ASSUME NEW x, Good(x), NEW bits \in Int, NEW z \in ConstantProduct(x, bits)
  PROVE  /\ Good(z) /\ ~z.relin
         /\ LevelScalesOnly =>
              /\ ~x.relin
              /\ LevelsLeft(z) = LevelsLeft(x) - 1
              /\ LevelsLeft(x) >= 0
<1>1. CASE Automatic
  <2>1. PICK s \in Settled(x) :
          HasLevelScale(s) /\ z \in TimesConstant(s, LevelScale[Level(s)])
    BY <1>1 DEF ConstantProduct
  <2>2. Good(s) /\ ~s.rescale /\ ~x.relin /\ LevelsLeft(s) = LevelsLeft(x)
    BY SettledGood
  <2>3. LevelScale[Level(s)] \in Int
    BY <2>1, ChainTypes DEF HasLevelScale
  <2>4. Good(z) /\ z.rescale /\ ~z.relin /\ z.depth = s.depth
    BY <2>1, <2>2, <2>3, TimesConstantGood
  <2>5. ASSUME LevelScalesOnly
        PROVE  LevelsLeft(z) = LevelsLeft(x) - 1 /\ LevelsLeft(x) >= 0
    <3>1. LevelsLeft(s) >= 0 /\ LevelsLeft(s) = Level(s)
      BY <2>2, <2>5, LeftRange
    <3>2. LevelsLeft(z) = Level(z) - 1
      BY <2>4, <2>5, LeftRange
    <3>3. Level(z) = Level(s)
      BY <2>4 DEF Level
    <3>4. QED
      BY <2>2, <3>1, <3>2, <3>3
  <2>6. QED
    BY <2>2, <2>4, <2>5
<1>2. CASE ~Automatic
  <2>1. z \in TimesConstant(x, bits)
    BY <1>2 DEF ConstantProduct
  <2>2. ~LevelScalesOnly
    BY <1>2 DEF LevelScalesOnly
  <2>3. QED
    BY <2>1, <2>2, TimesConstantGood
<1>3. QED
  BY <1>1, <1>2

LEMMA SumGood ==
  ASSUME NEW x, NEW y, Good(x), Good(y), NEW z \in Sum(x, y)
  PROVE  /\ Good(z)
         /\ LevelScalesOnly =>
              /\ z.relin = x.relin /\ x.relin = y.relin
              /\ LevelsLeft(z) = Least(LevelsLeft(x), LevelsLeft(y))
<1>1. PICK o \in Operands(x, y, TRUE) : z \in PlusCipher(o[1], o[2])
  BY DEF Sum
<1> DEFINE a == o[1]
           b == o[2]
<1>2. /\ Good(a) /\ Good(b)
      /\ Automatic =>
           /\ LevelsLeft(a) = Least(LevelsLeft(x), LevelsLeft(y))
           /\ \/ a = x /\ b = y /\ x.rescale /\ y.rescale
              \/ /\ ~a.rescale /\ ~b.rescale /\ ~a.relin /\ ~b.relin
                 /\ ~x.relin /\ ~y.relin
  BY OperandsGood
<1>3. /\ a.rescale \in BOOLEAN /\ b.rescale \in BOOLEAN
      /\ x.relin \in BOOLEAN /\ y.relin \in BOOLEAN
      /\ a.relin \in BOOLEAN /\ b.relin \in BOOLEAN
  BY <1>2, CipherTypes DEF Good
<1>4. LevelScalesOnly => a.rescale = b.rescale
  BY <1>2, <1>3 DEF LevelScalesOnly
<1>5. /\ Good(z) /\ z.depth = a.depth /\ z.rescale = (a.rescale \/ b.rescale)
      /\ z.relin = a.relin /\ a.relin = b.relin
  BY <1>1, <1>2, <1>4, PlusCipherGood
<1> HIDE DEF a, b
<1>6. ASSUME LevelScalesOnly
      PROVE  /\ z.relin = x.relin /\ x.relin = y.relin
             /\ LevelsLeft(z) = Least(LevelsLeft(x), LevelsLeft(y))
  <2>1. z.relin = x.relin /\ x.relin = y.relin
    BY <1>2, <1>3, <1>5, <1>6 DEF LevelScalesOnly
  <2>2. z.rescale = a.rescale
    BY <1>3, <1>4, <1>5, <1>6
  <2>3. LevelsLeft(z) = LevelsLeft(a)
    BY <1>5, <2>2 DEF LevelsLeft, Level
  <2>4. QED
    BY <1>2, <1>6, <2>1, <2>3 DEF LevelScalesOnly
<1>7. QED
  BY <1>5, <1>6

LEMMA PlainSumGood ==
  ASSUME NEW x, NEW p, Good(x), GoodPlain(p), NEW z \in PlainSum(x, p)
  PROVE  /\ Good(z) /\ ~z.relin
         /\ LevelScalesOnly =>
              ~x.relin /\ LevelsLeft(z) = Least(LevelsLeft(x), Level(p))
<1>1. PICK o \in OperandsPlain(x, p) : z \in PlusPlain(o[1], o[2])
  BY DEF PlainSum
<1> DEFINE a == o[1]
<1>2. /\ Good(a) /\ GoodPlain(o[2])
      /\ Automatic => /\ ~a.rescale /\ ~x.relin
                      /\ LevelsLeft(a) = Least(LevelsLeft(x), Level(p))
  BY OperandsPlainGood
<1>3. LevelScalesOnly => ~a.rescale
  BY <1>2 DEF LevelScalesOnly
<1>4. Good(z) /\ ~z.relin /\ z.depth = a.depth /\ z.rescale = a.rescale
  BY <1>1, <1>2, <1>3, PlusPlainGood
<1> HIDE DEF a
<1>5. LevelsLeft(z) = LevelsLeft(a)
  BY <1>4 DEF LevelsLeft, Level
<1>6. QED
  BY <1>2, <1>4, <1>5 DEF LevelScalesOnly

LEMMA OperandGood ==
  ASSUME NEW x, Good(x), NEW o \in Operand(x)
  PROVE  /\ Good(o)
         /\ LevelScalesOnly =>
              ~o.rescale /\ ~x.relin /\ LevelsLeft(o) = LevelsLeft(x)
<1>1. CASE Automatic
  BY <1>1, SettledGood DEF Operand
<1>2. CASE ~Automatic
  BY <1>2 DEF Operand, LevelScalesOnly
<1>3. QED
  BY <1>1, <1>2

LEMMA TurnedGood ==
  ASSUME NEW x, Good(x), NEW z \in Turned(x)
  PROVE  /\ Good(z) /\ ~z.relin
         /\ LevelScalesOnly => ~x.relin /\ LevelsLeft(z) = LevelsLeft(x)
<1>1. PICK o \in Operand(x) : z = o /\ ~o.relin
  BY DEF Turned, Galois
<1>2. QED
  BY <1>1, OperandGood

LEMMA RescalingGood ==
  ASSUME NEW x, Good(x), NEW z \in Rescaling(x)
  PROVE  /\ Good(z) /\ z.relin = x.relin /\ ~x.relin
         /\ LevelScalesOnly =>
              /\ LevelsLeft(z) = LevelsLeft(x)
              /\ LevelsLeft(x) >= 0
<1>1. CASE Automatic /\ ~x.rescale
  <2>1. z = x
    BY <1>1 DEF Rescaling
  <2>2. ~x.relin
    BY <1>1 DEF Good
  <2>3. QED
    BY <1>1, <2>1, <2>2, LeftRange
<1>2. CASE ~(Automatic /\ ~x.rescale)
  <2>1. z \in Rescaled(x)
    BY <1>2 DEF Rescaling
  <2>2. /\ Good(z) /\ x.rescale /\ ~z.rescale /\ ~x.relin /\ ~z.relin
        /\ z.depth = x.depth + 1
    BY <2>1, RescaledGood
  <2>3. ASSUME LevelScalesOnly
        PROVE  LevelsLeft(z) = LevelsLeft(x) /\ LevelsLeft(x) >= 0
    <3>1. LevelsLeft(z) >= 0 /\ LevelsLeft(z) = Level(z)
      BY <2>2, <2>3, LeftRange
    <3>2. LevelsLeft(x) = Level(x) - 1
      BY <2>2, <2>3, LeftRange
    <3>3. Level(z) = Level(x) - 1
      BY <2>2, CipherTypes, ChainTypes DEF Good, Level
    <3>4. QED
      BY <3>1, <3>2, <3>3
  <2>4. z.relin = x.relin
    BY <2>2, CipherTypes DEF Good
  <2>5. QED
    BY <2>2, <2>3, <2>4
<1>3. QED
  BY <1>1, <1>2

LEMMA DropGood ==
  ASSUME NEW x, Good(x), NEW z \in Drop(x) \cup DropInplace(x)
  PROVE  /\ Good(z)
         /\ LevelScalesOnly =>
              /\ ~x.relin /\ ~z.relin
              /\ LevelsLeft(z) = LevelsLeft(x) - 1
              /\ LevelsLeft(x) > 0
<1>1. CASE Automatic
  <2>1. PICK o \in Settled(x) : z \in BroughtDown(o, o.depth + 1)
    BY <1>1 DEF Drop, DropInplace
  <2>2. Good(o) /\ ~o.rescale /\ ~x.relin /\ LevelsLeft(o) = LevelsLeft(x)
    BY SettledGood
  <2>3. o.depth \in Nat
    BY <2>2, CipherTypes, ChainTypes DEF Good
  <2>4. Good(z) /\ ~z.rescale /\ ~z.relin /\ z.depth = o.depth + 1
    <3>1. o.depth + 1 \in Nat /\ o.depth <= o.depth + 1
      BY <2>3
    <3>2. QED
      BY <2>1, <2>2, <3>1, BroughtDownGood
  <2>5. ASSUME LevelScalesOnly
        PROVE  LevelsLeft(z) = LevelsLeft(x) - 1 /\ LevelsLeft(x) > 0
    <3>1. LevelsLeft(z) >= 0 /\ LevelsLeft(z) = Level(z)
      BY <2>4, <2>5, LeftRange
    <3>2. LevelsLeft(o) = Level(o)
      BY <2>2, <2>5, LeftRange
    <3>3. Level(z) = Level(o) - 1
      BY <2>3, <2>4, ChainTypes DEF Level
    <3>4. Level(o) \in Int
      BY <2>3, ChainTypes DEF Level
    <3>5. QED
      BY <2>2, <3>1, <3>2, <3>3, <3>4
  <2>6. QED
    BY <2>2, <2>4, <2>5
<1>2. CASE ~Automatic
  BY <1>2, DroppedGood DEF Drop, DropInplace, LevelScalesOnly
<1>3. QED
  BY <1>1, <1>2

LEMMA SlotSumGood ==
  ASSUME NEW x, Good(x), NEW z \in SlotSum(x)
  PROVE  /\ Good(z)
         /\ LevelScalesOnly =>
              ~x.relin /\ ~z.relin /\ LevelsLeft(z) = LevelsLeft(x)
<1>1. PICK r \in Turned(x) : z \in Sum(x, r)
  BY DEF SlotSum
<1>2. /\ Good(r)
      /\ LevelScalesOnly => ~x.relin /\ LevelsLeft(r) = LevelsLeft(x)
  BY TurnedGood
<1>3. /\ Good(z)
      /\ LevelScalesOnly =>
           /\ z.relin = x.relin
           /\ LevelsLeft(z) = Least(LevelsLeft(x), LevelsLeft(r))
  BY <1>1, <1>2, SumGood
<1>4. QED
  BY <1>2, <1>3 DEF Least, Budget!Lesser

LEMMA CipherInnerProductGood ==
  ASSUME NEW x, NEW y, Good(x), Good(y), NEW z \in CipherInnerProduct(x, y)
  PROVE  /\ Good(z)
         /\ LevelScalesOnly =>
              /\ ~z.relin /\ ~x.relin /\ ~y.relin
              /\ LevelsLeft(z) = Least(LevelsLeft(x), LevelsLeft(y)) - 1
              /\ LevelsLeft(x) > 0 /\ LevelsLeft(y) > 0
<1>1. PICK m \in Product(x, y) :
        \E n \in Relinearized(m) : \E r \in Rescaling(n) : z \in SlotSum(r)
  BY DEF CipherInnerProduct
<1>2. PICK n \in Relinearized(m) : \E r \in Rescaling(n) : z \in SlotSum(r)
  BY <1>1
<1>3. PICK r \in Rescaling(n) : z \in SlotSum(r)
  BY <1>2
<1>4. /\ Good(m)
      /\ LevelScalesOnly =>
           /\ ~x.relin /\ ~y.relin
           /\ LevelsLeft(m) = Least(LevelsLeft(x), LevelsLeft(y)) - 1
  BY ProductGood
<1>5. Good(n) /\ n.depth = m.depth /\ n.rescale = m.rescale
  BY <1>4, RelinearizedGood
<1>6. LevelsLeft(n) = LevelsLeft(m)
  BY <1>5 DEF LevelsLeft, Level
<1>7. /\ Good(r)
      /\ LevelScalesOnly => LevelsLeft(r) = LevelsLeft(n) /\ LevelsLeft(n) >= 0
  BY <1>5, RescalingGood
<1>8. /\ Good(z)
      /\ LevelScalesOnly => ~z.relin /\ LevelsLeft(z) = LevelsLeft(r)
  BY <1>3, <1>7, SlotSumGood
<1>9. ASSUME LevelScalesOnly PROVE LevelsLeft(x) > 0 /\ LevelsLeft(y) > 0
  <2>1. Least(LevelsLeft(x), LevelsLeft(y)) - 1 >= 0
    BY <1>4, <1>6, <1>7, <1>9
  <2>2. LevelsLeft(x) \in Int /\ LevelsLeft(y) \in Int
    BY <1>9, LeftRange
  <2>3. QED
    BY <2>1, <2>2 DEF Least, Budget!Lesser
<1>10. QED
  BY <1>4, <1>6, <1>7, <1>8, <1>9

LEMMA PlainInnerProductGood ==
  ASSUME NEW x, NEW p, Good(x), GoodPlain(p), NEW z \in PlainInnerProduct(x, p)
  PROVE  /\ Good(z)
         /\ LevelScalesOnly =>
              /\ ~z.relin /\ ~x.relin
              /\ LevelsLeft(z) = Least(LevelsLeft(x), Level(p)) - 1
              /\ LevelsLeft(x) >= 0
<1>1. PICK m \in PlainProduct(x, p) : \E r \in Rescaling(m) : z \in SlotSum(r)
  BY DEF PlainInnerProduct
<1>2. PICK r \in Rescaling(m) : z \in SlotSum(r)
  BY <1>1
<1>3. /\ Good(m)
      /\ LevelScalesOnly =>
           /\ ~x.relin /\ LevelsLeft(x) >= 0
           /\ LevelsLeft(m) = Least(LevelsLeft(x), Level(p)) - 1
  BY PlainProductGood
<1>4. Good(r) /\ (LevelScalesOnly => LevelsLeft(r) = LevelsLeft(m))
  BY <1>3, RescalingGood
<1>5. /\ Good(z)
      /\ LevelScalesOnly => ~z.relin /\ LevelsLeft(z) = LevelsLeft(r)
  BY <1>2, <1>4, SlotSumGood
<1>6. QED
  BY <1>3, <1>4, <1>5

-----------------------------------------------------------------------------
(* The invariant, and what every action costs in LevelBudget.              *)

LEMMA Initially == Init => IInv
  BY DEF Init, IInv

(* What an output that is good keeps and gives.                            *)
LEMMA StoreGives ==
  ASSUME IInv, NEW o \in Ciphertexts, NEW z, Good(z), Store(o, z)
  PROVE  IInv' /\ Budget!Give(o, LevelsLeft(z), ~z.relin)
<1>1. ct' = [ct EXCEPT ![o] = {z}] /\ pt' = pt
  BY DEF Store
<1>2. z \in Cipher
  BY DEF Good
<1>3. ct' \in [Ciphertexts -> SUBSET Cipher]
  BY <1>1, <1>2 DEF IInv
<1>4. \A c \in Ciphertexts : \A x \in ct'[c] : Good(x)
  BY <1>1 DEF IInv
<1>5. IInv'
  BY <1>1, <1>3, <1>4 DEF IInv
<1>6. \A c \in Ciphertexts : ct'[c] = IF c = o THEN {z} ELSE ct[c]
  BY <1>1 DEF IInv
<1>7. Budget!Give(o, LevelsLeft(z), ~z.relin)
  <2> DEFINE See(x) == [left |-> LevelsLeft(x), linear |-> ~x.relin]
             after == [c \in Ciphertexts |-> {See(x) : x \in ct'[c]}]
             before == [c \in Ciphertexts |-> {See(x) : x \in ct[c]}]
  <2>1. {See(x) : x \in {z}} = {See(z)}
    OBVIOUS
  <2>2. \A c \in Ciphertexts :
          {See(x) : x \in ct'[c]} =
            IF c = o THEN {See(z)} ELSE {See(x) : x \in ct[c]}
    <3> HIDE DEF See
    <3>1. QED
      BY <1>6, <2>1
  <2>3. after = [before EXCEPT ![o] = {See(z)}]
    <3> HIDE DEF See
    <3>1. QED
      BY <2>2
  <2>4. QED
    BY <2>3 DEF Budget!Give, Budgets
<1>8. QED
  BY <1>5, <1>7

LEMMA StorePlainKeeps ==
  ASSUME IInv, NEW p \in Plaintexts, NEW z, GoodPlain(z), StorePlain(p, z)
  PROVE  IInv' /\ UNCHANGED Budgets
<1>1. pt' = [pt EXCEPT ![p] = {z}] /\ ct' = ct
  BY DEF StorePlain
<1>2. z \in Plain
  BY DEF GoodPlain
<1>3. pt' \in [Plaintexts -> SUBSET Plain]
  BY <1>1, <1>2 DEF IInv
<1>4. \A q \in Plaintexts : \A x \in pt'[q] : GoodPlain(x)
  BY <1>1 DEF IInv
<1>5. QED
  BY <1>1, <1>3, <1>4 DEF IInv, Budgets

(* What LevelBudget sees of a ciphertext.                                  *)
LEMMA Seen ==
  ASSUME NEW c \in Ciphertexts, NEW x \in ct[c]
  PROVE  [left |-> LevelsLeft(x), linear |-> ~x.relin] \in Budgets[c]
  BY DEF Budgets

LEMMA FreeStep ==
  ASSUME IInv, NEW o \in Ciphertexts, NEW i \in Ciphertexts, NEW x \in ct[i],
         NEW z, Good(z), Store(o, z),
         LevelScalesOnly => LevelsLeft(z) = LevelsLeft(x) /\ z.relin = x.relin
  PROVE  IInv' /\ (LevelScalesOnly => Budget!Free(o, i))
  BY StoreGives, Seen DEF Budget!Free

LEMMA Held ==
  ASSUME IInv
  PROVE  /\ \A c \in Ciphertexts : \A x \in ct[c] : Good(x) /\ x.relin \in BOOLEAN
         /\ \A p \in Plaintexts : \A x \in pt[p] : GoodPlain(x)
  BY CipherTypes DEF IInv, Good

LEMMA SameLevels ==
  ASSUME NEW x, NEW z, z.depth = x.depth, z.rescale = x.rescale
  PROVE  LevelsLeft(z) = LevelsLeft(x)
  BY DEF LevelsLeft, Level

LEMMA MultiplyStep ==
  ASSUME IInv, NEW o \in Ciphertexts, NEW i \in Ciphertexts, NEW j \in Ciphertexts,
         Multiply(o, i, j)
  PROVE  IInv' /\ (LevelScalesOnly => Budget!Product(o, i, j))
<1>1. PICK x \in ct[i], y \in ct[j] : \E z \in Product(x, y) : Store(o, z)
  BY DEF Multiply
<1>2. PICK z \in Product(x, y) : Store(o, z)
  BY <1>1
<1>3. Good(x) /\ Good(y)
  BY Held
<1>4. /\ Good(z)
      /\ LevelScalesOnly =>
           /\ z.relin /\ ~x.relin /\ ~y.relin
           /\ LevelsLeft(z) = Least(LevelsLeft(x), LevelsLeft(y)) - 1
           /\ LevelsLeft(x) >= 0 /\ LevelsLeft(y) >= 0
  BY <1>3, ProductGood
<1>5. IInv' /\ Budget!Give(o, LevelsLeft(z), ~z.relin)
  BY <1>2, <1>4, StoreGives
<1>6. QED
  BY <1>4, <1>5, Seen DEF Budget!Product, Least

LEMMA InnerProductStep ==
  ASSUME IInv, NEW o \in Ciphertexts, NEW i \in Ciphertexts, NEW j \in Ciphertexts,
         InnerProduct(o, i, j)
  PROVE  IInv' /\ (LevelScalesOnly => Budget!InnerProduct(o, i, j))
<1>1. PICK x \in ct[i], y \in ct[j] :
        \E z \in CipherInnerProduct(x, y) : Store(o, z)
  BY DEF InnerProduct
<1>2. PICK z \in CipherInnerProduct(x, y) : Store(o, z)
  BY <1>1
<1>3. Good(x) /\ Good(y)
  BY Held
<1>4. /\ Good(z)
      /\ LevelScalesOnly =>
           /\ ~z.relin /\ ~x.relin /\ ~y.relin
           /\ LevelsLeft(z) = Least(LevelsLeft(x), LevelsLeft(y)) - 1
           /\ LevelsLeft(x) > 0 /\ LevelsLeft(y) > 0
  BY <1>3, CipherInnerProductGood
<1>5. IInv' /\ Budget!Give(o, LevelsLeft(z), ~z.relin)
  BY <1>2, <1>4, StoreGives
<1>6. QED
  BY <1>4, <1>5, Seen DEF Budget!InnerProduct, Least

LEMMA SumStep ==
  ASSUME IInv, NEW o \in Ciphertexts, NEW i \in Ciphertexts, NEW j \in Ciphertexts,
         Add(o, i, j) \/ Sub(o, i, j)
  PROVE  IInv' /\ (LevelScalesOnly => Budget!Sum(o, i, j))
<1>1. PICK x \in ct[i], y \in ct[j] : \E z \in Sum(x, y) : Store(o, z)
  BY DEF Add, Sub
<1>2. PICK z \in Sum(x, y) : Store(o, z)
  BY <1>1
<1>3. Good(x) /\ Good(y) /\ x.relin \in BOOLEAN /\ y.relin \in BOOLEAN
  BY Held
<1>4. /\ Good(z)
      /\ LevelScalesOnly =>
           /\ z.relin = x.relin /\ x.relin = y.relin
           /\ LevelsLeft(z) = Least(LevelsLeft(x), LevelsLeft(y))
  BY <1>3, SumGood
<1>5. IInv' /\ Budget!Give(o, LevelsLeft(z), ~z.relin)
  BY <1>2, <1>4, StoreGives
<1>6. QED
  BY <1>3, <1>4, <1>5, Seen DEF Budget!Sum, Least

LEMMA EncryptStep ==
  ASSUME IInv, NEW o \in Ciphertexts, NEW p \in Plaintexts, Encrypt(o, p)
  PROVE  IInv' /\ (LevelScalesOnly => Budget!Fresh(o))
<1>1. PICK x \in pt[p] :
        /\ x.depth <= L
        /\ Store(o, [depth |-> x.depth, scale |-> x.scale, rescale |-> FALSE,
                     relin |-> FALSE, data |-> {x.scale}])
  BY DEF Encrypt
<1> DEFINE z == [depth |-> x.depth, scale |-> x.scale, rescale |-> FALSE,
                 relin |-> FALSE, data |-> {x.scale}]
<1>2. GoodPlain(x) /\ x.depth \in 0 .. L /\ x.scale \in Int
  BY <1>1, Held, ChainTypes DEF GoodPlain, Plain
<1>3. z \in Cipher
  BY <1>2 DEF Cipher, Levels
<1>4. Level(z) = Level(x)
  BY DEF Level
<1>5. LevelScalesOnly => HasLevelScale(z)
  BY <1>2, <1>4, ChainTypes DEF GoodPlain, PlainHasLevelScale, HasLevelScale
<1>6. Good(z)
  BY <1>3, <1>5 DEF Good, Bears
<1>7. IInv' /\ Budget!Give(o, LevelsLeft(z), ~z.relin)
  BY <1>1, <1>6, StoreGives
<1>8. LevelScalesOnly => LevelsLeft(z) \in 0 .. Top
  BY <1>2, <1>4, LeftRangePlain, ChainTypes DEF LevelsLeft
<1>9. QED
  BY <1>7, <1>8 DEF Budget!Fresh

LEMMA PlainProductStep ==
  ASSUME IInv, NEW o \in Ciphertexts, NEW i \in Ciphertexts, NEW p \in Plaintexts,
         MultiplyPlain(o, i, p) \/ InnerProductPlain(o, i, p)
  PROVE  /\ IInv'
         /\ LevelScalesOnly =>
              \E e \in pt[p] : Level(e) \in 0 .. Top
                               /\ Budget!PlainProduct(o, i, Level(e))
<1>1. PICK x \in ct[i], y \in pt[p] :
        \E z \in PlainProduct(x, y) \cup PlainInnerProduct(x, y) : Store(o, z)
  BY DEF MultiplyPlain, InnerProductPlain
<1>2. PICK z \in PlainProduct(x, y) \cup PlainInnerProduct(x, y) : Store(o, z)
  BY <1>1
<1>3. Good(x) /\ GoodPlain(y)
  BY Held
<1>4. /\ Good(z)
      /\ LevelScalesOnly =>
           /\ ~z.relin /\ ~x.relin
           /\ LevelsLeft(z) = Least(LevelsLeft(x), Level(y)) - 1
           /\ LevelsLeft(x) >= 0
  BY <1>3, PlainProductGood, PlainInnerProductGood
<1>5. IInv' /\ Budget!Give(o, LevelsLeft(z), ~z.relin)
  BY <1>2, <1>4, StoreGives
<1>6. LevelScalesOnly => Budget!PlainProduct(o, i, Level(y))
  BY <1>4, <1>5, Seen DEF Budget!PlainProduct, Least
<1>7. QED
  BY <1>3, <1>5, <1>6, LeftRangePlain

LEMMA PlainSumStep ==
  ASSUME IInv, NEW o \in Ciphertexts, NEW i \in Ciphertexts, NEW p \in Plaintexts,
         AddPlain(o, i, p) \/ SubPlain(o, i, p)
  PROVE  /\ IInv'
         /\ LevelScalesOnly =>
              \E e \in pt[p] : Level(e) \in 0 .. Top
                               /\ Budget!PlainSum(o, i, Level(e))
<1>1. PICK x \in ct[i], y \in pt[p] : \E z \in PlainSum(x, y) : Store(o, z)
  BY DEF AddPlain, SubPlain
<1>2. PICK z \in PlainSum(x, y) : Store(o, z)
  BY <1>1
<1>3. Good(x) /\ GoodPlain(y)
  BY Held
<1>4. /\ Good(z) /\ ~z.relin
      /\ LevelScalesOnly =>
           ~x.relin /\ LevelsLeft(z) = Least(LevelsLeft(x), Level(y))
  BY <1>3, PlainSumGood
<1>5. IInv' /\ Budget!Give(o, LevelsLeft(z), ~z.relin)
  BY <1>2, <1>4, StoreGives
<1>6. LevelScalesOnly => Budget!PlainSum(o, i, Level(y))
  BY <1>4, <1>5, Seen DEF Budget!PlainSum, Least
<1>7. QED
  BY <1>3, <1>5, <1>6, LeftRangePlain

LEMMA MultiplyConstantStep ==
  ASSUME IInv, NEW o \in Ciphertexts, NEW i \in Ciphertexts,
         MultiplyConstant(o, i)
  PROVE  IInv' /\ (LevelScalesOnly => Budget!PlainProduct(o, i, Top))
<1>1. PICK x \in ct[i], bits \in ConstantScales :
        \E z \in ConstantProduct(x, bits) : Store(o, z)
  BY DEF MultiplyConstant
<1>2. PICK z \in ConstantProduct(x, bits) : Store(o, z)
  BY <1>1
<1>3. Good(x) /\ bits \in Int
  BY Held, LevelsAssumption
<1>4. /\ Good(z) /\ ~z.relin
      /\ LevelScalesOnly =>
           /\ ~x.relin
           /\ LevelsLeft(z) = LevelsLeft(x) - 1
           /\ LevelsLeft(x) >= 0
  BY <1>3, ConstantProductGood
<1>5. IInv' /\ Budget!Give(o, LevelsLeft(z), ~z.relin)
  BY <1>2, <1>4, StoreGives
<1>6. LevelScalesOnly => Least(LevelsLeft(x), Top) = LevelsLeft(x)
  BY <1>3, LeftRange, LeastFacts, ChainTypes
<1>7. QED
  BY <1>4, <1>5, <1>6, Seen DEF Budget!PlainProduct, Least

LEMMA DropStep ==
  ASSUME IInv, NEW o \in Ciphertexts, NEW i \in Ciphertexts,
         ModDrop(o, i) \/ (o = i /\ ModDropInplace(o))
  PROVE  IInv' /\ (LevelScalesOnly => Budget!Drop(o, i))
<1>1. PICK x \in ct[i] : \E z \in Drop(x) \cup DropInplace(x) : Store(o, z)
  BY DEF ModDrop, ModDropInplace
<1>2. PICK z \in Drop(x) \cup DropInplace(x) : Store(o, z)
  BY <1>1
<1>3. Good(x)
  BY Held
<1>4. /\ Good(z)
      /\ LevelScalesOnly =>
           /\ ~x.relin /\ ~z.relin
           /\ LevelsLeft(z) = LevelsLeft(x) - 1
           /\ LevelsLeft(x) > 0
  BY <1>3, DropGood
<1>5. IInv' /\ Budget!Give(o, LevelsLeft(z), ~z.relin)
  BY <1>2, <1>4, StoreGives
<1>6. QED
  BY <1>4, <1>5, Seen DEF Budget!Drop

LEMMA RelinearizeStep ==
  ASSUME IInv, NEW o \in Ciphertexts, RelinearizeInplace(o)
  PROVE  IInv' /\ (LevelScalesOnly => Budget!Relinearize(o))
<1>1. PICK x \in ct[o] : \E z \in Relinearized(x) : Store(o, z)
  BY DEF RelinearizeInplace
<1>2. PICK z \in Relinearized(x) : Store(o, z)
  BY <1>1
<1>3. /\ Good(z) /\ ~z.relin /\ x.relin
      /\ z.depth = x.depth /\ z.rescale = x.rescale
  BY Held, RelinearizedGood
<1>4. LevelsLeft(z) = LevelsLeft(x)
  BY <1>3, SameLevels
<1>5. IInv' /\ Budget!Give(o, LevelsLeft(z), ~z.relin)
  BY <1>2, <1>3, StoreGives
<1>6. QED
  BY <1>3, <1>4, <1>5, Seen DEF Budget!Relinearize

(* The actions that keep the levels left and the parts of a ciphertext.    *)
FreeActions(o, i) ==
  \/ AddConstant(o, i) \/ SubConstant(o, i) \/ AddComplex(o, i)
  \/ MultiplyComplex(o, i) \/ ScaleUp(o, i)
  \/ Negate(o, i) \/ MultI(o, i) \/ DivI(o, i)
  \/ Rotate(o, i) \/ RotateHoisted(o, i) \/ ApplyGalois(o, i)
  \/ Keyswitch(o, i) \/ Conjugate(o, i) \/ SumSlots(o, i)

LEMMA FreeActionsStep ==
  ASSUME IInv, NEW o \in Ciphertexts, NEW i \in Ciphertexts,
         FreeActions(o, i) \/ (o = i /\ RescaleInplace(o))
  PROVE  IInv' /\ (LevelScalesOnly => Budget!Free(o, i))
<1>1. CASE AddConstant(o, i) \/ SubConstant(o, i)
  <2>1. PICK x \in ct[i] : \E z \in PlusConstant(x) : Store(o, z)
    BY <1>1 DEF AddConstant, SubConstant
  <2>2. PICK z \in PlusConstant(x) : Store(o, z)
    BY <2>1
  <2>3. /\ Good(z) /\ ~z.relin /\ ~x.relin
        /\ z.depth = x.depth /\ z.rescale = x.rescale
    BY Held, PlusConstantGood
  <2>4. z.relin = x.relin
    BY <2>3, Held, CipherTypes DEF Good
  <2>5. QED
    BY <2>2, <2>3, <2>4, SameLevels, FreeStep
<1>2. CASE AddComplex(o, i)
  <2>1. PICK x \in ct[i] : Store(o, PlusComplex(x))
    BY <1>2 DEF AddComplex
  <2>2. /\ Good(PlusComplex(x)) /\ PlusComplex(x).relin = x.relin
        /\ LevelsLeft(PlusComplex(x)) = LevelsLeft(x)
    BY Held, PlusComplexGood, SameLevels
  <2>3. QED
    BY <2>1, <2>2, FreeStep
<1>3. CASE MultiplyComplex(o, i)
  <2>1. PICK x \in ct[i], fraction \in Fractions :
          Store(o, TimesComplex(x, fraction))
    BY <1>3 DEF MultiplyComplex
  <2>2. fraction \in BOOLEAN /\ (LevelScalesOnly => ~fraction)
    BY LevelsAssumption DEF LevelScalesOnly
  <2>3. /\ Good(TimesComplex(x, fraction))
        /\ TimesComplex(x, fraction).relin = x.relin
        /\ LevelsLeft(TimesComplex(x, fraction)) = LevelsLeft(x)
    BY <2>2, Held, TimesComplexGood, SameLevels
  <2>4. QED
    BY <2>1, <2>3, FreeStep
<1>4. CASE ScaleUp(o, i)
  <2>1. PICK x \in ct[i], bits \in ScaleFactors : Store(o, ScaledUp(x, bits))
    BY <1>4 DEF ScaleUp
  <2>2. bits \in Int /\ (LevelScalesOnly => bits = 0)
    BY LevelsAssumption DEF LevelScalesOnly
  <2>3. /\ Good(ScaledUp(x, bits)) /\ ScaledUp(x, bits).relin = x.relin
        /\ LevelsLeft(ScaledUp(x, bits)) = LevelsLeft(x)
    BY <2>2, Held, ScaledUpGood, SameLevels
  <2>4. QED
    BY <2>1, <2>3, FreeStep
<1>5. CASE Negate(o, i) \/ MultI(o, i) \/ DivI(o, i)
  <2>1. PICK x \in ct[i] : Store(o, x)
    BY <1>5 DEF Negate, MultI, DivI
  <2>2. QED
    BY <2>1, Held, FreeStep
<1>6. CASE \/ Rotate(o, i) \/ RotateHoisted(o, i) \/ ApplyGalois(o, i)
           \/ Keyswitch(o, i) \/ Conjugate(o, i)
  <2>1. PICK x \in ct[i] : \E z \in Turned(x) : Store(o, z)
    BY <1>6 DEF Rotate, RotateHoisted, ApplyGalois, Keyswitch, Conjugate
  <2>2. PICK z \in Turned(x) : Store(o, z)
    BY <2>1
  <2>3. /\ Good(z) /\ ~z.relin
        /\ LevelScalesOnly => ~x.relin /\ LevelsLeft(z) = LevelsLeft(x)
    BY Held, TurnedGood
  <2>4. LevelScalesOnly => z.relin = x.relin
    BY <2>3, Held, CipherTypes DEF Good
  <2>5. QED
    BY <2>2, <2>3, <2>4, FreeStep
<1>7. CASE SumSlots(o, i)
  <2>1. PICK x \in ct[i] : \E z \in SlotSum(x) : Store(o, z)
    BY <1>7 DEF SumSlots
  <2>2. PICK z \in SlotSum(x) : Store(o, z)
    BY <2>1
  <2>3. /\ Good(z)
        /\ LevelScalesOnly =>
             ~x.relin /\ ~z.relin /\ LevelsLeft(z) = LevelsLeft(x)
    BY Held, SlotSumGood
  <2>4. LevelScalesOnly => z.relin = x.relin
    BY <2>3, Held, CipherTypes DEF Good
  <2>5. QED
    BY <2>2, <2>3, <2>4, FreeStep
<1>8. CASE o = i /\ RescaleInplace(o)
  <2>1. PICK x \in ct[i] : \E z \in Rescaling(x) : Store(o, z)
    BY <1>8 DEF RescaleInplace
  <2>2. PICK z \in Rescaling(x) : Store(o, z)
    BY <2>1
  <2>3. /\ Good(z) /\ z.relin = x.relin
        /\ LevelScalesOnly => LevelsLeft(z) = LevelsLeft(x)
    BY Held, RescalingGood
  <2>4. QED
    BY <2>2, <2>3, FreeStep
<1>9. QED
  BY <1>1, <1>2, <1>3, <1>4, <1>5, <1>6, <1>7, <1>8 DEF FreeActions

LEMMA NextPlainStep ==
  ASSUME IInv, NextPlain
  PROVE  IInv' /\ UNCHANGED Budgets
<1>1. PICK p \in Plaintexts :
        \/ Encode(p) \/ EncodeWithScale(p) \/ DropPlainInplace(p)
        \/ \E q \in Plaintexts : DropPlain(q, p)
  BY DEF NextPlain
<1>2. CASE Encode(p)
  <2>1. PICK depth \in Levels :
          /\ L - depth <= Top
          /\ StorePlain(p, [depth |-> depth, scale |-> LevelScale[L - depth]])
    BY <1>2 DEF Encode
  <2> DEFINE z == [depth |-> depth, scale |-> LevelScale[L - depth]]
  <2>2. L - depth \in 0 .. Top /\ depth \in Nat
    BY <2>1, ChainTypes DEF Levels
  <2>3. GoodPlain(z)
    BY <2>2, ChainTypes DEF GoodPlain, Plain, PlainHasLevelScale, Level
  <2>4. QED
    BY <2>1, <2>3, StorePlainKeeps
<1>3. CASE EncodeWithScale(p)
  <2>1. PICK e \in Encodings : StorePlain(p, e)
    BY <1>3 DEF EncodeWithScale
  <2>2. e \in Plain
    BY LevelsAssumption DEF Plain, Levels
  <2>3. GoodPlain(e)
    BY <2>2 DEF GoodPlain, LevelScalesOnly
  <2>4. QED
    BY <2>1, <2>3, StorePlainKeeps
<1>4. CASE DropPlainInplace(p) \/ \E q \in Plaintexts : DropPlain(q, p)
  <2>1. PICK q \in Plaintexts, x \in pt[p], n \in {1, 2} :
          PlainDrops /\ StorePlain(q, [x EXCEPT !.depth = @ + n])
    BY <1>4 DEF DropPlainInplace, DropPlain
  <2>2. x \in Plain
    BY Held DEF GoodPlain
  <2>3. [x EXCEPT !.depth = @ + n] \in Plain
    BY <2>2 DEF Plain
  <2>4. GoodPlain([x EXCEPT !.depth = @ + n])
    BY <2>1, <2>3 DEF GoodPlain, LevelScalesOnly
  <2>5. QED
    BY <2>1, <2>4, StorePlainKeeps
<1>5. QED
  BY <1>1, <1>2, <1>3, <1>4

-----------------------------------------------------------------------------
(* Every step keeps the invariant and implements a step of LevelBudget.    *)

LEMMA NextOneStep ==
  ASSUME IInv, NEW o \in Ciphertexts, NextOne(o)
  PROVE  IInv' /\ (LevelScalesOnly => Budget!Next)
<1>1. CASE RelinearizeInplace(o)
  BY <1>1, RelinearizeStep DEF Budget!Next
<1>2. CASE RescaleInplace(o)
  BY <1>2, FreeActionsStep DEF Budget!Next
<1>3. CASE ModDropInplace(o)
  BY <1>3, DropStep DEF Budget!Next
<1>4. ASSUME NEW i \in Ciphertexts, MultiplyConstant(o, i)
      PROVE  IInv' /\ (LevelScalesOnly => Budget!Next)
  <2>1. Top \in 0 .. Top
    BY ChainTypes
  <2>2. QED
    BY <1>4, <2>1, MultiplyConstantStep DEF Budget!Next
<1>5. ASSUME NEW i \in Ciphertexts, ModDrop(o, i)
      PROVE  IInv' /\ (LevelScalesOnly => Budget!Next)
  BY <1>5, DropStep DEF Budget!Next
<1>6. ASSUME NEW i \in Ciphertexts, FreeActions(o, i)
      PROVE  IInv' /\ (LevelScalesOnly => Budget!Next)
  BY <1>6, FreeActionsStep DEF Budget!Next
<1>7. QED
  BY <1>1, <1>2, <1>3, <1>4, <1>5, <1>6 DEF NextOne, FreeActions

LEMMA NextTwoStep ==
  ASSUME IInv, NEW o \in Ciphertexts, NextTwo(o)
  PROVE  IInv' /\ (LevelScalesOnly => Budget!Next)
<1>1. PICK i \in Ciphertexts :
        \/ \E j \in Ciphertexts :
             Multiply(o, i, j) \/ Add(o, i, j) \/ Sub(o, i, j)
               \/ InnerProduct(o, i, j)
        \/ \E p \in Plaintexts :
             MultiplyPlain(o, i, p) \/ AddPlain(o, i, p) \/ SubPlain(o, i, p)
               \/ InnerProductPlain(o, i, p)
  BY DEF NextTwo
<1>2. ASSUME NEW j \in Ciphertexts,
             Multiply(o, i, j) \/ Add(o, i, j) \/ Sub(o, i, j)
               \/ InnerProduct(o, i, j)
      PROVE  IInv' /\ (LevelScalesOnly => Budget!Next)
  BY <1>2, MultiplyStep, SumStep, InnerProductStep DEF Budget!Next
<1>3. ASSUME NEW p \in Plaintexts,
             MultiplyPlain(o, i, p) \/ AddPlain(o, i, p) \/ SubPlain(o, i, p)
               \/ InnerProductPlain(o, i, p)
      PROVE  IInv' /\ (LevelScalesOnly => Budget!Next)
  BY <1>3, PlainProductStep, PlainSumStep DEF Budget!Next
<1>4. QED
  BY <1>1, <1>2, <1>3

LEMMA Step ==
  ASSUME IInv, [Next]_vars
  PROVE  IInv' /\ (LevelScalesOnly => [Budget!Next]_Budgets)
<1>1. CASE NextPlain
  BY <1>1, NextPlainStep
<1>2. CASE NextCipher
  <2>1. PICK o \in Ciphertexts :
          (\E p \in Plaintexts : Encrypt(o, p)) \/ NextOne(o) \/ NextTwo(o)
    BY <1>2 DEF NextCipher
  <2>2. CASE \E p \in Plaintexts : Encrypt(o, p)
    BY <2>2, EncryptStep DEF Budget!Next
  <2>3. QED
    BY <2>1, <2>2, NextOneStep, NextTwoStep
<1>3. CASE UNCHANGED vars
  BY <1>3 DEF vars, IInv, Budgets
<1>4. QED
  BY <1>1, <1>2, <1>3 DEF Next

LEMMA Costs ==
  ASSUME IInv, LevelScalesOnly
  PROVE  CipherCosts /\ PlainCosts /\ OtherCosts
<1>1. CipherCosts
  BY MultiplyStep, InnerProductStep, SumStep DEF CipherCosts
<1>2. PlainCosts
  BY EncryptStep, PlainProductStep, PlainSumStep DEF PlainCosts
<1>3. OtherCosts
  <2>1. \A o, i \in Ciphertexts : FreeActions(o, i) => Budget!Free(o, i)
    BY FreeActionsStep
  <2>2. \A o, i \in Ciphertexts :
          /\ MultiplyConstant(o, i) => Budget!PlainProduct(o, i, Top)
          /\ ModDrop(o, i) => Budget!Drop(o, i)
          /\ ModDropInplace(o) => Budget!Drop(o, o)
          /\ RelinearizeInplace(o) => Budget!Relinearize(o)
          /\ RescaleInplace(o) => Budget!Free(o, o)
    BY MultiplyConstantStep, DropStep, RelinearizeStep, FreeActionsStep
  <2>3. QED
    BY <2>1, <2>2 DEF OtherCosts, FreeActions
<1>4. QED
  BY <1>1, <1>2, <1>3

(* What the invariant says of the ciphertexts that were made.              *)
LEMMA GoodMade ==
  ASSUME IInv
  PROVE  /\ TypeOK /\ RelinearizedFirst /\ ScaleOfATerm
         /\ LevelScalesOnly => ScaleOfLevel
         /\ LevelScalesOnly /\ FactorsFit => ScaleIsTrue
<1>1. \A x \in Made : Good(x)
  BY Held DEF Made
<1>2. TypeOK
  BY DEF IInv, TypeOK
<1>3. QED
  BY <1>1, <1>2
    DEF Good, Bears, RelinearizedFirst, ScaleOfATerm, ScaleOfLevel, ScaleIsTrue

LEMMA Invariance == Spec => []IInv
<1>1. IInv /\ [Next]_vars => IInv'
  BY Step
<1>2. QED
  BY <1>1, Initially, PTL DEF Spec

-----------------------------------------------------------------------------
(* Operands with levels left can always be prepared.                       *)

LEMMA SettledSome ==
  ASSUME NEW x, Good(x), ~x.relin, LevelsLeft(x) >= 0
  PROVE  \E z \in Settled(x) : TRUE
<1>1. CASE x.rescale
  <2>1. Level(x) # 0
    BY <1>1, CipherTypes, ChainTypes DEF Good, LevelsLeft
  <2>2. QED
    BY <1>1, <2>1 DEF Settled, Rescaled
<1>2. CASE ~x.rescale
  BY <1>2 DEF Settled
<1>3. QED
  BY <1>1, <1>2

LEMMA BroughtDownSome ==
  ASSUME NEW x, ~x.relin, NEW depth \in 0 .. L, L - depth <= Top
  PROVE  \E z \in BroughtDown(x, depth) : TRUE
<1>1. CASE x.depth = depth
  BY <1>1 DEF BroughtDown
<1>2. CASE x.depth # depth
  <2>1. ~(x.relin \/ depth > L \/ L - depth > Top)
    BY ChainTypes
  <2>2. QED
    BY <1>2, <2>1 DEF BroughtDown
<1>3. QED
  BY <1>1, <1>2

LEMMA PreparedSome ==
  ASSUME LevelScalesOnly, NEW keep \in BOOLEAN,
         NEW x, Good(x), ~x.relin, LevelsLeft(x) >= 0,
         NEW y, Good(y), ~y.relin, LevelsLeft(y) >= 0
  PROVE  \E a, b : <<a, b>> \in Prepared(x, y, keep)
<1>1. SUFFICES \E p \in Unscaled(x, y, keep) : \E a, b :
                 /\ <<a, b>> \in OneLevel(p)
                 /\ HasLevelScale(a) /\ HasLevelScale(b)
  BY DEF Prepared
<1>2. CASE keep /\ KeepsRescale(x, y)
  <2>1. <<x, y>> \in Unscaled(x, y, keep) /\ x.depth = y.depth
    BY <1>2 DEF Unscaled, KeepsRescale
  <2>2. x.depth \in Int /\ y.depth \in Int
    BY CipherTypes DEF Good
  <2>3. <<x, y>> \in OneLevel(<<x, y>>)
    BY <2>1, <2>2 DEF OneLevel, BroughtDown
  <2>4. QED
    BY <2>1, <2>3 DEF Good
<1>3. CASE ~(keep /\ KeepsRescale(x, y))
  <2>1. PICK s \in Settled(x), t \in Settled(y) : TRUE
    BY SettledSome
  <2>2. <<s, t>> \in Unscaled(x, y, keep)
    BY <1>3, <2>1 DEF Unscaled
  <2>3. Good(s) /\ ~s.rescale /\ ~s.relin /\ Good(t) /\ ~t.rescale /\ ~t.relin
    BY SettledGood
  <2>4. /\ s.depth \in 0 .. L /\ t.depth \in 0 .. L
        /\ L - s.depth \in 0 .. Top /\ L - t.depth \in 0 .. Top
    BY <2>3, CipherTypes DEF Good, HasLevelScale, Level
  <2>5. CASE s.depth < t.depth
    <3>1. PICK a \in BroughtDown(s, t.depth) : TRUE
      BY <2>3, <2>4, BroughtDownSome
    <3>2. Good(a)
      BY <2>3, <2>4, <2>5, <3>1, BroughtDownGood
    <3>3. <<a, t>> \in OneLevel(<<s, t>>)
      BY <2>5, <3>1 DEF OneLevel
    <3>4. QED
      BY <2>2, <2>3, <3>2, <3>3 DEF Good
  <2>6. CASE ~(s.depth < t.depth)
    <3>1. PICK b \in BroughtDown(t, s.depth) : TRUE
      BY <2>3, <2>4, BroughtDownSome
    <3>2. Good(b)
      BY <2>3, <2>4, <2>6, <3>1, BroughtDownGood
    <3>3. <<s, b>> \in OneLevel(<<s, t>>)
      BY <2>6, <3>1 DEF OneLevel
    <3>4. QED
      BY <2>2, <2>3, <3>2, <3>3 DEF Good
  <2>7. QED
    BY <2>5, <2>6
<1>4. QED
  BY <1>2, <1>3

LEMMA PreparedPair ==
  ASSUME LevelScalesOnly, NEW keep \in BOOLEAN,
         NEW x, Good(x), ~x.relin, LevelsLeft(x) >= 0,
         NEW y, Good(y), ~y.relin, LevelsLeft(y) >= 0
  PROVE  \E o \in Operands(x, y, keep) :
           /\ o = <<o[1], o[2]>>
           /\ Good(o[1]) /\ Good(o[2]) /\ o[1].depth = o[2].depth
           /\ ~o[1].relin /\ ~o[2].relin
           /\ keep \/ (~o[1].rescale /\ ~o[2].rescale)
<1>1. PICK a, b : <<a, b>> \in Prepared(x, y, keep)
  BY PreparedSome
<1>2. /\ Good(a) /\ Good(b) /\ a.depth = b.depth
      /\ ~a.relin /\ ~b.relin /\ (keep \/ (~a.rescale /\ ~b.rescale))
  BY <1>1, PreparedGood
<1>3. <<a, b>> \in Operands(x, y, keep)
  BY <1>1 DEF Operands, LevelScalesOnly
<1> DEFINE o == <<a, b>>
<1>4. o[1] = a /\ o[2] = b
  OBVIOUS
<1> HIDE DEF o
<1>5. o \in Operands(x, y, keep) /\ o = <<a, b>>
  BY <1>3 DEF o
<1>6. QED
  BY <1>2, <1>4, <1>5

LEMMA ProductMeets ==
  ASSUME LevelScalesOnly,
         NEW x, Good(x), ~x.relin, LevelsLeft(x) >= 0,
         NEW y, Good(y), ~y.relin, LevelsLeft(y) >= 0
  PROVE  \E z \in Product(x, y) :
           LevelsLeft(z) = Least(LevelsLeft(x), LevelsLeft(y)) - 1
<1>1. PICK o \in Operands(x, y, FALSE) :
        /\ ~o[1].relin /\ ~o[2].relin /\ ~o[1].rescale /\ ~o[2].rescale
        /\ o[1].depth = o[2].depth
  BY PreparedPair
<1>2. PICK z \in TimesCipher(o[1], o[2]) : TRUE
  BY <1>1 DEF TimesCipher
<1>3. z \in Product(x, y)
  BY <1>2 DEF Product
<1>4. QED
  BY <1>3, ProductGood

LEMMA SumMeets ==
  ASSUME LevelScalesOnly,
         NEW x, Good(x), ~x.relin, LevelsLeft(x) >= 0,
         NEW y, Good(y), ~y.relin, LevelsLeft(y) >= 0
  PROVE  \E z \in Sum(x, y) :
           LevelsLeft(z) = Least(LevelsLeft(x), LevelsLeft(y))
<1>1. PICK o \in Operands(x, y, TRUE) :
        /\ Good(o[1]) /\ Good(o[2]) /\ ~o[1].relin /\ ~o[2].relin
        /\ o[1].depth = o[2].depth
  BY PreparedPair
<1>2. o[1].relin = o[2].relin
  BY <1>1, CipherTypes DEF Good
<1>3. PICK z \in PlusCipher(o[1], o[2]) : TRUE
  BY <1>1, <1>2 DEF PlusCipher
<1>4. z \in Sum(x, y)
  BY <1>3 DEF Sum
<1>5. QED
  BY <1>4, SumGood

LEMMA PlainProductMeets ==
  ASSUME LevelScalesOnly,
         NEW x, Good(x), ~x.relin, LevelsLeft(x) >= 0,
         NEW p, GoodPlain(p), Level(p) \in 0 .. LevelsLeft(x)
  PROVE  \E z \in PlainProduct(x, p) : LevelsLeft(z) = Level(p) - 1
<1>1. PICK s \in Settled(x) : TRUE
  BY SettledSome
<1>2. Good(s) /\ ~s.rescale /\ ~s.relin /\ LevelsLeft(s) = LevelsLeft(x)
  BY SettledGood
<1>3. /\ s.depth \in 0 .. L /\ p.depth \in 0 .. L /\ s.depth <= p.depth
      /\ L - p.depth \in 0 .. Top /\ p \in Plain
  <2>1. LevelsLeft(x) = L - s.depth /\ s.depth \in 0 .. L
    BY <1>2, LeftRange, CipherTypes DEF Good, Level
  <2>2. L - p.depth \in 0 .. Top /\ p \in Plain /\ p.depth \in Nat
    BY DEF GoodPlain, PlainHasLevelScale, Level, Plain
  <2>3. L - p.depth <= L - s.depth
    BY <2>1 DEF Level
  <2>4. QED
    BY <2>1, <2>2, <2>3, ChainTypes
<1>4. PICK a : /\ <<a, p>> \in OneLevelPlain(s, p)
               /\ Good(a) /\ ~a.relin /\ a.depth = p.depth
  <2>1. CASE s.depth < p.depth
    <3>1. PICK a \in BroughtDown(s, p.depth) : TRUE
      BY <1>2, <1>3, BroughtDownSome
    <3>2. Good(a) /\ ~a.relin /\ a.depth = p.depth
      BY <1>2, <1>3, <3>1, BroughtDownGood
    <3>3. QED
      BY <2>1, <3>1, <3>2 DEF OneLevelPlain
  <2>2. CASE ~(s.depth < p.depth)
    <3>1. s.depth = p.depth
      BY <1>3, <2>2
    <3>2. [p EXCEPT !.depth = s.depth] = p
      BY <1>3, <3>1 DEF Plain
    <3>3. QED
      BY <1>2, <2>2, <3>1, <3>2 DEF OneLevelPlain
  <2>3. QED
    BY <2>1, <2>2
<1>5. <<a, p>> \in OperandsPlain(x, p)
  BY <1>1, <1>4 DEF OperandsPlain, PreparedPlain, LevelScalesOnly, Good, GoodPlain
<1>6. PICK z \in TimesPlain(a, p) : TRUE
  BY <1>4 DEF TimesPlain
<1>7. z \in PlainProduct(x, p)
  BY <1>5, <1>6 DEF PlainProduct
<1>8. LevelsLeft(z) = Least(LevelsLeft(x), Level(p)) - 1
  BY <1>7, PlainProductGood
<1>9. Least(LevelsLeft(x), Level(p)) = Level(p)
  BY LeftRange DEF Least, Budget!Lesser
<1>10. QED
  BY <1>7, <1>8, <1>9

LEMMA Meet ==
  ASSUME IInv, LevelScalesOnly
  PROVE  OperandsMeet
<1>1. SUFFICES ASSUME NEW x \in Made, ~x.relin, LevelsLeft(x) >= 0,
                      NEW y \in Made, ~y.relin, LevelsLeft(y) >= 0
               PROVE  /\ \E z \in Product(x, y) :
                           LevelsLeft(z) = Least(LevelsLeft(x), LevelsLeft(y)) - 1
                      /\ \E z \in Sum(x, y) :
                           LevelsLeft(z) = Least(LevelsLeft(x), LevelsLeft(y))
                      /\ \A p \in Plaintexts : \A e \in pt[p] :
                           Level(e) \in 0 .. LevelsLeft(x) =>
                             \E z \in PlainProduct(x, e) :
                               LevelsLeft(z) = Level(e) - 1
  BY DEF OperandsMeet, Least
<1>2. Good(x) /\ Good(y)
  BY Held DEF Made
<1>3. \A p \in Plaintexts : \A e \in pt[p] : GoodPlain(e)
  BY Held
<1>4. QED
  BY <1>1, <1>2, <1>3, ProductMeets, SumMeets, PlainProductMeets

(* What the manual mode does right, the automatic mode does.               *)
PositiveScales == \A l \in 0 .. Top : LevelScale[l] > 0

LEMMA ManualSum ==
  ASSUME LevelScalesOnly, FactorsFit, PositiveScales,
         NEW x, Good(x), NEW y, Good(y),
         NEW z \in PlusCipher(x, y), z.data = {z.scale}
  PROVE  z \in Sum(x, y)
<1>1. /\ x.depth = y.depth /\ x.depth \in Int
      /\ z = [x EXCEPT !.rescale = @ \/ y.rescale, !.data = Together(@, y.data)]
  BY CipherTypes DEF PlusCipher, Good
<1>2. HasLevelScale(x) /\ HasLevelScale(y) /\ x \in Cipher /\ y \in Cipher
  BY DEF Good
<1>3. x.rescale = y.rescale
  <2>1. x.data = {x.scale} /\ y.data = {y.scale}
    BY DEF Good
  <2>2. z.scale = x.scale /\ z.data = Together(x.data, y.data)
    BY <1>1, <1>2 DEF Cipher
  <2>3. x.scale = y.scale
    BY <2>1, <2>2 DEF Together
  <2>4. Level(x) = Level(y) /\ Level(x) \in 0 .. Top
    BY <1>1, <1>2 DEF Level, HasLevelScale
  <2>5. LevelScale[Level(x)] \in Int /\ LevelScale[Level(x)] > 0
    BY <2>4, ChainTypes DEF PositiveScales
  <2>6. x.rescale \in BOOLEAN /\ y.rescale \in BOOLEAN
    BY <1>2, CipherTypes
  <2>7. (IF x.rescale THEN 2 ELSE 1) * LevelScale[Level(x)]
          = (IF y.rescale THEN 2 ELSE 1) * LevelScale[Level(x)]
    BY <1>2, <2>3, <2>4 DEF HasLevelScale
  <2>8. QED
    BY <2>5, <2>6, <2>7
<1>4. <<x, y>> \in Unscaled(x, y, TRUE)
  BY <1>1, <1>3 DEF Unscaled, KeepsRescale, Settled
<1>5. <<x, y>> \in OneLevel(<<x, y>>)
  BY <1>1 DEF OneLevel, BroughtDown
<1>6. <<x, y>> \in Prepared(x, y, TRUE)
  BY <1>2, <1>4, <1>5 DEF Prepared
<1>7. <<x, y>> \in Operands(x, y, TRUE)
  BY <1>6 DEF Operands, LevelScalesOnly
<1> DEFINE o == <<x, y>>
<1>8. o[1] = x /\ o[2] = y /\ o \in Operands(x, y, TRUE)
  BY <1>7
<1> HIDE DEF o
<1>9. z \in PlusCipher(o[1], o[2])
  BY <1>8
<1>10. QED
  BY <1>8, <1>9 DEF Sum

LEMMA ManualProduct ==
  ASSUME LevelScalesOnly, NEW x, Good(x), NEW y, Good(y), NEW z \in TimesCipher(x, y)
  PROVE  z \in Product(x, y)
<1>1. ~x.rescale /\ ~y.rescale /\ x.depth = y.depth /\ x.depth \in Int
  BY CipherTypes DEF TimesCipher, Good
<1>2. <<x, y>> \in Unscaled(x, y, FALSE)
  BY <1>1 DEF Unscaled, Settled
<1>3. <<x, y>> \in OneLevel(<<x, y>>)
  BY <1>1 DEF OneLevel, BroughtDown
<1>4. <<x, y>> \in Prepared(x, y, FALSE)
  BY <1>2, <1>3 DEF Prepared, Good
<1>5. <<x, y>> \in Operands(x, y, FALSE)
  BY <1>4 DEF Operands, LevelScalesOnly
<1> DEFINE o == <<x, y>>
<1>6. o[1] = x /\ o[2] = y /\ o \in Operands(x, y, FALSE)
  BY <1>5
<1> HIDE DEF o
<1>7. z \in TimesCipher(o[1], o[2])
  BY <1>6
<1>8. QED
  BY <1>6, <1>7 DEF Product

LEMMA ManualWorks ==
  ASSUME IInv, LevelScalesOnly, FactorsFit, PositiveScales
  PROVE  ManualCodeWorks
<1>1. SUFFICES ASSUME NEW x \in Made, NEW y \in Made
               PROVE  /\ TimesCipher(x, y) \subseteq Product(x, y)
                      /\ {z \in PlusCipher(x, y) : z.data = {z.scale}}
                           \subseteq Sum(x, y)
                      /\ Galois(x) \subseteq Turned(x)
                      /\ Rescaled(x) \subseteq Rescaling(x)
  BY DEF ManualCodeWorks
<1>2. Good(x) /\ Good(y)
  BY Held DEF Made
<1>3. Galois(x) \subseteq Turned(x)
  BY DEF Galois, Turned, Operand, Settled
<1>4. Rescaled(x) \subseteq Rescaling(x)
  BY DEF Rescaled, Rescaling
<1>5. QED
  BY <1>2, <1>3, <1>4, ManualProduct, ManualSum

-----------------------------------------------------------------------------

(* Every ciphertext stays on the chain of primes: no operation rescales or *)
(* drops it past the first prime, whatever it is called with               *)
(* (operator.cu:1482-1627).                                                *)
THEOREM TypeCorrect == Spec => []TypeOK
<1>1. IInv => TypeOK
  BY GoodMade
<1>2. QED
  BY <1>1, Invariance, PTL

(* In both modes a ciphertext of three parts waits for its rescaling, so   *)
(* that rescaling and dropping() refuse it until it is relinearized        *)
(* (operator.cu:217-248, 1213-1261).                                       *)
THEOREM ThreePartsWait == Spec => []RelinearizedFirst
<1>1. IInv => RelinearizedFirst
  BY GoodMade
<1>2. QED
  BY <1>1, Invariance, PTL

(* In both modes, and whatever the application mixes, the scale a          *)
(* ciphertext reports is that of one of its terms while it has any         *)
(* (operator.cu:1137, 1213-1325, 1561-1567).                               *)
THEOREM ScaleIsOfATerm == Spec => []ScaleOfATerm
<1>1. IInv => ScaleOfATerm
  BY GoodMade
<1>2. QED
  BY <1>1, Invariance, PTL

(* On every chain of primes and from every top level, an application that  *)
(* stays in the automatic mode has only ciphertexts of the scales of their *)
(* levels (context.cu:256-309, operator.cu:194-351).                       *)
THEOREM LevelScalesKept ==
  ASSUME LevelScalesOnly
  PROVE  Spec => []ScaleOfLevel
<1>1. IInv => ScaleOfLevel
  BY GoodMade
<1>2. QED
  BY <1>1, Invariance, PTL

(* On every chain any two relinearized ciphertexts with levels left can be *)
(* multiplied and added, at the cost of the deeper one                     *)
(* (operator.cuh:2435-2493, user_guide.rst:156-186).                       *)
THEOREM OperandsAlwaysMeet ==
  ASSUME LevelScalesOnly
  PROVE  Spec => []OperandsMeet
<1>1. IInv => OperandsMeet
  BY Meet
<1>2. QED
  BY <1>1, Invariance, PTL

(* Code written for the manual mode gives the same results in the          *)
(* automatic one, where the scales of the levels are more than 1           *)
(* (user_guide.rst:184).                                                   *)
THEOREM ManualCodeStays ==
  ASSUME LevelScalesOnly, FactorsFit, PositiveScales
  PROVE  Spec => []ManualCodeWorks
<1>1. IInv => ManualCodeWorks
  BY ManualWorks
<1>2. QED
  BY <1>1, Invariance, PTL

(* When the factors dropped() multiplies by fit their integer, no terms of *)
(* different scales are ever added either, and every ciphertext decrypts   *)
(* with the scale it says it has (operator.cu:237-245).                    *)
THEOREM ScalesAreTrue ==
  ASSUME LevelScalesOnly, FactorsFit
  PROVE  Spec => []ScaleIsTrue
<1>1. IInv => ScaleIsTrue
  BY GoodMade
<1>2. QED
  BY <1>1, Invariance, PTL

(* Every operation of the automatic mode costs the levels LevelBudget says *)
(* it does, whatever rescalings its operands wait for                      *)
(* (operator.cuh:2435-2493, user_guide.rst:156-186).                       *)
THEOREM CostsKept ==
  ASSUME LevelScalesOnly
  PROVE  Spec => OperationCosts
<1>1. IInv => [CipherCosts /\ PlainCosts /\ OtherCosts]_vars
  BY Costs
<1>2. QED
  BY <1>1, Invariance, PTL DEF OperationCosts

(* The automatic mode implements LevelBudget: levels left are all an       *)
(* application has to count (session.cu:429-439).                          *)
THEOREM ImplementsBudget ==
  ASSUME LevelScalesOnly
  PROVE  Spec => KeepsBudget
<1>1. Init => Budget!Init
  BY DEF Init, Budget!Init, Budgets
<1>2. IInv /\ [Next]_vars => [Budget!Next]_Budgets
  BY Step
<1>3. QED
  BY <1>1, <1>2, Invariance, PTL DEF Spec, KeepsBudget, Budget!Spec

=============================================================================
