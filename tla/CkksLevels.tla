----------------------------- MODULE CkksLevels -----------------------------
(***************************************************************************)
(* The levels and scales of CKKS objects, and what every operation of      *)
(* HEOperator<Scheme::CKKS> does to them (src/include/heongpu/host/ckks/   *)
(* operator.cuh, src/lib/host/ckks/operator.cu), in both rescale modes.    *)
(*                                                                         *)
(* Scales are logarithms to the base 2, so a product adds them and a       *)
(* rescaling subtracts the bits of the prime it drops.  Next to the scale  *)
(* an object says it has (scale_), the model keeps the scales its terms    *)
(* really carry (data): decryption is right when they are the same, and    *)
(* data is empty when the message is gone.                                 *)
(*                                                                         *)
(* An operation that can throw is a set: its result, or nothing when it    *)
(* throws.  An object is the set of what it holds, empty until made.       *)
(***************************************************************************)
EXTENDS Integers

CONSTANTS
  Ciphertexts,     \* the ciphertexts of the application
  Plaintexts,      \* its plaintexts
  L,               \* Q_size - 1, the level of an object of depth 0
  Top,             \* top_level_
  LogPrime,        \* the bits of the prime that rescaling drops at a level
  TopScale,        \* the scale given to set_rescale_mode
  LevelScale,      \* level_scales_
  Automatic,       \* the context is in rescale_mode::automatic
  Encodings,       \* depths and scales the application encodes with itself
  PlainDrops,      \* it calls mod_drop on plaintexts
  ConstantScales,  \* scales it gives to multiply_plain with a constant
  Fractions,       \* whether constants of multiply_plain_complex have a
                   \* fractional part
  ScaleFactors,    \* factors it gives to scale_up
  MaxScale         \* bound: the model follows scales of 0 .. MaxScale

Levels == 0 .. L

(* The scales set_rescale_mode gives to the levels up to the top level.    *)
SetRescaleMode(scales) ==
  /\ scales[Top] = TopScale
  /\ \A l \in 1 .. Top : scales[l - 1] = 2 * scales[l] - LogPrime[l]

ASSUME LevelsAssumption ==
  /\ L \in Nat
  /\ Top \in Levels
  /\ LogPrime \in [Levels -> Nat]
  /\ TopScale \in Int
  /\ LevelScale \in [0 .. Top -> Int]
  /\ SetRescaleMode(LevelScale)
  /\ Automatic \in BOOLEAN
  /\ Encodings \subseteq [depth : Levels, scale : Int]
  /\ PlainDrops \in BOOLEAN
  /\ ConstantScales \subseteq Int
  /\ Fractions \subseteq BOOLEAN
  /\ ScaleFactors \subseteq Int
  /\ MaxScale \in Int

VARIABLES
  ct,   \* the ciphertexts
  pt    \* the plaintexts

vars == <<ct, pt>>

Cipher == [depth : Levels, scale : Int, rescale : BOOLEAN, relin : BOOLEAN,
           data : SUBSET Int]
Plain == [depth : Nat, scale : Int]

TypeOK ==
  /\ ct \in [Ciphertexts -> SUBSET Cipher]
  /\ pt \in [Plaintexts -> SUBSET Plain]

Init ==
  /\ ct = [c \in Ciphertexts |-> {}]
  /\ pt = [p \in Plaintexts |-> {}]

Level(x) == L - x.depth

(* The levels left after a rescaling that is pending.                      *)
LevelsLeft(x) == Level(x) - (IF x.rescale THEN 1 ELSE 0)

(* The levels the application sees.                                        *)
Budgets ==
  [c \in Ciphertexts |->
     {[left |-> LevelsLeft(x), linear |-> ~x.relin] : x \in ct[c]}]

Budget == INSTANCE LevelBudget WITH budget <- Budgets

Shifted(terms, bits) == {t + bits : t \in terms}

Together(terms, others) ==
  IF terms = {} \/ others = {} THEN {} ELSE terms \cup others

-----------------------------------------------------------------------------
(* The operations as rescale_mode::manual has them.                        *)

(* Mutants of Rescaled: with three parts, with no prime left to drop, and  *)
(* without the reset of the flag.                                          *)
RescaledWithThreeParts(x) ==
  IF ~x.rescale \/ Level(x) = 0 THEN {}
  ELSE {[x EXCEPT !.depth = @ + 1, !.scale = @ - LogPrime[Level(x)],
                  !.rescale = FALSE,
                  !.data = Shifted(@, -LogPrime[Level(x)])]}

RescaledWithoutPrime(x) ==
  IF ~x.rescale \/ x.relin THEN {}
  ELSE {[x EXCEPT !.depth = @ + 1, !.scale = @ - LogPrime[Level(x)],
                  !.rescale = FALSE,
                  !.data = Shifted(@, -LogPrime[Level(x)])]}

RescaledStillPending(x) ==
  IF ~x.rescale \/ x.relin \/ Level(x) = 0 THEN {}
  ELSE {[x EXCEPT !.depth = @ + 1, !.scale = @ - LogPrime[Level(x)],
                  !.data = Shifted(@, -LogPrime[Level(x)])]}

(* Rescaling and dropping a prime.  The in-place drop also takes a         *)
(* ciphertext that was not relinearized; it moves the second part of it    *)
(* and leaves the third where it was, so that one is lost.                 *)
Rescaled(x) ==
  IF ~x.rescale \/ x.relin \/ Level(x) = 0 THEN {}
  ELSE {[x EXCEPT !.depth = @ + 1, !.scale = @ - LogPrime[Level(x)],
                  !.rescale = FALSE,
                  !.data = Shifted(@, -LogPrime[Level(x)])]}

Dropped(x) ==
  IF x.rescale \/ x.relin \/ Level(x) = 0 THEN {}
  ELSE {[x EXCEPT !.depth = @ + 1]}

DroppedInplace(x) ==
  IF Level(x) = 0 THEN {}
  ELSE {[x EXCEPT !.depth = @ + 1, !.data = IF x.relin THEN {} ELSE @]}

(* The factor is converted to a signed integer of 64 bits to see whether   *)
(* it has a fractional part: 2^63 and more do not fit, and the conversion  *)
(* is undefined.  Below 1 the factor was rounded to 0.                     *)
ScaledUp(x, bits) ==
  [x EXCEPT !.scale = @ + bits,
            !.data = IF bits \in 0 .. 62 THEN Shifted(@, bits) ELSE {}]

(* A factor with a fractional part is first multiplied by the prime of the *)
(* level; the flags of the ciphertext stay as they were.                   *)
TimesComplex(x, fraction) ==
  LET bits == IF fraction THEN LogPrime[Level(x)] ELSE 0 IN
  [x EXCEPT !.scale = @ + bits, !.data = Shifted(@, bits)]

(* A mutant of TimesCipher: the flag is not set.                           *)
TimesCipherUnflagged(x, y) ==
  IF x.relin \/ y.relin \/ x.rescale \/ y.rescale \/ x.depth # y.depth THEN {}
  ELSE {[depth |-> x.depth, scale |-> x.scale + y.scale, rescale |-> FALSE,
         relin |-> TRUE, data |-> UNION {Shifted(x.data, t) : t \in y.data}]}

TimesCipher(x, y) ==
  IF x.relin \/ y.relin \/ x.rescale \/ y.rescale \/ x.depth # y.depth THEN {}
  ELSE {[depth |-> x.depth, scale |-> x.scale + y.scale, rescale |-> TRUE,
         relin |-> TRUE, data |-> UNION {Shifted(x.data, t) : t \in y.data}]}

TimesPlain(x, p) ==
  IF x.relin \/ x.depth # p.depth THEN {}
  ELSE {[x EXCEPT !.scale = @ + p.scale, !.rescale = TRUE,
                  !.data = Shifted(@, p.scale)]}

(* A mutant of TimesConstant: the scale is not updated.                    *)
TimesConstantSilently(x, bits) ==
  IF x.relin THEN {}
  ELSE {[x EXCEPT !.rescale = TRUE, !.data = Shifted(@, bits)]}

TimesConstant(x, bits) ==
  IF x.relin THEN {}
  ELSE {[x EXCEPT !.scale = @ + bits, !.rescale = TRUE,
                  !.data = Shifted(@, bits)]}

(* Sums take the scale of the first operand and do not compare scales.     *)
PlusCipher(x, y) ==
  IF x.depth # y.depth \/ x.relin # y.relin THEN {}
  ELSE {[x EXCEPT !.rescale = @ \/ y.rescale, !.data = Together(@, y.data)]}

PlusPlain(x, p) ==
  IF x.depth # p.depth \/ x.relin THEN {}
  ELSE {[x EXCEPT !.data = Together(@, {p.scale})]}

(* Constants are encoded with the scale of the ciphertext.                 *)
PlusConstant(x) ==
  IF x.relin THEN {} ELSE {[x EXCEPT !.data = Together(@, {x.scale})]}

PlusComplex(x) == [x EXCEPT !.data = Together(@, {x.scale})]

Relinearized(x) == IF x.relin THEN {[x EXCEPT !.relin = FALSE]} ELSE {}

Galois(x) == IF x.rescale \/ x.relin THEN {} ELSE {x}

-----------------------------------------------------------------------------
(* How rescale_mode::automatic prepares the operands, on copies of them.   *)

(* rescaled(): x without a pending rescaling.                              *)
Settled(x) == IF x.rescale THEN Rescaled(x) ELSE {x}

(* dropped(): x, without a pending rescaling, at a lower level with the    *)
(* scale of that level.  It is dropped to the level above, multiplied by   *)
(* an integer, and rescaled, which needs a relinearized x and a level.     *)
BroughtDown(x, depth) ==
  LET level == L - depth
      factor == LevelScale[level] + LogPrime[level + 1] - x.scale IN
  IF x.depth = depth THEN {x}
  ELSE IF x.relin \/ depth > L \/ level > Top THEN {}
  ELSE {[depth |-> depth, scale |-> LevelScale[level], rescale |-> FALSE,
         relin |-> FALSE,
         data |-> Shifted(ScaledUp(x, factor).data, -LogPrime[level + 1])]}

HasLevelScale(x) ==
  /\ Level(x) \in 0 .. Top
  /\ x.scale = (IF x.rescale THEN 2 ELSE 1) * LevelScale[Level(x)]

PlainHasLevelScale(p) ==
  Level(p) \in 0 .. Top /\ p.scale = LevelScale[Level(p)]

(* prepare(): the pairs a binary operation of two ciphertexts can work on. *)
OneLevel(pair) ==
  LET x == pair[1]
      y == pair[2] IN
  IF x.depth < y.depth THEN BroughtDown(x, y.depth) \X {y}
  ELSE {x} \X BroughtDown(y, x.depth)

(* Mutants of KeepsRescale: at any levels, and only when relinearized.     *)
KeepsRescaleAnywhere(x, y) == x.rescale /\ y.rescale

KeepsRescaleOfTwoParts(x, y) ==
  x.rescale /\ y.rescale /\ x.depth = y.depth /\ ~x.relin

KeepsRescale(x, y) == x.rescale /\ y.rescale /\ x.depth = y.depth

Unscaled(x, y, keep) ==
  IF keep /\ KeepsRescale(x, y) THEN {<<x, y>>} ELSE Settled(x) \X Settled(y)

(* A mutant of Prepared: levels first, then the pending rescalings.        *)
PreparedLevelsFirst(x, y, keep) ==
  {pair \in UNION {Unscaled(p[1], p[2], keep) : p \in OneLevel(<<x, y>>)} :
     HasLevelScale(pair[1]) /\ HasLevelScale(pair[2])}

Prepared(x, y, keep) ==
  {pair \in UNION {OneLevel(p) : p \in Unscaled(x, y, keep)} :
     HasLevelScale(pair[1]) /\ HasLevelScale(pair[2])}

(* prepare() with a plaintext, which keeps its scale when it is dropped.   *)
OneLevelPlain(x, p) ==
  IF x.depth < p.depth THEN BroughtDown(x, p.depth) \X {p}
  ELSE {<<x, [p EXCEPT !.depth = x.depth]>>}

PreparedPlain(x, p) ==
  {pair \in UNION {OneLevelPlain(s, p) : s \in Settled(x)} :
     HasLevelScale(pair[1]) /\ PlainHasLevelScale(pair[2])}

(* run_automatic(): what an operation works on in the mode of the context. *)
Operands(x, y, keep) == IF Automatic THEN Prepared(x, y, keep) ELSE {<<x, y>>}

OperandsPlain(x, p) == IF Automatic THEN PreparedPlain(x, p) ELSE {<<x, p>>}

Operand(x) == IF Automatic THEN Settled(x) ELSE {x}

-----------------------------------------------------------------------------
(* What the public operations return.                                      *)

Product(x, y) ==
  UNION {TimesCipher(o[1], o[2]) : o \in Operands(x, y, FALSE)}

PlainProduct(x, p) == UNION {TimesPlain(o[1], o[2]) : o \in OperandsPlain(x, p)}

(* The automatic mode takes the scale of the level instead of bits.        *)
ConstantProduct(x, bits) ==
  IF Automatic
    THEN UNION {TimesConstant(o, LevelScale[Level(o)]) :
                  o \in {s \in Settled(x) : HasLevelScale(s)}}
    ELSE TimesConstant(x, bits)

Sum(x, y) == UNION {PlusCipher(o[1], o[2]) : o \in Operands(x, y, TRUE)}

PlainSum(x, p) == UNION {PlusPlain(o[1], o[2]) : o \in OperandsPlain(x, p)}

Turned(x) == UNION {Galois(o) : o \in Operand(x)}

(* rescale_inplace does nothing in the automatic mode without need.        *)
Rescaling(x) == IF Automatic /\ ~x.rescale THEN {x} ELSE Rescaled(x)

(* mod_drop brings the ciphertext to the scale of the next level in the    *)
(* automatic mode.                                                         *)
Drop(x) ==
  IF Automatic THEN UNION {BroughtDown(o, o.depth + 1) : o \in Settled(x)}
               ELSE Dropped(x)

DropInplace(x) == IF Automatic THEN Drop(x) ELSE DroppedInplace(x)

(* sum_slots adds rotations of the running sum to it; after the first of   *)
(* them the levels and scales stay the same.                               *)
SlotSum(x) == UNION {Sum(x, r) : r \in Turned(x)}

(* inner_product: multiply, relinearize, rescale and sum the slots.        *)
CipherInnerProduct(x, y) ==
  LET linear == UNION {Relinearized(z) : z \in Product(x, y)} IN
  UNION {SlotSum(r) : r \in UNION {Rescaling(z) : z \in linear}}

PlainInnerProduct(x, p) ==
  UNION {SlotSum(r) : r \in UNION {Rescaling(z) : z \in PlainProduct(x, p)}}

-----------------------------------------------------------------------------
(* Actions.  The output o may be an operand, as in the in-place versions.  *)
Store(o, x) ==
  /\ {x.scale} \cup x.data \subseteq 0 .. MaxScale
  /\ ct' = [ct EXCEPT ![o] = {x}]
  /\ UNCHANGED pt

StorePlain(p, x) ==
  /\ pt' = [pt EXCEPT ![p] = {x}]
  /\ UNCHANGED ct

(* encode(message) and encode(message, depth), with the scale of the level *)
Encode(p) ==
  /\ Automatic
  /\ \E depth \in Levels :
       /\ L - depth <= Top
       /\ StorePlain(p, [depth |-> depth, scale |-> LevelScale[L - depth]])

(* encode(message, scale, depth) *)
EncodeWithScale(p) == \E e \in Encodings : StorePlain(p, e)

Encrypt(o, p) ==
  \E x \in {y \in pt[p] : y.depth <= L} :
    Store(o, [depth |-> x.depth, scale |-> x.scale, rescale |-> FALSE,
              relin |-> FALSE, data |-> {x.scale}])

(* mod_drop of a plaintext writes the depth of the output and then writes  *)
(* it again from the depth of the input, which is the same object when it  *)
(* drops a plaintext to itself.                                            *)
DropPlain(q, p) ==
  \E x \in pt[p] :
    /\ PlainDrops
    /\ x.depth < L
    /\ StorePlain(q, [x EXCEPT !.depth = @ + (IF p = q THEN 2 ELSE 1)])

DropPlainInplace(p) ==
  \E x \in pt[p] :
    /\ PlainDrops
    /\ x.depth < L
    /\ StorePlain(p, [x EXCEPT !.depth = @ + 1])

Multiply(o, i, j) ==
  \E x \in ct[i], y \in ct[j] : \E z \in Product(x, y) : Store(o, z)

MultiplyPlain(o, i, p) ==
  \E x \in ct[i], y \in pt[p] : \E z \in PlainProduct(x, y) : Store(o, z)

MultiplyConstant(o, i) ==
  \E x \in ct[i], bits \in ConstantScales :
    \E z \in ConstantProduct(x, bits) : Store(o, z)

MultiplyComplex(o, i) ==
  \E x \in ct[i], fraction \in Fractions : Store(o, TimesComplex(x, fraction))

ScaleUp(o, i) ==
  \E x \in ct[i], bits \in ScaleFactors : Store(o, ScaledUp(x, bits))

Add(o, i, j) ==
  \E x \in ct[i], y \in ct[j] : \E z \in Sum(x, y) : Store(o, z)

Sub(o, i, j) ==
  \E x \in ct[i], y \in ct[j] : \E z \in Sum(x, y) : Store(o, z)

AddPlain(o, i, p) ==
  \E x \in ct[i], y \in pt[p] : \E z \in PlainSum(x, y) : Store(o, z)

SubPlain(o, i, p) ==
  \E x \in ct[i], y \in pt[p] : \E z \in PlainSum(x, y) : Store(o, z)

AddConstant(o, i) == \E x \in ct[i] : \E z \in PlusConstant(x) : Store(o, z)

SubConstant(o, i) == \E x \in ct[i] : \E z \in PlusConstant(x) : Store(o, z)

AddComplex(o, i) == \E x \in ct[i] : Store(o, PlusComplex(x))

(* These change neither the scale nor the level. *)
Negate(o, i) == \E x \in ct[i] : Store(o, x)

MultI(o, i) == \E x \in ct[i] : Store(o, x)

DivI(o, i) == \E x \in ct[i] : Store(o, x)

RelinearizeInplace(o) ==
  \E x \in ct[o] : \E z \in Relinearized(x) : Store(o, z)

RescaleInplace(o) == \E x \in ct[o] : \E z \in Rescaling(x) : Store(o, z)

ModDrop(o, i) == \E x \in ct[i] : \E z \in Drop(x) : Store(o, z)

ModDropInplace(o) == \E x \in ct[o] : \E z \in DropInplace(x) : Store(o, z)

Rotate(o, i) == \E x \in ct[i] : \E z \in Turned(x) : Store(o, z)

RotateHoisted(o, i) == \E x \in ct[i] : \E z \in Turned(x) : Store(o, z)

ApplyGalois(o, i) == \E x \in ct[i] : \E z \in Turned(x) : Store(o, z)

Keyswitch(o, i) == \E x \in ct[i] : \E z \in Turned(x) : Store(o, z)

Conjugate(o, i) == \E x \in ct[i] : \E z \in Turned(x) : Store(o, z)

SumSlots(o, i) == \E x \in ct[i] : \E z \in SlotSum(x) : Store(o, z)

InnerProduct(o, i, j) ==
  \E x \in ct[i], y \in ct[j] : \E z \in CipherInnerProduct(x, y) : Store(o, z)

InnerProductPlain(o, i, p) ==
  \E x \in ct[i], y \in pt[p] : \E z \in PlainInnerProduct(x, y) : Store(o, z)

NextPlain ==
  \E p \in Plaintexts :
    \/ Encode(p)
    \/ EncodeWithScale(p)
    \/ DropPlainInplace(p)
    \/ \E q \in Plaintexts : DropPlain(q, p)

NextOne(o) ==
  \/ RelinearizeInplace(o)
  \/ RescaleInplace(o)
  \/ ModDropInplace(o)
  \/ \E i \in Ciphertexts :
       \/ MultiplyConstant(o, i) \/ MultiplyComplex(o, i) \/ ScaleUp(o, i)
       \/ AddConstant(o, i) \/ SubConstant(o, i) \/ AddComplex(o, i)
       \/ Negate(o, i) \/ MultI(o, i) \/ DivI(o, i)
       \/ ModDrop(o, i) \/ SumSlots(o, i)
       \/ Rotate(o, i) \/ RotateHoisted(o, i) \/ ApplyGalois(o, i)
       \/ Keyswitch(o, i) \/ Conjugate(o, i)

NextTwo(o) ==
  \E i \in Ciphertexts :
    \/ \E j \in Ciphertexts :
         Multiply(o, i, j) \/ Add(o, i, j) \/ Sub(o, i, j)
           \/ InnerProduct(o, i, j)
    \/ \E p \in Plaintexts :
         MultiplyPlain(o, i, p) \/ AddPlain(o, i, p) \/ SubPlain(o, i, p)
           \/ InnerProductPlain(o, i, p)

NextCipher ==
  \E o \in Ciphertexts :
    \/ \E p \in Plaintexts : Encrypt(o, p)
    \/ NextOne(o)
    \/ NextTwo(o)

Next == NextPlain \/ NextCipher

Spec == Init /\ [][Next]_vars

-----------------------------------------------------------------------------
(* What is checked.                                                        *)

Made == UNION {ct[c] : c \in Ciphertexts}

(* Decryption decodes a message with the scale the object says it has,     *)
(* which is the scale all terms of its data carry: no operation adds terms *)
(* of different scales, loses track of a scale or multiplies by a factor   *)
(* that is not there (operator.cu:195-351).                                *)
ScaleIsTrue == \A x \in Made : x.data = {x.scale}

(* In the automatic mode a ciphertext always has the scale of its level,   *)
(* or its square exactly while a rescaling is pending, so any two can be   *)
(* brought together (context.cuh:67-76).                                   *)
ScaleOfLevel == \A x \in Made : HasLevelScale(x)

(* A ciphertext that was not relinearized always waits for its rescaling   *)
(* too, so that none is dropped to a lower level with three parts, which   *)
(* in-place dropping cannot do (operator.cu:217-248, 1572-1603).           *)
RelinearizedFirst == \A x \in Made : x.relin => x.rescale

(* In the automatic mode any two relinearized ciphertexts with levels left *)
(* can be multiplied and added, whatever computed them, and use no more    *)
(* levels than the deeper of them needs (user_guide.rst:156-186).          *)
OperandsMeet ==
  \A x, y \in {z \in Made : ~z.relin /\ LevelsLeft(z) >= 0} :
    LET least == Budget!Lesser(LevelsLeft(x), LevelsLeft(y)) IN
    /\ \E z \in Product(x, y) : LevelsLeft(z) = least - 1
    /\ \E z \in Sum(x, y) : LevelsLeft(z) = least
    /\ \A p \in Plaintexts : \A e \in pt[p] :
         Level(e) \in 0 .. LevelsLeft(x) =>
           \E z \in PlainProduct(x, e) : LevelsLeft(z) = Level(e) - 1

(* Code written for the manual mode gives the same results in the          *)
(* automatic one: what the operations of the manual mode do right, they    *)
(* do the same way (user_guide.rst:184).                                   *)
ManualCodeWorks ==
  \A x, y \in Made :
    /\ TimesCipher(x, y) \subseteq Product(x, y)
    /\ {z \in PlusCipher(x, y) : z.data = {z.scale}} \subseteq Sum(x, y)
    /\ Galois(x) \subseteq Turned(x)
    /\ Rescaled(x) \subseteq Rescaling(x)

(* The operations implement LevelBudget: an expression uses as many levels *)
(* as its multiplicative depth (session.cu:429-439, user_guide.rst:182).   *)
KeepsBudget == Budget!Spec

(* Every operation costs what LevelBudget says of it, whatever the levels  *)
(* and the pending rescalings of its operands: one level for a product, of *)
(* the operand that has fewer left, and none for anything else that an     *)
(* expression is made of (user_guide.rst:156-186).                         *)
CipherCosts ==
  \A o, i, j \in Ciphertexts :
    /\ Multiply(o, i, j) => Budget!Product(o, i, j)
    /\ InnerProduct(o, i, j) => Budget!InnerProduct(o, i, j)
    /\ Add(o, i, j) \/ Sub(o, i, j) => Budget!Sum(o, i, j)

PlainCosts ==
  \A o, i \in Ciphertexts, p \in Plaintexts :
    /\ Encrypt(o, p) => Budget!Fresh(o)
    /\ MultiplyPlain(o, i, p) \/ InnerProductPlain(o, i, p) =>
         \E e \in pt[p] : Budget!PlainProduct(o, i, Level(e))
    /\ AddPlain(o, i, p) \/ SubPlain(o, i, p) =>
         \E e \in pt[p] : Budget!PlainSum(o, i, Level(e))

OtherCosts ==
  \A o, i \in Ciphertexts :
    /\ MultiplyConstant(o, i) => Budget!PlainProduct(o, i, Top)
    /\ ModDrop(o, i) => Budget!Drop(o, i)
    /\ ModDropInplace(o) => Budget!Drop(o, o)
    /\ RelinearizeInplace(o) => Budget!Relinearize(o)
    /\ RescaleInplace(o) => Budget!Free(o, o)
    /\ AddConstant(o, i) \/ SubConstant(o, i) \/ AddComplex(o, i)
         \/ MultiplyComplex(o, i) \/ ScaleUp(o, i)
         \/ Negate(o, i) \/ MultI(o, i) \/ DivI(o, i)
         \/ Rotate(o, i) \/ RotateHoisted(o, i) \/ ApplyGalois(o, i)
         \/ Keyswitch(o, i) \/ Conjugate(o, i) \/ SumSlots(o, i) =>
           Budget!Free(o, i)

OperationCosts == [][CipherCosts /\ PlainCosts /\ OtherCosts]_vars

(* The scale a ciphertext reports is the scale of one of its terms at      *)
(* least, in both modes; and what it is missing is missing in the data, it *)
(* is never a product or a rescaling the scale forgot (operator.cu:1137,   *)
(* 1213-1325, 1561-1567).                                                  *)
ScaleOfATerm == \A x \in Made : x.data # {} => x.scale \in x.data

=============================================================================
