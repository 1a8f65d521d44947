----------------------------- MODULE TfheGates -----------------------------
(***************************************************************************)
(* The logic gates of TFHE with everything below them: LWE samples over    *)
(* the torus, the linear combination of a gate, the bootstrapping (a blind *)
(* rotation by external products and the extraction of a sample) and the   *)
(* switch back to the small key.  All arithmetic wraps at TorusBits, as    *)
(* the 32-bit integers of the kernels do, and the transforms modulo the    *)
(* 60-bit prime, whose sums cannot wrap, are the exact products they       *)
(* stand for.                                                              *)
(*                                                                         *)
(* A register is a Ciphertext object: whether it was encrypted, and a      *)
(* batch of samples, one for each bit.  Where its arrays are kept is the   *)
(* subject of Objects.                                                     *)
(***************************************************************************)
EXTENDS Integers, Sequences

CONSTANTS
    TorusBits,      \* 32 in the code
    LweSize,        \* n_
    RingSize,       \* N_; the ring has one mask, k_ = 1
    DigitBits,      \* bk_bg_bit_
    DigitCount,     \* bk_l_
    SwitchBits,     \* ks_base_bit_
    SwitchLength,   \* ks_length_
    LweKey,         \* lwe_key: LweSize bits
    RingKey,        \* tlwe_key: RingSize bits
    BootMask, SwitchMask,   \* functions: the random masks of the two keys
    BootNoise, SwitchNoise, \* and their errors
    EncryptionMask,         \* the mask and the error of a fresh sample
    EncryptionNoise,
    FreshNoise,     \* budgets: for the error of a sample,
    TurnBudget,     \* and for what the rounding to powers of X may add
    Registers,
    Batches,        \* the messages that are encrypted: sequences of bits, not
                    \* empty ones, for which no kernel can be launched
    MaxCalls        \* the calls of a behaviour

ASSUME ParametersAssumption ==
    /\ TorusBits \in Nat /\ TorusBits >= 3
    /\ {LweSize, RingSize, DigitBits, DigitCount, SwitchBits, SwitchLength} \subseteq Nat \ {0}
    /\ DigitBits * DigitCount <= TorusBits /\ SwitchBits * SwitchLength <= TorusBits
    /\ MaxCalls \in Nat

TwoTo[n \in 0..TorusBits] == IF n = 0 THEN 1 ELSE 2 * TwoTo[n - 1]

Torus == TwoTo[TorusBits]
Lwe == 1..LweSize
Ring == 1..RingSize
Half == TwoTo[DigitBits - 1]                                \* half_bg_

\* The elements of a function on 1..n, all of them worked out.
Tuple(f, n) == SubSeq(f, 1, n)

\* f[1] + ... + f[n].
Total(f, n) ==
    LET sum[i \in 0..n] == IF i = 0 THEN 0 ELSE sum[i - 1] + f[i]
    IN  sum[n]

Dot(u, v, n) == Total([i \in 1..n |-> u[i] * v[i]], n) % Torus

\* encode_to_torus32, and the distance of an element from zero.
Encoded(mu, size) == (mu * (Torus \div size)) % Torus
Distance(x) == LET r == x % Torus IN IF r < Torus \div 2 THEN r ELSE Torus - r

\* The coefficient k of X^j times p modulo X^N + 1, for j below N.
Shifted(p, j, k) == IF k <= j THEN -p[RingSize + k - j] ELSE p[k - j]

\* The product modulo X^N + 1.
RingProduct(p, q) ==
    Tuple([k \in Ring |->
        Total([i \in Ring |-> p[i] * Shifted(q, i - 1, k)], RingSize) % Torus], RingSize)

RingSum(p, q) == Tuple([i \in Ring |-> (p[i] + q[i]) % Torus], RingSize)
RingDifference(p, q) == Tuple([i \in Ring |-> (p[i] - q[i]) % Torus], RingSize)
RingZero == Tuple([i \in Ring |-> 0], RingSize)

-----------------------------------------------------------------------------
(* The keys.                                                               *)

\* 1 << (32 - digit * width): the weight of a digit.
Weight(width, digit) == TwoTo[TorusBits - digit * width]

\* A row of the bootstrapping key for bit i: the ring sample of zero, to
\* whose mask or body, chosen by the row, the weight of the digit is added.
BootKeyRow(i, row, digit) ==
    LET mask == BootMask[i][row][digit]
        zero == RingSum(RingProduct(RingKey, mask), BootNoise[i][row][digit])
        message == [x \in Ring |->
                        IF x = 1 THEN LweKey[i] * Weight(DigitBits, digit) ELSE 0]
    IN  IF row = 1 THEN <<RingSum(mask, message), zero>>
                   ELSE <<mask, RingSum(zero, message)>>

BootKey ==
    Tuple([i \in Lwe |->
        Tuple([row \in 1..2 |->
            Tuple([d \in 1..DigitCount |-> BootKeyRow(i, row, d)], DigitCount)], 2)],
          LweSize)

\* The switching key: each multiple of each digit of each bit of the ring key.
SwitchKeySample(i, digit, multiple) ==
    LET mask == SwitchMask[i][digit][multiple]
    IN  [a |-> mask,
         b |-> (Dot(mask, LweKey, LweSize)
                    + RingKey[i] * multiple * Weight(SwitchBits, digit)
                    + SwitchNoise[i][digit][multiple]) % Torus]

SwitchKey ==
    Tuple([i \in Ring |->
        Tuple([d \in 1..SwitchLength |->
            Tuple([m \in 1..(TwoTo[SwitchBits] - 1) |-> SwitchKeySample(i, d, m)],
                  TwoTo[SwitchBits] - 1)], SwitchLength)], RingSize)

-----------------------------------------------------------------------------
(* Encryption and decryption of a sample.                                  *)

EncryptedSample(bit, call, place) ==
    LET mask == EncryptionMask[call + place]
        message == IF bit THEN Encoded(1, 8) ELSE -Encoded(1, 8)
    IN  [a |-> mask,
         b |-> (message + EncryptionNoise[call + place]
                    + Dot(mask, LweKey, LweSize)) % Torus]

Phase(sample) == (sample.b - Dot(sample.a, LweKey, LweSize)) % Torus

\* decrypt_lwe: a phase above zero, read as a signed integer, is true.
Decrypted(sample) == Phase(sample) \in 1..(Torus \div 2 - 1)

-----------------------------------------------------------------------------
(* The linear part of the gates.                                           *)

Combined(constant, k1, s1, k2, s2) ==
    [a |-> Tuple([i \in DOMAIN s1.a |-> (k1 * s1.a[i] + k2 * s2.a[i]) % Torus],
                 Len(s1.a)),
     b |-> (constant + k1 * s1.b + k2 * s2.b) % Torus]

NAND_pre_computation(x, y) == Combined(Encoded(1, 8), -1, x, -1, y)
AND_pre_computation(x, y) == Combined(-Encoded(1, 8), 1, x, 1, y)
\* Mutant: the second input is negated, not the first.
AND_pre_computation_of_not(x, y) == Combined(-Encoded(1, 8), 1, x, -1, y)

AND_N_pre_computation(x, y) == Combined(-Encoded(1, 8), -1, x, 1, y)
NOR_pre_computation(x, y) == Combined(-Encoded(1, 8), -1, x, -1, y)
OR_pre_computation(x, y) == Combined(Encoded(1, 8), 1, x, 1, y)
XNOR_pre_computation(x, y) == Combined(-Encoded(1, 4), -2, x, -2, y)
XOR_pre_computation(x, y) == Combined(Encoded(1, 4), 2, x, 2, y)

NOT_computation(x) ==
    [a |-> Tuple([i \in DOMAIN x.a |-> (-x.a[i]) % Torus], Len(x.a)),
     b |-> (-x.b) % Torus]

-----------------------------------------------------------------------------
(* The bootstrapping: a polynomial of plus and minus mu is turned by the   *)
(* phase of the sample, and its first coefficient is taken out.            *)

\* An element of the torus, rounded to a power of X.
torus_modulus_switch_log(x) ==
    ((x + Torus \div (4 * RingSize)) % Torus) \div (Torus \div (2 * RingSize))

\* The product with X^r, for r below 2N.
Turned(p, r) ==
    Tuple([k \in Ring |->
        (IF r < RingSize THEN Shifted(p, r, k) ELSE -Shifted(p, r - RingSize, k)) % Torus],
          RingSize)

\* The accumulator before the first bit of the key: the constant
\* polynomial, turned back by the body of the sample.
FirstAccumulator(b) ==
    LET r == 2 * RingSize - torus_modulus_switch_log(b)
        mu == Encoded(1, 8)
        negated(i) == IF r < RingSize THEN i <= r ELSE i > r - RingSize
    IN  <<RingZero,
          Tuple([i \in Ring |-> (IF negated(i) THEN -mu ELSE mu) % Torus], RingSize)>>

\* compute_offset: it makes the digits signed, and rounds what is below the last.
Offset ==
    Total([d \in 1..DigitCount |-> Half * Weight(DigitBits, d)], DigitCount)
        + Weight(DigitBits, DigitCount) \div 2

\* Mutant: the digits are taken without the offset that makes them signed.
DigitWithoutOffset(x, d) ==
    (((x % Torus) \div Weight(DigitBits, d)) % TwoTo[DigitBits]) - Half

Digit(x, d) ==
    ((((x + Offset) % Torus) \div Weight(DigitBits, d)) % TwoTo[DigitBits]) - Half

\* The first kernel of a step: the accumulator, turned by X^r, minus itself,
\* cut into digits; and each digit times the rows of the key of bit i.
Difference(accumulator, r, row) ==
    RingDifference(Turned(accumulator[row], r), accumulator[row])

Digits(accumulator, r, row, d) ==
    LET difference == Difference(accumulator, r, row)
    IN  Tuple([x \in Ring |-> Digit(difference[x], d)], RingSize)

StepOne(accumulator, r, i) ==
    Tuple([row \in 1..2 |->
        Tuple([d \in 1..DigitCount |->
            LET digits == Digits(accumulator, r, row, d)
            IN  Tuple([part \in 1..2 |->
                    RingProduct(digits, BootKey[i][row][d][part])], 2)],
              DigitCount)], 2)

\* The second kernel: the products are added to the accumulator.
StepTwo(accumulator, products) ==
    LET added(part) ==
            Tuple([x \in Ring |->
                (accumulator[part][x]
                    + Total([d \in 1..DigitCount |->
                                products[1][d][part][x] + products[2][d][part][x]],
                            DigitCount)) % Torus], RingSize)
    IN  <<added(1), added(2)>>

\* For the first bit of the key the kernels make the accumulator themselves.
UniqueStepOne(s) ==
    StepOne(FirstAccumulator(s.b), torus_modulus_switch_log(s.a[1]), 1)
UniqueStepTwo(s, products) == StepTwo(FirstAccumulator(s.b), products)

\* The sample of coefficient 0, under the ring key.
SampleExtraction(accumulator) ==
    LET mask == accumulator[1]
    IN  [a |-> Tuple([x \in Ring |-> IF x = 1 THEN mask[1]
                                     ELSE (-mask[RingSize + 2 - x]) % Torus], RingSize),
         b |-> accumulator[2][1]]

\* One step for each bit of the key.
accumulators(s) ==
    LET accumulator[i \in Lwe] ==
            IF i = 1 THEN UniqueStepTwo(s, UniqueStepOne(s))
            ELSE LET before == accumulator[i - 1]
                 IN  StepTwo(before, StepOne(before, torus_modulus_switch_log(s.a[i]), i))
    IN  accumulator

bootstrapping(s) == SampleExtraction(accumulators(s)[LweSize])

\* Back to the small key: the multiples that the digits of the mask name
\* are taken from the body, and so is what is left of the mask.
SwitchDigit(x, d) ==
    (((x + Weight(SwitchBits, SwitchLength) \div 2) % Torus)
        \div Weight(SwitchBits, d)) % TwoTo[SwitchBits]

\* Element x of the sample that a digit of the mask takes; 0 is the body.
Taken(s, i, d, x) ==
    LET m == SwitchDigit(s.a[i], d)
    IN  CASE m = 0 -> 0
          [] m # 0 /\ x = 0 -> SwitchKey[i][d][m].b
          [] m # 0 /\ x # 0 -> SwitchKey[i][d][m].a[x]

key_switching(s) ==
    LET taken(x) ==
            Total([i \in Ring |->
                Total([d \in 1..SwitchLength |-> Taken(s, i, d, x)], SwitchLength)],
                  RingSize)
    IN  [a |-> Tuple([x \in Lwe |-> (-taken(x)) % Torus], LweSize),
         b |-> (s.b - taken(0)) % Torus]

\* MUX: the two products are added under the ring key, where they are
\* already fresh, and switched back together.
MuxSample(x, y, control) ==
    key_switching(OR_pre_computation(bootstrapping(AND_pre_computation(control, x)),
                                     bootstrapping(AND_N_pre_computation(control, y))))

-----------------------------------------------------------------------------
(* The errors that are made, worked out from the errors of the keys and     *)
(* from what rounding leaves over: what a call costs, not what it could     *)
(* cost at worst.  No guard reads them.                                     *)

\* What is left of x when it is rounded to a multiple of w.
Remainder(x, w) == ((x + w \div 2) % w) - w \div 2

\* What a phase moves by when its sample is rounded to powers of X.
Notch == Torus \div (2 * RingSize)
TurnError(s) ==
    Total([i \in Lwe |-> LweKey[i] * Remainder(s.a[i], Notch)], LweSize)
        - Remainder(s.b, Notch)

\* The error of a step: the digits times the errors of their rows, and what
\* is below the last digit, if the step turns at all.
StepError(accumulator, r, i) ==
    LET noise(row, d) ==
            RingProduct(Digits(accumulator, r, row, d), BootNoise[i][row][d])
        rest(row) ==
            LET difference == Difference(accumulator, r, row)
            IN  Tuple([x \in Ring |->
                    Remainder(difference[x], Weight(DigitBits, DigitCount))], RingSize)
        rows == Tuple([d \in 1..DigitCount |-> RingSum(noise(1, d), noise(2, d))],
                      DigitCount)
        left == RingDifference(RingProduct(RingKey, rest(1)), rest(2))
    IN  Tuple([x \in Ring |->
            (Total([d \in 1..DigitCount |-> rows[d][x]], DigitCount)
                + LweKey[i] * left[x]) % Torus], RingSize)

\* A step turns the error so far with the rest, and adds its own.
RotationError(s) ==
    LET power(i) == torus_modulus_switch_log(s.a[i])
        before(i) == IF i = 1 THEN FirstAccumulator(s.b) ELSE accumulators(s)[i - 1]
        error[i \in 0..LweSize] ==
            IF i = 0 THEN RingZero
            ELSE LET old == error[i - 1]
                 IN  RingSum(IF LweKey[i] = 1 THEN Turned(old, power(i)) ELSE old,
                             StepError(before(i), power(i), i))
    IN  error[LweSize]
BootstrapError(s) == RotationError(s)[1]

\* The errors of the samples that are taken, and what no digit holds.
SwitchError(s) ==
    LET noise(i, d) ==
            LET m == SwitchDigit(s.a[i], d)
            IN  IF m = 0 THEN 0 ELSE SwitchNoise[i][d][m]
    IN  Total([i \in Ring |->
            RingKey[i] * Remainder(s.a[i], Weight(SwitchBits, SwitchLength))
                - Total([d \in 1..SwitchLength |-> noise(i, d)], SwitchLength)],
              RingSize)

\* A call that stays within the budgets, for the linear part s of a gate.
Bearable(s) ==
    /\ Distance(TurnError(s)) <= TurnBudget
    /\ Distance(BootstrapError(s) + SwitchError(bootstrapping(s))) <= FreshNoise

MuxBearable(x, y, control) ==
    LET first == AND_pre_computation(control, x)
        second == AND_N_pre_computation(control, y)
        sum == OR_pre_computation(bootstrapping(first), bootstrapping(second))
    IN  /\ Distance(TurnError(first)) <= TurnBudget
        /\ Distance(TurnError(second)) <= TurnBudget
        /\ Distance(BootstrapError(first) + BootstrapError(second) + SwitchError(sum))
               <= FreshNoise

-----------------------------------------------------------------------------
VARIABLES
    reg,        \* the Ciphertext objects
    bits,       \* ghost: the bits a register stands for
    within,     \* ghost: every error so far was within its budget
    calls,
    faulted     \* a kernel was launched on memory that is not there

vars == <<reg, bits, within, calls, faulted>>

Unused == [generated |-> FALSE, samples |-> << >>]

Init ==
    /\ reg = [r \in Registers |-> Unused]
    /\ bits = [r \in Registers |-> << >>]
    /\ within = TRUE
    /\ calls = 0
    /\ faulted = FALSE

Shape(r) == Len(reg[r].samples)
Batch(size, sample(_)) == Tuple([i \in 1..size |-> sample(i)], size)

Called == /\ ~faulted
          /\ calls < MaxCalls
          /\ calls' = calls + 1

\* The result replaces whatever the output held; the output may be an input.
Give(out, samples, message) ==
    /\ reg' = [reg EXCEPT ![out] = [generated |-> TRUE, samples |-> samples]]
    /\ bits' = [bits EXCEPT ![out] = message]
    /\ UNCHANGED faulted

encrypt_lwe_symmetric(message) ==
    Batch(Len(message), LAMBDA i : EncryptedSample(message[i], calls, i))

encrypt(r, message) ==
    /\ Called
    /\ within' = (within /\ \A i \in 1..Len(message) :
                               Distance(EncryptionNoise[calls + i]) <= FreshNoise)
    /\ Give(r, encrypt_lwe_symmetric(message), message)

\* A gate of two inputs.  It throws before it changes anything when their
\* shapes differ or one of them was never encrypted.
GateCall(linear(_, _), truth(_, _)) ==
    \E x, y \in Registers :
        /\ Called
        /\ Shape(x) = Shape(y)
        /\ reg[x].generated /\ reg[y].generated
        /\ within' = (within /\ \A i \in 1..Shape(x) :
                                   Bearable(linear(reg[x].samples[i], reg[y].samples[i])))
        /\ LET samples ==
                    Batch(Shape(x),
                          LAMBDA i : key_switching(bootstrapping(
                              linear(reg[x].samples[i], reg[y].samples[i]))))
               message ==
                    Batch(Shape(x), LAMBDA i : truth(bits[x][i], bits[y][i]))
           IN  \E out \in Registers : Give(out, samples, message)

NAND == GateCall(NAND_pre_computation, LAMBDA p, q : ~(p /\ q))
AND == GateCall(AND_pre_computation, LAMBDA p, q : p /\ q)
NOR == GateCall(NOR_pre_computation, LAMBDA p, q : ~(p \/ q))
OR == GateCall(OR_pre_computation, LAMBDA p, q : p \/ q)
XNOR == GateCall(XNOR_pre_computation, LAMBDA p, q : p = q)
XOR == GateCall(XOR_pre_computation, LAMBDA p, q : p # q)

\* NOT only negates: the noise of its input stays.
NOT ==
    \E x, out \in Registers :
        /\ Called
        /\ reg[x].generated
        /\ UNCHANGED within
        /\ Give(out, Batch(Shape(x), LAMBDA i : NOT_computation(reg[x].samples[i])),
                Batch(Shape(x), LAMBDA i : ~bits[x][i]))

MUX ==
    \E x, y, control \in Registers :
        /\ Called
        /\ Shape(x) = Shape(y) /\ Shape(x) = Shape(control)
        /\ reg[x].generated /\ reg[y].generated /\ reg[control].generated
        /\ within' = (within /\ \A i \in 1..Shape(x) :
                                   MuxBearable(reg[x].samples[i], reg[y].samples[i],
                                               reg[control].samples[i]))
        /\ LET samples ==
                    Batch(Shape(x), LAMBDA i : MuxSample(reg[x].samples[i],
                              reg[y].samples[i], reg[control].samples[i]))
               message ==
                    Batch(Shape(x), LAMBDA i : IF bits[control][i] THEN bits[x][i]
                                                                   ELSE bits[y][i])
           IN  \E out \in Registers : Give(out, samples, message)

\* The flag of the control input is not looked at, and the shape of a
\* register that was never encrypted is an uninitialized integer: it may be
\* the shape of the others, and then the kernels read arrays that do not
\* exist.  With any other value the call throws and changes nothing.
MuxWithoutControl ==
    \E x, y, control \in Registers :
        /\ Called
        /\ Shape(x) = Shape(y)
        /\ reg[x].generated /\ reg[y].generated /\ ~reg[control].generated
        /\ faulted' = TRUE
        /\ UNCHANGED <<reg, bits, within>>

Next ==
    \/ \E r \in Registers, message \in Batches : encrypt(r, message)
    \/ NAND \/ AND \/ NOR \/ OR \/ XNOR \/ XOR
    \/ NOT
    \/ MUX
    \/ MuxWithoutControl

Spec == Init /\ [][Next]_vars

-----------------------------------------------------------------------------
ASSUME KeysAssumption ==
    /\ LweKey \in [Lwe -> {0, 1}] /\ RingKey \in [Ring -> {0, 1}]
    /\ BootMask \in [Lwe -> [1..2 -> [1..DigitCount -> [Ring -> Int]]]]
    /\ BootNoise \in [Lwe -> [1..2 -> [1..DigitCount -> [Ring -> Int]]]]
    /\ SwitchMask \in [Ring -> [1..SwitchLength -> [1..(TwoTo[SwitchBits] - 1) -> [Lwe -> Int]]]]
    /\ SwitchNoise \in [Ring -> [1..SwitchLength -> [1..(TwoTo[SwitchBits] - 1) -> Int]]]

ASSUME MessagesAssumption ==
    /\ Batches \subseteq Seq(BOOLEAN) \ {<< >>}
    /\ \A message \in Batches, call \in 0..(MaxCalls - 1) : \A i \in 1..Len(message) :
           /\ EncryptionMask[call + i] \in [Lwe -> Int]
           /\ EncryptionNoise[call + i] \in Int

\* Two samples within the budget and one rounding leave a gate an eighth of
\* the torus away from the wrong side.  With the 32 bits and the ring of 1024
\* of the code that leaves room for two budgets of 2^27, which its errors
\* keep to but for a chance; that they do is what within says.
ASSUME ParametersFit ==
    /\ FreshNoise \in Nat /\ TurnBudget \in Nat
    /\ Torus % (4 * RingSize) = 0
    /\ 2 * FreshNoise + TurnBudget < Torus \div 8

Ideal(bit) == IF bit THEN Encoded(1, 8) ELSE -Encoded(1, 8)

TypeOK ==
    /\ \A r \in Registers : reg[r].generated => Shape(r) = Len(bits[r])
    /\ calls \in 0..MaxCalls

\* Whatever gates led to a register, and whichever of its inputs it took the
\* place of, it decrypts to the bits that the gates of Boolean logic give, as
\* long as no error was beyond its budget.
RegistersOpen ==
    within =>
        \A r \in Registers :
            reg[r].generated =>
                \A i \in 1..Shape(r) : Decrypted(reg[r].samples[i]) = bits[r][i]

\* The errors that the model works out are all that a register carries: its
\* phase is no farther from its bit than their budget, whatever gates led to
\* it.  A bootstrapping leaves nothing of its inputs, NOT leaves what was there.
NoiseStaysBounded ==
    within =>
        \A r \in Registers :
            reg[r].generated =>
                \A i \in 1..Shape(r) :
                    Distance(Phase(reg[r].samples[i]) - Ideal(bits[r][i])) <= FreshNoise

=============================================================================
