-------------------------- MODULE CipherArithmetic --------------------------
(***************************************************************************)
(* What the kernels do to the numbers of a ciphertext, call after call: a  *)
(* product, its relinearization, rotations, a change of the secret key,    *)
(* a rescale and dropped primes of CKKS, the decryption of BFV.            *)
(*                                                                         *)
(* A ciphertext is its parts, polynomials over the primes of Q that its    *)
(* depth leaves; its phase, c0 + c1 s + c2 s^2, is what it is about, and   *)
(* every call promises something of the phase.  Degree, primes and keys    *)
(* are small, and the numbers are exact.                                   *)
(***************************************************************************)
EXTENDS ResidueProducts

CONSTANTS
    Contexts,       \* what contexts are asked for: sequence of [scheme, q, p, t]
    Secret,         \* the small coefficients of the "old" and the "new" secret
    Draws,          \* numbers the generator may draw
    Samples,        \* where in them the ciphertexts of a behaviour start
    Elements,       \* the Galois elements of the rotation keys
    MaxCalls        \* bound: calls on one ciphertext

VARIABLES
    context,    \* the context, with its tables
    keys,       \* the evaluation keys
    held,       \* the ciphertext that is worked on: [parts, depth, secret]
    other,      \* another one
    plain,      \* the plaintext the last decryption wrote
    call        \* the last call and how many there were

vars == <<context, keys, held, other, plain, call>>

ASSUME PositiveDegree == Degree \in Nat \ {0}

-----------------------------------------------------------------------------
(* What is drawn, and what is made of it. *)

Drawn(k, m) ==
    Limb([n \in Places |-> Draws[(((k * Degree) + n) % Len(Draws)) + 1] % m])
Small(k) == Limb([n \in Places |-> (Draws[(((k * Degree) + n) % Len(Draws)) + 1] % 3) - 1])
Residues(small, m) == Limb([n \in Places |-> small[n] % m])

\* x -> x^g on the coefficients, of numbers below m; the opposite of 0 is m.
PermutedRaw(g, m, limb) ==
    LET raw(n) == (n - 1) * g
        place(n) == (raw(n) % Degree) + 1
        from(k) == CHOOSE n \in Places : place(n) = k
        moved(n) == IF (raw(n) \div Degree) % 2 = 1 THEN m - limb[n] ELSE limb[n]
    IN  Limb([k \in Places |-> moved(from(k))])

\* The ring automorphism.
Automorphism(g, m, limb) == Residues(PermutedRaw(g, m, limb), m)

-----------------------------------------------------------------------------
(* The evaluation keys, of one part for every digit and prime: the digit's *)
(* error and mask under a secret, and P times the target for the digit's   *)
(* own primes.                                                             *)

KeyOf(c, draw, under(_), target(_)) ==
    LET primes == Base(c, 0)
        sizes == Sizes(c, 0)
        digits == Len(sizes)
        pair == sk_pair_counter(sizes, PSize(c))
        factor(prime) ==
            ProductOf([j \in 1..PSize(c) |->
                          calculate_factor(c)[((j - 1) * QSize(c, 0)) + prime]],
                      primes[prime])
        mask(i, prime) == Drawn(draw + (i * Len(primes)) + prime, primes[prime])
        zero == Limb([n \in Places |-> 0])
        hidden(i, prime) ==
            Minus(zero,
                  Plus(Times(under(prime), mask(i, prime), primes[prime]),
                       Residues(Small(draw + i), primes[prime]),
                       primes[prime]),
                  primes[prime])
        carried(i, prime) ==
            IF pair[prime] = i
            THEN Limb([n \in Places |-> (target(prime)[n] * factor(prime)) % primes[prime]])
            ELSE zero
    IN  SubSeq([i \in 1..digits |->
            <<SubSeq([prime \in 1..Len(primes) |->
                  Plus(hidden(i, prime), carried(i, prime), primes[prime])], 1, Len(primes)),
              SubSeq([prime \in 1..Len(primes) |-> mask(i, prime)], 1, Len(primes))>>],
            1, digits)

SecretLimb(c, who, prime) == Residues(Secret[who], Base(c, 0)[prime])

relinkey_gen(c) ==
    KeyOf(c, 3,
          LAMBDA prime : SecretLimb(c, "old", prime),
          LAMBDA prime : Times(SecretLimb(c, "old", prime), SecretLimb(c, "old", prime),
                               Base(c, 0)[prime]))

\* Mutant: the secret is permuted by the element, not by its inverse.
galoiskey_gen_forward(c, g) ==
    KeyOf(c, 5 + g,
          LAMBDA prime : Automorphism(g, Base(c, 0)[prime], SecretLimb(c, "old", prime)),
          LAMBDA prime : SecretLimb(c, "old", prime))

galoiskey_gen(c, g) ==
    KeyOf(c, 5 + g,
          LAMBDA prime : Automorphism(
              IF g = (2 * Degree) - 1 THEN g ELSE modInverse(g, 2 * Degree),
              Base(c, 0)[prime], SecretLimb(c, "old", prime)),
          LAMBDA prime : SecretLimb(c, "old", prime))

switchkey_gen(c) ==
    KeyOf(c, 11,
          LAMBDA prime : SecretLimb(c, "new", prime),
          LAMBDA prime : SecretLimb(c, "old", prime))

\* The elements of rotations and that of the conjugate, the zero key's.
AllElements == Elements \cup {(2 * Degree) - 1}

Keys(c) ==
    [relin |-> relinkey_gen(c),
     galois |-> [g \in AllElements |-> galoiskey_gen(c, g)],
     switch |-> switchkey_gen(c)]

-----------------------------------------------------------------------------
(* The calls, on the parts of a ciphertext. *)

IsCkks(c) == c.scheme = "ckks"

\* The digits of a part; CKKS transforms them in the order of its tables.
Digits(c, depth, part) ==
    LET digits == decompose_to_Qtilde(c, depth, part)
    IN  IF IsCkks(c)
        THEN SubSeq([j \in 1..Len(digits) |-> Ordered(c, depth, digits[j])],
                    1, Len(digits))
        ELSE digits

Down(c, depth, part, limbs) ==
    IF IsCkks(c) THEN ModDown(c, depth, part, limbs)
    ELSE divide_round_lastq(c, depth, limbs)

Added(c, a, b) ==
    SubSeq([i \in 1..Len(a) |-> Plus(a[i], b[i], Q(c)[i])], 1, Len(a))

relinearize(c, depth, parts) ==
    LET sums == multiply_accumulate(c, depth, Digits(c, depth, parts[3]), keys.relin)
    IN  SubSeq([part \in 1..2 |->
            Added(c, parts[part], Down(c, depth, part, sums[part]))], 1, 2)

switchkey(c, depth, parts) ==
    LET sums == multiply_accumulate(c, depth, Digits(c, depth, parts[2]), keys.switch)
    IN  <<Added(c, parts[1], Down(c, depth, 1, sums[1])),
          Down(c, depth, 2, sums[2])>>

\* The parts are divided, added and permuted in one kernel; what it writes
\* for CKKS is transformed, and so reduced.
apply_galois(c, depth, parts, g) ==
    LET sums == multiply_accumulate(c, depth, Digits(c, depth, parts[2]),
                                    keys.galois[g])
        down(part) ==
            divide_round_lastq(c, depth,
                IF IsCkks(c) THEN Ordered(c, depth, sums[part]) ELSE sums[part])
        permuted(limbs) ==
            SubSeq([i \in 1..Len(limbs) |->
                IF IsCkks(c) THEN Automorphism(g, Q(c)[i], limbs[i])
                ELSE PermutedRaw(g, Q(c)[i], limbs[i])], 1, Len(limbs))
    IN  <<permuted(Added(c, parts[1], down(1))), permuted(down(2))>>

-----------------------------------------------------------------------------
(* The phase. *)

\* What the parts are under a secret, limb by limb.
PhaseLimbs(c, cipher) ==
    SubSeq([i \in 1..QSize(c, cipher.depth) |->
        LET q == Q(c)[i]
            s == Residues(Secret[cipher.secret], q)
            sum[k \in 0..Len(cipher.parts)] ==
                IF k = 0 THEN Limb([n \in Places |-> 0])
                ELSE Plus(cipher.parts[Len(cipher.parts) + 1 - k][i],
                          Times(sum[k - 1], s, q), q)
        IN  sum[Len(cipher.parts)]],
        1, QSize(c, cipher.depth))

\* The numbers that limbs over the first primes of Q stand for, from 0 up.
Composed(c, limbs) ==
    LET primes == SubSeq(Q(c), 1, Len(limbs))
        whole == WholeProduct(primes)
        inverse == SubSeq(calculate_Mi_inv(primes), 1, Len(limbs))
        number(n) ==
            LET sum[i \in 0..Len(limbs)] ==
                    IF i = 0 THEN 0
                    ELSE LET next == sum[i - 1]
                                + ((limbs[i][n] * inverse[i]) % primes[i])
                                    * (whole \div primes[i])
                         IN  IF next >= whole THEN next - whole ELSE next
            IN  sum[Len(limbs)]
    IN  Limb([n \in Places |-> number(n)])

Modulus(c, depth) == WholeProduct(SubSeq(Q(c), 1, QSize(c, depth)))
Phase(c, cipher) == Composed(c, PhaseLimbs(c, cipher))

-----------------------------------------------------------------------------
(* A behaviour: one context, two fresh ciphertexts, calls on the first.    *)

\* The phases ciphertexts are made with.
Message(c, k) ==
    IF IsCkks(c) THEN Limb([n \in Places |-> Drawn(k, 97)[n] - 48])
    ELSE LET delta == Modulus(c, 0) \div c.t
         IN  Limb([n \in Places |-> (delta * Drawn(k, c.t)[n]) + Small(k + 1)[n]])

Fresh(c, k) ==
    LET mask(i) == Drawn(k + i, Q(c)[i])
    IN  [parts |->
            <<SubSeq([i \in 1..Len(Q(c)) |->
                  Minus(Residues(Message(c, k), Q(c)[i]),
                        Times(mask(i), SecretLimb(c, "old", i), Q(c)[i]),
                        Q(c)[i])], 1, Len(Q(c))),
              SubSeq([i \in 1..Len(Q(c)) |-> mask(i)], 1, Len(Q(c)))>>,
         depth |-> 0,
         secret |-> "old"]

\* The tables are made once, and the keys.
generate(c) ==
    [scheme |-> c.scheme, q |-> c.q, p |-> c.p, t |-> c.t,
     levels |-> LevelTables(c), order |-> OrderTables(c),
     division |-> DivisionTables(c), bfv |-> BfvTables(c)]
Started == {[context |-> generate(c), keys |-> Keys(c)] : c \in Range(Contexts)}

Init ==
    /\ \E start \in Started : context = start.context /\ keys = start.keys
    /\ \E k \in Samples : held = Fresh(context, k) /\ other = Fresh(context, k + 20)
    /\ plain = <<>>
    /\ call = [name |-> "none", element |-> 0, number |-> 0]

Called(name, element) ==
    /\ call.number < MaxCalls
    /\ call' = [name |-> name, element |-> element, number |-> call.number + 1]
    /\ UNCHANGED <<context, keys>>

Parts == Len(held.parts)

\* A product with the other ciphertext, of the same depth.
Multiply ==
    /\ Called("multiply", 0)
    /\ Parts = 2
    /\ held.depth = other.depth /\ held.secret = other.secret
    /\ held' = [held EXCEPT !.parts =
                IF IsCkks(context)
                THEN cross_multiplication(SubSeq(Q(context), 1, QSize(context, held.depth)),
                                          held.parts, other.parts)
                ELSE multiply_bfv(context, held.parts, other.parts)]
    /\ UNCHANGED <<other, plain>>

Relinearize ==
    /\ Called("relinearize", 0)
    /\ Parts = 3 /\ held.secret = "old"
    /\ held' = [held EXCEPT !.parts = relinearize(context, held.depth, held.parts)]
    /\ UNCHANGED <<other, plain>>

\* A rotation or, with the zero key, the conjugate or the change of rows.
Rotate(g) ==
    /\ Called("rotate", g)
    /\ Parts = 2 /\ held.secret = "old"
    /\ held' = [held EXCEPT !.parts = apply_galois(context, held.depth, held.parts, g)]
    /\ UNCHANGED <<other, plain>>

SwitchKey ==
    /\ Called("switchkey", 0)
    /\ Parts = 2 /\ held.secret = "old"
    /\ held' = [held EXCEPT !.parts = switchkey(context, held.depth, held.parts), !.secret = "new"]
    /\ UNCHANGED <<other, plain>>

Rescale ==
    /\ Called("rescale", 0)
    /\ IsCkks(context) /\ Parts = 2
    /\ QSize(context, held.depth) > 1
    /\ held' = [held EXCEPT !.parts = <<rescale(context, held.depth, 1, held.parts[1]),
                                  rescale(context, held.depth, 2, held.parts[2])>>,
                      !.depth = @ + 1]
    /\ UNCHANGED <<other, plain>>

ModDrop ==
    /\ Called("mod_drop", 0)
    /\ IsCkks(context) /\ Parts = 2
    /\ QSize(context, held.depth) > 1
    /\ held' = [held EXCEPT !.parts = <<Front(held.parts[1]), Front(held.parts[2])>>,
                      !.depth = @ + 1]
    /\ UNCHANGED <<other, plain>>

\* The two parts under the secret, scaled and rounded to the plaintext.
Decrypt ==
    /\ Called("decrypt", 0)
    /\ ~IsCkks(context) /\ Parts = 2
    /\ plain' = decryption_kernel(context, PhaseLimbs(context, held))
    /\ UNCHANGED <<held, other>>

Next ==
    \/ Multiply
    \/ Relinearize
    \/ \E g \in AllElements : Rotate(g)
    \/ SwitchKey
    \/ Rescale
    \/ ModDrop
    \/ Decrypt

Spec == Init /\ [][Next]_vars

-----------------------------------------------------------------------------

Centred(k, m) == IF (k % m) > m \div 2 THEN (k % m) - m ELSE k % m
Size(k) == IF k < 0 THEN -k ELSE k

\* How much a small polynomial can be of a product with the secret.
Norm(who) ==
    LET sum[n \in 0..Degree] == IF n = 0 THEN 0 ELSE sum[n - 1] + Size(Secret[who][n])
    IN  sum[Degree]

\* What switching a key may add: the digits times the errors, divided by P,
\* and the rounding of both parts.
SwitchNoise(c, depth, who) ==
    LET primes == DigitPrimes(c, depth)
        sum[j \in 0..Len(primes)] ==
            IF j = 0 THEN 0
            ELSE sum[j - 1] + Degree * ((WholeProduct(primes[j]) \div 2) + 1)
    IN  (sum[Len(primes)] \div WholeProduct(c.p)) + 2 + Norm(who)

\* Relinearization, every rotation and a change of the secret leave the
\* phase what it was, or move it by the automorphism, up to the noise of
\* the key, at every depth, with one prime in P or with several.
KeySwitchKeepsPhase ==
    [][call'.name \in {"relinearize", "rotate", "switchkey"} =>
        LET c == context
            m == Modulus(c, held.depth)
            before == Phase(c, held)
            after == Phase(c, held')
            wanted == IF call'.name = "rotate"
                      THEN Automorphism(call'.element, m, before) ELSE before
        IN  \A n \in Places :
                Size(Centred(after[n] - wanted[n], m))
                    <= SwitchNoise(c, held.depth, held'.secret)]_vars

\* A rescale divides the phase by the prime that goes, up to the rounding
\* of the two parts; a dropped prime leaves the phase as it was modulo the
\* others; a product of CKKS multiplies the phases.
LevelsKeepPhase ==
    [][LET c == context
           last == Q(c)[QSize(c, held.depth)]
           before == Phase(c, held)
           after == Phase(c, held')
       IN  /\ call'.name = "rescale" =>
                \A n \in Places :
                    2 * Size(Centred((last * after[n]) - before[n], Modulus(c, held.depth)))
                        <= last * (1 + Norm(held.secret))
           /\ call'.name = "mod_drop" =>
                \A n \in Places : after[n] = before[n] % Modulus(c, held'.depth)
           /\ (call'.name = "multiply" /\ IsCkks(c)) =>
                PhaseLimbs(c, held') =
                    SubSeq([i \in 1..QSize(c, held.depth) |->
                        Times(PhaseLimbs(c, held)[i], PhaseLimbs(c, other)[i], Q(c)[i])],
                        1, QSize(c, held.depth))]_vars

\* The product of two polynomials of whole numbers.
WholeTimes(a, b) ==
    Limb([n \in Places |->
        LET sum[i \in 0..Degree] ==
                IF i = 0 THEN 0
                ELSE sum[i - 1]
                        + (IF i <= n THEN 1 ELSE -1) * a[i] * b[((n - i) % Degree) + 1]
        IN  sum[Degree]])

\* round(t k / q), in pieces that are small.
Scaled(k, t, q) ==
    (t * (k \div q)) + (((2 * t * (k % q)) + q) \div (2 * q))

\* The product of two BFV ciphertexts is, part by part, the product of the
\* whole numbers their limbs stand for, times t and divided by Q, off by no
\* more than there are primes, unless a number is so near Q / 2 that
\* m_tilde cannot tell its sign.
BfvProductRounds ==
    [][(call'.name = "multiply" /\ ~IsCkks(context)) =>
        LET c == context
            q == Modulus(c, 0)
            t == c.t
            whole(cipher, part) ==
                Limb([n \in Places |-> Centred(Composed(c, cipher.parts[part])[n], q)])
            clear(cipher) ==
                \A part \in 1..2, n \in Places :
                    Size(whole(cipher, part)[n])
                        < (q \div 2) - ((Len(Q(c)) * q) \div m_tilde) - 1
            products ==
                <<WholeTimes(whole(held, 1), whole(other, 1)),
                  LET one == WholeTimes(whole(held, 1), whole(other, 2))
                      two == WholeTimes(whole(held, 2), whole(other, 1))
                  IN  Limb([n \in Places |-> one[n] + two[n]]),
                  WholeTimes(whole(held, 2), whole(other, 2))>>
        IN  (clear(held) /\ clear(other)) =>
                \A part \in 1..3 :
                    LET result == Composed(c, held'.parts[part])
                    IN  \A n \in Places :
                            Size(Centred(result[n] - Scaled(products[part][n], t, q), q))
                                <= Len(Q(c)) + 1]_vars

\* Decryption of BFV rounds t times the phase, divided by Q, to the nearest
\* number, unless the fraction is so near one half that gamma cannot tell.
DecryptionRounds ==
    [][call'.name = "decrypt" =>
        LET c == context
            q == Modulus(c, 0)
            t == c.t
            phase == Phase(c, held)
            g == c.bfv.gamma
        IN  \A n \in Places :
                LET nearest == ((2 * t * phase[n]) + q) \div (2 * q)
                    off == Size((t * phase[n]) - (nearest * q))
                IN  off < (q \div 2) - (((Len(Q(c)) + 1) * q) \div g) - 1
                        => plain'[n] = nearest % t]_vars
=============================================================================
