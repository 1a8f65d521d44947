--------------------------- MODULE ResidueNumbers ---------------------------
(***************************************************************************)
(* Polynomials as their residues modulo several primes, and the two things *)
(* key switching does with them: a polynomial over the primes of a digit   *)
(* is written over all primes, and a polynomial over the primes of Q and P *)
(* is divided by P.  Both read tables that the context works out once for  *)
(* every depth and keeps in flat vectors; the offsets into them are those  *)
(* of the kernels.                                                         *)
(*                                                                         *)
(* A context c is a record: its scheme, the primes q and p, the plain      *)
(* modulus t, and the tables levels, order, division and bfv made of them. *)
(* A limb is the tuple of the coefficients modulo one prime, a polynomial  *)
(* the sequence of its limbs.  The NTT form is left out: a product is the  *)
(* negacyclic product of the coefficients.                                 *)
(***************************************************************************)
EXTENDS Integers, SequencesExt

CONSTANT
    Degree          \* n, the number of coefficients

Places == 1..Degree
Limb(f) == SubSeq(f, 1, Degree)

\* The negacyclic product of two limbs modulo m.
Times(a, b, m) ==
    Limb([n \in Places |->
        LET sum[i \in 0..Degree] ==
                IF i = 0 THEN 0
                ELSE sum[i - 1]
                        + (IF i <= n THEN 1 ELSE -1) * a[i] * b[((n - i) % Degree) + 1]
        IN  sum[Degree] % m])

Plus(a, b, m) == Limb([n \in Places |-> (a[n] + b[n]) % m])
Minus(a, b, m) == Limb([n \in Places |-> (a[n] - b[n]) % m])

InverseOf(k, m) == CHOOSE x \in 1..(m - 1) : (x * k) % m = 1

\* The product of a sequence of numbers modulo m.
ProductOf(s, m) ==
    LET product[i \in 0..Len(s)] ==
            IF i = 0 THEN 1 ELSE (product[i - 1] * s[i]) % m
    IN  product[Len(s)]

\* The product itself.
WholeProduct(s) ==
    LET product[i \in 0..Len(s)] == IF i = 0 THEN 1 ELSE product[i - 1] * s[i]
    IN  product[Len(s)]

(***************************************************************************)
(* The numbers of the code are words: a negative one wraps.                *)
(***************************************************************************)
Word == 2^20

\* The x of extendedGCD, of a word; modInverse reduces it as it is.
ExtendedX(a, b) ==
    LET x[r \in 0..a, s \in 0..b] ==
            IF r = 0 THEN <<0, 1>>
            ELSE LET below == x[s % r, r]
                 IN  <<(below[2] - (s \div r) * below[1]) % Word, below[1]>>
    IN  x[a, b][1]

modInverse(a, m) == ((ExtendedX(a % m, m) % m) + m) % m

(***************************************************************************)
(* KeySwitchParameterGenerator: Q falls into digits of as many primes as P *)
(* has.                                                                    *)
(***************************************************************************)

Base(c, depth) ==
    SubSeq(c.q, 1, Len(c.q) - depth) \o c.p
QSize(c, depth) == Len(c.q) - depth
PSize(c) == Len(c.p)

d_counter(l, m) ==
    [j \in 1..((l + m - 1) \div m) |-> IF j * m <= l THEN m ELSE l - (j - 1) * m]

d_location_counter(sizes) ==
    LET start[j \in 1..Len(sizes)] ==
            IF j = 1 THEN 0 ELSE start[j - 1] + sizes[j - 1]
    IN  start

\* The digit of every prime; a prime of P is of none.
sk_pair_counter(sizes, pSize) ==
    FlattenSeq([j \in 1..Len(sizes) |-> [i \in 1..sizes[j] |-> j]])
        \o [i \in 1..pSize |-> 0]

Sizes(c, depth) == d_counter(QSize(c, depth), PSize(c))

\* The primes of every digit at a depth.
DigitPrimes(c, depth) ==
    LET sizes == Sizes(c, depth)
        starts == d_location_counter(sizes)
    IN  [j \in 1..Len(sizes) |->
            SubSeq(Base(c, depth), starts[j] + 1, starts[j] + sizes[j])]

\* For every digit and every prime of the base, the products of the digit's
\* primes but one, one after the other.
level_base_change_matrix(c, depth) ==
    LET primes == DigitPrimes(c, depth)
        base == Base(c, depth)
    IN  FlattenSeq([j \in 1..Len(primes) |->
            FlattenSeq([k \in 1..Len(base) |->
                [i \in 1..Len(primes[j]) |->
                    ProductOf(RemoveAt(primes[j], i), base[k])]])])

level_Mi_inv(c, depth) ==
    LET primes == DigitPrimes(c, depth)
    IN  FlattenSeq([j \in 1..Len(primes) |->
            [i \in 1..Len(primes[j]) |->
                InverseOf(ProductOf(RemoveAt(primes[j], i), primes[j][i]),
                          primes[j][i])]])

level_prod(c, depth) ==
    LET primes == DigitPrimes(c, depth)
        base == Base(c, depth)
    IN  FlattenSeq([j \in 1..Len(primes) |->
            [k \in 1..Len(base) |-> ProductOf(primes[j], base[k])]])

\* The tables of every depth, as the context keeps them.
LevelTables(c) ==
    SubSeq([level \in 1..Len(c.q) |->
        [sizes |-> SubSeq(Sizes(c, level - 1), 1, Len(Sizes(c, level - 1))),
         starts |-> d_location_counter(Sizes(c, level - 1)),
         matrix |-> level_base_change_matrix(c, level - 1),
         inverses |-> level_Mi_inv(c, level - 1),
         products |-> level_prod(c, level - 1)]],
        1, Len(c.q))

(***************************************************************************)
(* The digits of a polynomial x over the primes of Q at a depth, over the  *)
(* primes of Q and P.                                                      *)
(***************************************************************************)

\* A digit of one prime: its centred residue, written modulo every prime.
SinglePrimeDigit(c, depth, x, j) ==
    LET base == Base(c, depth)
        q == base[j]
        negative(n) == x[j][n] > q \div 2
        magnitude(n) == IF negative(n) THEN q - x[j][n] ELSE x[j][n]
    IN  [k \in 1..Len(base) |->
            Limb([n \in Places |->
                IF negative(n) /\ magnitude(n) % base[k] # 0
                THEN base[k] - (magnitude(n) % base[k])
                ELSE magnitude(n) % base[k]])]

\* A digit of several primes: the sum of the products, less the multiple of
\* the digit's modulus that the rounded sum of the fractions counts.  The
\* kernel of CKKS reduces each part modulo the prime before it multiplies
\* it, as here, and that of BFV (switchkey.cu:741-745) multiplies it as it
\* is: with an exact product the two are the same.
ConvertedDigit(c, depth, x, j) ==
    LET table == c.levels[depth + 1]
        base == Base(c, depth)
        size == table.sizes[j]
        start == table.starts[j]
        whole == WholeProduct(SubSeq(base, start + 1, start + size))
        partial == SubSeq([i \in 1..size |->
            Limb([n \in Places |->
                (x[start + i][n] * table.inverses[start + i]) % base[start + i]])],
            1, size)
        fractions(n) ==
            LET sum[i \in 0..size] ==
                    IF i = 0 THEN 0
                    ELSE sum[i - 1] + partial[i][n] * (whole \div base[start + i])
            IN  sum[size]
        rounded == Limb([n \in Places |-> ((2 * fractions(n)) + whole) \div (2 * whole)])
    IN  [k \in 1..Len(base) |->
            Limb([n \in Places |->
                LET sum[i \in 0..size] ==
                        IF i = 0 THEN 0
                        ELSE sum[i - 1]
                              + (partial[i][n] % base[k])
                                  * table.matrix[i + (k - 1) * size + start * Len(base)]
                IN  (sum[size] - rounded[n] * table.products[k + (j - 1) * Len(base)])
                        % base[k]])]

decompose_to_Qtilde(c, depth, x) ==
    SubSeq([j \in 1..Len(Sizes(c, depth)) |->
        IF PSize(c) = 1 THEN SinglePrimeDigit(c, depth, x, j)
        ELSE ConvertedDigit(c, depth, x, j)],
        1, Len(Sizes(c, depth)))

(***************************************************************************)
(* The position, in what is kept for all primes, of the prime at a place   *)
(* of the base of a depth.                                                 *)
(***************************************************************************)
\* Mutant: the primes of P are looked for where they are at the depth.
KeyIndexOfDepth(c, depth, y) == y

KeyIndex(c, depth, y) == IF y <= QSize(c, depth) THEN y ELSE y + depth

\* The digits times the parts of a key, summed modulo every prime.
multiply_accumulate(c, depth, digits, key) ==
    LET base == Base(c, depth)
    IN  [part \in 1..2 |->
            SubSeq([y \in 1..Len(base) |->
                LET at == KeyIndex(c, depth, y)
                    sum[i \in 0..Len(digits)] ==
                        IF i = 0 THEN Limb([n \in Places |-> 0])
                        ELSE Plus(sum[i - 1],
                                  Times(digits[i][y], key[i][part][at], base[y]),
                                  base[y])
                IN  sum[Len(digits)]],
                1, Len(base))]

(***************************************************************************)
(* The products of the code are made in the NTT form.  The transform of a  *)
(* list of limbs reads, from tables the operator makes for every depth,    *)
(* which prime is whose and which limbs are to be transformed.  A limb     *)
(* transformed for another prime, or not at all, holds other numbers.      *)
(***************************************************************************)
Scrambled(limb) == Reverse(limb)

\* Mutant: the primes of P are numbered as at the depth.
new_prime_locations_of_depth(c) ==
    FlattenSeq([level \in 1..Len(c.q) |->
        [y \in 1..(Len(c.q) - level + 1) |-> y]
            \o [y \in 1..PSize(c) |-> Len(c.q) - level + 1 + y]])

new_prime_locations(c) ==
    FlattenSeq([level \in 1..Len(c.q) |->
        [y \in 1..(Len(c.q) - level + 1) |-> y]
            \o [y \in 1..PSize(c) |-> Len(c.q) + y]])

\* The last limb of either part, of ciphertexts of ever fewer limbs.
new_input_locations(c) ==
    FlattenSeq([k \in 1..(Len(Base(c, 0)) - 1) |->
        LET limbs == Len(Base(c, 0)) + 1 - k
        IN  <<limbs - 1, (2 * limbs) - 1>>])

OrderTables(c) == [primes |-> new_prime_locations(c), inputs |-> new_input_locations(c)]

\* The limbs over Q and P, transformed one way or the other.
Ordered(c, depth, limbs) ==
    LET location[j \in 0..depth] ==
            IF j = 0 THEN 0 ELSE location[j - 1] + (Len(Base(c, 0)) - (j - 1))
    IN  SubSeq([y \in 1..Len(limbs) |->
            IF Base(c, 0)[c.order.primes[location[depth] + y]] = Base(c, depth)[y]
            THEN limbs[y]
            ELSE Scrambled(limbs[y])],
            1, Len(limbs))

\* The limbs of a part, the last one transformed back; the row of the table
\* counts the limbs that are gone.
LastBack(c, row, part, limbs) ==
    IF c.order.inputs[(2 * row) + part] = (part * Len(limbs)) - 1
    THEN limbs
    ELSE [limbs EXCEPT ![Len(limbs)] = Scrambled(limbs[Len(limbs)])]

(***************************************************************************)
(* Division, with rounding, by the last prime: what is left of it is taken *)
(* away from every other limb, which is then multiplied by the inverse.    *)
(***************************************************************************)
DivideByLast(x, base, half, halfMod, inverse) ==
    LET last == Len(x)
        moved == Limb([n \in Places |-> (x[last][n] + half) % base[last]])
    IN  SubSeq([y \in 1..(last - 1) |->
            Limb([n \in Places |->
                ((x[y][n] - ((moved[n] % base[y]) - halfMod[y])) * inverse[y]) % base[y]])],
            1, last - 1)

\* For the last prime, the one before it, ... of P: the inverse of it, and
\* half of it, modulo every prime before it.
calculate_half(c) ==
    [i \in 1..PSize(c) |-> Base(c, 0)[Len(Base(c, 0)) + 1 - i] \div 2]

calculate_last_q_modinv(c) ==
    LET base == Base(c, 0)
    IN  FlattenSeq([i \in 1..PSize(c) |->
            [j \in 1..(Len(base) - i) |->
                InverseOf(base[Len(base) + 1 - i] % base[j], base[j])]])

calculate_half_mod(c) ==
    LET base == Base(c, 0)
    IN  FlattenSeq([i \in 1..PSize(c) |->
            [j \in 1..(Len(base) - i) |-> calculate_half(c)[i] % base[j]]])

\* What P is modulo every prime of Q, prime of P by prime of P.
calculate_factor(c) ==
    FlattenSeq([j \in 1..PSize(c) |->
        [y \in 1..Len(c.q) |->
            Base(c, 0)[Len(Base(c, 0)) + 1 - j] % c.q[y]]])

\* The same for rescaling, where the last prime is that of Q at the depth.
Rescaled(c) ==
    LET q == c.q
        dropped(j) == q[Len(q) + 1 - j]
    IN  [half |-> [j \in 1..(Len(q) - 1) |-> dropped(j) \div 2],
         halfMod |-> FlattenSeq([j \in 1..(Len(q) - 1) |->
            [i \in 1..(Len(q) - j) |-> (dropped(j) \div 2) % q[i]]]),
         inverse |-> FlattenSeq([j \in 1..(Len(q) - 1) |->
            [i \in 1..(Len(q) - j) |-> InverseOf(dropped(j) % q[i], q[i])]])]

DivisionTables(c) ==
    [half |-> SubSeq(calculate_half(c), 1, PSize(c)),
     halfMod |-> calculate_half_mod(c),
     inverse |-> calculate_last_q_modinv(c),
     factor |-> calculate_factor(c),
     rescaled |-> Rescaled(c)]

\* The primes of P are divided by one after the other, from the last.
divide_round_lastq(c, depth, x) ==
    LET base == Base(c, depth)
        table == c.division
        location[i \in 0..PSize(c)] ==
            IF i = 0 THEN 0 ELSE location[i - 1] + (Len(Base(c, 0)) - i)
        divided[i \in 0..PSize(c)] ==
            IF i = 0 THEN x
            ELSE DivideByLast(divided[i - 1], base, table.half[i],
                    [y \in 1..(Len(base) - i) |-> table.halfMod[location[i - 1] + KeyIndex(c, depth, y)]],
                    [y \in 1..(Len(base) - i) |-> table.inverse[location[i - 1] + KeyIndex(c, depth, y)]])
    IN  divided[PSize(c)]

\* Relinearization and key switching of CKKS, with one prime in P, only
\* transform the limb of P back.
ModDown(c, depth, part, x) ==
    IF PSize(c) = 1 THEN divide_round_lastq(c, depth, LastBack(c, depth, part, x))
    ELSE divide_round_lastq(c, depth, Ordered(c, depth, x))

\* Mutant: the tables of the first rescale serve them all.
rescaleAtTop(c, depth, part, x) ==
    LET q == SubSeq(c.q, 1, QSize(c, depth))
        table == c.division.rescaled
    IN  DivideByLast(LastBack(c, depth + PSize(c), part, x), q, table.half[depth + 1],
            [y \in 1..(Len(q) - 1) |-> table.halfMod[y]],
            [y \in 1..(Len(q) - 1) |-> table.inverse[y]])

\* Rescaling divides by the last prime of Q.
rescale(c, depth, part, x) ==
    LET q == SubSeq(c.q, 1, QSize(c, depth))
        table == c.division.rescaled
        location[i \in 0..depth] ==
            IF i = 0 THEN 0 ELSE location[i - 1] + (Len(c.q) - i)
    IN  DivideByLast(LastBack(c, depth + PSize(c), part, x), q, table.half[depth + 1],
            [y \in 1..(Len(q) - 1) |-> table.halfMod[location[depth] + y]],
            [y \in 1..(Len(q) - 1) |-> table.inverse[location[depth] + y]])

=============================================================================
