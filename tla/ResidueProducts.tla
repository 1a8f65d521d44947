-------------------------- MODULE ResidueProducts --------------------------
(***************************************************************************)
(* The product of two BFV ciphertexts and their decryption, without ever   *)
(* putting a number together from its residues: the limbs over Q are       *)
(* written over the primes of a second base Bsk, multiplied over both,     *)
(* divided by Q there, and brought back.  The last prime of Bsk, m_sk,     *)
(* corrects the way back; m_tilde, a power of two, the way there; and      *)
(* gamma, one more prime, the rounding of the decryption.                  *)
(***************************************************************************)
EXTENDS ResidueNumbers

CONSTANTS
    m_tilde,            \* 2^32
    InternalPrimes,     \* generate_internal_primes, as many as are asked for
    MAX_MOD_BIT_COUNT,  \* the bits of an internal prime
    Spare               \* the bits left for the products of n coefficients

BitCount(k) == CHOOSE b \in 1..31 : 2^(b - 1) <= k /\ (b = 31 \/ k < 2^b)

Q(c) == c.q
Puncture(s, i, m) == ProductOf(RemoveAt(s, i), m)

bsk_modulus(c) ==
    LET bits[i \in 0..Len(Q(c))] ==
            IF i = 0 THEN 0 ELSE bits[i - 1] + BitCount(Q(c)[i])
    IN  IF BitCount(c.t) + bits[Len(Q(c))] + MAX_MOD_BIT_COUNT + Spare
                >= (MAX_MOD_BIT_COUNT * Len(Q(c))) + MAX_MOD_BIT_COUNT
        THEN Len(Q(c)) + 2
        ELSE Len(Q(c)) + 1

Bsk(c) == SubSeq(InternalPrimes, 1, bsk_modulus(c))
m_sk(c) == Last(Bsk(c))
B(c) == Front(Bsk(c))
gamma(c) == InternalPrimes[bsk_modulus(c) + 1]

-----------------------------------------------------------------------------
(* What the context keeps. *)

generate_base_matrix_q_Bsk(c) ==
    FlattenSeq([k \in 1..Len(Bsk(c)) |->
        [i \in 1..Len(Q(c)) |-> Puncture(Q(c), i, Bsk(c)[k])]])

calculate_Mi_inv(s) ==
    [i \in 1..Len(s) |-> InverseOf(Puncture(s, i, s[i]), s[i])]

generate_base_change_matrix_m_tilde(c) ==
    [i \in 1..Len(Q(c)) |-> Puncture(Q(c), i, m_tilde)]

generate_inv_prod_q_mod_m_tilde(c) ==
    modInverse(ProductOf(Q(c), m_tilde), m_tilde)

generate_inv_m_tilde_mod_Bsk(c) ==
    [k \in 1..Len(Bsk(c)) |-> InverseOf(m_tilde % Bsk(c)[k], Bsk(c)[k])]

generate_prod_q_mod_Bsk(c) ==
    [k \in 1..Len(Bsk(c)) |-> ProductOf(Q(c), Bsk(c)[k])]

generate_inv_prod_q_mod_Bsk(c) ==
    [k \in 1..Len(Bsk(c)) |-> InverseOf(ProductOf(Q(c), Bsk(c)[k]), Bsk(c)[k])]

generate_base_matrix_Bsk_q(c) ==
    FlattenSeq([k \in 1..Len(Q(c)) |->
        [i \in 1..Len(B(c)) |-> Puncture(B(c), i, Q(c)[k])]])

generate_base_change_matrix_msk(c) ==
    [i \in 1..Len(B(c)) |-> Puncture(B(c), i, m_sk(c))]

\* Mutant: m_sk is taken for a prime of B.
inverses_of_Bsk(c) == calculate_Mi_inv(Bsk(c))

generate_inv_punctured_prod_mod_B_array(c) == calculate_Mi_inv(B(c))

generate_inv_prod_B_mod_m_sk(c) == InverseOf(ProductOf(B(c), m_sk(c)), m_sk(c))

generate_prod_B_mod_q(c) == [k \in 1..Len(Q(c)) |-> ProductOf(B(c), Q(c)[k])]

generate_q_Bsk_merge_modulus(c) == Q(c) \o Bsk(c)

generate_Qi_t(c) == [i \in 1..Len(Q(c)) |-> Puncture(Q(c), i, c.t)]

generate_Qi_gamma(c) == [i \in 1..Len(Q(c)) |-> Puncture(Q(c), i, gamma(c))]

\* The inverses of the other primes, multiplied.
generate_Qi_inverse(c) ==
    [i \in 1..Len(Q(c)) |->
        ProductOf([j \in 1..(Len(Q(c)) - 1) |->
                      InverseOf(RemoveAt(Q(c), i)[j] % Q(c)[i], Q(c)[i])],
                  Q(c)[i])]

\* Mutant: the inverse is not negated.
PlainInverse(c, m) ==
    ProductOf([i \in 1..Len(Q(c)) |-> InverseOf(Q(c)[i] % m, m)], m)

NegatedInverse(c, m) ==
    m - ProductOf([i \in 1..Len(Q(c)) |-> InverseOf(Q(c)[i] % m, m)], m)
generate_mulq_inv_t(c) == NegatedInverse(c, c.t)
generate_mulq_inv_gamma(c) == NegatedInverse(c, gamma(c))

generate_inv_gamma(c) == InverseOf(gamma(c) % c.t, c.t)

BfvTables(c) ==
    IF c.scheme # "bfv" THEN <<>>
    ELSE [q_Bsk |-> generate_base_matrix_q_Bsk(c),
          Mi_inv |-> SubSeq(calculate_Mi_inv(Q(c)), 1, Len(Q(c))),
          q_m_tilde |-> SubSeq(generate_base_change_matrix_m_tilde(c), 1, Len(Q(c))),
          inv_q_m_tilde |-> generate_inv_prod_q_mod_m_tilde(c),
          inv_m_tilde |-> SubSeq(generate_inv_m_tilde_mod_Bsk(c), 1, Len(Bsk(c))),
          prod_q |-> SubSeq(generate_prod_q_mod_Bsk(c), 1, Len(Bsk(c))),
          inv_q |-> SubSeq(generate_inv_prod_q_mod_Bsk(c), 1, Len(Bsk(c))),
          B_q |-> generate_base_matrix_Bsk_q(c),
          B_msk |-> SubSeq(generate_base_change_matrix_msk(c), 1, Len(B(c))),
          B_inv |-> SubSeq(generate_inv_punctured_prod_mod_B_array(c), 1, Len(B(c))),
          inv_B_msk |-> generate_inv_prod_B_mod_m_sk(c),
          prod_B |-> SubSeq(generate_prod_B_mod_q(c), 1, Len(Q(c))),
          Qi_t |-> SubSeq(generate_Qi_t(c), 1, Len(Q(c))),
          Qi_gamma |-> SubSeq(generate_Qi_gamma(c), 1, Len(Q(c))),
          Qi_inverse |-> SubSeq(generate_Qi_inverse(c), 1, Len(Q(c))),
          mulq_inv_t |-> generate_mulq_inv_t(c),
          mulq_inv_gamma |-> generate_mulq_inv_gamma(c),
          inv_gamma |-> generate_inv_gamma(c),
          Bsk |-> Bsk(c),
          gamma |-> gamma(c)]

-----------------------------------------------------------------------------
(* The product. *)

\* The sum over i of values[i] times a row of a matrix, modulo m.
Converted(values, matrix, row, m) ==
    LET sum[i \in 0..Len(values)] ==
            IF i = 0 THEN 0
            ELSE (sum[i - 1]
                    + (values[i] % m) * matrix[i + (row - 1) * Len(values)]) % m
    IN  sum[Len(values)]

fast_convertion(c, x) ==
    LET table == c.bfv
        size == Len(Q(c))
        scaled(n) ==
            SubSeq([i \in 1..size |->
                (((x[i][n] * m_tilde) % Q(c)[i]) * table.Mi_inv[i]) % Q(c)[i]], 1, size)
        r(n) == m_tilde
                    - ((Converted(scaled(n), table.q_m_tilde, 1, m_tilde)
                            * table.inv_q_m_tilde) % m_tilde)
        centred(n, b) == IF r(n) >= m_tilde \div 2 THEN b - m_tilde + r(n) ELSE r(n)
    IN  x \o SubSeq([k \in 1..Len(table.Bsk) |->
                Limb([n \in Places |->
                    (((Converted(scaled(n), table.q_Bsk, k, table.Bsk[k])
                        + (centred(n, table.Bsk[k]) * table.prod_q[k])) % table.Bsk[k])
                            * table.inv_m_tilde[k]) % table.Bsk[k]])],
                1, Len(table.Bsk))

cross_multiplication(base, x, y) ==
    LET times(i, j) ==
            SubSeq([k \in 1..Len(base) |-> Times(x[i][k], y[j][k], base[k])],
                   1, Len(base))
        middle == SubSeq([k \in 1..Len(base) |->
                      Plus(times(1, 2)[k], times(2, 1)[k], base[k])], 1, Len(base))
    IN  <<times(1, 1), middle, times(2, 2)>>

\* t times x, divided by Q over Bsk and brought back over Q.
fast_floor(c, x) ==
    LET table == c.bfv
        t == c.t
        size == Len(Q(c))
        sk == Len(table.Bsk)
        scaled(n) ==
            SubSeq([i \in 1..size |->
                (((x[i][n] * t) % Q(c)[i]) * table.Mi_inv[i]) % Q(c)[i]], 1, size)
        divided(n) ==
            SubSeq([k \in 1..sk |->
                ((((t * x[size + k][n]) - Converted(scaled(n), table.q_Bsk, k, table.Bsk[k]))
                        % table.Bsk[k])
                    * table.inv_q[k]) % table.Bsk[k]], 1, sk)
        parts(quotient) ==
            SubSeq([k \in 1..(sk - 1) |->
                (quotient[k] * table.B_inv[k]) % table.Bsk[k]], 1, sk - 1)
        alpha(quotient) ==
            (((Converted(parts(quotient), table.B_msk, 1, table.Bsk[sk]) - quotient[sk])
                    % table.Bsk[sk])
                * table.inv_B_msk) % table.Bsk[sk]
        back(quotient, i) ==
            LET sum == Converted(parts(quotient), table.B_q, i, Q(c)[i])
                excess == alpha(quotient)
            IN  IF excess > table.Bsk[sk] \div 2
                THEN (sum + ((table.Bsk[sk] - excess) * table.prod_B[i])) % Q(c)[i]
                ELSE (sum - (excess * table.prod_B[i])) % Q(c)[i]
        quotients == Limb([n \in Places |-> divided(n)])
    IN  SubSeq([i \in 1..size |-> Limb([n \in Places |-> back(quotients[n], i)])],
               1, size)

multiply_bfv(c, x, y) ==
    LET wide(parts) ==
            [part \in 1..2 |-> fast_convertion(c, parts[part])]
        products == cross_multiplication(generate_q_Bsk_merge_modulus(c), wide(x), wide(y))
    IN  SubSeq([part \in 1..3 |-> fast_floor(c, products[part])], 1, 3)

-----------------------------------------------------------------------------
(* Decryption, of the sum of the first part and the others times the       *)
(* secret.                                                                 *)
(***************************************************************************)
decryption_kernel(c, x) ==
    LET table == c.bfv
        t == c.t
        g == table.gamma
        size == Len(Q(c))
        scaled(n) ==
            SubSeq([i \in 1..size |->
                (((((x[i][n] * t) % Q(c)[i]) * (g % Q(c)[i])) % Q(c)[i])
                    * table.Qi_inverse[i]) % Q(c)[i]], 1, size)
        inT(n) == (Converted(scaled(n), table.Qi_t, 1, t) * table.mulq_inv_t) % t
        inGamma(n) == (Converted(scaled(n), table.Qi_gamma, 1, g)
                        * table.mulq_inv_gamma) % g
    IN  Limb([n \in Places |->
            IF inGamma(n) > g \div 2
            THEN ((inT(n) + (g - inGamma(n))) * table.inv_gamma) % t
            ELSE ((inT(n) - inGamma(n)) * table.inv_gamma) % t])
=============================================================================
