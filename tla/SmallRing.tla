----------------------------- MODULE SmallRing -----------------------------
(***************************************************************************)
(* The ring the keys and ciphertexts live in, Z_q[x]/(x^N + 1), in the two *)
(* forms the kernels use.  An element is a tuple of N residues: its        *)
(* coefficients, or its values at the odd powers of a 2N-th root of unity  *)
(* in bit-reversed order (the NTT form).  Nothing in an element says which *)
(* form it is in, exactly as in the device buffers.                        *)
(***************************************************************************)
EXTENDS Integers, Sequences

CONSTANTS
    Modulus,        \* the prime q
    DegreePower,    \* N is 2^DegreePower
    Root            \* a primitive 2N-th root of unity modulo q

ASSUME RingAssumption ==
    Modulus \in Nat \ {0, 1} /\ DegreePower \in Nat /\ Root \in 1..(Modulus - 1)

\* The modulus is a prime.
ASSUME PrimeAssumption ==
    \A k \in 1..(Modulus - 1) : \E x \in 1..(Modulus - 1) : (x * k) % Modulus = 1

TwoTo[n \in 0..DegreePower] == IF n = 0 THEN 1 ELSE 2 * TwoTo[n - 1]

Degree == TwoTo[DegreePower]
Index == 1..Degree
Elements == [Index -> 0..(Modulus - 1)]

\* The elements of a function on Index, all of them worked out.
Tuple(f) == SubSeq(f, 1, Degree)

Plus(a, b) == Tuple([i \in Index |-> (a[i] + b[i]) % Modulus])
Minus(a, b) == Tuple([i \in Index |-> (a[i] - b[i]) % Modulus])
Times(a, b) == Tuple([i \in Index |-> (a[i] * b[i]) % Modulus])
Scaled(k, a) == Tuple([i \in Index |-> (k * a[i]) % Modulus])
Zero == Tuple([i \in Index |-> 0])

Dot(a, b) ==
    LET sum[k \in 0..Degree] == IF k = 0 THEN 0 ELSE sum[k - 1] + a[k] * b[k]
    IN  sum[Degree] % Modulus

\* Root^k: the forward table the NTT reads.
RootPower(k) ==
    LET power[j \in 0..k] == IF j = 0 THEN 1 ELSE (power[j - 1] * Root) % Modulus
    IN  power[k]

InverseOf(k) == CHOOSE x \in 1..(Modulus - 1) : (x * k) % Modulus = 1

\* bitreverse_gpu, of DegreePower bits.
BitReversed(i) ==
    LET rest[b \in 0..DegreePower] ==
            IF b = 0 THEN 0
            ELSE 2 * rest[b - 1] + ((i \div TwoTo[b - 1]) % 2)
    IN  rest[DegreePower]

\* The power of the root that the value at an index of the NTT form is at.
Exponent == Tuple([j \in Index |-> 2 * BitReversed(j - 1) + 1])

\* The forward and the inverse transform, as the matrices they are.
Forward ==
    Tuple([j \in Index |->
        Tuple([i \in Index |-> RootPower((Exponent[j] * (i - 1)) % (2 * Degree))])])
Backward ==
    Tuple([i \in Index |->
        Tuple([j \in Index |->
            (InverseOf(Degree)
                * RootPower((2 * Degree - ((Exponent[j] * (i - 1)) % (2 * Degree)))
                                % (2 * Degree))) % Modulus])])

\* What a primitive 2N-th root of unity gives: the one table undoes the other.
Undoes(back, there) ==
    \A i, k \in Index :
        Dot(back[i], [j \in Index |-> there[j][k]]) = IF i = k THEN 1 ELSE 0

ASSUME TablesAssumption ==
    Degree < Modulus /\ Undoes(Backward, Forward) /\ Undoes(Forward, Backward)

Ntt(v) == Tuple([j \in Index |-> Dot(Forward[j], v)])
Intt(w) == Tuple([i \in Index |-> Dot(Backward[i], w)])

\* x -> x^g on an element in the NTT form is a permutation of its values.
Permuted(g, w) ==
    Tuple([j \in Index |-> w[BitReversed(((g * Exponent[j]) \div 2) % Degree) + 1]])

InverseExponent(g) ==
    CHOOSE h \in {2 * j - 1 : j \in Index} : (g * h) % (2 * Degree) = 1
=============================================================================
