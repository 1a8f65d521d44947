---------------------------- MODULE BfvOperators ----------------------------
(* The operators of BFV (HEOperator, HEArithmeticOperator, HELogicOperator  *)
(* and the encryptor and decryptor around them): the checks of every call,  *)
(* the fields a call sets, the polynomials it writes, and the inner calls a *)
(* longer operation is made of, one of which may throw after another has    *)
(* written.                                                                 *)
(*                                                                          *)
(* A polynomial is the vector of its slots modulo T, and a ciphertext is a  *)
(* sequence of polynomials c with c[1] + c[2]*s + c[3]*s^2 equal to the     *)
(* message; the noise, the scaling by Q/t and the digits of key switching   *)
(* are the subject of ResidueNumbers.                                       *)
EXTENDS Integers, FiniteSets, Sequences, SequencesExt

CONSTANTS
  Ciphertexts,     \* the ciphertexts of a program
  Plaintexts,      \* the plaintexts of a program
  T,               \* the plain modulus
  RowSize,         \* n / 2, a power of two
  Zeta,            \* a primitive root of order 4 * RowSize modulo T
  KeySteps,        \* the steps of the map galois_elt of the Galois key
  Steps,           \* the steps a program rotates by
  GaloisSteps,     \* the steps whose Galois elements it applies
  Shifts,          \* the steps it rotates by at once, one per output
  Powers,          \* the powers of X a program multiplies by
  Secrets,         \* Secrets[1], Secrets[2]: two secret keys
  Masks,           \* Masks[i]: the random part of the i-th public key
  Message,         \* Message[t]: what the program encodes in t at first
  Unchecked,       \* TRUE: calls the operators accept without a check
  MaxOps,          \* bound: calls of a behaviour
  LastResults      \* bound: the ciphertexts its last call may write

VARIABLES
  object,          \* object[c]: the Ciphertext c
  text,            \* text[p]: the Plaintext p
  call,            \* the last call
  outcome,         \* "ok", or why it threw
  ops              \* calls made

vars == <<object, text, call, outcome, ops>>
(* What a further call sees.                                                *)
Seen == <<object, text>>

Slots == 0 .. 2 * RowSize - 1
Vectors == [Slots -> 0 .. T - 1]
Inner == {"inner1", "inner2", "product", "result", "rotated"}
Domains == {"coeff", "ntt", "mixed"}

ASSUME ParametersOK ==
  /\ T \in Nat \ {0, 1} /\ RowSize \in Nat \ {0} /\ Zeta \in 1 .. T - 1
  /\ Ciphertexts \cap Inner = {} /\ Ciphertexts \cap Plaintexts = {}
  /\ \A k \in Steps \cup KeySteps \cup GaloisSteps : k \in -(RowSize - 1) .. RowSize - 1
  /\ DOMAIN Secrets = 1 .. 2 /\ \A i \in 1 .. 2 : Secrets[i] \in Vectors
  /\ LastResults \subseteq Ciphertexts
  /\ \A shift \in Shifts : /\ IsFiniteSet(DOMAIN shift)
                            /\ DOMAIN shift \subseteq Ciphertexts
                            /\ \A z \in DOMAIN shift : shift[z] \in Int

-----------------------------------------------------------------------------
(* The kernels, one slot at a time.                                         *)
Add2(u, v) == [s \in Slots |-> (u[s] + v[s]) % T]
Sub2(u, v) == [s \in Slots |-> (u[s] - v[s]) % T]
Mul2(u, v) == [s \in Slots |-> (u[s] * v[s]) % T]
Constant(k) == [s \in Slots |-> k]

addition(p, q) == [i \in DOMAIN p |-> Add2(p[i], q[i])]
substraction(p, q) == [i \in DOMAIN p |-> Sub2(p[i], q[i])]
negation(p) == [i \in DOMAIN p |-> Sub2(Constant(0), p[i])]

(* A plaintext only goes to the first polynomial; the others are copied.    *)
addition_plain_bfv_poly(p, v) == [p EXCEPT ![1] = Add2(@, v)]
substraction_plain_bfv_poly(p, v) == [p EXCEPT ![1] = Sub2(@, v)]
cipherplain(p, v) == [i \in 1 .. 2 |-> Mul2(p[i], v)]
cross_multiplication(p, q) ==
  << Mul2(p[1], q[1]), Add2(Mul2(p[1], q[2]), Mul2(p[2], q[1])),
     Mul2(p[2], q[2]) >>

(* Powers modulo T, and the root of X^n + 1 slot s evaluates at, as a power *)
(* of Zeta: 3^i in the first row and its inverse in the second.             *)
PowerMod[b \in 0 .. 4 * RowSize, k \in 0 .. 16 * RowSize * RowSize] ==
  IF k = 0 THEN 1 ELSE (b * PowerMod[b, k - 1]) % (4 * RowSize)
ZetaTo[k \in 0 .. 4 * RowSize] == IF k = 0 THEN 1 ELSE (Zeta * ZetaTo[k - 1]) % T
RootOf ==
  [s \in Slots |-> IF s < RowSize THEN PowerMod[3, s]
                   ELSE 4 * RowSize - PowerMod[3, s - RowSize]]
SlotOf == [x \in {RootOf[s] : s \in Slots} |-> CHOOSE s \in Slots : RootOf[s] = x]

(* The slots of X^k, k possibly negative: X^n = -1.                         *)
PowerOfX == [k \in Powers |->
               [s \in Slots |-> ZetaTo[(RootOf[s] * k) % (4 * RowSize)]]]

(* X -> X^elt: a slot takes the value at the elt-th power of its root.      *)
Automorphism(v, elt) ==
  [s \in Slots |-> v[SlotOf[(RootOf[s] * elt) % (4 * RowSize)]]]
InverseElt(elt) ==
  CHOOSE e \in 1 .. 4 * RowSize - 1 : (e * elt) % (4 * RowSize) = 1

steps_to_galois_elt(k) ==
  IF k = 0 THEN 4 * RowSize - 1
  ELSE PowerMod[3, IF k < 0 THEN RowSize + k ELSE k]

(* The steps of the powers of two that a key with them composes k from,     *)
(* the largest first.                                                       *)
TwoTo[i \in 0 .. RowSize] == IF i = 0 THEN 1 ELSE 2 * TwoTo[i - 1]
LargestPower(k) ==
  TwoTo[CHOOSE i \in 0 .. RowSize - 1 : TwoTo[i] <= k /\ k < TwoTo[i + 1]]
PowersOf[k \in 0 .. RowSize - 1] ==
  IF k = 0 THEN <<>> ELSE <<LargestPower(k)>> \o PowersOf[k - LargestPower(k)]
SignedPowersOf(k) ==
  IF k < 0 THEN [i \in DOMAIN PowersOf[-k] |-> -PowersOf[-k][i]] ELSE PowersOf[k]

(* The sum of digit times key: c times `from` under the secret `to`.        *)
keyswitch_multiply_accumulate(c, from, to) ==
  << Mul2(c, Sub2(from, Mul2(Masks[2], to))), Mul2(c, Masks[2]) >>

-----------------------------------------------------------------------------
(* A call sees the objects of the program and inner ones; it goes on until  *)
(* a check fails, and what it wrote before that stays.                      *)
Fresh == [made |-> FALSE, size |-> 2, relin |-> FALSE, ntt |-> FALSE,
          dom |-> "coeff", key |-> 1, parts |-> <<Constant(0), Constant(0)>>]
Heap == [of |-> [n \in Ciphertexts \cup Inner |->
                   IF n \in Inner THEN Fresh ELSE object[n]],
         outcome |-> "ok"]
Put(h, z, c) == [h EXCEPT !.of[z] = c]

(* The checks in their order; a failed one throws.                          *)
Checked(h, checks, next) ==
  LET failed == {i \in DOMAIN checks : ~checks[i][1]}
      first == CHOOSE i \in failed : \A j \in failed : i <= j
  IN IF h.outcome # "ok" THEN h
     ELSE IF failed = {} THEN next ELSE [h EXCEPT !.outcome = checks[first][2]]

Size(c) == IF c.relin THEN 3 ELSE 2
HoldsParts(c, k) == Len(c.parts) >= k
Both(a, b) == IF a = b THEN a ELSE "mixed"

(* The fields every operation sets on its result.                           *)
Result(a, size, relin, ntt, dom, parts) ==
  [made |-> TRUE, size |-> size, relin |-> relin, ntt |-> ntt, dom |-> dom,
   key |-> a.key, parts |-> parts]

AddOrSub(h, x, y, z, Kernel(_, _)) ==
  LET a == h.of[x]
      b == h.of[y]
  IN Checked(h, << <<a.relin = b.relin, "parts">>, <<a.ntt = b.ntt, "domain">>,
                   <<HoldsParts(a, Size(a)) /\ HoldsParts(b, Size(a)), "size">> >>,
       Put(h, z, Result(a, Size(a), a.relin, a.ntt, Both(a.dom, b.dom),
             Kernel(SubSeq(a.parts, 1, Size(a)), SubSeq(b.parts, 1, Size(a))))))
add(h, x, y, z) == AddOrSub(h, x, y, z, addition)
sub(h, x, y, z) == AddOrSub(h, x, y, z, substraction)

negate(h, x, z) ==
  LET a == h.of[x]
  IN Checked(h, << <<HoldsParts(a, Size(a)), "size">> >>,
       Put(h, z, Result(a, Size(a), a.relin, a.ntt, a.dom,
                        negation(SubSeq(a.parts, 1, Size(a))))))

PlainChecks(a, p) ==
  << <<~a.relin, "parts">>, <<~a.ntt /\ ~p.ntt, "domain">>,
     <<HoldsParts(a, 2), "size">> >>
add_plain(h, x, p, z) ==
  LET a == h.of[x]
  IN Checked(h, PlainChecks(a, p),
       Put(h, z, Result(a, 2, FALSE, a.ntt, Both(a.dom, p.dom),
             addition_plain_bfv_poly(SubSeq(a.parts, 1, 2), p.v))))
sub_plain(h, x, p, z) ==
  LET a == h.of[x]
  IN Checked(h, PlainChecks(a, p),
       Put(h, z, Result(a, 2, FALSE, a.ntt, Both(a.dom, p.dom),
             substraction_plain_bfv_poly(SubSeq(a.parts, 1, 2), p.v))))
(* In place only the first polynomial is written; no field changes.         *)
add_plain_inplace(h, x, p) ==
  Checked(h, PlainChecks(h.of[x], p),
    [h EXCEPT !.of[x].parts = addition_plain_bfv_poly(@, p.v),
              !.of[x].dom = Both(@, p.dom)])
sub_plain_inplace(h, x, p) ==
  Checked(h, PlainChecks(h.of[x], p),
    [h EXCEPT !.of[x].parts = substraction_plain_bfv_poly(@, p.v),
              !.of[x].dom = Both(@, p.dom)])

multiply_bfv(h, a, b, z) ==
  Checked(h, << <<~a.ntt /\ ~b.ntt, "domain">>,
                <<HoldsParts(a, 2) /\ HoldsParts(b, 2), "size">> >>,
    Put(h, z, Result(a, 3, TRUE, a.ntt, Both(a.dom, b.dom),
                     cross_multiplication(a.parts, b.parts))))
multiply(h, x, y, z) ==
  Checked(h, << <<~h.of[x].relin /\ ~h.of[y].relin, "parts">> >>,
          multiply_bfv(h, h.of[x], h.of[y], z))

(* Either form of plaintext: the product ends in the ciphertext's domain.   *)
multiply_plain(h, x, p, z) ==
  LET a == h.of[x]
  IN Checked(h, << <<~a.relin, "parts">>, <<HoldsParts(a, 2), "size">>,
                   <<a.ntt = p.ntt, "domain">> >>,
       Put(h, z, Result(a, 2, FALSE, a.ntt, Both(a.dom, p.dom),
                        cipherplain(a.parts, p.v))))

(* The third polynomial goes into the first two; it stays allocated, and    *)
(* only the flag tells that it is no longer part of the ciphertext.         *)
(* A slip: the size is set although the memory is kept.                     *)
relinearizeAndResize(c) ==
  LET s == Secrets[1]
      k == keyswitch_multiply_accumulate(c.parts[3], Mul2(s, s), s)
  IN [c EXCEPT !.parts = << Add2(@[1], k[1]), Add2(@[2], k[2]), @[3] >>,
               !.relin = FALSE, !.size = 2]
relinearize_external_product_inplace(c) ==
  LET s == Secrets[1]
      k == keyswitch_multiply_accumulate(c.parts[3], Mul2(s, s), s)
  IN [c EXCEPT !.parts = << Add2(@[1], k[1]), Add2(@[2], k[2]), @[3] >>,
               !.relin = FALSE]
relinearize_inplace(h, x) ==
  LET a == h.of[x]
  IN Checked(h, << <<a.relin, "parts">>, <<HoldsParts(a, 3), "size">>,
                   <<~a.ntt, "domain">> >>,
       Put(h, x, relinearize_external_product_inplace(a)))

-----------------------------------------------------------------------------
(* Rotations. The key for elt switches from the secret at the inverse       *)
(* automorphism, so that the permuted sum is under the secret itself.       *)
HasKey(elt) == \E k \in KeySteps : steps_to_galois_elt(k) = elt
decompose_for_galois(c) == c.parts[2]
Permuted(c, digits, elt) ==
  LET s == Secrets[1]
      k == keyswitch_multiply_accumulate(digits, s, Automorphism(s, InverseElt(elt)))
  IN << Automorphism(Add2(c.parts[1], k[1]), elt), Automorphism(k[2], elt) >>

(* It replaces the polynomials of its result and sets no field of it.       *)
apply_galois_decomposed(h, a, digits, z, elt, known) ==
  Checked(h, << <<known, "key">> >>,
    [h EXCEPT !.of[z].parts = Permuted(a, digits, elt), !.of[z].dom = a.dom])
apply_galois_bfv(h, x, z, elt) ==
  apply_galois_decomposed(h, h.of[x], decompose_for_galois(h.of[x]), z, elt,
                          HasKey(elt))

(* A slip: every step of a composed rotation reads the input.               *)
rotateFromInput(h, x, z, k) ==
  LET powers == SignedPowersOf(k)
      Chain[i \in 0 .. Len(powers)] ==
        IF i = 0 THEN h
        ELSE apply_galois_bfv(Chain[i - 1], x, z, steps_to_galois_elt(powers[i]))
  IN IF HasKey(steps_to_galois_elt(k))
     THEN apply_galois_bfv(h, x, z, steps_to_galois_elt(k))
     ELSE Checked(h, << <<\A i \in DOMAIN powers : powers[i] \in KeySteps, "key">> >>,
                  Chain[Len(powers)])
rotate_bfv(h, x, z, k) ==
  LET powers == SignedPowersOf(k)
      Chain[i \in 0 .. Len(powers)] ==
        IF i = 0 THEN h
        ELSE apply_galois_bfv(Chain[i - 1], IF i = 1 THEN x ELSE z, z,
                              steps_to_galois_elt(powers[i]))
  IN IF HasKey(steps_to_galois_elt(k))
     THEN apply_galois_bfv(h, x, z, steps_to_galois_elt(k))
     ELSE Checked(h, << <<\A i \in DOMAIN powers : powers[i] \in KeySteps, "key">> >>,
                  Chain[Len(powers)])

(* The fields the callers set after the rotation has written.               *)
Described(h, a, z) ==
  IF h.outcome # "ok" THEN h
  ELSE Put(h, z, Result(a, 2, a.relin, a.ntt, h.of[z].dom, h.of[z].parts))
LinearChecks(a) == << <<~a.relin, "parts">>, <<HoldsParts(a, 2), "size">> >>
OfCoefficients(a) == << <<~a.ntt, "domain">> >>

(* The remainder of C, with the sign of k.                                  *)
Reduced(k) == IF k < 0 THEN -((-k) % RowSize) ELSE k % RowSize
rotate_rows(h, x, z, k) ==
  LET a == h.of[x]
  IN Checked(h, LinearChecks(a),
       IF Reduced(k) = 0 THEN Put(h, z, a)
       ELSE Checked(h, OfCoefficients(a),
              Described(rotate_bfv(h, x, z, Reduced(k)), a, z)))
rotate_rows_inplace(h, x, k) == IF k = 0 THEN h ELSE rotate_rows(h, x, x, k)

rotate_columns_bfv(h, x, z) ==
  LET a == h.of[x]
  IN apply_galois_decomposed(h, a, decompose_for_galois(a), z,
                             steps_to_galois_elt(0), TRUE)
rotate_columns(h, x, z) ==
  Checked(h, LinearChecks(h.of[x]),
          Described(rotate_columns_bfv(h, x, z), h.of[x], z))
apply_galois(h, x, z, elt) ==
  Checked(h, LinearChecks(h.of[x]) \o OfCoefficients(h.of[x]),
          Described(apply_galois_bfv(h, x, z, elt), h.of[x], z))

(* All steps read input1; the steps with a key share its digits. Only       *)
(* rotate_rows and the copy set the fields of an output.                    *)
HoistedOutputs(h, x, shift) ==
  LET a == h.of[x]
      digits == decompose_for_galois(a)
      Rotate(g, z, k) ==
        IF k = 0 THEN Put(g, z, a)
        ELSE IF HasKey(steps_to_galois_elt(k))
        THEN apply_galois_decomposed(g, a, digits, z, steps_to_galois_elt(k), TRUE)
        ELSE rotate_rows(Put(g, "result", a), "result", z, k)
      Outputs == [n \in DOMAIN h.of |-> IF n \in DOMAIN shift THEN Fresh ELSE h.of[n]]
      outputs == SetToSeq(DOMAIN shift)
      Loop[i \in 0 .. Len(outputs)] ==
        IF i = 0 THEN [h EXCEPT !.of = Outputs]
        ELSE Rotate(Loop[i - 1], outputs[i], Reduced(shift[outputs[i]]))
  IN Loop[Len(outputs)]
(* The outputs are the caller's only when all of them are there.            *)
(* A slip: they are written where the caller sees them.                     *)
hoistedInPlace(h, x, shift) ==
  Checked(h, LinearChecks(h.of[x]), HoistedOutputs(h, x, shift))
rotate_rows_hoisted(h, x, shift) ==
  LET done == HoistedOutputs(h, x, shift)
  IN Checked(h, LinearChecks(h.of[x]),
       IF done.outcome = "ok" THEN done ELSE [h EXCEPT !.outcome = done.outcome])

(* To the second secret.                                                    *)
switchkey_bfv(c) ==
  LET k == keyswitch_multiply_accumulate(c.parts[2], Secrets[1], Secrets[2])
  IN << Add2(c.parts[1], k[1]), k[2] >>
keyswitch(h, x, z) ==
  LET a == h.of[x]
  IN Checked(h, LinearChecks(a) \o OfCoefficients(a),
       Put(h, z, [Result(a, 2, a.relin, a.ntt, a.dom, switchkey_bfv(a))
                    EXCEPT !.key = 2]))

(* Neither X^0 nor the form an operand already has writes the result.       *)
multiply_power_of_X(h, x, z, k) ==
  LET a == h.of[x]
  IN IF k = 0 THEN h
     ELSE Checked(h, OfCoefficients(a) \o << <<HoldsParts(a, 2), "size">> >>,
            Put(h, z, Result(a, 2, a.relin, a.ntt, a.dom,
              [i \in 1 .. 2 |-> Mul2(a.parts[i], PowerOfX[k])])))
(* A slip: three polynomials are accepted.                                  *)
transformAnySize(h, x, z) ==
  LET a == h.of[x]
  IN IF a.ntt THEN h
     ELSE Checked(h, << <<HoldsParts(a, 2), "size">> >>,
            Put(h, z, Result(a, 2, a.relin, TRUE, "ntt", SubSeq(a.parts, 1, 2))))
transform_to_ntt(h, x, z) ==
  LET a == h.of[x]
  IN Checked(h, << <<~a.relin, "parts">> >>,
       IF a.ntt THEN h
       ELSE Checked(h, << <<HoldsParts(a, 2), "size">> >>,
              Put(h, z, Result(a, 2, a.relin, TRUE, "ntt", SubSeq(a.parts, 1, 2)))))
transform_from_ntt(h, x, z) ==
  LET a == h.of[x]
  IN Checked(h, << <<~a.relin, "parts">> >>,
       IF ~a.ntt THEN h
       ELSE Checked(h, << <<HoldsParts(a, 2), "size">> >>,
              Put(h, z, Result(a, 2, a.relin, FALSE, "coeff", SubSeq(a.parts, 1, 2)))))

-----------------------------------------------------------------------------
(* Operations made of others.                                               *)
Step(h, k) == add(rotate_rows(h, "result", "rotated", k), "result", "rotated", "result")
sum_slots(h, x) ==
  LET Loop[i \in 0 .. RowSize] ==
        IF i = 0 THEN Put(h, "result", h.of[x])
        ELSE IF i < RowSize /\ \E j \in 0 .. RowSize : TwoTo[j] = i
             THEN Step(Loop[i - 1], i) ELSE Loop[i - 1]
  IN add(rotate_columns(Loop[RowSize], "result", "rotated"),
         "result", "rotated", "result")
inner_product(h, x, y) ==
  sum_slots(relinearize_inplace(multiply(h, x, y, "product"), "product"), "product")
inner_product_plain(h, x, p) ==
  sum_slots(multiply_plain(h, x, p, "product"), "product")

(* The forms that return a ciphertext write a new one, moved to z when the  *)
(* call returns.                                                            *)
Returned(h, z) == IF h.outcome = "ok" THEN Put(h, z, h.of["result"]) ELSE h

operator_from_ciphertext(c) == [c EXCEPT !.made = TRUE, !.parts = Fresh.parts]
WithInner(h, x) ==
  Put(Put(h, "inner1", operator_from_ciphertext(h.of[x])),
      "inner2", operator_from_ciphertext(h.of[x]))

(* The encoded one is in the form of coefficients.                          *)
one_minus_cipher(h, x, z) ==
  LET g == negate(h, x, z)
  IN IF g.outcome # "ok" THEN g
     ELSE [g EXCEPT !.of[z].parts = addition_plain_bfv_poly(@, Constant(1)),
                    !.of[z].dom = Both(@, "coeff")]
one_minus_cipher_inplace(h, z) == one_minus_cipher(h, z, z)

Doubled(h, z) == add(h, z, z, z)
Product(h, x, y, z) == relinearize_inplace(multiply(h, x, y, z), z)

NOT(h, x, z) == one_minus_cipher(h, x, z)
AND(h, x, y, z) == Product(h, x, y, z)
OR(h, x, y, z) ==
  sub(add(Product(WithInner(h, x), x, y, "inner1"), x, y, "inner2"),
      "inner2", "inner1", z)
XOR(h, x, y, z) ==
  sub(add(Doubled(Product(WithInner(h, x), x, y, "inner1"), "inner1"),
          x, y, "inner2"), "inner2", "inner1", z)
NAND(h, x, y, z) == one_minus_cipher_inplace(Product(h, x, y, z), z)
NOR(h, x, y, z) == one_minus_cipher_inplace(OR(h, x, y, z), z)
XNOR(h, x, y, z) == one_minus_cipher_inplace(XOR(h, x, y, z), z)

AND_plain(h, x, p, z) == multiply_plain(h, x, p, z)
OR_plain(h, x, p, z) ==
  sub(add_plain(multiply_plain(WithInner(h, x), x, p, "inner1"), x, p, "inner2"),
      "inner2", "inner1", z)
XOR_plain(h, x, p, z) ==
  sub(add_plain(Doubled(multiply_plain(WithInner(h, x), x, p, "inner1"), "inner1"),
                x, p, "inner2"), "inner2", "inner1", z)
NAND_plain(h, x, p, z) == one_minus_cipher_inplace(multiply_plain(h, x, p, z), z)
NOR_plain(h, x, p, z) == one_minus_cipher_inplace(OR_plain(h, x, p, z), z)
XNOR_plain(h, x, p, z) == one_minus_cipher_inplace(XOR_plain(h, x, p, z), z)

-----------------------------------------------------------------------------
(* The encryptor and the decryptor. Decryption reads two polynomials.       *)
encrypt(p) ==
  [made |-> TRUE, size |-> 2, relin |-> FALSE, ntt |-> FALSE, dom |-> p.dom,
   key |-> 1,
   parts |-> << Add2(Sub2(p.v, Mul2(Masks[1], Secrets[1])), Constant(0)), Masks[1] >>]
decrypt_bfv(c) == Add2(c.parts[1], Mul2(c.parts[2], Secrets[c.key]))
decrypt(c) == [ntt |-> FALSE, dom |-> IF c.ntt = (c.dom = "ntt") THEN "coeff" ELSE "mixed",
               v |-> decrypt_bfv(c)]

Encoded(m) == [ntt |-> FALSE, dom |-> "coeff", v |-> m]
transform_to_ntt_plain(p) == [p EXCEPT !.ntt = TRUE, !.dom = "ntt"]

-----------------------------------------------------------------------------
(* The calls of a program. What no operator checks is left to the program:  *)
(* unless Unchecked it keeps the operands of these calls in the form they   *)
(* need. It always uses one key pair for the operands of a call, and gives  *)
(* the logic operators ciphertexts of bits.                                 *)
NoSteps == [c \in Ciphertexts |-> 0]
Of(op, x, y, z, k) == [op |-> op, x |-> x, y |-> y, z |-> z, k |-> k, ks |-> NoSteps]
Calls ==
  [op : {"add", "sub", "mul", "negate", "same", "rows", "columns", "power",
         "sum", "inner", "not", "and", "or", "xor", "nand", "nor", "xnor", "hoisted"},
   x : Ciphertexts \cup Plaintexts, y : Ciphertexts \cup Plaintexts,
   z : Ciphertexts \cup Plaintexts, k : Steps \cup GaloisSteps \cup Powers \cup {0},
   ks : Shifts \cup {NoSteps}]

InForm(dom, ntt) == dom = (IF ntt THEN "ntt" ELSE "coeff")
Nothing == [s \in Slots |-> T]
(* The message of a ciphertext under its key; Nothing if the polynomials    *)
(* are not in the form the flag tells.                                      *)
MessageOf(c) ==
  IF ~InForm(c.dom, c.ntt) \/ Len(c.parts) < Size(c) THEN Nothing
  ELSE IF ~c.relin THEN decrypt_bfv(c)
  ELSE Add2(decrypt_bfv(c), Mul2(c.parts[3], Mul2(Secrets[c.key], Secrets[c.key])))
TextOf(p) == IF InForm(p.dom, p.ntt) THEN p.v ELSE Nothing
Value == [t \in Ciphertexts \cup Plaintexts |->
            IF t \in Ciphertexts THEN MessageOf(object[t]) ELSE TextOf(text[t])]

Bits(v) == \A s \in Slots : v[s] \in {0, 1}
OneKey(x, y) == object[x].key = object[y].key
FirstKey(x) == object[x].key = 1
Plain(x) == Unchecked \/ ~object[x].ntt
LogicPair(x, y) == /\ FirstKey(x) /\ FirstKey(y) /\ Plain(x)
                   /\ Bits(MessageOf(object[x])) /\ Bits(MessageOf(object[y]))
LogicPlain(x, p) == /\ FirstKey(x) /\ Plain(x)
                    /\ Bits(MessageOf(object[x])) /\ Bits(TextOf(text[p]))

Results == IF ops = MaxOps - 1 THEN LastResults ELSE Ciphertexts
Called(c, h) ==
  /\ ops < MaxOps /\ ops' = ops + 1
  /\ call' = c /\ outcome' = h.outcome
  /\ object' = [n \in Ciphertexts |-> h.of[n]]
  /\ UNCHANGED text

AddOrSubtract ==
  \E x, y \in Ciphertexts, z \in Results :
    /\ OneKey(x, y)
    /\ \/ Called(Of("add", x, y, z, 0), add(Heap, x, y, z))
       \/ Called(Of("sub", x, y, z, 0), sub(Heap, x, y, z))
Negate == \E x \in Ciphertexts, z \in Results : Called(Of("negate", x, x, z, 0), negate(Heap, x, z))
AddPlain ==
  \E x \in Ciphertexts, z \in Results, p \in Plaintexts :
    \/ x # z /\ Called(Of("add", x, p, z, 0), add_plain(Heap, x, text[p], z))
    \/ x = z /\ Called(Of("add", x, p, x, 0), add_plain_inplace(Heap, x, text[p]))
SubPlain ==
  \E x \in Ciphertexts, z \in Results, p \in Plaintexts :
    \/ x # z /\ Called(Of("sub", x, p, z, 0), sub_plain(Heap, x, text[p], z))
    \/ x = z /\ Called(Of("sub", x, p, x, 0), sub_plain_inplace(Heap, x, text[p]))
Multiply ==
  \E x, y \in Ciphertexts, z \in Results :
    OneKey(x, y) /\ Called(Of("mul", x, y, z, 0), multiply(Heap, x, y, z))
MultiplyPlain ==
  \E x \in Ciphertexts, z \in Results, p \in Plaintexts :
    Called(Of("mul", x, p, z, 0), multiply_plain(Heap, x, text[p], z))
Relinearize ==
  \E x \in Ciphertexts :
    FirstKey(x) /\ Called(Of("same", x, x, x, 0), relinearize_inplace(Heap, x))

RotateRows ==
  \E x \in Ciphertexts, z \in Results, k \in Steps :
    /\ FirstKey(x)
    /\ \/ x # z /\ Called(Of("rows", x, x, z, k), rotate_rows(Heap, x, z, k))
       \/ x = z /\ Called(Of("rows", x, x, x, k), rotate_rows_inplace(Heap, x, k))
RotateColumns ==
  \E x \in Ciphertexts, z \in Results :
    /\ FirstKey(x) /\ Plain(x)
    /\ Called(Of("columns", x, x, z, 0), rotate_columns(Heap, x, z))
ApplyGalois ==
  \E x \in Ciphertexts, z \in Results, k \in GaloisSteps :
    /\ FirstKey(x)
    /\ Called(Of("rows", x, x, z, k), apply_galois(Heap, x, z, steps_to_galois_elt(k)))
RotateHoisted ==
  \E x \in Ciphertexts, shift \in Shifts :
    /\ FirstKey(x) /\ Plain(x)
    /\ Called([Of("hoisted", x, x, x, 0) EXCEPT !.ks = shift],
              rotate_rows_hoisted(Heap, x, shift))
SwitchKey ==
  \E x \in Ciphertexts, z \in Results :
    FirstKey(x) /\ Called(Of("same", x, x, z, 0), keyswitch(Heap, x, z))
MultiplyPowerOfX ==
  \E x \in Ciphertexts, z \in Results, k \in Powers :
    /\ Unchecked \/ (k # 0 /\ ~object[x].relin)
    /\ Called(Of("power", x, x, z, k), multiply_power_of_X(Heap, x, z, k))
Transform ==
  \E x \in Ciphertexts, z \in Results :
    \/ /\ Unchecked \/ x = z \/ ~object[x].ntt
       /\ Called(Of("same", x, x, z, 0), transform_to_ntt(Heap, x, z))
    \/ /\ Unchecked \/ x = z \/ object[x].ntt
       /\ Called(Of("same", x, x, z, 0), transform_from_ntt(Heap, x, z))

SumSlots ==
  \E x \in Ciphertexts, z \in Results :
    /\ FirstKey(x) /\ Plain(x)
    /\ Called(Of("sum", x, x, z, 0), Returned(sum_slots(Heap, x), z))
InnerProduct ==
  \E x, y \in Ciphertexts, z \in Results :
    /\ FirstKey(x) /\ FirstKey(y)
    /\ Called(Of("inner", x, y, z, 0), Returned(inner_product(Heap, x, y), z))
InnerProductPlain ==
  \E x \in Ciphertexts, z \in Results, p \in Plaintexts :
    /\ FirstKey(x) /\ Plain(x)
    /\ Called(Of("inner", x, p, z, 0), Returned(inner_product_plain(Heap, x, text[p]), z))

Not ==
  \E x \in Ciphertexts :
    LogicPair(x, x) /\ \E z \in Results : Called(Of("not", x, x, z, 0), NOT(Heap, x, z))
Logic ==
  \E x, y \in Ciphertexts :
    /\ LogicPair(x, y)
    /\ \E z \in Results :
       \/ Called(Of("and", x, y, z, 0), AND(Heap, x, y, z))
       \/ Called(Of("or", x, y, z, 0), OR(Heap, x, y, z))
       \/ Called(Of("xor", x, y, z, 0), XOR(Heap, x, y, z))
       \/ Called(Of("nand", x, y, z, 0), NAND(Heap, x, y, z))
       \/ Called(Of("nor", x, y, z, 0), NOR(Heap, x, y, z))
       \/ Called(Of("xnor", x, y, z, 0), XNOR(Heap, x, y, z))
LogicWithPlain ==
  \E x \in Ciphertexts, p \in Plaintexts :
    /\ LogicPlain(x, p)
    /\ \E z \in Results :
       \/ Called(Of("and", x, p, z, 0), AND_plain(Heap, x, text[p], z))
       \/ Called(Of("or", x, p, z, 0), OR_plain(Heap, x, text[p], z))
       \/ Called(Of("xor", x, p, z, 0), XOR_plain(Heap, x, text[p], z))
       \/ Called(Of("nand", x, p, z, 0), NAND_plain(Heap, x, text[p], z))
       \/ Called(Of("nor", x, p, z, 0), NOR_plain(Heap, x, text[p], z))
       \/ Called(Of("xnor", x, p, z, 0), XNOR_plain(Heap, x, text[p], z))

Encrypt ==
  \E p \in Plaintexts, z \in Results :
    /\ Unchecked \/ ~text[p].ntt
    /\ Called(Of("same", p, p, z, 0), Put(Heap, z, encrypt(text[p])))
TextCalled(c, p, t) ==
  /\ ops < MaxOps /\ ops' = ops + 1
  /\ call' = c /\ outcome' = "ok"
  /\ text' = [text EXCEPT ![p] = t]
  /\ UNCHANGED object
Decrypt ==
  \E x \in Ciphertexts, p \in Plaintexts :
    /\ Unchecked \/ ~object[x].relin
    /\ TextCalled(Of("same", x, x, p, 0), p, decrypt(object[x]))
TransformPlain ==
  \E p \in Plaintexts :
    /\ ~text[p].ntt
    /\ TextCalled(Of("same", p, p, p, 0), p, transform_to_ntt_plain(text[p]))

Init ==
  /\ text = [p \in Plaintexts |-> Encoded(Message[p])]
  /\ object = [c \in Ciphertexts |-> encrypt(Encoded(Message[c]))]
  /\ call = Of("same", CHOOSE c \in Ciphertexts : TRUE, CHOOSE c \in Ciphertexts : TRUE,
               CHOOSE c \in Ciphertexts : TRUE, 0)
  /\ outcome = "ok" /\ ops = 0

Next ==
  \/ AddOrSubtract \/ Negate \/ AddPlain \/ SubPlain \/ Multiply \/ MultiplyPlain
  \/ Relinearize \/ RotateRows \/ RotateColumns \/ ApplyGalois \/ RotateHoisted
  \/ SwitchKey \/ MultiplyPowerOfX \/ Transform \/ SumSlots \/ InnerProduct
  \/ InnerProductPlain \/ Not \/ Logic \/ LogicWithPlain \/ Encrypt \/ Decrypt
  \/ TransformPlain

Spec == Init /\ [][Next]_vars

-----------------------------------------------------------------------------
TypeOK ==
  /\ object \in [Ciphertexts ->
        [made : BOOLEAN, size : 2 .. 3, relin : BOOLEAN, ntt : BOOLEAN,
         dom : Domains, key : 1 .. 2, parts : Seq(Vectors)]]
  /\ \A c \in Ciphertexts : Len(object[c].parts) \in 2 .. 3
  /\ text \in [Plaintexts -> [ntt : BOOLEAN, dom : Domains, v : Vectors]]
  /\ call \in Calls
  /\ outcome \in {"ok", "parts", "domain", "size", "key"}
  /\ ops \in 0 .. MaxOps

(* A ciphertext holds exactly the polynomials its cipher_size_ tells of,    *)
(* which store_in_host and save copy without a look at the memory.          *)
SizeIsHeld == \A c \in Ciphertexts : Len(object[c].parts) = object[c].size

(* A result of an operation is never too small for another: a call throws   *)
(* for the form of an operand or a missing key, never for its memory.  This *)
(* is so while programs do not multiply a ciphertext of three polynomials   *)
(* by a power of X (~Unchecked): multiply_power_of_X has no check           *)
(* (operator.cuh:901-949), writes two polynomials and keeps the flag of     *)
(* three.                                                                   *)
NeverTooSmall == [][outcome' # "size"]_vars

(* The operators compute what the calculator of slots promises: through any *)
(* sequence of calls, in place or not, also after a call that threw.        *)
Calculator ==
  INSTANCE SlotCalculator
    WITH Texts <- Ciphertexts \cup Plaintexts, value <- Value
KeepsMeaning == Calculator!Spec

(* A call that throws leaves every ciphertext as it was, its fields         *)
(* included, however many inner calls it had made.                          *)
ThrowsLeaveAlone == [][outcome' # "ok" => object' = object]_vars

=============================================================================
