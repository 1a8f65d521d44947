----------------------------- MODULE LevelBudget ----------------------------
(***************************************************************************)
(* What the automatic rescale mode of CKKS promises to an application,     *)
(* without scales and rescalings: a ciphertext has some levels left, as    *)
(* SessionCiphertext::levels_left counts them, and an expression uses as   *)
(* many of them as its multiplicative depth.  Sums, rotations and          *)
(* constants added are free, operands of different levels work together,   *)
(* and only the relinearization is left to the application.                *)
(***************************************************************************)
EXTENDS Integers

CONSTANTS Ciphertexts, Top

VARIABLE budget   \* of each ciphertext: levels left, and whether it is linear

Left == -1 .. Top
Budget == [left : Left, linear : BOOLEAN]

Lesser(m, n) == IF m < n THEN m ELSE n

Init == budget = [c \in Ciphertexts |-> {}]

Give(c, n, linear) ==
  budget' = [budget EXCEPT ![c] = {[left |-> n, linear |-> linear]}]

(* An encryption has at most the levels of the top level.                  *)
Fresh(c) == \E n \in 0 .. Top : Give(c, n, TRUE)

(* A product has one level less than the deeper operand.                   *)
Product(c, i, j) ==
  \E x \in budget[i], y \in budget[j] :
    /\ x.linear /\ y.linear
    /\ x.left >= 0 /\ y.left >= 0
    /\ Give(c, Lesser(x.left, y.left) - 1, FALSE)

(* The other factor is a plaintext of n levels, or a constant (n = Top).   *)
PlainProduct(c, i, n) ==
  \E x \in budget[i] :
    /\ x.linear
    /\ x.left >= 0
    /\ Give(c, Lesser(x.left, n) - 1, TRUE)

(* A sum has the levels of the deeper operand.                             *)
Sum(c, i, j) ==
  \E x \in budget[i], y \in budget[j] :
    /\ x.linear = y.linear
    /\ Give(c, Lesser(x.left, y.left), x.linear)

PlainSum(c, i, n) ==
  \E x \in budget[i] :
    /\ x.linear
    /\ Give(c, Lesser(x.left, n), TRUE)

(* Constants added, negations, rotations and rescalings are free.          *)
Free(c, i) == \E x \in budget[i] : Give(c, x.left, x.linear)

Relinearize(c) == \E x \in budget[c] : ~x.linear /\ Give(c, x.left, TRUE)

Drop(c, i) ==
  \E x \in budget[i] : x.linear /\ x.left > 0 /\ Give(c, x.left - 1, TRUE)

(* An inner product is a product, relinearized, and sums of it.            *)
InnerProduct(c, i, j) ==
  \E x \in budget[i], y \in budget[j] :
    /\ x.linear /\ y.linear
    /\ x.left > 0 /\ y.left > 0
    /\ Give(c, Lesser(x.left, y.left) - 1, TRUE)

Next ==
  \E c \in Ciphertexts :
    \/ Fresh(c)
    \/ Relinearize(c)
    \/ \E i \in Ciphertexts :
         \/ \E n \in 0 .. Top : PlainProduct(c, i, n) \/ PlainSum(c, i, n)
         \/ Free(c, i) \/ Drop(c, i)
         \/ \E j \in Ciphertexts :
              Product(c, i, j) \/ Sum(c, i, j) \/ InnerProduct(c, i, j)

Spec == Init /\ [][Next]_budget

=============================================================================
