--------------------------- MODULE MCBfvOperators ---------------------------
(* BfvOperators over the ring of degree 8 and the plain modulus 17, which   *)
(* has the roots of X^8 + 1: two rows of four slots.                        *)
EXTENDS BfvOperators

Seven(k) == [s \in Slots |-> (3 * (s \div RowSize) + k * (s % RowSize) + 1) % T]
TwoSecrets == [i \in 1 .. 2 |-> Seven(i + 1)]
TwoMasks == [i \in 1 .. 2 |-> Seven(i + 4)]
(* Bits, so that the logic operators apply, different in every slot that a  *)
(* rotation could confuse.                                                  *)
ThreeMessages ==
  [t \in {"c1", "c2", "p1"} |->
     LET ones == CASE t = "c1" -> {0, 1, 6}
                   [] t = "c2" -> {1, 4, 7}
                   [] t = "p1" -> {0, 2, 4}
     IN [s \in Slots |-> IF s \in ones THEN 1 ELSE 0]]
(* A key made for the steps 1 and 2 (or -2): the steps -1 and 3 have one    *)
(* Galois element, which it lacks; 3 is composed, -1 cannot be.             *)
KeyForTwo == {1, 2, -2}
SomeSteps == {3, -1}
SomeElements == {1, -1}
SomeShifts == {[c \in Ciphertexts |-> IF c = "c1" THEN 2 ELSE 3],
               [c \in Ciphertexts |-> IF c = "c1" THEN 4 ELSE 1],
               [c \in Ciphertexts |-> IF c = "c1" THEN 3 ELSE -1]}
SomePowers == {-3}
=============================================================================
