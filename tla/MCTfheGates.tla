----------------------------- MODULE MCTfheGates -----------------------------
(* A torus of 20 bits, two bits of the small key and a ring of degree 16.   *)
(* The masks and the errors of the keys are what a multiplicative generator *)
(* gives, the errors of samples large ones of either sign.  As with the     *)
(* parameters of the code, the worst that such errors could add up to does  *)
(* not fit the torus; what they do add up to here does, for every call.     *)
EXTENDS TfheGates

Mixed(a, b, c, d) ==
    LET x == (a * 37 + b * 101 + c * 59 + d * 17 + 11) % 1021
    IN  (x * 1027 * 911 + x * x * 7 + 12345) % 1048576
Spread(a, b, c, d) == (Mixed(a, b, c, d) % 17) - 8
Sign(a, b, c, d) == IF Mixed(a, b, c, d) % 3 = 0 THEN -1 ELSE 1

SmallKey == <<1, 1>>
BigKey == [i \in 1..16 |-> IF i \in {1, 2, 4, 7, 8, 11, 14, 16} THEN 1 ELSE 0]
MaskOfRow ==
    [i \in 1..2 |-> [row \in 1..2 |-> [d \in 1..2 |->
        [x \in 1..16 |-> Mixed(4 * i + row, d, x, 1)]]]]
NoiseOfRow ==
    [i \in 1..2 |-> [row \in 1..2 |-> [d \in 1..2 |->
        [x \in 1..16 |-> Spread(x, d, row, i)]]]]
MaskOfSwitch ==
    [i \in 1..16 |-> [d \in 1..7 |-> [m \in 1..3 |->
        [x \in 1..2 |-> Mixed(i, 8 * d + m, x, 3)]]]]
NoiseOfSwitch ==
    [i \in 1..16 |-> [d \in 1..7 |-> [m \in 1..3 |-> Spread(i, d, m, 5)]]]
MaskOfSample == [k \in 0..8 |-> [x \in 1..2 |-> Mixed(k, x, 2, 7)]]
NoiseOfSample == [k \in 0..8 |-> 20000 * Sign(k, 1, 2, 3)]
AllPairs == {<<FALSE, TRUE>>, <<TRUE, FALSE>>, <<TRUE>>}
=============================================================================
