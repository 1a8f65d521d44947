------------------------- MODULE MCSessionRotations -------------------------
(* SessionRotations on small sets of threads and steps.                    *)
EXTENDS SessionRotations, TLC

(* The step 1, which every other step can be put together from.            *)
One == CHOOSE s \in Steps : TRUE

Multiples == [s \in Steps |-> IF s = One THEN {} ELSE {{One}}]

Symmetry == Permutations(Threads)

=============================================================================
