----------------------------- MODULE MCObjects -----------------------------
(* Two objects of each class, and two contexts to make and load them in.   *)
EXTENDS Objects, TLC
AllKinds == DOMAIN Classes
Symmetry == Permutations(Names) \cup Permutations(Messages) \cup Permutations(Contexts)
=============================================================================
