---------------------------- MODULE MCCkksLevels ----------------------------
(* CkksLevels on a chain of a first prime and others whose sizes differ,  *)
(* so that every level has a scale of its own.                             *)
EXTENDS CkksLevels, TLC

Bits == <<38, 41, 43, 39>>
(* Or of primes of one size. *)
EqualPrimes == [l \in 0 .. L |-> 40]
LogPrimes == [l \in 0 .. L |-> IF l = 0 THEN 50 ELSE Bits[l]]

(* The scales of the levels, from the top level down.                      *)
ScaleAfter[d \in 0 .. Top] ==
  IF d = 0 THEN TopScale
  ELSE 2 * ScaleAfter[d - 1] - LogPrime[Top - d + 1]
LevelScales == [l \in 0 .. Top |-> ScaleAfter[Top - l]]

NoEncodings == {}
At(depth, scale) == [depth |-> depth, scale |-> scale]
(* One of another scale at the top level, and one above the top level.     *)
OtherScales == {At(1, 42), At(0, 40)}
(* As in a program for the manual mode.                                    *)
OneScale == {At(0, 40)}
Symmetry == Permutations(Ciphertexts) \cup Permutations(Plaintexts)
=============================================================================
