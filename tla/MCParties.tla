----------------------------- MODULE MCParties -----------------------------
(* The ring of degree 8 modulo 17, with 3 as the 16th root of unity, two   *)
(* parties and vectors of up to two shares.                                *)
EXTENDS Parties

MCParties == {"alice", "bob"}
MCSecret ==
    ("alice" :> <<3, 1, 16, 5, 0, 8, 2, 9>> @@ "bob" :> <<2, 7, 11, 4, 6, 1, 15, 12>>)
MCCommon ==
    ("seed1" :> <<1, 16, 16, 3, 0, 5, 10, 7>> @@ "seed2" :> <<5, 2, 9, 14, 4, 4, 1, 13>>)
MCBlinds == {<<6, 1, 0, 12, 7, 3, 9, 16>>, <<13, 2, 4, 4, 11, 6, 0, 2>>}
MCGaloisSets == {{3}, {3, 5}}

Bfv(m, inNtt) ==
    [message |-> m, ntt |-> inNtt, depth |-> 0, scale |-> 1, encoding |-> "none"]
Ckks(m, d, s, e) ==
    [message |-> m, ntt |-> TRUE, depth |-> d, scale |-> s, encoding |-> e]

MCManagerScale == 3
Real == <<3, 2, 5, 1, 0, 16, 12, 15>>
Complex == <<0, 1, 4, 0, 2, 0, 0, 3>>
MCCiphertexts ==
    ("BFV" :> {Bfv(<<1, 0, 1, 1, 0, 0, 1, 0>>, FALSE),
               Bfv(<<0, 1, 0, 1, 1, 0, 0, 1>>, FALSE),
               Bfv(<<1, 0, 1, 1, 0, 0, 1, 0>>, TRUE)}
        @@ "CKKS" :> {Ckks(Real, 0, MCManagerScale, "slot"), Ckks(Complex, 0, 2, "slot"),
                      Ckks(Complex, 0, MCManagerScale, "coefficient"),
                      Ckks(Real, 1, MCManagerScale, "slot")})
MCMasks ==
    ("BFV" :> {<<1, 1, 0, 1, 0, 1, 1, 0>>, Zero}
        @@ "CKKS" :> {<<2, 0, 0, 0, 0, 0, 0, 0>>, <<5, 3, 0, 9, 0, 8, 0, 14>>})
MCNoise == <<7, 12, 3, 9, 1, 0, 5, 14>>
=============================================================================
