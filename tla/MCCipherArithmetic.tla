------------------------- MODULE MCCipherArithmetic -------------------------
(* Eight coefficients and primes that are 1 modulo 16; Q of three or four *)
(* primes for CKKS, so that every depth has its own digits.               *)
EXTENDS CipherArithmetic

ContextList ==
    <<[scheme |-> "ckks", q |-> <<97, 113, 193>>, p |-> <<257>>, t |-> 2],
      [scheme |-> "ckks", q |-> <<97, 113, 193, 241>>, p |-> <<257, 337>>, t |-> 2],
      [scheme |-> "bfv", q |-> <<97, 193>>, p |-> <<257>>, t |-> 17],
      [scheme |-> "bfv", q |-> <<97, 113>>, p |-> <<241, 257>>, t |-> 17]>>

Primes == <<257, 337, 353, 401, 433>>

Secrets == [old |-> <<1, 0, -1, 1, 0, 0, -1, 1>>, new |-> <<0, 1, 1, -1, 0, -1, 0, 1>>]

\* Numbers without an order.
Sequence ==
    SubSeq([i \in 1..601 |->
        ((((i * i) % 1009) * ((i + 5) * 97)) + ((i * 7919) % 1013)) % 28657], 1, 601)
=============================================================================
