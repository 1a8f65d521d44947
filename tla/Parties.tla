------------------------------ MODULE Parties ------------------------------
(***************************************************************************)
(* HEMultiPartyManager of both schemes: every party holds a secret key of  *)
(* its own and makes shares; whoever collects the shares, as a vector in   *)
(* any order, with a share missing or twice, assembles a key, a decryption *)
(* or a refreshed ciphertext of the sum of the secrets.                    *)
(*                                                                         *)
(* Ring elements are exact over one small prime and the Gaussian errors    *)
(* are zero, so that "fits the joint secret" is an equation.  One digit    *)
(* stands for the d digits of an evaluation key, PFactor for P modulo the  *)
(* prime.  The ceremonies share nothing but the secrets and the managers,  *)
(* so a behaviour runs one of them.                                        *)
(***************************************************************************)
EXTENDS SmallRing, SequencesExt

CONSTANTS
    Parties,        \* the participants
    Secret,         \* their secret keys, in the NTT form
    Seeds,          \* the RNGSeeds they may be told
    Common,         \* what the generator draws from each seed
    Blinds,         \* what a manager may draw from its new_seed_
    PFactor,        \* the product of the special primes
    GaloisSets,     \* the Galois elements a key object may be made for
    GaloisZero,     \* 2N - 1, the element of the zero key
    PlainModulus,   \* t of BFV
    Ciphertexts,    \* per scheme: the ciphertexts under the joint key at hand
    Masks,          \* per scheme: random messages of the distributed bootstrapping
    ManagerScale,   \* the scale the CKKS managers were made with
    Noise,          \* the c1 of a fresh ciphertext, in the NTT form
    MaxList         \* bound: shares in one vector

ASSUME PartiesAssumption ==
    /\ IsFiniteSet(Parties) /\ Secret \in [Parties -> Elements]
    /\ Common \in [Seeds -> Elements]
    /\ Blinds \subseteq Elements /\ Blinds # {}
    /\ PFactor \in Int /\ MaxList \in Nat

\* x -> x^g is an automorphism for odd g.
ASSUME GaloisAssumption ==
    \A g \in {GaloisZero} \union UNION GaloisSets :
        g \in Int /\ \E j \in Index : (g * (2 * j - 1)) % (2 * Degree) = 1

VARIABLES
    scheme,     \* the scheme of the context
    ceremony,   \* what the parties do together
    blind,      \* per party: the u its manager draws from new_seed_
    first,      \* per party: its share of the first (or only) round
    second,     \* per party: its share of the second relinearization round
    middle,     \* the assembled first round of the relinearization key
    result,     \* the assembled object
    raised      \* how the last call ended: "no", "throws" or "fault"

vars == <<scheme, ceremony, blind, first, second, middle, result, raised>>

Ceremonies == {"publickey", "relinkey", "galoiskey", "decrypt", "bootstrap"}
Nothing == [generated |-> FALSE]
Lists == UNION {[1..k -> Parties] : k \in 0..MaxList}

Counted(list) == [p \in Parties |-> Cardinality({k \in 1..Len(list) : list[k] = p})]

\* The sum of a vector of elements, or of one element per party.
AddAll(elements) == FoldFunction(Plus, Zero, elements)
Picked(shares, list, part) == [k \in 1..Len(list) |-> shares[list[k]].parts[part]]

-----------------------------------------------------------------------------
(* Encoding and encryption, as far as the ceremonies see them. *)

\* round(q * m / t): coeff_div_plain times m and the fix of col_boot_enc.
Lifted(m) ==
    Tuple([i \in Index |->
        (m[i] * (Modulus \div PlainModulus)
            + ((m[i] * (Modulus % PlainModulus) + ((PlainModulus + 1) \div 2))
                   \div PlainModulus)) % Modulus])

\* decryption_fusion_bfv_kernel: round(t * x / q) modulo t.
Rounded(x) ==
    Tuple([i \in Index |->
        ((2 * PlainModulus * x[i] + Modulus) \div (2 * Modulus)) % PlainModulus])

\* The CKKS encoders: a message at a scale, in the NTT form; and back.
EncodedAt(m, scale) == Ntt(Scaled(scale, m))
DecodedAt(x, scale) == Scaled(InverseOf(scale), Intt(x))

\* complex_to_double_kernel keeps the real parts of the slots: the half sum
\* of the polynomial and its conjugate.
RealPart(m) ==
    Scaled(InverseOf(2), Plus(m, Intt(Permuted(GaloisZero, Ntt(m)))))

Joint == AddAll(Secret)

\* A ciphertext of the joint key: c0 makes up for the c1 it was drawn with,
\* and both are in the form the ciphertext says.
Part0 ==
    [s \in DOMAIN Ciphertexts |-> [c \in Ciphertexts[s] |->
        LET inNtt == Minus(IF s = "BFV" THEN Ntt(Lifted(c.message))
                                        ELSE EncodedAt(c.message, c.scale),
                           Times(Noise, Joint))
        IN  IF c.ntt THEN inNtt ELSE Intt(inNtt)]]
Part1(c) == IF c.ntt THEN Noise ELSE Intt(Noise)

\* Messages are what the encoders accept, CKKS ciphertexts are always in the
\* NTT form, random CKKS messages have real slots, and the rounding errors of
\* everyone's messages together stay below half of q / t.
ASSUME MessagesAssumption ==
    /\ PlainModulus \in Nat \ {0}
    /\ (Cardinality(Parties) + 1) * (PlainModulus + 1) < Modulus
    /\ DOMAIN Ciphertexts = {"BFV", "CKKS"}
    /\ \A c \in Ciphertexts["BFV"] : c.message \in [Index -> 0..(PlainModulus - 1)]
    /\ \A c \in Ciphertexts["CKKS"] :
          c.message \in Elements /\ c.ntt /\ c.scale \in 1..(Modulus - 1)
    /\ Masks["BFV"] \subseteq [Index -> 0..(PlainModulus - 1)]
    /\ \A m \in Masks["CKKS"] : m \in Elements /\ RealPart(m) = m
    /\ ManagerScale \in 1..(Modulus - 1) /\ Noise \in Elements

-----------------------------------------------------------------------------
(* What the kernels compute. *)

PublicKeyParts(p, a) == <<Minus(Zero, Times(Secret[p], a)), a>>

RelinFirstParts(p, a, u) ==
    <<Plus(Minus(Zero, Times(u, a)), Scaled(PFactor, Secret[p])),
      Times(a, Secret[p])>>

\* Mutant: the second part misses the secret's own square.
RelinWithoutSecret(p, common, u) ==
    <<Times(common[1], Secret[p]), Times(common[2], u)>>

RelinSecondParts(p, common, u) ==
    <<Times(common[1], Secret[p]), Times(common[2], Minus(u, Secret[p]))>>

\* Mutant: the automorphism instead of its inverse.
GaloisForwards(p, g, a) ==
    <<Plus(Minus(Zero, Times(Permuted(g, Secret[p]), a)), Scaled(PFactor, Secret[p])), a>>

GaloisParts(p, g, a) ==
    <<Plus(Minus(Zero, Times(Permuted(InverseExponent(g), Secret[p]), a)),
           Scaled(PFactor, Secret[p])), a>>

\* Mutant: both parts are summed.
SummedBoth(parts) ==
    <<AddAll([k \in DOMAIN parts |-> parts[k][1]]),
      AddAll([k \in DOMAIN parts |-> parts[k][2]])>>

\* multi_party_galoiskey_gen_kernel and generate_public_key_stage2: part 0 is
\* summed, part 1 is the first share's.
SummedKey(parts) ==
    <<AddAll([k \in DOMAIN parts |-> parts[k][1]]), parts[1][2]>>

-----------------------------------------------------------------------------

TypeOK ==
    /\ scheme \in {"BFV", "CKKS"}
    /\ ceremony \in Ceremonies
    /\ blind \in [Parties -> Blinds]
    /\ \A p \in Parties : /\ first[p].generated \in BOOLEAN
                          /\ second[p].generated \in BOOLEAN
    /\ middle.generated \in BOOLEAN
    /\ result.generated \in BOOLEAN
    /\ raised \in {"no", "throws", "fault"}

Init ==
    /\ scheme \in {"BFV", "CKKS"}
    /\ ceremony \in Ceremonies
    /\ blind = [p \in Parties |-> CHOOSE u \in Blinds : TRUE]
    /\ first = [p \in Parties |-> Nothing]
    /\ second = [p \in Parties |-> Nothing]
    /\ middle = Nothing
    /\ result = Nothing
    /\ raised = "no"

Throws ==
    /\ raised' = "throws"
    /\ UNCHANGED <<blind, first, second, middle, result>>

\* An access through a pointer that is null: the process does not go on.
Faults ==
    /\ raised' = "fault"
    /\ UNCHANGED <<blind, first, second, middle, result>>

\* A share is made once: a generated share object is refused.
Make(p, share) ==
    /\ first' = [first EXCEPT ![p] = share]
    /\ raised' = "no"
    /\ UNCHANGED <<blind, second, middle, result>>

Assemble(object) ==
    /\ result' = object
    /\ raised' = "no"
    /\ UNCHANGED <<blind, first, second, middle>>

AllMade(shares, list) ==
    Len(list) > 0 /\ \A k \in 1..Len(list) : shares[list[k]].generated

\* A manager is made again between two calls, after a restart for example:
\* its constructor draws another new_seed_.
NewManager(p) ==
    /\ ceremony = "relinkey"
    /\ \E u \in Blinds : blind' = [blind EXCEPT ![p] = u]
    /\ raised' = "no"
    /\ UNCHANGED <<first, second, middle, result>>

-----------------------------------------------------------------------------
(* The public key. *)

GeneratePublicKeyShare(p) ==
    /\ ceremony = "publickey"
    /\ \E seed \in Seeds :
        IF first[p].generated
        THEN Throws
        ELSE Make(p, [generated |-> TRUE, seed |-> seed,
                      parts |-> PublicKeyParts(p, Common[seed])])

AssemblePublicKeyShare(list) ==
    /\ ceremony = "publickey"
    /\ IF ~AllMade(first, list)
       THEN Throws
       ELSE Assemble([generated |-> TRUE, from |-> Counted(list),
                      parts |-> SummedKey([k \in 1..Len(list) |-> first[list[k]].parts])])

-----------------------------------------------------------------------------
(* The relinearization key, in two rounds. *)

GenerateRelinKeyInit(p) ==
    /\ ceremony = "relinkey"
    /\ \E seed \in Seeds :
        IF first[p].generated
        THEN Throws
        ELSE Make(p, [generated |-> TRUE, seed |-> seed, blind |-> blind[p],
                      parts |-> RelinFirstParts(p, Common[seed], blind[p])])

AssembleRelinKeyInit(list) ==
    /\ ceremony = "relinkey"
    /\ IF ~AllMade(first, list)
       THEN Throws
       ELSE /\ middle' = [generated |-> TRUE, from |-> Counted(list),
                          parts |-> <<AddAll(Picked(first, list, 1)),
                                      AddAll(Picked(first, list, 2))>>]
            /\ raised' = "no"
            /\ UNCHANGED <<blind, first, second, result>>

GenerateRelinKeyShare(p) ==
    /\ ceremony = "relinkey"
    /\ IF ~middle.generated \/ second[p].generated
       THEN Throws
       ELSE /\ second' = [second EXCEPT ![p] =
                             [generated |-> TRUE, of |-> middle, blind |-> blind[p],
                              parts |-> RelinSecondParts(p, middle.parts, blind[p])]]
            /\ raised' = "no"
            /\ UNCHANGED <<blind, first, middle, result>>

AssembleRelinKeyShare(list) ==
    /\ ceremony = "relinkey"
    /\ IF ~AllMade(second, list) \/ ~middle.generated
       THEN Throws
       ELSE Assemble([generated |-> TRUE, from |-> Counted(list), of |-> middle,
                      parts |-> <<Plus(AddAll(Picked(second, list, 1)),
                                       AddAll(Picked(second, list, 2))),
                                  middle.parts[2]>>])

-----------------------------------------------------------------------------
(* The Galois keys. *)

\* A key object made for default shifts or a shift vector (galois_elt) or
\* for a list of elements (custom_galois_elt).
GaloisObjects == [customized : BOOLEAN, elements : GaloisSets]

GenerateGaloisKeyShare(p) ==
    /\ ceremony = "galoiskey"
    /\ \E object \in GaloisObjects, seed \in Seeds :
        IF first[p].generated
        THEN Throws
        ELSE Make(p, [generated |-> TRUE, seed |-> seed,
                      customized |-> object.customized,
                      keys |-> [g \in object.elements |->
                                    GaloisParts(p, g, Common[seed])],
                      zero |-> GaloisParts(p, GaloisZero, Common[seed])])

\* Only galois_elt is walked, whether the key is customized or not, and a
\* share is indexed with operator[]: an element it lacks is an empty buffer.
AssembleGaloisKeyShare(list) ==
    /\ ceremony = "galoiskey"
    /\ \E object \in GaloisObjects :
        LET walked == IF object.customized THEN {} ELSE object.elements
            Of(k) == first[list[k]]
        IN  IF ~AllMade(first, list)
               \/ \E k \in 1..Len(list) : Of(k).customized # object.customized
            THEN Throws
            ELSE IF \E k \in 1..Len(list) : ~(walked \subseteq DOMAIN Of(k).keys)
            THEN Faults
            ELSE Assemble([generated |-> FALSE, from |-> Counted(list),
                           asked |-> object.elements,
                           keys |-> [g \in walked |->
                               SummedKey([k \in 1..Len(list) |-> Of(k).keys[g]])],
                           zero |-> SummedKey([k \in 1..Len(list) |-> Of(k).zero])])

-----------------------------------------------------------------------------
(* Joint decryption. *)

\* The product of c1 and a secret; ct1 is transformed first when it is not
\* in the NTT form.
Product(c, p) == Times(IF c.ntt THEN Part1(c) ELSE Ntt(Part1(c)), Secret[p])

\* Neither scheme refuses a second call: the partial result is overwritten.
\* BFV leaves ciphertext_generated_ as it was and brings part 1 back to
\* coefficients, whatever form part 0 is in.
DecryptPartialBfv(p) ==
    /\ scheme = "BFV" /\ ceremony = "decrypt"
    /\ \E c \in Ciphertexts[scheme] :
        Make(p, [generated |-> FALSE, of |-> c,
                 parts |-> <<Part0[scheme][c], Intt(Product(c, p))>>])

DecryptPartialCkks(p) ==
    /\ scheme = "CKKS" /\ ceremony = "decrypt"
    /\ \E c \in Ciphertexts[scheme] :
        Make(p, [generated |-> TRUE, of |-> c,
                 parts |-> <<Part0[scheme][c], Product(c, p)>>])

Partial(p) == "of" \in DOMAIN first[p]
Origins(list) == {first[list[k]].of : k \in 1..Len(list)}

\* Mutant: the first part of every share is added.
FusedWhole(list) == Plus(AddAll(Picked(first, list, 1)), AddAll(Picked(first, list, 2)))

\* c0 of the first share and the second parts of all of them.
FusedSum(list) == Plus(first[list[1]].parts[1], AddAll(Picked(first, list, 2)))

DecryptBfv(list) ==
    /\ scheme = "BFV" /\ ceremony = "decrypt"
    /\ \A k \in 1..Len(list) : Partial(list[k])
    /\ IF Len(list) = 0
       THEN Throws
       ELSE Assemble([generated |-> FALSE, from |-> Counted(list), of |-> Origins(list),
                      message |-> Rounded(FusedSum(list))])

DecryptCkks(list) ==
    /\ scheme = "CKKS" /\ ceremony = "decrypt"
    /\ \A k \in 1..Len(list) : Partial(list[k])
    /\ LET Of(k) == first[list[k]].of
       IN  IF Len(list) = 0
              \/ \E k \in 2..Len(list) :
                    <<Of(1).depth, Of(1).scale, Of(1).encoding>>
                        # <<Of(k).depth, Of(k).scale, Of(k).encoding>>
           THEN Throws
           ELSE Assemble([generated |-> TRUE, from |-> Counted(list), of |-> Origins(list),
                          message |-> DecodedAt(FusedSum(list), Of(1).scale)])

-----------------------------------------------------------------------------
(* Distributed bootstrapping: every party takes a random message out of the
   ciphertext and puts it into a fresh one under a common a; the coordinator
   decrypts the masked message and adds it to the fresh sum. *)

BootstrapShare(c, seed, parts) ==
    [generated |-> TRUE, of |-> c, seed |-> seed, depth |-> c.depth, parts |-> parts]

ParticipantBfv(p) ==
    /\ scheme = "BFV" /\ ceremony = "bootstrap"
    /\ \E c \in Ciphertexts[scheme], seed \in Seeds, mask \in Masks[scheme] :
        LET fresh == Minus(Zero, Times(Common[seed], Secret[p]))
        IN  Make(p, BootstrapShare(c, seed,
                        <<Minus(Intt(Product(c, p)), Lifted(mask)),
                          Plus(Intt(fresh), Lifted(mask))>>))

\* Mutant: the random message is taken out of the fresh part as well.
MaskTakenTwice(p) ==
    /\ scheme = "CKKS" /\ ceremony = "bootstrap"
    /\ \E c \in Ciphertexts[scheme], seed \in Seeds, mask \in Masks[scheme] :
        LET fresh == Minus(Zero, Times(Common[seed], Secret[p]))
            hidden == EncodedAt(mask, ManagerScale)
        IN  Make(p, BootstrapShare(c, seed, <<Minus(Product(c, p), hidden),
                                              Minus(fresh, hidden)>>))

\* The random message is encoded at the manager's scale, whatever the scale
\* of the ciphertext is.
ParticipantCkks(p) ==
    /\ scheme = "CKKS" /\ ceremony = "bootstrap"
    /\ \E c \in Ciphertexts[scheme], seed \in Seeds, mask \in Masks[scheme] :
        LET fresh == Minus(Zero, Times(Common[seed], Secret[p]))
            hidden == EncodedAt(mask, ManagerScale)
        IN  Make(p, BootstrapShare(c, seed, <<Minus(Product(c, p), hidden),
                                              Plus(fresh, hidden)>>))

Refreshed(list, c, seed, parts) ==
    [generated |-> TRUE, from |-> Counted(list), of |-> Origins(list) \union {c},
     seeds |-> {first[list[k]].seed : k \in 1..Len(list)} \union {seed},
     parts |-> parts]

\* The first share of an empty vector is read without a check.
CoordinatorBfv(list) ==
    /\ scheme = "BFV" /\ ceremony = "bootstrap"
    /\ \A k \in 1..Len(list) : first[list[k]].generated
    /\ \E c \in Ciphertexts[scheme], seed \in Seeds :
        LET message == Rounded(Plus(Part0[scheme][c], AddAll(Picked(first, list, 1))))
        IN  IF Len(list) = 0
            THEN Faults
            ELSE Assemble(Refreshed(list, c, seed,
                     <<Plus(AddAll(Picked(first, list, 2)), Lifted(message)),
                       Intt(Common[seed])>>))

\* Shares must have been made at the depth of the ciphertext.  What is opened
\* is decoded at the ciphertext's scale, through the real parts of the slots,
\* and encoded again at the manager's scale.
CoordinatorCkks(list) ==
    /\ scheme = "CKKS" /\ ceremony = "bootstrap"
    /\ \A k \in 1..Len(list) : first[list[k]].generated
    /\ \E c \in Ciphertexts[scheme], seed \in Seeds :
        LET opened == Plus(Part0[scheme][c], AddAll(Picked(first, list, 1)))
            message == RealPart(DecodedAt(opened, c.scale))
        IN  IF Len(list) = 0
               \/ \E k \in 1..Len(list) : first[list[k]].depth # c.depth
            THEN Throws
            ELSE Assemble(Refreshed(list, c, seed,
                     <<Plus(AddAll(Picked(first, list, 2)),
                            EncodedAt(message, ManagerScale)),
                       Common[seed]>>))

-----------------------------------------------------------------------------

PartyStep(p) ==
    \/ NewManager(p)
    \/ GeneratePublicKeyShare(p)
    \/ GenerateRelinKeyInit(p)
    \/ GenerateRelinKeyShare(p)
    \/ GenerateGaloisKeyShare(p)
    \/ DecryptPartialBfv(p)
    \/ DecryptPartialCkks(p)
    \/ ParticipantBfv(p)
    \/ ParticipantCkks(p)

CollectorStep(list) ==
    \/ AssemblePublicKeyShare(list)
    \/ AssembleRelinKeyInit(list)
    \/ AssembleRelinKeyShare(list)
    \/ AssembleGaloisKeyShare(list)
    \/ DecryptBfv(list)
    \/ DecryptCkks(list)
    \/ CoordinatorBfv(list)
    \/ CoordinatorCkks(list)

Assembled(object) == "from" \in DOMAIN object

\* Nothing reads the assembled object, so a behaviour ends with it.
Next ==
    /\ raised # "fault" /\ ~Assembled(result)
    /\ \/ \E p \in Parties : PartyStep(p)
       \/ \E list \in Lists : CollectorStep(list)
    /\ UNCHANGED <<scheme, ceremony>>

Spec == Init /\ [][Next]_vars

-----------------------------------------------------------------------------
(* Properties. *)

SecretOf(from) == AddAll([p \in Parties |-> Scaled(from[p], Secret[p])])
Everyone(from) == from = [p \in Parties |-> 1]
Givers(from) == {p \in Parties : from[p] > 0}
SameSeed(from) == \A p, o \in Givers(from) : first[p].seed = first[o].seed

\* A public key assembled from shares of one seed is the public key of the
\* sum of the secrets in the vector, in whatever order they came, with a
\* party missing or counted twice.  (generate_public_key_stage1 and 2)
PublicKeyFitsTheVector ==
    (ceremony = "publickey" /\ Assembled(result) /\ SameSeed(result.from)) =>
        Plus(result.parts[1], Times(result.parts[2], SecretOf(result.from))) = Zero

\* A relinearization key switches from the square of the joint secret when
\* both rounds were collected from everyone, the first from one seed, every
\* second share made from the collected first round, and no manager was made
\* again between the rounds.  (the four relinearization stages)
RelinKeyFitsJointSecret ==
    (/\ ceremony = "relinkey" /\ Assembled(result)
     /\ Everyone(result.from) /\ Everyone(result.of.from)
     /\ SameSeed(result.of.from)
     /\ \A p \in Parties : /\ second[p].of = result.of
                           /\ second[p].blind = first[p].blind) =>
        Plus(result.parts[1], Times(result.parts[2], Joint))
            = Scaled(PFactor, Times(Joint, Joint))

\* An assembled Galois key switches from the permuted sum of the secrets in
\* the vector to that sum, for every element it holds and for the zero key.
\* (generate_galois_key_stage_1 and 2)
GaloisKeyFitsTheVector ==
    (ceremony = "galoiskey" /\ Assembled(result) /\ SameSeed(result.from)) =>
        LET s == SecretOf(result.from)
            Fits(key, g) == Plus(key[1], Times(key[2], Permuted(InverseExponent(g), s)))
                                = Scaled(PFactor, s)
        IN  /\ \A g \in DOMAIN result.keys : Fits(result.keys[g], g)
            /\ Fits(result.zero, GaloisZero)

\* Partial decryptions of one ciphertext by everyone open its message: in
\* CKKS always, in BFV when the ciphertext was in coefficients.
\* (partial_decrypt_stage_1 and 2)
JointDecryptionOpens ==
    (ceremony = "decrypt" /\ Assembled(result) /\ Everyone(result.from)) =>
        \A c \in Ciphertexts[scheme] :
            (result.of = {c} /\ (scheme = "BFV" => ~c.ntt)) => result.message = c.message

Opened(parts) ==
    IF scheme = "BFV"
    THEN Rounded(Plus(parts[1], Intt(Times(Ntt(parts[2]), Joint))))
    ELSE DecodedAt(Plus(parts[1], Times(parts[2], Joint)), ManagerScale)

\* Distributed bootstrapping by everyone, of one ciphertext and under one
\* seed, gives a ciphertext of the same message under the joint key.  BFV
\* needs the ciphertext in coefficients; CKKS needs it at the managers'
\* scale and with real slots, and refuses neither.
\* (distributed_bootstrapping_stage1 and 2)
BootstrappingKeepsMessage ==
    (ceremony = "bootstrap" /\ Assembled(result) /\ Everyone(result.from)
        /\ Cardinality(result.seeds) = 1) =>
        \A c \in Ciphertexts[scheme] :
            (/\ result.of = {c}
             /\ IF scheme = "BFV" THEN ~c.ntt
                ELSE c.scale = ManagerScale /\ RealPart(c.message) = c.message) =>
                Opened(result.parts) = c.message
=============================================================================
