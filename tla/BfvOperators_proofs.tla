------------------------- MODULE BfvOperators_proofs -------------------------
(***************************************************************************)
(* Proofs about BfvOperators for every ring, every key and every number of *)
(* ciphertexts, plaintexts and calls. The calls are taken one by one from  *)
(* their checks up to the operations made of others; what a ciphertext     *)
(* means is not needed for it, only how many polynomials it holds.         *)
(***************************************************************************)
EXTENDS BfvOperators, WellFoundedInduction, FiniteSetTheorems, TLAPS

(* Induction on the natural numbers, for a set of them.                     *)
LEMMA Induction ==
  ASSUME NEW S, 0 \in S, \A n \in Nat : n \in S => n + 1 \in S
  PROVE  Nat \subseteq S
<1>1. SUFFICES ASSUME {n \in Nat : n \notin S} # {} PROVE FALSE
  OBVIOUS
<1> DEFINE R == OpToRel(<, Nat)
           B == {n \in Nat : n \notin S}
<1>2. IsWellFoundedOn(R, Nat)
  BY NatLessThanWellFounded
<1>3. \A i, j \in Nat : i < j => <<i, j>> \in R
  BY DEF OpToRel
<1> HIDE DEF R
<1>4. PICK m \in B : \A k \in B : ~(<<k, m>> \in R)
  <2>1. B \subseteq Nat /\ B # {}
    BY <1>1
  <2> HIDE DEF B
  <2>2. QED
    BY <1>2, <2>1, WFMin
<1>5. CASE m = 0
  BY <1>5
<1>6. CASE m # 0
  <2>1. m - 1 \in Nat /\ m - 1 < m
    BY <1>6
  <2>2. m - 1 \in S
    BY <2>1, <1>3, <1>4
  <2>3. QED
    BY <2>1, <2>2, <1>4
<1>7. QED
  BY <1>5, <1>6

(* A set of natural numbers has a smallest one.                             *)
LEMMA Smallest ==
  ASSUME NEW B \in SUBSET Nat, B # {}
  PROVE  \E m \in B : \A k \in B : m <= k
<1> DEFINE R == OpToRel(<, Nat)
<1>1. IsWellFoundedOn(R, Nat)
  BY NatLessThanWellFounded
<1>2. \A i, j \in Nat : i < j => <<i, j>> \in R
  BY DEF OpToRel
<1> HIDE DEF R
<1>3. PICK m \in B : \A k \in B : ~(<<k, m>> \in R)
  BY <1>1, WFMin
<1>4. m \in Nat
  OBVIOUS
<1>5. ASSUME NEW k \in B PROVE m <= k
  <2>1. k \in Nat /\ ~(k < m)
    BY <1>2, <1>3, <1>4
  <2>2. QED
    BY <2>1, <1>4
<1>6. QED
  BY <1>5

-----------------------------------------------------------------------------
(* The checks of a call: it goes on when all hold, and otherwise throws for *)
(* the first that does not.                                                 *)
LEMMA CheckedIs ==
  ASSUME NEW h, NEW checks, DOMAIN checks \in SUBSET Nat, NEW next
  PROVE  \/ h.outcome # "ok" /\ Checked(h, checks, next) = h
         \/ /\ h.outcome = "ok" /\ \A i \in DOMAIN checks : checks[i][1]
            /\ Checked(h, checks, next) = next
         \/ /\ h.outcome = "ok"
            /\ \E i \in DOMAIN checks :
                 /\ ~checks[i][1] /\ \A j \in DOMAIN checks : ~checks[j][1] => i <= j
                 /\ Checked(h, checks, next) = [h EXCEPT !.outcome = checks[i][2]]
<1> DEFINE failed == {i \in DOMAIN checks : ~checks[i][1]}
           first == CHOOSE i \in failed : \A j \in failed : i <= j
<1>1. Checked(h, checks, next) =
        IF h.outcome # "ok" THEN h
        ELSE IF failed = {} THEN next ELSE [h EXCEPT !.outcome = checks[first][2]]
  BY DEF Checked
<1>2. failed # {} => first \in failed /\ \A j \in failed : first <= j
  <2>1. failed \in SUBSET Nat
    OBVIOUS
  <2> HIDE DEF failed
  <2>2. QED
    BY <2>1, Smallest
<1> HIDE DEF first
<1>3. QED
  BY <1>1, <1>2

-----------------------------------------------------------------------------
(* What a call does to the objects it sees.                                 *)
Names == Ciphertexts \cup Inner
AHeap(h) == /\ DOMAIN h = {"of", "outcome"} /\ DOMAIN h.of = Names
            /\ h.outcome \in {"ok", "parts", "domain", "size", "key"}

(* A ciphertext that holds the polynomials its size tells of; a small one   *)
(* lacks the third that its flag tells of.                                  *)
Formed(c) ==
  /\ DOMAIN c = {"made", "size", "relin", "ntt", "dom", "key", "parts"}
  /\ c.size \in 2 .. 3 /\ c.relin \in BOOLEAN /\ c.ntt \in BOOLEAN
  /\ DOMAIN c.parts = 1 .. c.size /\ Len(c.parts) = c.size
Small(c) == c.relin /\ c.size = 2

(* A call throws, for the memory of an operand only if one is small, or it  *)
(* writes one object.                                                       *)
Threw(h, g, operands) ==
  /\ AHeap(g) /\ g.of = h.of /\ g.outcome # "ok"
  /\ h.outcome # "ok" => g.outcome = h.outcome
  /\ h.outcome = "ok" /\ g.outcome = "size" => \E n \in operands : Small(h.of[n])
Wrote(h, g, z) ==
  /\ AHeap(g) /\ g.outcome = "ok" /\ h.outcome = "ok"
  /\ \A n \in Names \ {z} : g.of[n] = h.of[n]
Made(g, z, size, relin, ntt) ==
  /\ Formed(g.of[z])
  /\ g.of[z].size = size /\ g.of[z].relin = relin /\ g.of[z].ntt = ntt

(* What a ciphertext that holds its polynomials can be asked for.           *)
LEMMA FormedParts ==
  ASSUME NEW c, Formed(c), NEW k \in 2 .. 3
  PROVE  /\ HoldsParts(c, k) <=> c.size >= k
         /\ k <= c.size => DOMAIN SubSeq(c.parts, 1, k) = 1 .. k
         /\ c.size \in 2 .. 3 /\ c.relin \in BOOLEAN /\ c.ntt \in BOOLEAN
         /\ DOMAIN c.parts = 1 .. c.size /\ Len(c.parts) = c.size
         /\ Size(c) \in 2 .. 3 /\ (Size(c) > c.size <=> Small(c))
  BY DEF Formed, HoldsParts, Size, Small

(* An assignment to one object writes that object.                          *)
LEMMA PutWrites ==
  ASSUME NEW h, AHeap(h), h.outcome = "ok", NEW z \in Names, NEW c
  PROVE  Wrote(h, Put(h, z, c), z) /\ Put(h, z, c).of[z] = c
  BY DEF AHeap, Wrote, Put

(* A failed check throws, and leaves the objects alone.                     *)
LEMMA ThrowThrows ==
  ASSUME NEW h, AHeap(h), h.outcome = "ok", NEW r \in {"parts", "domain", "size", "key"}, NEW S,
         r = "size" => \E n \in S : Small(h.of[n])
  PROVE  Threw(h, [h EXCEPT !.outcome = r], S)
  BY DEF AHeap, Threw

(* A call made after a failed one changes nothing.                          *)
LEMMA FailedStays ==
  ASSUME NEW h, AHeap(h), h.outcome # "ok", NEW S
  PROVE  Threw(h, h, S)
  BY DEF AHeap, Threw
(* What the checks of a call leave to show: none of them fails for the      *)
(* memory of an operand that is not small.                                  *)
LEMMA Guarded ==
  ASSUME NEW h, AHeap(h), NEW S, NEW next, NEW checks, DOMAIN checks \in SUBSET Nat,
         \A i \in DOMAIN checks :
           /\ checks[i][2] \in {"parts", "domain", "size", "key"}
           /\ \/ h.outcome # "ok" \/ checks[i][2] # "size" \/ checks[i][1]
              \/ \E j \in DOMAIN checks : j < i /\ ~checks[j][1]
              \/ \E n \in S : Small(h.of[n])
  PROVE  LET g == Checked(h, checks, next)
         IN  \/ h.outcome = "ok" /\ (\A i \in DOMAIN checks : checks[i][1]) /\ g = next
             \/ /\ ~(h.outcome = "ok" /\ \A i \in DOMAIN checks : checks[i][1])
                /\ Threw(h, g, S)
<1> DEFINE g == Checked(h, checks, next)
<1>1. CASE h.outcome # "ok"
  BY <1>1, CheckedIs, FailedStays
<1>2. CASE h.outcome = "ok" /\ \A i \in DOMAIN checks : checks[i][1]
  BY <1>2, CheckedIs
<1>3. CASE h.outcome = "ok" /\ ~\A i \in DOMAIN checks : checks[i][1]
  <2>1. PICK i \in DOMAIN checks :
          /\ ~checks[i][1] /\ \A j \in DOMAIN checks : ~checks[j][1] => i <= j
          /\ Checked(h, checks, next) = [h EXCEPT !.outcome = checks[i][2]]
    BY <1>3, CheckedIs
  <2>2. checks[i][2] = "size" => \E n \in S : Small(h.of[n])
    BY <1>3, <2>1
  <2>3. Threw(h, [h EXCEPT !.outcome = checks[i][2]], S)
    BY <1>3, <2>2, ThrowThrows
  <2>4. QED
    BY <1>3, <2>1, <2>3
<1>4. QED
  BY <1>1, <1>2, <1>3

(* add writes its result in as many polynomials as its operands have.       *)
LEMMA AddWrites ==
  ASSUME NEW h, AHeap(h), NEW x \in Names, NEW y \in Names, NEW z \in Names,
         h.outcome = "ok" => Formed(h.of[x]) /\ Formed(h.of[y])
  PROVE  LET g == add(h, x, y, z)
             a == h.of[x]
         IN  \/ Threw(h, g, {x, y})
             \/ Wrote(h, g, z) /\ Made(g, z, Size(a), a.relin, a.ntt)
<1> DEFINE a == h.of[x]
           b == h.of[y]
           parts == addition(SubSeq(a.parts, 1, Size(a)), SubSeq(b.parts, 1, Size(a)))
           r == Result(a, Size(a), a.relin, a.ntt, Both(a.dom, b.dom), parts)
           next == Put(h, z, r)
           held == HoldsParts(a, Size(a)) /\ HoldsParts(b, Size(a))
           checks == << <<a.relin = b.relin, "parts">>, <<a.ntt = b.ntt, "domain">>,
                        <<held, "size">> >>
           g == add(h, x, y, z)
<1>1. g = Checked(h, checks, next)
  BY DEF add, AddOrSub
<1>2. h.outcome = "ok" =>
        /\ Size(a) \in 2 .. 3 /\ a.relin \in BOOLEAN /\ a.ntt \in BOOLEAN
        /\ held => DOMAIN SubSeq(a.parts, 1, Size(a)) = 1 .. Size(a)
        /\ ~held /\ a.relin = b.relin => Small(a) \/ Small(b)
  BY FormedParts DEF Size, Small
<1>3. h.outcome = "ok" /\ held => /\ Wrote(h, next, z)
                                  /\ Made(next, z, Size(a), a.relin, a.ntt)
  <2>1. SUFFICES ASSUME h.outcome = "ok", held
                 PROVE  Wrote(h, next, z) /\ Made(next, z, Size(a), a.relin, a.ntt)
    OBVIOUS
  <2>2. DOMAIN parts = 1 .. Size(a) /\ Len(parts) = Size(a)
    BY <1>2, <2>1 DEF addition
  <2> HIDE DEF parts, a
  <2>3. Formed(r) /\ r.size = Size(a) /\ r.relin = a.relin /\ r.ntt = a.ntt
    BY <1>2, <2>1, <2>2 DEF Result, Formed
  <2> HIDE DEF r
  <2>4. QED
    BY <2>1, <2>3, PutWrites DEF Made
<1>4. /\ DOMAIN checks = 1 .. 3
      /\ checks[1][2] = "parts" /\ checks[2][2] = "domain" /\ checks[3][2] = "size"
      /\ checks[1][1] = (a.relin = b.relin) /\ checks[3][1] = held
  OBVIOUS
<1> HIDE DEF held, checks, next, g
<1>5. \A i \in DOMAIN checks :
        /\ checks[i][2] \in {"parts", "domain", "size", "key"}
        /\ \/ h.outcome # "ok" \/ checks[i][2] # "size" \/ checks[i][1]
           \/ \E j \in DOMAIN checks : j < i /\ ~checks[j][1]
           \/ \E n \in {x, y} : Small(h.of[n])
  <2>1. h.outcome = "ok" /\ ~checks[3][1] /\ checks[1][1] =>
          \E n \in {x, y} : Small(h.of[n])
    BY <1>2, <1>4
  <2>2. \A i \in DOMAIN checks : i = 1 \/ i = 2 \/ i = 3
    BY <1>4
  <2>3. QED
    BY <1>4, <2>1, <2>2
<1>6. \/ h.outcome = "ok" /\ (\A i \in DOMAIN checks : checks[i][1]) /\ g = next
      \/ Threw(h, g, {x, y})
  BY <1>1, <1>4, <1>5, Guarded
<1>7. QED
  BY <1>3, <1>4, <1>6 DEF g

(* So does sub.                                                             *)
LEMMA SubWrites ==
  ASSUME NEW h, AHeap(h), NEW x \in Names, NEW y \in Names, NEW z \in Names,
         h.outcome = "ok" => Formed(h.of[x]) /\ Formed(h.of[y])
  PROVE  LET g == sub(h, x, y, z)
             a == h.of[x]
         IN  \/ Threw(h, g, {x, y})
             \/ Wrote(h, g, z) /\ Made(g, z, Size(a), a.relin, a.ntt)
<1> DEFINE a == h.of[x]
           b == h.of[y]
           parts == substraction(SubSeq(a.parts, 1, Size(a)), SubSeq(b.parts, 1, Size(a)))
           r == Result(a, Size(a), a.relin, a.ntt, Both(a.dom, b.dom), parts)
           next == Put(h, z, r)
           held == HoldsParts(a, Size(a)) /\ HoldsParts(b, Size(a))
           checks == << <<a.relin = b.relin, "parts">>, <<a.ntt = b.ntt, "domain">>,
                        <<held, "size">> >>
           g == sub(h, x, y, z)
<1>1. g = Checked(h, checks, next)
  BY DEF sub, AddOrSub
<1>2. h.outcome = "ok" =>
        /\ Size(a) \in 2 .. 3 /\ a.relin \in BOOLEAN /\ a.ntt \in BOOLEAN
        /\ held => DOMAIN SubSeq(a.parts, 1, Size(a)) = 1 .. Size(a)
        /\ ~held /\ a.relin = b.relin => Small(a) \/ Small(b)
  BY FormedParts DEF Size, Small
<1>3. h.outcome = "ok" /\ held => /\ Wrote(h, next, z)
                                  /\ Made(next, z, Size(a), a.relin, a.ntt)
  <2>1. SUFFICES ASSUME h.outcome = "ok", held
                 PROVE  Wrote(h, next, z) /\ Made(next, z, Size(a), a.relin, a.ntt)
    OBVIOUS
  <2>2. DOMAIN parts = 1 .. Size(a) /\ Len(parts) = Size(a)
    BY <1>2, <2>1 DEF substraction
  <2> HIDE DEF parts, a
  <2>3. Formed(r) /\ r.size = Size(a) /\ r.relin = a.relin /\ r.ntt = a.ntt
    BY <1>2, <2>1, <2>2 DEF Result, Formed
  <2> HIDE DEF r
  <2>4. QED
    BY <2>1, <2>3, PutWrites DEF Made
<1>4. /\ DOMAIN checks = 1 .. 3
      /\ checks[1][2] = "parts" /\ checks[2][2] = "domain" /\ checks[3][2] = "size"
      /\ checks[1][1] = (a.relin = b.relin) /\ checks[3][1] = held
  OBVIOUS
<1> HIDE DEF held, checks, next, g
<1>5. \A i \in DOMAIN checks :
        /\ checks[i][2] \in {"parts", "domain", "size", "key"}
        /\ \/ h.outcome # "ok" \/ checks[i][2] # "size" \/ checks[i][1]
           \/ \E j \in DOMAIN checks : j < i /\ ~checks[j][1]
           \/ \E n \in {x, y} : Small(h.of[n])
  <2>1. h.outcome = "ok" /\ ~checks[3][1] /\ checks[1][1] =>
          \E n \in {x, y} : Small(h.of[n])
    BY <1>2, <1>4
  <2>2. \A i \in DOMAIN checks : i = 1 \/ i = 2 \/ i = 3
    BY <1>4
  <2>3. QED
    BY <1>4, <2>1, <2>2
<1>6. \/ h.outcome = "ok" /\ (\A i \in DOMAIN checks : checks[i][1]) /\ g = next
      \/ Threw(h, g, {x, y})
  BY <1>1, <1>4, <1>5, Guarded
<1>7. QED
  BY <1>3, <1>4, <1>6 DEF g

(* negate throws only for an operand that is small.                         *)
LEMMA NegateWrites ==
  ASSUME NEW h, AHeap(h), NEW x \in Names, NEW z \in Names,
         h.outcome = "ok" => Formed(h.of[x])
  PROVE  LET g == negate(h, x, z)
             a == h.of[x]
         IN  IF h.outcome = "ok" /\ ~Small(a)
             THEN Wrote(h, g, z) /\ Made(g, z, Size(a), a.relin, a.ntt)
             ELSE Threw(h, g, {x})
<1> DEFINE a == h.of[x]
           parts == negation(SubSeq(a.parts, 1, Size(a)))
           r == Result(a, Size(a), a.relin, a.ntt, a.dom, parts)
           next == Put(h, z, r)
           held == HoldsParts(a, Size(a))
           checks == << <<held, "size">> >>
           g == negate(h, x, z)
<1>1. g = Checked(h, checks, next)
  BY DEF negate
<1>2. h.outcome = "ok" =>
        /\ Size(a) \in 2 .. 3 /\ a.relin \in BOOLEAN /\ a.ntt \in BOOLEAN
        /\ held => DOMAIN SubSeq(a.parts, 1, Size(a)) = 1 .. Size(a)
        /\ held <=> ~Small(a)
        /\ ~held => Small(a)
  BY FormedParts DEF Size, Small
<1>3. h.outcome = "ok" /\ held =>
        Wrote(h, next, z) /\ Made(next, z, Size(a), a.relin, a.ntt)
  <2>1. SUFFICES ASSUME h.outcome = "ok", held
                 PROVE  Wrote(h, next, z) /\ Made(next, z, Size(a), a.relin, a.ntt)
    OBVIOUS
  <2>2. DOMAIN parts = 1 .. Size(a) /\ Len(parts) = Size(a)
    BY <1>2, <2>1 DEF negation
  <2> HIDE DEF parts, a
  <2>3. Formed(r) /\ r.size = Size(a) /\ r.relin = a.relin /\ r.ntt = a.ntt
    BY <1>2, <2>1, <2>2 DEF Result, Formed
  <2> HIDE DEF r
  <2>4. QED
    BY <2>1, <2>3, PutWrites DEF Made
<1>4. /\ DOMAIN checks = 1 .. 1
      /\ checks[1][2] = "size"
      /\ checks[1][1] = held
  OBVIOUS
<1> HIDE DEF held, checks, next, g
<1>5. \A i \in DOMAIN checks :
        /\ checks[i][2] \in {"parts", "domain", "size", "key"}
        /\ \/ h.outcome # "ok" \/ checks[i][2] # "size" \/ checks[i][1]
           \/ \E j \in DOMAIN checks : j < i /\ ~checks[j][1]
           \/ \E n \in {x} : Small(h.of[n])
  <2>1. h.outcome = "ok" /\ ~checks[1][1] => \E n \in {x} : Small(h.of[n])
    BY <1>2, <1>4
  <2>2. \A i \in DOMAIN checks : i = 1
    BY <1>4
  <2>3. QED
    BY <1>4, <2>1, <2>2
<1>6. \/ h.outcome = "ok" /\ (\A i \in DOMAIN checks : checks[i][1]) /\ g = next
      \/ ~(h.outcome = "ok" /\ \A i \in DOMAIN checks : checks[i][1]) /\ Threw(h, g, {x})
  <2>1. DOMAIN checks \in SUBSET Nat
    BY <1>4
  <2>2. QED
    BY <1>1, <1>5, <2>1, Guarded
<1>7. h.outcome = "ok" => ((\A i \in DOMAIN checks : checks[i][1]) <=> ~Small(a))
  <2>1. (\A i \in DOMAIN checks : checks[i][1]) <=> held
    BY <1>4
  <2>2. QED
    BY <1>2, <2>1 DEF held, Small, Size
<1>8. QED
  BY <1>3, <1>4, <1>6, <1>7 DEF g, Made

(* add_plain writes a result of two polynomials.                            *)
LEMMA AddPlainWrites ==
  ASSUME NEW h, AHeap(h), NEW x \in Names, NEW p, NEW z \in Names,
         h.outcome = "ok" => Formed(h.of[x])
  PROVE  LET g == add_plain(h, x, p, z)
             a == h.of[x]
         IN  \/ Threw(h, g, {x})
             \/ Wrote(h, g, z) /\ Made(g, z, 2, FALSE, a.ntt)
<1> DEFINE a == h.of[x]
           parts == addition_plain_bfv_poly(SubSeq(a.parts, 1, 2), p.v)
           r == Result(a, 2, FALSE, a.ntt, Both(a.dom, p.dom), parts)
           next == Put(h, z, r)
           two == ~a.relin
           form == ~a.ntt /\ ~p.ntt
           held == HoldsParts(a, 2)
           checks == << <<two, "parts">>, <<form, "domain">>, <<held, "size">> >>
           g == add_plain(h, x, p, z)
<1>1. g = Checked(h, checks, next)
  BY DEF add_plain, PlainChecks
<1>2. h.outcome = "ok" =>
        /\ Size(a) \in 2 .. 3 /\ a.relin \in BOOLEAN /\ a.ntt \in BOOLEAN
        /\ held => DOMAIN SubSeq(a.parts, 1, 2) = 1 .. 2
        /\ held
        /\ ~held /\ two /\ form => Small(a)
  BY FormedParts DEF Size, Small
<1>3. h.outcome = "ok" /\ two /\ form /\ held =>
        Wrote(h, next, z) /\ Made(next, z, 2, FALSE, a.ntt)
  <2>1. SUFFICES ASSUME h.outcome = "ok", two, form, held
                 PROVE  Wrote(h, next, z) /\ Made(next, z, 2, FALSE, a.ntt)
    OBVIOUS
  <2>2. DOMAIN parts = 1 .. 2 /\ Len(parts) = 2
    BY <1>2, <2>1 DEF addition_plain_bfv_poly
  <2> HIDE DEF parts, a
  <2>3. Formed(r) /\ r.size = 2 /\ r.relin = FALSE /\ r.ntt = a.ntt
    BY <1>2, <2>1, <2>2 DEF Result, Formed
  <2> HIDE DEF r
  <2>4. QED
    BY <2>1, <2>3, PutWrites DEF Made
<1>4. /\ DOMAIN checks = 1 .. 3
      /\ checks[1][2] = "parts" /\ checks[2][2] = "domain" /\ checks[3][2] = "size"
      /\ checks[1][1] = two /\ checks[2][1] = form /\ checks[3][1] = held
  OBVIOUS
<1> HIDE DEF two, form, held, checks, next, g
<1>5. \A i \in DOMAIN checks :
        /\ checks[i][2] \in {"parts", "domain", "size", "key"}
        /\ \/ h.outcome # "ok" \/ checks[i][2] # "size" \/ checks[i][1]
           \/ \E j \in DOMAIN checks : j < i /\ ~checks[j][1]
           \/ \E n \in {x} : Small(h.of[n])
  <2>1. h.outcome = "ok" /\ ~checks[3][1] /\ checks[1][1] /\ checks[2][1] => \E n \in {x} : Small(h.of[n])
    BY <1>2, <1>4
  <2>2. \A i \in DOMAIN checks : i = 1 \/ i = 2 \/ i = 3
    BY <1>4
  <2>3. QED
    BY <1>4, <2>1, <2>2
<1>6. \/ h.outcome = "ok" /\ (\A i \in DOMAIN checks : checks[i][1]) /\ g = next
      \/ Threw(h, g, {x})
  BY <1>1, <1>4, <1>5, Guarded
<1>7. QED
  BY <1>3, <1>4, <1>6 DEF g, Made

(* So does sub_plain.                                                       *)
LEMMA SubPlainWrites ==
  ASSUME NEW h, AHeap(h), NEW x \in Names, NEW p, NEW z \in Names,
         h.outcome = "ok" => Formed(h.of[x])
  PROVE  LET g == sub_plain(h, x, p, z)
             a == h.of[x]
         IN  \/ Threw(h, g, {x})
             \/ Wrote(h, g, z) /\ Made(g, z, 2, FALSE, a.ntt)
<1> DEFINE a == h.of[x]
           parts == substraction_plain_bfv_poly(SubSeq(a.parts, 1, 2), p.v)
           r == Result(a, 2, FALSE, a.ntt, Both(a.dom, p.dom), parts)
           next == Put(h, z, r)
           two == ~a.relin
           form == ~a.ntt /\ ~p.ntt
           held == HoldsParts(a, 2)
           checks == << <<two, "parts">>, <<form, "domain">>, <<held, "size">> >>
           g == sub_plain(h, x, p, z)
<1>1. g = Checked(h, checks, next)
  BY DEF sub_plain, PlainChecks
<1>2. h.outcome = "ok" =>
        /\ Size(a) \in 2 .. 3 /\ a.relin \in BOOLEAN /\ a.ntt \in BOOLEAN
        /\ held => DOMAIN SubSeq(a.parts, 1, 2) = 1 .. 2
        /\ held
        /\ ~held /\ two /\ form => Small(a)
  BY FormedParts DEF Size, Small
<1>3. h.outcome = "ok" /\ two /\ form /\ held =>
        Wrote(h, next, z) /\ Made(next, z, 2, FALSE, a.ntt)
  <2>1. SUFFICES ASSUME h.outcome = "ok", two, form, held
                 PROVE  Wrote(h, next, z) /\ Made(next, z, 2, FALSE, a.ntt)
    OBVIOUS
  <2>2. DOMAIN parts = 1 .. 2 /\ Len(parts) = 2
    BY <1>2, <2>1 DEF substraction_plain_bfv_poly
  <2> HIDE DEF parts, a
  <2>3. Formed(r) /\ r.size = 2 /\ r.relin = FALSE /\ r.ntt = a.ntt
    BY <1>2, <2>1, <2>2 DEF Result, Formed
  <2> HIDE DEF r
  <2>4. QED
    BY <2>1, <2>3, PutWrites DEF Made
<1>4. /\ DOMAIN checks = 1 .. 3
      /\ checks[1][2] = "parts" /\ checks[2][2] = "domain" /\ checks[3][2] = "size"
      /\ checks[1][1] = two /\ checks[2][1] = form /\ checks[3][1] = held
  OBVIOUS
<1> HIDE DEF two, form, held, checks, next, g
<1>5. \A i \in DOMAIN checks :
        /\ checks[i][2] \in {"parts", "domain", "size", "key"}
        /\ \/ h.outcome # "ok" \/ checks[i][2] # "size" \/ checks[i][1]
           \/ \E j \in DOMAIN checks : j < i /\ ~checks[j][1]
           \/ \E n \in {x} : Small(h.of[n])
  <2>1. h.outcome = "ok" /\ ~checks[3][1] /\ checks[1][1] /\ checks[2][1] => \E n \in {x} : Small(h.of[n])
    BY <1>2, <1>4
  <2>2. \A i \in DOMAIN checks : i = 1 \/ i = 2 \/ i = 3
    BY <1>4
  <2>3. QED
    BY <1>4, <2>1, <2>2
<1>6. \/ h.outcome = "ok" /\ (\A i \in DOMAIN checks : checks[i][1]) /\ g = next
      \/ Threw(h, g, {x})
  BY <1>1, <1>4, <1>5, Guarded
<1>7. QED
  BY <1>3, <1>4, <1>6 DEF g, Made

(* And multiply_plain.                                                      *)
LEMMA MultiplyPlainWrites ==
  ASSUME NEW h, AHeap(h), NEW x \in Names, NEW p, NEW z \in Names,
         h.outcome = "ok" => Formed(h.of[x])
  PROVE  LET g == multiply_plain(h, x, p, z)
             a == h.of[x]
         IN  \/ Threw(h, g, {x})
             \/ Wrote(h, g, z) /\ Made(g, z, 2, FALSE, a.ntt)
<1> DEFINE a == h.of[x]
           parts == cipherplain(a.parts, p.v)
           r == Result(a, 2, FALSE, a.ntt, Both(a.dom, p.dom), parts)
           next == Put(h, z, r)
           two == ~a.relin
           held == HoldsParts(a, 2)
           form == a.ntt = p.ntt
           checks == << <<two, "parts">>, <<held, "size">>, <<form, "domain">> >>
           g == multiply_plain(h, x, p, z)
<1>1. g = Checked(h, checks, next)
  BY DEF multiply_plain
<1>2. h.outcome = "ok" =>
        /\ Size(a) \in 2 .. 3 /\ a.relin \in BOOLEAN /\ a.ntt \in BOOLEAN
        /\ ~held /\ two => Small(a)
  BY FormedParts DEF Size, Small
<1>3. h.outcome = "ok" /\ two /\ held /\ form =>
        Wrote(h, next, z) /\ Made(next, z, 2, FALSE, a.ntt)
  <2>1. SUFFICES ASSUME h.outcome = "ok", two, held, form
                 PROVE  Wrote(h, next, z) /\ Made(next, z, 2, FALSE, a.ntt)
    OBVIOUS
  <2>2. DOMAIN parts = 1 .. 2 /\ Len(parts) = 2
    BY <1>2, <2>1 DEF cipherplain
  <2> HIDE DEF parts, a
  <2>3. Formed(r) /\ r.size = 2 /\ r.relin = FALSE /\ r.ntt = a.ntt
    BY <1>2, <2>1, <2>2 DEF Result, Formed
  <2> HIDE DEF r
  <2>4. QED
    BY <2>1, <2>3, PutWrites DEF Made
<1>4. /\ DOMAIN checks = 1 .. 3
      /\ checks[1][2] = "parts" /\ checks[2][2] = "size" /\ checks[3][2] = "domain"
      /\ checks[1][1] = two /\ checks[2][1] = held /\ checks[3][1] = form
  OBVIOUS
<1> HIDE DEF two, held, form, checks, next, g
<1>5. \A i \in DOMAIN checks :
        /\ checks[i][2] \in {"parts", "domain", "size", "key"}
        /\ \/ h.outcome # "ok" \/ checks[i][2] # "size" \/ checks[i][1]
           \/ \E j \in DOMAIN checks : j < i /\ ~checks[j][1]
           \/ \E n \in {x} : Small(h.of[n])
  <2>1. h.outcome = "ok" /\ ~checks[2][1] /\ checks[1][1] => \E n \in {x} : Small(h.of[n])
    BY <1>2, <1>4
  <2>2. \A i \in DOMAIN checks : i = 1 \/ i = 2 \/ i = 3
    BY <1>4
  <2>3. QED
    BY <1>4, <2>1, <2>2
<1>6. \/ h.outcome = "ok" /\ (\A i \in DOMAIN checks : checks[i][1]) /\ g = next
      \/ Threw(h, g, {x})
  BY <1>1, <1>4, <1>5, Guarded
<1>7. QED
  BY <1>3, <1>4, <1>6 DEF g, Made

(* The checks that the linear operations share.                             *)
LEMMA LinearChecksIs ==
  ASSUME NEW a
  PROVE  LinearChecks(a) \o OfCoefficients(a) =
           << <<~a.relin, "parts">>, <<HoldsParts(a, 2), "size">>, <<~a.ntt, "domain">> >>
<1>1. ASSUME NEW p, NEW q, NEW r PROVE <<p, q>> \o <<r>> = <<p, q, r>>
  <2> DEFINE u == <<p, q>> \o <<r>>
  <2>1. u \in Seq({p, q, r}) /\ Len(u) = 3
    OBVIOUS
  <2>2. u[1] = p /\ u[2] = q /\ u[3] = r
    OBVIOUS
  <2> HIDE DEF u
  <2>3. u = <<u[1], u[2], u[3]>>
    BY <2>1
  <2>4. QED
    BY <2>2, <2>3 DEF u
<1>2. QED
  BY <1>1 DEF LinearChecks, OfCoefficients

(* In place no field changes, and the polynomials stay as many.             *)
LEMMA AddPlainInplaceWrites ==
  ASSUME NEW h, AHeap(h), NEW x \in Names, NEW p,
         h.outcome = "ok" => Formed(h.of[x])
  PROVE  LET g == add_plain_inplace(h, x, p)
             a == h.of[x]
         IN  \/ Threw(h, g, {x})
             \/ Wrote(h, g, x) /\ Made(g, x, a.size, a.relin, a.ntt)
<1> DEFINE a == h.of[x]
           r == [a EXCEPT !.parts = addition_plain_bfv_poly(@, p.v), !.dom = Both(@, p.dom)]
           next == [h EXCEPT !.of[x].parts = addition_plain_bfv_poly(@, p.v),
                           !.of[x].dom = Both(@, p.dom)]
           two == ~a.relin
           form == ~a.ntt /\ ~p.ntt
           held == HoldsParts(a, 2)
           checks == << <<two, "parts">>, <<form, "domain">>, <<held, "size">> >>
           g == add_plain_inplace(h, x, p)
<1>1. g = Checked(h, checks, next)
  BY DEF add_plain_inplace, PlainChecks
<1>2. h.outcome = "ok" =>
        /\ Size(a) \in 2 .. 3 /\ a.relin \in BOOLEAN /\ a.ntt \in BOOLEAN
        /\ DOMAIN a.parts = 1 .. a.size /\ Len(a.parts) = a.size /\ a.size \in 2 .. 3
        /\ ~held /\ two /\ form => Small(a)
  BY FormedParts DEF Size, Small
<1>3. h.outcome = "ok" /\ two /\ form /\ held =>
        Wrote(h, next, x) /\ Made(next, x, a.size, a.relin, a.ntt)
  <2>1. SUFFICES ASSUME h.outcome = "ok", two, form, held
                 PROVE  Wrote(h, next, x) /\ Made(next, x, a.size, a.relin, a.ntt)
    OBVIOUS
  <2>2. Formed(a)
    BY <2>1
  <2>3. DOMAIN addition_plain_bfv_poly(a.parts, p.v) = 1 .. a.size
        /\ Len(addition_plain_bfv_poly(a.parts, p.v)) = a.size
    BY <2>2 DEF addition_plain_bfv_poly, Formed
  <2>4. Formed(r) /\ r.size = a.size /\ r.relin = a.relin /\ r.ntt = a.ntt
    BY <2>2, <2>3 DEF Formed
  <2>5. Wrote(h, next, x) /\ next.of[x] = r
    BY <2>1, <2>2 DEF AHeap, Wrote, Formed
  <2> HIDE DEF r, next
  <2>6. QED
    BY <2>4, <2>5 DEF Made
<1>4. /\ DOMAIN checks = 1 .. 3
      /\ checks[1][2] = "parts" /\ checks[2][2] = "domain" /\ checks[3][2] = "size"
      /\ checks[1][1] = two /\ checks[2][1] = form /\ checks[3][1] = held
  OBVIOUS
<1> HIDE DEF two, form, held, checks, next, g
<1>5. \A i \in DOMAIN checks :
        /\ checks[i][2] \in {"parts", "domain", "size", "key"}
        /\ \/ h.outcome # "ok" \/ checks[i][2] # "size" \/ checks[i][1]
           \/ \E j \in DOMAIN checks : j < i /\ ~checks[j][1]
           \/ \E n \in {x} : Small(h.of[n])
  <2>1. h.outcome = "ok" /\ ~checks[3][1] /\ checks[1][1] /\ checks[2][1] => \E n \in {x} : Small(h.of[n])
    BY <1>2, <1>4
  <2>2. \A i \in DOMAIN checks : i = 1 \/ i = 2 \/ i = 3
    BY <1>4
  <2>3. QED
    BY <1>4, <2>1, <2>2
<1>6. \/ h.outcome = "ok" /\ (\A i \in DOMAIN checks : checks[i][1]) /\ g = next
      \/ Threw(h, g, {x})
  BY <1>1, <1>4, <1>5, Guarded
<1>7. QED
  BY <1>3, <1>4, <1>6 DEF g, Made

(* The same for sub_plain_inplace.                                          *)
LEMMA SubPlainInplaceWrites ==
  ASSUME NEW h, AHeap(h), NEW x \in Names, NEW p,
         h.outcome = "ok" => Formed(h.of[x])
  PROVE  LET g == sub_plain_inplace(h, x, p)
             a == h.of[x]
         IN  \/ Threw(h, g, {x})
             \/ Wrote(h, g, x) /\ Made(g, x, a.size, a.relin, a.ntt)
<1> DEFINE a == h.of[x]
           r == [a EXCEPT !.parts = substraction_plain_bfv_poly(@, p.v), !.dom = Both(@, p.dom)]
           next == [h EXCEPT !.of[x].parts = substraction_plain_bfv_poly(@, p.v),
                           !.of[x].dom = Both(@, p.dom)]
           two == ~a.relin
           form == ~a.ntt /\ ~p.ntt
           held == HoldsParts(a, 2)
           checks == << <<two, "parts">>, <<form, "domain">>, <<held, "size">> >>
           g == sub_plain_inplace(h, x, p)
<1>1. g = Checked(h, checks, next)
  BY DEF sub_plain_inplace, PlainChecks
<1>2. h.outcome = "ok" =>
        /\ Size(a) \in 2 .. 3 /\ a.relin \in BOOLEAN /\ a.ntt \in BOOLEAN
        /\ DOMAIN a.parts = 1 .. a.size /\ Len(a.parts) = a.size /\ a.size \in 2 .. 3
        /\ ~held /\ two /\ form => Small(a)
  BY FormedParts DEF Size, Small
<1>3. h.outcome = "ok" /\ two /\ form /\ held =>
        Wrote(h, next, x) /\ Made(next, x, a.size, a.relin, a.ntt)
  <2>1. SUFFICES ASSUME h.outcome = "ok", two, form, held
                 PROVE  Wrote(h, next, x) /\ Made(next, x, a.size, a.relin, a.ntt)
    OBVIOUS
  <2>2. Formed(a)
    BY <2>1
  <2>3. DOMAIN substraction_plain_bfv_poly(a.parts, p.v) = 1 .. a.size
        /\ Len(substraction_plain_bfv_poly(a.parts, p.v)) = a.size
    BY <2>2 DEF substraction_plain_bfv_poly, Formed
  <2>4. Formed(r) /\ r.size = a.size /\ r.relin = a.relin /\ r.ntt = a.ntt
    BY <2>2, <2>3 DEF Formed
  <2>5. Wrote(h, next, x) /\ next.of[x] = r
    BY <2>1, <2>2 DEF AHeap, Wrote, Formed
  <2> HIDE DEF r, next
  <2>6. QED
    BY <2>4, <2>5 DEF Made
<1>4. /\ DOMAIN checks = 1 .. 3
      /\ checks[1][2] = "parts" /\ checks[2][2] = "domain" /\ checks[3][2] = "size"
      /\ checks[1][1] = two /\ checks[2][1] = form /\ checks[3][1] = held
  OBVIOUS
<1> HIDE DEF two, form, held, checks, next, g
<1>5. \A i \in DOMAIN checks :
        /\ checks[i][2] \in {"parts", "domain", "size", "key"}
        /\ \/ h.outcome # "ok" \/ checks[i][2] # "size" \/ checks[i][1]
           \/ \E j \in DOMAIN checks : j < i /\ ~checks[j][1]
           \/ \E n \in {x} : Small(h.of[n])
  <2>1. h.outcome = "ok" /\ ~checks[3][1] /\ checks[1][1] /\ checks[2][1] => \E n \in {x} : Small(h.of[n])
    BY <1>2, <1>4
  <2>2. \A i \in DOMAIN checks : i = 1 \/ i = 2 \/ i = 3
    BY <1>4
  <2>3. QED
    BY <1>4, <2>1, <2>2
<1>6. \/ h.outcome = "ok" /\ (\A i \in DOMAIN checks : checks[i][1]) /\ g = next
      \/ Threw(h, g, {x})
  BY <1>1, <1>4, <1>5, Guarded
<1>7. QED
  BY <1>3, <1>4, <1>6 DEF g, Made

(* Relinearization keeps the third polynomial, and the size that counts it. *)
LEMMA RelinearizeWrites ==
  ASSUME NEW h, AHeap(h), NEW x \in Names,
         h.outcome = "ok" => Formed(h.of[x])
  PROVE  LET g == relinearize_inplace(h, x)
             a == h.of[x]
         IN  IF h.outcome = "ok" /\ (a.relin /\ a.size = 3 /\ ~a.ntt)
             THEN Wrote(h, g, x) /\ Made(g, x, 3, FALSE, FALSE)
             ELSE Threw(h, g, {x})
<1> DEFINE a == h.of[x]
           r == relinearize_external_product_inplace(a)
           next == Put(h, x, r)
           three == a.relin
           held == HoldsParts(a, 3)
           form == ~a.ntt
           checks == << <<three, "parts">>, <<held, "size">>, <<form, "domain">> >>
           g == relinearize_inplace(h, x)
<1>1. g = Checked(h, checks, next)
  BY DEF relinearize_inplace
<1>2. h.outcome = "ok" =>
        /\ Size(a) \in 2 .. 3 /\ a.relin \in BOOLEAN /\ a.ntt \in BOOLEAN
        /\ held <=> a.size >= 3
        /\ a.size \in 2 .. 3
        /\ ~held /\ three => Small(a)
  BY FormedParts DEF Size, Small
<1>3. h.outcome = "ok" /\ three /\ held /\ form =>
        Wrote(h, next, x) /\ Made(next, x, 3, FALSE, FALSE)
  <2>1. SUFFICES ASSUME h.outcome = "ok", three, held, form
                 PROVE  Wrote(h, next, x) /\ Made(next, x, 3, FALSE, FALSE)
    OBVIOUS
  <2>2. Formed(a) /\ a.size = 3
    BY <1>2, <2>1
  <2>3. Formed(r) /\ r.size = 3 /\ r.relin = FALSE /\ r.ntt = a.ntt
    BY <2>2 DEF relinearize_external_product_inplace, Formed
  <2> HIDE DEF r
  <2>4. QED
    BY <1>2, <2>1, <2>3, PutWrites DEF Made
<1>4. /\ DOMAIN checks = 1 .. 3
      /\ checks[1][2] = "parts" /\ checks[2][2] = "size" /\ checks[3][2] = "domain"
      /\ checks[1][1] = three /\ checks[2][1] = held /\ checks[3][1] = form
  OBVIOUS
<1> HIDE DEF three, held, form, checks, next, g
<1>5. \A i \in DOMAIN checks :
        /\ checks[i][2] \in {"parts", "domain", "size", "key"}
        /\ \/ h.outcome # "ok" \/ checks[i][2] # "size" \/ checks[i][1]
           \/ \E j \in DOMAIN checks : j < i /\ ~checks[j][1]
           \/ \E n \in {x} : Small(h.of[n])
  <2>1. h.outcome = "ok" /\ ~checks[2][1] /\ checks[1][1] => \E n \in {x} : Small(h.of[n])
    BY <1>2, <1>4
  <2>2. \A i \in DOMAIN checks : i = 1 \/ i = 2 \/ i = 3
    BY <1>4
  <2>3. QED
    BY <1>4, <2>1, <2>2
<1>6. \/ h.outcome = "ok" /\ (\A i \in DOMAIN checks : checks[i][1]) /\ g = next
      \/ ~(h.outcome = "ok" /\ \A i \in DOMAIN checks : checks[i][1]) /\ Threw(h, g, {x})
  <2>1. DOMAIN checks \in SUBSET Nat
    BY <1>4
  <2>2. QED
    BY <1>1, <1>5, <2>1, Guarded
<1>7. h.outcome = "ok" => ((\A i \in DOMAIN checks : checks[i][1]) <=> (a.relin /\ a.size = 3 /\ ~a.ntt))
  <2>1. (\A i \in DOMAIN checks : checks[i][1]) <=> three /\ held /\ form
    BY <1>4
  <2>2. QED
    BY <1>2, <2>1 DEF three, held, form, Small, Size
<1>8. QED
  BY <1>3, <1>4, <1>6, <1>7 DEF g, Made

(* A product has three polynomials, and its flag and size say so.           *)
LEMMA MultiplyBfvWrites ==
  ASSUME NEW h, AHeap(h), NEW x \in Names, NEW y \in Names, NEW z \in Names,
         h.outcome = "ok" => Formed(h.of[x]) /\ Formed(h.of[y])
  PROVE  LET g == multiply_bfv(h, h.of[x], h.of[y], z)
             a == h.of[x]
         IN  \/ Threw(h, g, {x, y})
             \/ Wrote(h, g, z) /\ Made(g, z, 3, TRUE, FALSE)
<1> DEFINE a == h.of[x]
           b == h.of[y]
           parts == cross_multiplication(a.parts, b.parts)
           r == Result(a, 3, TRUE, a.ntt, Both(a.dom, b.dom), parts)
           next == Put(h, z, r)
           form == ~a.ntt /\ ~b.ntt
           held == HoldsParts(a, 2) /\ HoldsParts(b, 2)
           checks == << <<form, "domain">>, <<held, "size">> >>
           g == multiply_bfv(h, h.of[x], h.of[y], z)
<1>1. g = Checked(h, checks, next)
  BY DEF multiply_bfv
<1>2. h.outcome = "ok" =>
        /\ Size(a) \in 2 .. 3 /\ a.relin \in BOOLEAN /\ a.ntt \in BOOLEAN
        /\ held
        /\ ~held /\ form => Small(a)
  BY FormedParts DEF Size, Small
<1>3. h.outcome = "ok" /\ form /\ held =>
        Wrote(h, next, z) /\ Made(next, z, 3, TRUE, FALSE)
  <2>1. SUFFICES ASSUME h.outcome = "ok", form, held
                 PROVE  Wrote(h, next, z) /\ Made(next, z, 3, TRUE, FALSE)
    OBVIOUS
  <2>2. DOMAIN parts = 1 .. 3 /\ Len(parts) = 3
    BY <1>2, <2>1 DEF cross_multiplication
  <2> HIDE DEF parts, a
  <2>3. Formed(r) /\ r.size = 3 /\ r.relin = TRUE /\ r.ntt = FALSE
    BY <1>2, <2>1, <2>2 DEF Result, Formed
  <2> HIDE DEF r
  <2>4. QED
    BY <2>1, <2>3, PutWrites DEF Made
<1>4. /\ DOMAIN checks = 1 .. 2
      /\ checks[1][2] = "domain" /\ checks[2][2] = "size"
      /\ checks[1][1] = form /\ checks[2][1] = held
  OBVIOUS
<1> HIDE DEF form, held, checks, next, g
<1>5. \A i \in DOMAIN checks :
        /\ checks[i][2] \in {"parts", "domain", "size", "key"}
        /\ \/ h.outcome # "ok" \/ checks[i][2] # "size" \/ checks[i][1]
           \/ \E j \in DOMAIN checks : j < i /\ ~checks[j][1]
           \/ \E n \in {x, y} : Small(h.of[n])
  <2>1. h.outcome = "ok" /\ ~checks[2][1] /\ checks[1][1] => \E n \in {x, y} : Small(h.of[n])
    BY <1>2, <1>4
  <2>2. \A i \in DOMAIN checks : i = 1 \/ i = 2
    BY <1>4
  <2>3. QED
    BY <1>4, <2>1, <2>2
<1>6. \/ h.outcome = "ok" /\ (\A i \in DOMAIN checks : checks[i][1]) /\ g = next
      \/ Threw(h, g, {x, y})
  BY <1>1, <1>4, <1>5, Guarded
<1>7. QED
  BY <1>3, <1>4, <1>6 DEF g, Made

(* keyswitch writes a result of two polynomials.                            *)
LEMMA KeySwitchWrites ==
  ASSUME NEW h, AHeap(h), NEW x \in Names, NEW z \in Names,
         h.outcome = "ok" => Formed(h.of[x])
  PROVE  LET g == keyswitch(h, x, z)
             a == h.of[x]
         IN  \/ Threw(h, g, {x})
             \/ Wrote(h, g, z) /\ Made(g, z, 2, FALSE, a.ntt)
<1> DEFINE a == h.of[x]
           parts == switchkey_bfv(a)
           r == [Result(a, 2, a.relin, a.ntt, a.dom, parts) EXCEPT !.key = 2]
           next == Put(h, z, r)
           two == ~a.relin
           held == HoldsParts(a, 2)
           form == ~a.ntt
           checks == << <<two, "parts">>, <<held, "size">>, <<form, "domain">> >>
           g == keyswitch(h, x, z)
<1>1. g = Checked(h, checks, next)
  <2>1. LinearChecks(a) \o OfCoefficients(a) = checks
    BY LinearChecksIs
  <2>2. QED
    BY <2>1 DEF keyswitch
<1>2. h.outcome = "ok" =>
        /\ Size(a) \in 2 .. 3 /\ a.relin \in BOOLEAN /\ a.ntt \in BOOLEAN
        /\ ~held /\ two => Small(a)
  BY FormedParts DEF Size, Small
<1>3. h.outcome = "ok" /\ two /\ held /\ form =>
        Wrote(h, next, z) /\ Made(next, z, 2, FALSE, a.ntt)
  <2>1. SUFFICES ASSUME h.outcome = "ok", two, held, form
                 PROVE  Wrote(h, next, z) /\ Made(next, z, 2, FALSE, a.ntt)
    OBVIOUS
  <2>2. DOMAIN parts = 1 .. 2 /\ Len(parts) = 2
    BY <1>2, <2>1 DEF switchkey_bfv
  <2> HIDE DEF parts, a
  <2>3. Formed(r) /\ r.size = 2 /\ r.relin = FALSE /\ r.ntt = a.ntt
    BY <1>2, <2>1, <2>2 DEF Result, Formed
  <2> HIDE DEF r
  <2>4. QED
    BY <2>1, <2>3, PutWrites DEF Made
<1>4. /\ DOMAIN checks = 1 .. 3
      /\ checks[1][2] = "parts" /\ checks[2][2] = "size" /\ checks[3][2] = "domain"
      /\ checks[1][1] = two /\ checks[2][1] = held /\ checks[3][1] = form
  OBVIOUS
<1> HIDE DEF two, held, form, checks, next, g
<1>5. \A i \in DOMAIN checks :
        /\ checks[i][2] \in {"parts", "domain", "size", "key"}
        /\ \/ h.outcome # "ok" \/ checks[i][2] # "size" \/ checks[i][1]
           \/ \E j \in DOMAIN checks : j < i /\ ~checks[j][1]
           \/ \E n \in {x} : Small(h.of[n])
  <2>1. h.outcome = "ok" /\ ~checks[2][1] /\ checks[1][1] => \E n \in {x} : Small(h.of[n])
    BY <1>2, <1>4
  <2>2. \A i \in DOMAIN checks : i = 1 \/ i = 2 \/ i = 3
    BY <1>4
  <2>3. QED
    BY <1>4, <2>1, <2>2
<1>6. \/ h.outcome = "ok" /\ (\A i \in DOMAIN checks : checks[i][1]) /\ g = next
      \/ Threw(h, g, {x})
  BY <1>1, <1>4, <1>5, Guarded
<1>7. QED
  BY <1>3, <1>4, <1>6 DEF g, Made

-----------------------------------------------------------------------------
(* Rotations and what is made of them.                                      *)
LEMMA LinearGuard ==
  ASSUME NEW h, AHeap(h), NEW x \in Names, h.outcome = "ok" => Formed(h.of[x]), NEW next
  PROVE  LET g == Checked(h, LinearChecks(h.of[x]), next)
         IN  \/ h.outcome = "ok" /\ ~h.of[x].relin /\ g = next
             \/ Threw(h, g, {x})
<1> DEFINE a == h.of[x]
           two == ~a.relin
           held == HoldsParts(a, 2)
           checks == LinearChecks(a)
<1>1. h.outcome = "ok" => held
  BY FormedParts
<1>2. /\ DOMAIN checks = 1 .. 2
      /\ checks[1][2] = "parts" /\ checks[2][2] = "size"
      /\ checks[1][1] = two /\ checks[2][1] = held
  BY DEF LinearChecks
<1> HIDE DEF two, held, checks
<1>3. \A i \in DOMAIN checks :
        /\ checks[i][2] \in {"parts", "domain", "size", "key"}
        /\ \/ h.outcome # "ok" \/ checks[i][2] # "size" \/ checks[i][1]
           \/ \E j \in DOMAIN checks : j < i /\ ~checks[j][1]
           \/ \E n \in {x} : Small(h.of[n])
  <2>1. \A i \in DOMAIN checks : i = 1 \/ i = 2
    BY <1>2
  <2>2. QED
    BY <1>1, <1>2, <2>1
<1>4. \/ h.outcome = "ok" /\ (\A i \in DOMAIN checks : checks[i][1])
         /\ Checked(h, checks, next) = next
      \/ Threw(h, Checked(h, checks, next), {x})
  BY <1>2, <1>3, Guarded
<1>5. (\A i \in DOMAIN checks : checks[i][1]) => two
  BY <1>2
<1>6. QED
  BY <1>4, <1>5 DEF checks, two

(* What the check of the domain leaves to show.                             *)
LEMMA FormGuard ==
  ASSUME NEW h, AHeap(h), NEW x \in Names, NEW next
  PROVE  LET g == Checked(h, OfCoefficients(h.of[x]), next)
         IN  \/ h.outcome = "ok" /\ ~h.of[x].ntt /\ g = next
             \/ Threw(h, g, {x})
<1> DEFINE a == h.of[x]
           form == ~a.ntt
           checks == OfCoefficients(a)
<1>1. DOMAIN checks = 1 .. 1 /\ checks[1][2] = "domain" /\ checks[1][1] = form
  BY DEF OfCoefficients
<1> HIDE DEF form, checks
<1>2. \A i \in DOMAIN checks :
        /\ checks[i][2] \in {"parts", "domain", "size", "key"}
        /\ \/ h.outcome # "ok" \/ checks[i][2] # "size" \/ checks[i][1]
           \/ \E j \in DOMAIN checks : j < i /\ ~checks[j][1]
           \/ \E n \in {x} : Small(h.of[n])
  BY <1>1
<1>3. \/ h.outcome = "ok" /\ (\A i \in DOMAIN checks : checks[i][1])
         /\ Checked(h, checks, next) = next
      \/ Threw(h, Checked(h, checks, next), {x})
  BY <1>1, <1>2, Guarded
<1>4. (\A i \in DOMAIN checks : checks[i][1]) => form
  BY <1>1
<1>5. QED
  BY <1>3, <1>4 DEF checks, form

(* What the checks of apply_galois leave to show.                           *)
LEMMA LinearFormGuard ==
  ASSUME NEW h, AHeap(h), NEW x \in Names, h.outcome = "ok" => Formed(h.of[x]), NEW next
  PROVE  LET a == h.of[x]
             g == Checked(h, LinearChecks(a) \o OfCoefficients(a), next)
         IN  \/ h.outcome = "ok" /\ ~a.relin /\ ~a.ntt /\ g = next
             \/ Threw(h, g, {x})
<1> DEFINE a == h.of[x]
           two == ~a.relin
           held == HoldsParts(a, 2)
           form == ~a.ntt
           checks == << <<two, "parts">>, <<held, "size">>, <<form, "domain">> >>
<1>1. h.outcome = "ok" => held
  BY FormedParts
<1>2. /\ DOMAIN checks = 1 .. 3
      /\ checks[1][2] = "parts" /\ checks[2][2] = "size" /\ checks[3][2] = "domain"
      /\ checks[1][1] = two /\ checks[2][1] = held /\ checks[3][1] = form
  OBVIOUS
<1>3. LinearChecks(a) \o OfCoefficients(a) = checks
  BY LinearChecksIs
<1> HIDE DEF two, held, form, checks
<1>4. \A i \in DOMAIN checks :
        /\ checks[i][2] \in {"parts", "domain", "size", "key"}
        /\ \/ h.outcome # "ok" \/ checks[i][2] # "size" \/ checks[i][1]
           \/ \E j \in DOMAIN checks : j < i /\ ~checks[j][1]
           \/ \E n \in {x} : Small(h.of[n])
  <2>1. \A i \in DOMAIN checks : i = 1 \/ i = 2 \/ i = 3
    BY <1>2
  <2>2. QED
    BY <1>1, <1>2, <2>1
<1>5. \/ h.outcome = "ok" /\ (\A i \in DOMAIN checks : checks[i][1])
         /\ Checked(h, checks, next) = next
      \/ Threw(h, Checked(h, checks, next), {x})
  BY <1>2, <1>4, Guarded
<1>6. (\A i \in DOMAIN checks : checks[i][1]) => two /\ form
  BY <1>2
<1>7. QED
  BY <1>3, <1>5, <1>6 DEF two, form

(* A rotation replaces the polynomials of its result and keeps its fields.  *)
Fields(c) == DOMAIN c = {"made", "size", "relin", "ntt", "dom", "key", "parts"}
Painted(h, g, z) ==
  /\ Wrote(h, g, z) /\ Fields(g.of[z])
  /\ DOMAIN g.of[z].parts = 1 .. 2 /\ Len(g.of[z].parts) = 2
  /\ g.of[z].size = h.of[z].size /\ g.of[z].relin = h.of[z].relin
  /\ g.of[z].ntt = h.of[z].ntt

(* Permuted polynomials are two, and no field changes with them.            *)
LEMMA PermutedPaints ==
  ASSUME NEW h, AHeap(h), h.outcome = "ok", NEW z \in Names, Fields(h.of[z]),
         NEW a, NEW digits, NEW elt
  PROVE  Painted(h, [h EXCEPT !.of[z].parts = Permuted(a, digits, elt),
                              !.of[z].dom = a.dom], z)
<1> DEFINE parts == Permuted(a, digits, elt)
           g == [h EXCEPT !.of[z].parts = parts, !.of[z].dom = a.dom]
<1>1. DOMAIN parts = 1 .. 2 /\ Len(parts) = 2
  BY DEF Permuted
<1> HIDE DEF parts
<1>2. Wrote(h, g, z) /\ Fields(g.of[z]) /\ g.of[z].parts = parts
      /\ g.of[z].size = h.of[z].size /\ g.of[z].relin = h.of[z].relin
      /\ g.of[z].ntt = h.of[z].ntt
  BY DEF AHeap, Wrote, Fields
<1> HIDE DEF g
<1>3. Painted(h, g, z)
  BY <1>1, <1>2 DEF Painted
<1>4. QED
  BY <1>3 DEF g, parts

(* So they are written by a rotation whose key is known.                    *)
LEMMA GaloisPaints ==
  ASSUME NEW h, AHeap(h), h.outcome = "ok", NEW z \in Names, Fields(h.of[z]),
         NEW a, NEW digits, NEW elt
  PROVE  Painted(h, apply_galois_decomposed(h, a, digits, z, elt, TRUE), z)
<1> DEFINE checks == << <<TRUE, "key">> >>
           next == [h EXCEPT !.of[z].parts = Permuted(a, digits, elt), !.of[z].dom = a.dom]
<1>1. DOMAIN checks = 1 .. 1 /\ checks[1][1]
  OBVIOUS
<1>2. apply_galois_decomposed(h, a, digits, z, elt, TRUE) = Checked(h, checks, next)
  BY DEF apply_galois_decomposed
<1>3. Painted(h, next, z)
  BY PermutedPaints
<1> HIDE DEF checks, next
<1>4. Checked(h, checks, next) = next
  BY <1>1, CheckedIs
<1>5. QED
  BY <1>2, <1>3, <1>4

(* A Galois automorphism needs its key.                                     *)
LEMMA ApplyGaloisBfv ==
  ASSUME NEW h, AHeap(h), h.outcome = "ok", NEW x \in Names, NEW z \in Names,
         Fields(h.of[z]), NEW elt
  PROVE  LET g == apply_galois_bfv(h, x, z, elt)
         IN  IF HasKey(elt) THEN Painted(h, g, z) ELSE Threw(h, g, {})
<1> DEFINE known == HasKey(elt)
           a == h.of[x]
           checks == << <<known, "key">> >>
           next == [h EXCEPT !.of[z].parts = Permuted(a, decompose_for_galois(a), elt),
                             !.of[z].dom = a.dom]
<1>1. DOMAIN checks = 1 .. 1 /\ checks[1][1] = known /\ checks[1][2] = "key"
  OBVIOUS
<1>2. apply_galois_bfv(h, x, z, elt) = Checked(h, checks, next)
  BY DEF apply_galois_bfv, apply_galois_decomposed
<1>3. Painted(h, next, z)
  BY PermutedPaints
<1> HIDE DEF known, checks, next
<1>4. \A i \in DOMAIN checks :
        /\ checks[i][2] \in {"parts", "domain", "size", "key"}
        /\ \/ h.outcome # "ok" \/ checks[i][2] # "size" \/ checks[i][1]
           \/ \E j \in DOMAIN checks : j < i /\ ~checks[j][1]
           \/ \E n \in {} : Small(h.of[n])
  BY <1>1
<1>5. \/ (\A i \in DOMAIN checks : checks[i][1]) /\ Checked(h, checks, next) = next
      \/ /\ ~\A i \in DOMAIN checks : checks[i][1]
         /\ Threw(h, Checked(h, checks, next), {})
  <2>1. DOMAIN checks \in SUBSET Nat
    BY <1>1
  <2>2. QED
    BY <1>4, <2>1, Guarded
<1>6. (\A i \in DOMAIN checks : checks[i][1]) <=> known
  BY <1>1
<1>7. QED
  BY <1>2, <1>3, <1>5, <1>6 DEF known

-----------------------------------------------------------------------------
(* The powers of two, and the steps a rotation is composed of.              *)
LEMMA TwoToIs ==
  /\ TwoTo = [i \in 0 .. RowSize |-> IF i = 0 THEN 1 ELSE 2 * TwoTo[i - 1]]
  /\ \A i \in 0 .. RowSize : TwoTo[i] \in Nat /\ TwoTo[i] > i
<1> DEFINE Eqn(m, g) == g = [i \in 0 .. m |-> IF i = 0 THEN 1 ELSE 2 * g[i - 1]]
           S == {m \in Nat : \E g : Eqn(m, g)}
<1>1. 0 \in S
  <2> DEFINE g == [i \in 0 .. 0 |-> 1]
  <2>1. Eqn(0, g)
    OBVIOUS
  <2>2. QED
    BY <2>1
<1>2. ASSUME NEW m \in Nat, m \in S PROVE m + 1 \in S
  <2>1. PICK g : Eqn(m, g)
    BY <1>2
  <2> DEFINE d == [i \in 0 .. m + 1 |-> IF i <= m THEN g[i] ELSE 2 * g[m]]
  <2>2. d = [i \in 0 .. m + 1 |-> IF i = 0 THEN 1 ELSE 2 * d[i - 1]]
    <3>1. ASSUME NEW i \in 0 .. m + 1 PROVE d[i] = IF i = 0 THEN 1 ELSE 2 * d[i - 1]
      <4>1. CASE i <= m
        BY <2>1, <4>1
      <4>2. CASE i = m + 1
        BY <4>2
      <4>3. QED
        BY <4>1, <4>2
    <3>2. d = [i \in 0 .. m + 1 |-> d[i]]
      OBVIOUS
    <3> HIDE DEF d
    <3>3. QED
      BY <3>1, <3>2
  <2> HIDE DEF d
  <2>3. \E e : Eqn(m + 1, e)
    BY <2>2
  <2> HIDE DEF Eqn
  <2>4. QED
    BY <2>3
<1> HIDE DEF S
<1>3. RowSize \in S
  BY <1>1, <1>2, Induction, ParametersOK
<1>4. PICK g : Eqn(RowSize, g)
  BY <1>3 DEF S
<1>5. TwoTo = [i \in 0 .. RowSize |-> IF i = 0 THEN 1 ELSE 2 * TwoTo[i - 1]]
  BY <1>4 DEF TwoTo
<1> DEFINE I == {i \in Nat : i <= RowSize => TwoTo[i] \in Nat /\ TwoTo[i] > i}
<1>6. 0 \in I
  BY <1>5, ParametersOK
<1>7. ASSUME NEW i \in Nat, i \in I PROVE i + 1 \in I
  BY <1>5, <1>7, ParametersOK
<1> HIDE DEF I
<1>8. Nat \subseteq I
  BY <1>6, <1>7, Induction
<1>9. \A i \in 0 .. RowSize : TwoTo[i] \in Nat /\ TwoTo[i] > i
  BY <1>8, ParametersOK DEF I
<1>10. QED
  BY <1>5, <1>9

(* The largest power of two in a step is part of it.                        *)
LEMMA LargestPowerIs ==
  ASSUME NEW k \in 1 .. RowSize - 1
  PROVE  LargestPower(k) \in 1 .. k
<1> DEFINE B == {j \in 0 .. RowSize : k < TwoTo[j]}
<1>1. RowSize \in B
  BY TwoToIs, ParametersOK
<1>2. B \in SUBSET Nat
  OBVIOUS
<1>3. PICK j \in B : \A l \in B : j <= l
  <2> HIDE DEF B
  <2>1. QED
    BY <1>1, <1>2, Smallest
<1>4. j # 0
  BY TwoToIs, ParametersOK
<1>5. j - 1 \in 0 .. RowSize - 1 /\ TwoTo[j - 1] <= k /\ k < TwoTo[(j - 1) + 1]
  <2>1. j - 1 \in 0 .. RowSize - 1 /\ j - 1 \notin B /\ (j - 1) + 1 = j
    BY <1>3, <1>4, ParametersOK
  <2>2. TwoTo[j - 1] \in Nat
    BY <2>1, TwoToIs, ParametersOK
  <2>3. QED
    BY <2>1, <2>2, ParametersOK
<1>6. \E i \in 0 .. RowSize - 1 : TwoTo[i] <= k /\ k < TwoTo[i + 1]
  BY <1>5
<1> DEFINE i == CHOOSE i \in 0 .. RowSize - 1 : TwoTo[i] <= k /\ k < TwoTo[i + 1]
<1>7. i \in 0 .. RowSize - 1 /\ TwoTo[i] <= k
  BY <1>6
<1> HIDE DEF i
<1>8. TwoTo[i] \in 1 .. k
  <2>1. i \in Nat /\ i \in 0 .. RowSize
    BY <1>7, ParametersOK
  <2>2. TwoTo[i] \in Nat /\ TwoTo[i] > i
    BY <2>1, TwoToIs
  <2>3. QED
    BY <1>7, <2>1, <2>2
<1>9. QED
  BY <1>8 DEF LargestPower, i

(* The powers a step is made of are a sequence, which the recursion         *)
(* reaches.                                                                 *)
LEMMA PowersOfIs ==
  ASSUME NEW k \in 0 .. RowSize - 1
  PROVE  PowersOf[k] \in Seq(Int) /\ (k # 0 => PowersOf[k] # <<>>)
<1> DEFINE Eqn(m, g) ==
             g = [j \in 0 .. m |-> IF j = 0 THEN <<>>
                                   ELSE <<LargestPower(j)>> \o g[j - LargestPower(j)]]
           S == {m \in Nat : m < RowSize => \E g : Eqn(m, g)}
<1>1. 0 \in S
  <2> DEFINE g == [j \in 0 .. 0 |-> <<>>]
  <2>1. Eqn(0, g)
    OBVIOUS
  <2>2. QED
    BY <2>1
<1>2. ASSUME NEW m \in Nat, m \in S PROVE m + 1 \in S
  <2>1. SUFFICES ASSUME m + 1 < RowSize PROVE \E g : Eqn(m + 1, g)
    OBVIOUS
  <2>2. PICK g : Eqn(m, g)
    BY <1>2, <2>1, ParametersOK
  <2> DEFINE next == <<LargestPower(m + 1)>> \o g[m + 1 - LargestPower(m + 1)]
             d == [j \in 0 .. m + 1 |-> IF j <= m THEN g[j] ELSE next]
  <2>3. \A j \in 1 .. m + 1 : LargestPower(j) \in 1 .. j
    BY <2>1, LargestPowerIs, ParametersOK
  <2>4. ASSUME NEW j \in 0 .. m + 1
        PROVE  d[j] = IF j = 0 THEN <<>> ELSE <<LargestPower(j)>> \o d[j - LargestPower(j)]
    <3>1. CASE j = 0
      BY <2>2, <3>1
    <3>2. CASE j # 0 /\ j <= m
      <4>1. LargestPower(j) \in 1 .. j
        BY <2>3, <3>2
      <4>2. j - LargestPower(j) \in 0 .. m
        BY <3>2, <4>1
      <4>3. d[j] = g[j] /\ d[j - LargestPower(j)] = g[j - LargestPower(j)]
        BY <3>2, <4>2
      <4>4. g[j] = <<LargestPower(j)>> \o g[j - LargestPower(j)]
        <5>1. j \in 0 .. m /\ j # 0
          BY <3>2
        <5> HIDE DEF d, next
        <5>2. QED
          BY <2>2, <5>1
      <4>5. QED
        BY <3>2, <4>3, <4>4
    <3>3. CASE j = m + 1
      <4> DEFINE l == LargestPower(m + 1)
      <4>1. l \in 1 .. m + 1
        BY <2>3
      <4>2. m + 1 - l \in 0 .. m
        BY <4>1
      <4> HIDE DEF l
      <4>3. d[m + 1] = <<l>> \o g[m + 1 - l] /\ d[m + 1 - l] = g[m + 1 - l]
        BY <4>2 DEF l
      <4> HIDE DEF d
      <4>4. d[m + 1] = <<l>> \o d[m + 1 - l]
        BY <4>3
      <4>5. QED
        BY <3>3, <4>1, <4>4 DEF l
    <3>4. QED
      BY <3>1, <3>2, <3>3
  <2>5. d = [j \in 0 .. m + 1 |-> d[j]]
    OBVIOUS
  <2> HIDE DEF d
  <2>6. Eqn(m + 1, d)
    BY <2>4, <2>5
  <2>7. QED
    BY <2>6
<1> HIDE DEF S
<1>3. RowSize - 1 \in S
  BY <1>1, <1>2, Induction, ParametersOK
<1>4. PICK g : Eqn(RowSize - 1, g)
  BY <1>3, ParametersOK DEF S
<1>5. PowersOf = [j \in 0 .. RowSize - 1 |-> IF j = 0 THEN <<>>
                     ELSE <<LargestPower(j)>> \o PowersOf[j - LargestPower(j)]]
  BY <1>4 DEF PowersOf
<1>0. \A j \in 0 .. RowSize - 1 :
        j # 0 => PowersOf[j] = <<LargestPower(j)>> \o PowersOf[j - LargestPower(j)]
  BY <1>5
<1> DEFINE I == {m \in Nat : \A j \in 0 .. m : j < RowSize => PowersOf[j] \in Seq(Int)}
<1>6. 0 \in I
  BY <1>5, ParametersOK
<1>7. ASSUME NEW m \in Nat, m \in I PROVE m + 1 \in I
  <2>1. SUFFICES ASSUME NEW q \in 1 .. RowSize - 1, q = m + 1
                 PROVE  PowersOf[q] \in Seq(Int)
    BY <1>7, ParametersOK
  <2>2. LargestPower(q) \in 1 .. q
    BY LargestPowerIs
  <2>3. PowersOf[q - LargestPower(q)] \in Seq(Int)
    BY <1>7, <2>1, <2>2, ParametersOK
  <2>4. <<LargestPower(q)>> \in Seq(Int)
    BY <2>2
  <2>5. PowersOf[q] = <<LargestPower(q)>> \o PowersOf[q - LargestPower(q)]
    BY <1>0, ParametersOK
  <2>6. QED
    BY <2>3, <2>4, <2>5
<1> HIDE DEF I
<1>8. Nat \subseteq I
  BY <1>6, <1>7, Induction
<1>9. \A j \in 0 .. RowSize - 1 : PowersOf[j] \in Seq(Int)
  BY <1>8, ParametersOK DEF I
<1>10. ASSUME k # 0 PROVE PowersOf[k] # <<>>
  <2>1. LargestPower(k) \in 1 .. k
    BY <1>10, LargestPowerIs, ParametersOK
  <2>2. PowersOf[k - LargestPower(k)] \in Seq(Int) /\ <<LargestPower(k)>> \in Seq(Int)
    BY <1>9, <2>1, ParametersOK
  <2>3. PowersOf[k] = <<LargestPower(k)>> \o PowersOf[k - LargestPower(k)]
    BY <1>5, <1>10
  <2>4. QED
    BY <2>2, <2>3
<1>11. QED
  BY <1>9, <1>10

(* A step other than 0 is made of at least one power.                       *)
LEMMA SignedPowersAre ==
  ASSUME NEW k \in -(RowSize - 1) .. RowSize - 1, k # 0
  PROVE  \E n \in Nat \ {0} : DOMAIN SignedPowersOf(k) = 1 .. n /\ Len(SignedPowersOf(k)) = n
<1>1. CASE k < 0
  <2>1. PowersOf[-k] \in Seq(Int) /\ PowersOf[-k] # <<>>
    BY <1>1, PowersOfIs, ParametersOK
  <2>2. PICK n \in Nat \ {0} : DOMAIN PowersOf[-k] = 1 .. n
    BY <2>1
  <2>3. SignedPowersOf(k) = [i \in 1 .. n |-> -PowersOf[-k][i]]
    BY <1>1, <2>2 DEF SignedPowersOf
  <2>4. QED
    BY <2>3
<1>2. CASE k > 0
  <2>1. PowersOf[k] \in Seq(Int) /\ PowersOf[k] # <<>>
    BY <1>2, PowersOfIs, ParametersOK
  <2>2. SignedPowersOf(k) = PowersOf[k]
    BY <1>2, ParametersOK DEF SignedPowersOf
  <2>3. QED
    BY <2>1, <2>2
<1>3. QED
  BY <1>1, <1>2, ParametersOK

(* A rotation, in one step or in several, writes two polynomials or throws  *)
(* before it writes.                                                        *)
LEMMA RotateBfv ==
  ASSUME NEW h, AHeap(h), h.outcome = "ok", NEW x \in Names, NEW z \in Names,
         Fields(h.of[z]), NEW k \in -(RowSize - 1) .. RowSize - 1, k # 0
  PROVE  LET g == rotate_bfv(h, x, z, k)
         IN  Painted(h, g, z) \/ Threw(h, g, {})
<1> DEFINE powers == SignedPowersOf(k)
           After(i, g) == apply_galois_bfv(g, IF i = 1 THEN x ELSE z, z,
                                           steps_to_galois_elt(powers[i]))
           Chain == CHOOSE c : c = [i \in 0 .. Len(powers) |->
                      IF i = 0 THEN h
                      ELSE apply_galois_bfv(c[i - 1], IF i = 1 THEN x ELSE z, z,
                                            steps_to_galois_elt(powers[i]))]
           known == \A i \in DOMAIN powers : powers[i] \in KeySteps
           checks == << <<known, "key">> >>
           composed == Checked(h, checks, Chain[Len(powers)])
<1>1. rotate_bfv(h, x, z, k) =
        IF HasKey(steps_to_galois_elt(k))
        THEN apply_galois_bfv(h, x, z, steps_to_galois_elt(k)) ELSE composed
  BY DEF rotate_bfv
<1>2. PICK n \in Nat \ {0} : DOMAIN powers = 1 .. n /\ Len(powers) = n
  BY SignedPowersAre
<1> HIDE DEF powers
<1>3. \A i \in 0 .. n : Chain[i] = IF i = 0 THEN h ELSE After(i, Chain[i - 1])
  <2> DEFINE Eqn(m, c) == c = [i \in 0 .. m |-> IF i = 0 THEN h ELSE After(i, c[i - 1])]
             S == {m \in Nat : \E c : Eqn(m, c)}
  <2> HIDE DEF Chain
  <2>1. 0 \in S
    <3> DEFINE c == [i \in 0 .. 0 |-> h]
    <3>1. Eqn(0, c)
      OBVIOUS
    <3>2. QED
      BY <3>1
  <2>2. ASSUME NEW m \in Nat, m \in S PROVE m + 1 \in S
    <3>1. PICK c : Eqn(m, c)
      BY <2>2
    <3> DEFINE d == [i \in 0 .. m + 1 |-> IF i <= m THEN c[i] ELSE After(m + 1, c[m])]
    <3>2. ASSUME NEW i \in 0 .. m + 1
          PROVE  d[i] = IF i = 0 THEN h ELSE After(i, d[i - 1])
      <4> HIDE DEF After
      <4>1. CASE i <= m
        BY <3>1, <4>1
      <4>2. CASE i = m + 1
        BY <4>2
      <4>3. QED
        BY <4>1, <4>2
    <3>3. d = [i \in 0 .. m + 1 |-> d[i]]
      OBVIOUS
    <3> HIDE DEF d, After
    <3>4. Eqn(m + 1, d)
      BY <3>2, <3>3
    <3>5. QED
      BY <3>4
  <2> HIDE DEF S, After
  <2>3. n \in S
    BY <2>1, <2>2, Induction
  <2>4. PICK c : Eqn(n, c)
    BY <2>3 DEF S
  <2>5. Chain = [i \in 0 .. n |-> IF i = 0 THEN h ELSE After(i, Chain[i - 1])]
    BY <1>2, <2>4 DEF Chain, After
  <2>6. QED
    BY <2>5
<1> HIDE DEF Chain
<1>4. ASSUME known PROVE Painted(h, Chain[n], z)
  <2> DEFINE I == {i \in Nat : i + 1 <= n => Painted(h, Chain[i + 1], z)}
  <2>1. \A i \in 1 .. n : HasKey(steps_to_galois_elt(powers[i]))
    BY <1>2, <1>4 DEF HasKey
  <2>2. 0 \in I
    <3>1. Chain[1] = After(1, h)
      BY <1>2, <1>3
    <3>2. QED
      BY <1>2, <2>1, <3>1, ApplyGaloisBfv
  <2>3. ASSUME NEW i \in Nat, i \in I PROVE i + 1 \in I
    <3>1. SUFFICES ASSUME NEW j \in 1 .. n, j = i + 2, j - 1 \in 1 .. n, j # 1
                   PROVE  Painted(h, Chain[j], z)
      BY <1>2
    <3>2. Painted(h, Chain[j - 1], z)
      BY <2>3, <3>1
    <3>3. Chain[j] = After(j, Chain[j - 1])
      BY <1>3, <3>1
    <3> DEFINE g == Chain[j - 1]
    <3>4. AHeap(g) /\ g.outcome = "ok" /\ Fields(g.of[z])
      BY <3>2 DEF Painted, Wrote
    <3>5. Painted(g, Chain[j], z)
      BY <2>1, <3>1, <3>3, <3>4, ApplyGaloisBfv
    <3>6. QED
      BY <3>2, <3>5 DEF Painted, Wrote
  <2> HIDE DEF I
  <2>4. n - 1 \in I
    BY <1>2, <2>2, <2>3, Induction
  <2>5. QED
    BY <1>2, <2>4 DEF I
<1>5. Painted(h, composed, z) \/ Threw(h, composed, {})
  <2>1. DOMAIN checks = 1 .. 1 /\ checks[1][1] = known /\ checks[1][2] = "key"
    OBVIOUS
  <2> DEFINE next == Chain[Len(powers)]
  <2> HIDE DEF known, checks, next
  <2>2. \A i \in DOMAIN checks :
          /\ checks[i][2] \in {"parts", "domain", "size", "key"}
          /\ \/ h.outcome # "ok" \/ checks[i][2] # "size" \/ checks[i][1]
             \/ \E j \in DOMAIN checks : j < i /\ ~checks[j][1]
             \/ \E m \in {} : Small(h.of[m])
    BY <2>1
  <2>3. \/ (\A i \in DOMAIN checks : checks[i][1]) /\ Checked(h, checks, next) = next
        \/ Threw(h, Checked(h, checks, next), {})
    BY <2>1, <2>2, Guarded
  <2>4. (\A i \in DOMAIN checks : checks[i][1]) => known
    BY <2>1
  <2>5. QED
    BY <1>2, <1>4, <2>3, <2>4 DEF next
<1> HIDE DEF composed
<1>6. QED
  BY <1>1, <1>5, ApplyGaloisBfv

(* A result that can be an operand.                                         *)
Good(g, z) == Formed(g.of[z]) /\ ~Small(g.of[z])

(* More operands may be blamed.                                             *)
LEMMA ThrewFor ==
  ASSUME NEW h, NEW g, NEW R, NEW S, R \subseteq S, Threw(h, g, R)
  PROVE  Threw(h, g, S)
  BY DEF Threw

(* The caller of a rotation sets the fields, once it has written.           *)
LEMMA DescribedWrites ==
  ASSUME NEW h, AHeap(h), h.outcome = "ok", NEW z \in Names,
         NEW a, Formed(a), ~a.relin, NEW g, NEW S, Painted(h, g, z) \/ Threw(h, g, {})
  PROVE  LET d == Described(g, a, z)
         IN  \/ Wrote(h, d, z) /\ Good(d, z)
             \/ Threw(h, d, S)
<1>1. CASE Threw(h, g, {})
  <2>1. Described(g, a, z) = g
    BY <1>1 DEF Described, Threw
  <2>2. QED
    BY <1>1, <2>1, ThrewFor
<1>2. CASE Painted(h, g, z)
  <2> DEFINE r == Result(a, 2, a.relin, a.ntt, g.of[z].dom, g.of[z].parts)
  <2>1. Described(g, a, z) = Put(g, z, r) /\ AHeap(g) /\ g.outcome = "ok"
    BY <1>2 DEF Described, Painted, Wrote
  <2>2. Formed(r) /\ ~Small(r)
    BY <1>2 DEF Painted, Result, Formed, Small
  <2> HIDE DEF r
  <2>3. Wrote(g, Put(g, z, r), z) /\ Put(g, z, r).of[z] = r
    BY <2>1, PutWrites
  <2>4. QED
    BY <1>2, <2>1, <2>2, <2>3 DEF Painted, Wrote, Good
<1>3. QED
  BY <1>1, <1>2

(* A reduced step is shorter than a row.                                    *)
LEMMA ReducedIs ==
  ASSUME NEW k \in Int
  PROVE  Reduced(k) \in -(RowSize - 1) .. RowSize - 1
<1>1. \A i \in Int : i % RowSize \in 0 .. RowSize - 1
  BY ParametersOK
<1>2. QED
  BY <1>1, ParametersOK DEF Reduced

(* rotate_rows leaves a good result.                                        *)
LEMMA RotateRowsWrites ==
  ASSUME NEW h, AHeap(h), NEW x \in Names, NEW z \in Names, NEW k \in Int,
         h.outcome = "ok" => Formed(h.of[x]) /\ Formed(h.of[z])
  PROVE  LET g == rotate_rows(h, x, z, k)
         IN  \/ Wrote(h, g, z) /\ Good(g, z)
             \/ Threw(h, g, {x})
<1> DEFINE a == h.of[x]
           rotated == Described(rotate_bfv(h, x, z, Reduced(k)), a, z)
           formed == Checked(h, OfCoefficients(a), rotated)
           next == IF Reduced(k) = 0 THEN Put(h, z, a) ELSE formed
           g == rotate_rows(h, x, z, k)
<1>1. g = Checked(h, LinearChecks(a), next)
  BY DEF rotate_rows
<1>2. \/ h.outcome = "ok" /\ ~a.relin /\ g = next
      \/ Threw(h, g, {x})
  <2> HIDE DEF next
  <2>1. QED
    BY <1>1, LinearGuard
<1>3. ASSUME h.outcome = "ok", ~a.relin
      PROVE  \/ Wrote(h, next, z) /\ Good(next, z)
             \/ Threw(h, next, {x})
  <2>1. CASE Reduced(k) = 0
    <3>1. Wrote(h, Put(h, z, a), z) /\ Put(h, z, a).of[z] = a
      BY <1>3, PutWrites
    <3>2. Formed(a) /\ ~Small(a)
      BY <1>3 DEF Small
    <3>3. QED
      BY <2>1, <3>1, <3>2 DEF Good
  <2>2. CASE Reduced(k) # 0
    <3>1. Fields(h.of[z]) /\ Formed(a)
      BY <1>3 DEF Fields, Formed
    <3> DEFINE b == rotate_bfv(h, x, z, Reduced(k))
    <3>2. Painted(h, b, z) \/ Threw(h, b, {})
      BY <1>3, <2>2, <3>1, ReducedIs, RotateBfv
    <3> HIDE DEF b
    <3>3. \/ Wrote(h, Described(b, a, z), z) /\ Good(Described(b, a, z), z)
          \/ Threw(h, Described(b, a, z), {x})
      BY <1>3, <3>1, <3>2, DescribedWrites
    <3>4. formed = rotated \/ Threw(h, formed, {x})
      BY FormGuard
    <3>5. QED
      BY <2>2, <3>3, <3>4 DEF b
  <2>3. QED
    BY <2>1, <2>2
<1> HIDE DEF next, g
<1>4. QED
  BY <1>2, <1>3 DEF g

(* rotate_columns leaves a good result.                                     *)
LEMMA RotateColumnsWrites ==
  ASSUME NEW h, AHeap(h), NEW x \in Names, NEW z \in Names,
         h.outcome = "ok" => Formed(h.of[x]) /\ Formed(h.of[z])
  PROVE  LET g == rotate_columns(h, x, z)
         IN  \/ Wrote(h, g, z) /\ Good(g, z)
             \/ Threw(h, g, {x})
<1> DEFINE a == h.of[x]
           b == rotate_columns_bfv(h, x, z)
           next == Described(b, a, z)
           g == rotate_columns(h, x, z)
<1>1. g = Checked(h, LinearChecks(a), next)
  BY DEF rotate_columns
<1>2. ASSUME h.outcome = "ok", ~a.relin
      PROVE  \/ Wrote(h, next, z) /\ Good(next, z)
             \/ Threw(h, next, {x})
  <2>1. Fields(h.of[z]) /\ Formed(a)
    BY <1>2 DEF Fields, Formed
  <2>2. Painted(h, b, z)
    BY <1>2, <2>1, GaloisPaints DEF rotate_columns_bfv
  <2> HIDE DEF b
  <2>3. QED
    BY <1>2, <2>1, <2>2, DescribedWrites
<1> HIDE DEF next, g
<1>3. \/ h.outcome = "ok" /\ ~a.relin /\ g = next
      \/ Threw(h, g, {x})
  BY <1>1, LinearGuard
<1>4. QED
  BY <1>2, <1>3 DEF g

(* apply_galois leaves a good result.                                       *)
LEMMA ApplyGaloisWrites ==
  ASSUME NEW h, AHeap(h), NEW x \in Names, NEW z \in Names, NEW elt,
         h.outcome = "ok" => Formed(h.of[x]) /\ Formed(h.of[z])
  PROVE  LET g == apply_galois(h, x, z, elt)
         IN  \/ Wrote(h, g, z) /\ Good(g, z)
             \/ Threw(h, g, {x})
<1> DEFINE a == h.of[x]
           b == apply_galois_bfv(h, x, z, elt)
           next == Described(b, a, z)
           g == apply_galois(h, x, z, elt)
<1>1. g = Checked(h, LinearChecks(a) \o OfCoefficients(a), next)
  BY DEF apply_galois
<1>2. ASSUME h.outcome = "ok", ~a.relin
      PROVE  \/ Wrote(h, next, z) /\ Good(next, z)
             \/ Threw(h, next, {x})
  <2>1. Fields(h.of[z]) /\ Formed(a)
    BY <1>2 DEF Fields, Formed
  <2>2. Painted(h, b, z) \/ Threw(h, b, {})
    BY <1>2, <2>1, ApplyGaloisBfv
  <2> HIDE DEF b
  <2>3. QED
    BY <1>2, <2>1, <2>2, DescribedWrites
<1> HIDE DEF next, g
<1>3. \/ h.outcome = "ok" /\ ~a.relin /\ g = next
      \/ Threw(h, g, {x})
  BY <1>1, LinearFormGuard
<1>4. QED
  BY <1>2, <1>3 DEF g

-----------------------------------------------------------------------------
(* Calls made of others: an inner call may have written before another      *)
(* throws, but never a ciphertext of the program.                           *)
Worked(h, g, z, operands) ==
  /\ AHeap(g)
  /\ \/ /\ h.outcome = "ok" /\ g.outcome = "ok" /\ Good(g, z)
        /\ \A n \in Ciphertexts \ {z} : g.of[n] = h.of[n]
     \/ /\ g.outcome # "ok" /\ \A n \in Ciphertexts : g.of[n] = h.of[n]
        /\ h.outcome # "ok" => g.outcome = h.outcome
        /\ h.outcome = "ok" /\ g.outcome = "size" => \E n \in operands : Small(h.of[n])

(* The inner objects are none of the program.                               *)
LEMMA InnerNames ==
  /\ Ciphertexts \subseteq Names /\ Inner \subseteq Names
  /\ {"inner1", "inner2", "product", "result", "rotated"} \subseteq Inner
  /\ \A c \in Ciphertexts : c # "inner1" /\ c # "inner2" /\ c # "product"
                            /\ c # "result" /\ c # "rotated"
  BY ParametersOK DEF Names, Inner

(* multiply throws for the memory of its operands only.                     *)
LEMMA MultiplyWrites ==
  ASSUME NEW h, AHeap(h), NEW x \in Names, NEW y \in Names, NEW z \in Names,
         h.outcome = "ok" => Formed(h.of[x]) /\ Formed(h.of[y])
  PROVE  LET g == multiply(h, x, y, z)
         IN  \/ Threw(h, g, {x, y})
             \/ Wrote(h, g, z) /\ Made(g, z, 3, TRUE, FALSE)
<1> DEFINE two == ~h.of[x].relin /\ ~h.of[y].relin
           checks == << <<two, "parts">> >>
           next == multiply_bfv(h, h.of[x], h.of[y], z)
           g == multiply(h, x, y, z)
<1>1. g = Checked(h, checks, next)
  BY DEF multiply
<1>2. DOMAIN checks = 1 .. 1 /\ checks[1][2] = "parts"
  OBVIOUS
<1>3. \/ Threw(h, next, {x, y})
      \/ Wrote(h, next, z) /\ Made(next, z, 3, TRUE, FALSE)
  BY MultiplyBfvWrites
<1> HIDE DEF checks, next, g
<1>4. \A i \in DOMAIN checks :
        /\ checks[i][2] \in {"parts", "domain", "size", "key"}
        /\ \/ h.outcome # "ok" \/ checks[i][2] # "size" \/ checks[i][1]
           \/ \E j \in DOMAIN checks : j < i /\ ~checks[j][1]
           \/ \E n \in {x, y} : Small(h.of[n])
  BY <1>2
<1>5. g = next \/ Threw(h, g, {x, y})
  BY <1>1, <1>2, <1>4, Guarded
<1>6. QED
  BY <1>3, <1>5 DEF g, Made

(* A product that is relinearized is never small.                           *)
LEMMA ProductWrites ==
  ASSUME NEW h, AHeap(h), NEW x \in Names, NEW y \in Names, NEW z \in Names,
         h.outcome = "ok" => Formed(h.of[x]) /\ Formed(h.of[y])
  PROVE  LET g == Product(h, x, y, z)
         IN  \/ Threw(h, g, {x, y})
             \/ Wrote(h, g, z) /\ Made(g, z, 3, FALSE, FALSE)
<1> DEFINE m == multiply(h, x, y, z)
           g == relinearize_inplace(m, z)
<1>1. Product(h, x, y, z) = g
  BY DEF Product
<1>2. \/ Threw(h, m, {x, y})
      \/ Wrote(h, m, z) /\ Made(m, z, 3, TRUE, FALSE)
  BY MultiplyWrites
<1> HIDE DEF m
<1>3. CASE Threw(h, m, {x, y})
  <2>1. AHeap(m) /\ m.outcome # "ok"
    BY <1>3 DEF Threw
  <2>2. Threw(m, g, {z})
    BY <2>1, RelinearizeWrites
  <2> HIDE DEF g
  <2>3. Threw(h, g, {x, y})
    BY <1>3, <2>1, <2>2 DEF Threw
  <2>4. QED
    BY <1>1, <2>3
<1>4. CASE Wrote(h, m, z) /\ Made(m, z, 3, TRUE, FALSE)
  <2>1. AHeap(m) /\ m.outcome = "ok" /\ Formed(m.of[z])
        /\ m.of[z].relin /\ m.of[z].size = 3 /\ ~m.of[z].ntt
    BY <1>4 DEF Wrote, Made
  <2>2. Wrote(m, g, z) /\ Made(g, z, 3, FALSE, FALSE)
    BY <2>1, RelinearizeWrites
  <2> HIDE DEF g
  <2>3. Wrote(h, g, z)
    BY <1>4, <2>2 DEF Wrote
  <2>4. QED
    BY <1>1, <2>2, <2>3 DEF Made
<1>5. QED
  BY <1>2, <1>3, <1>4

(* 1 - c.                                                                   *)
LEMMA OneMinusWrites ==
  ASSUME NEW h, AHeap(h), NEW x \in Names, NEW z \in Names,
         h.outcome = "ok" => Formed(h.of[x])
  PROVE  LET g == one_minus_cipher(h, x, z)
         IN  IF h.outcome = "ok" /\ ~Small(h.of[x])
             THEN Wrote(h, g, z) /\ Good(g, z) ELSE Threw(h, g, {x})
<1> DEFINE m == negate(h, x, z)
           a == h.of[x]
           c == m.of[z]
           r == [c EXCEPT !.parts = addition_plain_bfv_poly(@, Constant(1)),
                          !.dom = Both(@, "coeff")]
           next == [m EXCEPT !.of[z].parts = addition_plain_bfv_poly(@, Constant(1)),
                             !.of[z].dom = Both(@, "coeff")]
           g == one_minus_cipher(h, x, z)
<1>1. g = IF m.outcome # "ok" THEN m ELSE next
  BY DEF one_minus_cipher
<1>2. IF h.outcome = "ok" /\ ~Small(a)
      THEN Wrote(h, m, z) /\ Made(m, z, Size(a), a.relin, a.ntt)
      ELSE Threw(h, m, {x})
  BY NegateWrites
<1> HIDE DEF m
<1>3. CASE h.outcome = "ok" /\ ~Small(a)
  <2>1. /\ Wrote(h, m, z) /\ Formed(c) /\ AHeap(m) /\ m.outcome = "ok"
        /\ c.size = Size(a) /\ c.relin = a.relin /\ a.relin \in BOOLEAN
    BY <1>2, <1>3 DEF Made, Wrote, Formed
  <2>2. DOMAIN addition_plain_bfv_poly(c.parts, Constant(1)) = 1 .. c.size
        /\ Len(addition_plain_bfv_poly(c.parts, Constant(1))) = c.size
    BY <2>1 DEF addition_plain_bfv_poly, Formed
  <2>3. Formed(r) /\ r.size = c.size /\ r.relin = c.relin
    BY <2>1, <2>2 DEF Formed
  <2>4. Wrote(m, next, z) /\ next.of[z] = r
    BY <2>1 DEF AHeap, Wrote, Formed
  <2> HIDE DEF r, next
  <2>5. ~Small(r)
    BY <2>1, <2>3 DEF Small, Size
  <2>6. Wrote(h, next, z) /\ Good(next, z)
    BY <2>1, <2>3, <2>4, <2>5 DEF Wrote, Good
  <2>7. QED
    BY <1>1, <1>3, <2>1, <2>6
<1>4. CASE ~(h.outcome = "ok" /\ ~Small(a))
  <2>1. Threw(h, m, {x}) /\ m.outcome # "ok"
    BY <1>2, <1>4 DEF Threw
  <2> HIDE DEF next
  <2>2. QED
    BY <1>1, <1>4, <2>1
<1>5. QED
  BY <1>3, <1>4

(* NOT after a call that worked works.                                      *)
LEMMA OneMinusWorks ==
  ASSUME NEW h, NEW g, NEW z \in Ciphertexts, NEW S, Worked(h, g, z, S)
  PROVE  Worked(h, one_minus_cipher_inplace(g, z), z, S)
<1> DEFINE f == one_minus_cipher(g, z, z)
<1>1. IF g.outcome = "ok" /\ ~Small(g.of[z])
      THEN Wrote(g, f, z) /\ Good(f, z) ELSE Threw(g, f, {z})
  BY OneMinusWrites, InnerNames DEF Worked, Good
<1> HIDE DEF f
<1>2. Worked(h, f, z, S)
  <2>1. CASE g.outcome = "ok"
    <3>1. Wrote(g, f, z) /\ Good(f, z)
      BY <1>1, <2>1 DEF Worked, Good
    <3>2. QED
      BY <2>1, <3>1, InnerNames DEF Worked, Wrote
  <2>2. CASE g.outcome # "ok"
    <3>1. Threw(g, f, {z})
      BY <1>1, <2>2
    <3>2. QED
      BY <2>2, <3>1 DEF Worked, Threw
  <2>3. QED
    BY <2>1, <2>2
<1>3. QED
  BY <1>2 DEF f, one_minus_cipher_inplace

(* Midway through a call that has written inner objects only.               *)
Midway(h, g, made, operands) ==
  /\ AHeap(g) /\ h.outcome = "ok" /\ \A n \in Ciphertexts : g.of[n] = h.of[n]
  /\ g.outcome = "ok" => \A n \in made : Good(g, n)
  /\ g.outcome = "size" => \E n \in operands : Small(h.of[n])

(* A longer operation goes on from an inner call that wrote.                *)
LEMMA MidwayGoesOn ==
  ASSUME NEW h, NEW g, NEW N, NEW S, Midway(h, g, N, S), NEW z \in Inner, NEW f, NEW R,
         Threw(g, f, R) \/ (Wrote(g, f, z) /\ Good(f, z)),
         g.outcome = "ok" => \A n \in R : Small(g.of[n]) => \E m \in S : Small(h.of[m]),
         N \subseteq Names
  PROVE  Midway(h, f, N \cup {z}, S)
<1>1. CASE Threw(g, f, R)
  BY <1>1 DEF Midway, Threw
<1>2. CASE Wrote(g, f, z) /\ Good(f, z)
  BY <1>2, InnerNames, ParametersOK DEF Midway, Wrote, Good
<1>3. QED
  BY <1>1, <1>2

(* And ends with the call that writes its result.                           *)
LEMMA MidwayEnds ==
  ASSUME NEW h, NEW g, NEW N, NEW S, Midway(h, g, N, S), NEW z, NEW f, NEW R,
         Threw(g, f, R) \/ (Wrote(g, f, z) /\ Good(f, z)),
         g.outcome = "ok" => \A n \in R : Small(g.of[n]) => \E m \in S : Small(h.of[m])
  PROVE  Worked(h, f, z, S)
<1>1. CASE Threw(g, f, R)
  BY <1>1 DEF Midway, Threw, Worked
<1>2. CASE Wrote(g, f, z) /\ Good(f, z)
  BY <1>2, InnerNames DEF Midway, Wrote, Worked
<1>3. QED
  BY <1>1, <1>2

(* A ciphertext made like a good one is good.                               *)
LEMMA MadeIsGood ==
  ASSUME NEW g, NEW z, NEW a, NEW ntt, Made(g, z, Size(a), a.relin, ntt)
  PROVE  Good(g, z)
  BY DEF Made, Good, Small, Size

(* Two polynomials without the flag of three are good.                      *)
LEMMA TwoIsGood ==
  ASSUME NEW g, NEW z, NEW size, NEW ntt, Made(g, z, size, FALSE, ntt)
  PROVE  Good(g, z)
  BY DEF Made, Good, Small

(* A sum of good ciphertexts is good.                                       *)
LEMMA AddIsGood ==
  ASSUME NEW h, AHeap(h), NEW x \in Names, NEW y \in Names, NEW z \in Names,
         h.outcome = "ok" => Formed(h.of[x]) /\ Formed(h.of[y])
  PROVE  /\ \/ Threw(h, add(h, x, y, z), {x, y})
            \/ Wrote(h, add(h, x, y, z), z) /\ Good(add(h, x, y, z), z)
         /\ \/ Threw(h, sub(h, x, y, z), {x, y})
            \/ Wrote(h, sub(h, x, y, z), z) /\ Good(sub(h, x, y, z), z)
<1>1. \/ Threw(h, add(h, x, y, z), {x, y})
      \/ Wrote(h, add(h, x, y, z), z) /\ Good(add(h, x, y, z), z)
  BY AddWrites, MadeIsGood
<1>2. \/ Threw(h, sub(h, x, y, z), {x, y})
      \/ Wrote(h, sub(h, x, y, z), z) /\ Good(sub(h, x, y, z), z)
  BY SubWrites, MadeIsGood
<1>3. QED
  BY <1>1, <1>2

(* The logic operators.                                                     *)
LEMMA WithInnerKeeps ==
  ASSUME NEW h, AHeap(h), h.outcome = "ok", NEW x, NEW S
  PROVE  Midway(h, WithInner(h, x), {}, S)
<1> DEFINE c == operator_from_ciphertext(h.of[x])
           g == Put(h, "inner1", c)
<1>1. Wrote(h, g, "inner1")
  BY PutWrites, InnerNames
<1>2. Wrote(g, Put(g, "inner2", c), "inner2")
  BY <1>1, PutWrites, InnerNames DEF Wrote
<1> HIDE DEF c, g
<1>3. Midway(h, Put(g, "inner2", c), {}, S)
  BY <1>1, <1>2, InnerNames DEF Wrote, Midway
<1>4. QED
  BY <1>3 DEF WithInner, c, g

(* The logic operators work on inner ciphertexts and write their result     *)
(* last.                                                                    *)
LEMMA LogicWorks ==
  ASSUME NEW h, AHeap(h), h.outcome = "ok", NEW x \in Ciphertexts, NEW y \in Ciphertexts,
         NEW z \in Ciphertexts, Formed(h.of[x]), Formed(h.of[y])
  PROVE  /\ Worked(h, AND(h, x, y, z), z, {x, y})
         /\ Worked(h, OR(h, x, y, z), z, {x, y})
         /\ Worked(h, XOR(h, x, y, z), z, {x, y})
<1> DEFINE S == {x, y}
           w == WithInner(h, x)
           p == Product(w, x, y, "inner1")
           q == Doubled(p, "inner1")
<1>1. Worked(h, AND(h, x, y, z), z, S)
  <2>1. Midway(h, h, {}, S)
    BY DEF Midway
  <2> DEFINE f == Product(h, x, y, z)
  <2>2. Threw(h, f, S) \/ (Wrote(h, f, z) /\ Good(f, z))
    BY ProductWrites, InnerNames, TwoIsGood
  <2> HIDE DEF f
  <2>3. Worked(h, f, z, S)
    BY <2>1, <2>2, MidwayEnds
  <2>4. QED
    BY <2>3 DEF AND, f
<1>2. Midway(h, w, {}, S)
  BY WithInnerKeeps
<1>3. Midway(h, p, {"inner1"}, S)
  <2> HIDE DEF w
  <2>1. AHeap(w) /\ w.of[x] = h.of[x] /\ w.of[y] = h.of[y]
    BY <1>2 DEF Midway
  <2>2. Threw(w, p, S) \/ (Wrote(w, p, "inner1") /\ Good(p, "inner1"))
    BY <2>1, ProductWrites, InnerNames, TwoIsGood
  <2> HIDE DEF p
  <2>3. Midway(h, p, {} \cup {"inner1"}, S)
    BY <1>2, <2>1, <2>2, MidwayGoesOn, InnerNames
  <2>4. QED
    BY <2>3
<1>4. Midway(h, q, {"inner1"}, S)
  <2> HIDE DEF p
  <2>1. AHeap(p) /\ (p.outcome = "ok" => Formed(p.of["inner1"]) /\ ~Small(p.of["inner1"]))
    BY <1>3 DEF Midway, Good
  <2>2. Threw(p, q, {"inner1"}) \/ (Wrote(p, q, "inner1") /\ Good(q, "inner1"))
    <3>1. \/ Threw(p, add(p, "inner1", "inner1", "inner1"), {"inner1", "inner1"})
          \/ /\ Wrote(p, add(p, "inner1", "inner1", "inner1"), "inner1")
             /\ Good(add(p, "inner1", "inner1", "inner1"), "inner1")
      BY <2>1, AddIsGood, InnerNames
    <3>2. {"inner1", "inner1"} = {"inner1"}
      OBVIOUS
    <3>3. QED
      BY <3>1, <3>2 DEF Doubled
  <2> HIDE DEF q
  <2>3. Midway(h, q, {"inner1"} \cup {"inner1"}, S)
    BY <1>3, <2>1, <2>2, MidwayGoesOn, InnerNames
  <2>4. {"inner1"} \cup {"inner1"} = {"inner1"}
    OBVIOUS
  <2>5. QED
    BY <2>3, <2>4
<1>5. ASSUME NEW g, Midway(h, g, {"inner1"}, S)
      PROVE  Worked(h, sub(add(g, x, y, "inner2"), "inner2", "inner1", z), z, S)
  <2> DEFINE f == add(g, x, y, "inner2")
             e == sub(f, "inner2", "inner1", z)
  <2>1. AHeap(g) /\ g.of[x] = h.of[x] /\ g.of[y] = h.of[y]
    BY <1>5 DEF Midway
  <2>2. Threw(g, f, S) \/ (Wrote(g, f, "inner2") /\ Good(f, "inner2"))
    BY <2>1, AddIsGood, InnerNames
  <2> HIDE DEF f
  <2>3. Midway(h, f, {"inner1"} \cup {"inner2"}, S)
    BY <1>5, <2>1, <2>2, MidwayGoesOn, InnerNames
  <2>4. /\ AHeap(f)
        /\ f.outcome = "ok" => /\ Formed(f.of["inner1"]) /\ ~Small(f.of["inner1"])
                               /\ Formed(f.of["inner2"]) /\ ~Small(f.of["inner2"])
    BY <2>3 DEF Midway, Good
  <2>5. Threw(f, e, {"inner2", "inner1"}) \/ (Wrote(f, e, z) /\ Good(e, z))
    BY <2>4, AddIsGood, InnerNames
  <2> HIDE DEF e
  <2>6. f.outcome = "ok" => \A n \in {"inner2", "inner1"} :
                              Small(f.of[n]) => \E m \in S : Small(h.of[m])
    BY <2>4
  <2> DEFINE N == {"inner1"} \cup {"inner2"}
             R == {"inner2", "inner1"}
  <2>7. Worked(h, e, z, S)
    <3>1. /\ Midway(h, f, N, S)
          /\ Threw(f, e, R) \/ (Wrote(f, e, z) /\ Good(e, z))
          /\ f.outcome = "ok" => \A n \in R : Small(f.of[n]) => \E m \in S : Small(h.of[m])
      BY <2>3, <2>5, <2>6
    <3> HIDE DEF N, R, S
    <3>2. QED
      BY <3>1, MidwayEnds
  <2>8. QED
    BY <2>7 DEF e, f
<1>6. Worked(h, OR(h, x, y, z), z, S)
  BY <1>3, <1>5 DEF OR
<1>7. Worked(h, XOR(h, x, y, z), z, S)
  BY <1>4, <1>5 DEF XOR
<1>8. QED
  BY <1>1, <1>6, <1>7

(* So do those with a plaintext.                                            *)
LEMMA LogicPlainWorks ==
  ASSUME NEW h, AHeap(h), h.outcome = "ok", NEW x \in Ciphertexts, NEW t,
         NEW z \in Ciphertexts, Formed(h.of[x])
  PROVE  /\ Worked(h, AND_plain(h, x, t, z), z, {x})
         /\ Worked(h, OR_plain(h, x, t, z), z, {x})
         /\ Worked(h, XOR_plain(h, x, t, z), z, {x})
<1> DEFINE S == {x}
           w == WithInner(h, x)
           p == multiply_plain(w, x, t, "inner1")
           q == Doubled(p, "inner1")
<1>1. Worked(h, AND_plain(h, x, t, z), z, S)
  <2>1. Midway(h, h, {}, S)
    BY DEF Midway
  <2> DEFINE f == multiply_plain(h, x, t, z)
  <2>2. Threw(h, f, S) \/ (Wrote(h, f, z) /\ Good(f, z))
    BY MultiplyPlainWrites, InnerNames, TwoIsGood
  <2> HIDE DEF f
  <2>3. Worked(h, f, z, S)
    BY <2>1, <2>2, MidwayEnds
  <2>4. QED
    BY <2>3 DEF AND_plain, f
<1>2. Midway(h, w, {}, S)
  BY WithInnerKeeps
<1>3. Midway(h, p, {"inner1"}, S)
  <2> HIDE DEF w
  <2>1. AHeap(w) /\ w.of[x] = h.of[x]
    BY <1>2 DEF Midway
  <2>2. Threw(w, p, S) \/ (Wrote(w, p, "inner1") /\ Good(p, "inner1"))
    BY <2>1, MultiplyPlainWrites, InnerNames, TwoIsGood
  <2> HIDE DEF p
  <2>3. Midway(h, p, {} \cup {"inner1"}, S)
    BY <1>2, <2>1, <2>2, MidwayGoesOn, InnerNames
  <2>4. QED
    BY <2>3
<1>4. Midway(h, q, {"inner1"}, S)
  <2> HIDE DEF p
  <2>1. AHeap(p) /\ (p.outcome = "ok" => Formed(p.of["inner1"]) /\ ~Small(p.of["inner1"]))
    BY <1>3 DEF Midway, Good
  <2>2. Threw(p, q, {"inner1"}) \/ (Wrote(p, q, "inner1") /\ Good(q, "inner1"))
    <3>1. \/ Threw(p, add(p, "inner1", "inner1", "inner1"), {"inner1", "inner1"})
          \/ /\ Wrote(p, add(p, "inner1", "inner1", "inner1"), "inner1")
             /\ Good(add(p, "inner1", "inner1", "inner1"), "inner1")
      BY <2>1, AddIsGood, InnerNames
    <3>2. {"inner1", "inner1"} = {"inner1"}
      OBVIOUS
    <3>3. QED
      BY <3>1, <3>2 DEF Doubled
  <2> HIDE DEF q
  <2>3. Midway(h, q, {"inner1"} \cup {"inner1"}, S)
    BY <1>3, <2>1, <2>2, MidwayGoesOn, InnerNames
  <2>4. {"inner1"} \cup {"inner1"} = {"inner1"}
    OBVIOUS
  <2>5. QED
    BY <2>3, <2>4
<1>5. ASSUME NEW g, Midway(h, g, {"inner1"}, S)
      PROVE  Worked(h, sub(add_plain(g, x, t, "inner2"), "inner2", "inner1", z), z, S)
  <2> DEFINE f == add_plain(g, x, t, "inner2")
             e == sub(f, "inner2", "inner1", z)
  <2>1. AHeap(g) /\ g.of[x] = h.of[x]
    BY <1>5 DEF Midway
  <2>2. Threw(g, f, S) \/ (Wrote(g, f, "inner2") /\ Good(f, "inner2"))
    BY <2>1, AddPlainWrites, InnerNames, TwoIsGood
  <2> HIDE DEF f
  <2>3. Midway(h, f, {"inner1"} \cup {"inner2"}, S)
    BY <1>5, <2>1, <2>2, MidwayGoesOn, InnerNames
  <2>4. /\ AHeap(f)
        /\ f.outcome = "ok" => /\ Formed(f.of["inner1"]) /\ ~Small(f.of["inner1"])
                               /\ Formed(f.of["inner2"]) /\ ~Small(f.of["inner2"])
    BY <2>3 DEF Midway, Good
  <2>5. Threw(f, e, {"inner2", "inner1"}) \/ (Wrote(f, e, z) /\ Good(e, z))
    BY <2>4, AddIsGood, InnerNames
  <2> HIDE DEF e
  <2>6. f.outcome = "ok" => \A n \in {"inner2", "inner1"} :
                              Small(f.of[n]) => \E m \in S : Small(h.of[m])
    BY <2>4
  <2> DEFINE N == {"inner1"} \cup {"inner2"}
             R == {"inner2", "inner1"}
  <2>7. Worked(h, e, z, S)
    <3>1. /\ Midway(h, f, N, S)
          /\ Threw(f, e, R) \/ (Wrote(f, e, z) /\ Good(e, z))
          /\ f.outcome = "ok" => \A n \in R : Small(f.of[n]) => \E m \in S : Small(h.of[m])
      BY <2>3, <2>5, <2>6
    <3> HIDE DEF N, R, S
    <3>2. QED
      BY <3>1, MidwayEnds
  <2>8. QED
    BY <2>7 DEF e, f
<1>6. Worked(h, OR_plain(h, x, t, z), z, S)
  BY <1>3, <1>5 DEF OR_plain
<1>7. Worked(h, XOR_plain(h, x, t, z), z, S)
  BY <1>4, <1>5 DEF XOR_plain
<1>8. QED
  BY <1>1, <1>6, <1>7

(* Sums of slots: the loop goes on with a result and a rotated one.         *)
Summing(h, g, operands) ==
  /\ Midway(h, g, {"rotated"}, operands)
  /\ g.outcome = "ok" => /\ Formed(g.of["result"])
                         /\ Small(g.of["result"]) => \E n \in operands : Small(h.of[n])

(* A step of a sum adds what was rotated to the result.                     *)
LEMMA SumGoesOn ==
  ASSUME NEW h, NEW g, NEW S, Summing(h, g, S), NEW r,
         Threw(g, r, {"result"}) \/ (Wrote(g, r, "rotated") /\ Good(r, "rotated"))
  PROVE  LET f == add(r, "result", "rotated", "result")
         IN  Summing(h, f, S) /\ Midway(h, f, {"result"}, S)
<1> DEFINE f == add(r, "result", "rotated", "result")
           N == {"rotated"}
           R == {"result"}
           T2 == {"result", "rotated"}
<1>1. g.outcome = "ok" => \A n \in R : Small(g.of[n]) => \E m \in S : Small(h.of[m])
  BY DEF Summing
<1>2. Midway(h, r, {"rotated"}, S)
  <2>1. Midway(h, g, N, S) /\ N \subseteq Names /\ "rotated" \in Inner
    BY InnerNames DEF Summing
  <2> HIDE DEF N, R
  <2>2. Threw(g, r, R) \/ (Wrote(g, r, "rotated") /\ Good(r, "rotated"))
    BY DEF R
  <2>3. Midway(h, r, N \cup {"rotated"}, S)
    BY <1>1, <2>1, <2>2, MidwayGoesOn
  <2>4. N \cup {"rotated"} = {"rotated"}
    BY DEF N
  <2>5. QED
    BY <2>3, <2>4
<1>3. r.outcome = "ok" =>
        /\ Formed(r.of["result"]) /\ Formed(r.of["rotated"]) /\ ~Small(r.of["rotated"])
        /\ Small(r.of["result"]) => \E n \in S : Small(h.of[n])
  BY <1>2, InnerNames DEF Summing, Threw, Wrote, Good
<1>4. AHeap(r)
  BY <1>2 DEF Midway
<1>5. Threw(r, f, {"result", "rotated"}) \/ (Wrote(r, f, "result") /\ Good(f, "result"))
  BY <1>3, <1>4, AddIsGood, InnerNames
<1>6. r.outcome = "ok" => \A n \in T2 : Small(r.of[n]) => \E m \in S : Small(h.of[m])
  BY <1>3
<1> HIDE DEF f
<1>7. Midway(h, f, {"rotated"} \cup {"result"}, S)
  <2>1. /\ Midway(h, r, N, S) /\ N \subseteq Names /\ "result" \in Inner
        /\ Threw(r, f, T2) \/ (Wrote(r, f, "result") /\ Good(f, "result"))
    BY <1>2, <1>5, InnerNames
  <2> HIDE DEF N, T2
  <2>2. Midway(h, f, N \cup {"result"}, S)
    BY <1>6, <2>1, MidwayGoesOn
  <2>3. QED
    BY <2>2 DEF N
<1>8. Midway(h, f, {"rotated"}, S) /\ Midway(h, f, {"result"}, S)
  BY <1>7 DEF Midway
<1>9. Summing(h, f, S)
  BY <1>8 DEF Summing, Midway, Good
<1>10. QED
  BY <1>8, <1>9 DEF f

(* One step of the loop of sum_slots.                                       *)
LEMMA StepSums ==
  ASSUME NEW h, NEW g, NEW S, Summing(h, g, S), NEW k \in Int
  PROVE  Summing(h, Step(g, k), S)
<1> DEFINE r == rotate_rows(g, "result", "rotated", k)
<1>1. AHeap(g) /\ (g.outcome = "ok" => Formed(g.of["result"]) /\ Formed(g.of["rotated"]))
  BY DEF Summing, Midway, Good
<1>2. Threw(g, r, {"result"}) \/ (Wrote(g, r, "rotated") /\ Good(r, "rotated"))
  BY <1>1, RotateRowsWrites, InnerNames
<1> HIDE DEF r
<1>3. Summing(h, add(r, "result", "rotated", "result"), S)
  BY <1>2, SumGoesOn
<1>4. QED
  BY <1>3 DEF Step, r

(* sum_slots writes inner ciphertexts only.                                 *)
LEMMA SumSlotsWorks ==
  ASSUME NEW h, NEW g, NEW S, Midway(h, g, {"rotated"}, S), NEW x \in Names,
         g.outcome = "ok" => Formed(g.of[x]) /\ (Small(g.of[x]) => \E n \in S : Small(h.of[n]))
  PROVE  Midway(h, sum_slots(g, x), {"result"}, S)
<1> DEFINE start == Put(g, "result", g.of[x])
           After(i, l) == IF i < RowSize /\ \E j \in 0 .. RowSize : TwoTo[j] = i
                          THEN Step(l, i) ELSE l
           Loop == CHOOSE l : l = [i \in 0 .. RowSize |->
                     IF i = 0 THEN Put(g, "result", g.of[x])
                     ELSE IF i < RowSize /\ \E j \in 0 .. RowSize : TwoTo[j] = i
                          THEN Step(l[i - 1], i) ELSE l[i - 1]]
<1>1. sum_slots(g, x) = add(rotate_columns(Loop[RowSize], "result", "rotated"),
                            "result", "rotated", "result")
  BY DEF sum_slots
<1>2. \A i \in 0 .. RowSize : Loop[i] = IF i = 0 THEN start ELSE After(i, Loop[i - 1])
  <2> DEFINE Eqn(m, c) == c = [i \in 0 .. m |-> IF i = 0 THEN start ELSE After(i, c[i - 1])]
             B == {m \in Nat : \E c : Eqn(m, c)}
  <2> HIDE DEF Loop
  <2>1. 0 \in B
    <3> DEFINE c == [i \in 0 .. 0 |-> start]
    <3>1. Eqn(0, c)
      OBVIOUS
    <3>2. QED
      BY <3>1
  <2>2. ASSUME NEW m \in Nat, m \in B PROVE m + 1 \in B
    <3>1. PICK c : Eqn(m, c)
      BY <2>2
    <3> DEFINE d == [i \in 0 .. m + 1 |-> IF i <= m THEN c[i] ELSE After(m + 1, c[m])]
    <3>2. ASSUME NEW i \in 0 .. m + 1
          PROVE  d[i] = IF i = 0 THEN start ELSE After(i, d[i - 1])
      <4> HIDE DEF After, start
      <4>1. CASE i <= m
        BY <3>1, <4>1
      <4>2. CASE i = m + 1
        BY <4>2
      <4>3. QED
        BY <4>1, <4>2
    <3>3. d = [i \in 0 .. m + 1 |-> d[i]]
      OBVIOUS
    <3> HIDE DEF d, After, start
    <3>4. Eqn(m + 1, d)
      BY <3>2, <3>3
    <3>5. QED
      BY <3>4
  <2> HIDE DEF B, After, start
  <2>3. RowSize \in B
    BY <2>1, <2>2, Induction, ParametersOK
  <2>4. PICK c : Eqn(RowSize, c)
    BY <2>3 DEF B
  <2>5. Loop = [i \in 0 .. RowSize |-> IF i = 0 THEN start ELSE After(i, Loop[i - 1])]
    BY <2>4 DEF Loop, After, start
  <2>6. QED
    BY <2>5
<1> HIDE DEF Loop
<1> DEFINE I == {i \in Nat : i <= RowSize => Summing(h, Loop[i], S)}
<1>3. 0 \in I
  <2>1. Loop[0] = start
    BY <1>2, ParametersOK
  <2>2. /\ AHeap(start) /\ start.outcome = g.outcome
        /\ \A n \in Names \ {"result"} : start.of[n] = g.of[n]
        /\ start.of["result"] = g.of[x]
    BY InnerNames DEF Midway, AHeap, Put
  <2> HIDE DEF start
  <2>3. Midway(h, start, {"rotated"}, S)
    BY <2>2, InnerNames DEF Midway, Good
  <2>4. start.outcome = "ok" =>
          /\ Formed(start.of["result"])
          /\ Small(start.of["result"]) => \E n \in S : Small(h.of[n])
    BY <2>2
  <2>5. Summing(h, start, S)
    BY <2>3, <2>4 DEF Summing
  <2>6. QED
    BY <2>1, <2>5
<1>4. ASSUME NEW i \in Nat, i \in I PROVE i + 1 \in I
  <2>1. SUFFICES ASSUME NEW j \in 1 .. RowSize, j = i + 1, Summing(h, Loop[j - 1], S)
                 PROVE  Summing(h, Loop[j], S)
    BY <1>4, ParametersOK
  <2>2. Loop[j] = After(j, Loop[j - 1])
    BY <1>2, ParametersOK
  <2>3. Summing(h, Step(Loop[j - 1], j), S)
    BY <2>1, StepSums
  <2>4. QED
    BY <2>1, <2>2, <2>3
<1> HIDE DEF I
<1>5. Summing(h, Loop[RowSize], S)
  <2>1. RowSize \in I
    BY <1>3, <1>4, Induction, ParametersOK
  <2>2. QED
    BY <2>1, ParametersOK DEF I
<1> DEFINE last == Loop[RowSize]
           r == rotate_columns(last, "result", "rotated")
<1>6. AHeap(last) /\ (last.outcome = "ok" => Formed(last.of["result"]) /\ Formed(last.of["rotated"]))
  BY <1>5 DEF Summing, Midway, Good
<1>7. Threw(last, r, {"result"}) \/ (Wrote(last, r, "rotated") /\ Good(r, "rotated"))
  <2> HIDE DEF last
  <2>1. QED
    BY <1>6, RotateColumnsWrites, InnerNames
<1> HIDE DEF r
<1>8. Midway(h, add(r, "result", "rotated", "result"), {"result"}, S)
  BY <1>5, <1>7, SumGoesOn
<1>9. QED
  BY <1>1, <1>8 DEF r

(* A ciphertext that a call returns is written when it has worked.          *)
LEMMA ReturnedWorks ==
  ASSUME NEW h, NEW g, NEW S, Midway(h, g, {"result"}, S), NEW z \in Ciphertexts
  PROVE  Worked(h, Returned(g, z), z, S)
<1>1. CASE g.outcome = "ok"
  <2> DEFINE c == g.of["result"]
  <2>1. Wrote(g, Put(g, z, c), z) /\ Put(g, z, c).of[z] = c
    BY <1>1, PutWrites, InnerNames DEF Midway
  <2>2. Formed(c) /\ ~Small(c)
    BY <1>1 DEF Midway, Good
  <2>3. Returned(g, z) = Put(g, z, c)
    BY <1>1 DEF Returned
  <2> HIDE DEF c
  <2>4. QED
    BY <1>1, <2>1, <2>2, <2>3, InnerNames DEF Midway, Worked, Wrote, Good
<1>2. CASE g.outcome # "ok"
  BY <1>2 DEF Returned, Midway, Worked
<1>3. QED
  BY <1>1, <1>2

(* The sums and inner products write their result last.                     *)
LEMMA SumsWork ==
  ASSUME NEW h, AHeap(h), h.outcome = "ok", Good(h, "rotated"),
         NEW x \in Ciphertexts, NEW y \in Ciphertexts, NEW z \in Ciphertexts, NEW t,
         Formed(h.of[x]), Formed(h.of[y])
  PROVE  /\ Worked(h, Returned(sum_slots(h, x), z), z, {x})
         /\ Worked(h, Returned(inner_product(h, x, y), z), z, {x, y})
         /\ Worked(h, Returned(inner_product_plain(h, x, t), z), z, {x})
<1> DEFINE S == {x, y}
           N == {"rotated"}
<1>1. \A U : Midway(h, h, {"rotated"}, U)
  BY DEF Midway
<1>2. Worked(h, Returned(sum_slots(h, x), z), z, {x})
  <2>1. Midway(h, h, {"rotated"}, {x})
    BY <1>1
  <2>2. Midway(h, sum_slots(h, x), {"result"}, {x})
    BY <2>1, SumSlotsWorks, InnerNames
  <2>3. QED
    BY <2>2, ReturnedWorks
<1>3. ASSUME NEW U, NEW m,
             Threw(h, m, U) \/ (Wrote(h, m, "product") /\ Good(m, "product"))
      PROVE  Midway(h, sum_slots(m, "product"), {"result"}, U)
  <2>1. Midway(h, m, {"rotated"}, U)
    BY <1>1, <1>3, InnerNames DEF Midway, Threw, Wrote, Good
  <2>2. m.outcome = "ok" => Formed(m.of["product"]) /\ ~Small(m.of["product"])
    BY <1>3 DEF Threw, Good
  <2>3. QED
    BY <2>1, <2>2, SumSlotsWorks, InnerNames
<1>4. Worked(h, Returned(inner_product(h, x, y), z), z, {x, y})
  <2> DEFINE m == Product(h, x, y, "product")
  <2>1. Threw(h, m, {x, y}) \/ (Wrote(h, m, "product") /\ Good(m, "product"))
    BY ProductWrites, InnerNames, TwoIsGood
  <2>2. inner_product(h, x, y) = sum_slots(m, "product")
    BY DEF inner_product, Product
  <2> HIDE DEF m
  <2>3. QED
    BY <1>3, <2>1, <2>2, ReturnedWorks
<1>5. Worked(h, Returned(inner_product_plain(h, x, t), z), z, {x})
  <2> DEFINE m == multiply_plain(h, x, t, "product")
  <2>1. Threw(h, m, {x}) \/ (Wrote(h, m, "product") /\ Good(m, "product"))
    BY MultiplyPlainWrites, InnerNames, TwoIsGood
  <2>2. inner_product_plain(h, x, t) = sum_slots(m, "product")
    BY DEF inner_product_plain
  <2> HIDE DEF m
  <2>3. QED
    BY <1>3, <2>1, <2>2, ReturnedWorks
<1>6. QED
  BY <1>2, <1>4, <1>5

(* The sequence of a finite set.                                            *)
LEMMA SequenceOfSet ==
  ASSUME NEW D, IsFiniteSet(D)
  PROVE  \E n \in Nat : LET s == SetToSeq(D)
                        IN  /\ DOMAIN s = 1 .. n /\ Len(s) = n
                            /\ \A i \in 1 .. n : s[i] \in D
                            /\ \A i, j \in 1 .. n : s[i] = s[j] => i = j
                            /\ \A d \in D : \E i \in 1 .. n : s[i] = d
<1> DEFINE n == Cardinality(D)
           s == SetToSeq(D)
<1>1. n \in Nat /\ ExistsBijection(1 .. n, D)
  BY FS_CardinalityType
<1>2. \E f \in [1 .. n -> D] : IsInjective(f)
  BY <1>1 DEF ExistsBijection, Bijection, Injection, IsInjective
<1>3. s \in [1 .. n -> D] /\ IsInjective(s)
  BY <1>2 DEF SetToSeq
<1> HIDE DEF s
<1>4. s \in Injection(1 .. n, D)
  BY <1>3 DEF Injection
<1>5. IsFiniteSet(1 .. n) /\ Cardinality(1 .. n) = n
  BY <1>1, FS_Interval
<1>6. s \in Surjection(1 .. n, D)
  BY <1>1, <1>4, <1>5, FS_Injection
<1>7. \A d \in D : \E i \in 1 .. n : s[i] = d
  BY <1>6 DEF Surjection
<1>8. DOMAIN s = 1 .. n /\ Len(s) = n
  BY <1>1, <1>3
<1>9. \A i, j \in 1 .. n : s[i] = s[j] => i = j
  BY <1>3 DEF IsInjective
<1>10. QED
  BY <1>1, <1>3, <1>7, <1>8, <1>9 DEF s

(* Several rotations at once: an output is made in one step and not touched *)
(* by the others.                                                           *)
LEMMA HoistedOutputsWork ==
  ASSUME NEW h, AHeap(h), h.outcome = "ok", NEW x \in Ciphertexts, NEW shift \in Shifts,
         Formed(h.of[x]), ~h.of[x].relin, Good(h, "result")
  PROVE  LET g == HoistedOutputs(h, x, shift)
         IN  /\ AHeap(g) /\ g.outcome # "size"
             /\ g.outcome = "ok" =>
                  /\ \A n \in DOMAIN shift : Good(g, n)
                  /\ \A n \in Ciphertexts \ DOMAIN shift : g.of[n] = h.of[n]
<1> DEFINE a == h.of[x]
           digits == decompose_for_galois(a)
           Rotate(g, z, k) ==
             IF k = 0 THEN Put(g, z, a)
             ELSE IF HasKey(steps_to_galois_elt(k))
             THEN apply_galois_decomposed(g, a, digits, z, steps_to_galois_elt(k), TRUE)
             ELSE rotate_rows(Put(g, "result", a), "result", z, k)
           Outputs == [n \in DOMAIN h.of |-> IF n \in DOMAIN shift THEN Fresh ELSE h.of[n]]
           outputs == SetToSeq(DOMAIN shift)
           start == [h EXCEPT !.of = Outputs]
           After(i, g) == Rotate(g, outputs[i], Reduced(shift[outputs[i]]))
           Loop == CHOOSE l : l = [i \in 0 .. Len(outputs) |->
                     IF i = 0 THEN [h EXCEPT !.of = Outputs]
                     ELSE Rotate(l[i - 1], outputs[i], Reduced(shift[outputs[i]]))]
<1>1. HoistedOutputs(h, x, shift) = Loop[Len(outputs)]
  BY DEF HoistedOutputs
<1>2. /\ IsFiniteSet(DOMAIN shift) /\ DOMAIN shift \subseteq Ciphertexts
      /\ \A z \in DOMAIN shift : shift[z] \in Int
  BY ParametersOK
<1>3. PICK n \in Nat : /\ DOMAIN outputs = 1 .. n /\ Len(outputs) = n
                       /\ \A i \in 1 .. n : outputs[i] \in DOMAIN shift
                       /\ \A i, j \in 1 .. n : outputs[i] = outputs[j] => i = j
                       /\ \A d \in DOMAIN shift : \E i \in 1 .. n : outputs[i] = d
  BY <1>2, SequenceOfSet
<1> HIDE DEF outputs
<1>4. \A i \in 0 .. n : Loop[i] = IF i = 0 THEN start ELSE After(i, Loop[i - 1])
  <2> DEFINE Eqn(m, c) == c = [i \in 0 .. m |-> IF i = 0 THEN start ELSE After(i, c[i - 1])]
             B == {m \in Nat : \E c : Eqn(m, c)}
  <2> HIDE DEF Loop
  <2>1. 0 \in B
    <3> DEFINE c == [i \in 0 .. 0 |-> start]
    <3>1. Eqn(0, c)
      <4> HIDE DEF start, After
      <4>1. QED
        OBVIOUS
    <3>2. QED
      BY <3>1
  <2>2. ASSUME NEW m \in Nat, m \in B PROVE m + 1 \in B
    <3>1. PICK c : Eqn(m, c)
      BY <2>2
    <3> DEFINE d == [i \in 0 .. m + 1 |-> IF i <= m THEN c[i] ELSE After(m + 1, c[m])]
    <3>2. ASSUME NEW i \in 0 .. m + 1
          PROVE  d[i] = IF i = 0 THEN start ELSE After(i, d[i - 1])
      <4> HIDE DEF After, start
      <4>1. CASE i <= m
        BY <3>1, <4>1
      <4>2. CASE i = m + 1
        BY <4>2
      <4>3. QED
        BY <4>1, <4>2
    <3>3. d = [i \in 0 .. m + 1 |-> d[i]]
      OBVIOUS
    <3> HIDE DEF d, After, start
    <3>4. Eqn(m + 1, d)
      BY <3>2, <3>3
    <3>5. QED
      BY <3>4
  <2> HIDE DEF B, After, start
  <2>3. n \in B
    BY <2>1, <2>2, Induction
  <2>4. PICK c : Eqn(n, c)
    BY <2>3 DEF B
  <2>5. Loop = [i \in 0 .. n |-> IF i = 0 THEN start ELSE After(i, Loop[i - 1])]
    BY <1>3, <2>4 DEF Loop, After, start
  <2>6. QED
    BY <2>5
<1> HIDE DEF Loop
<1>5. Formed(Fresh) /\ ~Small(Fresh) /\ Formed(a) /\ ~Small(a)
  BY DEF Fresh, Formed, Small
<1> DEFINE Done(i, l) ==
             /\ AHeap(l) /\ l.outcome # "size"
             /\ l.outcome = "ok" =>
                  /\ \A j \in 1 .. i : Good(l, outputs[j])
                  /\ \A j \in i + 1 .. n : l.of[outputs[j]] = Fresh
                  /\ \A m \in Ciphertexts \ DOMAIN shift : l.of[m] = h.of[m]
           I == {i \in Nat : i <= n => Done(i, Loop[i])}
<1>6. 0 \in I
  <2>1. Loop[0] = start
    <3> HIDE DEF After, start
    <3>1. QED
      BY <1>3, <1>4
  <2>2. AHeap(start) /\ start.outcome = "ok" /\ start.of = Outputs
    BY DEF AHeap
  <2>3. \A m \in Ciphertexts : start.of[m] = IF m \in DOMAIN shift THEN Fresh ELSE h.of[m]
    BY <2>2, InnerNames DEF AHeap
  <2> HIDE DEF start, Outputs
  <2>4. Done(0, start)
    BY <1>2, <1>3, <2>2, <2>3
  <2>5. QED
    BY <2>1, <2>4
<1>7. ASSUME NEW i \in 1 .. n, NEW l, Done(i - 1, l)
      PROVE  Done(i, After(i, l))
  <2> DEFINE z == outputs[i]
             k == Reduced(shift[z])
             g == Rotate(l, z, k)
  <2>1. z \in DOMAIN shift /\ z \in Ciphertexts /\ z \in Names /\ k \in Int
    <3>1. z \in DOMAIN shift /\ z \in Ciphertexts /\ z \in Names /\ shift[z] \in Int
      BY <1>2, <1>3, InnerNames
    <3> HIDE DEF z
    <3>2. Reduced(shift[z]) \in Int
      BY <3>1, ReducedIs, ParametersOK
    <3>3. QED
      BY <3>1, <3>2
  <2>2. l.outcome = "ok" => l.of[z] = Fresh
    <3>1. i \in (i - 1) + 1 .. n
      OBVIOUS
    <3>2. QED
      BY <1>7, <3>1
  <2> HIDE DEF z, k
  <2>3. AHeap(l) /\ l.outcome # "size"
    BY <1>7
  <2>4. /\ AHeap(g) /\ g.outcome # "size"
        /\ g.outcome = "ok" => /\ l.outcome = "ok" /\ Good(g, z)
                               /\ \A m \in Ciphertexts \ {z} : g.of[m] = l.of[m]
    <3>1. CASE k = 0
      <4>1. g = Put(l, z, a)
        BY <3>1
      <4>2. AHeap(Put(l, z, a)) /\ Put(l, z, a).outcome = l.outcome
        BY <2>1, <2>3 DEF AHeap, Put
      <4>3. l.outcome = "ok" => Wrote(l, Put(l, z, a), z) /\ Put(l, z, a).of[z] = a
        BY <2>1, <2>3, PutWrites
      <4> HIDE DEF a, g
      <4>4. QED
        BY <1>5, <2>3, <4>1, <4>2, <4>3, InnerNames DEF Good, Wrote
    <3>2. CASE k # 0 /\ HasKey(steps_to_galois_elt(k))
      <4>1. g = apply_galois_decomposed(l, a, digits, z, steps_to_galois_elt(k), TRUE)
        BY <3>2
      <4> HIDE DEF a, digits, g
      <4>2. CASE l.outcome = "ok"
        <5>1. /\ Fields(l.of[z]) /\ l.of[z].size = 2 /\ ~l.of[z].relin
              /\ l.of[z].relin \in BOOLEAN /\ l.of[z].ntt \in BOOLEAN
          <6>1. Formed(l.of[z]) /\ ~Small(l.of[z])
            BY <1>5, <2>2, <4>2
          <6>2. l.of[z].size = 2
            BY <2>2, <4>2 DEF Fresh
          <6>3. QED
            BY <6>1, <6>2 DEF Formed, Small, Fields
        <5>2. Painted(l, g, z)
          BY <2>1, <2>3, <4>1, <4>2, <5>1, GaloisPaints
        <5>3. Good(g, z)
          BY <5>1, <5>2 DEF Painted, Fields, Good, Formed, Small
        <5>4. QED
          BY <4>2, <5>2, <5>3, InnerNames DEF Painted, Wrote
      <4>3. CASE l.outcome # "ok"
        <5> DEFINE checks == << <<TRUE, "key">> >>
        <5>1. DOMAIN checks \in SUBSET Nat
          OBVIOUS
        <5>2. g = l
          BY <4>1, <4>3, <5>1, CheckedIs DEF apply_galois_decomposed
        <5>3. QED
          BY <2>3, <4>3, <5>2
      <4>4. QED
        BY <4>2, <4>3
    <3>3. CASE k # 0 /\ ~HasKey(steps_to_galois_elt(k))
      <4> DEFINE p == Put(l, "result", a)
      <4>1. g = rotate_rows(p, "result", z, k)
        BY <3>3
      <4>2. /\ AHeap(p) /\ p.outcome = l.outcome /\ p.of["result"] = a
            /\ \A m \in Names \ {"result"} : p.of[m] = l.of[m]
        BY <2>3, InnerNames DEF AHeap, Put
      <4> HIDE DEF p, a, g
      <4>3. p.outcome = "ok" => Formed(p.of["result"]) /\ Formed(p.of[z])
        BY <1>5, <2>1, <2>2, <4>2, InnerNames
      <4>4. (Wrote(p, g, z) /\ Good(g, z)) \/ Threw(p, g, {"result"})
        BY <2>1, <4>1, <4>2, <4>3, RotateRowsWrites, InnerNames
      <4>5. ~Small(p.of["result"])
        BY <1>5, <4>2
      <4>6. QED
        BY <2>3, <4>2, <4>4, <4>5, InnerNames DEF Wrote, Threw
    <3>4. QED
      BY <3>1, <3>2, <3>3
  <2> HIDE DEF g
  <2>5. Done(i, g)
    <3>1. SUFFICES ASSUME g.outcome = "ok"
                   PROVE  /\ \A j \in 1 .. i : Good(g, outputs[j])
                          /\ \A j \in i + 1 .. n : g.of[outputs[j]] = Fresh
                          /\ \A m \in Ciphertexts \ DOMAIN shift : g.of[m] = h.of[m]
      BY <2>4
    <3>2. \A j \in 1 .. n : j # i => outputs[j] \in Ciphertexts \ {z}
      BY <1>2, <1>3 DEF z
    <3>3. l.outcome = "ok"
      BY <2>4, <3>1
    <3>4. ASSUME NEW j \in 1 .. i PROVE Good(g, outputs[j])
      <4>1. CASE j = i
        BY <2>4, <3>1, <4>1 DEF z
      <4>2. CASE j # i
        <5>1. j \in 1 .. i - 1 /\ j \in 1 .. n
          BY <4>2
        <5>2. Good(l, outputs[j])
          BY <1>7, <3>3, <5>1
        <5>3. g.of[outputs[j]] = l.of[outputs[j]]
          BY <2>4, <3>1, <3>2, <4>2, <5>1
        <5>4. QED
          BY <5>2, <5>3 DEF Good
      <4>3. QED
        BY <4>1, <4>2
    <3>5. ASSUME NEW j \in i + 1 .. n PROVE g.of[outputs[j]] = Fresh
      <4>1. j \in (i - 1) + 1 .. n /\ j # i /\ j \in 1 .. n
        OBVIOUS
      <4>2. l.of[outputs[j]] = Fresh
        BY <1>7, <3>3, <4>1
      <4>3. QED
        BY <2>4, <3>1, <3>2, <4>1, <4>2
    <3>6. ASSUME NEW m \in Ciphertexts \ DOMAIN shift PROVE g.of[m] = h.of[m]
      <4>1. m # z
        BY <2>1
      <4>2. QED
        BY <1>7, <2>4, <3>1, <3>3, <4>1
    <3>7. QED
      BY <3>4, <3>5, <3>6
  <2>6. QED
    BY <2>5 DEF g, k, z
<1>8. ASSUME NEW i \in Nat, i \in I PROVE i + 1 \in I
  <2>1. SUFFICES ASSUME NEW j \in 1 .. n, j = i + 1, Done(j - 1, Loop[j - 1])
                 PROVE  Done(j, Loop[j])
    BY <1>3, <1>8
  <2> HIDE DEF After, Done
  <2>2. Loop[j] = After(j, Loop[j - 1])
    <3> HIDE DEF start
    <3>1. QED
      BY <1>3, <1>4
  <2>3. QED
    BY <1>7, <2>1, <2>2
<1> HIDE DEF I
<1>9. n \in I
  BY <1>3, <1>6, <1>8, Induction
<1>10. Done(n, Loop[n])
  BY <1>3, <1>9 DEF I
<1>11. QED
  BY <1>1, <1>3, <1>10 DEF Good

-----------------------------------------------------------------------------
(* The calls that may leave everything as it is.                            *)
LEMMA PowerChecksAre ==
  ASSUME NEW a
  PROVE  OfCoefficients(a) \o << <<HoldsParts(a, 2), "size">> >> =
           << <<~a.ntt, "domain">>, <<HoldsParts(a, 2), "size">> >>
<1>1. ASSUME NEW p, NEW q PROVE <<p>> \o <<q>> = <<p, q>>
  <2> DEFINE u == <<p>> \o <<q>>
  <2>1. u \in Seq({p, q}) /\ Len(u) = 2
    OBVIOUS
  <2>2. u[1] = p /\ u[2] = q
    OBVIOUS
  <2> HIDE DEF u
  <2>3. u = <<u[1], u[2]>>
    BY <2>1
  <2>4. QED
    BY <2>2, <2>3 DEF u
<1>2. QED
  BY <1>1 DEF OfCoefficients

(* A product with a power of X has two polynomials and keeps the flag.      *)
LEMMA PowerWrites ==
  ASSUME NEW h, AHeap(h), NEW x \in Names, NEW z \in Names, NEW k, k # 0,
         h.outcome = "ok" => Formed(h.of[x])
  PROVE  LET g == multiply_power_of_X(h, x, z, k)
             a == h.of[x]
         IN  \/ Threw(h, g, {x})
             \/ Wrote(h, g, z) /\ Made(g, z, 2, a.relin, a.ntt)
<1> DEFINE a == h.of[x]
           parts == [i \in 1 .. 2 |-> Mul2(a.parts[i], PowerOfX[k])]
           r == Result(a, 2, a.relin, a.ntt, a.dom, parts)
           next == Put(h, z, r)
           form == ~a.ntt
           held == HoldsParts(a, 2)
           checks == << <<form, "domain">>, <<held, "size">> >>
           g == multiply_power_of_X(h, x, z, k)
<1>1. g = Checked(h, checks, next)
  <2>1. OfCoefficients(a) \o << <<HoldsParts(a, 2), "size">> >> = checks
    BY PowerChecksAre
  <2>2. QED
    BY <2>1 DEF multiply_power_of_X
<1>2. h.outcome = "ok" =>
        /\ Size(a) \in 2 .. 3 /\ a.relin \in BOOLEAN /\ a.ntt \in BOOLEAN
        /\ held
        /\ ~held /\ form => Small(a)
  BY FormedParts DEF Size, Small
<1>3. h.outcome = "ok" /\ form /\ held =>
        Wrote(h, next, z) /\ Made(next, z, 2, a.relin, a.ntt)
  <2>1. SUFFICES ASSUME h.outcome = "ok", form, held
                 PROVE  Wrote(h, next, z) /\ Made(next, z, 2, a.relin, a.ntt)
    OBVIOUS
  <2>2. DOMAIN parts = 1 .. 2 /\ Len(parts) = 2
    BY <1>2, <2>1
  <2> HIDE DEF parts, a
  <2>3. Formed(r) /\ r.size = 2 /\ r.relin = a.relin /\ r.ntt = a.ntt
    BY <1>2, <2>1, <2>2 DEF Result, Formed
  <2> HIDE DEF r
  <2>4. QED
    BY <2>1, <2>3, PutWrites DEF Made
<1>4. /\ DOMAIN checks = 1 .. 2
      /\ checks[1][2] = "domain" /\ checks[2][2] = "size"
      /\ checks[1][1] = form /\ checks[2][1] = held
  OBVIOUS
<1> HIDE DEF form, held, checks, next, g
<1>5. \A i \in DOMAIN checks :
        /\ checks[i][2] \in {"parts", "domain", "size", "key"}
        /\ \/ h.outcome # "ok" \/ checks[i][2] # "size" \/ checks[i][1]
           \/ \E j \in DOMAIN checks : j < i /\ ~checks[j][1]
           \/ \E n \in {x} : Small(h.of[n])
  <2>1. h.outcome = "ok" /\ ~checks[2][1] /\ checks[1][1] => \E n \in {x} : Small(h.of[n])
    BY <1>2, <1>4
  <2>2. \A i \in DOMAIN checks : i = 1 \/ i = 2
    BY <1>4
  <2>3. QED
    BY <1>4, <2>1, <2>2
<1>6. \/ h.outcome = "ok" /\ (\A i \in DOMAIN checks : checks[i][1]) /\ g = next
      \/ Threw(h, g, {x})
  BY <1>1, <1>4, <1>5, Guarded
<1>7. QED
  BY <1>3, <1>4, <1>6 DEF g, Made

(* A transform writes two polynomials, or nothing.                          *)
LEMMA TransformWrites ==
  ASSUME NEW h, AHeap(h), NEW x \in Names, NEW z \in Names,
         h.outcome = "ok" => Formed(h.of[x])
  PROVE  LET g == transform_to_ntt(h, x, z)
         IN  g = h \/ Threw(h, g, {x}) \/ (Wrote(h, g, z) /\ Good(g, z))
<1> DEFINE a == h.of[x]
           two == ~a.relin
           held == HoldsParts(a, 2)
           outer == << <<two, "parts">> >>
           inner == << <<held, "size">> >>
           parts == SubSeq(a.parts, 1, 2)
           r == Result(a, 2, a.relin, TRUE, "ntt", parts)
           written == Put(h, z, r)
           inside == Checked(h, inner, written)
           next == IF a.ntt THEN h ELSE inside
           g == transform_to_ntt(h, x, z)
<1>1. g = Checked(h, outer, next)
  BY DEF transform_to_ntt
<1>2. h.outcome = "ok" => held /\ DOMAIN parts = 1 .. 2 /\ a.relin \in BOOLEAN
  BY FormedParts
<1>3. h.outcome = "ok" /\ two => Wrote(h, written, z) /\ Good(written, z)
  <2>1. SUFFICES ASSUME h.outcome = "ok", two PROVE Wrote(h, written, z) /\ Good(written, z)
    OBVIOUS
  <2>2. DOMAIN parts = 1 .. 2 /\ Len(parts) = 2
    BY <1>2, <2>1
  <2> HIDE DEF parts, a
  <2>3. Formed(r) /\ ~r.relin
    BY <1>2, <2>1, <2>2 DEF Result, Formed
  <2> HIDE DEF r
  <2>4. QED
    BY <2>1, <2>3, PutWrites DEF Good, Small
<1>4. /\ DOMAIN outer = 1 .. 1 /\ outer[1][2] = "parts" /\ outer[1][1] = two
      /\ DOMAIN inner = 1 .. 1 /\ inner[1][2] = "size" /\ inner[1][1] = held
  OBVIOUS
<1> HIDE DEF two, held, outer, inner, written, inside, next, g
<1>5. \A i \in DOMAIN outer :
        /\ outer[i][2] \in {"parts", "domain", "size", "key"}
        /\ \/ h.outcome # "ok" \/ outer[i][2] # "size" \/ outer[i][1]
           \/ \E j \in DOMAIN outer : j < i /\ ~outer[j][1]
           \/ \E n \in {x} : Small(h.of[n])
  BY <1>4
<1>6. (h.outcome = "ok" /\ (\A i \in DOMAIN outer : outer[i][1]) /\ g = next) \/ Threw(h, g, {x})
  BY <1>1, <1>4, <1>5, Guarded
<1>7. (\A i \in DOMAIN outer : outer[i][1]) => two
  BY <1>4
<1>8. h.outcome = "ok" => inside = written
  <2>1. h.outcome = "ok" => \A i \in DOMAIN inner : inner[i][1]
    <3>1. DOMAIN inner = 1 .. 1 /\ inner[1][1] = held
      BY <1>4
    <3>2. (\A i \in DOMAIN inner : inner[i][1]) <=> held
      BY <3>1
    <3>3. QED
      BY <1>2, <3>2
  <2>2. DOMAIN inner \in SUBSET Nat
    BY <1>4
  <2>3. QED
    BY <2>1, <2>2, CheckedIs DEF inside
<1>9. QED
  BY <1>3, <1>6, <1>7, <1>8 DEF next, g

(* So does the transform back.                                              *)
LEMMA TransformBackWrites ==
  ASSUME NEW h, AHeap(h), NEW x \in Names, NEW z \in Names,
         h.outcome = "ok" => Formed(h.of[x])
  PROVE  LET g == transform_from_ntt(h, x, z)
         IN  g = h \/ Threw(h, g, {x}) \/ (Wrote(h, g, z) /\ Good(g, z))
<1> DEFINE a == h.of[x]
           two == ~a.relin
           held == HoldsParts(a, 2)
           outer == << <<two, "parts">> >>
           inner == << <<held, "size">> >>
           parts == SubSeq(a.parts, 1, 2)
           r == Result(a, 2, a.relin, FALSE, "coeff", parts)
           written == Put(h, z, r)
           inside == Checked(h, inner, written)
           next == IF ~a.ntt THEN h ELSE inside
           g == transform_from_ntt(h, x, z)
<1>1. g = Checked(h, outer, next)
  BY DEF transform_from_ntt
<1>2. h.outcome = "ok" => held /\ DOMAIN parts = 1 .. 2 /\ a.relin \in BOOLEAN
  BY FormedParts
<1>3. h.outcome = "ok" /\ two => Wrote(h, written, z) /\ Good(written, z)
  <2>1. SUFFICES ASSUME h.outcome = "ok", two PROVE Wrote(h, written, z) /\ Good(written, z)
    OBVIOUS
  <2>2. DOMAIN parts = 1 .. 2 /\ Len(parts) = 2
    BY <1>2, <2>1
  <2> HIDE DEF parts, a
  <2>3. Formed(r) /\ ~r.relin
    BY <1>2, <2>1, <2>2 DEF Result, Formed
  <2> HIDE DEF r
  <2>4. QED
    BY <2>1, <2>3, PutWrites DEF Good, Small
<1>4. /\ DOMAIN outer = 1 .. 1 /\ outer[1][2] = "parts" /\ outer[1][1] = two
      /\ DOMAIN inner = 1 .. 1 /\ inner[1][2] = "size" /\ inner[1][1] = held
  OBVIOUS
<1> HIDE DEF two, held, outer, inner, written, inside, next, g
<1>5. \A i \in DOMAIN outer :
        /\ outer[i][2] \in {"parts", "domain", "size", "key"}
        /\ \/ h.outcome # "ok" \/ outer[i][2] # "size" \/ outer[i][1]
           \/ \E j \in DOMAIN outer : j < i /\ ~outer[j][1]
           \/ \E n \in {x} : Small(h.of[n])
  BY <1>4
<1>6. (h.outcome = "ok" /\ (\A i \in DOMAIN outer : outer[i][1]) /\ g = next) \/ Threw(h, g, {x})
  BY <1>1, <1>4, <1>5, Guarded
<1>7. (\A i \in DOMAIN outer : outer[i][1]) => two
  BY <1>4
<1>8. h.outcome = "ok" => inside = written
  <2>1. h.outcome = "ok" => \A i \in DOMAIN inner : inner[i][1]
    <3>1. DOMAIN inner = 1 .. 1 /\ inner[1][1] = held
      BY <1>4
    <3>2. (\A i \in DOMAIN inner : inner[i][1]) <=> held
      BY <3>1
    <3>3. QED
      BY <1>2, <3>2
  <2>2. DOMAIN inner \in SUBSET Nat
    BY <1>4
  <2>3. QED
    BY <2>1, <2>2, CheckedIs DEF inside
<1>9. QED
  BY <1>3, <1>6, <1>7, <1>8 DEF next, g

(* The outputs of the rotations at once are written only when all are       *)
(* there.                                                                   *)
LEMMA HoistedWorks ==
  ASSUME NEW h, AHeap(h), h.outcome = "ok", \A n \in Ciphertexts : Formed(h.of[n]),
         Good(h, "result"), NEW x \in Ciphertexts, NEW shift \in Shifts
  PROVE  LET g == rotate_rows_hoisted(h, x, shift)
         IN  /\ AHeap(g)
             /\ g.outcome = "size" => Small(h.of[x])
             /\ \/ g.outcome # "ok" /\ g.of = h.of
                \/ /\ g.outcome = "ok"
                   /\ \A n \in Ciphertexts : Good(g, n) \/ g.of[n] = h.of[n]
<1> DEFINE a == h.of[x]
           done == HoistedOutputs(h, x, shift)
           next == IF done.outcome = "ok" THEN done ELSE [h EXCEPT !.outcome = done.outcome]
           g == rotate_rows_hoisted(h, x, shift)
<1>1. g = Checked(h, LinearChecks(a), next)
  BY DEF rotate_rows_hoisted
<1>2. ~a.relin =>
        /\ AHeap(done) /\ done.outcome # "size"
        /\ done.outcome = "ok" =>
             /\ \A n \in DOMAIN shift : Good(done, n)
             /\ \A n \in Ciphertexts \ DOMAIN shift : done.of[n] = h.of[n]
  BY HoistedOutputsWork
<1> HIDE DEF done
<1>3. ~a.relin =>
        /\ AHeap(next) /\ next.outcome # "size"
        /\ \/ next.outcome # "ok" /\ next.of = h.of
           \/ /\ next.outcome = "ok"
              /\ \A n \in Ciphertexts : Good(next, n) \/ next.of[n] = h.of[n]
  <2>1. SUFFICES ASSUME ~a.relin
                 PROVE  /\ AHeap(next) /\ next.outcome # "size"
                        /\ \/ next.outcome # "ok" /\ next.of = h.of
                           \/ /\ next.outcome = "ok"
                              /\ \A n \in Ciphertexts : Good(next, n) \/ next.of[n] = h.of[n]
    OBVIOUS
  <2>2. CASE done.outcome = "ok"
    BY <1>2, <2>1, <2>2
  <2>3. CASE done.outcome # "ok"
    BY <1>2, <2>1, <2>3 DEF AHeap
  <2>4. QED
    BY <2>2, <2>3
<1> HIDE DEF next, g
<1>4. (~a.relin /\ g = next) \/ Threw(h, g, {x})
  BY <1>1, LinearGuard, InnerNames
<1>5. QED
  BY <1>3, <1>4 DEF Threw, g

-----------------------------------------------------------------------------
(* What a call does to the ciphertexts of the program.                      *)
Fine(h, g) ==
  /\ AHeap(g)
  /\ \A n \in Ciphertexts : Formed(g.of[n])
  /\ g.outcome # "ok" => \A n \in Ciphertexts : g.of[n] = h.of[n]
  /\ g.outcome = "size" => \E n \in Ciphertexts : Small(h.of[n])
  /\ (~Unchecked /\ \A n \in Ciphertexts : ~Small(h.of[n])) =>
       \A n \in Ciphertexts : ~Small(g.of[n])
Ready(h) ==
  /\ AHeap(h) /\ h.outcome = "ok" /\ \A n \in Ciphertexts : Formed(h.of[n])
  /\ Good(h, "rotated") /\ Good(h, "result")

(* A call that worked is fine.                                              *)
LEMMA WorkedIsFine ==
  ASSUME NEW h, Ready(h), NEW g, NEW z, NEW S \in SUBSET Ciphertexts, Worked(h, g, z, S)
  PROVE  Fine(h, g)
  BY DEF Ready, Worked, Fine, Good

(* And one that wrote one good result, threw or did nothing.                *)
LEMMA WroteIsFine ==
  ASSUME NEW h, Ready(h), NEW g, NEW z, NEW S \in SUBSET Ciphertexts,
         g = h \/ Threw(h, g, S) \/ (Wrote(h, g, z) /\ Good(g, z))
  PROVE  Fine(h, g)
<1>1. CASE g = h
  BY <1>1 DEF Ready, Fine
<1>2. CASE Threw(h, g, S)
  BY <1>2 DEF Ready, Fine, Threw
<1>3. CASE Wrote(h, g, z) /\ Good(g, z)
  <2>1. Worked(h, g, z, S)
    BY <1>3, InnerNames DEF Worked, Wrote
  <2>2. QED
    BY <2>1, WorkedIsFine
<1>4. QED
  BY <1>1, <1>2, <1>3

(* Every call is fine.                                                      *)
LEMMA SingleCalls ==
  ASSUME NEW h, Ready(h), NEW x \in Ciphertexts, NEW y \in Ciphertexts,
         NEW z \in Ciphertexts, NEW t, NEW k \in Int, NEW elt
  PROVE  /\ Fine(h, add(h, x, y, z)) /\ Fine(h, sub(h, x, y, z))
         /\ Fine(h, negate(h, x, z))
         /\ Fine(h, add_plain(h, x, t, z)) /\ Fine(h, sub_plain(h, x, t, z))
         /\ Fine(h, multiply(h, x, y, z)) /\ Fine(h, multiply_plain(h, x, t, z))
         /\ Fine(h, relinearize_inplace(h, x))
         /\ Fine(h, rotate_rows(h, x, z, k)) /\ Fine(h, rotate_rows_inplace(h, x, k))
         /\ Fine(h, rotate_columns(h, x, z)) /\ Fine(h, apply_galois(h, x, z, elt))
         /\ Fine(h, keyswitch(h, x, z))
         /\ Fine(h, transform_to_ntt(h, x, z)) /\ Fine(h, transform_from_ntt(h, x, z))
         /\ Fine(h, NOT(h, x, z))
<1>1. /\ AHeap(h) /\ h.outcome = "ok" /\ Formed(h.of[x]) /\ Formed(h.of[y])
      /\ Formed(h.of[z]) /\ x \in Names /\ y \in Names /\ z \in Names
      /\ {x} \in SUBSET Ciphertexts /\ {x, y} \in SUBSET Ciphertexts
  BY InnerNames DEF Ready
<1>2. Fine(h, add(h, x, y, z)) /\ Fine(h, sub(h, x, y, z))
  BY <1>1, AddIsGood, WroteIsFine
<1>3. Fine(h, negate(h, x, z))
  BY <1>1, NegateWrites, MadeIsGood, WroteIsFine
<1>4. Fine(h, add_plain(h, x, t, z))
  <2> DEFINE g == add_plain(h, x, t, z)
  <2>1. Threw(h, g, {x}) \/ (Wrote(h, g, z) /\ Made(g, z, 2, FALSE, h.of[x].ntt))
    BY <1>1, AddPlainWrites
  <2> HIDE DEF g
  <2>2. Made(g, z, 2, FALSE, h.of[x].ntt) => Good(g, z)
    BY DEF Made, Good, Small
  <2>3. Fine(h, g)
    BY <1>1, <2>1, <2>2, WroteIsFine
  <2>4. QED
    BY <2>3 DEF g
<1>4a. Fine(h, sub_plain(h, x, t, z))
  <2> DEFINE g == sub_plain(h, x, t, z)
  <2>1. Threw(h, g, {x}) \/ (Wrote(h, g, z) /\ Made(g, z, 2, FALSE, h.of[x].ntt))
    BY <1>1, SubPlainWrites
  <2> HIDE DEF g
  <2>2. Made(g, z, 2, FALSE, h.of[x].ntt) => Good(g, z)
    BY DEF Made, Good, Small
  <2>3. Fine(h, g)
    BY <1>1, <2>1, <2>2, WroteIsFine
  <2>4. QED
    BY <2>3 DEF g
<1>5. Fine(h, multiply(h, x, y, z))
  <2> DEFINE g == multiply(h, x, y, z)
  <2>1. Threw(h, g, {x, y}) \/ (Wrote(h, g, z) /\ Made(g, z, 3, TRUE, FALSE))
    BY <1>1, MultiplyWrites
  <2> HIDE DEF g
  <2>2. Made(g, z, 3, TRUE, FALSE) => Good(g, z)
    BY DEF Made, Good, Small
  <2>3. Fine(h, g)
    BY <1>1, <2>1, <2>2, WroteIsFine
  <2>4. QED
    BY <2>3 DEF g
<1>6. Fine(h, multiply_plain(h, x, t, z))
  BY <1>1, MultiplyPlainWrites, TwoIsGood, WroteIsFine
<1>7. Fine(h, relinearize_inplace(h, x))
  BY <1>1, RelinearizeWrites, TwoIsGood, WroteIsFine
<1>8. Fine(h, rotate_rows(h, x, z, k))
  BY <1>1, RotateRowsWrites, WroteIsFine
<1>9. Fine(h, rotate_rows_inplace(h, x, k))
  <2>1. Fine(h, rotate_rows(h, x, x, k)) /\ Fine(h, h)
    BY <1>1, RotateRowsWrites, WroteIsFine
  <2>2. QED
    BY <2>1 DEF rotate_rows_inplace
<1>10. Fine(h, rotate_columns(h, x, z)) /\ Fine(h, apply_galois(h, x, z, elt))
  BY <1>1, RotateColumnsWrites, ApplyGaloisWrites, WroteIsFine
<1>11. Fine(h, keyswitch(h, x, z))
  <2> DEFINE g == keyswitch(h, x, z)
  <2>1. Threw(h, g, {x}) \/ (Wrote(h, g, z) /\ Made(g, z, 2, FALSE, h.of[x].ntt))
    BY <1>1, KeySwitchWrites
  <2> HIDE DEF g
  <2>2. Made(g, z, 2, FALSE, h.of[x].ntt) => Good(g, z)
    BY DEF Made, Good, Small
  <2>3. Fine(h, g)
    BY <1>1, <2>1, <2>2, WroteIsFine
  <2>4. QED
    BY <2>3 DEF g
<1>12. Fine(h, transform_to_ntt(h, x, z)) /\ Fine(h, transform_from_ntt(h, x, z))
  BY <1>1, TransformWrites, TransformBackWrites, WroteIsFine
<1>13. Fine(h, NOT(h, x, z))
  <2> DEFINE g == one_minus_cipher(h, x, z)
  <2>1. Threw(h, g, {x}) \/ (Wrote(h, g, z) /\ Good(g, z))
    BY <1>1, OneMinusWrites
  <2> HIDE DEF g
  <2>2. Fine(h, g)
    BY <1>1, <2>1, WroteIsFine
  <2>3. QED
    BY <2>2 DEF g, NOT
<1>14. QED
  BY <1>2, <1>3, <1>4, <1>4a, <1>5, <1>6, <1>7, <1>8, <1>9, <1>10, <1>11, <1>12, <1>13

(* The calls that write one polynomial in place are fine.                   *)
LEMMA InplaceCalls ==
  ASSUME NEW h, Ready(h), NEW x \in Ciphertexts, NEW t
  PROVE  Fine(h, add_plain_inplace(h, x, t)) /\ Fine(h, sub_plain_inplace(h, x, t))
<1>1. ASSUME NEW g, \/ Threw(h, g, {x})
                    \/ /\ Wrote(h, g, x)
                       /\ Made(g, x, h.of[x].size, h.of[x].relin, h.of[x].ntt)
      PROVE  Fine(h, g)
  <2>1. CASE Threw(h, g, {x})
    BY <2>1, WroteIsFine
  <2>2. CASE Wrote(h, g, x) /\ Made(g, x, h.of[x].size, h.of[x].relin, h.of[x].ntt)
    BY <2>2, InnerNames DEF Ready, Wrote, Made, Fine, Small
  <2>3. QED
    BY <1>1, <2>1, <2>2
<1>2. AHeap(h) /\ Formed(h.of[x]) /\ x \in Names
  BY InnerNames DEF Ready
<1>3. Fine(h, add_plain_inplace(h, x, t))
  BY <1>1, <1>2, AddPlainInplaceWrites
<1>4. Fine(h, sub_plain_inplace(h, x, t))
  BY <1>1, <1>2, SubPlainInplaceWrites
<1>5. QED
  BY <1>3, <1>4

(* So is the product with a power of X, of a ciphertext of two polynomials  *)
(* or Unchecked.                                                            *)
LEMMA PowerCall ==
  ASSUME NEW h, Ready(h), NEW x \in Ciphertexts, NEW z \in Ciphertexts, NEW k,
         Unchecked \/ ~h.of[x].relin
  PROVE  Fine(h, multiply_power_of_X(h, x, z, k))
<1> DEFINE g == multiply_power_of_X(h, x, z, k)
           a == h.of[x]
<1>1. AHeap(h) /\ h.outcome = "ok" /\ Formed(a) /\ x \in Names /\ z \in Names
      /\ {x} \in SUBSET Ciphertexts
  BY InnerNames DEF Ready
<1>2. CASE k = 0
  <2>1. g = h
    BY <1>2 DEF multiply_power_of_X
  <2>2. QED
    BY <1>1, <2>1, WroteIsFine
<1>3. CASE k # 0
  <2>1. Threw(h, g, {x}) \/ (Wrote(h, g, z) /\ Made(g, z, 2, a.relin, a.ntt))
    BY <1>1, <1>3, PowerWrites
  <2> HIDE DEF g
  <2>2. CASE Threw(h, g, {x})
    BY <1>1, <2>2, WroteIsFine DEF g
  <2>3. CASE Wrote(h, g, z) /\ Made(g, z, 2, a.relin, a.ntt)
    <3>1. Fine(h, g)
      BY <2>3, InnerNames DEF Ready, Wrote, Made, Fine, Small
    <3>2. QED
      BY <3>1 DEF g
  <2>4. QED
    BY <2>1, <2>2, <2>3
<1>4. QED
  BY <1>2, <1>3

(* So are the rotations at once.                                            *)
LEMMA HoistedCall ==
  ASSUME NEW h, Ready(h), NEW x \in Ciphertexts, NEW shift \in Shifts
  PROVE  Fine(h, rotate_rows_hoisted(h, x, shift))
<1> DEFINE g == rotate_rows_hoisted(h, x, shift)
<1>1. /\ AHeap(g)
      /\ g.outcome = "size" => Small(h.of[x])
      /\ \/ g.outcome # "ok" /\ g.of = h.of
         \/ /\ g.outcome = "ok"
            /\ \A n \in Ciphertexts : Good(g, n) \/ g.of[n] = h.of[n]
  BY HoistedWorks DEF Ready
<1> HIDE DEF g
<1>2. Fine(h, g)
  <2>1. AHeap(g) /\ (g.outcome = "size" => \E n \in Ciphertexts : Small(h.of[n]))
    BY <1>1
  <2>2. CASE g.outcome # "ok" /\ g.of = h.of
    BY <2>1, <2>2 DEF Fine, Ready
  <2>3. CASE /\ g.outcome = "ok"
             /\ \A n \in Ciphertexts : Good(g, n) \/ g.of[n] = h.of[n]
    <3>1. \A n \in Ciphertexts : Formed(g.of[n]) /\ (Small(g.of[n]) => Small(h.of[n]))
      BY <2>3 DEF Ready, Good
    <3>2. QED
      BY <2>1, <2>3, <3>1 DEF Fine
  <2>4. QED
    BY <1>1, <2>2, <2>3
<1>3. QED
  BY <1>2 DEF g

(* So are the operations made of others.                                    *)
LEMMA ComposedCalls ==
  ASSUME NEW h, Ready(h), NEW x \in Ciphertexts, NEW y \in Ciphertexts,
         NEW z \in Ciphertexts, NEW t
  PROVE  /\ Fine(h, Returned(sum_slots(h, x), z))
         /\ Fine(h, Returned(inner_product(h, x, y), z))
         /\ Fine(h, Returned(inner_product_plain(h, x, t), z))
         /\ Fine(h, AND(h, x, y, z)) /\ Fine(h, OR(h, x, y, z)) /\ Fine(h, XOR(h, x, y, z))
         /\ Fine(h, NAND(h, x, y, z)) /\ Fine(h, NOR(h, x, y, z)) /\ Fine(h, XNOR(h, x, y, z))
         /\ Fine(h, AND_plain(h, x, t, z)) /\ Fine(h, OR_plain(h, x, t, z))
         /\ Fine(h, XOR_plain(h, x, t, z)) /\ Fine(h, NAND_plain(h, x, t, z))
         /\ Fine(h, NOR_plain(h, x, t, z)) /\ Fine(h, XNOR_plain(h, x, t, z))
<1>1. /\ AHeap(h) /\ h.outcome = "ok" /\ Formed(h.of[x]) /\ Formed(h.of[y]) /\ Good(h, "rotated")
      /\ {x} \in SUBSET Ciphertexts /\ {x, y} \in SUBSET Ciphertexts
  BY DEF Ready
<1>2. /\ Fine(h, Returned(sum_slots(h, x), z))
      /\ Fine(h, Returned(inner_product(h, x, y), z))
      /\ Fine(h, Returned(inner_product_plain(h, x, t), z))
  <2>1. /\ Worked(h, Returned(sum_slots(h, x), z), z, {x})
        /\ Worked(h, Returned(inner_product(h, x, y), z), z, {x, y})
        /\ Worked(h, Returned(inner_product_plain(h, x, t), z), z, {x})
    BY <1>1, SumsWork
  <2>2. QED
    BY <1>1, <2>1, WorkedIsFine
<1>3. /\ Worked(h, AND(h, x, y, z), z, {x, y})
      /\ Worked(h, OR(h, x, y, z), z, {x, y})
      /\ Worked(h, XOR(h, x, y, z), z, {x, y})
  BY <1>1, LogicWorks
<1>4. /\ Worked(h, NAND(h, x, y, z), z, {x, y})
      /\ Worked(h, NOR(h, x, y, z), z, {x, y})
      /\ Worked(h, XNOR(h, x, y, z), z, {x, y})
  BY <1>3, OneMinusWorks DEF NAND, NOR, XNOR, AND
<1>5. /\ Worked(h, AND_plain(h, x, t, z), z, {x})
      /\ Worked(h, OR_plain(h, x, t, z), z, {x})
      /\ Worked(h, XOR_plain(h, x, t, z), z, {x})
  BY <1>1, LogicPlainWorks
<1>6. /\ Worked(h, NAND_plain(h, x, t, z), z, {x})
      /\ Worked(h, NOR_plain(h, x, t, z), z, {x})
      /\ Worked(h, XNOR_plain(h, x, t, z), z, {x})
  BY <1>5, OneMinusWorks DEF NAND_plain, NOR_plain, XNOR_plain, AND_plain
<1>7. /\ Fine(h, AND(h, x, y, z)) /\ Fine(h, OR(h, x, y, z)) /\ Fine(h, XOR(h, x, y, z))
      /\ Fine(h, NAND(h, x, y, z)) /\ Fine(h, NOR(h, x, y, z)) /\ Fine(h, XNOR(h, x, y, z))
  BY <1>1, <1>3, <1>4, WorkedIsFine
<1>8. /\ Fine(h, AND_plain(h, x, t, z)) /\ Fine(h, OR_plain(h, x, t, z))
      /\ Fine(h, XOR_plain(h, x, t, z)) /\ Fine(h, NAND_plain(h, x, t, z))
      /\ Fine(h, NOR_plain(h, x, t, z)) /\ Fine(h, XNOR_plain(h, x, t, z))
  BY <1>1, <1>5, <1>6, WorkedIsFine
<1>9. QED
  BY <1>2, <1>7, <1>8

-----------------------------------------------------------------------------
(* The invariant of the ciphertexts of a program: each holds the            *)
(* polynomials its size tells of, whatever their number means.              *)
Held == /\ object = [n \in Ciphertexts |-> object[n]]
        /\ \A n \in Ciphertexts : Formed(object[n])
NoneSmall == \A n \in Ciphertexts : ~Small(object[n])

(* The objects that a call starts with are fine for it.                     *)
LEMMA HeapIsReady ==
  ASSUME Held
  PROVE  Ready(Heap) /\ \A n \in Ciphertexts : Heap.of[n] = object[n]
<1>1. Formed(Fresh) /\ ~Fresh.relin
  BY DEF Fresh, Formed
<1>2. Ciphertexts \cap Inner = {} /\ {"rotated", "result"} \subseteq Inner
  BY ParametersOK DEF Inner
<1>3. /\ AHeap(Heap) /\ Heap.outcome = "ok"
      /\ \A n \in Ciphertexts : Heap.of[n] = object[n]
      /\ \A n \in Inner : Heap.of[n] = Fresh
  BY <1>2 DEF Heap, AHeap, Names
<1> HIDE DEF Heap
<1>4. Good(Heap, "rotated") /\ Good(Heap, "result")
  BY <1>1, <1>2, <1>3 DEF Good, Small
<1>5. QED
  BY <1>3, <1>4 DEF Held, Ready

(* What the end of a call makes of the ciphertexts of the program.          *)
EndsWell ==
  /\ Held'
  /\ outcome' # "ok" => object' = object
  /\ ~Unchecked /\ NoneSmall => NoneSmall' /\ outcome' # "size"

(* A fine call keeps the invariant.                                         *)
LEMMA CalledKeeps ==
  ASSUME Held, NEW c, NEW h, Called(c, h), Fine(Heap, h)
  PROVE  EndsWell
<1>1. \A n \in Ciphertexts : Heap.of[n] = object[n] /\ object'[n] = h.of[n]
  BY HeapIsReady DEF Called
<1>2. object' = [n \in Ciphertexts |-> h.of[n]] /\ outcome' = h.outcome
  BY DEF Called
<1> HIDE DEF Heap
<1>3. Held'
  BY <1>1, <1>2 DEF Held, Fine
<1>4. ASSUME outcome' # "ok" PROVE object' = object
  <2>1. \A n \in Ciphertexts : h.of[n] = object[n]
    BY <1>1, <1>2, <1>4 DEF Fine
  <2>2. QED
    BY <1>2, <2>1 DEF Held
<1>5. ASSUME ~Unchecked, NoneSmall PROVE NoneSmall' /\ outcome' # "size"
  BY <1>1, <1>2, <1>5 DEF NoneSmall, Fine
<1>6. QED
  BY <1>3, <1>4, <1>5 DEF EndsWell

(* A call that writes a plaintext leaves the ciphertexts alone.             *)
LEMMA TextKeeps ==
  ASSUME Held, object' = object, outcome' \in {outcome, "ok"}
  PROVE  Held' /\ (NoneSmall => NoneSmall')
  BY DEF Held, NoneSmall

(* The calls of a program are fine ones.                                    *)
LEMMA EncryptIsFine ==
  ASSUME NEW h, Ready(h), NEW p, NEW z \in Ciphertexts
  PROVE  Fine(h, Put(h, z, encrypt(p)))
<1>1. Formed(encrypt(p)) /\ ~encrypt(p).relin
  BY DEF encrypt, Formed
<1> DEFINE e == encrypt(p)
           g == Put(h, z, e)
<1> HIDE DEF e
<1>2. Wrote(h, g, z) /\ g.of[z] = e
  BY InnerNames, PutWrites DEF Ready
<1>3. Good(g, z)
  BY <1>1, <1>2 DEF Good, Small, e
<1> HIDE DEF g
<1>4. Fine(h, g)
  BY <1>2, <1>3, WroteIsFine
<1>5. QED
  BY <1>4 DEF g, e

(* Every step of a program keeps the invariant.                             *)
LEMMA NextKeeps ==
  ASSUME Held, Next
  PROVE  EndsWell
<1> DEFINE H == Heap
<1>1. Ready(H) /\ \A n \in Ciphertexts : H.of[n] = object[n]
  BY HeapIsReady
<1>2. /\ Results \subseteq Ciphertexts
      /\ \A k \in Steps \cup GaloisSteps : k \in Int
  BY ParametersOK DEF Results
<1>3. \A c, h : Called(c, h) /\ Fine(H, h) => EndsWell
  BY CalledKeeps
<1>4. CASE AddOrSubtract
  <2>1. PICK x \in Ciphertexts, y \in Ciphertexts, z \in Results :
          \/ Called(Of("add", x, y, z, 0), add(H, x, y, z))
          \/ Called(Of("sub", x, y, z, 0), sub(H, x, y, z))
    BY <1>4 DEF AddOrSubtract
  <2> HIDE DEF H
  <2>2. QED
    BY <1>1, <1>2, <1>3, <2>1, SingleCalls
<1>5. CASE Negate
  <2>1. PICK x \in Ciphertexts, z \in Results :
          Called(Of("negate", x, x, z, 0), negate(H, x, z))
    BY <1>5 DEF Negate
  <2> HIDE DEF H
  <2>2. QED
    BY <1>1, <1>2, <1>3, <2>1, SingleCalls
<1>6. CASE AddPlain
  <2>1. PICK x \in Ciphertexts, z \in Results, p \in Plaintexts :
          \/ Called(Of("add", x, p, z, 0), add_plain(H, x, text[p], z))
          \/ Called(Of("add", x, p, x, 0), add_plain_inplace(H, x, text[p]))
    BY <1>6 DEF AddPlain
  <2> HIDE DEF H
  <2>2. QED
    BY <1>1, <1>2, <1>3, <2>1, SingleCalls, InplaceCalls
<1>7. CASE SubPlain
  <2>1. PICK x \in Ciphertexts, z \in Results, p \in Plaintexts :
          \/ Called(Of("sub", x, p, z, 0), sub_plain(H, x, text[p], z))
          \/ Called(Of("sub", x, p, x, 0), sub_plain_inplace(H, x, text[p]))
    BY <1>7 DEF SubPlain
  <2> HIDE DEF H
  <2>2. QED
    BY <1>1, <1>2, <1>3, <2>1, SingleCalls, InplaceCalls
<1>8. CASE Multiply
  <2>1. PICK x \in Ciphertexts, y \in Ciphertexts, z \in Results :
          Called(Of("mul", x, y, z, 0), multiply(H, x, y, z))
    BY <1>8 DEF Multiply
  <2> HIDE DEF H
  <2>2. QED
    BY <1>1, <1>2, <1>3, <2>1, SingleCalls
<1>9. CASE MultiplyPlain
  <2>1. PICK x \in Ciphertexts, z \in Results, p \in Plaintexts :
          Called(Of("mul", x, p, z, 0), multiply_plain(H, x, text[p], z))
    BY <1>9 DEF MultiplyPlain
  <2> HIDE DEF H
  <2>2. QED
    BY <1>1, <1>2, <1>3, <2>1, SingleCalls
<1>10. CASE Relinearize
  <2>1. PICK x \in Ciphertexts :
          Called(Of("same", x, x, x, 0), relinearize_inplace(H, x))
    BY <1>10 DEF Relinearize
  <2> HIDE DEF H
  <2>2. QED
    BY <1>1, <1>2, <1>3, <2>1, SingleCalls
<1>11. CASE RotateRows
  <2>1. PICK x \in Ciphertexts, z \in Results, k \in Steps :
          \/ Called(Of("rows", x, x, z, k), rotate_rows(H, x, z, k))
          \/ Called(Of("rows", x, x, x, k), rotate_rows_inplace(H, x, k))
    BY <1>11 DEF RotateRows
  <2> HIDE DEF H
  <2>2. QED
    BY <1>1, <1>2, <1>3, <2>1, SingleCalls
<1>12. CASE RotateColumns
  <2>1. PICK x \in Ciphertexts, z \in Results :
          Called(Of("columns", x, x, z, 0), rotate_columns(H, x, z))
    BY <1>12 DEF RotateColumns
  <2> HIDE DEF H
  <2>2. QED
    BY <1>1, <1>2, <1>3, <2>1, SingleCalls
<1>13. CASE ApplyGalois
  <2>1. PICK x \in Ciphertexts, z \in Results, k \in GaloisSteps :
          Called(Of("rows", x, x, z, k), apply_galois(H, x, z, steps_to_galois_elt(k)))
    BY <1>13 DEF ApplyGalois
  <2> HIDE DEF H
  <2>2. QED
    BY <1>1, <1>2, <1>3, <2>1, SingleCalls
<1>14. CASE RotateHoisted
  <2>1. PICK x \in Ciphertexts, shift \in Shifts :
          Called([Of("hoisted", x, x, x, 0) EXCEPT !.ks = shift],
                 rotate_rows_hoisted(H, x, shift))
    BY <1>14 DEF RotateHoisted
  <2> HIDE DEF H
  <2>2. QED
    BY <1>1, <1>3, <2>1, HoistedCall
<1>15. CASE SwitchKey
  <2>1. PICK x \in Ciphertexts, z \in Results :
          Called(Of("same", x, x, z, 0), keyswitch(H, x, z))
    BY <1>15 DEF SwitchKey
  <2> HIDE DEF H
  <2>2. QED
    BY <1>1, <1>2, <1>3, <2>1, SingleCalls
<1>16. CASE MultiplyPowerOfX
  <2>1. PICK x \in Ciphertexts, z \in Results, k \in Powers :
          /\ Unchecked \/ ~object[x].relin
          /\ Called(Of("power", x, x, z, k), multiply_power_of_X(H, x, z, k))
    BY <1>16 DEF MultiplyPowerOfX
  <2> HIDE DEF H
  <2>2. QED
    BY <1>1, <1>2, <1>3, <2>1, PowerCall
<1>17. CASE Transform
  <2>1. PICK x \in Ciphertexts, z \in Results :
          \/ Called(Of("same", x, x, z, 0), transform_to_ntt(H, x, z))
          \/ Called(Of("same", x, x, z, 0), transform_from_ntt(H, x, z))
    BY <1>17 DEF Transform
  <2> HIDE DEF H
  <2>2. QED
    BY <1>1, <1>2, <1>3, <2>1, SingleCalls
<1>18. CASE SumSlots
  <2>1. PICK x \in Ciphertexts, z \in Results :
          Called(Of("sum", x, x, z, 0), Returned(sum_slots(H, x), z))
    BY <1>18 DEF SumSlots
  <2> HIDE DEF H
  <2>2. QED
    BY <1>1, <1>2, <1>3, <2>1, ComposedCalls
<1>19. CASE InnerProduct
  <2>1. PICK x \in Ciphertexts, y \in Ciphertexts, z \in Results :
          Called(Of("inner", x, y, z, 0), Returned(inner_product(H, x, y), z))
    BY <1>19 DEF InnerProduct
  <2> HIDE DEF H
  <2>2. QED
    BY <1>1, <1>2, <1>3, <2>1, ComposedCalls
<1>20. CASE InnerProductPlain
  <2>1. PICK x \in Ciphertexts, z \in Results, p \in Plaintexts :
          Called(Of("inner", x, p, z, 0), Returned(inner_product_plain(H, x, text[p]), z))
    BY <1>20 DEF InnerProductPlain
  <2> HIDE DEF H
  <2>2. QED
    BY <1>1, <1>2, <1>3, <2>1, ComposedCalls
<1>21. CASE Not
  <2>1. PICK x \in Ciphertexts, z \in Results :
          Called(Of("not", x, x, z, 0), NOT(H, x, z))
    BY <1>21 DEF Not
  <2> HIDE DEF H
  <2>2. QED
    BY <1>1, <1>2, <1>3, <2>1, SingleCalls
<1>22. CASE Logic
  <2>1. PICK x \in Ciphertexts, y \in Ciphertexts, z \in Results :
          \/ Called(Of("and", x, y, z, 0), AND(H, x, y, z))
          \/ Called(Of("or", x, y, z, 0), OR(H, x, y, z))
          \/ Called(Of("xor", x, y, z, 0), XOR(H, x, y, z))
          \/ Called(Of("nand", x, y, z, 0), NAND(H, x, y, z))
          \/ Called(Of("nor", x, y, z, 0), NOR(H, x, y, z))
          \/ Called(Of("xnor", x, y, z, 0), XNOR(H, x, y, z))
    BY <1>22 DEF Logic
  <2> HIDE DEF H
  <2>2. QED
    BY <1>1, <1>2, <1>3, <2>1, ComposedCalls
<1>23. CASE LogicWithPlain
  <2>1. PICK x \in Ciphertexts, p \in Plaintexts, z \in Results :
          \/ Called(Of("and", x, p, z, 0), AND_plain(H, x, text[p], z))
          \/ Called(Of("or", x, p, z, 0), OR_plain(H, x, text[p], z))
          \/ Called(Of("xor", x, p, z, 0), XOR_plain(H, x, text[p], z))
          \/ Called(Of("nand", x, p, z, 0), NAND_plain(H, x, text[p], z))
          \/ Called(Of("nor", x, p, z, 0), NOR_plain(H, x, text[p], z))
          \/ Called(Of("xnor", x, p, z, 0), XNOR_plain(H, x, text[p], z))
    BY <1>23 DEF LogicWithPlain
  <2> HIDE DEF H
  <2>2. QED
    BY <1>1, <1>2, <1>3, <2>1, ComposedCalls
<1>24. CASE Encrypt
  <2>1. PICK p \in Plaintexts, z \in Results :
          Called(Of("same", p, p, z, 0), Put(H, z, encrypt(text[p])))
    BY <1>24 DEF Encrypt
  <2> HIDE DEF H
  <2>2. QED
    BY <1>1, <1>2, <1>3, <2>1, EncryptIsFine
<1>25. CASE Decrypt \/ TransformPlain
  <2>1. object' = object /\ outcome' = "ok"
    BY <1>25 DEF Decrypt, TransformPlain, TextCalled
  <2>2. QED
    BY <2>1, TextKeeps DEF EndsWell
<1>26. QED
  BY <1>4, <1>5, <1>6, <1>7, <1>8, <1>9, <1>10, <1>11, <1>12, <1>13, <1>14,
     <1>15, <1>16, <1>17, <1>18, <1>19, <1>20, <1>21, <1>22, <1>23, <1>24,
     <1>25 DEF Next

-----------------------------------------------------------------------------
(* The ciphertexts a program starts with are encrypted ones.                *)
LEMMA InitHeld == Init => Held /\ NoneSmall
<1> SUFFICES ASSUME Init PROVE Held /\ NoneSmall
  OBVIOUS
<1>1. \A p : Formed(encrypt(p)) /\ ~encrypt(p).relin
  BY DEF encrypt, Formed
<1>2. object = [c \in Ciphertexts |-> encrypt(Encoded(Message[c]))]
  BY DEF Init
<1> HIDE DEF encrypt
<1>3. QED
  BY <1>1, <1>2 DEF Held, NoneSmall, Small

(* A step that changes nothing keeps the invariant.                         *)
LEMMA StutterKeeps ==
  ASSUME Held, UNCHANGED vars
  PROVE  Held' /\ (NoneSmall => NoneSmall')
  BY TextKeeps DEF vars

(* The invariant holds after every sequence of calls.                       *)
THEOREM HeldAlways == Spec => []Held
<1>1. Init => Held
  BY InitHeld
<1>2. Held /\ [Next]_vars => Held'
  BY NextKeeps, StutterKeeps DEF EndsWell
<1>3. QED
  BY <1>1, <1>2, PTL DEF Spec

(* Every ciphertext holds exactly the polynomials that cipher_size_ tells   *)
(* of, through every sequence of calls of the BFV operators, the ones that  *)
(* throw half way included.                                                 *)
THEOREM SizeIsHeldAlways == Spec => []SizeIsHeld
<1>1. Held => SizeIsHeld
  BY DEF Held, Formed, SizeIsHeld
<1>2. QED
  BY <1>1, HeldAlways, PTL

(* A BFV call that throws leaves every ciphertext of the program as it was, *)
(* however many inner calls it had made before the check that failed.       *)
THEOREM ThrowsLeaveAloneAlways == Spec => ThrowsLeaveAlone
<1>1. Held /\ [Next]_vars => [outcome' # "ok" => object' = object]_vars
  BY NextKeeps DEF EndsWell
<1>2. QED
  BY <1>1, HeldAlways, PTL DEF Spec, ThrowsLeaveAlone

(* As long as the program keeps the operands of multiply_power_of_X in two  *)
(* polynomials, no call ever throws for the memory of an operand: what one  *)
(* operation leaves is never too small for another.                         *)
THEOREM NeverTooSmallAlways == ~Unchecked => (Spec => NeverTooSmall)
<1> SUFFICES ASSUME ~Unchecked PROVE Spec => NeverTooSmall
  OBVIOUS
<1> DEFINE IInv == Held /\ NoneSmall
<1>1. Init => IInv
  BY InitHeld
<1>2. IInv /\ [Next]_vars => IInv'
  BY NextKeeps, StutterKeeps DEF EndsWell
<1>3. IInv /\ [Next]_vars => [outcome' # "size"]_vars
  BY NextKeeps DEF EndsWell
<1>4. QED
  BY <1>1, <1>2, <1>3, PTL DEF Spec, NeverTooSmall
=============================================================================
