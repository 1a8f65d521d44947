-------------------------- MODULE TfheGates_proofs --------------------------
(***************************************************************************)
(* Theorems about TfheGates, for every size of the torus, of the ring and  *)
(* of the digits, for every key, mask and error, and for any number of     *)
(* calls: while the errors that the calls make keep to their budgets, the  *)
(* noise of every register stays within the budget of one sample and every *)
(* register opens to the bits that Boolean logic gives.                    *)
(*                                                                         *)
(* The errors are followed exactly: a phase is what it should be plus the  *)
(* error that TfheGates works out, and never at most a worst case, which   *)
(* would not fit the torus of the code.                                    *)
(***************************************************************************)
EXTENDS TfheGates, NaturalFacts, SequenceTheorems, TLAPS

-----------------------------------------------------------------------------
(* Recursion, totals, powers of two. *)

(* A function may be defined by recursion along an interval, when a step    *)
(* stays within a set.                                                      *)
StaysWithin(V, first, step, lo, hi) ==
  /\ lo \in Int /\ hi \in Int /\ lo <= hi
  /\ first \in V
  /\ \A i \in (lo + 1) .. hi, v \in V : step[<<i, v>>] \in V

\* There is such a function.
LEMMA Recursion ==
  ASSUME NEW lo, NEW hi, NEW V, NEW first, NEW step, StaysWithin(V, first, step, lo, hi)
  PROVE  \E f \in [lo .. hi -> V] :
            \A i \in lo .. hi : f[i] = IF i = lo THEN first ELSE step[<<i, f[i - 1]>>]
<1> SUFFICES ASSUME lo \in Int, hi \in Int, lo <= hi
             PROVE  \E f \in [lo .. hi -> V] :
                \A i \in lo .. hi : f[i] = IF i = lo THEN first ELSE step[<<i, f[i - 1]>>]
  BY DEF StaysWithin
<1>0. /\ first \in V
      /\ \A i \in (lo + 1) .. hi, v \in V : step[<<i, v>>] \in V
  BY DEF StaysWithin
<1> DEFINE Step(f, m) ==
              f = [i \in lo .. m |-> IF i = lo THEN first ELSE step[<<i, f[i - 1]>>]]
           Have == {n \in Nat : lo + n <= hi => \E f \in [lo .. (lo + n) -> V] : Step(f, lo + n)}
<1>1. 0 \in Have
  <2> DEFINE f == [i \in lo .. lo |-> first]
  <2>1. f \in [lo .. (lo + 0) -> V] /\ f = [i \in lo .. (lo + 0) |-> first]
    BY <1>0
  <2>2. \A i \in lo .. (lo + 0) : i = lo
    BY <1>0
  <2>3. [i \in lo .. (lo + 0) |-> IF i = lo THEN first ELSE step[<<i, f[i - 1]>>]]
           = [i \in lo .. (lo + 0) |-> first]
    BY <2>2
  <2>4. Step(f, lo + 0)
    BY <2>1, <2>3
  <2> HIDE DEF f, Step
  <2>5. QED
    BY <2>1, <2>4
<1>2. ASSUME NEW n \in Nat, n \in Have PROVE n + 1 \in Have
  <2> DEFINE m == lo + n
             l == m + 1
  <2>0. SUFFICES ASSUME l <= hi
                 PROVE  \E f \in [lo .. l -> V] : Step(f, l)
    BY <1>2
  <2>1. PICK g \in [lo .. m -> V] : Step(g, m)
    <3>1. lo + n <= hi
      BY <1>0, <2>0
    <3> HIDE DEF Step
    <3>2. \E g \in [lo .. (lo + n) -> V] : Step(g, lo + n)
      BY <1>2, <3>1
    <3>3. QED
      BY <3>2
  <2>2. m \in lo .. m /\ l \in Int /\ l - 1 = m /\ l # lo /\ l \in (lo + 1) .. hi
        /\ m \in Int /\ \A i \in lo .. l : i = l \/ i \in lo .. m
    BY <1>0, <2>0
  <2>3. \A i \in lo .. m : g[i] = IF i = lo THEN first ELSE step[<<i, g[i - 1]>>]
    BY <2>1
  <2>4. \A i \in lo .. m : i # lo => i - 1 \in lo .. m /\ i - 1 # l
    BY <2>2
  <2>5. \A i \in lo .. m : i # l
    BY <2>2
  <2> HIDE DEF l, m
  <2> DEFINE f == [i \in lo .. l |-> IF i = l THEN step[<<l, g[m]>>] ELSE g[i]]
  <2>6. g[m] \in V /\ step[<<l, g[m]>>] \in V
    BY <1>0, <2>1, <2>2
  <2>7. f \in [lo .. l -> V]
    BY <2>1, <2>2, <2>6
  <2>8. \A i \in lo .. m : i \in lo .. l
    BY <2>2 DEF l
  <2>9. \A i \in lo .. m : f[i] = g[i]
    BY <2>5, <2>8
  <2>10. l \in lo .. l
    BY <2>2 DEF l
  <2>11. f[l] = step[<<l, g[m]>>]
    BY <2>10
  <2>12. ASSUME NEW i \in lo .. l
         PROVE  f[i] = IF i = lo THEN first ELSE step[<<i, f[i - 1]>>]
    <3> HIDE DEF f
    <3>1. CASE i = l
      BY <2>2, <2>9, <2>11, <3>1
    <3>2. CASE i # l
      <4>1. i \in lo .. m
        BY <2>2, <3>2
      <4>2. f[i] = g[i]
        BY <2>9, <4>1
      <4>3. i # lo => f[i - 1] = g[i - 1]
        BY <2>4, <2>9, <4>1
      <4>4. QED
        BY <2>3, <4>1, <4>2, <4>3
    <3>3. QED
      BY <3>1, <3>2
  <2>13. Step(f, l)
    BY <2>7, <2>12
  <2> HIDE DEF f, Step
  <2>14. QED
    BY <2>7, <2>13
<1>3. Nat \subseteq Have
  <2> HIDE DEF Have
  <2>1. QED
    BY <1>1, <1>2, Induction
<1>4. hi - lo \in Nat /\ lo + (hi - lo) = hi
  BY <1>0
<1>5. hi - lo \in Have
  BY <1>3, <1>4
<1>6. \E f \in [lo .. hi -> V] : Step(f, hi)
  BY <1>4, <1>5
<1>7. QED
  BY <1>6, <1>4

(* What the parameters are.                                                 *)
LEMMA Parameters ==
  /\ TorusBits \in Nat /\ TorusBits >= 3 /\ MaxCalls \in Nat
  /\ LweSize \in Nat \ {0} /\ RingSize \in Nat \ {0}
  /\ DigitBits \in Nat \ {0} /\ DigitCount \in Nat \ {0} /\ DigitBits * DigitCount <= TorusBits
  /\ SwitchBits \in Nat \ {0} /\ SwitchLength \in Nat \ {0}
  /\ SwitchBits * SwitchLength <= TorusBits
  BY ParametersAssumption

(* Tuple only works a function out.                                         *)
LEMMA TupleIs ==
  ASSUME NEW n \in Nat, NEW T, NEW f \in [1 .. n -> T]
  PROVE  Tuple(f, n) = f /\ Len(f) = n /\ f \in Seq(T)
<1> DEFINE s == SubSeq(f, 1, n)
<1>1. \A i \in 1 .. n : f[i] \in T
  OBVIOUS
<1>2. /\ s \in Seq(T) /\ Len(s) = n
      /\ \A i \in 1 .. n : s[i] = f[i]
  BY <1>1, SubSeqProperties
<1> HIDE DEF s
<1>3. s = [i \in 1 .. n |-> s[i]]
  BY <1>2
<1>4. s = f
  BY <1>2, <1>3
<1>5. QED
  BY <1>2, <1>4 DEF Tuple, s

(* The powers of two.                                                       *)
LEMMA TwoToIs ==
  /\ TwoTo \in [0 .. TorusBits -> Int]
  /\ \A n \in 0 .. TorusBits : TwoTo[n] = IF n = 0 THEN 1 ELSE 2 * TwoTo[n - 1]
<1> DEFINE step == [z \in (1 .. TorusBits) \X Int |-> 2 * z[2]]
<1>1. \A i \in 1 .. TorusBits, v \in Int : step[<<i, v>>] \in Int /\ step[<<i, v>>] = 2 * v
  OBVIOUS
<1> HIDE DEF step
<1>2. \E f \in [0 .. TorusBits -> Int] :
         \A i \in 0 .. TorusBits : f[i] = IF i = 0 THEN 1 ELSE step[<<i, f[i - 1]>>]
  <2>1. StaysWithin(Int, 1, step, 0, TorusBits)
    BY <1>1, Parameters DEF StaysWithin
  <2>2. QED
    BY <2>1, Recursion
<1>3. PICK f \in [0 .. TorusBits -> Int] :
         \A i \in 0 .. TorusBits : f[i] = IF i = 0 THEN 1 ELSE step[<<i, f[i - 1]>>]
  BY <1>2
<1>4. \A i \in 0 .. TorusBits : f[i] = IF i = 0 THEN 1 ELSE 2 * f[i - 1]
  <2>1. SUFFICES ASSUME NEW i \in 0 .. TorusBits
                 PROVE  f[i] = IF i = 0 THEN 1 ELSE 2 * f[i - 1]
    OBVIOUS
  <2>2. CASE i # 0
    <3>1. i \in 1 .. TorusBits /\ i - 1 \in 0 .. TorusBits
      BY <2>2, Parameters
    <3>2. f[i - 1] \in Int /\ f[i] = step[<<i, f[i - 1]>>]
      BY <1>3, <2>2, <3>1
    <3>3. QED
      BY <1>1, <2>2, <3>1, <3>2
  <2>3. QED
    BY <1>3, <2>2
<1>5. f = [i \in 0 .. TorusBits |-> IF i = 0 THEN 1 ELSE 2 * f[i - 1]]
  BY <1>3, <1>4
<1> DEFINE Loop == CHOOSE g : g = [n \in 0 .. TorusBits |-> IF n = 0 THEN 1 ELSE 2 * g[n - 1]]
<1>6. Loop = [n \in 0 .. TorusBits |-> IF n = 0 THEN 1 ELSE 2 * Loop[n - 1]]
  BY <1>5
<1>7. TwoTo = Loop
  BY DEF TwoTo
<1> HIDE DEF Loop
<1>8. \A n \in 0 .. TorusBits : TwoTo[n] = IF n = 0 THEN 1 ELSE 2 * TwoTo[n - 1]
  BY <1>6, <1>7
<1>9. \A n \in 0 .. TorusBits : TwoTo[n] \in Int
  <2> DEFINE S == {n \in Nat : n <= TorusBits => TwoTo[n] \in Int}
  <2>1. 0 \in S
    BY <1>8, Parameters
  <2>2. ASSUME NEW n \in Nat, n \in S PROVE n + 1 \in S
    <3>1. SUFFICES ASSUME n + 1 <= TorusBits PROVE TwoTo[n + 1] \in Int
      OBVIOUS
    <3>2. TwoTo[n] \in Int /\ n + 1 \in 0 .. TorusBits /\ n + 1 # 0 /\ (n + 1) - 1 = n
      BY <2>2, <3>1, Parameters
    <3>3. TwoTo[n + 1] = 2 * TwoTo[n]
      BY <1>8, <3>2
    <3>4. QED
      BY <3>2, <3>3
  <2> HIDE DEF S
  <2>3. Nat \subseteq S
    BY <2>1, <2>2, Induction
  <2>4. QED
    BY <2>3, Parameters DEF S
<1>10. TwoTo = [n \in 0 .. TorusBits |-> TwoTo[n]]
  BY <1>6, <1>7
<1>11. QED
  BY <1>8, <1>9, <1>10

(* They multiply as their exponents add.                                    *)
LEMMA TwoToSum ==
  ASSUME NEW m \in Nat, NEW n \in Nat, m + n <= TorusBits
  PROVE  /\ TwoTo[m + n] = TwoTo[m] * TwoTo[n]
         /\ TwoTo[m] \in Nat \ {0} /\ TwoTo[n] \in Nat \ {0}
<1>1. ASSUME NEW a \in Nat
      PROVE  a \in {k \in Nat : k <= TorusBits => TwoTo[k] \in Nat \ {0}}
  <2> DEFINE S == {k \in Nat : k <= TorusBits => TwoTo[k] \in Nat \ {0}}
  <2>1. 0 \in S
    <3>1. TwoTo[0] = 1
      BY TwoToIs, Parameters
    <3>2. QED
      BY <3>1
  <2>2. ASSUME NEW k \in Nat, k \in S PROVE k + 1 \in S
    <3>1. SUFFICES ASSUME k + 1 <= TorusBits PROVE TwoTo[k + 1] \in Nat \ {0}
      OBVIOUS
    <3>2. TwoTo[k] \in Nat \ {0} /\ k + 1 \in 0 .. TorusBits /\ k + 1 # 0 /\ (k + 1) - 1 = k
      BY <2>2, <3>1, Parameters
    <3>3. TwoTo[k + 1] = 2 * TwoTo[k]
      BY <3>2, TwoToIs
    <3>4. QED
      BY <3>2, <3>3
  <2> HIDE DEF S
  <2>3. Nat \subseteq S
    BY <2>1, <2>2, Induction
  <2>4. a \in S
    BY <2>3
  <2>5. QED
    BY <2>4 DEF S
<1>2. \A k \in Nat : k <= TorusBits => TwoTo[k] \in Nat \ {0}
  BY <1>1
<1> DEFINE S == {k \in Nat : m + k <= TorusBits => TwoTo[m + k] = TwoTo[m] * TwoTo[k]}
<1>3. 0 \in S
  <2>1. SUFFICES ASSUME m + 0 <= TorusBits PROVE TwoTo[m + 0] = TwoTo[m] * TwoTo[0]
    OBVIOUS
  <2>2. TwoTo[0] = 1 /\ m + 0 = m
    BY TwoToIs, Parameters
  <2>3. TwoTo[m] \in Nat
    BY <1>2, <2>1
  <2>4. QED
    BY <2>2, <2>3
<1>4. ASSUME NEW k \in Nat, k \in S PROVE k + 1 \in S
  <2>1. SUFFICES ASSUME m + (k + 1) <= TorusBits
                 PROVE  TwoTo[m + (k + 1)] = TwoTo[m] * TwoTo[k + 1]
    OBVIOUS
  <2>2. /\ m + (k + 1) \in 0 .. TorusBits /\ m + (k + 1) # 0 /\ (m + (k + 1)) - 1 = m + k
        /\ k + 1 \in 0 .. TorusBits /\ k + 1 # 0 /\ (k + 1) - 1 = k /\ m + k <= TorusBits
        /\ k <= TorusBits /\ m <= TorusBits
    BY <2>1, Parameters
  <2>3. TwoTo[m + (k + 1)] = 2 * TwoTo[m + k] /\ TwoTo[k + 1] = 2 * TwoTo[k]
    BY <2>2, TwoToIs
  <2>4. TwoTo[m + k] = TwoTo[m] * TwoTo[k] /\ TwoTo[m] \in Nat /\ TwoTo[k] \in Nat
    BY <1>2, <1>4, <2>2
  <2>5. 2 * (TwoTo[m] * TwoTo[k]) = TwoTo[m] * (2 * TwoTo[k])
    BY <2>4
  <2>6. QED
    BY <2>3, <2>4, <2>5
<1> HIDE DEF S
<1>5. Nat \subseteq S
  BY <1>3, <1>4, Induction
<1>6. n \in S
  BY <1>5
<1>7. m <= TorusBits /\ n <= TorusBits
  BY Parameters
<1>8. QED
  BY <1>2, <1>6, <1>7 DEF S

-----------------------------------------------------------------------------
(* Totals.                                                                  *)

(* The numbers to be added up.                                              *)
Addends(f, n) == n \in Nat /\ \A i \in 1 .. n : f[i] \in Int

(* s holds the totals of the first numbers of f.                            *)
Totals(f, n, s) ==
  /\ s \in [0 .. n -> Int] /\ s[0] = 0
  /\ \A i \in 1 .. n : s[i] = s[i - 1] + f[i]

(* The loop of Total is well defined.                                       *)
LEMMA TotalIs ==
  ASSUME NEW n, NEW f, Addends(f, n)
  PROVE  \E s : Totals(f, n, s) /\ Total(f, n) = s[n]
<1>0. n \in Nat /\ \A i \in 1 .. n : f[i] \in Int
  BY DEF Addends
<1> DEFINE step == [z \in (1 .. n) \X Int |-> z[2] + f[z[1]]]
<1>1. \A i \in 1 .. n, v \in Int : step[<<i, v>>] = v + f[i]
  OBVIOUS
<1> HIDE DEF step
<1>2. StaysWithin(Int, 0, step, 0, n)
  <2>1. ASSUME NEW i \in (0 + 1) .. n, NEW v \in Int
        PROVE  step[<<i, v>>] \in Int
    <3>1. i \in 1 .. n
      BY <1>0
    <3>2. step[<<i, v>>] = v + f[i] /\ f[i] \in Int
      BY <1>0, <1>1, <3>1
    <3>3. QED
      BY <3>2
  <2>2. QED
    BY <1>0, <2>1 DEF StaysWithin
<1>3. PICK g \in [0 .. n -> Int] :
         \A i \in 0 .. n : g[i] = IF i = 0 THEN 0 ELSE step[<<i, g[i - 1]>>]
  BY <1>2, Recursion
<1>4. \A i \in 0 .. n : g[i] = IF i = 0 THEN 0 ELSE g[i - 1] + f[i]
  <2>1. SUFFICES ASSUME NEW i \in 0 .. n
                 PROVE  g[i] = IF i = 0 THEN 0 ELSE g[i - 1] + f[i]
    OBVIOUS
  <2>2. CASE i # 0
    <3>1. i \in 1 .. n /\ i - 1 \in 0 .. n
      BY <1>0, <2>2
    <3>2. g[i - 1] \in Int /\ g[i] = step[<<i, g[i - 1]>>]
      BY <1>3, <2>2, <3>1
    <3>3. QED
      BY <1>1, <2>2, <3>1, <3>2
  <2>3. QED
    BY <1>3, <2>2
<1>5. g = [i \in 0 .. n |-> IF i = 0 THEN 0 ELSE g[i - 1] + f[i]]
  BY <1>3, <1>4
<1> DEFINE Loop == CHOOSE s : s = [i \in 0 .. n |-> IF i = 0 THEN 0 ELSE s[i - 1] + f[i]]
<1>6. Loop = [i \in 0 .. n |-> IF i = 0 THEN 0 ELSE Loop[i - 1] + f[i]]
  BY <1>5
<1>7. Total(f, n) = Loop[n]
  BY DEF Total
<1> HIDE DEF Loop
<1>8. \A i \in 0 .. n : Loop[i] = IF i = 0 THEN 0 ELSE Loop[i - 1] + f[i]
  BY <1>6
<1>9. \A i \in 0 .. n : Loop[i] \in Int
  <2> DEFINE S == {i \in Nat : i <= n => Loop[i] \in Int}
  <2>1. 0 \in S
    BY <1>0, <1>8
  <2>2. ASSUME NEW i \in Nat, i \in S PROVE i + 1 \in S
    <3>1. SUFFICES ASSUME i + 1 <= n PROVE Loop[i + 1] \in Int
      OBVIOUS
    <3>2. Loop[i] \in Int /\ i + 1 \in 1 .. n /\ i + 1 \in 0 .. n /\ i + 1 # 0 /\ (i + 1) - 1 = i
      BY <1>0, <2>2, <3>1
    <3>3. Loop[i + 1] = Loop[i] + f[i + 1]
      BY <1>8, <3>2
    <3>4. QED
      BY <1>0, <3>2, <3>3
  <2> HIDE DEF S
  <2>3. Nat \subseteq S
    BY <2>1, <2>2, Induction
  <2>4. QED
    BY <1>0, <2>3 DEF S
<1>10. Totals(f, n, Loop)
  <2>1. Loop \in [0 .. n -> Int]
    BY <1>6, <1>9
  <2>2. Loop[0] = 0
    BY <1>0, <1>8
  <2>3. \A i \in 1 .. n : Loop[i] = Loop[i - 1] + f[i]
    BY <1>0, <1>8
  <2>4. QED
    BY <2>1, <2>2, <2>3 DEF Totals
<1>11. QED
  BY <1>7, <1>10

(* One number more adds it to the total.                                    *)
LEMMA TotalStep ==
  ASSUME NEW n, NEW f, Addends(f, n)
  PROVE  /\ Total(f, 0) = 0
         /\ Total(f, n) \in Int
         /\ \A m \in Nat : m + 1 <= n => /\ Addends(f, m)
                                         /\ Total(f, m) \in Int
                                         /\ Total(f, m + 1) = Total(f, m) + f[m + 1]
<1>0. n \in Nat /\ \A i \in 1 .. n : f[i] \in Int
  BY DEF Addends
<1>1. ASSUME NEW m \in 0 .. n PROVE Addends(f, m)
  BY <1>0 DEF Addends
<1>2. PICK s : Totals(f, n, s) /\ Total(f, n) = s[n]
  BY TotalIs
<1>3. ASSUME NEW m \in 0 .. n
      PROVE  Total(f, m) = s[m]
  <2>1. PICK t : Totals(f, m, t) /\ Total(f, m) = t[m]
    BY <1>1, TotalIs
  <2> DEFINE S == {i \in Nat : i <= m => t[i] = s[i]}
  <2>2. 0 \in S
    BY <1>2, <2>1 DEF Totals
  <2>3. ASSUME NEW i \in Nat, i \in S PROVE i + 1 \in S
    <3>1. SUFFICES ASSUME i + 1 <= m PROVE t[i + 1] = s[i + 1]
      OBVIOUS
    <3>2. i + 1 \in 1 .. m /\ i + 1 \in 1 .. n /\ (i + 1) - 1 = i /\ t[i] = s[i]
      BY <1>0, <2>3, <3>1
    <3>3. t[i + 1] = t[i] + f[i + 1] /\ s[i + 1] = s[i] + f[i + 1]
      BY <1>2, <2>1, <3>2 DEF Totals
    <3>4. QED
      BY <3>2, <3>3
  <2> HIDE DEF S
  <2>4. Nat \subseteq S
    BY <2>2, <2>3, Induction
  <2>5. m \in S /\ m \in Nat
    BY <1>0, <2>4
  <2>6. QED
    BY <2>1, <2>5 DEF S
<1>4. 0 \in 0 .. n /\ n \in 0 .. n
  BY <1>0
<1>5. Total(f, 0) = 0 /\ Total(f, n) \in Int
  BY <1>2, <1>3, <1>4 DEF Totals
<1>6. ASSUME NEW m \in Nat, m + 1 <= n
      PROVE  Addends(f, m) /\ Total(f, m) \in Int /\ Total(f, m + 1) = Total(f, m) + f[m + 1]
  <2>1. m \in 0 .. n /\ m + 1 \in 0 .. n /\ m + 1 \in 1 .. n /\ (m + 1) - 1 = m
    BY <1>0, <1>6
  <2>2. s[m + 1] = s[m] + f[m + 1] /\ s[m] \in Int
    BY <1>2, <2>1 DEF Totals
  <2>3. QED
    BY <1>1, <1>3, <2>1, <2>2
<1>7. QED
  BY <1>5, <1>6

(* h is a times f and b times g.                                            *)
Combines(h, a, f, b, g, n) ==
  /\ a \in Int /\ b \in Int /\ Addends(f, n) /\ Addends(g, n)
  /\ \A i \in 1 .. n : h[i] = a * f[i] + b * g[i]

(* Totals are linear.                                                       *)
LEMMA TotalLinear ==
  ASSUME NEW n, NEW f, NEW g, NEW h, NEW a, NEW b, Combines(h, a, f, b, g, n)
  PROVE  Addends(h, n) /\ Total(h, n) = a * Total(f, n) + b * Total(g, n)
<1>0. /\ a \in Int /\ b \in Int /\ n \in Nat /\ Addends(f, n) /\ Addends(g, n)
      /\ \A i \in 1 .. n : h[i] = a * f[i] + b * g[i]
  BY DEF Combines, Addends
<1>1. \A i \in 1 .. n : f[i] \in Int /\ g[i] \in Int
  BY <1>0 DEF Addends
<1>2. \A i \in 1 .. n : h[i] \in Int
  BY <1>0, <1>1
<1>3. Addends(h, n)
  BY <1>0, <1>2 DEF Addends
<1> DEFINE S == {m \in Nat : m <= n => Total(h, m) = a * Total(f, m) + b * Total(g, m)}
<1>4. 0 \in S
  <2>1. Total(h, 0) = 0 /\ Total(f, 0) = 0 /\ Total(g, 0) = 0
    BY <1>0, <1>3, TotalStep
  <2>2. QED
    BY <1>0, <2>1
<1>5. ASSUME NEW m \in Nat, m \in S PROVE m + 1 \in S
  <2>1. SUFFICES ASSUME m + 1 <= n
                 PROVE  Total(h, m + 1) = a * Total(f, m + 1) + b * Total(g, m + 1)
    OBVIOUS
  <2>2. /\ Total(f, m) \in Int /\ Total(f, m + 1) = Total(f, m) + f[m + 1]
        /\ Total(g, m) \in Int /\ Total(g, m + 1) = Total(g, m) + g[m + 1]
        /\ Total(h, m + 1) = Total(h, m) + h[m + 1]
    BY <1>0, <1>3, <2>1, TotalStep
  <2>3. m + 1 \in 1 .. n
    BY <1>0, <2>1
  <2>4. f[m + 1] \in Int /\ g[m + 1] \in Int /\ h[m + 1] = a * f[m + 1] + b * g[m + 1]
    BY <1>0, <1>1, <2>3
  <2>5. Total(h, m) = a * Total(f, m) + b * Total(g, m)
    BY <1>0, <1>5, <2>1
  <2>6. /\ a * (Total(f, m) + f[m + 1]) = a * Total(f, m) + a * f[m + 1]
        /\ b * (Total(g, m) + g[m + 1]) = b * Total(g, m) + b * g[m + 1]
    BY <1>0, <2>2, <2>4
  <2>7. /\ a * Total(f, m) \in Int /\ a * f[m + 1] \in Int
        /\ b * Total(g, m) \in Int /\ b * g[m + 1] \in Int
    BY <1>0, <2>2, <2>4
  <2>8. QED
    BY <2>2, <2>4, <2>5, <2>6, <2>7
<1> HIDE DEF S
<1>6. Nat \subseteq S
  BY <1>4, <1>5, Induction
<1>7. QED
  BY <1>0, <1>3, <1>6 DEF S

(* A total depends on its numbers only.                                     *)
LEMMA TotalSame ==
  ASSUME NEW n, NEW f, NEW g, Addends(f, n), \A i \in 1 .. n : g[i] = f[i]
  PROVE  Addends(g, n) /\ Total(g, n) = Total(f, n)
<1>1. Combines(g, 1, f, 0, f, n)
  BY DEF Combines, Addends
<1>2. Addends(g, n) /\ Total(g, n) = 1 * Total(f, n) + 0 * Total(f, n)
  BY <1>1, TotalLinear
<1>3. QED
  BY <1>2, TotalStep

(* A total of which only one number is not zero.                            *)
LEMMA TotalOne ==
  ASSUME NEW n, NEW f, Addends(f, n), NEW j \in 1 .. n, \A i \in 1 .. n : i # j => f[i] = 0
  PROVE  Total(f, n) = f[j]
<1>0. n \in Nat /\ f[j] \in Int
  BY DEF Addends
<1> DEFINE S == {m \in Nat : m <= n => Total(f, m) = IF m < j THEN 0 ELSE f[j]}
<1>1. 0 \in S
  <2>1. Total(f, 0) = 0
    BY TotalStep
  <2>2. QED
    BY <1>0, <2>1
<1>2. ASSUME NEW m \in Nat, m \in S PROVE m + 1 \in S
  <2>1. SUFFICES ASSUME m + 1 <= n
                 PROVE  Total(f, m + 1) = IF m + 1 < j THEN 0 ELSE f[j]
    OBVIOUS
  <2>2. m + 1 \in 1 .. n /\ m <= n
    BY <1>0, <2>1
  <2>3. Total(f, m + 1) = Total(f, m) + f[m + 1]
    BY <2>1, TotalStep
  <2>4. Total(f, m) = IF m < j THEN 0 ELSE f[j]
    BY <1>2, <2>2
  <2>5. m + 1 # j => f[m + 1] = 0
    BY <2>2
  <2>6. QED
    BY <1>0, <2>3, <2>4, <2>5
<1> HIDE DEF S
<1>3. Nat \subseteq S
  BY <1>1, <1>2, Induction
<1>4. n \in S
  BY <1>0, <1>3
<1>5. QED
  BY <1>0, <1>4 DEF S

(* A table of numbers may be added up by its rows or by its columns.        *)
LEMMA TotalSwap ==
  ASSUME NEW n \in Nat, NEW k \in Nat, NEW t,
         \A i \in 1 .. n, j \in 1 .. k : t[i][j] \in Int
  PROVE  /\ Addends([i \in 1 .. n |-> Total(t[i], k)], n)
         /\ Addends([j \in 1 .. k |-> Total([i \in 1 .. n |-> t[i][j]], n)], k)
         /\ Total([i \in 1 .. n |-> Total(t[i], k)], n)
              = Total([j \in 1 .. k |-> Total([i \in 1 .. n |-> t[i][j]], n)], k)
<1> DEFINE rows == [i \in 1 .. n |-> Total(t[i], k)]
           column(j) == [i \in 1 .. n |-> t[i][j]]
           part(m) == [j \in 1 .. k |-> Total(column(j), m)]
<1>1. \A i \in 1 .. n : Addends(t[i], k)
  BY DEF Addends
<1>2. Addends(rows, n)
  <2>1. \A i \in 1 .. n : Total(t[i], k) \in Int
    BY <1>1, TotalStep
  <2>2. QED
    BY <2>1 DEF Addends
<1>3. \A j \in 1 .. k : Addends(column(j), n)
  BY DEF Addends
<1>4. ASSUME NEW m \in 0 .. n
      PROVE  Addends(part(m), k)
  <2>1. ASSUME NEW j \in 1 .. k PROVE Total(column(j), m) \in Int
    <3> DEFINE c == column(j)
    <3>1. Addends(c, n)
      BY <1>3
    <3> HIDE DEF c
    <3>2. m + 1 <= n => Total(c, m) \in Int
      BY <3>1, TotalStep
    <3>3. m = n => Total(c, m) \in Int
      BY <3>1, TotalStep
    <3>4. Total(c, m) \in Int
      BY <3>2, <3>3
    <3>5. QED
      BY <3>4 DEF c
  <2> HIDE DEF column
  <2>2. QED
    BY <2>1 DEF Addends
<1> DEFINE S == {m \in Nat : m <= n => Total(rows, m) = Total(part(m), k)}
<1>5. 0 \in S
  <2>1. Total(rows, 0) = 0
    BY <1>2, TotalStep
  <2>2. ASSUME NEW j \in 1 .. k PROVE part(0)[j] = 0
    <3>1. Total(column(j), 0) = 0
      BY <1>3, TotalStep
    <3> HIDE DEF column
    <3>2. QED
      BY <3>1
  <2>3. Addends(part(0), k)
    <3> HIDE DEF part
    <3>1. 0 \in 0 .. n
      OBVIOUS
    <3>2. QED
      BY <1>4, <3>1
  <2> HIDE DEF part
  <2>4. Combines(part(0), 0, part(0), 0, part(0), k)
    BY <2>2, <2>3 DEF Combines
  <2>5. Total(part(0), k) = 0 * Total(part(0), k) + 0 * Total(part(0), k)
    BY <2>4, TotalLinear
  <2>6. Total(part(0), k) = 0
    BY <2>3, <2>5, TotalStep
  <2>7. QED
    BY <2>1, <2>6
<1>6. ASSUME NEW m \in Nat, m \in S PROVE m + 1 \in S
  <2>1. SUFFICES ASSUME m + 1 <= n
                 PROVE  Total(rows, m + 1) = Total(part(m + 1), k)
    OBVIOUS
  <2>2. m + 1 \in 1 .. n /\ m \in 0 .. n
    BY <2>1
  <2>3. Total(rows, m + 1) = Total(rows, m) + Total(t[m + 1], k)
    <3>1. Total(rows, m + 1) = Total(rows, m) + rows[m + 1]
      BY <1>2, <2>1, TotalStep
    <3>2. QED
      BY <2>2, <3>1
  <2>4. Addends(part(m), k) /\ Addends(t[m + 1], k)
    BY <1>1, <1>4, <2>2
  <2>5. ASSUME NEW j \in 1 .. k
        PROVE  part(m + 1)[j] = 1 * part(m)[j] + 1 * t[m + 1][j]
    <3> DEFINE c == column(j)
    <3>1. Addends(c, n) /\ c[m + 1] = t[m + 1][j] /\ c[m + 1] \in Int
      BY <1>3, <2>2
    <3>2. part(m + 1)[j] = Total(c, m + 1) /\ part(m)[j] = Total(c, m)
      OBVIOUS
    <3> HIDE DEF c, part, column
    <3>3. Total(c, m + 1) = Total(c, m) + c[m + 1] /\ Total(c, m) \in Int
      BY <2>1, <3>1, TotalStep
    <3>4. QED
      BY <3>1, <3>2, <3>3
  <2> HIDE DEF part, rows
  <2>6. Combines(part(m + 1), 1, part(m), 1, t[m + 1], k)
    BY <2>4, <2>5 DEF Combines
  <2>7. Total(part(m + 1), k) = 1 * Total(part(m), k) + 1 * Total(t[m + 1], k)
    BY <2>6, TotalLinear
  <2>8. Total(part(m), k) \in Int /\ Total(t[m + 1], k) \in Int
    BY <2>4, TotalStep
  <2>9. Total(rows, m) = Total(part(m), k)
    BY <1>6, <2>1
  <2>10. QED
    BY <2>3, <2>7, <2>8, <2>9
<1> HIDE DEF S
<1>7. Nat \subseteq S
  BY <1>5, <1>6, Induction
<1>8. n \in S /\ n <= n /\ n \in 0 .. n
  BY <1>7
<1>9. Total(rows, n) = Total(part(n), k)
  BY <1>8 DEF S
<1>10. Addends(part(n), k)
  BY <1>4, <1>8
<1>11. QED
  BY <1>2, <1>9, <1>10

-----------------------------------------------------------------------------
(* Distance on the torus.                                                   *)

(* x is y, to within e and a multiple of the torus.                         *)
Near(x, y, e) ==
  /\ x \in Int /\ y \in Int /\ e \in Nat
  /\ \E k \in Int : x - y - k * Torus \in -e .. e

\* The torus is a multiple of eight.
LEMMA TorusIs ==
  /\ Torus \in Nat \ {0}
  /\ \E u \in Nat \ {0} : Torus = 8 * u
<1>1. 3 \in Nat /\ TorusBits - 3 \in Nat /\ (TorusBits - 3) + 3 <= TorusBits
      /\ (TorusBits - 3) + 3 = TorusBits
  BY Parameters
<1>2. /\ Torus = TwoTo[TorusBits - 3] * TwoTo[3]
      /\ TwoTo[TorusBits - 3] \in Nat \ {0}
  <2>1. /\ TwoTo[(TorusBits - 3) + 3] = TwoTo[TorusBits - 3] * TwoTo[3]
        /\ TwoTo[TorusBits - 3] \in Nat \ {0}
    BY <1>1, TwoToSum
  <2>2. QED
    BY <1>1, <2>1 DEF Torus
<1>3. TwoTo[3] = 8
  <2>1. TwoTo[0] = 1 /\ TwoTo[1] = 2 * TwoTo[0] /\ TwoTo[2] = 2 * TwoTo[1] /\ TwoTo[3] = 2 * TwoTo[2]
    <3>1. 0 \in 0 .. TorusBits /\ 1 \in 0 .. TorusBits /\ 2 \in 0 .. TorusBits /\ 3 \in 0 .. TorusBits
      BY Parameters
    <3>2. TwoTo[0] = 1
      BY <3>1, TwoToIs
    <3>3. TwoTo[1] = 2 * TwoTo[1 - 1]
      BY <3>1, TwoToIs
    <3>4. TwoTo[2] = 2 * TwoTo[2 - 1]
      BY <3>1, TwoToIs
    <3>5. TwoTo[3] = 2 * TwoTo[3 - 1]
      BY <3>1, TwoToIs
    <3>6. QED
      BY <3>2, <3>3, <3>4, <3>5
  <2>2. QED
    BY <2>1
<1>4. Torus = 8 * TwoTo[TorusBits - 3]
  BY <1>2, <1>3
<1>5. QED
  BY <1>2, <1>4

(* A number is near itself, and near its remainder.                         *)
LEMMA NearSelf ==
  ASSUME NEW x \in Int
  PROVE  Near(x, x, 0) /\ Near(x % Torus, x, 0) /\ x % Torus \in 0 .. Torus - 1
<1>1. x - x - 0 * Torus \in -0 .. 0
  BY TorusIs
<1>2. Near(x, x, 0)
  BY <1>1 DEF Near
<1>3. /\ x % Torus \in 0 .. Torus - 1 /\ x \div Torus \in Int
      /\ x = (x \div Torus) * Torus + (x % Torus)
  BY RemainderIs, TorusIs
<1> DEFINE q == x \div Torus
           r == x % Torus
<1>4. r \in 0 .. Torus - 1 /\ q \in Int /\ x = q * Torus + r /\ Torus \in Nat \ {0}
  BY <1>3, TorusIs
<1> HIDE DEF q, r
<1>5. -q \in Int /\ (-q) * Torus = -(q * Torus) /\ q * Torus \in Int
  BY <1>4
<1>6. r - x - (-q) * Torus \in -0 .. 0
  BY <1>4, <1>5
<1>7. r \in Int
  BY <1>4
<1>8. Near(r, x, 0)
  BY <1>5, <1>6, <1>7 DEF Near
<1>9. QED
  BY <1>2, <1>3, <1>8 DEF r

\* Nearness goes both ways.
LEMMA NearSymmetric ==
  ASSUME NEW x, NEW y, NEW e, Near(x, y, e)
  PROVE  Near(y, x, e)
<1>1. PICK k \in Int : x \in Int /\ y \in Int /\ e \in Nat /\ x - y - k * Torus \in -e .. e
  BY DEF Near
<1>2. -k \in Int /\ (-k) * Torus = -(k * Torus) /\ k * Torus \in Int
  BY <1>1, TorusIs
<1>3. y - x - (-k) * Torus \in -e .. e
  BY <1>1, <1>2
<1>4. QED
  BY <1>1, <1>2, <1>3 DEF Near

\* Errors add up in a sum.
LEMMA NearSum ==
  ASSUME NEW x, NEW y, NEW e, NEW u, NEW v, NEW f, Near(x, y, e), Near(u, v, f)
  PROVE  Near(x + u, y + v, e + f)
<1>1. PICK k \in Int : x \in Int /\ y \in Int /\ e \in Nat /\ x - y - k * Torus \in -e .. e
  BY DEF Near
<1>2. PICK l \in Int : u \in Int /\ v \in Int /\ f \in Nat /\ u - v - l * Torus \in -f .. f
  BY DEF Near
<1>3. k + l \in Int /\ (k + l) * Torus = k * Torus + l * Torus
      /\ k * Torus \in Int /\ l * Torus \in Int
  BY TorusIs
<1>4. (x + u) - (y + v) - (k + l) * Torus \in -(e + f) .. (e + f)
  BY <1>1, <1>2, <1>3
<1>5. x + u \in Int /\ y + v \in Int /\ e + f \in Nat
  BY <1>1, <1>2
<1>6. QED
  BY <1>3, <1>4, <1>5 DEF Near

\* An opposite is as near.
LEMMA NearMinus ==
  ASSUME NEW x, NEW y, NEW e, Near(x, y, e)
  PROVE  Near(-x, -y, e)
<1>1. PICK k \in Int : x \in Int /\ y \in Int /\ e \in Nat /\ x - y - k * Torus \in -e .. e
  BY DEF Near
<1>2. -k \in Int /\ (-k) * Torus = -(k * Torus) /\ k * Torus \in Int
  BY TorusIs
<1>3. (-x) - (-y) - (-k) * Torus \in -e .. e /\ -x \in Int /\ -y \in Int
  BY <1>1, <1>2
<1>4. QED
  BY <1>1, <1>2, <1>3 DEF Near

\* Errors add up in a difference too.
LEMMA NearDifference ==
  ASSUME NEW x, NEW y, NEW e, NEW u, NEW v, NEW f, Near(x, y, e), Near(u, v, f)
  PROVE  Near(x - u, y - v, e + f)
<1>1. Near(-u, -v, f)
  BY NearMinus
<1>2. Near(x + (-u), y + (-v), e + f)
  BY <1>1, NearSum
<1>3. x + (-u) = x - u /\ y + (-v) = y - v
  BY DEF Near
<1>4. QED
  BY <1>2, <1>3

\* Errors add up along a chain.
LEMMA NearThrough ==
  ASSUME NEW x, NEW y, NEW e, NEW z, NEW f, Near(x, y, e), Near(y, z, f)
  PROVE  Near(x, z, e + f)
<1>1. PICK k \in Int : x \in Int /\ y \in Int /\ e \in Nat /\ x - y - k * Torus \in -e .. e
  BY DEF Near
<1>2. PICK l \in Int : z \in Int /\ f \in Nat /\ y - z - l * Torus \in -f .. f
  BY DEF Near
<1>3. k + l \in Int /\ (k + l) * Torus = k * Torus + l * Torus
      /\ k * Torus \in Int /\ l * Torus \in Int
  BY TorusIs
<1>4. x - z - (k + l) * Torus \in -(e + f) .. (e + f) /\ e + f \in Nat
  BY <1>1, <1>2, <1>3
<1>5. QED
  BY <1>1, <1>2, <1>3, <1>4 DEF Near

(* A factor of at most h makes the error at most h times as large.          *)
LEMMA NearScaled ==
  ASSUME NEW x, NEW y, NEW e, NEW h \in Nat, NEW c \in -h .. h, Near(x, y, e)
  PROVE  Near(c * x, c * y, h * e)
<1>1. PICK k \in Int : x \in Int /\ y \in Int /\ e \in Nat /\ x - y - k * Torus \in -e .. e
  BY DEF Near
<1> DEFINE d == x - y - k * Torus
           T == Torus
<1>2. d \in -e .. e /\ x = y + k * T + d /\ k * T \in Int /\ T \in Int /\ d \in Int
  BY <1>1, TorusIs
<1> HIDE DEF d, T
<1>3. c \in Int /\ c * k \in Int /\ (c * k) * T = c * (k * T) /\ c * (k * T) \in Int
  BY <1>1, <1>2
<1>4. c * x = c * y + c * (k * T) + c * d /\ c * d \in Int /\ c * x \in Int /\ c * y \in Int
  BY <1>1, <1>2, <1>3
<1>5. c * d \in -(h * e) .. (h * e) /\ h * e \in Nat
  <2>1. h * e \in Nat /\ (h - c) * (e - d) >= 0 /\ (h + c) * (e + d) >= 0
        /\ (h - c) * (e + d) >= 0 /\ (h + c) * (e - d) >= 0
    BY <1>1, <1>2
  <2>2. /\ (h - c) * (e - d) = h * e - h * d - c * e + c * d
        /\ (h + c) * (e + d) = h * e + h * d + c * e + c * d
        /\ (h - c) * (e + d) = h * e + h * d - c * e - c * d
        /\ (h + c) * (e - d) = h * e - h * d + c * e - c * d
    BY <1>1, <1>2, <1>3
  <2>3. h * d \in Int /\ c * e \in Int /\ c * d \in Int
    BY <1>1, <1>2, <1>3
  <2>4. QED
    BY <2>1, <2>2, <2>3
<1>6. c * x - c * y - (c * k) * T \in -(h * e) .. (h * e)
  BY <1>3, <1>4, <1>5
<1>7. QED
  BY <1>3, <1>4, <1>5, <1>6 DEF Near, T

\* Whatever the factor, congruent numbers stay congruent.
LEMMA NearTimes ==
  ASSUME NEW x, NEW y, NEW c \in Int, Near(x, y, 0)
  PROVE  Near(c * x, c * y, 0)
<1> DEFINE h == IF c < 0 THEN -c ELSE c
<1>1. h \in Nat /\ c \in -h .. h /\ h * 0 = 0
  OBVIOUS
<1> HIDE DEF h
<1>2. Near(c * x, c * y, h * 0)
  BY <1>1, NearScaled
<1>3. QED
  BY <1>1, <1>2

(* The numbers of f and those of g are near each other.                     *)
Close(f, g, e, n) == n \in Nat /\ e \in Nat /\ \A i \in 1 .. n : Near(f[i], g[i], e)

\* Totals are near each other, each number adding its own error.
LEMMA NearTotal ==
  ASSUME NEW n, NEW f, NEW g, NEW e, Close(f, g, e, n)
  PROVE  Addends(f, n) /\ Addends(g, n) /\ Near(Total(f, n), Total(g, n), n * e)
<1>0. n \in Nat /\ e \in Nat /\ \A i \in 1 .. n : Near(f[i], g[i], e)
  BY DEF Close
<1>1. Addends(f, n) /\ Addends(g, n)
  BY <1>0 DEF Addends, Near
<1> DEFINE S == {m \in Nat : m <= n => Near(Total(f, m), Total(g, m), m * e)}
<1>2. 0 \in S
  <2>1. Total(f, 0) = 0 /\ Total(g, 0) = 0 /\ 0 * e = 0
    BY <1>0, <1>1, TotalStep
  <2>2. Near(0, 0, 0)
    BY NearSelf
  <2>3. QED
    BY <2>1, <2>2
<1>3. ASSUME NEW m \in Nat, m \in S PROVE m + 1 \in S
  <2>1. SUFFICES ASSUME m + 1 <= n
                 PROVE  Near(Total(f, m + 1), Total(g, m + 1), (m + 1) * e)
    OBVIOUS
  <2>2. m + 1 \in 1 .. n /\ m <= n
    BY <1>0, <2>1
  <2>3. Total(f, m + 1) = Total(f, m) + f[m + 1] /\ Total(g, m + 1) = Total(g, m) + g[m + 1]
    BY <1>1, <2>1, TotalStep
  <2>4. Near(Total(f, m), Total(g, m), m * e) /\ Near(f[m + 1], g[m + 1], e)
    BY <1>0, <1>3, <2>2
  <2>5. Near(Total(f, m) + f[m + 1], Total(g, m) + g[m + 1], m * e + e)
    BY <2>4, NearSum
  <2>6. m * e + e = (m + 1) * e
    BY <1>0
  <2>7. QED
    BY <2>3, <2>5, <2>6
<1> HIDE DEF S
<1>4. Nat \subseteq S
  BY <1>2, <1>3, Induction
<1>5. n \in S
  BY <1>0, <1>4
<1>6. QED
  BY <1>0, <1>1, <1>5 DEF S

-----------------------------------------------------------------------------
(* Polynomials modulo X^N + 1, with integers that are not reduced.          *)

Polynomials == [Ring -> Int]

(* Their coefficients are near each other.                                  *)
Alike(p, q, e) ==
  p \in Polynomials /\ q \in Polynomials /\ e \in Nat /\ \A k \in Ring : Near(p[k], q[k], e)

Term(p, q, k) == [i \in Ring |-> p[i] * Shifted(q, i - 1, k)]
Product(p, q) == [k \in Ring |-> Total(Term(p, q, k), RingSize)]

\* The places of the ring.
LEMMA RingIs ==
  /\ RingSize \in Nat \ {0} /\ Ring = 1 .. RingSize /\ 1 \in Ring
  /\ \A i \in Ring : i \in Int /\ i \in 1 .. RingSize /\ i - 1 \in 0 .. RingSize - 1
  BY Parameters DEF Ring

\* A shift takes one coefficient, with its sign turned when it goes round.
LEMMA ShiftedIs ==
  ASSUME NEW j \in 0 .. RingSize - 1, NEW k \in Ring
  PROVE  \E m \in Ring :
           \/ \A p : Shifted(p, j, k) = p[m]
           \/ \A p : Shifted(p, j, k) = -p[m]
<1>1. CASE k <= j
  <2>1. RingSize + k - j \in Ring
    BY <1>1, RingIs
  <2>2. \A p : Shifted(p, j, k) = -p[RingSize + k - j]
    BY <1>1 DEF Shifted
  <2>3. QED
    BY <2>1, <2>2
<1>2. CASE ~(k <= j)
  <2>1. k - j \in Ring
    BY <1>2, RingIs
  <2>2. \A p : Shifted(p, j, k) = p[k - j]
    BY <1>2 DEF Shifted
  <2>3. QED
    BY <2>1, <2>2
<1>3. QED
  BY <1>1, <1>2

\* What is near stays near when it is shifted.
LEMMA ShiftedNear ==
  ASSUME NEW j \in 0 .. RingSize - 1, NEW k \in Ring, NEW p, NEW q, NEW e, Alike(p, q, e)
  PROVE  Near(Shifted(p, j, k), Shifted(q, j, k), e)
<1>1. PICK m \in Ring :
           \/ \A f : Shifted(f, j, k) = f[m]
           \/ \A f : Shifted(f, j, k) = -f[m]
  BY ShiftedIs
<1>2. Near(p[m], q[m], e)
  BY DEF Alike
<1>3. Near(-p[m], -q[m], e)
  BY <1>2, NearMinus
<1>4. QED
  BY <1>1, <1>2, <1>3

\* r is a times p and b times q.
Mixture(r, a, p, b, q) ==
  /\ p \in Polynomials /\ q \in Polynomials /\ r \in Polynomials /\ a \in Int /\ b \in Int
  /\ \A i \in Ring : r[i] = a * p[i] + b * q[i]

\* A shift is linear.
LEMMA ShiftedLinear ==
  ASSUME NEW j \in 0 .. RingSize - 1, NEW k \in Ring
  PROVE  /\ \A p \in Polynomials : Shifted(p, j, k) \in Int
         /\ \A p, q, r, a, b : Mixture(r, a, p, b, q)
              => Shifted(r, j, k) = a * Shifted(p, j, k) + b * Shifted(q, j, k)
<1>1. PICK m \in Ring :
           \/ \A f : Shifted(f, j, k) = f[m]
           \/ \A f : Shifted(f, j, k) = -f[m]
  BY ShiftedIs
<1>2. \A p \in Polynomials : p[m] \in Int
  BY DEF Polynomials
<1>3. \A p \in Polynomials : Shifted(p, j, k) \in Int
  BY <1>1, <1>2
<1>4. ASSUME NEW p, NEW q, NEW r, NEW a, NEW b, Mixture(r, a, p, b, q)
      PROVE  Shifted(r, j, k) = a * Shifted(p, j, k) + b * Shifted(q, j, k)
  <2>1. r[m] = a * p[m] + b * q[m] /\ p[m] \in Int /\ q[m] \in Int /\ a \in Int /\ b \in Int
    BY <1>2, <1>4 DEF Mixture
  <2>2. -(a * p[m] + b * q[m]) = a * (-p[m]) + b * (-q[m])
    BY <2>1
  <2>3. QED
    BY <1>1, <2>1, <2>2
<1>5. QED
  BY <1>3, <1>4

\* The terms of a product are integers, and so are its coefficients.
LEMMA ProductIs ==
  ASSUME NEW p \in Polynomials, NEW q \in Polynomials
  PROVE  /\ Product(p, q) \in Polynomials
         /\ \A k \in Ring : /\ Addends(Term(p, q, k), RingSize)
                            /\ Product(p, q)[k] = Total(Term(p, q, k), RingSize)
                            /\ \A i \in Ring : Term(p, q, k)[i] = p[i] * Shifted(q, i - 1, k)
<1>1. ASSUME NEW k \in Ring
      PROVE  /\ Addends(Term(p, q, k), RingSize)
             /\ Total(Term(p, q, k), RingSize) \in Int
  <2>1. ASSUME NEW i \in Ring PROVE Term(p, q, k)[i] \in Int
    <3>1. Shifted(q, i - 1, k) \in Int
      BY RingIs, ShiftedLinear
    <3>2. p[i] * Shifted(q, i - 1, k) \in Int
      BY <3>1 DEF Polynomials
    <3>3. QED
      BY <3>2 DEF Term
  <2>2. Addends(Term(p, q, k), RingSize)
    BY <2>1, RingIs DEF Addends
  <2>3. QED
    BY <2>2, TotalStep
<1>2. \A k \in Ring : Product(p, q)[k] = Total(Term(p, q, k), RingSize)
  BY DEF Product
<1>3. Product(p, q) \in Polynomials
  BY <1>1 DEF Product, Polynomials
<1>4. QED
  BY <1>1, <1>2, <1>3 DEF Term

\* A product is linear in its second factor.
LEMMA ProductLinear ==
  ASSUME NEW s \in Polynomials, NEW p, NEW q, NEW r, NEW a, NEW b, Mixture(r, a, p, b, q),
         NEW k \in Ring
  PROVE  Product(s, r)[k] = a * Product(s, p)[k] + b * Product(s, q)[k]
<1> DEFINE h == Term(s, r, k)
           f == Term(s, p, k)
           g == Term(s, q, k)
<1>0. p \in Polynomials /\ q \in Polynomials /\ r \in Polynomials /\ a \in Int /\ b \in Int
  BY DEF Mixture
<1>1. /\ Addends(f, RingSize) /\ Addends(g, RingSize)
      /\ Product(s, p)[k] = Total(f, RingSize)
      /\ Product(s, q)[k] = Total(g, RingSize)
      /\ Product(s, r)[k] = Total(h, RingSize)
      /\ \A i \in Ring : /\ h[i] = s[i] * Shifted(r, i - 1, k)
                         /\ f[i] = s[i] * Shifted(p, i - 1, k)
                         /\ g[i] = s[i] * Shifted(q, i - 1, k)
  <2>1. /\ Addends(f, RingSize) /\ Product(s, p)[k] = Total(f, RingSize)
        /\ \A i \in Ring : f[i] = s[i] * Shifted(p, i - 1, k)
    BY <1>0, ProductIs
  <2>2. /\ Addends(g, RingSize) /\ Product(s, q)[k] = Total(g, RingSize)
        /\ \A i \in Ring : g[i] = s[i] * Shifted(q, i - 1, k)
    BY <1>0, ProductIs
  <2>3. /\ Product(s, r)[k] = Total(h, RingSize)
        /\ \A i \in Ring : h[i] = s[i] * Shifted(r, i - 1, k)
    BY <1>0, ProductIs
  <2> HIDE DEF f, g, h
  <2>4. QED
    BY <2>1, <2>2, <2>3
<1> HIDE DEF f, g, h
<1>2. ASSUME NEW i \in 1 .. RingSize
      PROVE  h[i] = a * f[i] + b * g[i]
  <2> DEFINE u == Shifted(p, i - 1, k)
             v == Shifted(q, i - 1, k)
             w == Shifted(r, i - 1, k)
             c == s[i]
  <2>1. i \in Ring /\ i - 1 \in 0 .. RingSize - 1
    BY RingIs
  <2>2. u \in Int /\ v \in Int /\ w = a * u + b * v
    BY <1>0, <2>1, ShiftedLinear
  <2>3. c \in Int
    BY <2>1 DEF Polynomials
  <2>4. h[i] = c * w /\ f[i] = c * u /\ g[i] = c * v
    BY <1>1, <2>1
  <2> HIDE DEF c, u, v, w
  <2>5. c * (a * u + b * v) = c * (a * u) + c * (b * v)
    BY <1>0, <2>2, <2>3
  <2>6. c * (a * u) = a * (c * u) /\ c * (b * v) = b * (c * v)
    BY <1>0, <2>2, <2>3
  <2>7. QED
    BY <2>2, <2>4, <2>5, <2>6
<1>3. Combines(h, a, f, b, g, RingSize)
  BY <1>0, <1>1, <1>2 DEF Combines
<1>4. Total(h, RingSize) = a * Total(f, RingSize) + b * Total(g, RingSize)
  BY <1>3, TotalLinear
<1>5. QED
  BY <1>1, <1>4

\* Congruent factors have congruent products.
LEMMA ProductCongruent ==
  ASSUME NEW s \in Polynomials, NEW p, NEW q, Alike(p, q, 0)
  PROVE  Alike(Product(s, p), Product(s, q), 0)
<1>1. p \in Polynomials /\ q \in Polynomials /\ RingSize \in Nat /\ RingSize * 0 = 0
  BY RingIs DEF Alike
<1>2. ASSUME NEW k \in Ring
      PROVE  Near(Product(s, p)[k], Product(s, q)[k], 0)
  <2> DEFINE f == Term(s, p, k)
             g == Term(s, q, k)
  <2>1. /\ Product(s, p)[k] = Total(f, RingSize)
        /\ Product(s, q)[k] = Total(g, RingSize)
        /\ \A i \in Ring : /\ f[i] = s[i] * Shifted(p, i - 1, k)
                           /\ g[i] = s[i] * Shifted(q, i - 1, k)
    BY <1>1, ProductIs
  <2> HIDE DEF f, g
  <2>2. ASSUME NEW i \in 1 .. RingSize PROVE Near(f[i], g[i], 0)
    <3>1. i \in Ring /\ i - 1 \in 0 .. RingSize - 1 /\ s[i] \in Int
      BY RingIs DEF Polynomials
    <3>2. Near(Shifted(p, i - 1, k), Shifted(q, i - 1, k), 0)
      BY <3>1, ShiftedNear
    <3>3. Near(s[i] * Shifted(p, i - 1, k), s[i] * Shifted(q, i - 1, k), 0)
      BY <3>1, <3>2, NearTimes
    <3>4. QED
      BY <2>1, <3>1, <3>3
  <2>3. Close(f, g, 0, RingSize)
    BY <1>1, <2>2 DEF Close
  <2>4. Near(Total(f, RingSize), Total(g, RingSize), RingSize * 0)
    BY <2>3, NearTotal
  <2>5. QED
    BY <1>1, <2>1, <2>4
<1>3. QED
  BY <1>1, <1>2, ProductIs DEF Alike

(* Two shifts, one after the other.                                         *)
Twice(s, a, b, k) == Shifted([y \in Ring |-> Shifted(s, b, y)], a, k)

\* Their order does not matter.
LEMMA TwiceSymmetric ==
  ASSUME NEW s \in Polynomials, NEW a \in 0 .. RingSize - 1, NEW b \in 0 .. RingSize - 1,
         NEW k \in Ring
  PROVE  /\ Twice(s, a, b, k) = Twice(s, b, a, k)
         /\ Twice(s, a, b, k) \in Int
<1>1. \A m \in Ring : s[m] \in Int /\ -(-s[m]) = s[m]
  BY DEF Polynomials
<1>2. ASSUME NEW c \in 0 .. RingSize - 1, NEW d \in 0 .. RingSize - 1
      PROVE  Twice(s, c, d, k) = IF k > c + d THEN s[k - c - d]
                                 ELSE IF k + RingSize > c + d THEN -s[RingSize + k - c - d]
                                 ELSE s[RingSize + RingSize + k - c - d]
  <2> DEFINE f == [y \in Ring |-> Shifted(s, d, y)]
  <2>1. \A y \in Ring : f[y] = IF y <= d THEN -s[RingSize + y - d] ELSE s[y - d]
    BY DEF Shifted
  <2>2. Twice(s, c, d, k) = IF k <= c THEN -f[RingSize + k - c] ELSE f[k - c]
    BY DEF Twice, Shifted
  <2> HIDE DEF f
  <2>3. CASE k <= c
    <3>1. RingSize + k - c \in Ring
      BY <2>3, RingIs
    <3>2. Twice(s, c, d, k) = -(IF RingSize + k - c <= d THEN -s[RingSize + (RingSize + k - c) - d]
                                ELSE s[(RingSize + k - c) - d])
      BY <2>1, <2>2, <2>3, <3>1
    <3>3. /\ RingSize + (RingSize + k - c) - d = RingSize + RingSize + k - c - d
          /\ (RingSize + k - c) - d = RingSize + k - c - d
      BY RingIs
    <3>4. CASE RingSize + k - c <= d
      <4>1. /\ ~(k > c + d) /\ ~(k + RingSize > c + d)
            /\ RingSize + RingSize + k - c - d \in Ring
        BY <3>4, RingIs
      <4>2. QED
        BY <1>1, <3>2, <3>3, <3>4, <4>1
    <3>5. CASE ~(RingSize + k - c <= d)
      <4>1. ~(k > c + d) /\ k + RingSize > c + d
        BY <2>3, <3>5, RingIs
      <4>2. QED
        BY <3>2, <3>3, <3>5, <4>1
    <3>6. QED
      BY <3>4, <3>5
  <2>4. CASE ~(k <= c)
    <3>1. k - c \in Ring /\ RingSize + (k - c) - d = RingSize + k - c - d
      BY <2>4, RingIs
    <3>2. Twice(s, c, d, k) = IF k - c <= d THEN -s[RingSize + (k - c) - d] ELSE s[k - c - d]
      BY <2>1, <2>2, <2>4, <3>1
    <3>3. k - c <= d => ~(k > c + d) /\ k + RingSize > c + d
      BY <2>4, RingIs
    <3>4. ~(k - c <= d) => k > c + d
      BY RingIs
    <3>5. QED
      BY <3>1, <3>2, <3>3, <3>4
  <2>5. QED
    BY <2>3, <2>4
<1>3. /\ a + b = b + a /\ k - a - b = k - b - a
      /\ RingSize + k - a - b = RingSize + k - b - a
      /\ RingSize + RingSize + k - a - b = RingSize + RingSize + k - b - a
  BY RingIs
<1>4. Twice(s, a, b, k) = Twice(s, b, a, k)
  BY <1>2, <1>3
<1>5. Twice(s, a, b, k) \in Int
  <2> DEFINE f == [y \in Ring |-> Shifted(s, b, y)]
  <2>1. f \in Polynomials
    BY ShiftedLinear DEF Polynomials
  <2>2. Shifted(f, a, k) \in Int
    BY <2>1, ShiftedLinear
  <2>3. QED
    BY <2>2 DEF Twice
<1>6. QED
  BY <1>4, <1>5

(* The terms of a product of a product.                                     *)
Terms(p, q, s, k) ==
  [i \in Ring |-> [l \in Ring |-> p[i] * (q[l] * Twice(s, i - 1, l - 1, k))]]

\* A product of a product, term by term.
LEMMA ProductTwice ==
  ASSUME NEW p \in Polynomials, NEW q \in Polynomials, NEW s \in Polynomials, NEW k \in Ring
  PROVE  Product(p, Product(q, s))[k]
           = Total([i \in 1 .. RingSize |-> Total(Terms(p, q, s, k)[i], RingSize)], RingSize)
<1> DEFINE t == Terms(p, q, s, k)
           f == Term(p, Product(q, s), k)
           g == [i \in 1 .. RingSize |-> Total(t[i], RingSize)]
<1>1. Product(q, s) \in Polynomials
  BY ProductIs
<1>2. /\ Addends(f, RingSize)
      /\ Product(p, Product(q, s))[k] = Total(f, RingSize)
      /\ \A i \in Ring : f[i] = p[i] * Shifted(Product(q, s), i - 1, k)
  <2> DEFINE r == Product(q, s)
  <2>1. r \in Polynomials
    BY <1>1
  <2> HIDE DEF r
  <2>2. Addends(Term(p, r, k), RingSize) /\ Product(p, r)[k] = Total(Term(p, r, k), RingSize)
    BY <2>1, ProductIs
  <2>3. \A i \in Ring : Term(p, r, k)[i] = p[i] * Shifted(r, i - 1, k)
    BY DEF Term
  <2>4. QED
    BY <2>2, <2>3 DEF r
<1>3. \A i, l \in Ring : t[i][l] = p[i] * (q[l] * Twice(s, i - 1, l - 1, k))
  BY DEF Terms
<1> HIDE DEF f, t
<1>4. ASSUME NEW i \in Ring PROVE Total(t[i], RingSize) = f[i]
  <2>0. i - 1 \in 0 .. RingSize - 1 /\ p[i] \in Int
    BY RingIs DEF Polynomials
  <2>1. PICK m \in Ring :
           \/ \A x : Shifted(x, i - 1, k) = x[m]
           \/ \A x : Shifted(x, i - 1, k) = -x[m]
    BY <2>0, ShiftedIs
  <2> DEFINE h == Term(q, s, m)
  <2> HIDE DEF h
  <2>2. /\ Addends(h, RingSize) /\ Product(q, s)[m] = Total(h, RingSize)
        /\ \A l \in Ring : h[l] = q[l] * Shifted(s, l - 1, m)
    <3>1. /\ Addends(Term(q, s, m), RingSize)
          /\ Product(q, s)[m] = Total(Term(q, s, m), RingSize)
      BY ProductIs
    <3>2. \A l \in Ring : Term(q, s, m)[l] = q[l] * Shifted(s, l - 1, m)
      BY DEF Term
    <3>3. QED
      BY <3>1, <3>2 DEF h
  <2>3. PICK c \in {1, -1} : \A x : x[m] \in Int => Shifted(x, i - 1, k) = c * x[m]
    <3>1. CASE \A x : Shifted(x, i - 1, k) = x[m]
      <4>1. \A x : x[m] \in Int => Shifted(x, i - 1, k) = 1 * x[m]
        BY <3>1
      <4>2. QED
        BY <4>1
    <3>2. CASE \A x : Shifted(x, i - 1, k) = -x[m]
      <4>1. \A x : x[m] \in Int => Shifted(x, i - 1, k) = (-1) * x[m]
        BY <3>2
      <4>2. QED
        BY <4>1
    <3>3. QED
      BY <2>1, <3>1, <3>2
  <2>4. Total(h, RingSize) \in Int
    BY <2>2, TotalStep
  <2>5. f[i] = p[i] * (c * Total(h, RingSize))
    BY <1>2, <2>2, <2>3, <2>4
  <2>6. ASSUME NEW l \in Ring PROVE t[i][l] = (p[i] * c) * h[l] + 0 * h[l] /\ h[l] \in Int
    <3> DEFINE x == [y \in Ring |-> Shifted(s, l - 1, y)]
    <3>1. l - 1 \in 0 .. RingSize - 1 /\ q[l] \in Int
      BY RingIs DEF Polynomials
    <3>2. x[m] = Shifted(s, l - 1, m) /\ x[m] \in Int
      BY <3>1, ShiftedLinear
    <3>3. Twice(s, i - 1, l - 1, k) = Shifted(x, i - 1, k)
      BY DEF Twice
    <3> HIDE DEF x
    <3>4. t[i][l] = p[i] * (q[l] * (c * x[m])) /\ h[l] = q[l] * x[m]
      BY <1>3, <2>2, <2>3, <3>2, <3>3
    <3>5. /\ p[i] * (q[l] * (c * x[m])) = (p[i] * c) * (q[l] * x[m])
          /\ q[l] * x[m] \in Int /\ p[i] * c \in Int
      BY <2>0, <3>1, <3>2
    <3>6. QED
      BY <3>4, <3>5
  <2>7. p[i] * c \in Int
    BY <2>0
  <2>8. Combines(t[i], p[i] * c, h, 0, h, RingSize)
    BY <2>2, <2>6, <2>7, RingIs DEF Combines
  <2>9. Total(t[i], RingSize) = (p[i] * c) * Total(h, RingSize) + 0 * Total(h, RingSize)
    BY <2>8, TotalLinear
  <2>10. (p[i] * c) * Total(h, RingSize) + 0 * Total(h, RingSize)
            = p[i] * (c * Total(h, RingSize))
    BY <2>0, <2>4
  <2>11. QED
    BY <2>5, <2>9, <2>10
<1>5. \A i \in 1 .. RingSize : g[i] = f[i]
  BY <1>4, RingIs
<1> HIDE DEF g
<1>6. Total(g, RingSize) = Total(f, RingSize)
  BY <1>2, <1>5, TotalSame
<1>7. QED
  BY <1>2, <1>6 DEF g, t

(* Factors may change their places.                                         *)
LEMMA ProductsCommute ==
  ASSUME NEW p \in Polynomials, NEW q \in Polynomials, NEW s \in Polynomials, NEW k \in Ring
  PROVE  Product(p, Product(q, s))[k] = Product(q, Product(p, s))[k]
<1> DEFINE t == Terms(p, q, s, k)
           u == Terms(q, p, s, k)
<1>1. \A i, j \in Ring : t[i][j] = p[i] * (q[j] * Twice(s, i - 1, j - 1, k))
  BY DEF Terms
<1>2. \A i, j \in Ring : u[j][i] = q[j] * (p[i] * Twice(s, j - 1, i - 1, k))
  BY DEF Terms
<1>3. u = [j \in Ring |-> [i \in Ring |-> u[j][i]]]
  BY DEF Terms
<1> HIDE DEF t, u
<1>4. ASSUME NEW i \in Ring, NEW j \in Ring PROVE t[i][j] = u[j][i] /\ t[i][j] \in Int
  <2> DEFINE w == Twice(s, i - 1, j - 1, k)
  <2>1. p[i] \in Int /\ q[j] \in Int
    BY DEF Polynomials
  <2>2. w \in Int /\ w = Twice(s, j - 1, i - 1, k)
    BY RingIs, TwiceSymmetric
  <2>3. t[i][j] = p[i] * (q[j] * w) /\ u[j][i] = q[j] * (p[i] * w)
    BY <1>1, <1>2, <2>2
  <2> HIDE DEF w
  <2>4. p[i] * (q[j] * w) = q[j] * (p[i] * w) /\ p[i] * (q[j] * w) \in Int
    BY <2>1, <2>2
  <2>5. QED
    BY <2>3, <2>4
<1>5. Total([i \in 1 .. RingSize |-> Total(t[i], RingSize)], RingSize)
        = Total([j \in 1 .. RingSize |-> Total([i \in 1 .. RingSize |-> t[i][j]], RingSize)],
                RingSize)
  BY <1>4, RingIs, TotalSwap
<1>6. ASSUME NEW j \in 1 .. RingSize PROVE [i \in 1 .. RingSize |-> t[i][j]] = u[j]
  <2>1. u[j] = [i \in 1 .. RingSize |-> u[j][i]]
    BY <1>3, RingIs
  <2>2. \A i \in 1 .. RingSize : t[i][j] = u[j][i]
    BY <1>4, RingIs
  <2>3. QED
    BY <2>1, <2>2
<1>7. [j \in 1 .. RingSize |-> Total([i \in 1 .. RingSize |-> t[i][j]], RingSize)]
        = [j \in 1 .. RingSize |-> Total(u[j], RingSize)]
  BY <1>6
<1>8. Product(p, Product(q, s))[k]
        = Total([i \in 1 .. RingSize |-> Total(t[i], RingSize)], RingSize)
  BY ProductTwice DEF t
<1>9. Product(q, Product(p, s))[k]
        = Total([j \in 1 .. RingSize |-> Total(u[j], RingSize)], RingSize)
  BY ProductTwice DEF u
<1>10. QED
  BY <1>5, <1>7, <1>8, <1>9

(* Coefficient k of X^r times p, for r below 2N.                            *)
Turn(p, r, k) == IF r < RingSize THEN Shifted(p, r, k) ELSE -Shifted(p, r - RingSize, k)

\* Turned works it out, modulo the torus.
LEMMA TurnedIs ==
  ASSUME NEW r \in 0 .. (2 * RingSize - 1), NEW p \in Polynomials
  PROVE  /\ Turned(p, r) \in Polynomials
         /\ \A k \in Ring : Turn(p, r, k) \in Int /\ Near(Turned(p, r)[k], Turn(p, r, k), 0)
<1> DEFINE f == [k \in Ring |-> Turn(p, r, k) % Torus]
<1>1. ASSUME NEW k \in Ring PROVE Turn(p, r, k) \in Int
  <2>1. CASE r < RingSize
    <3>1. r \in 0 .. RingSize - 1
      BY <2>1, RingIs
    <3>2. QED
      BY <2>1, <3>1, ShiftedLinear DEF Turn
  <2>2. CASE ~(r < RingSize)
    <3>1. r - RingSize \in 0 .. RingSize - 1
      BY <2>2, RingIs
    <3>2. Shifted(p, r - RingSize, k) \in Int
      BY <3>1, ShiftedLinear
    <3>3. QED
      BY <2>2, <3>2 DEF Turn
  <2>3. QED
    BY <2>1, <2>2
<1>2. \A k \in Ring : /\ Turn(p, r, k) % Torus \in Int
                      /\ Near(Turn(p, r, k) % Torus, Turn(p, r, k), 0)
  BY <1>1, NearSelf DEF Near
<1>3. f \in [1 .. RingSize -> Int]
  BY <1>2, RingIs
<1>4. Turned(p, r) = Tuple(f, RingSize)
  BY DEF Turned, Turn
<1> HIDE DEF f
<1>5. Turned(p, r) = f
  BY <1>3, <1>4, TupleIs, RingIs
<1>6. Turned(p, r) \in Polynomials
  BY <1>3, <1>5, RingIs DEF Polynomials
<1>7. \A k \in Ring : Turned(p, r)[k] = Turn(p, r, k) % Torus
  BY <1>5 DEF f
<1>8. QED
  BY <1>1, <1>2, <1>6, <1>7

\* A product with a polynomial that is turned is a product that is turned.
LEMMA ProductTurned ==
  ASSUME NEW s \in Polynomials, NEW p \in Polynomials, NEW r \in 0 .. (2 * RingSize - 1),
         NEW k \in Ring
  PROVE  Product(s, [y \in Ring |-> Turn(p, r, y)])[k] = Turn(Product(s, p), r, k)
<1>1. PICK d \in 0 .. RingSize - 1, c \in {1, -1} :
        \A x, y : Shifted(x, d, y) \in Int => Turn(x, r, y) = c * Shifted(x, d, y)
  <2>1. CASE r < RingSize
    <3>1. r \in 0 .. RingSize - 1
      BY <2>1, RingIs
    <3>2. \A x, y : Shifted(x, r, y) \in Int => Turn(x, r, y) = 1 * Shifted(x, r, y)
      BY <2>1 DEF Turn
    <3>3. QED
      BY <3>1, <3>2
  <2>2. CASE ~(r < RingSize)
    <3> DEFINE d == r - RingSize
    <3>1. d \in 0 .. RingSize - 1
      BY <2>2, RingIs
    <3>2. \A x, y : Turn(x, r, y) = -Shifted(x, d, y)
      BY <2>2 DEF Turn
    <3> HIDE DEF d
    <3>3. \A x, y : Shifted(x, d, y) \in Int => Turn(x, r, y) = (-1) * Shifted(x, d, y)
      BY <3>2
    <3>4. QED
      BY <3>1, <3>3
  <2>3. QED
    BY <2>1, <2>2
<1>2. PICK m \in Ring, e \in {1, -1} :
        \A x : x[m] \in Int => Shifted(x, d, k) = e * x[m]
  <2>1. PICK m \in Ring : \/ \A x : Shifted(x, d, k) = x[m]
                          \/ \A x : Shifted(x, d, k) = -x[m]
    BY ShiftedIs
  <2>2. CASE \A x : Shifted(x, d, k) = x[m]
    <3>1. \A x : x[m] \in Int => Shifted(x, d, k) = 1 * x[m]
      BY <2>2
    <3>2. QED
      BY <3>1
  <2>3. CASE \A x : Shifted(x, d, k) = -x[m]
    <3>1. \A x : x[m] \in Int => Shifted(x, d, k) = (-1) * x[m]
      BY <2>3
    <3>2. QED
      BY <3>1
  <2>4. QED
    BY <2>1, <2>2, <2>3
<1> DEFINE z == [y \in Ring |-> Turn(p, r, y)]
           w == [y \in Ring |-> Shifted(p, d, y)]
           f == Term(s, z, k)
           g == Term(s, p, m)
<1>3. w \in Polynomials
  BY ShiftedLinear DEF Polynomials
<1>4. \A y \in Ring : z[y] = c * w[y] /\ w[y] = Shifted(p, d, y) /\ w[y] \in Int
  BY <1>1, ShiftedLinear
<1>5. z \in Polynomials
  <2>1. \A y \in Ring : Turn(p, r, y) \in Int
    BY TurnedIs
  <2>2. QED
    BY <2>1 DEF Polynomials
<1>6. Mixture(z, c, w, 0, w)
  <2>1. ASSUME NEW y \in Ring PROVE z[y] = c * w[y] + 0 * w[y]
    BY <1>4
  <2> HIDE DEF z, w
  <2>2. QED
    BY <1>3, <1>5, <2>1 DEF Mixture
<1>7. /\ Addends(f, RingSize) /\ Product(s, z)[k] = Total(f, RingSize)
      /\ \A i \in Ring : f[i] = s[i] * Shifted(z, i - 1, k)
  <2> HIDE DEF z
  <2>1. Addends(Term(s, z, k), RingSize) /\ Product(s, z)[k] = Total(Term(s, z, k), RingSize)
    BY <1>5, ProductIs
  <2>2. \A i \in Ring : Term(s, z, k)[i] = s[i] * Shifted(z, i - 1, k)
    BY DEF Term
  <2>3. QED
    BY <2>1, <2>2
<1>8. /\ Addends(g, RingSize) /\ Product(s, p)[m] = Total(g, RingSize)
      /\ \A i \in Ring : g[i] = s[i] * Shifted(p, i - 1, m)
  BY ProductIs
<1>9. \A j \in 0 .. RingSize - 1 : Twice(p, j, d, k) = Shifted(w, j, k)
  BY DEF Twice
<1> HIDE DEF f, g, z, w
<1>10. ASSUME NEW i \in Ring PROVE f[i] = (c * e) * g[i] + 0 * g[i] /\ g[i] \in Int
  <2> DEFINE j == i - 1
             v == [y \in Ring |-> Shifted(p, j, y)]
             n == Shifted(p, j, m)
  <2>1. j \in 0 .. RingSize - 1 /\ s[i] \in Int
    BY RingIs DEF Polynomials
  <2>2. n \in Int /\ v[m] = n
    BY <2>1, ShiftedLinear
  <2>3. Twice(p, d, j, k) = Shifted(v, d, k)
    BY DEF Twice
  <2>4. f[i] = s[i] * Shifted(z, j, k) /\ g[i] = s[i] * n
    BY <1>7, <1>8
  <2> HIDE DEF j, v, n
  <2>5. Shifted(v, d, k) = e * n
    BY <1>2, <2>2
  <2>6. Shifted(w, j, k) = e * n
    BY <1>9, <2>1, <2>3, <2>5, TwiceSymmetric
  <2>7. Shifted(z, j, k) = c * Shifted(w, j, k) + 0 * Shifted(w, j, k)
    BY <1>6, <2>1, ShiftedLinear
  <2>8. s[i] * (c * (e * n)) = (c * e) * (s[i] * n) /\ s[i] * n \in Int /\ e * n \in Int
        /\ c * (e * n) \in Int
    BY <2>1, <2>2
  <2>9. QED
    BY <2>4, <2>6, <2>7, <2>8
<1>11. c * e \in Int
  OBVIOUS
<1>12. Combines(f, c * e, g, 0, g, RingSize)
  BY <1>8, <1>10, <1>11, RingIs DEF Combines
<1>13. Total(f, RingSize) = (c * e) * Total(g, RingSize) + 0 * Total(g, RingSize)
  BY <1>12, TotalLinear
<1>14. Total(g, RingSize) \in Int
  BY <1>8, TotalStep
<1>15. Turn(Product(s, p), r, k) = c * (e * Total(g, RingSize))
  <2>1. Product(s, p)[m] \in Int
    BY <1>8, <1>14
  <2>2. Shifted(Product(s, p), d, k) = e * Total(g, RingSize)
    BY <1>2, <1>8, <2>1
  <2>3. e * Total(g, RingSize) \in Int
    BY <1>14
  <2>4. QED
    BY <1>1, <2>2, <2>3
<1>16. (c * e) * Total(g, RingSize) + 0 * Total(g, RingSize) = c * (e * Total(g, RingSize))
  BY <1>14
<1>17. QED
  BY <1>7, <1>13, <1>15, <1>16 DEF z

(* A product with a constant is a multiple.                                 *)
LEMMA ProductConstant ==
  ASSUME NEW p \in Polynomials, NEW c \in Int, NEW k \in Ring
  PROVE  Product(p, [x \in Ring |-> IF x = 1 THEN c ELSE 0])[k] = c * p[k]
<1> DEFINE q == [x \in Ring |-> IF x = 1 THEN c ELSE 0]
           f == Term(p, q, k)
<1>1. q \in Polynomials
  BY DEF Polynomials
<1>2. \A x \in Ring : q[x] = IF x = 1 THEN c ELSE 0
  OBVIOUS
<1>3. /\ Addends(f, RingSize) /\ Product(p, q)[k] = Total(f, RingSize)
      /\ \A i \in Ring : f[i] = p[i] * Shifted(q, i - 1, k)
  BY <1>1, ProductIs
<1> HIDE DEF f, q
<1>4. p[k] \in Int /\ k \in 1 .. RingSize
  BY RingIs DEF Polynomials
<1>5. ASSUME NEW i \in 1 .. RingSize, i # k PROVE f[i] = 0
  <2>1. i \in Ring /\ p[i] \in Int
    BY RingIs DEF Polynomials
  <2>2. Shifted(q, i - 1, k) = 0
    <3>1. CASE k <= i - 1
      <4>1. RingSize + k - (i - 1) \in Ring /\ RingSize + k - (i - 1) # 1
        BY <1>4, <3>1, RingIs
      <4>2. QED
        BY <1>2, <3>1, <4>1 DEF Shifted
    <3>2. CASE ~(k <= i - 1)
      <4>1. k - (i - 1) \in Ring /\ k - (i - 1) # 1
        BY <1>4, <1>5, <3>2, RingIs
      <4>2. QED
        BY <1>2, <3>2, <4>1 DEF Shifted
    <3>3. QED
      BY <3>1, <3>2
  <2>3. f[i] = p[i] * 0
    BY <1>3, <2>1, <2>2
  <2>4. QED
    BY <2>1, <2>3
<1>6. f[k] = c * p[k]
  <2>1. ~(k <= k - 1) /\ k - (k - 1) = 1 /\ 1 \in Ring
    BY <1>4, RingIs
  <2>2. Shifted(q, k - 1, k) = c
    BY <1>2, <2>1 DEF Shifted
  <2>3. f[k] = p[k] * c
    BY <1>3, <2>2
  <2>4. QED
    BY <1>4, <2>3
<1>7. Total(f, RingSize) = f[k]
  BY <1>3, <1>4, <1>5, TotalOne
<1>8. QED
  BY <1>3, <1>6, <1>7 DEF q

-----------------------------------------------------------------------------
(* Digits.                                                                  *)

(* The weights of the digits.                                               *)
LEMMA WeightIs ==
  ASSUME NEW w \in Nat \ {0}, NEW l \in Nat, w * l <= TorusBits
  PROVE  /\ Weight(w, 0) = Torus
         /\ \A d \in 0 .. l : Weight(w, d) \in Nat \ {0}
         /\ \A d \in Nat : d + 1 <= l =>
              /\ TwoTo[w] \in Nat \ {0}
              /\ Weight(w, d) = TwoTo[w] * Weight(w, d + 1)
<1>1. Weight(w, 0) = Torus
  <2>1. TorusBits - 0 * w = TorusBits
    BY Parameters
  <2>2. QED
    BY <2>1 DEF Weight, Torus
<1>2. ASSUME NEW d \in 0 .. l PROVE d * w \in Nat /\ d * w <= TorusBits
  <2>1. (l - d) * w >= 0
    OBVIOUS
  <2>2. (l - d) * w = w * l - d * w /\ d * w \in Nat
    OBVIOUS
  <2>3. QED
    BY <2>1, <2>2, Parameters
<1>3. ASSUME NEW d \in 0 .. l PROVE Weight(w, d) \in Nat \ {0}
  <2>1. TorusBits - d * w \in Nat /\ (TorusBits - d * w) + 0 <= TorusBits
    BY <1>2, Parameters
  <2>2. TwoTo[TorusBits - d * w] \in Nat \ {0}
    BY <2>1, TwoToSum
  <2>3. QED
    BY <2>2 DEF Weight
<1>4. ASSUME NEW d \in Nat, d + 1 <= l
      PROVE  TwoTo[w] \in Nat \ {0} /\ Weight(w, d) = TwoTo[w] * Weight(w, d + 1)
  <2>1. d + 1 \in 0 .. l
    BY <1>4
  <2>2. (d + 1) * w \in Nat /\ (d + 1) * w <= TorusBits
    BY <1>2, <2>1
  <2>3. (d + 1) * w = d * w + w /\ d * w \in Nat
    OBVIOUS
  <2>4. /\ TorusBits - (d + 1) * w \in Nat
        /\ w + (TorusBits - (d + 1) * w) = TorusBits - d * w
        /\ w + (TorusBits - (d + 1) * w) <= TorusBits
    BY <2>2, <2>3, Parameters
  <2>5. /\ TwoTo[w + (TorusBits - (d + 1) * w)] = TwoTo[w] * TwoTo[TorusBits - (d + 1) * w]
        /\ TwoTo[w] \in Nat \ {0}
    BY <2>4, TwoToSum
  <2>6. QED
    BY <2>4, <2>5 DEF Weight
<1>5. QED
  BY <1>1, <1>3, <1>4

(* The first digits of a number are worth all of it but what is below them. *)
LEMMA DigitsAre ==
  ASSUME NEW w \in Nat \ {0}, NEW l \in Nat \ {0}, w * l <= TorusBits, NEW y \in 0 .. Torus - 1,
         NEW f, \A d \in 1 .. l : f[d] = Weight(w, d) * ((y \div Weight(w, d)) % TwoTo[w])
  PROVE  Addends(f, l) /\ Total(f, l) = y - (y % Weight(w, l))
<1>1. ASSUME NEW d \in 1 .. l
      PROVE  /\ f[d] \in Int
             /\ f[d] = (y % Weight(w, d - 1)) - (y % Weight(w, d))
  <2> DEFINE W == Weight(w, d)
             B == TwoTo[w]
             q == y \div W
             r == y % W
             p == q \div B
             g == q % B
  <2>1. d - 1 \in Nat /\ (d - 1) + 1 = d /\ d \in 0 .. l
    OBVIOUS
  <2>2. W \in Nat \ {0} /\ B \in Nat \ {0} /\ Weight(w, d - 1) = B * W
    BY <2>1, WeightIs
  <2>3. y \in Int
    BY TorusIs
  <2> HIDE DEF W, B
  <2>4. r \in 0 .. W - 1 /\ q \in Int /\ y = q * W + r
    BY <2>2, <2>3, RemainderIs
  <2> HIDE DEF q, r
  <2>5. g \in 0 .. B - 1 /\ p \in Int /\ q = p * B + g
    BY <2>2, <2>4, RemainderIs
  <2> HIDE DEF g, p
  <2>6. q * W = p * (B * W) + g * W /\ g * W \in Nat /\ B * W \in Nat \ {0}
        /\ p * (B * W) \in Int
    <3>1. (p * B + g) * W = p * (B * W) + g * W
      BY <2>2, <2>5
    <3>2. g * W \in Nat /\ B * W \in Nat /\ B * W # 0 /\ p * (B * W) \in Int
      BY <2>2, <2>5
    <3>3. QED
      BY <2>5, <3>1, <3>2
  <2>7. g * W + r \in 0 .. (B * W) - 1
    <3>1. (B - 1 - g) * W >= 0
      BY <2>2, <2>5
    <3>2. (B - 1 - g) * W = B * W - W - g * W
      BY <2>2, <2>5
    <3>3. QED
      BY <2>2, <2>4, <2>6, <3>1, <3>2
  <2>8. y = p * (B * W) + (g * W + r)
    BY <2>4, <2>6
  <2>9. y % (B * W) = g * W + r
    <3> DEFINE V == B * W
               s == g * W + r
    <3>1. V \in Nat \ {0} /\ s \in 0 .. V - 1 /\ y = p * V + s /\ p \in Int
      BY <2>5, <2>6, <2>7, <2>8
    <3> HIDE DEF V, s
    <3>2. y % V = s
      BY <2>3, <3>1, RemainderUnique
    <3>3. QED
      BY <3>2 DEF V, s
  <2>10. f[d] = W * g
    BY DEF W, B, g, q
  <2>11. W * g = g * W
    BY <2>2, <2>5
  <2>12. QED
    BY <2>2, <2>4, <2>6, <2>9, <2>10, <2>11 DEF W, r
<1>2. Addends(f, l)
  BY <1>1 DEF Addends
<1>3. \A m \in 0 .. l : y % Weight(w, m) \in Int
  <2>1. ASSUME NEW m \in 0 .. l PROVE y % Weight(w, m) \in Int
    <3> DEFINE W == Weight(w, m)
    <3>1. W \in Nat \ {0} /\ y \in Int
      BY WeightIs
    <3> HIDE DEF W
    <3>2. y % W \in 0 .. W - 1
      BY <3>1, RemainderIs
    <3>3. y % W \in Int
      BY <3>1, <3>2
    <3>4. QED
      BY <3>3 DEF W
  <2>2. QED
    BY <2>1
<1> DEFINE S == {m \in Nat : m <= l => Total(f, m) = y - (y % Weight(w, m))}
<1>4. 0 \in S
  <2>1. Total(f, 0) = 0 /\ Weight(w, 0) = Torus
    BY <1>2, TotalStep, WeightIs
  <2>2. y % Torus = y
    BY TorusIs
  <2>3. y - y = 0
    BY TorusIs
  <2>4. QED
    BY <2>1, <2>2, <2>3
<1>5. ASSUME NEW m \in Nat, m \in S PROVE m + 1 \in S
  <2>1. SUFFICES ASSUME m + 1 <= l
                 PROVE  Total(f, m + 1) = y - (y % Weight(w, m + 1))
    OBVIOUS
  <2>2. m + 1 \in 1 .. l /\ m <= l /\ (m + 1) - 1 = m /\ m \in 0 .. l /\ m + 1 \in 0 .. l
    BY <2>1
  <2>3. Total(f, m + 1) = Total(f, m) + f[m + 1] /\ Total(f, m) = y - (y % Weight(w, m))
    BY <1>2, <1>5, <2>1, <2>2, TotalStep
  <2>4. f[m + 1] = (y % Weight(w, m)) - (y % Weight(w, m + 1))
    BY <1>1, <2>2
  <2>5. y % Weight(w, m) \in Int /\ y % Weight(w, m + 1) \in Int /\ y \in Int
    BY <1>3, <2>2
  <2>6. QED
    BY <2>3, <2>4, <2>5
<1> HIDE DEF S
<1>6. Nat \subseteq S
  BY <1>4, <1>5, Induction
<1>7. l \in S
  BY <1>6
<1>8. QED
  BY <1>2, <1>7 DEF S

(* What is left of a number below the last weight, from its middle.         *)
LEMMA RestIs ==
  ASSUME NEW W \in Nat \ {0}, NEW y \in Int
  PROVE  /\ W \div 2 \in Nat
         /\ (W \div 2) - (y % W) \in -(W \div 2) .. (W \div 2)
<1> DEFINE h == W \div 2
           r == y % W
<1>1. h \in Int /\ W % 2 \in 0 .. 1 /\ W = h * 2 + (W % 2)
  BY RemainderIs
<1>2. r \in 0 .. W - 1
  BY RemainderIs
<1> HIDE DEF h, r
<1>3. h \in Nat /\ h - r \in -h .. h
  BY <1>1, <1>2
<1>4. QED
  BY <1>3 DEF h, r

(* A number that is a multiple of W away from x and the half of W is, down  *)
(* to a multiple, x without what rounding leaves of it, if W fits the torus. *)
LEMMA RoundingIs ==
  ASSUME NEW W \in Nat \ {0}, NEW m \in Int, Torus = m * W,
         NEW x \in Int, NEW y \in Int, NEW z \in Int, Near(y, x + (W \div 2) + z * W, 0)
  PROVE  /\ Remainder(x, W) \in Int
         /\ y % W \in 0 .. W - 1
         /\ Near(y - (y % W), x + z * W - Remainder(x, W), 0)
<1> DEFINE h == W \div 2
           r == y % W
           T == Torus
<1>1. h \in Nat
  BY RestIs
<1>2. r \in 0 .. W - 1
  BY RemainderIs
<1>3. PICK k \in Int : y - (x + h + z * W) - k * T \in -0 .. 0
  BY DEF Near
<1>4. T = m * W /\ T \in Int
  BY TorusIs
<1> HIDE DEF h, T
<1>5. k * T = (k * m) * W /\ k * m \in Int /\ k * T \in Int /\ z * W \in Int
  BY <1>4
<1>6. y = (x + h) + z * W + k * T
  BY <1>1, <1>3, <1>5
<1>7. r = (x + h) % W
  <2>1. z * W + k * T = (z + k * m) * W /\ z + k * m \in Int
    <3> DEFINE j == k * m
    <3>1. j \in Int /\ k * T = j * W
      BY <1>5
    <3> HIDE DEF j
    <3>2. z * W + j * W = (z + j) * W /\ z + j \in Int
      BY <3>1
    <3>3. QED
      BY <3>1, <3>2 DEF j
  <2>2. y = (x + h) + (z + k * m) * W /\ x + h \in Int
    BY <1>1, <1>5, <1>6, <2>1
  <2>3. y % W = (x + h) % W
    <3> DEFINE j == z + k * m
    <3>1. j \in Int /\ y = (x + h) + j * W
      BY <2>1, <2>2
    <3> HIDE DEF j
    <3>2. QED
      BY <2>2, <3>1, SameRemainder
  <2>4. QED
    BY <2>3 DEF r
<1>8. Remainder(x, W) = r - h
  BY <1>7 DEF Remainder, h
<1> HIDE DEF r
<1>9. Remainder(x, W) \in Int /\ r \in Int
  BY <1>1, <1>2, <1>8
<1>10. (y - r) - (x + z * W - Remainder(x, W)) - k * T \in -0 .. 0
  BY <1>1, <1>2, <1>5, <1>6, <1>8
<1>11. y - r \in Int /\ x + z * W - Remainder(x, W) \in Int
  BY <1>5, <1>9
<1>12. Near(y - r, x + z * W - Remainder(x, W), 0)
  <2> DEFINE v == x + z * W - Remainder(x, W)
  <2>1. v \in Int /\ (y - r) - v - k * T \in -0 .. 0
    BY <1>10, <1>11
  <2> HIDE DEF v
  <2>2. Near(y - r, v, 0)
    BY <1>11, <2>1 DEF Near, T
  <2>3. QED
    BY <2>2 DEF v
<1>13. QED
  BY <1>2, <1>9, <1>12 DEF r

(* The weights of the digits are multiples of the last one, and so is the   *)
(* torus.                                                                   *)
LEMMA WeightsFit ==
  ASSUME NEW w \in Nat \ {0}, NEW l \in Nat, w * l <= TorusBits, NEW d \in 0 .. l
  PROVE  /\ Weight(w, d) = TwoTo[w * (l - d)] * Weight(w, l)
         /\ TwoTo[w * (l - d)] \in Nat \ {0} /\ Weight(w, l) \in Nat \ {0}
<1>1. w * (l - d) \in Nat /\ w * (l - d) = w * l - w * d /\ w * l \in Nat /\ w * d \in Nat
  <2>1. l - d \in Nat
    OBVIOUS
  <2>2. w * (l - d) \in Nat /\ w * l \in Nat /\ w * d \in Nat
    BY <2>1
  <2>3. w * (l - d) = w * l - w * d
    OBVIOUS
  <2>4. QED
    BY <2>2, <2>3
<1>2. /\ TorusBits - l * w \in Nat
      /\ w * (l - d) + (TorusBits - l * w) = TorusBits - d * w
      /\ w * (l - d) + (TorusBits - l * w) <= TorusBits
  <2>1. l * w = w * l /\ d * w = w * d
    OBVIOUS
  <2>2. QED
    BY <1>1, <2>1, Parameters
<1>3. /\ TwoTo[w * (l - d) + (TorusBits - l * w)] = TwoTo[w * (l - d)] * TwoTo[TorusBits - l * w]
      /\ TwoTo[w * (l - d)] \in Nat \ {0} /\ TwoTo[TorusBits - l * w] \in Nat \ {0}
  BY <1>1, <1>2, TwoToSum
<1>4. QED
  BY <1>2, <1>3 DEF Weight

\* So there is a whole number of last weights in the torus.
LEMMA LastWeightFits ==
  ASSUME NEW w \in Nat \ {0}, NEW l \in Nat, w * l <= TorusBits
  PROVE  TwoTo[w * l] \in Int /\ Torus = TwoTo[w * l] * Weight(w, l)
<1>1. 0 \in 0 .. l /\ w * (l - 0) = w * l
  OBVIOUS
<1>2. Weight(w, 0) = TwoTo[w * l] * Weight(w, l) /\ TwoTo[w * l] \in Nat \ {0}
  BY <1>1, WeightsFit
<1>3. QED
  BY <1>2, WeightIs

(* The weights that the digits of the bootstrapping are taken with.         *)
DigitWeight(d) == Weight(DigitBits, d)
DigitRest == Weight(DigitBits, DigitCount) \div 2
RestOf(x) == Remainder(x, Weight(DigitBits, DigitCount))

\* The weights of the digits, what is below the last one, and the offset.
LEMMA DigitWeightIs ==
  /\ \A d \in 1 .. DigitCount : DigitWeight(d) \in Nat \ {0}
  /\ DigitRest \in Nat
  /\ Half \in Nat \ {0} /\ TwoTo[DigitBits] = 2 * Half
  /\ Offset \in Int
  /\ Addends([d \in 1 .. DigitCount |-> Half * Weight(DigitBits, d)], DigitCount)
  /\ Offset = Total([d \in 1 .. DigitCount |-> Half * Weight(DigitBits, d)], DigitCount) + DigitRest
<1>1. /\ \A d \in 0 .. DigitCount : Weight(DigitBits, d) \in Nat \ {0}
      /\ DigitCount \in Nat \ {0} /\ DigitCount \in 0 .. DigitCount
  BY Parameters, WeightIs
<1>2. DigitRest \in Nat
  BY <1>1, RestIs DEF DigitRest
<1>3. Half \in Nat \ {0} /\ TwoTo[DigitBits] = 2 * Half
  <2>1. DigitBits <= TorusBits
    <3>1. DigitBits * (DigitCount - 1) >= 0
      BY Parameters
    <3>2. DigitBits * (DigitCount - 1) = DigitBits * DigitCount - DigitBits
      BY Parameters
    <3>3. DigitBits * DigitCount \in Nat
      BY Parameters
    <3>4. QED
      BY <3>1, <3>2, <3>3, Parameters
  <2>2. DigitBits \in 0 .. TorusBits /\ DigitBits # 0
        /\ DigitBits - 1 \in Nat /\ (DigitBits - 1) + 0 <= TorusBits
    BY <2>1, Parameters
  <2>3. TwoTo[DigitBits] = 2 * TwoTo[DigitBits - 1]
    BY <2>2, TwoToIs
  <2>4. TwoTo[DigitBits - 1] \in Nat \ {0}
    BY <2>2, TwoToSum
  <2>5. QED
    BY <2>3, <2>4 DEF Half
<1> DEFINE f == [d \in 1 .. DigitCount |-> Half * Weight(DigitBits, d)]
<1>4. \A d \in 1 .. DigitCount : f[d] \in Int
  <2>1. \A d \in 1 .. DigitCount : Half * Weight(DigitBits, d) \in Int
    BY <1>1, <1>3
  <2>2. QED
    BY <2>1
<1>5. Offset = Total(f, DigitCount) + DigitRest
  BY DEF Offset, DigitRest
<1> HIDE DEF f
<1>6. Addends(f, DigitCount)
  BY <1>1, <1>4 DEF Addends
<1>7. Total(f, DigitCount) \in Int
  BY <1>6, TotalStep
<1>8. QED
  BY <1>1, <1>2, <1>3, <1>5, <1>6, <1>7 DEF DigitWeight, f

(* The signed digits of a number are worth the number, but for what is left *)
(* when it is rounded to the last weight.                                   *)
LEMMA DigitIs ==
  ASSUME NEW x \in Int
  PROVE  /\ \A d \in 1 .. DigitCount : Digit(x, d) \in -Half .. Half
         /\ \A f : (\A d \in 1 .. DigitCount : f[d] = DigitWeight(d) * Digit(x, d))
              => /\ Addends(f, DigitCount)
                 /\ Near(Total(f, DigitCount), x - RestOf(x), 0)
         /\ RestOf(x) \in Int
<1> DEFINE y == (x + Offset) % Torus
           l == DigitCount
           g(d) == (y \div DigitWeight(d)) % TwoTo[DigitBits]
           u == [d \in 1 .. DigitCount |-> DigitWeight(d) * g(d)]
           v == [d \in 1 .. DigitCount |-> Half * Weight(DigitBits, d)]
           W == Weight(DigitBits, DigitCount)
<1>1. x + Offset \in Int
  BY DigitWeightIs
<1>2. y \in 0 .. Torus - 1 /\ Near(y, x + Offset, 0)
  BY <1>1, NearSelf
<1>3. \A d \in 1 .. DigitCount : Digit(x, d) = g(d) - Half
  BY DEF Digit, DigitWeight
<1> HIDE DEF y
<1>4. y \in Int
  BY <1>2, TorusIs
<1>5. ASSUME NEW d \in 1 .. DigitCount PROVE g(d) \in 0 .. (2 * Half) - 1
  <2> DEFINE V == DigitWeight(d)
             B == TwoTo[DigitBits]
             q == y \div V
  <2>1. V \in Nat \ {0} /\ B \in Nat \ {0} /\ B = 2 * Half
    BY DigitWeightIs
  <2> HIDE DEF V, B
  <2>2. q \in Int
    BY <1>4, <2>1, RemainderIs
  <2> HIDE DEF q
  <2>3. q % B \in 0 .. B - 1
    BY <2>1, <2>2, RemainderIs
  <2>4. q % B \in 0 .. (2 * Half) - 1
    BY <2>1, <2>3
  <2>5. QED
    BY <2>4 DEF q, V, B
<1>6. Addends(u, l) /\ Total(u, l) = y - (y % W)
  <2>1. \A d \in 1 .. DigitCount :
          u[d] = Weight(DigitBits, d) * ((y \div Weight(DigitBits, d)) % TwoTo[DigitBits])
    BY DEF DigitWeight
  <2> HIDE DEF u, W
  <2>2. QED
    BY <1>2, <2>1, Parameters, DigitsAre DEF W
<1>7. Addends(v, l) /\ Offset = Total(v, l) + DigitRest
  BY DigitWeightIs
<1>8. W \in Nat \ {0} /\ DigitRest = W \div 2
  BY Parameters, WeightIs DEF DigitRest
<1>9. PICK z \in Int : Total(v, l) = z * W
  <2> DEFINE c == [d \in 1 .. DigitCount |-> Half * TwoTo[DigitBits * (DigitCount - d)]]
  <2>1. ASSUME NEW d \in 1 .. DigitCount PROVE c[d] \in Int /\ v[d] = W * c[d] + 0 * c[d]
    <3> DEFINE t == TwoTo[DigitBits * (DigitCount - d)]
    <3>1. d \in 0 .. DigitCount
      OBVIOUS
    <3>2. Weight(DigitBits, d) = t * W /\ t \in Nat \ {0}
      BY <3>1, Parameters, WeightsFit
    <3>3. v[d] = Half * Weight(DigitBits, d) /\ c[d] = Half * t
      OBVIOUS
    <3> HIDE DEF t, W, v, c
    <3>4. Half \in Int /\ W \in Int
      BY <1>8, DigitWeightIs
    <3>5. Half * (t * W) = W * (Half * t) + 0 * (Half * t) /\ Half * t \in Int
      BY <3>2, <3>4
    <3>6. QED
      BY <3>2, <3>3, <3>5
  <2> HIDE DEF c, v, W
  <2>2. Addends(c, l)
    BY <1>7, <2>1 DEF Addends
  <2>3. Combines(v, W, c, 0, c, l)
    BY <1>8, <2>1, <2>2 DEF Combines
  <2>4. Total(v, l) = W * Total(c, l) + 0 * Total(c, l)
    BY <2>3, TotalLinear
  <2>5. Total(c, l) \in Int
    BY <2>2, TotalStep
  <2>6. Total(v, l) = Total(c, l) * W
    BY <1>8, <2>4, <2>5
  <2>7. QED
    BY <2>5, <2>6
<1>10. \A d \in 1 .. DigitCount : u[d] = DigitWeight(d) * g(d) /\ v[d] = Half * DigitWeight(d)
  BY DEF DigitWeight
<1> HIDE DEF u, v, g
<1>11. \A d \in 1 .. DigitCount : Digit(x, d) \in -Half .. Half
  <2>1. Half \in Nat
    BY DigitWeightIs
  <2>2. QED
    BY <1>3, <1>5, <2>1
<1>12. /\ RestOf(x) \in Int
       /\ Near(y - (y % W), x + z * W - RestOf(x), 0)
  <2> DEFINE m == TwoTo[DigitBits * DigitCount]
  <2>1. m \in Int /\ Torus = m * W
    BY Parameters, LastWeightFits
  <2> HIDE DEF m, W
  <2>2. Total(v, l) \in Int
    BY <1>7, TotalStep
  <2>3. x + Offset = x + (W \div 2) + z * W
    BY <1>7, <1>8, <1>9, <2>2, DigitWeightIs
  <2>4. Near(y, x + (W \div 2) + z * W, 0)
    BY <1>2, <2>3
  <2>5. Remainder(x, W) \in Int /\ Near(y - (y % W), x + z * W - Remainder(x, W), 0)
    BY <1>4, <1>8, <2>1, <2>4, RoundingIs
  <2>6. QED
    BY <2>5 DEF RestOf, W
<1>13. ASSUME NEW f, \A d \in 1 .. DigitCount : f[d] = DigitWeight(d) * Digit(x, d)
       PROVE  Addends(f, DigitCount) /\ Near(Total(f, DigitCount), x - RestOf(x), 0)
  <2>1. ASSUME NEW d \in 1 .. l PROVE f[d] = 1 * u[d] + (-1) * v[d]
    <3>1. /\ f[d] = DigitWeight(d) * (g(d) - Half)
          /\ u[d] = DigitWeight(d) * g(d) /\ v[d] = Half * DigitWeight(d)
      BY <1>3, <1>10, <1>13
    <3>2. DigitWeight(d) \in Int /\ Half \in Int /\ g(d) \in Int
      BY <1>5, DigitWeightIs
    <3>3. DigitWeight(d) * (g(d) - Half) = DigitWeight(d) * g(d) - Half * DigitWeight(d)
          /\ DigitWeight(d) * g(d) \in Int /\ Half * DigitWeight(d) \in Int
      BY <3>2
    <3>4. QED
      BY <3>1, <3>3
  <2>2. Combines(f, 1, u, -1, v, l)
    BY <1>6, <1>7, <2>1 DEF Combines
  <2>3. Addends(f, l) /\ Total(f, l) = 1 * Total(u, l) + (-1) * Total(v, l)
    BY <2>2, TotalLinear
  <2> DEFINE F == Total(f, l)
             U == Total(u, l)
             V == Total(v, l)
  <2>4. U \in Int /\ V \in Int
    BY <1>6, <1>7, TotalStep
  <2>5. F = U - V /\ U = y - (y % W) /\ V = z * W
    BY <1>6, <1>9, <2>3, <2>4
  <2>6. Near(U, x + V - RestOf(x), 0)
    BY <1>12, <2>5
  <2> HIDE DEF F, U, V
  <2>7. Near(V, V, 0)
    BY <2>4, NearSelf
  <2>8. Near(U - V, (x + V - RestOf(x)) - V, 0 + 0)
    BY <2>6, <2>7, NearDifference
  <2>9. (x + V - RestOf(x)) - V = x - RestOf(x) /\ 0 + 0 = 0
    BY <1>12, <2>4
  <2>10. Near(F, x - RestOf(x), 0)
    BY <2>5, <2>8, <2>9
  <2>11. QED
    BY <2>3, <2>10 DEF F
<1>14. QED
  BY <1>11, <1>12, <1>13

-----------------------------------------------------------------------------
(* The operations on ring elements, and the rows of the bootstrapping key.  *)

Added(p, q) == [k \in Ring |-> p[k] + q[k]]
Less(p, q) == [k \in Ring |-> p[k] - q[k]]
Times(c, p) == [k \in Ring |-> c * p[k]]

\* Sums, differences and products of polynomials, place by place.
LEMMA PolynomialsHave ==
  ASSUME NEW p \in Polynomials, NEW q \in Polynomials
  PROVE  /\ \A k \in Ring : p[k] \in Int
         /\ Added(p, q) \in Polynomials /\ \A k \in Ring : Added(p, q)[k] = p[k] + q[k]
         /\ Less(p, q) \in Polynomials /\ \A k \in Ring : Less(p, q)[k] = p[k] - q[k]
         /\ Mixture(Added(p, q), 1, p, 1, q)
         /\ Mixture(Less(p, q), 1, p, -1, q)
<1>1. \A k \in Ring : p[k] \in Int /\ q[k] \in Int
  BY DEF Polynomials
<1>2. Added(p, q) \in Polynomials /\ \A k \in Ring : Added(p, q)[k] = p[k] + q[k]
  BY <1>1 DEF Polynomials, Added
<1>3. Less(p, q) \in Polynomials /\ \A k \in Ring : Less(p, q)[k] = p[k] - q[k]
  BY <1>1 DEF Polynomials, Less
<1>4. Mixture(Added(p, q), 1, p, 1, q)
  BY <1>1, <1>2 DEF Mixture
<1>5. Mixture(Less(p, q), 1, p, -1, q)
  BY <1>1, <1>3 DEF Mixture
<1>6. QED
  BY <1>1, <1>2, <1>3, <1>4, <1>5

\* A multiple, place by place.
LEMMA TimesIs ==
  ASSUME NEW p \in Polynomials, NEW c \in Int
  PROVE  /\ Times(c, p) \in Polynomials /\ \A k \in Ring : Times(c, p)[k] = c * p[k]
         /\ Mixture(Times(c, p), c, p, 0, p)
<1>1. \A k \in Ring : p[k] \in Int /\ c * p[k] \in Int
  BY DEF Polynomials
<1>2. Times(c, p) \in Polynomials /\ \A k \in Ring : Times(c, p)[k] = c * p[k]
  BY <1>1 DEF Polynomials, Times
<1>3. Mixture(Times(c, p), c, p, 0, p)
  BY <1>1, <1>2 DEF Mixture
<1>4. QED
  BY <1>2, <1>3

(* What is worked out modulo the torus is congruent to what was meant.      *)
LEMMA Reduced ==
  ASSUME NEW f \in Polynomials
  PROVE  Alike(Tuple([k \in Ring |-> f[k] % Torus], RingSize), f, 0)
<1> DEFINE g == [k \in Ring |-> f[k] % Torus]
<1>1. \A k \in Ring : f[k] % Torus \in Int /\ Near(f[k] % Torus, f[k], 0)
  <2>1. \A k \in Ring : f[k] \in Int
    BY DEF Polynomials
  <2>2. QED
    BY <2>1, NearSelf DEF Near
<1>2. g \in Polynomials /\ g \in [1 .. RingSize -> Int]
  BY <1>1, RingIs DEF Polynomials
<1>3. \A k \in Ring : Near(g[k], f[k], 0)
  BY <1>1
<1> HIDE DEF g
<1>4. Tuple(g, RingSize) = g
  BY <1>2, RingIs, TupleIs
<1>5. Alike(g, f, 0)
  BY <1>2, <1>3 DEF Alike
<1>6. Alike(Tuple(g, RingSize), f, 0)
  BY <1>4, <1>5
<1>7. QED
  BY <1>6 DEF g

\* The operations of the model are those of integers, up to the torus.
LEMMA RingOperations ==
  ASSUME NEW p \in Polynomials, NEW q \in Polynomials
  PROVE  /\ Alike(RingProduct(p, q), Product(p, q), 0)
         /\ Alike(RingSum(p, q), Added(p, q), 0)
         /\ Alike(RingDifference(p, q), Less(p, q), 0)
<1>1. Alike(RingProduct(p, q), Product(p, q), 0)
  <2> DEFINE f == Product(p, q)
  <2>1. f \in Polynomials
    BY ProductIs
  <2>2. \A k \in Ring : f[k] = Total([i \in Ring |-> p[i] * Shifted(q, i - 1, k)], RingSize)
    BY DEF Product, Term
  <2> HIDE DEF f
  <2>3. [k \in Ring |-> f[k] % Torus]
          = [k \in Ring |->
               Total([i \in Ring |-> p[i] * Shifted(q, i - 1, k)], RingSize) % Torus]
    BY <2>2
  <2>4. RingProduct(p, q) = Tuple([k \in Ring |-> f[k] % Torus], RingSize)
    BY <2>3 DEF RingProduct
  <2>5. QED
    BY <2>1, <2>4, Reduced DEF f
<1>2. Alike(RingSum(p, q), Added(p, q), 0)
  <2> DEFINE f == Added(p, q)
  <2>1. f \in Polynomials /\ \A k \in Ring : f[k] = p[k] + q[k]
    BY PolynomialsHave
  <2> HIDE DEF f
  <2>2. [k \in Ring |-> f[k] % Torus] = [k \in Ring |-> (p[k] + q[k]) % Torus]
    BY <2>1
  <2>3. RingSum(p, q) = Tuple([k \in Ring |-> f[k] % Torus], RingSize)
    BY <2>2 DEF RingSum
  <2>4. QED
    BY <2>1, <2>3, Reduced DEF f
<1>3. Alike(RingDifference(p, q), Less(p, q), 0)
  <2> DEFINE f == Less(p, q)
  <2>1. f \in Polynomials /\ \A k \in Ring : f[k] = p[k] - q[k]
    BY PolynomialsHave
  <2> HIDE DEF f
  <2>2. [k \in Ring |-> f[k] % Torus] = [k \in Ring |-> (p[k] - q[k]) % Torus]
    BY <2>1
  <2>3. RingDifference(p, q) = Tuple([k \in Ring |-> f[k] % Torus], RingSize)
    BY <2>2 DEF RingDifference
  <2>4. QED
    BY <2>1, <2>3, Reduced DEF f
<1>4. QED
  BY <1>1, <1>2, <1>3

\* Congruence of polynomials is kept by sums, and goes through.
LEMMA AlikeLaws ==
  ASSUME NEW p, NEW q, Alike(p, q, 0)
  PROVE  /\ p \in Polynomials /\ q \in Polynomials
         /\ \A r \in Polynomials : Alike(Added(p, r), Added(q, r), 0)
         /\ \A r : Alike(q, r, 0) => Alike(p, r, 0)
<1>1. p \in Polynomials /\ q \in Polynomials /\ \A k \in Ring : Near(p[k], q[k], 0)
  BY DEF Alike
<1>2. ASSUME NEW r \in Polynomials PROVE Alike(Added(p, r), Added(q, r), 0)
  <2>1. ASSUME NEW k \in Ring PROVE Near(p[k] + r[k], q[k] + r[k], 0)
    <3>1. Near(r[k], r[k], 0) /\ Near(p[k], q[k], 0)
      BY <1>1, NearSelf DEF Polynomials
    <3>2. Near(p[k] + r[k], q[k] + r[k], 0 + 0)
      BY <3>1, NearSum
    <3>3. QED
      BY <3>2
  <2>2. /\ Added(p, r) \in Polynomials /\ Added(q, r) \in Polynomials
        /\ \A k \in Ring : Added(p, r)[k] = p[k] + r[k] /\ Added(q, r)[k] = q[k] + r[k]
    BY <1>1, PolynomialsHave
  <2>3. QED
    BY <2>1, <2>2 DEF Alike
<1>3. ASSUME NEW r, Alike(q, r, 0) PROVE Alike(p, r, 0)
  <2>1. r \in Polynomials /\ \A k \in Ring : Near(q[k], r[k], 0)
    BY <1>3 DEF Alike
  <2>2. ASSUME NEW k \in Ring PROVE Near(p[k], r[k], 0)
    <3>1. Near(p[k], r[k], 0 + 0)
      BY <1>1, <2>1, NearThrough
    <3>2. QED
      BY <3>1
  <2>3. QED
    BY <1>1, <2>1, <2>2 DEF Alike
<1>4. QED
  BY <1>1, <1>2, <1>3

Constant(c) == [x \in Ring |-> IF x = 1 THEN c ELSE 0]

\* The keys, the masks and the errors have the ranges the assumptions say.
LEMMA KeysAre ==
  /\ RingKey \in Polynomials /\ RingKey \in [Ring -> -1 .. 1]
  /\ \A i \in Lwe : LweKey[i] \in {0, 1}
  /\ \A i \in Ring : RingKey[i] \in {0, 1}
  /\ \A i \in Lwe, row \in 1 .. 2, d \in 1 .. DigitCount :
        /\ BootMask[i][row][d] \in Polynomials
        /\ BootNoise[i][row][d] \in Polynomials
<1>1. LweKey \in [Lwe -> {0, 1}] /\ RingKey \in [Ring -> {0, 1}]
  BY KeysAssumption
<1>2. \A i \in Ring : RingKey[i] \in {0, 1} /\ RingKey[i] \in Int /\ RingKey[i] \in -1 .. 1
  BY <1>1
<1>3. RingKey \in Polynomials /\ RingKey \in [Ring -> -1 .. 1]
  BY <1>1, <1>2 DEF Polynomials
<1>4. ASSUME NEW i \in Lwe, NEW row \in 1 .. 2, NEW d \in 1 .. DigitCount
      PROVE  /\ BootMask[i][row][d] \in Polynomials
             /\ BootNoise[i][row][d] \in Polynomials
  <2>1. BootMask[i][row][d] \in Polynomials
    <3>1. BootMask \in [Lwe -> [1 .. 2 -> [1 .. DigitCount -> [Ring -> Int]]]]
      BY KeysAssumption
    <3>2. BootMask[i] \in [1 .. 2 -> [1 .. DigitCount -> [Ring -> Int]]]
      BY <3>1
    <3>3. BootMask[i][row] \in [1 .. DigitCount -> [Ring -> Int]]
      BY <3>2
    <3>4. QED
      BY <3>3 DEF Polynomials
  <2>2. BootNoise[i][row][d] \in Polynomials
    <3>1. BootNoise \in [Lwe -> [1 .. 2 -> [1 .. DigitCount -> [Ring -> Int]]]]
      BY KeysAssumption
    <3>2. BootNoise[i] \in [1 .. 2 -> [1 .. DigitCount -> [Ring -> Int]]]
      BY <3>1
    <3>3. BootNoise[i][row] \in [1 .. DigitCount -> [Ring -> Int]]
      BY <3>2
    <3>4. QED
      BY <3>3 DEF Polynomials
  <2>3. QED
    BY <2>1, <2>2
<1>5. \A i \in Lwe : LweKey[i] \in {0, 1}
  BY <1>1
<1>6. QED
  BY <1>1, <1>2, <1>3, <1>4, <1>5

\* A row of the key: a sample of zero with the bit in its mask or its body.
LEMMA RowIs ==
  ASSUME NEW i \in Lwe, NEW d \in 1 .. DigitCount
  PROVE  /\ Alike(BootKeyRow(i, 1, d)[1],
                  Added(BootMask[i][1][d], Constant(LweKey[i] * DigitWeight(d))), 0)
         /\ Alike(BootKeyRow(i, 1, d)[2],
                  Added(Product(RingKey, BootMask[i][1][d]), BootNoise[i][1][d]), 0)
         /\ BootKeyRow(i, 2, d)[1] = BootMask[i][2][d]
         /\ Alike(BootKeyRow(i, 2, d)[2],
                  Added(Added(Product(RingKey, BootMask[i][2][d]), BootNoise[i][2][d]),
                        Constant(LweKey[i] * DigitWeight(d))), 0)
<1> DEFINE c == LweKey[i] * DigitWeight(d)
           m == Constant(c)
           zero(row) == RingSum(RingProduct(RingKey, BootMask[i][row][d]), BootNoise[i][row][d])
<1>1. c \in Int
  <2>1. LweKey[i] \in Int /\ DigitWeight(d) \in Int
    BY KeysAre, DigitWeightIs
  <2>2. QED
    BY <2>1
<1>2. m \in Polynomials
  BY <1>1 DEF Constant, Polynomials
<1>3. m = [x \in Ring |-> IF x = 1 THEN LweKey[i] * Weight(DigitBits, d) ELSE 0]
  BY DEF Constant, DigitWeight
<1>4. /\ BootKeyRow(i, 1, d) = <<RingSum(BootMask[i][1][d], m), zero(1)>>
      /\ BootKeyRow(i, 2, d) = <<BootMask[i][2][d], RingSum(zero(2), m)>>
  BY <1>3 DEF BootKeyRow
<1> HIDE DEF c, m
<1>5. ASSUME NEW row \in 1 .. 2
      PROVE  Alike(zero(row), Added(Product(RingKey, BootMask[i][row][d]), BootNoise[i][row][d]), 0)
  <2> DEFINE a == BootMask[i][row][d]
             e == BootNoise[i][row][d]
  <2>1. a \in Polynomials /\ e \in Polynomials /\ RingKey \in Polynomials
    BY KeysAre
  <2> HIDE DEF a, e
  <2>2. Alike(RingProduct(RingKey, a), Product(RingKey, a), 0)
    BY <2>1, RingOperations
  <2>3. RingProduct(RingKey, a) \in Polynomials
    BY <2>2 DEF Alike
  <2>4. Alike(RingSum(RingProduct(RingKey, a), e), Added(RingProduct(RingKey, a), e), 0)
    BY <2>1, <2>3, RingOperations
  <2>5. Alike(Added(RingProduct(RingKey, a), e), Added(Product(RingKey, a), e), 0)
    BY <2>1, <2>2, AlikeLaws
  <2>6. Alike(RingSum(RingProduct(RingKey, a), e), Added(Product(RingKey, a), e), 0)
    BY <2>4, <2>5, AlikeLaws
  <2>7. QED
    BY <2>6 DEF a, e
<1>6. BootMask[i][1][d] \in Polynomials
  BY KeysAre
<1>7. Alike(RingSum(BootMask[i][1][d], m), Added(BootMask[i][1][d], m), 0)
  BY <1>2, <1>6, RingOperations
<1> DEFINE z == zero(2)
           b == Added(Product(RingKey, BootMask[i][2][d]), BootNoise[i][2][d])
<1>8. Alike(z, b, 0)
  BY <1>5
<1> HIDE DEF z, b
<1>9. Alike(RingSum(z, m), Added(b, m), 0)
  <2>1. z \in Polynomials
    BY <1>8 DEF Alike
  <2>2. Alike(RingSum(z, m), Added(z, m), 0)
    BY <1>2, <2>1, RingOperations
  <2>3. Alike(Added(z, m), Added(b, m), 0)
    BY <1>2, <1>8, AlikeLaws
  <2>4. QED
    BY <2>2, <2>3, AlikeLaws
<1>10. Alike(zero(1), Added(Product(RingKey, BootMask[i][1][d]), BootNoise[i][1][d]), 0)
  BY <1>5
<1>11. BootKeyRow(i, 2, d)[1] = BootMask[i][2][d] /\ BootKeyRow(i, 2, d)[2] = RingSum(z, m)
  BY <1>4 DEF z
<1> HIDE DEF zero
<1>12. BootKeyRow(i, 1, d)[1] = RingSum(BootMask[i][1][d], m) /\ BootKeyRow(i, 1, d)[2] = zero(1)
  BY <1>4
<1>13. Alike(BootKeyRow(i, 2, d)[2], Added(b, m), 0)
  BY <1>9, <1>11
<1>14. Alike(BootKeyRow(i, 1, d)[1], Added(BootMask[i][1][d], m), 0)
  BY <1>7, <1>12
<1>15. QED
  BY <1>10, <1>11, <1>12, <1>13, <1>14 DEF b, c, m

\* The parts of a second factor.
LEMMA ProductParts ==
  ASSUME NEW s \in Polynomials, NEW p \in Polynomials, NEW q \in Polynomials, NEW k \in Ring
  PROVE  /\ Product(s, Added(p, q))[k] = Product(s, p)[k] + Product(s, q)[k]
         /\ Product(s, Less(p, q))[k] = Product(s, p)[k] - Product(s, q)[k]
<1>1. /\ Mixture(Added(p, q), 1, p, 1, q)
      /\ Mixture(Less(p, q), 1, p, -1, q)
  BY PolynomialsHave
<1>2. Product(s, p)[k] \in Int /\ Product(s, q)[k] \in Int
  BY ProductIs DEF Polynomials
<1>3. Product(s, Added(p, q))[k] = 1 * Product(s, p)[k] + 1 * Product(s, q)[k]
  BY <1>1, ProductLinear
<1>4. Product(s, Less(p, q))[k] = 1 * Product(s, p)[k] + (-1) * Product(s, q)[k]
  BY <1>1, ProductLinear
<1>5. QED
  BY <1>2, <1>3, <1>4

\* A number goes through a product.
LEMMA ProductTimes ==
  ASSUME NEW s \in Polynomials, NEW p \in Polynomials, NEW c \in Int, NEW k \in Ring
  PROVE  Product(s, Times(c, p))[k] = c * Product(s, p)[k] /\ Product(s, p)[k] \in Int
<1>1. Mixture(Times(c, p), c, p, 0, p)
  BY TimesIs
<1>2. Product(s, p)[k] \in Int
  BY ProductIs DEF Polynomials
<1>3. Product(s, Times(c, p))[k] = c * Product(s, p)[k] + 0 * Product(s, p)[k]
  BY <1>1, ProductLinear
<1>4. c * Product(s, p)[k] \in Int
  BY <1>2
<1>5. QED
  BY <1>2, <1>3, <1>4

(* The phase that a product with a row adds, but for its error: minus the   *)
(* bit times the digits and the key for the mask, plus the bit times the    *)
(* digits for the body.                                                     *)
LEMMA RowProduct ==
  ASSUME NEW m \in Polynomials, NEW e \in Polynomials, NEW g \in Polynomials, NEW c \in Int,
         NEW K1, NEW K2, NEW k \in Ring
  PROVE  /\ (/\ Alike(K1, Added(m, Constant(c)), 0)
             /\ Alike(K2, Added(Product(RingKey, m), e), 0))
           => Near(RingProduct(g, K2)[k] - Product(RingKey, RingProduct(g, K1))[k],
                   Product(g, e)[k] + (-c) * Product(RingKey, g)[k], 0)
         /\ (/\ K1 = m
             /\ Alike(K2, Added(Added(Product(RingKey, m), e), Constant(c)), 0))
           => Near(RingProduct(g, K2)[k] - Product(RingKey, RingProduct(g, K1))[k],
                   Product(g, e)[k] + c * g[k], 0)
<1> DEFINE S == RingKey
           M == Product(S, m)
           v == Constant(c)
<1>1. S \in Polynomials /\ M \in Polynomials /\ v \in Polynomials
  BY KeysAre, ProductIs DEF Constant, Polynomials
<1>2. ASSUME NEW a, NEW b, Alike(a, b, 0)
      PROVE  /\ a \in Polynomials /\ b \in Polynomials
             /\ Alike(RingProduct(g, a), Product(g, b), 0)
  <2>1. a \in Polynomials /\ b \in Polynomials
    BY <1>2 DEF Alike
  <2>2. Alike(RingProduct(g, a), Product(g, a), 0)
    BY <2>1, RingOperations
  <2>3. Alike(Product(g, a), Product(g, b), 0)
    BY <1>2, ProductCongruent
  <2>4. QED
    BY <2>1, <2>2, <2>3, AlikeLaws
<1>3. ASSUME NEW b \in Polynomials, Alike(K2, b, 0)
      PROVE  Near(RingProduct(g, K2)[k], Product(g, b)[k], 0)
  BY <1>2, <1>3 DEF Alike
<1>4. ASSUME NEW b \in Polynomials, Alike(K1, b, 0)
      PROVE  Near(Product(S, RingProduct(g, K1))[k], Product(S, Product(g, b))[k], 0)
  <2>1. Alike(RingProduct(g, K1), Product(g, b), 0)
    BY <1>2, <1>4
  <2>2. Alike(Product(S, RingProduct(g, K1)), Product(S, Product(g, b)), 0)
    BY <1>1, <2>1, ProductCongruent
  <2>3. QED
    BY <2>2 DEF Alike
<1>5. ASSUME NEW a \in Polynomials, NEW b \in Polynomials, Alike(K1, a, 0), Alike(K2, b, 0)
      PROVE  Near(RingProduct(g, K2)[k] - Product(S, RingProduct(g, K1))[k],
                  Product(g, b)[k] - Product(S, Product(g, a))[k], 0)
  <2>1. /\ Near(RingProduct(g, K2)[k], Product(g, b)[k], 0)
        /\ Near(Product(S, RingProduct(g, K1))[k], Product(S, Product(g, a))[k], 0)
    BY <1>3, <1>4, <1>5
  <2>2. Near(RingProduct(g, K2)[k] - Product(S, RingProduct(g, K1))[k],
             Product(g, b)[k] - Product(S, Product(g, a))[k], 0 + 0)
    BY <2>1, NearDifference
  <2>3. 0 + 0 = 0
    OBVIOUS
  <2>4. QED
    BY <2>2, <2>3
\* The mask drops out.
<1>6. Product(g, M)[k] = Product(S, Product(g, m))[k] /\ Product(g, M)[k] \in Int
      /\ Product(g, e)[k] \in Int /\ Product(S, g)[k] \in Int /\ g[k] \in Int
  <2>1. Product(g, M)[k] = Product(S, Product(g, m))[k]
    BY <1>1, ProductsCommute
  <2>2. \A p, q \in Polynomials : Product(p, q)[k] \in Int
    BY ProductIs DEF Polynomials
  <2>3. g[k] \in Int
    BY DEF Polynomials
  <2> HIDE DEF M
  <2>4. QED
    BY <1>1, <2>1, <2>2, <2>3
<1>7. Product(g, Added(M, e))[k] = Product(g, M)[k] + Product(g, e)[k]
  BY <1>1, ProductParts
<1>8. \A x \in Ring : Product(g, v)[x] = c * g[x]
  BY ProductConstant DEF Constant
<1> HIDE DEF M, v
<1>9. ASSUME Alike(K1, Added(m, v), 0), Alike(K2, Added(M, e), 0)
      PROVE  Near(RingProduct(g, K2)[k] - Product(S, RingProduct(g, K1))[k],
                  Product(g, e)[k] + (-c) * Product(S, g)[k], 0)
  <2>1. Product(S, Product(g, Added(m, v)))[k]
          = Product(S, Product(g, m))[k] + c * Product(S, g)[k]
    <3> DEFINE P == Product(g, m)
               Q == Times(c, g)
    <3>1. P \in Polynomials /\ Q \in Polynomials
      BY ProductIs, TimesIs
    <3>2. ASSUME NEW x \in Ring PROVE Product(g, Added(m, v))[x] = Added(P, Q)[x]
      <4>1. Product(g, Added(m, v))[x] = Product(g, m)[x] + Product(g, v)[x]
        BY <1>1, ProductParts
      <4>2. Added(P, Q)[x] = P[x] + Q[x] /\ Q[x] = c * g[x]
        BY <3>1, PolynomialsHave, TimesIs
      <4>3. QED
        BY <1>8, <4>1, <4>2
    <3>3. Product(g, Added(m, v)) = Added(P, Q)
      BY <3>2 DEF Product, Added
    <3>4. Product(S, Added(P, Q))[k] = Product(S, P)[k] + Product(S, Q)[k]
      BY <1>1, <3>1, ProductParts
    <3>5. Product(S, Q)[k] = c * Product(S, g)[k]
      BY <1>1, ProductTimes
    <3>6. QED
      BY <3>3, <3>4, <3>5
  <2>2. Added(m, v) \in Polynomials /\ Added(M, e) \in Polynomials
    BY <1>1, PolynomialsHave
  <2>3. Near(RingProduct(g, K2)[k] - Product(S, RingProduct(g, K1))[k],
             Product(g, Added(M, e))[k] - Product(S, Product(g, Added(m, v)))[k], 0)
    BY <1>5, <1>9, <2>2
  <2>4. c * Product(S, g)[k] \in Int /\ (-c) * Product(S, g)[k] = -(c * Product(S, g)[k])
    BY <1>6
  <2>5. Product(g, Added(M, e))[k] - Product(S, Product(g, Added(m, v)))[k]
          = Product(g, e)[k] + (-c) * Product(S, g)[k]
    BY <1>6, <1>7, <2>1, <2>4
  <2>6. QED
    BY <2>3, <2>5
<1>10. ASSUME K1 = m, Alike(K2, Added(Added(M, e), v), 0)
       PROVE  Near(RingProduct(g, K2)[k] - Product(S, RingProduct(g, K1))[k],
                   Product(g, e)[k] + c * g[k], 0)
  <2>1. Added(M, e) \in Polynomials
    BY <1>1, PolynomialsHave
  <2>2. Product(g, Added(Added(M, e), v))[k] = Product(g, Added(M, e))[k] + Product(g, v)[k]
    BY <1>1, <2>1, ProductParts
  <2>3. Added(Added(M, e), v) \in Polynomials
    BY <1>1, <2>1, PolynomialsHave
  <2>4. Alike(K1, m, 0)
    BY <1>10, NearSelf DEF Alike, Polynomials
  <2>5. Near(RingProduct(g, K2)[k] - Product(S, RingProduct(g, K1))[k],
             Product(g, Added(Added(M, e), v))[k] - Product(S, Product(g, m))[k], 0)
    BY <1>5, <1>10, <2>3, <2>4
  <2>6. c * g[k] \in Int /\ Product(g, v)[k] = c * g[k]
    BY <1>6, <1>8
  <2>7. Product(g, Added(Added(M, e), v))[k] - Product(S, Product(g, m))[k]
          = Product(g, e)[k] + c * g[k]
    BY <1>6, <1>7, <2>2, <2>6
  <2>8. QED
    BY <2>5, <2>7
<1>11. QED
  BY <1>9, <1>10 DEF M, v

-----------------------------------------------------------------------------
(* A step of the blind rotation.                                            *)

\* Tuple works out any function on 1..n.
LEMMA TupleWorks ==
  ASSUME NEW n \in Nat, NEW f, f = [i \in 1 .. n |-> f[i]]
  PROVE  Tuple(f, n) = f
<1> DEFINE T == {f[i] : i \in 1 .. n}
<1>1. \A i \in 1 .. n : f[i] \in T
  OBVIOUS
<1> HIDE DEF T
<1>2. f \in [1 .. n -> T]
  BY <1>1
<1>3. QED
  BY <1>2, TupleIs

(* The numbers at y of the polynomials of f, the polynomial of their totals, *)
(* and the coefficients k of their products with s.                         *)
At(f, n, y) == [d \in 1 .. n |-> f[d][y]]
Sums(f, n) == [y \in Ring |-> Total(At(f, n, y), n)]
Images(s, f, n, k) == [d \in 1 .. n |-> Product(s, f[d])[k]]

\* A product with a total is the total of the products.
LEMMA ProductTotal ==
  ASSUME NEW s \in Polynomials, NEW n \in Nat, NEW f, \A d \in 1 .. n : f[d] \in Polynomials,
         NEW k \in Ring
  PROVE  /\ Sums(f, n) \in Polynomials
         /\ \A y \in Ring : /\ Addends(At(f, n, y), n)
                            /\ Sums(f, n)[y] = Total(At(f, n, y), n)
         /\ Addends(Images(s, f, n, k), n)
         /\ Product(s, Sums(f, n))[k] = Total(Images(s, f, n, k), n)
<1> DEFINE at(y) == At(f, n, y)
           F(m) == [y \in Ring |-> Total(at(y), m)]
           G == Images(s, f, n, k)
<1>1. ASSUME NEW y \in Ring
      PROVE  /\ Addends(at(y), n) /\ \A d \in 1 .. n : at(y)[d] = f[d][y]
             /\ Total(at(y), 0) = 0
             /\ \A m \in 0 .. n : Total(at(y), m) \in Int
             /\ \A m \in Nat : m + 1 <= n => Total(at(y), m + 1) = Total(at(y), m) + f[m + 1][y]
  <2> DEFINE a == at(y)
  <2>1. \A d \in 1 .. n : a[d] = f[d][y] /\ a[d] \in Int
    BY DEF Polynomials, At
  <2> HIDE DEF a
  <2>2. Addends(a, n)
    BY <2>1 DEF Addends
  <2>3. Total(a, 0) = 0 /\ Total(a, n) \in Int
        /\ \A m \in Nat : m + 1 <= n => Total(a, m) \in Int /\ Total(a, m + 1) = Total(a, m) + a[m + 1]
    BY <2>2, TotalStep
  <2>4. \A m \in 0 .. n : m = n \/ m + 1 <= n
    OBVIOUS
  <2>5. \A m \in 0 .. n : Total(a, m) \in Int
    BY <2>3, <2>4
  <2>6. \A m \in Nat : m + 1 <= n => m + 1 \in 1 .. n
    OBVIOUS
  <2>7. QED
    BY <2>1, <2>2, <2>3, <2>5, <2>6 DEF a
<1> HIDE DEF at
<1>2. ASSUME NEW m \in 0 .. n
      PROVE  F(m) \in Polynomials /\ \A y \in Ring : F(m)[y] = Total(at(y), m)
  BY <1>1 DEF Polynomials
<1> HIDE DEF F
<1>3. ASSUME NEW d \in 1 .. n PROVE G[d] = Product(s, f[d])[k] /\ G[d] \in Int
  <2>1. Product(s, f[d])[k] \in Int
    BY ProductIs DEF Polynomials
  <2>2. QED
    BY <2>1 DEF Images
<1> HIDE DEF G
<1>4. Addends(G, n)
  BY <1>3 DEF Addends
<1> DEFINE S == {m \in Nat : m <= n => Product(s, F(m))[k] = Total(G, m)}
<1>5. 0 \in S
  <2>1. F(0) \in Polynomials /\ \A y \in Ring : F(0)[y] = 0
    BY <1>1, <1>2
  <2>2. Mixture(F(0), 0, F(0), 0, F(0))
    BY <2>1 DEF Mixture
  <2>3. Product(s, F(0))[k] = 0 * Product(s, F(0))[k] + 0 * Product(s, F(0))[k]
    BY <2>2, ProductLinear
  <2>4. Product(s, F(0))[k] \in Int
    BY <2>1, ProductIs DEF Polynomials
  <2>5. Total(G, 0) = 0
    BY <1>4, TotalStep
  <2>6. QED
    BY <2>3, <2>4, <2>5
<1>6. ASSUME NEW m \in Nat, m \in S PROVE m + 1 \in S
  <2>1. SUFFICES ASSUME m + 1 <= n
                 PROVE  Product(s, F(m + 1))[k] = Total(G, m + 1)
    OBVIOUS
  <2>2. m \in 0 .. n /\ m + 1 \in 0 .. n /\ m + 1 \in 1 .. n
    BY <2>1
  <2>3. f[m + 1] \in Polynomials /\ \A y \in Ring : f[m + 1][y] \in Int
    BY <2>2 DEF Polynomials
  <2>4. ASSUME NEW y \in Ring PROVE F(m + 1)[y] = 1 * F(m)[y] + 1 * f[m + 1][y]
    <3>1. F(m + 1)[y] = F(m)[y] + f[m + 1][y] /\ F(m)[y] \in Int
      BY <1>1, <1>2, <2>1, <2>2
    <3>2. QED
      BY <2>3, <3>1
  <2>5. F(m) \in Polynomials /\ F(m + 1) \in Polynomials
    BY <1>2, <2>2
  <2>6. Mixture(F(m + 1), 1, F(m), 1, f[m + 1])
    BY <2>3, <2>4, <2>5 DEF Mixture
  <2>7. Product(s, F(m + 1))[k] = 1 * Product(s, F(m))[k] + 1 * Product(s, f[m + 1])[k]
    BY <2>6, ProductLinear
  <2>8. Product(s, F(m))[k] \in Int
    BY <2>5, ProductIs DEF Polynomials
  <2>9. Product(s, F(m))[k] = Total(G, m)
    BY <1>6, <2>1
  <2>10. Total(G, m + 1) = Total(G, m) + G[m + 1]
    BY <1>4, <2>1, TotalStep
  <2>11. G[m + 1] = Product(s, f[m + 1])[k] /\ G[m + 1] \in Int
    BY <1>3, <2>2
  <2>12. QED
    BY <2>7, <2>8, <2>9, <2>10, <2>11
<1> HIDE DEF S
<1>7. Nat \subseteq S
  BY <1>5, <1>6, Induction
<1>8. Product(s, F(n))[k] = Total(G, n)
  BY <1>7 DEF S
<1>9. F(n) \in Polynomials /\ \A y \in Ring : F(n)[y] = Total(at(y), n)
  BY <1>2
<1>10. Sums(f, n) = F(n)
  BY DEF Sums, F, at
<1>11. QED
  BY <1>1, <1>4, <1>8, <1>9, <1>10 DEF G, at

IsAccumulator(a) == a[1] \in Polynomials /\ a[2] \in Polynomials
RingPhase(a) == Less(a[2], Product(RingKey, a[1]))

\* The products of a step.
LEMMA StepOneIs ==
  ASSUME NEW a, IsAccumulator(a), NEW r \in 0 .. (2 * RingSize - 1), NEW i \in Lwe,
         NEW row \in 1 .. 2, NEW d \in 1 .. DigitCount
  PROVE  /\ Difference(a, r, row) \in Polynomials
         /\ Digits(a, r, row, d) \in Polynomials
         /\ \A x \in Ring : Digits(a, r, row, d)[x] = Digit(Difference(a, r, row)[x], d)
         /\ \A part \in 1 .. 2 : StepOne(a, r, i)[row][d][part]
                = RingProduct(Digits(a, r, row, d), BootKeyRow(i, row, d)[part])
<1>1. a[row] \in Polynomials
  BY DEF IsAccumulator
<1>2. Turned(a[row], r) \in Polynomials
  BY <1>1, TurnedIs
<1>3. Difference(a, r, row) \in Polynomials
  <2>1. Alike(RingDifference(Turned(a[row], r), a[row]), Less(Turned(a[row], r), a[row]), 0)
    BY <1>1, <1>2, RingOperations
  <2>2. QED
    BY <2>1 DEF Alike, Difference
<1>4. \A x \in Ring : Digit(Difference(a, r, row)[x], d) \in -Half .. Half
  BY <1>3, DigitIs DEF Polynomials
<1> DEFINE cut == [x \in Ring |-> Digit(Difference(a, r, row)[x], d)]
<1>5. cut \in Polynomials
  <2>1. \A x \in -Half .. Half : x \in Int
    BY DigitWeightIs
  <2>2. QED
    BY <1>4, <2>1 DEF Polynomials
<1>6. Digits(a, r, row, d) = cut
  <2>1. Digits(a, r, row, d) = Tuple(cut, RingSize)
    BY DEF Digits
  <2> HIDE DEF cut
  <2>2. Tuple(cut, RingSize) = cut
    BY <1>5, RingIs, TupleIs DEF Polynomials
  <2>3. QED
    BY <2>1, <2>2
<1>7. \A x \in Ring : Digits(a, r, row, d)[x] = Digit(Difference(a, r, row)[x], d)
  BY <1>6
<1> DEFINE digits(w, e) == Digits(a, r, w, e)
           parts(w, e) == [part \in 1 .. 2 |-> RingProduct(digits(w, e), BootKey[i][w][e][part])]
           rows(w) == [e \in 1 .. DigitCount |-> Tuple(parts(w, e), 2)]
           all == [w \in 1 .. 2 |-> Tuple(rows(w), DigitCount)]
<1>8. StepOne(a, r, i) = Tuple(all, 2)
  BY DEF StepOne
<1> HIDE DEF digits
<1>9. Tuple(parts(row, d), 2) = parts(row, d)
  <2> DEFINE f == parts(row, d)
  <2>1. f = [k \in 1 .. 2 |-> f[k]]
    OBVIOUS
  <2> HIDE DEF f
  <2>2. Tuple(f, 2) = f
    BY <2>1, TupleWorks
  <2>3. QED
    BY <2>2 DEF f
<1>10. Tuple(rows(row), DigitCount) = rows(row)
  <2> DEFINE f == rows(row)
  <2>1. f = [k \in 1 .. DigitCount |-> f[k]]
    OBVIOUS
  <2> HIDE DEF f
  <2>2. Tuple(f, DigitCount) = f
    BY <2>1, Parameters, TupleWorks
  <2>3. QED
    BY <2>2 DEF f
<1>11. Tuple(all, 2) = all
  <2>1. all = [k \in 1 .. 2 |-> all[k]]
    OBVIOUS
  <2> HIDE DEF all
  <2>2. QED
    BY <2>1, TupleWorks
<1>12. BootKey[i][row][d] = BootKeyRow(i, row, d)
  <2> DEFINE f(j, w) == [e \in 1 .. DigitCount |-> BootKeyRow(j, w, e)]
             g(j) == [w \in 1 .. 2 |-> Tuple(f(j, w), DigitCount)]
             h == [j \in Lwe |-> Tuple(g(j), 2)]
  <2>1. BootKey = Tuple(h, LweSize)
    BY DEF BootKey
  <2>2. Tuple(h, LweSize) = h
    <3>1. h = [j \in 1 .. LweSize |-> h[j]]
      BY DEF Lwe
    <3> HIDE DEF h
    <3>2. QED
      BY <3>1, Parameters, TupleWorks
  <2>3. Tuple(g(i), 2) = g(i)
    <3> DEFINE q == g(i)
    <3>1. q = [j \in 1 .. 2 |-> q[j]]
      OBVIOUS
    <3> HIDE DEF q
    <3>2. Tuple(q, 2) = q
      BY <3>1, TupleWorks
    <3>3. QED
      BY <3>2 DEF q
  <2>4. Tuple(f(i, row), DigitCount) = f(i, row)
    <3> DEFINE q == f(i, row)
    <3>1. q = [j \in 1 .. DigitCount |-> q[j]]
      OBVIOUS
    <3> HIDE DEF q
    <3>2. Tuple(q, DigitCount) = q
      BY <3>1, Parameters, TupleWorks
    <3>3. QED
      BY <3>2 DEF q
  <2>5. BootKey[i] = g(i)
    BY <2>1, <2>2, <2>3
  <2>6. BootKey[i][row] = f(i, row)
    BY <2>4, <2>5
  <2>7. QED
    BY <2>6
<1>13. ASSUME NEW part \in 1 .. 2
       PROVE  StepOne(a, r, i)[row][d][part]
                = RingProduct(Digits(a, r, row, d), BootKeyRow(i, row, d)[part])
  <2>1. all[row] = Tuple(rows(row), DigitCount)
    OBVIOUS
  <2>2. rows(row)[d] = Tuple(parts(row, d), 2)
    OBVIOUS
  <2>3. parts(row, d)[part] = RingProduct(digits(row, d), BootKey[i][row][d][part])
    OBVIOUS
  <2> HIDE DEF all, rows, parts
  <2>4. QED
    BY <1>8, <1>9, <1>10, <1>11, <1>12, <2>1, <2>2, <2>3 DEF digits
<1>14. QED
  BY <1>3, <1>5, <1>6, <1>7, <1>13

(* The sums of the products of a step, for the mask or for the body.        *)
Contribution(P, part, x) ==
  [d \in 1 .. DigitCount |-> P[1][d][part][x] + P[2][d][part][x]]
Contributed(P, part) == [x \in Ring |-> Total(Contribution(P, part, x), DigitCount)]

AreProducts(P) ==
  \A row \in 1 .. 2, d \in 1 .. DigitCount, part \in 1 .. 2 : P[row][d][part] \in Polynomials

\* StepTwo adds up the products of all digits.
LEMMA StepTwoIs ==
  ASSUME NEW a, IsAccumulator(a), NEW P, AreProducts(P), NEW part \in 1 .. 2
  PROVE  /\ Contributed(P, part) \in Polynomials
         /\ \A x \in Ring : /\ Addends(Contribution(P, part, x), DigitCount)
                            /\ Contributed(P, part)[x] = Total(Contribution(P, part, x), DigitCount)
         /\ Alike(StepTwo(a, P)[part], Added(a[part], Contributed(P, part)), 0)
<1>1. a[part] \in Polynomials
  BY DEF IsAccumulator
<1>2. ASSUME NEW x \in Ring
      PROVE  /\ Addends(Contribution(P, part, x), DigitCount)
             /\ Total(Contribution(P, part, x), DigitCount) \in Int
  <2>1. \A d \in 1 .. DigitCount : P[1][d][part][x] \in Int /\ P[2][d][part][x] \in Int
    BY DEF AreProducts, Polynomials
  <2>2. \A d \in 1 .. DigitCount : Contribution(P, part, x)[d] \in Int
    BY <2>1 DEF Contribution
  <2>3. Addends(Contribution(P, part, x), DigitCount)
    BY <2>2, Parameters DEF Addends
  <2>4. QED
    BY <2>3, TotalStep
<1>3. Contributed(P, part) \in Polynomials
  BY <1>2 DEF Contributed, Polynomials
<1>4. \A x \in Ring : Contributed(P, part)[x] = Total(Contribution(P, part, x), DigitCount)
  BY DEF Contributed
<1> DEFINE f == Added(a[part], Contributed(P, part))
           h(q) == [x \in Ring |-> (a[q][x] + Total([d \in 1 .. DigitCount |->
                       P[1][d][q][x] + P[2][d][q][x]], DigitCount)) % Torus]
<1>5. f \in Polynomials /\ \A x \in Ring : f[x] = a[part][x] + Contributed(P, part)[x]
  BY <1>1, <1>3, PolynomialsHave
<1>6. StepTwo(a, P) = <<Tuple(h(1), RingSize), Tuple(h(2), RingSize)>>
  BY DEF StepTwo
<1>7. StepTwo(a, P)[part] = Tuple(h(part), RingSize)
  <2> HIDE DEF h
  <2>1. part = 1 \/ part = 2
    OBVIOUS
  <2>2. QED
    BY <1>6, <2>1
<1>8. h(part) = [x \in Ring |-> f[x] % Torus]
  <2> HIDE DEF f
  <2>1. \A x \in Ring : f[x] = a[part][x] + Total([d \in 1 .. DigitCount |->
                       P[1][d][part][x] + P[2][d][part][x]], DigitCount)
    BY <1>4, <1>5 DEF Contribution
  <2>2. QED
    BY <2>1
<1> HIDE DEF f, h
<1>9. Alike(StepTwo(a, P)[part], f, 0)
  BY <1>5, <1>7, <1>8, Reduced
<1>10. QED
  BY <1>2, <1>3, <1>4, <1>9 DEF f

\* An accumulator stays one.
LEMMA StepTwoAccumulates ==
  ASSUME NEW a, IsAccumulator(a), NEW P, AreProducts(P)
  PROVE  IsAccumulator(StepTwo(a, P))
<1>1. Alike(StepTwo(a, P)[1], Added(a[1], Contributed(P, 1)), 0)
  BY StepTwoIs
<1>2. Alike(StepTwo(a, P)[2], Added(a[2], Contributed(P, 2)), 0)
  BY StepTwoIs
<1>3. QED
  BY <1>1, <1>2 DEF Alike, IsAccumulator

(* What the products with one digit add to the phase.                       *)
Gain(P, d, x) ==
  (P[1][d][2][x] + P[2][d][2][x])
    - (Product(RingKey, P[1][d][1])[x] + Product(RingKey, P[2][d][1])[x])

\* A step adds to the phase what the products with the digits add.
LEMMA PhaseGain ==
  ASSUME NEW a, IsAccumulator(a), NEW P, AreProducts(P), NEW x \in Ring
  PROVE  /\ Addends([d \in 1 .. DigitCount |-> Gain(P, d, x)], DigitCount)
         /\ Near(RingPhase(StepTwo(a, P))[x],
                 RingPhase(a)[x] + Total([d \in 1 .. DigitCount |-> Gain(P, d, x)], DigitCount), 0)
<1> DEFINE S == RingKey
           l == DigitCount
           b == StepTwo(a, P)
           C1 == Contributed(P, 1)
           C2 == Contributed(P, 2)
           A1 == a[1]
           A2 == a[2]
           f == [d \in 1 .. l |-> Added(P[1][d][1], P[2][d][1])]
           g == [d \in 1 .. l |-> Product(S, f[d])[x]]
           u == Contribution(P, 2, x)
           w == [d \in 1 .. l |-> Gain(P, d, x)]
<1>1. /\ S \in Polynomials /\ A1 \in Polynomials /\ A2 \in Polynomials /\ l \in Nat
      /\ C1 \in Polynomials /\ C2 \in Polynomials
  BY KeysAre, Parameters, StepTwoIs DEF IsAccumulator
<1>2. Alike(b[1], Added(A1, C1), 0) /\ Alike(b[2], Added(A2, C2), 0)
  BY StepTwoIs
<1>3. IsAccumulator(b)
  BY StepTwoAccumulates
<1>4. RingPhase(b)[x] = b[2][x] - Product(S, b[1])[x] /\ RingPhase(a)[x] = A2[x] - Product(S, A1)[x]
  <2>1. \A e : IsAccumulator(e) => RingPhase(e)[x] = e[2][x] - Product(S, e[1])[x]
    BY <1>1, ProductIs, PolynomialsHave DEF RingPhase, IsAccumulator
  <2>2. QED
    BY <1>3, <2>1
<1>5. Addends(u, l) /\ C2[x] = Total(u, l)
  BY StepTwoIs
<1>6. \A d \in 1 .. l : P[1][d][1] \in Polynomials /\ P[2][d][1] \in Polynomials
  BY DEF AreProducts
<1>7. \A d \in 1 .. l : /\ f[d] \in Polynomials /\ f[d] = Added(P[1][d][1], P[2][d][1])
                        /\ \A y \in Ring : f[d][y] = P[1][d][1][y] + P[2][d][1][y]
  BY <1>6, PolynomialsHave
<1>8. C1 = Sums(f, l)
  <2> HIDE DEF f
  <2>1. \A y \in Ring : Contribution(P, 1, y) = At(f, l, y)
    BY <1>7 DEF Contribution, At
  <2>2. QED
    BY <2>1 DEF Contributed, Sums
<1> HIDE DEF f, l, S
<1>9. Addends(g, l) /\ Product(S, C1)[x] = Total(g, l)
  <2>1. \A d \in 1 .. l : f[d] \in Polynomials
    BY <1>7
  <2> HIDE DEF C1
  <2>2. Addends(Images(S, f, l, x), l) /\ Product(S, Sums(f, l))[x] = Total(Images(S, f, l, x), l)
    BY <1>1, <2>1, ProductTotal
  <2>3. g = Images(S, f, l, x)
    BY DEF Images
  <2>4. QED
    BY <1>8, <2>2, <2>3
<1> USE DEF l
<1>10. \A d \in 1 .. l : w[d] = 1 * u[d] + (-1) * g[d]
  <2>1. SUFFICES ASSUME NEW d \in 1 .. l PROVE w[d] = 1 * u[d] + (-1) * g[d]
    OBVIOUS
  <2>2. u[d] \in Int /\ g[d] \in Int
    BY <1>5, <1>9 DEF Addends
  <2>3. u[d] = P[1][d][2][x] + P[2][d][2][x]
    BY DEF Contribution
  <2>4. g[d] = Product(S, P[1][d][1])[x] + Product(S, P[2][d][1])[x]
    <3> DEFINE p == P[1][d][1]
               q == P[2][d][1]
    <3>1. p \in Polynomials /\ q \in Polynomials /\ f[d] = Added(p, q)
      BY <1>6, <1>7
    <3>2. g[d] = Product(S, f[d])[x]
      OBVIOUS
    <3> HIDE DEF p, q
    <3>3. Product(S, Added(p, q))[x] = Product(S, p)[x] + Product(S, q)[x]
      BY <1>1, <3>1, ProductParts
    <3>4. QED
      BY <3>1, <3>2, <3>3 DEF p, q
  <2>5. w[d] = u[d] - g[d]
    BY <2>3, <2>4 DEF Gain, S
  <2>6. QED
    BY <2>2, <2>5
<1> HIDE DEF u, g, w
<1>11. Addends(w, l) /\ Total(w, l) = 1 * Total(u, l) + (-1) * Total(g, l)
  <2>1. Combines(w, 1, u, -1, g, l)
    BY <1>5, <1>9, <1>10 DEF Combines
  <2>2. QED
    BY <2>1, TotalLinear
<1>12. Near(b[2][x], A2[x] + C2[x], 0)
  <2>1. Near(b[2][x], Added(A2, C2)[x], 0)
    BY <1>2 DEF Alike
  <2>2. QED
    BY <1>1, <2>1, PolynomialsHave
<1>13. Near(Product(S, b[1])[x], Product(S, A1)[x] + Product(S, C1)[x], 0)
  <2>1. Alike(Product(S, b[1]), Product(S, Added(A1, C1)), 0)
    BY <1>1, <1>2, ProductCongruent
  <2>2. Near(Product(S, b[1])[x], Product(S, Added(A1, C1))[x], 0)
    BY <2>1 DEF Alike
  <2>3. Product(S, Added(A1, C1))[x] = Product(S, A1)[x] + Product(S, C1)[x]
    BY <1>1, ProductParts
  <2>4. QED
    BY <2>2, <2>3
<1>14. Near(b[2][x] - Product(S, b[1])[x],
            (A2[x] + C2[x]) - (Product(S, A1)[x] + Product(S, C1)[x]), 0 + 0)
  BY <1>12, <1>13, NearDifference
<1>15. /\ A2[x] \in Int /\ Product(S, A1)[x] \in Int
       /\ Total(u, l) \in Int /\ Total(g, l) \in Int
  BY <1>1, <1>5, <1>9, TotalStep, ProductIs DEF Polynomials
<1>16. (A2[x] + C2[x]) - (Product(S, A1)[x] + Product(S, C1)[x])
         = (A2[x] - Product(S, A1)[x]) + Total(w, l)
  BY <1>5, <1>9, <1>11, <1>15
<1>17. Near(RingPhase(b)[x], RingPhase(a)[x] + Total(w, l), 0)
  BY <1>4, <1>14, <1>16
<1>18. QED
  BY <1>11, <1>17 DEF w, b, S

(* The errors of the products with one digit of the mask and of the body,   *)
(* what the digits leave over, and what that leaves of a phase.             *)
RowError(a, r, i, d, x) ==
  Product(Digits(a, r, 1, d), BootNoise[i][1][d])[x]
    + Product(Digits(a, r, 2, d), BootNoise[i][2][d])[x]
RowErrors(a, r, i, x) == [d \in 1 .. DigitCount |-> RowError(a, r, i, d, x)]
Rest(a, r, row) == [y \in Ring |-> RestOf(Difference(a, r, row)[y])]
Left(a, r, x) == Product(RingKey, Rest(a, r, 1))[x] - Rest(a, r, 2)[x]

\* What the digits leave over is a polynomial.
LEMMA RestsAre ==
  ASSUME NEW a, IsAccumulator(a), NEW r \in 0 .. (2 * RingSize - 1), NEW row \in 1 .. 2
  PROVE  Rest(a, r, row) \in Polynomials /\ Difference(a, r, row) \in Polynomials
<1>1. \E i, d : i \in Lwe /\ d \in 1 .. DigitCount
  BY Parameters DEF Lwe
<1>2. Difference(a, r, row) \in Polynomials
  BY <1>1, StepOneIs
<1>3. \A y \in Ring : RestOf(Difference(a, r, row)[y]) \in Int
  BY <1>2, DigitIs DEF Polynomials
<1>4. QED
  BY <1>2, <1>3 DEF Rest, Polynomials

\* The error of a step, before it is reduced.
LEMMA StepErrorIs ==
  ASSUME NEW a, IsAccumulator(a), NEW r \in 0 .. (2 * RingSize - 1), NEW i \in Lwe
  PROVE  /\ StepError(a, r, i) \in Polynomials
         /\ \A x \in Ring :
              /\ \A d \in 1 .. DigitCount : RowError(a, r, i, d, x) \in Int
              /\ Addends(RowErrors(a, r, i, x), DigitCount) /\ Left(a, r, x) \in Int
              /\ Near(StepError(a, r, i)[x],
                      Total(RowErrors(a, r, i, x), DigitCount) + LweKey[i] * Left(a, r, x), 0)
<1> DEFINE l == DigitCount
           k == LweKey[i]
           noise(row, d) == RingProduct(Digits(a, r, row, d), BootNoise[i][row][d])
           rest(row) == Tuple([x \in Ring |->
                          Remainder(Difference(a, r, row)[x], Weight(DigitBits, DigitCount))], RingSize)
           list == [d \in 1 .. DigitCount |-> RingSum(noise(1, d), noise(2, d))]
           rows == Tuple(list, DigitCount)
           left == RingDifference(RingProduct(RingKey, rest(1)), rest(2))
           sum(x) == [d \in 1 .. DigitCount |-> rows[d][x]]
           F == [x \in Ring |-> Total(sum(x), DigitCount) + k * left[x]]
<1>1. StepError(a, r, i) = Tuple([x \in Ring |-> F[x] % Torus], RingSize)
  BY DEF StepError
<1>2. k \in Int /\ RingKey \in Polynomials /\ l \in Nat \ {0}
  BY KeysAre, Parameters
<1>3. ASSUME NEW row \in 1 .. 2 PROVE rest(row) = Rest(a, r, row)
  <2> DEFINE f == Rest(a, r, row)
  <2>1. rest(row) = Tuple(f, RingSize)
    BY DEF Rest, RestOf
  <2>2. f \in Polynomials
    BY RestsAre
  <2> HIDE DEF f, rest
  <2>3. QED
    BY <2>1, <2>2, RingIs, TupleIs DEF Polynomials, f
<1>4. ASSUME NEW row \in 1 .. 2, NEW d \in 1 .. l
      PROVE  /\ noise(row, d) \in Polynomials
             /\ Product(Digits(a, r, row, d), BootNoise[i][row][d]) \in Polynomials
             /\ Alike(noise(row, d), Product(Digits(a, r, row, d), BootNoise[i][row][d]), 0)
  <2>1. Digits(a, r, row, d) \in Polynomials /\ BootNoise[i][row][d] \in Polynomials
    BY KeysAre, StepOneIs
  <2>2. QED
    BY <2>1, RingOperations, ProductIs DEF Alike
<1>5. ASSUME NEW x \in Ring, NEW d \in 1 .. l
      PROVE  RowError(a, r, i, d, x) \in Int /\ Near(list[d][x], RowError(a, r, i, d, x), 0)
  <2> DEFINE u == noise(1, d)
             v == noise(2, d)
             p == Product(Digits(a, r, 1, d), BootNoise[i][1][d])
             q == Product(Digits(a, r, 2, d), BootNoise[i][2][d])
  <2>1. /\ u \in Polynomials /\ v \in Polynomials /\ p \in Polynomials /\ q \in Polynomials
        /\ Alike(u, p, 0) /\ Alike(v, q, 0)
    BY <1>4
  <2>2. list[d] = RingSum(u, v) /\ RowError(a, r, i, d, x) = p[x] + q[x]
    BY DEF RowError
  <2> HIDE DEF u, v, p, q, list
  <2>3. Near(RingSum(u, v)[x], u[x] + v[x], 0)
    BY <2>1, RingOperations, PolynomialsHave DEF Alike
  <2>4. Near(u[x] + v[x], p[x] + q[x], 0 + 0)
    BY <2>1, NearSum DEF Alike
  <2>5. Near(RingSum(u, v)[x], p[x] + q[x], 0 + (0 + 0))
    BY <2>3, <2>4, NearThrough
  <2>6. p[x] + q[x] \in Int
    BY <2>1 DEF Polynomials
  <2>7. QED
    BY <2>2, <2>5, <2>6
<1>6. rows = list
  <2>1. list = [d \in 1 .. l |-> list[d]]
    OBVIOUS
  <2> HIDE DEF list
  <2>2. QED
    BY <1>2, <2>1, TupleWorks
<1>7. ASSUME NEW x \in Ring
      PROVE  /\ Addends(RowErrors(a, r, i, x), l) /\ Addends(sum(x), l)
             /\ Near(Total(sum(x), l), Total(RowErrors(a, r, i, x), l), 0)
  <2> DEFINE f == sum(x)
             g == RowErrors(a, r, i, x)
  <2>1. \A d \in 1 .. l : Near(f[d], g[d], 0)
    BY <1>5, <1>6 DEF RowErrors
  <2> HIDE DEF f, g, l
  <2>2. Close(f, g, 0, l)
    BY <1>2, <2>1 DEF Close
  <2>3. Addends(f, l) /\ Addends(g, l)
    BY <1>2, <2>1 DEF Near, Addends
  <2>4. Near(Total(f, l), Total(g, l), l * 0)
    BY <2>2, NearTotal
  <2>5. l * 0 = 0
    BY <1>2
  <2>6. QED
    BY <2>3, <2>4, <2>5 DEF f, g
<1>8. ASSUME NEW x \in Ring
      PROVE  left[x] \in Int /\ Left(a, r, x) \in Int /\ Near(left[x], Left(a, r, x), 0)
  <2> DEFINE p == Rest(a, r, 1)
             q == Rest(a, r, 2)
             s == RingProduct(RingKey, p)
  <2>1. p \in Polynomials /\ q \in Polynomials
    BY RestsAre
  <2>2. left = RingDifference(s, q) /\ Left(a, r, x) = Product(RingKey, p)[x] - q[x]
    BY <1>3 DEF Left
  <2> HIDE DEF p, q, left
  <2>3. Alike(s, Product(RingKey, p), 0) /\ s \in Polynomials /\ Product(RingKey, p) \in Polynomials
    BY <1>2, <2>1, RingOperations, ProductIs DEF Alike
  <2> HIDE DEF s
  <2>4. Alike(RingDifference(s, q), Less(s, q), 0) /\ Less(s, q)[x] = s[x] - q[x]
    BY <2>1, <2>3, RingOperations, PolynomialsHave
  <2>5. q[x] \in Int /\ Product(RingKey, p)[x] \in Int
    BY <2>1, <2>3 DEF Polynomials
  <2>6. Near(s[x] - q[x], Product(RingKey, p)[x] - q[x], 0 + 0)
    <3>1. Near(s[x], Product(RingKey, p)[x], 0) /\ Near(q[x], q[x], 0)
      BY <2>3, <2>5, NearSelf DEF Alike
    <3>2. QED
      BY <3>1, NearDifference
  <2>7. Near(left[x], s[x] - q[x], 0) /\ left[x] \in Int
    BY <2>2, <2>4 DEF Alike, Polynomials
  <2>8. Near(left[x], Product(RingKey, p)[x] - q[x], 0 + (0 + 0))
    BY <2>6, <2>7, NearThrough
  <2>9. QED
    BY <2>2, <2>5, <2>7, <2>8
<1> HIDE DEF F, left, sum, k, l
<1>9. ASSUME NEW x \in Ring
      PROVE  /\ F[x] = Total(sum(x), l) + k * left[x]
             /\ F[x] \in Int
             /\ Near(F[x], Total(RowErrors(a, r, i, x), l) + k * Left(a, r, x), 0)
  <2>1. F[x] = Total(sum(x), l) + k * left[x]
    BY DEF F, l
  <2>2. Total(sum(x), l) \in Int
    BY <1>7, TotalStep
  <2>3. k \in -1 .. 1 /\ k * left[x] \in Int
    BY <1>2, <1>8, KeysAre DEF k
  <2>4. Near(k * left[x], k * Left(a, r, x), 1 * 0)
    BY <1>8, <2>3, NearScaled
  <2>5. Near(Total(sum(x), l) + k * left[x],
             Total(RowErrors(a, r, i, x), l) + k * Left(a, r, x), 0 + 1 * 0)
    BY <1>7, <2>4, NearSum
  <2>6. QED
    BY <2>1, <2>2, <2>3, <2>5
<1>10. F \in Polynomials
  <2>1. F = [x \in Ring |-> F[x]]
    BY DEF F
  <2>2. QED
    BY <1>9, <2>1 DEF Polynomials
<1>11. Alike(StepError(a, r, i), F, 0)
  BY <1>1, <1>10, Reduced
<1>12. StepError(a, r, i) \in Polynomials
  BY <1>11 DEF Alike
<1>13. ASSUME NEW x \in Ring
       PROVE  Near(StepError(a, r, i)[x],
                   Total(RowErrors(a, r, i, x), l) + k * Left(a, r, x), 0 + 0)
  <2>1. Near(StepError(a, r, i)[x], F[x], 0)
    BY <1>11 DEF Alike
  <2>2. QED
    BY <1>9, <2>1, NearThrough
<1>14. QED
  BY <1>5, <1>7, <1>8, <1>12, <1>13 DEF k, l

\* What one digit adds to the phase: its weight, if the bit of the key is one,
\* times the digits of the body minus the key times those of the mask.
LEMMA GainIs ==
  ASSUME NEW a, IsAccumulator(a), NEW r \in 0 .. (2 * RingSize - 1), NEW i \in Lwe,
         NEW d \in 1 .. DigitCount, NEW x \in Ring, NEW c, c = LweKey[i] * DigitWeight(d)
  PROVE  /\ c \in Int
         /\ Near(Gain(StepOne(a, r, i), d, x),
                 RowError(a, r, i, d, x)
                   + (c * Digits(a, r, 2, d)[x] + (-c) * Product(RingKey, Digits(a, r, 1, d))[x]), 0)
<1> DEFINE P == StepOne(a, r, i)
           S == RingKey
           g1 == Digits(a, r, 1, d)
           g2 == Digits(a, r, 2, d)
           K(row, part) == BootKeyRow(i, row, d)[part]
           m1 == BootMask[i][1][d]
           m2 == BootMask[i][2][d]
           e1 == BootNoise[i][1][d]
           e2 == BootNoise[i][2][d]
<1>1. c \in Int
  BY KeysAre, DigitWeightIs
<1>2. g1 \in Polynomials /\ g2 \in Polynomials
  BY StepOneIs
<1>3. /\ P[1][d][1] = RingProduct(g1, K(1, 1)) /\ P[1][d][2] = RingProduct(g1, K(1, 2))
      /\ P[2][d][1] = RingProduct(g2, K(2, 1)) /\ P[2][d][2] = RingProduct(g2, K(2, 2))
  BY StepOneIs
<1>4. /\ m1 \in Polynomials /\ e1 \in Polynomials
      /\ m2 \in Polynomials /\ e2 \in Polynomials
  BY KeysAre
<1>5. /\ Alike(K(1, 1), Added(m1, Constant(c)), 0)
      /\ Alike(K(1, 2), Added(Product(S, m1), e1), 0)
      /\ K(2, 1) = m2
      /\ Alike(K(2, 2), Added(Added(Product(S, m2), e2), Constant(c)), 0)
  BY RowIs
<1>6. /\ Product(S, g1)[x] \in Int /\ g2[x] \in Int
      /\ P[1][d][2][x] \in Int /\ P[2][d][2][x] \in Int
      /\ Product(S, P[1][d][1])[x] \in Int /\ Product(S, P[2][d][1])[x] \in Int
  <2>1. \A p, q \in Polynomials : Product(p, q)[x] \in Int /\ RingProduct(p, q) \in Polynomials
    BY ProductIs, RingOperations DEF Polynomials, Alike
  <2>2. \A p \in Polynomials : p[x] \in Int
    BY DEF Polynomials
  <2>3. /\ K(1, 1) \in Polynomials /\ K(1, 2) \in Polynomials
        /\ K(2, 1) \in Polynomials /\ K(2, 2) \in Polynomials
    BY <1>4, <1>5 DEF Alike
  <2>4. S \in Polynomials
    BY KeysAre
  <2> HIDE DEF P, S, g1, g2, K, m1, m2
  <2>5. QED
    BY <1>2, <1>3, <2>1, <2>2, <2>3, <2>4
<1> HIDE DEF P, S, g1, g2, K, m1, m2, e1, e2
<1>7. Near(P[1][d][2][x] - Product(S, P[1][d][1])[x],
           Product(g1, e1)[x] + (-c) * Product(S, g1)[x], 0)
  BY <1>1, <1>2, <1>3, <1>4, <1>5, RowProduct DEF S
<1>8. Near(P[2][d][2][x] - Product(S, P[2][d][1])[x], Product(g2, e2)[x] + c * g2[x], 0)
  BY <1>1, <1>2, <1>3, <1>4, <1>5, RowProduct DEF S
<1>9. /\ Product(g1, e1)[x] \in Int /\ Product(g2, e2)[x] \in Int
      /\ (-c) * Product(S, g1)[x] \in Int /\ c * g2[x] \in Int
  <2>1. Product(g1, e1) \in Polynomials /\ Product(g2, e2) \in Polynomials
    BY <1>2, <1>4, ProductIs
  <2>2. QED
    BY <1>1, <1>6, <2>1 DEF Polynomials
<1>10. Near((P[2][d][2][x] - Product(S, P[2][d][1])[x])
              + (P[1][d][2][x] - Product(S, P[1][d][1])[x]),
            (Product(g2, e2)[x] + c * g2[x]) + (Product(g1, e1)[x] + (-c) * Product(S, g1)[x]), 0 + 0)
  BY <1>7, <1>8, NearSum
<1>11. (P[2][d][2][x] - Product(S, P[2][d][1])[x]) + (P[1][d][2][x] - Product(S, P[1][d][1])[x])
         = Gain(P, d, x)
  BY <1>6 DEF Gain, S
<1>12. (Product(g2, e2)[x] + c * g2[x]) + (Product(g1, e1)[x] + (-c) * Product(S, g1)[x])
         = RowError(a, r, i, d, x) + (c * g2[x] + (-c) * Product(S, g1)[x])
  <2>1. RowError(a, r, i, d, x) = Product(g1, e1)[x] + Product(g2, e2)[x]
    BY DEF RowError, g1, g2, e1, e2
  <2>2. QED
    BY <1>9, <2>1
<1>13. QED
  BY <1>1, <1>10, <1>11, <1>12 DEF P, S, g1, g2

\* A polynomial that is turned by a step, but for the turn itself.
LEMMA DifferencePhase ==
  ASSUME NEW a, IsAccumulator(a), NEW r \in 0 .. (2 * RingSize - 1), NEW x \in Ring
  PROVE  /\ RingPhase(a) \in Polynomials /\ Turn(RingPhase(a), r, x) \in Int
         /\ Near(Difference(a, r, 2)[x] - Product(RingKey, Difference(a, r, 1))[x],
                 Turn(RingPhase(a), r, x) - RingPhase(a)[x], 0)
<1> DEFINE S == RingKey
           p == a[1]
           q == a[2]
           M == Product(S, p)
           ph == RingPhase(a)
           tp == Turned(p, r)
           tq == Turned(q, r)
           dp == Difference(a, r, 1)
           dq == Difference(a, r, 2)
           T == [y \in Ring |-> Turn(p, r, y)]
<1>1. S \in Polynomials /\ p \in Polynomials /\ q \in Polynomials
  BY KeysAre DEF IsAccumulator
<1>2. M \in Polynomials
  BY <1>1, ProductIs
<1>3. ph \in Polynomials /\ ph[x] = q[x] - M[x] /\ Mixture(ph, 1, q, -1, M)
  BY <1>1, <1>2, PolynomialsHave DEF RingPhase
<1>4. /\ tp \in Polynomials /\ \A y \in Ring : Turn(p, r, y) \in Int /\ Near(tp[y], Turn(p, r, y), 0)
      /\ tq \in Polynomials /\ Turn(q, r, x) \in Int /\ Near(tq[x], Turn(q, r, x), 0)
  BY <1>1, TurnedIs
<1>5. /\ Alike(dp, Less(tp, p), 0) /\ Alike(dq, Less(tq, q), 0)
  BY <1>1, <1>4, RingOperations DEF Difference
<1>6. Product(S, T)[x] = Turn(M, r, x)
  BY <1>1, ProductTurned
<1>7. Alike(tp, T, 0)
  BY <1>4 DEF Alike, Polynomials
<1>8. Turn(M, r, x) \in Int /\ Turn(ph, r, x) \in Int
  BY <1>2, <1>3, TurnedIs
<1>9. Turn(ph, r, x) = Turn(q, r, x) - Turn(M, r, x)
  <2> HIDE DEF ph, q, M
  <2>1. ASSUME NEW j \in 0 .. RingSize - 1
        PROVE  /\ Shifted(ph, j, x) = 1 * Shifted(q, j, x) + (-1) * Shifted(M, j, x)
               /\ Shifted(q, j, x) \in Int /\ Shifted(M, j, x) \in Int
    BY <1>1, <1>2, <1>3, ShiftedLinear
  <2>2. CASE r < RingSize
    <3>1. r \in 0 .. RingSize - 1
      BY <2>2, RingIs
    <3>2. QED
      BY <2>1, <2>2, <3>1 DEF Turn
  <2>3. CASE ~(r < RingSize)
    <3>1. r - RingSize \in 0 .. RingSize - 1
      BY <2>3, RingIs
    <3>2. QED
      BY <2>1, <2>3, <3>1 DEF Turn
  <2>4. QED
    BY <2>2, <2>3
<1> HIDE DEF S, p, q, M, ph, tp, tq, dp, dq, T
<1>10. Near(dq[x], Turn(q, r, x) - q[x], 0)
  <2>1. Near(dq[x], Less(tq, q)[x], 0) /\ Less(tq, q)[x] = tq[x] - q[x] /\ q[x] \in Int
    BY <1>1, <1>4, <1>5, PolynomialsHave DEF Alike
  <2>2. Near(q[x], q[x], 0)
    BY <2>1, NearSelf
  <2>3. Near(tq[x] - q[x], Turn(q, r, x) - q[x], 0 + 0)
    BY <1>4, <2>2, NearDifference
  <2>4. Near(dq[x], Turn(q, r, x) - q[x], 0 + (0 + 0))
    BY <2>1, <2>3, NearThrough
  <2>5. QED
    BY <2>4
<1>11. Near(Product(S, dp)[x], Turn(M, r, x) - M[x], 0)
  <2>1. Alike(Product(S, dp), Product(S, Less(tp, p)), 0)
    BY <1>1, <1>5, ProductCongruent
  <2>2. Product(S, Less(tp, p))[x] = Product(S, tp)[x] - M[x]
    BY <1>1, <1>4, ProductParts DEF M
  <2>3. Near(Product(S, dp)[x], Product(S, tp)[x] - M[x], 0)
    BY <2>1, <2>2 DEF Alike
  <2>4. Alike(Product(S, tp), Product(S, T), 0)
    BY <1>1, <1>7, ProductCongruent
  <2>5. Near(Product(S, tp)[x], Turn(M, r, x), 0)
    BY <1>6, <2>4 DEF Alike
  <2>6. M[x] \in Int
    BY <1>2 DEF Polynomials
  <2>7. Near(M[x], M[x], 0)
    BY <2>6, NearSelf
  <2>8. Near(Product(S, tp)[x] - M[x], Turn(M, r, x) - M[x], 0 + 0)
    BY <2>5, <2>7, NearDifference
  <2>9. Near(Product(S, dp)[x], Turn(M, r, x) - M[x], 0 + (0 + 0))
    BY <2>3, <2>8, NearThrough
  <2>10. QED
    BY <2>9
<1>12. Near(dq[x] - Product(S, dp)[x], (Turn(q, r, x) - q[x]) - (Turn(M, r, x) - M[x]), 0 + 0)
  BY <1>10, <1>11, NearDifference
<1>13. (Turn(q, r, x) - q[x]) - (Turn(M, r, x) - M[x]) = Turn(ph, r, x) - ph[x]
  <2>1. q[x] \in Int /\ M[x] \in Int
    BY <1>1, <1>2 DEF Polynomials
  <2>2. QED
    BY <1>3, <1>4, <1>8, <1>9, <2>1
<1>14. QED
  BY <1>3, <1>8, <1>12, <1>13 DEF ph, dq, dp, S

\* The digits, weighed and added up, give back what was cut, but for the rest.
LEMMA DigitsGive ==
  ASSUME NEW a, IsAccumulator(a), NEW r \in 0 .. (2 * RingSize - 1), NEW x \in Ring,
         NEW A, \A d \in 1 .. DigitCount : A[d] = DigitWeight(d) * Digits(a, r, 2, d)[x],
         NEW B, \A d \in 1 .. DigitCount :
                   B[d] = DigitWeight(d) * Product(RingKey, Digits(a, r, 1, d))[x]
  PROVE  /\ Addends(A, DigitCount) /\ Addends(B, DigitCount)
         /\ Near(Total(A, DigitCount) - Total(B, DigitCount),
                 (Difference(a, r, 2)[x] - Product(RingKey, Difference(a, r, 1))[x])
                   + Left(a, r, x), 0)
<1> DEFINE S == RingKey
           l == DigitCount
           D1 == Difference(a, r, 1)
           D2 == Difference(a, r, 2)
           R1 == Rest(a, r, 1)
           R2 == Rest(a, r, 2)
           f == [d \in 1 .. l |-> Times(DigitWeight(d), Digits(a, r, 1, d))]
<1>1. /\ S \in Polynomials /\ l \in Nat \ {0}
      /\ \A d \in 1 .. l : DigitWeight(d) \in Int
  BY KeysAre, Parameters, DigitWeightIs
<1>2. /\ D1 \in Polynomials /\ D2 \in Polynomials
      /\ R1 \in Polynomials /\ R2 \in Polynomials
      /\ \A y \in Ring : R1[y] = RestOf(D1[y]) /\ R2[y] = RestOf(D2[y])
      /\ \A d \in 1 .. l :
           /\ Digits(a, r, 1, d) \in Polynomials
           /\ \A y \in Ring : /\ Digits(a, r, 1, d)[y] = Digit(D1[y], d)
                              /\ Digits(a, r, 2, d)[y] = Digit(D2[y], d)
  <2>1. \A row \in 1 .. 2, d \in 1 .. l :
           /\ Digits(a, r, row, d) \in Polynomials
           /\ \A y \in Ring : Digits(a, r, row, d)[y] = Digit(Difference(a, r, row)[y], d)
    <3>1. \E i : i \in Lwe
      BY Parameters DEF Lwe
    <3>2. QED
      BY <3>1, StepOneIs
  <2>2. \A row \in 1 .. 2 : /\ Rest(a, r, row) \in Polynomials
                             /\ Difference(a, r, row) \in Polynomials
    BY RestsAre
  <2>3. QED
    BY <2>1, <2>2 DEF Rest
<1>3. ASSUME NEW d \in 1 .. l
      PROVE  /\ f[d] \in Polynomials
             /\ \A y \in Ring : f[d][y] = DigitWeight(d) * Digit(D1[y], d)
             /\ Product(S, f[d])[x] = B[d]
  <2> DEFINE W == DigitWeight(d)
             g == Digits(a, r, 1, d)
  <2>1. f[d] = Times(W, g) /\ W \in Int /\ g \in Polynomials
    BY <1>1, <1>2
  <2>2. \A y \in Ring : g[y] = Digit(D1[y], d)
    BY <1>2
  <2>3. B[d] = W * Product(S, g)[x]
    OBVIOUS
  <2> HIDE DEF f, S, W, g
  <2>4. f[d] \in Polynomials /\ \A y \in Ring : f[d][y] = W * g[y]
    <3>1. /\ Times(W, g) \in Polynomials
          /\ \A y \in Ring : Times(W, g)[y] = W * g[y]
      BY <2>1, TimesIs
    <3>2. QED
      BY <2>1, <3>1
  <2>5. Product(S, f[d])[x] = W * Product(S, g)[x]
    BY <1>1, <2>1, ProductTimes
  <2>6. QED
    BY <2>2, <2>3, <2>4, <2>5 DEF W
<1> HIDE DEF f
<1>4. Addends(A, l) /\ Near(Total(A, l), D2[x] - R2[x], 0)
  <2>1. \A d \in 1 .. l : A[d] = DigitWeight(d) * Digit(D2[x], d)
    BY <1>2
  <2>2. D2[x] \in Int /\ R2[x] = RestOf(D2[x])
    BY <1>2 DEF Polynomials
  <2> HIDE DEF D2, R2
  <2>3. QED
    BY <2>1, <2>2, DigitIs
<1>5. /\ Sums(f, l) \in Polynomials
      /\ \A y \in Ring : Sums(f, l)[y] = Total(At(f, l, y), l)
      /\ Addends(Images(S, f, l, x), l)
      /\ Product(S, Sums(f, l))[x] = Total(Images(S, f, l, x), l)
  BY <1>1, <1>3, ProductTotal
<1>6. Less(D1, R1) \in Polynomials /\ \A y \in Ring : Less(D1, R1)[y] = D1[y] - R1[y]
  BY <1>2, PolynomialsHave
<1>7. ASSUME NEW y \in Ring PROVE Near(Sums(f, l)[y], D1[y] - R1[y], 0)
  <2> DEFINE h == At(f, l, y)
  <2>1. \A d \in 1 .. l : h[d] = DigitWeight(d) * Digit(D1[y], d)
    BY <1>3 DEF At
  <2>2. D1[y] \in Int /\ R1[y] = RestOf(D1[y])
    BY <1>2 DEF Polynomials
  <2>3. Sums(f, l)[y] = Total(h, l)
    BY <1>5
  <2> HIDE DEF h, D1, R1
  <2>4. Near(Total(h, l), D1[y] - R1[y], 0)
    BY <2>1, <2>2, DigitIs
  <2>5. QED
    BY <2>3, <2>4
<1>8. Near(Product(S, Sums(f, l))[x], Product(S, D1)[x] - Product(S, R1)[x], 0)
  <2>1. Alike(Sums(f, l), Less(D1, R1), 0)
    BY <1>5, <1>6, <1>7 DEF Alike
  <2>2. Alike(Product(S, Sums(f, l)), Product(S, Less(D1, R1)), 0)
    BY <1>1, <2>1, ProductCongruent
  <2>3. Product(S, Less(D1, R1))[x] = Product(S, D1)[x] - Product(S, R1)[x]
    BY <1>1, <1>2, ProductParts
  <2>4. QED
    BY <2>2, <2>3 DEF Alike
<1>9. Addends(B, l) /\ Total(B, l) = Total(Images(S, f, l, x), l)
  <2>1. \A d \in 1 .. l : B[d] = Images(S, f, l, x)[d]
    BY <1>3 DEF Images
  <2>2. QED
    BY <1>5, <2>1, TotalSame
<1>10. Near(Total(A, l) - Total(B, l),
            (D2[x] - R2[x]) - (Product(S, D1)[x] - Product(S, R1)[x]), 0 + 0)
  BY <1>4, <1>5, <1>8, <1>9, NearDifference
<1>11. (D2[x] - R2[x]) - (Product(S, D1)[x] - Product(S, R1)[x])
         = (D2[x] - Product(S, D1)[x]) + Left(a, r, x)
  <2>1. Product(S, D1) \in Polynomials /\ Product(S, R1) \in Polynomials
    BY <1>1, <1>2, ProductIs
  <2>2. /\ D2[x] \in Int /\ R2[x] \in Int
        /\ Product(S, D1)[x] \in Int /\ Product(S, R1)[x] \in Int
    BY <1>2, <2>1 DEF Polynomials
  <2>3. Left(a, r, x) = Product(S, R1)[x] - R2[x]
    BY DEF Left
  <2> HIDE DEF S, D1, D2, R1, R2
  <2>4. QED
    BY <2>2, <2>3
<1>12. QED
  BY <1>4, <1>9, <1>10, <1>11

\* A step of the rotation turns the phase by r if the bit of the key is one,
\* and leaves it if not, up to the error of the step.
LEMMA StepPhase ==
  ASSUME NEW a, IsAccumulator(a), NEW r \in 0 .. (2 * RingSize - 1), NEW i \in Lwe
  PROVE  /\ IsAccumulator(StepTwo(a, StepOne(a, r, i)))
         /\ \A x \in Ring : Near(RingPhase(StepTwo(a, StepOne(a, r, i)))[x],
                                 (IF LweKey[i] = 1 THEN Turn(RingPhase(a), r, x)
                                                   ELSE RingPhase(a)[x])
                                   + StepError(a, r, i)[x], 0)
<1> DEFINE P == StepOne(a, r, i)
           S == RingKey
           l == DigitCount
           k == LweKey[i]
           ph == RingPhase(a)
<1>1. AreProducts(P)
  <2>1. ASSUME NEW row \in 1 .. 2, NEW d \in 1 .. l, NEW part \in 1 .. 2
        PROVE  P[row][d][part] \in Polynomials
    <3> DEFINE g == Digits(a, r, row, d)
               K == BootKeyRow(i, row, d)[part]
    <3>1. P[row][d][part] = RingProduct(g, K) /\ g \in Polynomials
      BY StepOneIs
    <3>2. K \in Polynomials
      <4>1. part = 1 \/ part = 2
        OBVIOUS
      <4>2. row = 1 \/ row = 2
        OBVIOUS
      <4>3. /\ BootKeyRow(i, 1, d)[1] \in Polynomials /\ BootKeyRow(i, 1, d)[2] \in Polynomials
            /\ BootKeyRow(i, 2, d)[1] \in Polynomials /\ BootKeyRow(i, 2, d)[2] \in Polynomials
        BY RowIs, KeysAre DEF Alike
      <4>4. QED
        BY <4>1, <4>2, <4>3
    <3> HIDE DEF g, K, P
    <3>3. Alike(RingProduct(g, K), Product(g, K), 0)
      BY <3>1, <3>2, RingOperations
    <3>4. QED
      BY <3>1, <3>3 DEF Alike
  <2>2. QED
    BY <2>1 DEF AreProducts
<1>2. IsAccumulator(StepTwo(a, P))
  BY <1>1, StepTwoAccumulates
<1>3. ASSUME NEW x \in Ring
      PROVE  Near(RingPhase(StepTwo(a, P))[x],
                  (IF k = 1 THEN Turn(ph, r, x) ELSE ph[x]) + StepError(a, r, i)[x], 0)
  <2> DEFINE w == [d \in 1 .. l |-> Gain(P, d, x)]
             A == [d \in 1 .. l |-> DigitWeight(d) * Digits(a, r, 2, d)[x]]
             B == [d \in 1 .. l |-> DigitWeight(d) * Product(S, Digits(a, r, 1, d))[x]]
             v == [d \in 1 .. l |-> k * A[d] + (-k) * B[d]]
             D == Difference(a, r, 2)[x] - Product(S, Difference(a, r, 1))[x]
             t == Turn(ph, r, x)
             left == Left(a, r, x)
             E == RowErrors(a, r, i, x)
             z == [d \in 1 .. l |-> E[d] + v[d]]
             e == StepError(a, r, i)[x]
  <2>1. Near(RingPhase(StepTwo(a, P))[x], ph[x] + Total(w, l), 0)
    BY <1>1, PhaseGain
  <2>2. ph[x] \in Int /\ t \in Int /\ Near(D, t - ph[x], 0)
    BY DifferencePhase DEF Polynomials
  <2>3. k \in {0, 1} /\ k \in Int /\ k \in -1 .. 1 /\ l \in Nat \ {0}
    BY KeysAre, Parameters
  <2>4. Addends(A, l) /\ Addends(B, l) /\ Near(Total(A, l) - Total(B, l), D + left, 0)
    <3>1. \A d \in 1 .. l : A[d] = DigitWeight(d) * Digits(a, r, 2, d)[x]
      OBVIOUS
    <3>2. \A d \in 1 .. l : B[d] = DigitWeight(d) * Product(S, Digits(a, r, 1, d))[x]
      OBVIOUS
    <3> HIDE DEF A, B
    <3>3. QED
      BY <3>1, <3>2, DigitsGive
  <2>5. ASSUME NEW d \in 1 .. l PROVE Near(w[d], z[d], 0)
    <3> DEFINE W == DigitWeight(d)
               c == k * W
               g == Digits(a, r, 2, d)[x]
               h == Product(S, Digits(a, r, 1, d))[x]
               n == RowError(a, r, i, d, x)
    <3>1. Near(Gain(P, d, x), n + (c * g + (-c) * h), 0)
      BY GainIs
    <3>2. g \in Int /\ h \in Int /\ W \in Int
      <4>1. S \in Polynomials /\ Digits(a, r, 1, d) \in Polynomials
            /\ Digits(a, r, 2, d) \in Polynomials
        BY KeysAre, StepOneIs
      <4>2. Product(S, Digits(a, r, 1, d)) \in Polynomials
        BY <4>1, ProductIs
      <4>3. W \in Int
        BY DigitWeightIs
      <4>4. QED
        BY <4>1, <4>2, <4>3 DEF Polynomials
    <3>3. w[d] = Gain(P, d, x) /\ z[d] = n + (k * (W * g) + (-k) * (W * h))
      BY DEF RowErrors
    <3> HIDE DEF P, w, z, g, h, k, W, n
    <3>4. k * (W * g) = c * g /\ (-k) * (W * h) = (-c) * h
      BY <2>3, <3>2
    <3>5. QED
      BY <3>1, <3>3, <3>4
  <2>6. /\ \A d \in 1 .. l : v[d] = k * A[d] + (-k) * B[d]
        /\ \A d \in 1 .. l : z[d] = E[d] + v[d]
    OBVIOUS
  <2>7. Addends(E, l) /\ left \in Int /\ e \in Int /\ Near(e, Total(E, l) + k * left, 0)
    BY StepErrorIs DEF Polynomials
  <2> HIDE DEF P, S, k, ph, w, A, B, v, D, t, left, l, E, z, e
  <2>8. Addends(v, l) /\ Total(v, l) = k * Total(A, l) + (-k) * Total(B, l)
    <3>1. -k \in Int
      BY <2>3
    <3>2. Combines(v, k, A, -k, B, l)
      BY <2>3, <2>4, <2>6, <3>1 DEF Combines
    <3>3. QED
      BY <3>2, TotalLinear
  <2>9. Total(v, l) = k * (Total(A, l) - Total(B, l))
    <3>1. Total(A, l) \in Int /\ Total(B, l) \in Int
      BY <2>4, TotalStep
    <3>2. QED
      BY <2>3, <2>8, <3>1
  <2>10. Near(Total(v, l), k * ((t - ph[x]) + left), 0)
    <3>1. Near(left, left, 0)
      BY <2>7, NearSelf
    <3>2. Near(D + left, (t - ph[x]) + left, 0 + 0)
      BY <2>2, <3>1, NearSum
    <3>3. Near(Total(A, l) - Total(B, l), (t - ph[x]) + left, 0 + (0 + 0))
      BY <2>4, <3>2, NearThrough
    <3>4. Near(Total(v, l), k * ((t - ph[x]) + left), 1 * (0 + (0 + 0)))
      BY <2>3, <2>9, <3>3, NearScaled
    <3>5. QED
      BY <3>4
  <2>11. Addends(z, l) /\ Total(z, l) = Total(E, l) + Total(v, l)
         /\ Total(E, l) \in Int /\ Total(v, l) \in Int
    <3>1. \A d \in 1 .. l : E[d] \in Int /\ v[d] \in Int
      BY <2>7, <2>8 DEF Addends
    <3>2. \A d \in 1 .. l : z[d] = 1 * E[d] + 1 * v[d]
      BY <2>6, <3>1
    <3>3. Combines(z, 1, E, 1, v, l)
      BY <2>7, <2>8, <3>2 DEF Combines
    <3>4. Addends(z, l) /\ Total(z, l) = 1 * Total(E, l) + 1 * Total(v, l)
      BY <3>3, TotalLinear
    <3>5. Total(E, l) \in Int /\ Total(v, l) \in Int
      BY <2>7, <2>8, TotalStep
    <3>6. QED
      BY <3>4, <3>5
  <2>12. Near(Total(w, l), Total(z, l), 0)
    <3>1. Close(w, z, 0, l)
      BY <2>3, <2>5 DEF Close
    <3>2. Near(Total(w, l), Total(z, l), l * 0)
      BY <3>1, NearTotal
    <3>3. l * 0 = 0
      BY <2>3
    <3>4. QED
      BY <3>2, <3>3
  <2>13. Near(Total(w, l), Total(E, l) + k * ((t - ph[x]) + left), 0)
    <3>1. Near(Total(E, l), Total(E, l), 0)
      BY <2>11, NearSelf
    <3>2. Near(Total(E, l) + Total(v, l), Total(E, l) + k * ((t - ph[x]) + left), 0 + 0)
      BY <2>10, <3>1, NearSum
    <3>3. Near(Total(w, l), Total(E, l) + k * ((t - ph[x]) + left), 0 + (0 + 0))
      BY <2>11, <2>12, <3>2, NearThrough
    <3>4. QED
      BY <3>3
  <2>14. Near(Total(E, l) + k * left, e, 0)
    BY <2>7, NearSymmetric
  <2>15. Near(ph[x] + k * (t - ph[x]), ph[x] + k * (t - ph[x]), 0)
         /\ k * (t - ph[x]) \in Int /\ k * left \in Int
    <3>1. k * (t - ph[x]) \in Int /\ k * left \in Int
      BY <2>2, <2>3, <2>7
    <3>2. QED
      BY <2>2, <3>1, NearSelf
  <2>16. Near(RingPhase(StepTwo(a, P))[x],
              ph[x] + (Total(E, l) + k * ((t - ph[x]) + left)), 0)
    <3>1. Near(ph[x], ph[x], 0)
      BY <2>2, NearSelf
    <3>2. Near(ph[x] + Total(w, l), ph[x] + (Total(E, l) + k * ((t - ph[x]) + left)), 0 + 0)
      BY <2>13, <3>1, NearSum
    <3>3. Near(RingPhase(StepTwo(a, P))[x],
               ph[x] + (Total(E, l) + k * ((t - ph[x]) + left)), 0 + (0 + 0))
      BY <2>1, <3>2, NearThrough
    <3>4. QED
      BY <3>3
  <2>17. ph[x] + (Total(E, l) + k * ((t - ph[x]) + left))
           = (ph[x] + k * (t - ph[x])) + (Total(E, l) + k * left)
    <3>1. k * ((t - ph[x]) + left) = k * (t - ph[x]) + k * left
      BY <2>2, <2>3, <2>7
    <3>2. QED
      BY <2>2, <2>11, <2>15, <3>1
  <2>18. Near(RingPhase(StepTwo(a, P))[x], (ph[x] + k * (t - ph[x])) + e, 0)
    <3>1. Near((ph[x] + k * (t - ph[x])) + (Total(E, l) + k * left),
               (ph[x] + k * (t - ph[x])) + e, 0 + 0)
      BY <2>14, <2>15, NearSum
    <3>2. Near(RingPhase(StepTwo(a, P))[x], (ph[x] + k * (t - ph[x])) + e, 0 + (0 + 0))
      BY <2>16, <2>17, <3>1, NearThrough
    <3>3. QED
      BY <3>2
  <2>19. ph[x] + k * (t - ph[x]) = IF k = 1 THEN t ELSE ph[x]
    BY <2>2, <2>3
  <2>20. QED
    BY <2>18, <2>19 DEF t, e
<1>4. QED
  BY <1>2, <1>3

-----------------------------------------------------------------------------
(* The rotation: elements of the torus rounded to powers of X.              *)

HalfNotch == Torus \div (4 * RingSize)

\* The powers of X are spread evenly over the torus, and a half of it, an
\* eighth and a quarter are whole numbers.
LEMMA NotchIs ==
  /\ HalfNotch \in Nat \ {0} /\ Notch \in Nat \ {0} /\ Notch = 2 * HalfNotch
  /\ Torus = (2 * RingSize) * Notch
  /\ Encoded(1, 8) \in Nat \ {0} /\ Torus = 8 * Encoded(1, 8)
  /\ Encoded(1, 4) = 2 * Encoded(1, 8)
<1> DEFINE N == RingSize
           T == Torus
<1>1. N \in Nat \ {0} /\ T \in Nat \ {0}
  BY RingIs, TorusIs
<1>2. T % (4 * N) = 0
  BY ParametersFit
<1> DEFINE u == T \div (4 * N)
<1>3. u \in Int /\ T = u * (4 * N)
  <2>1. 4 * N \in Nat \ {0} /\ T \in Int
    BY <1>1
  <2> DEFINE m == 4 * N
  <2> HIDE DEF N, T, m
  <2>2. T \div m \in Int /\ T = (T \div m) * m + (T % m)
    BY <1>1, <2>1, RemainderIs DEF m
  <2>3. T % m = 0 /\ (T \div m) * m \in Int
    BY <1>2, <2>1, <2>2 DEF m
  <2>4. QED
    BY <2>2, <2>3 DEF m
<1>4. HalfNotch = u
  BY DEF HalfNotch
<1> HIDE DEF u
<1>5. u \in Nat \ {0}
  <2> HIDE DEF N, T
  <2>1. CASE u <= 0
    <3>1. u * (4 * N) <= 0
      BY <1>1, <1>3, <2>1
    <3>2. QED
      BY <1>1, <1>3, <3>1
  <2>2. QED
    BY <1>3, <2>1
<1>6. Notch = 2 * u
  <2> HIDE DEF N, T
  <2>1. T = (2 * u) * (2 * N) + 0 /\ 2 * N \in Nat \ {0} /\ 2 * u \in Int /\ T \in Int
        /\ 0 \in 0 .. (2 * N) - 1
    <3>1. (2 * u) * (2 * N) = u * (4 * N)
      BY <1>1, <1>5
    <3>2. u * (4 * N) \in Int
      BY <1>1, <1>3
    <3>3. QED
      BY <1>1, <1>3, <1>5, <3>1, <3>2
  <2> DEFINE m == 2 * N
             k == 2 * u
  <2> HIDE DEF m, k
  <2>2. m \in Nat \ {0} /\ k \in Int /\ T \in Int /\ T = k * m + 0 /\ 0 \in 0 .. m - 1
    BY <2>1 DEF m, k
  <2>3. T \div m = k
    BY <2>2, QuotientUnique
  <2>4. QED
    BY <2>3 DEF Notch, m, k, N, T
<1>7. T = (2 * N) * (2 * u)
  <2> HIDE DEF N, T
  <2>1. (2 * N) * (2 * u) = u * (4 * N)
    BY <1>1, <1>5
  <2>2. QED
    BY <1>3, <2>1
<1>8. PICK v \in Nat \ {0} : T = 8 * v
  BY TorusIs
<1>9. Encoded(1, 8) = v
  <2>1. T \div 8 = v
    BY <1>8
  <2>2. v \in 0 .. T - 1
    BY <1>8
  <2> HIDE DEF T
  <2>3. v % T = v
    <3>1. v = 0 * T + v
      BY <1>1, <1>8
    <3>2. QED
      BY <1>1, <1>8, <2>2, <3>1, RemainderUnique
  <2>4. (1 * (T \div 8)) % T = v
    BY <2>1, <2>3
  <2>5. QED
    BY <2>4 DEF Encoded, T
<1>10. Encoded(1, 4) = 2 * v
  <2>1. T \div 4 = 2 * v
    BY <1>8
  <2>2. 2 * v \in 0 .. T - 1 /\ 2 * v \in Int
    BY <1>8
  <2> HIDE DEF T
  <2>3. (2 * v) % T = 2 * v
    <3> DEFINE y == 2 * v
    <3>1. y \in 0 .. T - 1 /\ y \in Int /\ y = 0 * T + y
      BY <1>1, <2>2
    <3> HIDE DEF y
    <3>2. y % T = y
      BY <1>1, <3>1, RemainderUnique
    <3>3. QED
      BY <3>2 DEF y
  <2>4. 1 * (T \div 4) = 2 * v
    BY <2>1, <2>2
  <2>5. (1 * (T \div 4)) % T = 2 * v
    BY <2>3, <2>4
  <2>6. QED
    BY <2>5 DEF Encoded, T
<1>11. QED
  BY <1>4, <1>5, <1>6, <1>7, <1>8, <1>9, <1>10

\* The power of X is the element, without what rounding leaves of it.
LEMMA SwitchIs ==
  ASSUME NEW x \in Int
  PROVE  /\ torus_modulus_switch_log(x) \in 0 .. (2 * RingSize - 1)
         /\ Remainder(x, Notch) \in Int
         /\ Near(Notch * torus_modulus_switch_log(x), x - Remainder(x, Notch), 0)
<1> DEFINE h == HalfNotch
           n == Notch
           y == (x + h) % Torus
           r == y \div n
           M == 2 * RingSize
<1>1. /\ h \in Nat \ {0} /\ n \in Nat \ {0} /\ n = 2 * h /\ Torus = M * n /\ M \in Nat \ {0}
  BY NotchIs, RingIs
<1>2. y \in 0 .. Torus - 1 /\ Near(y, x + h, 0)
  BY <1>1, NearSelf
<1>3. torus_modulus_switch_log(x) = r
  BY DEF torus_modulus_switch_log, Notch, HalfNotch
<1> HIDE DEF h, n, y, M
<1>4. y \in Nat /\ y \in Int
  BY <1>2, TorusIs
<1>5. r \in Int /\ y % n \in 0 .. n - 1 /\ y = r * n + (y % n)
  BY <1>1, <1>4, RemainderIs
<1> DEFINE t == y % n
<1> HIDE DEF r, t
<1>6. r \in Int /\ t \in 0 .. n - 1 /\ y = r * n + t /\ t \in Int /\ r * n \in Int
  BY <1>1, <1>5 DEF t
<1>7. r >= 0
  <2>1. CASE r <= -1
    <3>1. r * n <= (-1) * n
      BY <1>1, <1>6, <2>1
    <3>2. QED
      BY <1>1, <1>4, <1>6, <3>1
  <2>2. QED
    BY <1>6, <2>1
<1>8. r <= M - 1
  <2>1. CASE r >= M
    <3>1. r * n >= M * n
      BY <1>1, <1>6, <2>1
    <3>2. QED
      BY <1>1, <1>2, <1>6, <3>1
  <2>2. QED
    BY <1>1, <1>6, <2>1
<1>9. Remainder(x, n) \in Int /\ Near(y - t, x - Remainder(x, n), 0)
  <2>1. n \div 2 = h /\ 0 * n = 0 /\ x + h + 0 = x + h
    BY <1>1
  <2>2. Near(y, x + (n \div 2) + 0 * n, 0)
    BY <1>2, <2>1
  <2>3. /\ Remainder(x, n) \in Int
        /\ Near(y - (y % n), x + 0 * n - Remainder(x, n), 0)
    <3> DEFINE z == 0
    <3>1. z \in Int /\ M \in Int /\ n \in Nat \ {0} /\ Torus = M * n
          /\ Near(y, x + (n \div 2) + z * n, 0)
      BY <1>1, <2>2
    <3> HIDE DEF z
    <3>2. Near(y - (y % n), x + z * n - Remainder(x, n), 0) /\ Remainder(x, n) \in Int
      BY <1>4, <3>1, RoundingIs
    <3>3. QED
      BY <3>2 DEF z
  <2>4. x + 0 * n - Remainder(x, n) = x - Remainder(x, n)
    BY <2>1, <2>3
  <2>5. QED
    BY <2>3, <2>4 DEF t
<1>10. y - t = n * r
  BY <1>1, <1>6
<1>11. QED
  BY <1>3, <1>6, <1>7, <1>8, <1>9, <1>10 DEF M, n

\* The coefficients of the constant polynomial, continued with their signs.
Level(j) == IF j % (2 * RingSize) < RingSize THEN Encoded(1, 8) ELSE -Encoded(1, 8)

\* Half a turn changes the sign; a whole turn changes nothing.
LEMMA LevelIs ==
  /\ \A j \in Int : /\ Level(j) \in Int
                    /\ Level(j + RingSize) = -Level(j) /\ Level(j - RingSize) = -Level(j)
                    /\ Level(j - 2 * RingSize) = Level(j)
  /\ \A j \in 0 .. RingSize - 1 : Level(j) = Encoded(1, 8)
  /\ \A j \in -RingSize .. -1 : Level(j) = -Encoded(1, 8)
<1> DEFINE N == RingSize
           M == 2 * N
           mu == Encoded(1, 8)
<1>1. N \in Nat \ {0} /\ M \in Nat \ {0} /\ mu \in Nat \ {0} /\ M = 2 * N
  BY RingIs, NotchIs
<1>2. \A j : Level(j) = IF j % M < N THEN mu ELSE -mu
  BY DEF Level
<1> HIDE DEF N, M, mu
<1>3. ASSUME NEW j \in Int
      PROVE  /\ Level(j) \in Int
             /\ Level(j + N) = -Level(j) /\ Level(j - N) = -Level(j)
             /\ Level(j - M) = Level(j)
  <2> DEFINE q == j \div M
             r == j % M
  <2>1. r \in 0 .. M - 1 /\ q \in Int /\ j = q * M + r
    BY <1>1, RemainderIs
  <2>2. Level(j) = IF r < N THEN mu ELSE -mu
    BY <1>2
  <2> HIDE DEF q, r
  <2>3. r \in Int /\ q * M \in Int /\ (q + 1) * M = q * M + M /\ (q - 1) * M = q * M - M
    BY <1>1, <2>1
  <2>4. ASSUME NEW i \in Int, NEW k \in Int, NEW s \in 0 .. M - 1, i = k * M + s
        PROVE  Level(i) = IF s < N THEN mu ELSE -mu
    <3>1. i % M = s
      BY <1>1, <2>4, RemainderUnique
    <3>2. QED
      BY <1>2, <3>1
  <2>5. CASE r < N
    <3>1. j + N = q * M + (r + N) /\ r + N \in 0 .. M - 1 /\ j + N \in Int /\ ~(r + N < N)
      BY <1>1, <2>1, <2>3, <2>5
    <3>2. Level(j + N) = -mu
      BY <1>1, <2>1, <2>4, <3>1
    <3>3. j - N = (q - 1) * M + (r + N) /\ j - N \in Int /\ q - 1 \in Int
      BY <1>1, <2>1, <2>3, <2>5
    <3>4. Level(j - N) = -mu
      BY <1>1, <2>1, <2>4, <3>1, <3>3
    <3>5. j - M = (q - 1) * M + r /\ j - M \in Int
      BY <1>1, <2>1, <2>3
    <3>6. Level(j - M) = mu
      BY <2>1, <2>4, <2>5, <3>3, <3>5
    <3>7. QED
      BY <1>1, <2>2, <2>5, <3>2, <3>4, <3>6
  <2>6. CASE ~(r < N)
    <3>1. j + N = (q + 1) * M + (r - N) /\ r - N \in 0 .. M - 1 /\ j + N \in Int /\ q + 1 \in Int
          /\ r - N < N
      BY <1>1, <2>1, <2>3, <2>6
    <3>2. Level(j + N) = mu
      BY <2>4, <3>1
    <3>3. j - N = q * M + (r - N) /\ j - N \in Int
      BY <1>1, <2>1, <2>3, <2>6
    <3>4. Level(j - N) = mu
      BY <2>1, <2>4, <3>1, <3>3
    <3>5. j - M = (q - 1) * M + r /\ j - M \in Int /\ q - 1 \in Int
      BY <1>1, <2>1, <2>3
    <3>6. Level(j - M) = -mu
      BY <2>1, <2>4, <2>6, <3>5
    <3>7. QED
      BY <1>1, <2>2, <2>6, <3>2, <3>4, <3>6
  <2>7. QED
    BY <2>5, <2>6
<1>4. ASSUME NEW j \in 0 .. N - 1 PROVE Level(j) = mu
  <2>1. j \in 0 .. M - 1 /\ j \in Int /\ j = 0 * M + j /\ j < N
    BY <1>1
  <2>2. j % M = j
    BY <1>1, <2>1, RemainderUnique
  <2>3. QED
    BY <1>2, <2>1, <2>2
<1>5. ASSUME NEW j \in -N .. -1 PROVE Level(j) = -mu
  <2>1. j + N \in 0 .. N - 1 /\ j + N \in Int /\ (j + N) - N = j
    BY <1>1
  <2>2. Level(j + N) = mu /\ Level((j + N) - N) = -Level(j + N)
    BY <1>3, <1>4, <2>1
  <2>3. QED
    BY <2>1, <2>2
<1>6. QED
  BY <1>3, <1>4, <1>5 DEF N, M, mu

\* A polynomial that is the constant one, turned by r, and an error.
Levels(p, r, E) ==
  /\ p \in Polynomials /\ r \in Int /\ E \in Polynomials
  /\ \A k \in Ring : Near(p[k], Level(k - 1 - r) + E[k], 0)

\* Another turn adds up, and turns the error too.
LEMMA TurnLevels ==
  ASSUME NEW p, NEW r, NEW E, Levels(p, r, E), NEW s \in 0 .. (2 * RingSize - 1), NEW k \in Ring
  PROVE  Near(Turn(p, s, k), Level(k - 1 - (r + s)) + Turn(E, s, k), 0)
<1> DEFINE N == RingSize
<1>1. /\ r \in Int /\ N \in Nat \ {0} /\ k \in 1 .. N /\ k \in Int /\ s \in Int
      /\ \A y \in 1 .. N : Near(p[y], Level(y - 1 - r) + E[y], 0) /\ E[y] \in Int
  BY RingIs DEF Levels, Polynomials
<1> DEFINE j == k - 1 - (r + s)
<1>2. j \in Int /\ Level(j) \in Int /\ Level(j + N) = -Level(j) /\ Level(j - N) = -Level(j)
      /\ Level((j + N) + N) = -Level(j + N)
  <2>1. j \in Int /\ j + N \in Int
    BY <1>1
  <2> HIDE DEF j
  <2>2. QED
    BY <2>1, LevelIs
<1>3. s <= 2 * N - 1 /\ s >= 0
  BY RingIs
<1>4. ASSUME NEW u, NEW v \in Int, NEW e \in Int, Near(u, -v + e, 0) PROVE Near(-u, v + (-e), 0)
  <2>1. Near(-u, -(-v + e), 0)
    BY <1>4, NearMinus
  <2>2. -(-v + e) = v + (-e)
    OBVIOUS
  <2>3. QED
    BY <2>1, <2>2
<1>5. CASE s < N /\ k <= s
  <2> DEFINE y == N + k - s
  <2>1. Turn(p, s, k) = -p[y] /\ Turn(E, s, k) = -E[y]
    BY <1>5 DEF Turn, Shifted
  <2>2. y \in 1 .. N /\ y - 1 - r = j + N
    BY <1>1, <1>3, <1>5
  <2> HIDE DEF y
  <2>3. Near(p[y], -Level(j) + E[y], 0) /\ E[y] \in Int
    BY <1>1, <1>2, <2>2
  <2>4. Near(-p[y], Level(j) + (-E[y]), 0)
    BY <1>2, <1>4, <2>3
  <2>5. QED
    BY <2>1, <2>4
<1>6. CASE s < N /\ ~(k <= s)
  <2> DEFINE y == k - s
  <2>1. Turn(p, s, k) = p[y] /\ Turn(E, s, k) = E[y]
    BY <1>6 DEF Turn, Shifted
  <2>2. y \in 1 .. N /\ y - 1 - r = j
    BY <1>1, <1>3, <1>6
  <2> HIDE DEF y
  <2>3. QED
    BY <1>1, <2>1, <2>2
<1>7. CASE ~(s < N) /\ k <= s - N
  <2> DEFINE y == N + k - (s - N)
  <2>1. Turn(p, s, k) = -(-p[y]) /\ Turn(E, s, k) = -(-E[y])
    BY <1>7 DEF Turn, Shifted
  <2>2. y \in 1 .. N /\ y - 1 - r = (j + N) + N
    BY <1>1, <1>3, <1>7
  <2> HIDE DEF y
  <2>3. Near(p[y], Level(j) + E[y], 0) /\ E[y] \in Int
    <3>1. Level((j + N) + N) = Level(j)
      BY <1>2
    <3>2. QED
      BY <1>1, <2>2, <3>1
  <2>4. -(-p[y]) = p[y] /\ -(-E[y]) = E[y]
    BY <2>3 DEF Near
  <2>5. QED
    BY <2>1, <2>3, <2>4
<1>8. CASE ~(s < N) /\ ~(k <= s - N)
  <2> DEFINE y == k - (s - N)
  <2>1. Turn(p, s, k) = -p[y] /\ Turn(E, s, k) = -E[y]
    BY <1>8 DEF Turn, Shifted
  <2>2. y \in 1 .. N /\ y - 1 - r = j + N
    BY <1>1, <1>3, <1>8
  <2> HIDE DEF y
  <2>3. Near(p[y], -Level(j) + E[y], 0) /\ E[y] \in Int
    BY <1>1, <1>2, <2>2
  <2>4. Near(-p[y], Level(j) + (-E[y]), 0)
    BY <1>2, <1>4, <2>3
  <2>5. QED
    BY <2>1, <2>4
<1>9. QED
  BY <1>5, <1>6, <1>7, <1>8

(* A sample: a mask over a key of n bits, and a body.                       *)
IsSample(s, n) == s.a \in [1 .. n -> Int] /\ s.b \in Int

Accumulators == Polynomials \X Polynomials

\* The polynomial that is zero.
LEMMA ZeroIs ==
  /\ RingZero = [i \in Ring |-> 0] /\ RingZero \in Polynomials
  /\ \A k \in Ring : RingZero[k] = 0
<1> DEFINE z == [i \in Ring |-> 0]
<1>1. z \in Polynomials /\ z \in [1 .. RingSize -> Int] /\ \A k \in Ring : z[k] = 0
  BY RingIs DEF Polynomials
<1>2. RingZero = Tuple(z, RingSize)
  BY DEF RingZero
<1> HIDE DEF z
<1>3. Tuple(z, RingSize) = z
  BY <1>1, RingIs, TupleIs
<1>4. QED
  BY <1>1, <1>2, <1>3 DEF z

\* The accumulator begins as the constant polynomial, turned back by the body.
LEMMA FirstIs ==
  ASSUME NEW b \in Int
  PROVE  /\ FirstAccumulator(b) \in Accumulators
         /\ Levels(RingPhase(FirstAccumulator(b)),
                   2 * RingSize - torus_modulus_switch_log(b), RingZero)
<1> DEFINE N == RingSize
           r == 2 * N - torus_modulus_switch_log(b)
           mu == Encoded(1, 8)
           f == [i \in Ring |-> IF IF r < N THEN i <= r ELSE i > r - N THEN -mu ELSE mu]
           z == [i \in Ring |-> 0]
           p == Tuple([i \in Ring |-> f[i] % Torus], N)
           a == FirstAccumulator(b)
<1>1. N \in Nat \ {0} /\ Ring = 1 .. N /\ mu \in Nat \ {0} /\ r \in 1 .. 2 * N /\ r \in Int
  <2>1. torus_modulus_switch_log(b) \in 0 .. (2 * N - 1)
    BY SwitchIs
  <2>2. N \in Nat \ {0} /\ Ring = 1 .. N /\ mu \in Nat \ {0}
    BY RingIs, NotchIs
  <2> DEFINE s == torus_modulus_switch_log(b)
  <2> HIDE DEF s
  <2>3. QED
    BY <2>1, <2>2 DEF s
<1>2. f \in Polynomials /\ z \in Polynomials
  <2> HIDE DEF r, mu, N
  <2>1. QED
    BY <1>1 DEF Polynomials
<1>3. a = <<z, p>>
  <2>1. RingZero = z
    BY ZeroIs
  <2>2. a = <<RingZero, Tuple([i \in Ring |->
               (IF IF r < N THEN i <= r ELSE i > r - N THEN -mu ELSE mu) % Torus], N)>>
    BY DEF FirstAccumulator
  <2>3. [i \in Ring |-> (IF IF r < N THEN i <= r ELSE i > r - N THEN -mu ELSE mu) % Torus]
          = [i \in Ring |-> f[i] % Torus]
    <3> HIDE DEF r, mu, N
    <3>1. QED
      OBVIOUS
  <2>4. QED
    BY <2>1, <2>2, <2>3
<1>4. Alike(p, f, 0) /\ p \in Polynomials
  <2> HIDE DEF f
  <2>1. Alike(p, f, 0)
    BY <1>2, Reduced
  <2>2. QED
    BY <2>1 DEF Alike
<1>5. \A k \in Ring : f[k] = Level(k - 1 - r)
  <2>1. SUFFICES ASSUME NEW k \in 1 .. N PROVE f[k] = Level(k - 1 - r)
    BY <1>1
  <2> DEFINE j == k - 1 - r
  <2>2. f[k] = IF IF r < N THEN k <= r ELSE k > r - N THEN -mu ELSE mu
    BY <1>1
  <2>3. Level(j) \in Int /\ Level(j + N) = -Level(j)
    <3>1. j \in Int
      BY <1>1
    <3> HIDE DEF j
    <3>2. QED
      BY <3>1, LevelIs
  <2> HIDE DEF f, mu, r
  <2>4. CASE (r < N /\ ~(k <= r))
    <3>1. j \in 0 .. N - 1
      BY <1>1, <2>4
    <3>2. Level(j) = mu
      BY <3>1, LevelIs DEF mu
    <3>3. QED
      BY <2>2, <2>4, <3>2
  <2>5. CASE (r < N /\ k <= r) \/ (~(r < N) /\ k > r - N)
    <3>1. j \in -N .. -1
      BY <1>1, <2>5
    <3>2. Level(j) = -mu
      BY <3>1, LevelIs DEF mu
    <3>3. QED
      BY <2>2, <2>5, <3>2
  <2>6. CASE ~(r < N) /\ ~(k > r - N)
    <3>1. j + N \in -N .. -1
      BY <1>1, <2>6
    <3>2. Level(j + N) = -mu
      BY <3>1, LevelIs DEF mu
    <3>3. QED
      BY <1>1, <2>2, <2>3, <2>6, <3>2
  <2>7. QED
    BY <2>4, <2>5, <2>6
<1> HIDE DEF f, p, r, z
<1>6. a \in Accumulators /\ a[1] = z /\ a[2] = p
  BY <1>2, <1>3, <1>4 DEF Accumulators
<1> HIDE DEF a
<1>7. RingPhase(a) \in Polynomials /\ \A k \in Ring : RingPhase(a)[k] = p[k]
  <2> DEFINE q == Product(RingKey, z)
  <2>1. RingKey \in Polynomials
    BY KeysAre
  <2>2. q \in Polynomials
    BY <1>2, <2>1, ProductIs
  <2>3. \A k \in Ring : q[k] = 0
    <3>1. Mixture(z, 0, z, 0, z)
      BY <1>2 DEF Mixture, z
    <3>2. \A k \in Ring : q[k] = 0 * q[k] + 0 * q[k]
      BY <2>1, <3>1, ProductLinear
    <3>3. \A k \in Ring : q[k] \in Int
      BY <2>2 DEF Polynomials
    <3> HIDE DEF q
    <3>4. QED
      BY <3>2, <3>3
  <2>4. RingPhase(a) = Less(p, q)
    BY <1>6 DEF RingPhase
  <2> HIDE DEF q
  <2>5. /\ Less(p, q) \in Polynomials /\ \A k \in Ring : Less(p, q)[k] = p[k] - q[k]
        /\ \A k \in Ring : p[k] \in Int
    BY <1>4, <2>2, PolynomialsHave
  <2>6. QED
    BY <2>3, <2>4, <2>5
<1>8. \A k \in Ring : Near(RingPhase(a)[k], Level(k - 1 - r) + RingZero[k], 0)
  <2>1. \A k \in Ring : Near(RingPhase(a)[k], Level(k - 1 - r), 0)
    BY <1>4, <1>5, <1>7 DEF Alike
  <2>2. ASSUME NEW k \in Ring PROVE Level(k - 1 - r) + RingZero[k] = Level(k - 1 - r)
    <3>1. Level(k - 1 - r) \in Int
      BY <2>1 DEF Near
    <3>2. QED
      BY <3>1, ZeroIs
  <2>3. QED
    BY <2>1, <2>2
<1>9. Levels(RingPhase(a), r, RingZero)
  BY <1>1, <1>7, <1>8, ZeroIs DEF Levels
<1>10. QED
  BY <1>6, <1>9 DEF a, r

(* The error after a step, from the error before it.                        *)
NextError(a, E, s, i) ==
  RingSum(IF LweKey[i] = 1 THEN Turned(E, s) ELSE E, StepError(a, s, i))

\* A step turns the polynomial further, if the bit of the key is one.
LEMMA StepLevels ==
  ASSUME NEW a \in Accumulators, NEW r, NEW E, Levels(RingPhase(a), r, E),
         NEW s \in 0 .. (2 * RingSize - 1), NEW i \in Lwe
  PROVE  /\ StepTwo(a, StepOne(a, s, i)) \in Accumulators
         /\ Levels(RingPhase(StepTwo(a, StepOne(a, s, i))), r + LweKey[i] * s, NextError(a, E, s, i))
<1> DEFINE b == StepTwo(a, StepOne(a, s, i))
           k == LweKey[i]
           e == StepError(a, s, i)
           F == IF k = 1 THEN Turned(E, s) ELSE E
           G == NextError(a, E, s, i)
           ph == RingPhase(a)
<1>1. IsAccumulator(a)
  BY DEF Accumulators, IsAccumulator
<1>2. /\ IsAccumulator(b)
      /\ \A x \in Ring : Near(RingPhase(b)[x],
              (IF k = 1 THEN Turn(ph, s, x) ELSE ph[x]) + e[x], 0)
  BY <1>1, StepPhase
<1>3. b \in Accumulators
  <2>1. \E u, v : b = <<u, v>>
    BY DEF StepTwo
  <2> HIDE DEF b
  <2>2. QED
    BY <1>2, <2>1 DEF IsAccumulator, Accumulators
<1>4. /\ k \in {0, 1} /\ r \in Int /\ s \in Int /\ E \in Polynomials /\ e \in Polynomials
      /\ ph \in Polynomials
  BY <1>1, KeysAre, RingIs, StepErrorIs DEF Levels
<1>5. G = RingSum(F, e)
  BY DEF NextError
<1>6. /\ F \in Polynomials
      /\ \A x \in Ring : (IF k = 1 THEN Turn(E, s, x) ELSE E[x]) \in Int
                         /\ Near(F[x], IF k = 1 THEN Turn(E, s, x) ELSE E[x], 0)
  <2>1. CASE k = 1
    BY <1>4, <2>1, TurnedIs
  <2>2. CASE k # 1
    <3>1. \A x \in Ring : E[x] \in Int /\ Near(E[x], E[x], 0)
      BY <1>4, NearSelf DEF Polynomials
    <3>2. QED
      BY <1>4, <2>2, <3>1
  <2>3. QED
    BY <2>1, <2>2
<1> HIDE DEF b, k, e, F, G
<1>7. RingPhase(b) \in Polynomials
  <2>1. RingKey \in Polynomials
    BY KeysAre
  <2>2. Product(RingKey, b[1]) \in Polynomials
    BY <1>2, <2>1, ProductIs DEF IsAccumulator
  <2>3. QED
    BY <1>2, <2>2, PolynomialsHave DEF RingPhase, IsAccumulator
<1>8. /\ G \in Polynomials
      /\ \A x \in Ring : Near(G[x], (IF k = 1 THEN Turn(E, s, x) ELSE E[x]) + e[x], 0)
  <2>1. Alike(G, Added(F, e), 0) /\ \A x \in Ring : Added(F, e)[x] = F[x] + e[x] /\ e[x] \in Int
    BY <1>4, <1>5, <1>6, RingOperations, PolynomialsHave
  <2>2. ASSUME NEW x \in Ring
        PROVE  Near(G[x], (IF k = 1 THEN Turn(E, s, x) ELSE E[x]) + e[x], 0)
    <3> DEFINE t == IF k = 1 THEN Turn(E, s, x) ELSE E[x]
    <3>1. Near(F[x], t, 0)
      BY <1>6
    <3> HIDE DEF t
    <3>2. Near(e[x], e[x], 0)
      BY <2>1, NearSelf
    <3>3. Near(F[x] + e[x], t + e[x], 0 + 0)
      BY <3>1, <3>2, NearSum
    <3>4. Near(G[x], F[x] + e[x], 0)
      BY <2>1 DEF Alike
    <3>5. Near(G[x], t + e[x], 0 + (0 + 0))
      BY <3>3, <3>4, NearThrough
    <3>6. QED
      BY <3>5 DEF t
  <2>3. QED
    BY <2>1, <2>2 DEF Alike
<1>9. ASSUME NEW x \in Ring
      PROVE  Near(RingPhase(b)[x], Level(x - 1 - (r + k * s)) + G[x], 0)
  <2> DEFINE u == IF k = 1 THEN Turn(ph, s, x) ELSE ph[x]
             t == IF k = 1 THEN Turn(E, s, x) ELSE E[x]
             v == Level(x - 1 - (r + k * s))
  <2>1. Near(u, v + t, 0)
    <3>1. CASE k = 1
      <4>1. Near(Turn(ph, s, x), Level(x - 1 - (r + s)) + Turn(E, s, x), 0)
        BY TurnLevels
      <4>2. k * s = s
        BY <1>4, <3>1
      <4>3. QED
        BY <3>1, <4>1, <4>2
    <3>2. CASE k = 0
      <4>1. Near(ph[x], Level(x - 1 - r) + E[x], 0)
        BY DEF Levels
      <4>2. r + k * s = r
        BY <1>4, <3>2
      <4>3. QED
        BY <3>2, <4>1, <4>2
    <3>3. QED
      BY <1>4, <3>1, <3>2
  <2>2. t \in Int /\ e[x] \in Int /\ v \in Int
    <3>1. x - 1 - (r + k * s) \in Int
      <4>1. x \in Int
        BY RingIs
      <4>2. k * s \in Int
        BY <1>4
      <4>3. QED
        BY <1>4, <4>1, <4>2
    <3>2. v \in Int
      BY <3>1, LevelIs
    <3>3. QED
      BY <1>4, <1>6, <3>2 DEF Polynomials
  <2>3. Near(RingPhase(b)[x], u + e[x], 0)
    BY <1>2
  <2>4. Near(G[x], t + e[x], 0)
    BY <1>8
  <2> HIDE DEF u, t, v
  <2>5. Near(e[x], e[x], 0) /\ Near(v, v, 0)
    BY <2>2, NearSelf
  <2>6. Near(u + e[x], (v + t) + e[x], 0 + 0)
    BY <2>1, <2>5, NearSum
  <2>7. Near(t + e[x], G[x], 0)
    BY <2>4, NearSymmetric
  <2>8. Near(v + (t + e[x]), v + G[x], 0 + 0)
    BY <2>5, <2>7, NearSum
  <2>9. (v + t) + e[x] = v + (t + e[x])
    BY <2>2
  <2>10. Near(u + e[x], v + G[x], (0 + 0) + (0 + 0))
    BY <2>6, <2>8, <2>9, NearThrough
  <2>11. Near(RingPhase(b)[x], v + G[x], 0 + ((0 + 0) + (0 + 0)))
    BY <2>3, <2>10, NearThrough
  <2>12. QED
    BY <2>11 DEF v
<1>10. r + k * s \in Int
  BY <1>4
<1>11. Levels(RingPhase(b), r + k * s, G)
  BY <1>7, <1>8, <1>9, <1>10 DEF Levels
<1>12. QED
  BY <1>3, <1>11 DEF b, k, G

(* The turns of the bits of the key.                                        *)
Turns(s) == [i \in 1 .. LweSize |-> LweKey[i] * torus_modulus_switch_log(s.a[i])]
RotatedBy(s, m) == (2 * RingSize - torus_modulus_switch_log(s.b)) + Total(Turns(s), m)

\* The powers of X that the elements of a sample are rounded to.
LEMMA TurnsAre ==
  ASSUME NEW s, IsSample(s, LweSize)
  PROVE  /\ Addends(Turns(s), LweSize)
         /\ \A i \in 1 .. LweSize :
               /\ Turns(s)[i] = LweKey[i] * torus_modulus_switch_log(s.a[i])
               /\ s.a[i] \in Int
               /\ torus_modulus_switch_log(s.a[i]) \in 0 .. (2 * RingSize - 1)
         /\ torus_modulus_switch_log(s.b) \in 0 .. (2 * RingSize - 1)
<1>1. ASSUME NEW i \in 1 .. LweSize
      PROVE  /\ Turns(s)[i] = LweKey[i] * torus_modulus_switch_log(s.a[i])
             /\ Turns(s)[i] \in Int /\ s.a[i] \in Int
             /\ torus_modulus_switch_log(s.a[i]) \in 0 .. (2 * RingSize - 1)
  <2> DEFINE t == torus_modulus_switch_log(s.a[i])
  <2>1. s.a[i] \in Int
    BY DEF IsSample
  <2>2. t \in 0 .. (2 * RingSize - 1)
    BY <2>1, SwitchIs
  <2>3. LweKey[i] \in {0, 1}
    BY KeysAre DEF Lwe
  <2>4. Turns(s)[i] = LweKey[i] * t
    BY DEF Turns
  <2> HIDE DEF t
  <2>5. t \in Int
    BY <2>2
  <2>6. QED
    BY <2>1, <2>2, <2>3, <2>4, <2>5 DEF t
<1>2. Addends(Turns(s), LweSize)
  BY <1>1, Parameters DEF Addends
<1>3. torus_modulus_switch_log(s.b) \in 0 .. (2 * RingSize - 1)
  BY SwitchIs DEF IsSample
<1>4. QED
  BY <1>1, <1>2, <1>3

(* The accumulators that the loop over the bits of the key goes through.    *)
After(s, m) == IF m = 0 THEN FirstAccumulator(s.b) ELSE accumulators(s)[m]

\* Each one comes from the one before it by a step.
LEMMA AccumulatorsAre ==
  ASSUME NEW s, IsSample(s, LweSize)
  PROVE  /\ \A m \in 0 .. LweSize : After(s, m) \in Accumulators
         /\ \A i \in 1 .. LweSize :
              After(s, i) = StepTwo(After(s, i - 1),
                                    StepOne(After(s, i - 1), torus_modulus_switch_log(s.a[i]), i))
<1> DEFINE V == Accumulators
           n == LweSize
           turn(i) == torus_modulus_switch_log(s.a[i])
           next(i, a) == StepTwo(a, StepOne(a, turn(i), i))
           start == FirstAccumulator(s.b)
           first == next(1, start)
           step == [z \in (2 .. n) \X V |-> next(z[1], z[2])]
<1>1. n \in Nat \ {0} /\ Lwe = 1 .. n
  BY Parameters DEF Lwe
<1>2. \A i \in 1 .. n : turn(i) \in 0 .. (2 * RingSize - 1)
  BY TurnsAre
<1>3. start \in V
  BY FirstIs DEF IsSample
<1> HIDE DEF start
<1>5. ASSUME NEW i \in 1 .. n, NEW a \in V PROVE next(i, a) \in V
  <2>1. IsAccumulator(a)
    BY DEF IsAccumulator, Accumulators
  <2>2. IsAccumulator(next(i, a))
    BY <1>1, <1>2, <2>1, StepPhase
  <2>3. \E u, v : next(i, a) = <<u, v>>
    BY DEF StepTwo
  <2> DEFINE b == next(i, a)
  <2> HIDE DEF b
  <2>4. IsAccumulator(b) /\ \E u, v : b = <<u, v>>
    BY <2>2, <2>3 DEF b
  <2>5. b \in V
    BY <2>4 DEF IsAccumulator, Accumulators
  <2>6. QED
    BY <2>5 DEF b
<1> HIDE DEF next, V
<1>6. first \in V
  BY <1>1, <1>3, <1>5
<1>7. \A i \in 2 .. n, a \in V : step[<<i, a>>] = next(i, a) /\ step[<<i, a>>] \in V
  BY <1>1, <1>5
<1> HIDE DEF step, first
<1>8. StaysWithin(V, first, step, 1, n)
  BY <1>1, <1>6, <1>7 DEF StaysWithin
<1>9. PICK g \in [1 .. n -> V] :
         \A i \in 1 .. n : g[i] = IF i = 1 THEN first ELSE step[<<i, g[i - 1]>>]
  BY <1>8, Recursion
<1>10. \A i \in 1 .. n : g[i] = IF i = 1 THEN first ELSE next(i, g[i - 1])
  <2>1. SUFFICES ASSUME NEW i \in 1 .. n, i # 1 PROVE g[i] = next(i, g[i - 1])
    BY <1>9
  <2>2. i \in 2 .. n /\ i - 1 \in 1 .. n
    BY <1>1, <2>1
  <2>3. g[i - 1] \in V /\ g[i] = step[<<i, g[i - 1]>>]
    BY <1>9, <2>1, <2>2
  <2>4. QED
    BY <1>7, <2>2, <2>3
<1>11. g = [i \in Lwe |-> IF i = 1 THEN first ELSE next(i, g[i - 1])]
  BY <1>1, <1>9, <1>10
<1> DEFINE Loop == CHOOSE acc : acc = [i \in Lwe |-> IF i = 1 THEN first ELSE next(i, acc[i - 1])]
<1>12. Loop = [i \in Lwe |-> IF i = 1 THEN first ELSE next(i, Loop[i - 1])]
  BY <1>11
<1>13. accumulators(s) = Loop
  BY DEF accumulators, UniqueStepOne, UniqueStepTwo, first, next, start
<1> HIDE DEF Loop
<1>14. \A i \in 1 .. n : Loop[i] = IF i = 1 THEN first ELSE next(i, Loop[i - 1])
  BY <1>1, <1>12
<1> DEFINE S == {m \in Nat : m + 1 <= n => Loop[m + 1] \in V}
<1>15. 0 \in S
  <2>1. 0 + 1 = 1 /\ Loop[1] = first
    BY <1>1, <1>14
  <2>2. QED
    BY <1>6, <2>1
<1>16. ASSUME NEW m \in Nat, m \in S PROVE m + 1 \in S
  <2> DEFINE i == m + 1
  <2>1. SUFFICES ASSUME i + 1 <= n PROVE Loop[i + 1] \in V
    OBVIOUS
  <2>2. i \in Nat /\ i \in 1 .. n /\ i + 1 \in 1 .. n /\ i + 1 # 1 /\ (i + 1) - 1 = i
    BY <1>1, <2>1
  <2>3. Loop[i] \in V
    BY <1>16, <2>2
  <2> HIDE DEF i
  <2>4. Loop[i + 1] = next(i + 1, Loop[i])
    BY <1>14, <2>2
  <2>5. QED
    BY <1>5, <2>2, <2>3, <2>4
<1> HIDE DEF S
<1>17. Nat \subseteq S
  BY <1>15, <1>16, Induction
<1>18. ASSUME NEW i \in 1 .. n PROVE Loop[i] \in V
  <2>1. i - 1 \in S /\ (i - 1) + 1 = i /\ i <= n
    BY <1>1, <1>17
  <2>2. QED
    BY <2>1 DEF S
<1>19. ASSUME NEW m \in 0 .. n PROVE After(s, m) \in V /\ (m # 0 => After(s, m) = Loop[m])
  BY <1>1, <1>3, <1>13, <1>18 DEF After, start
<1>20. ASSUME NEW i \in 1 .. n PROVE After(s, i) = next(i, After(s, i - 1))
  <2>1. i \in 0 .. n /\ i # 0 /\ i - 1 \in 0 .. n
    BY <1>1
  <2>2. After(s, i) = IF i = 1 THEN first ELSE next(i, Loop[i - 1])
    BY <1>14, <1>19, <2>1
  <2>3. CASE i = 1
    <3>1. After(s, i - 1) = start
      BY <2>3 DEF After, start
    <3>2. QED
      BY <2>2, <2>3, <3>1 DEF first
  <2>4. CASE i # 1
    <3>1. i - 1 # 0
      BY <1>1, <2>4
    <3>2. After(s, i - 1) = Loop[i - 1]
      BY <1>19, <2>1, <3>1
    <3>3. QED
      BY <2>2, <2>4, <3>2
  <2>5. QED
    BY <2>3, <2>4
<1>21. QED
  BY <1>19, <1>20 DEF V, next

(* The errors that the loop goes through are f.                             *)
AreErrors(s, f) ==
  /\ f \in [0 .. LweSize -> Polynomials] /\ f[0] = RingZero
  /\ \A i \in 1 .. LweSize :
        f[i] = NextError(After(s, i - 1), f[i - 1], torus_modulus_switch_log(s.a[i]), i)

\* The loop of the errors is well defined.
LEMMA ErrorsAre ==
  ASSUME NEW s, IsSample(s, LweSize)
  PROVE  \E f : AreErrors(s, f) /\ RotationError(s) = f[LweSize]
<1> DEFINE V == Polynomials
           n == LweSize
           turn(i) == torus_modulus_switch_log(s.a[i])
           before(i) == IF i = 1 THEN FirstAccumulator(s.b) ELSE accumulators(s)[i - 1]
           next(i, E) == RingSum(IF LweKey[i] = 1 THEN Turned(E, turn(i)) ELSE E,
                                 StepError(before(i), turn(i), i))
           step == [z \in (1 .. n) \X V |-> next(z[1], z[2])]
<1>1. n \in Nat \ {0} /\ Lwe = 1 .. n
  BY Parameters DEF Lwe
<1>2. ASSUME NEW i \in 1 .. n
      PROVE  /\ i \in Lwe /\ i - 1 \in 0 .. n /\ i # 0
             /\ turn(i) \in 0 .. (2 * RingSize - 1)
             /\ before(i) = After(s, i - 1) /\ IsAccumulator(before(i))
  <2>1. i \in Lwe /\ i - 1 \in 0 .. n /\ i # 0 /\ (i = 1 <=> i - 1 = 0)
    BY <1>1
  <2>2. before(i) = After(s, i - 1)
    BY <2>1 DEF After
  <2>3. After(s, i - 1) \in Accumulators
    BY <2>1, AccumulatorsAre
  <2> HIDE DEF before
  <2>4. IsAccumulator(before(i))
    BY <2>2, <2>3 DEF IsAccumulator, Accumulators
  <2>5. QED
    BY <2>1, <2>2, <2>4, TurnsAre
<1>3. ASSUME NEW i \in 1 .. n, NEW E
      PROVE  next(i, E) = NextError(After(s, i - 1), E, turn(i), i)
  <2>1. before(i) = After(s, i - 1)
    BY <1>2
  <2> HIDE DEF before, turn
  <2>2. QED
    BY <2>1 DEF NextError
<1>4. ASSUME NEW i \in 1 .. n, NEW E \in V PROVE next(i, E) \in V
  <2> DEFINE F == IF LweKey[i] = 1 THEN Turned(E, turn(i)) ELSE E
             e == StepError(before(i), turn(i), i)
  <2>1. e \in V
    <3> HIDE DEF before, turn
    <3>1. QED
      BY <1>2, StepErrorIs
  <2>2. F \in V
    <3> HIDE DEF turn
    <3>1. QED
      BY <1>2, TurnedIs
  <2>3. next(i, E) = RingSum(F, e)
    OBVIOUS
  <2> HIDE DEF F, e, next
  <2>4. QED
    BY <2>1, <2>2, <2>3, RingOperations DEF Alike
<1> HIDE DEF next
<1>5. RingZero \in V
  BY ZeroIs
<1> HIDE DEF V
<1>6. \A i \in 1 .. n, E \in V : step[<<i, E>>] = next(i, E) /\ step[<<i, E>>] \in V
  BY <1>4
<1> HIDE DEF step
<1>7. StaysWithin(V, RingZero, step, 0, n)
  <2>1. \A i \in (0 + 1) .. n : i \in 1 .. n
    OBVIOUS
  <2>2. QED
    BY <1>1, <1>5, <1>6, <2>1 DEF StaysWithin
<1>8. PICK g \in [0 .. n -> V] :
         \A i \in 0 .. n : g[i] = IF i = 0 THEN RingZero ELSE step[<<i, g[i - 1]>>]
  BY <1>7, Recursion
<1>9. \A i \in 0 .. n : g[i] = IF i = 0 THEN RingZero ELSE next(i, g[i - 1])
  <2>1. SUFFICES ASSUME NEW i \in 0 .. n, i # 0 PROVE g[i] = next(i, g[i - 1])
    BY <1>8
  <2>2. i \in 1 .. n /\ i - 1 \in 0 .. n
    BY <1>1, <2>1
  <2>3. g[i - 1] \in V /\ g[i] = step[<<i, g[i - 1]>>]
    BY <1>8, <2>1, <2>2
  <2>4. QED
    BY <1>6, <2>2, <2>3
<1>10. g = [i \in 0 .. n |-> IF i = 0 THEN RingZero ELSE next(i, g[i - 1])]
  BY <1>8, <1>9
<1> DEFINE Loop == CHOOSE E : E = [i \in 0 .. n |-> IF i = 0 THEN RingZero ELSE next(i, E[i - 1])]
<1>11. Loop = [i \in 0 .. n |-> IF i = 0 THEN RingZero ELSE next(i, Loop[i - 1])]
  BY <1>10
<1>12. RotationError(s) = Loop[n]
  BY DEF RotationError, next, before, turn
<1> HIDE DEF Loop
<1>13. /\ \A i \in 0 .. n : Loop[i] = IF i = 0 THEN RingZero ELSE next(i, Loop[i - 1])
       /\ Loop = [i \in 0 .. n |-> Loop[i]]
  <2> DEFINE f == [i \in 0 .. n |-> IF i = 0 THEN RingZero ELSE next(i, Loop[i - 1])]
  <2>1. Loop = f /\ f = [i \in 0 .. n |-> f[i]]
    BY <1>11
  <2>2. QED
    BY <2>1
<1> DEFINE S == {m \in Nat : m <= n => Loop[m] \in V}
<1>14. 0 \in S
  <2>1. 0 \in 0 .. n
    BY <1>1
  <2>2. Loop[0] = RingZero
    BY <1>13, <2>1
  <2>3. QED
    BY <1>5, <2>2
<1>15. ASSUME NEW m \in Nat, m \in S PROVE m + 1 \in S
  <2>1. SUFFICES ASSUME m + 1 <= n PROVE Loop[m + 1] \in V
    OBVIOUS
  <2>2. m + 1 \in 1 .. n /\ m + 1 \in 0 .. n /\ m + 1 # 0 /\ (m + 1) - 1 = m /\ m <= n
    BY <1>1, <2>1
  <2>3. Loop[m] \in V /\ Loop[m + 1] = next(m + 1, Loop[m])
    BY <1>13, <1>15, <2>2
  <2>4. QED
    BY <1>4, <2>2, <2>3
<1> HIDE DEF S
<1>16. Nat \subseteq S
  BY <1>14, <1>15, Induction
<1>17. \A m \in 0 .. n : Loop[m] \in V
  <2>1. \A m \in 0 .. n : m \in S /\ m <= n
    BY <1>1, <1>16
  <2>2. QED
    BY <2>1 DEF S
<1>18. Loop \in [0 .. n -> V] /\ Loop[0] = RingZero
  BY <1>1, <1>13, <1>17
<1>19. \A i \in 1 .. n : Loop[i] = NextError(After(s, i - 1), Loop[i - 1], turn(i), i)
  <2>1. SUFFICES ASSUME NEW i \in 1 .. n
                 PROVE  Loop[i] = NextError(After(s, i - 1), Loop[i - 1], turn(i), i)
    OBVIOUS
  <2>2. i \in 0 .. n /\ i # 0
    BY <1>1
  <2>3. Loop[i] = next(i, Loop[i - 1])
    BY <1>13, <2>2
  <2>4. QED
    BY <1>3, <2>3
<1>20. AreErrors(s, Loop)
  BY <1>18, <1>19 DEF AreErrors, V, turn
<1>21. QED
  BY <1>12, <1>20

\* The loop turns the constant polynomial by the rounded sample and leaves,
\* beside it, the error that was worked out.
LEMMA RotationIs ==
  ASSUME NEW s, IsSample(s, LweSize)
  PROVE  /\ accumulators(s)[LweSize] \in Accumulators
         /\ Levels(RingPhase(accumulators(s)[LweSize]), RotatedBy(s, LweSize), RotationError(s))
<1> DEFINE n == LweSize
           turn(i) == torus_modulus_switch_log(s.a[i])
<1>1. n \in Nat \ {0} /\ Lwe = 1 .. n
  BY Parameters DEF Lwe
<1>2. PICK f : AreErrors(s, f) /\ RotationError(s) = f[n]
  BY ErrorsAre
<1>3. /\ \A m \in Nat : m + 1 <= n => Total(Turns(s), m) \in Int
      /\ \A m \in Nat : m + 1 <= n => /\ Total(Turns(s), m + 1) = Total(Turns(s), m) + Turns(s)[m + 1]
                                      /\ Turns(s)[m + 1] = LweKey[m + 1] * turn(m + 1)
      /\ Total(Turns(s), 0) = 0
  <2>1. Addends(Turns(s), n)
    BY TurnsAre
  <2>2. \A m \in Nat : m + 1 <= n => m + 1 \in 1 .. n
    BY <1>1
  <2>3. \A m \in Nat : m + 1 <= n => Turns(s)[m + 1] = LweKey[m + 1] * turn(m + 1)
    BY <2>2, TurnsAre
  <2>4. QED
    BY <2>1, <2>3, TotalStep
<1>4. ASSUME NEW m \in Nat, m + 1 <= n
      PROVE  RotatedBy(s, m + 1) = RotatedBy(s, m) + LweKey[m + 1] * turn(m + 1)
  <2> DEFINE c == 2 * RingSize - torus_modulus_switch_log(s.b)
             t == LweKey[m + 1] * turn(m + 1)
  <2>1. c \in Int
    <3>1. torus_modulus_switch_log(s.b) \in Int /\ RingSize \in Int
      BY TurnsAre, RingIs
    <3>2. QED
      BY <3>1
  <2>2. Total(Turns(s), m) \in Int /\ Total(Turns(s), m + 1) = Total(Turns(s), m) + t
    BY <1>3, <1>4
  <2>3. t \in Int
    <3>1. m + 1 \in 1 .. n
      BY <1>1, <1>4
    <3>2. Turns(s)[m + 1] \in Int
      BY <3>1, TurnsAre DEF Addends
    <3>3. QED
      BY <1>3, <1>4, <3>2
  <2>4. RotatedBy(s, m) = c + Total(Turns(s), m) /\ RotatedBy(s, m + 1) = c + Total(Turns(s), m + 1)
    BY DEF RotatedBy
  <2> HIDE DEF c, t
  <2>5. QED
    BY <2>1, <2>2, <2>3, <2>4 DEF t
<1>5. RotatedBy(s, 0) = 2 * RingSize - torus_modulus_switch_log(s.b)
  <2> DEFINE c == 2 * RingSize - torus_modulus_switch_log(s.b)
  <2>1. c \in Int
    <3>1. torus_modulus_switch_log(s.b) \in Int /\ RingSize \in Int
      BY TurnsAre, RingIs
    <3>2. QED
      BY <3>1
  <2>2. RotatedBy(s, 0) = c + Total(Turns(s), 0) /\ Total(Turns(s), 0) = 0
    BY <1>3 DEF RotatedBy
  <2> HIDE DEF c
  <2>3. RotatedBy(s, 0) = c
    BY <2>1, <2>2
  <2>4. QED
    BY <2>3 DEF c
<1>6. ASSUME NEW i \in 1 .. n, Levels(RingPhase(After(s, i - 1)), RotatedBy(s, i - 1), f[i - 1])
      PROVE  Levels(RingPhase(After(s, i)), RotatedBy(s, i - 1) + LweKey[i] * turn(i), f[i])
  <2> DEFINE a == After(s, i - 1)
             E == f[i - 1]
             r == RotatedBy(s, i - 1)
  <2>1. i \in Lwe /\ i - 1 \in 0 .. n
    BY <1>1
  <2>2. a \in Accumulators /\ After(s, i) = StepTwo(a, StepOne(a, turn(i), i))
    BY <2>1, AccumulatorsAre
  <2>3. f[i] = NextError(a, E, turn(i), i)
    BY <1>2 DEF AreErrors
  <2>4. turn(i) \in 0 .. (2 * RingSize - 1)
    BY TurnsAre
  <2>5. Levels(RingPhase(a), r, E)
    BY <1>6
  <2> HIDE DEF a, E, r, turn
  <2>6. Levels(RingPhase(StepTwo(a, StepOne(a, turn(i), i))), r + LweKey[i] * turn(i),
               NextError(a, E, turn(i), i))
    BY <2>1, <2>2, <2>4, <2>5, StepLevels
  <2>7. QED
    BY <2>2, <2>3, <2>6 DEF r
<1> HIDE DEF turn
<1> DEFINE Good(m) == Levels(RingPhase(After(s, m)), RotatedBy(s, m), f[m])
           S == {m \in Nat : m <= n => Good(m)}
<1>7. 0 \in S
  <2>1. Levels(RingPhase(FirstAccumulator(s.b)),
               2 * RingSize - torus_modulus_switch_log(s.b), RingZero)
    BY FirstIs DEF IsSample
  <2>2. After(s, 0) = FirstAccumulator(s.b) /\ f[0] = RingZero
    BY <1>2 DEF After, AreErrors
  <2>3. Good(0)
    BY <1>5, <2>1, <2>2
  <2>4. QED
    BY <2>3
<1>8. ASSUME NEW m \in Nat, m \in S PROVE m + 1 \in S
  <2>1. SUFFICES ASSUME m + 1 <= n PROVE Good(m + 1)
    OBVIOUS
  <2>2. m + 1 \in 1 .. n /\ (m + 1) - 1 = m /\ m <= n
    BY <1>1, <2>1
  <2>3. Good(m)
    BY <1>8, <2>2
  <2>4. Levels(RingPhase(After(s, (m + 1) - 1)), RotatedBy(s, (m + 1) - 1), f[(m + 1) - 1])
    BY <2>2, <2>3
  <2> HIDE DEF Good
  <2>5. Levels(RingPhase(After(s, m + 1)),
               RotatedBy(s, (m + 1) - 1) + LweKey[m + 1] * turn(m + 1), f[m + 1])
    BY <1>6, <2>2, <2>4
  <2>6. RotatedBy(s, m + 1) = RotatedBy(s, (m + 1) - 1) + LweKey[m + 1] * turn(m + 1)
    BY <1>4, <2>1, <2>2
  <2>7. QED
    BY <2>5, <2>6 DEF Good
<1> HIDE DEF S
<1>9. Nat \subseteq S
  BY <1>7, <1>8, Induction
<1>10. Good(n)
  <2>1. n \in S
    BY <1>1, <1>9
  <2>2. QED
    BY <1>1, <2>1 DEF S
<1>11. After(s, n) = accumulators(s)[n] /\ After(s, n) \in Accumulators
  <2>1. n \in 0 .. n /\ n # 0
    BY <1>1
  <2>2. QED
    BY <2>1, AccumulatorsAre DEF After
<1>12. QED
  BY <1>2, <1>10, <1>11

(* The phase of a sample under the ring key.                                *)
Masked(s, key) == [i \in DOMAIN s.a |-> s.a[i] * key[i]]
RingSamplePhase(s) == s.b - Total(Masked(s, RingKey), RingSize)

\* The sample of coefficient 0 has the first coefficient of the phase.
LEMMA ExtractionIs ==
  ASSUME NEW acc \in Accumulators
  PROVE  /\ IsSample(SampleExtraction(acc), RingSize)
         /\ Near(RingSamplePhase(SampleExtraction(acc)), RingPhase(acc)[1], 0)
<1> DEFINE N == RingSize
           S == RingKey
           M == acc[1]
           B == acc[2]
           e == SampleExtraction(acc)
           f == [x \in Ring |-> IF x = 1 THEN M[1] ELSE (-M[N + 2 - x]) % Torus]
           g == Term(S, M, 1)
           h == Masked(e, S)
<1>1. /\ M \in Polynomials /\ B \in Polynomials /\ S \in Polynomials
      /\ N \in Nat \ {0} /\ Ring = 1 .. N /\ 1 \in Ring
  BY KeysAre, RingIs DEF Accumulators
<1>2. \A x \in Ring : M[x] \in Int /\ S[x] \in Int /\ B[x] \in Int
  BY <1>1 DEF Polynomials
<1>3. e.b = B[1] /\ e.a = Tuple([x \in Ring |-> IF x = 1 THEN M[1]
                                     ELSE (-M[RingSize + 2 - x]) % Torus], RingSize)
  BY DEF SampleExtraction
<1>4. ASSUME NEW x \in Ring
      PROVE  f[x] \in Int /\ Near(f[x], Shifted(M, x - 1, 1), 0)
  <2>1. CASE x = 1
    <3>1. Shifted(M, x - 1, 1) = M[1] /\ f[x] = M[1]
      BY <2>1 DEF Shifted
    <3>2. QED
      BY <1>1, <1>2, <3>1, NearSelf
  <2>2. CASE x # 1
    <3> DEFINE m == M[N + 2 - x]
    <3>1. x \in 2 .. N /\ N + 2 - x \in Ring /\ N + 1 - (x - 1) = N + 2 - x /\ 1 <= x - 1
      BY <1>1, <2>2
    <3>2. Shifted(M, x - 1, 1) = -m
      BY <3>1 DEF Shifted
    <3>3. f[x] = (-m) % Torus
      BY <2>2
    <3>4. m \in Int
      BY <1>2, <3>1
    <3> HIDE DEF f, m
    <3>5. -m \in Int
      BY <3>4
    <3>6. Near((-m) % Torus, -m, 0) /\ (-m) % Torus \in Int
      BY <3>5, NearSelf DEF Near
    <3>7. QED
      BY <3>2, <3>3, <3>6
  <2>3. QED
    BY <2>1, <2>2
<1>5. f \in [1 .. N -> Int]
  BY <1>1, <1>4
<1>6. e.a = f
  <2>1. Tuple(f, N) = f
    <3> HIDE DEF f
    <3>1. QED
      BY <1>1, <1>5, TupleIs
  <2>2. QED
    BY <1>3, <2>1
<1> HIDE DEF f, e
<1>7. IsSample(e, N)
  BY <1>1, <1>2, <1>3, <1>5, <1>6 DEF IsSample
<1>8. \A i \in 1 .. N : h[i] = f[i] * S[i] /\ g[i] = S[i] * Shifted(M, i - 1, 1)
  BY <1>1, <1>5, <1>6 DEF Masked, Term
<1> HIDE DEF h, g, S, M, B
<1>9. ASSUME NEW i \in 1 .. N PROVE Near(h[i], g[i], 0)
  <2>1. Near(f[i], Shifted(M, i - 1, 1), 0) /\ f[i] \in Int /\ S[i] \in Int
    BY <1>1, <1>2, <1>4
  <2>2. Near(S[i] * f[i], S[i] * Shifted(M, i - 1, 1), 0)
    BY <2>1, NearTimes
  <2>3. S[i] * f[i] = f[i] * S[i]
    BY <2>1
  <2>4. QED
    BY <1>8, <2>2, <2>3
<1>10. Near(Total(h, N), Total(g, N), N * 0)
  <2>1. Close(h, g, 0, N)
    BY <1>1, <1>9 DEF Close
  <2>2. QED
    BY <2>1, NearTotal
<1>11. Total(g, N) = Product(S, M)[1]
  BY <1>1, ProductIs DEF g
<1>12. N * 0 = 0 /\ B[1] \in Int
  BY <1>1, <1>2
<1>13. Near(B[1], B[1], 0)
  BY <1>12, NearSelf
<1>14. Near(B[1] - Total(h, N), B[1] - Product(S, M)[1], 0 + 0)
  <2>1. Near(Total(h, N), Product(S, M)[1], 0)
    BY <1>10, <1>11, <1>12
  <2>2. QED
    BY <1>13, <2>1, NearDifference
<1>15. RingPhase(acc)[1] = B[1] - Product(S, M)[1]
  <2>1. Product(S, M) \in Polynomials
    BY <1>1, ProductIs
  <2>2. Less(B, Product(S, M))[1] = B[1] - Product(S, M)[1]
    BY <1>1, <2>1, PolynomialsHave
  <2>3. QED
    BY <2>2 DEF RingPhase, B, S, M
<1>16. RingSamplePhase(e) = B[1] - Total(h, N)
  BY <1>3 DEF RingSamplePhase, h, S, B
<1>17. Near(RingSamplePhase(e), RingPhase(acc)[1], 0)
  BY <1>14, <1>15, <1>16
<1>18. QED
  BY <1>7, <1>17 DEF e

(* The phase of a sample under the small key, before it is reduced.         *)
SamplePhase(s) == s.b - Total(Masked(s, LweKey), LweSize)

\* The phase of a sample, reduced or not.
LEMMA PhaseIs ==
  ASSUME NEW s, IsSample(s, LweSize)
  PROVE  /\ Addends(Masked(s, LweKey), LweSize)
         /\ \A i \in 1 .. LweSize : Masked(s, LweKey)[i] = s.a[i] * LweKey[i]
         /\ SamplePhase(s) \in Int
         /\ Near(Phase(s), SamplePhase(s), 0)
         /\ Phase(s) \in 0 .. Torus - 1
<1> DEFINE n == LweSize
           f == Masked(s, LweKey)
           t == Total(f, n)
<1>1. n \in Nat /\ \A i \in 1 .. n : LweKey[i] \in Int /\ s.a[i] \in Int
  BY Parameters, KeysAre DEF Lwe, IsSample
<1>2. f = [i \in 1 .. n |-> s.a[i] * LweKey[i]]
  BY DEF Masked, IsSample
<1>3. \A i \in 1 .. n : f[i] = s.a[i] * LweKey[i] /\ f[i] \in Int
  BY <1>1, <1>2
<1>4. Dot(s.a, LweKey, LweSize) = t % Torus
  BY <1>2 DEF Dot
<1> HIDE DEF f
<1>5. Addends(f, n)
  BY <1>1, <1>3 DEF Addends
<1>6. t \in Int
  BY <1>5, TotalStep
<1>7. s.b \in Int
  BY DEF IsSample
<1> DEFINE d == t % Torus
           p == s.b - d
<1> HIDE DEF t
<1>8. Near(d, t, 0) /\ d \in Int
  BY <1>6, NearSelf DEF Near
<1> HIDE DEF d
<1>9. Near(s.b, s.b, 0)
  BY <1>7, NearSelf
<1>10. Near(p, s.b - t, 0 + 0) /\ p \in Int
  <2>1. Near(s.b - d, s.b - t, 0 + 0)
    BY <1>8, <1>9, NearDifference
  <2>2. p \in Int
    BY <1>7, <1>8
  <2>3. QED
    BY <2>1, <2>2
<1> HIDE DEF p
<1>11. Near(p % Torus, p, 0) /\ p % Torus \in 0 .. Torus - 1
  BY <1>10, NearSelf
<1>12. Near(p % Torus, s.b - t, 0 + (0 + 0))
  BY <1>10, <1>11, NearThrough
<1>13. Phase(s) = p % Torus
  BY <1>4 DEF Phase, p, d
<1>14. SamplePhase(s) = s.b - t
  BY DEF SamplePhase, t, f
<1>15. s.b - t \in Int
  BY <1>6, <1>7
<1>16. QED
  BY <1>3, <1>5, <1>11, <1>12, <1>13, <1>14, <1>15 DEF f

\* What a bootstrapping rounds a phase to.
LEMMA RoundedPhase ==
  ASSUME NEW s, IsSample(s, LweSize)
  PROVE  /\ TurnError(s) \in Int
         /\ \E w \in Int : /\ Level(-RotatedBy(s, LweSize)) = Level(w)
                           /\ Near(Notch * w, Phase(s) + TurnError(s), 0)
<1> DEFINE n == LweSize
           c == torus_modulus_switch_log(s.b)
           U == Turns(s)
           W == Total(U, n)
           w == c - W
           F == Masked(s, LweKey)
           G == [i \in 1 .. n |-> Notch * U[i]]
           R == [i \in Lwe |-> LweKey[i] * Remainder(s.a[i], Notch)]
           H == [i \in 1 .. n |-> F[i] - R[i]]
           rest == Remainder(s.b, Notch)
<1>1. /\ n \in Nat \ {0} /\ Lwe = 1 .. n /\ Notch \in Nat \ {0} /\ c \in Int /\ RingSize \in Int
      /\ s.b \in Int
  BY Parameters, NotchIs, RingIs, TurnsAre DEF IsSample, Lwe
<1>2. /\ Addends(U, n)
      /\ \A i \in 1 .. n : /\ U[i] = LweKey[i] * torus_modulus_switch_log(s.a[i])
                           /\ s.a[i] \in Int /\ torus_modulus_switch_log(s.a[i]) \in Int
  BY TurnsAre
<1>3. W \in Int
  BY <1>2, TotalStep
<1>4. /\ Addends(F, n) /\ \A i \in 1 .. n : F[i] = s.a[i] * LweKey[i]
      /\ SamplePhase(s) = s.b - Total(F, n)
      /\ Near(Phase(s), SamplePhase(s), 0)
  BY PhaseIs DEF SamplePhase
<1>5. Near(Notch * c, s.b - rest, 0) /\ rest \in Int
  BY SwitchIs DEF IsSample
<1>6. RotatedBy(s, n) = (2 * RingSize - c) + W /\ TurnError(s) = Total(R, n) - rest
  BY DEF RotatedBy, TurnError
<1> HIDE DEF c, W, U, F, rest
<1>7. w \in Int /\ -RotatedBy(s, n) = w - 2 * RingSize
  BY <1>1, <1>3, <1>6
<1>8. Level(-RotatedBy(s, n)) = Level(w)
  BY <1>7, LevelIs
<1>9. ASSUME NEW i \in 1 .. n PROVE Near(G[i], H[i], 0) /\ R[i] \in Int /\ H[i] = F[i] - R[i]
  <2> DEFINE t == torus_modulus_switch_log(s.a[i])
             k == LweKey[i]
             b == s.a[i]
             m == Remainder(b, Notch)
  <2>1. Near(Notch * t, b - m, 0) /\ m \in Int
    BY <1>2, SwitchIs
  <2>2. k \in {0, 1} /\ k \in -1 .. 1 /\ k \in Int
    BY KeysAre DEF Lwe
  <2>3. Near(k * (Notch * t), k * (b - m), 1 * 0)
    BY <2>1, <2>2, NearScaled
  <2>4. G[i] = Notch * (k * t) /\ F[i] = b * k /\ R[i] = k * m /\ H[i] = F[i] - R[i]
    BY <1>1, <1>2, <1>4
  <2>5. t \in Int /\ b \in Int
    BY <1>2
  <2> HIDE DEF t, k, b, m, G, H, R
  <2>6. k * (Notch * t) = Notch * (k * t) /\ k * (b - m) = b * k - k * m /\ 1 * 0 = 0
        /\ k * m \in Int
    BY <1>1, <2>1, <2>2, <2>5
  <2>7. QED
    BY <2>3, <2>4, <2>6
<1>10. \A i \in 1 .. n : G[i] = Notch * U[i] + 0 * U[i]
  <2>1. \A i \in 1 .. n : U[i] \in Int
    BY <1>2 DEF Addends
  <2>2. SUFFICES ASSUME NEW i \in 1 .. n PROVE G[i] = Notch * U[i] + 0 * U[i]
    OBVIOUS
  <2>3. G[i] = Notch * U[i]
    OBVIOUS
  <2> DEFINE u == U[i]
  <2>4. u \in Int
    BY <2>1
  <2> HIDE DEF u, G
  <2>5. Notch * u \in Int /\ 0 * u = 0
    BY <1>1, <2>4
  <2>6. QED
    BY <2>3, <2>5 DEF u
<1> HIDE DEF G
<1>11. Total(G, n) = Notch * W
  <2>1. Combines(G, Notch, U, 0, U, n)
    BY <1>1, <1>2, <1>10 DEF Combines
  <2>2. Total(G, n) = Notch * Total(U, n) + 0 * Total(U, n)
    BY <2>1, TotalLinear
  <2>3. Notch * W \in Int /\ 0 * W = 0
    BY <1>1, <1>3
  <2>4. QED
    BY <2>2, <2>3 DEF W
<1> HIDE DEF R, H
<1>12. Addends(R, n) /\ Total(R, n) \in Int /\ Total(F, n) \in Int
  <2>1. Addends(R, n)
    BY <1>1, <1>9 DEF Addends
  <2>2. QED
    BY <1>4, <2>1, TotalStep
<1>13. Total(H, n) = Total(F, n) - Total(R, n)
  <2>1. \A i \in 1 .. n : H[i] = 1 * F[i] + (-1) * R[i]
    BY <1>4, <1>9, <1>12 DEF Addends
  <2>2. Combines(H, 1, F, -1, R, n)
    BY <1>4, <1>12, <2>1 DEF Combines
  <2>3. Total(H, n) = 1 * Total(F, n) + (-1) * Total(R, n)
    BY <2>2, TotalLinear
  <2>4. QED
    BY <1>12, <2>3
<1>14. Near(Notch * W, Total(F, n) - Total(R, n), 0)
  <2>1. Close(G, H, 0, n)
    BY <1>1, <1>9 DEF Close
  <2>2. Near(Total(G, n), Total(H, n), n * 0)
    BY <2>1, NearTotal
  <2>3. n * 0 = 0
    BY <1>1
  <2>4. QED
    BY <1>11, <1>13, <2>2, <2>3
<1>15. Near(Notch * c - Notch * W, (s.b - rest) - (Total(F, n) - Total(R, n)), 0 + 0)
  BY <1>5, <1>14, NearDifference
<1>16. Notch * c - Notch * W = Notch * w
  BY <1>1, <1>3
<1>17. (s.b - rest) - (Total(F, n) - Total(R, n)) = SamplePhase(s) + TurnError(s)
       /\ TurnError(s) \in Int
  BY <1>1, <1>4, <1>5, <1>6, <1>12
<1>18. Near(SamplePhase(s), Phase(s), 0) /\ Near(TurnError(s), TurnError(s), 0)
  BY <1>4, <1>17, NearSymmetric, NearSelf
<1>19. Near(SamplePhase(s) + TurnError(s), Phase(s) + TurnError(s), 0 + 0)
  BY <1>18, NearSum
<1>20. Near(Notch * w, Phase(s) + TurnError(s), (0 + 0) + (0 + 0))
  BY <1>15, <1>16, <1>17, <1>19, NearThrough
<1>21. Near(Notch * w, Phase(s) + TurnError(s), 0)
  BY <1>20
<1>22. QED
  BY <1>7, <1>8, <1>17, <1>21

(* What is within a budget is near zero.                                    *)
LEMMA Budgeted ==
  ASSUME NEW E \in Int, NEW F \in Nat, Distance(E) <= F
  PROVE  Near(E, 0, F)
<1> DEFINE T == Torus
           r == E % T
           q == E \div T
           h == T \div 2
<1>1. T \in Nat \ {0}
  BY TorusIs
<1>2. Distance(E) = IF r < h THEN r ELSE T - r
  BY DEF Distance
<1> HIDE DEF T
<1>3. r \in 0 .. T - 1 /\ q \in Int /\ E = q * T + r
  BY <1>1, RemainderIs
<1> HIDE DEF r, q, h
<1>4. q * T \in Int /\ (q + 1) * T = q * T + T /\ q + 1 \in Int
  BY <1>1, <1>3
<1>5. CASE r < h
  <2>1. E - 0 - q * T \in -F .. F
    BY <1>1, <1>2, <1>3, <1>4, <1>5
  <2>2. QED
    BY <1>3, <2>1 DEF Near, T
<1>6. CASE ~(r < h)
  <2>1. E - 0 - (q + 1) * T \in -F .. F
    BY <1>1, <1>2, <1>3, <1>4, <1>6
  <2>2. QED
    BY <1>4, <2>1 DEF Near, T
<1>7. QED
  BY <1>5, <1>6

\* So a phase that is off by it is off by its budget at most.
LEMMA Absorbed ==
  ASSUME NEW x, NEW c \in Int, NEW E \in Int, NEW F \in Nat,
         Near(x, c + E, 0), Distance(E) <= F
  PROVE  Near(x, c, F)
<1>1. Near(E, 0, F) /\ Near(c, c, 0)
  BY Budgeted, NearSelf
<1>2. Near(c + E, c + 0, 0 + F)
  BY <1>1, NearSum
<1>3. Near(x, c + 0, 0 + (0 + F))
  BY <1>2, NearThrough
<1>4. c + 0 = c /\ 0 + (0 + F) = F
  OBVIOUS
<1>5. QED
  BY <1>3, <1>4

(* A phase that lies on one half of the torus, the half that its bit says,  *)
(* and stays on it whatever the rounding to powers of X adds.               *)
Clear(x, bit) ==
  \E c, e : /\ Near(x, c, e)
            /\ IF bit THEN e + TurnBudget <= c /\ 2 * (c + e + TurnBudget) < Torus
                      ELSE c + e + TurnBudget < 0 /\ 2 * (c - e - TurnBudget) >= -Torus

\* Such a phase is rounded to the level of its bit.
LEMMA ClearLevel ==
  ASSUME NEW x, NEW bit \in BOOLEAN, Clear(x, bit), NEW w \in Int, Near(Notch * w, x, TurnBudget)
  PROVE  Level(w) = Ideal(bit)
<1> DEFINE N == RingSize
           M == 2 * N
           n == Notch
           T == Torus
           E == TurnBudget
<1>1. PICK c, e : /\ Near(x, c, e)
                  /\ IF bit THEN e + E <= c /\ 2 * (c + e + E) < T
                            ELSE c + e + E < 0 /\ 2 * (c - e - E) >= -T
  BY DEF Clear
<1>2. N \in Nat \ {0} /\ n \in Nat \ {0} /\ T = M * n /\ M = 2 * N /\ M \in Nat \ {0}
  BY NotchIs, RingIs
<1>3. Near(n * w, c, E + e)
  BY <1>1, NearThrough
<1> HIDE DEF N, M, n, T, E
<1>4. PICK k \in Int : n * w \in Int /\ c \in Int /\ E + e \in Nat
                       /\ n * w - c - k * T \in -(E + e) .. (E + e)
  BY <1>3 DEF Near, T
<1>5. e \in Nat /\ E \in Nat
  BY <1>1 DEF Near, E
<1> DEFINE v == w - k * M
<1>6. v \in Int /\ k * M \in Int /\ k * T \in Int /\ M * n \in Int
  BY <1>2, <1>4
<1>7. n * v = n * w - k * T
  <2>1. n * (w - k * M) = n * w - n * (k * M)
    BY <1>2, <1>4, <1>6
  <2>2. n * (k * M) = k * (M * n)
    BY <1>2, <1>4
  <2>3. QED
    BY <1>2, <2>1, <2>2
<1>8. Level(v) = Level(w)
  <2>1. w = v + k * M
    BY <1>6
  <2> HIDE DEF v
  <2>2. w % M = v % M
    BY <1>2, <1>6, <2>1, SameRemainder
  <2>3. QED
    BY <2>2 DEF Level, M, N
<1>9. n * v - c \in -(E + e) .. (E + e) /\ n * v \in Int
  BY <1>2, <1>4, <1>6, <1>7
<1>10. 2 * (N * n) = M * n /\ N * n \in Int
  BY <1>2
<1> HIDE DEF v
<1>11. CASE bit
  <2>1. n * v >= 0 /\ 2 * (n * v) < 2 * (N * n)
    BY <1>1, <1>2, <1>4, <1>5, <1>9, <1>10, <1>11
  <2>2. v >= 0
    <3>1. CASE v <= -1
      <4>1. n * v <= n * (-1)
        BY <1>2, <1>6, <3>1
      <4>2. QED
        BY <1>2, <1>9, <2>1, <4>1
    <3>2. QED
      BY <1>6, <3>1
  <2>3. v <= N - 1
    <3>1. CASE v >= N
      <4>1. n * v >= n * N /\ n * N = N * n
        BY <1>2, <1>6, <3>1
      <4>2. QED
        BY <1>9, <1>10, <2>1, <4>1
    <3>2. QED
      BY <1>2, <1>6, <3>1
  <2>4. v \in 0 .. N - 1
    BY <1>6, <2>2, <2>3
  <2>5. Level(v) = Encoded(1, 8)
    BY <2>4, LevelIs DEF N
  <2>6. QED
    BY <1>8, <1>11, <2>5 DEF Ideal
<1>12. CASE ~bit
  <2>1. n * v < 0 /\ 2 * (n * v) >= -(2 * (N * n))
    BY <1>1, <1>2, <1>4, <1>5, <1>9, <1>10, <1>12
  <2>2. v <= -1
    <3>1. CASE v >= 0
      <4>1. n * v >= 0
        BY <1>2, <1>6, <3>1
      <4>2. QED
        BY <1>9, <2>1, <4>1
    <3>2. QED
      BY <1>6, <3>1
  <2>3. v >= -N
    <3>1. CASE v <= -N - 1
      <4>1. n * v <= n * (-N - 1) /\ n * (-N - 1) = -(N * n) - n
        BY <1>2, <1>6, <3>1
      <4>2. QED
        BY <1>2, <1>9, <1>10, <2>1, <4>1
    <3>2. QED
      BY <1>2, <1>6, <3>1
  <2>4. v \in -N .. -1
    BY <1>2, <1>6, <2>2, <2>3
  <2>5. Level(v) = -Encoded(1, 8)
    BY <2>4, LevelIs DEF N
  <2>6. QED
    BY <1>8, <1>12, <2>5 DEF Ideal
<1>13. QED
  BY <1>11, <1>12

\* A bootstrapping gives the bit of its input, with the error of its own
\* steps and none of what the input had.
LEMMA BootstrapOpens ==
  ASSUME NEW s, IsSample(s, LweSize), NEW bit \in BOOLEAN, Clear(Phase(s), bit),
         Distance(TurnError(s)) <= TurnBudget
  PROVE  /\ IsSample(bootstrapping(s), RingSize) /\ BootstrapError(s) \in Int
         /\ Near(RingSamplePhase(bootstrapping(s)), Ideal(bit) + BootstrapError(s), 0)
<1> DEFINE acc == accumulators(s)[LweSize]
<1>1. /\ acc \in Accumulators
      /\ Levels(RingPhase(acc), RotatedBy(s, LweSize), RotationError(s))
      /\ bootstrapping(s) = SampleExtraction(acc)
  BY RotationIs DEF bootstrapping
<1> HIDE DEF acc
<1>2. PICK w \in Int : /\ Level(-RotatedBy(s, LweSize)) = Level(w)
                       /\ Near(Notch * w, Phase(s) + TurnError(s), 0)
  BY RoundedPhase
<1>3. Phase(s) \in Int /\ TurnError(s) \in Int
  <2>1. Phase(s) \in Int
    BY PhaseIs DEF Near
  <2>2. TurnError(s) \in Int
    BY RoundedPhase
  <2>3. QED
    BY <2>1, <2>2
<1>4. Near(Notch * w, Phase(s), TurnBudget)
  <2>1. TurnBudget \in Nat
    BY ParametersFit
  <2>2. QED
    BY <1>2, <1>3, <2>1, Absorbed
<1>5. Level(w) = Ideal(bit)
  BY <1>4, ClearLevel
<1>6. /\ Near(RingPhase(acc)[1], Level(1 - 1 - RotatedBy(s, LweSize)) + RotationError(s)[1], 0)
      /\ RotatedBy(s, LweSize) \in Int /\ RotationError(s)[1] \in Int
  <2>1. 1 \in Ring
    BY RingIs
  <2>2. QED
    BY <1>1, <2>1 DEF Levels, Polynomials
<1>7. 1 - 1 - RotatedBy(s, LweSize) = -RotatedBy(s, LweSize)
  BY <1>6
<1>8. Near(RingPhase(acc)[1], Ideal(bit) + BootstrapError(s), 0)
  BY <1>2, <1>5, <1>6, <1>7 DEF BootstrapError
<1>9. /\ IsSample(bootstrapping(s), RingSize)
      /\ Near(RingSamplePhase(bootstrapping(s)), RingPhase(acc)[1], 0)
  BY <1>1, ExtractionIs
<1>10. Near(RingSamplePhase(bootstrapping(s)), Ideal(bit) + BootstrapError(s), 0 + 0)
  BY <1>8, <1>9, NearThrough
<1>11. BootstrapError(s) \in Int
  BY <1>6 DEF BootstrapError
<1>12. QED
  BY <1>9, <1>10, <1>11

-----------------------------------------------------------------------------
(* The switch back to the small key.                                        *)

(* A body, at 0, and a mask; and its phase.                                 *)
Vectors == [0 .. LweSize -> Int]
MaskedBy(v, key) == [x \in 1 .. LweSize |-> v[x] * key[x]]
VectorPhase(v) == v[0] - Total(MaskedBy(v, LweKey), LweSize)

(* A sum of vectors, and the phases that are added.                         *)
VectorSum(f, n) == [x \in 0 .. LweSize |-> Total(At(f, n, x), n)]
Phases(f, n) == [j \in 1 .. n |-> VectorPhase(f[j])]

\* The places of a vector and its phase are integers.
LEMMA VectorIs ==
  ASSUME NEW v \in Vectors
  PROVE  /\ v[0] \in Int
         /\ Addends(MaskedBy(v, LweKey), LweSize)
         /\ \A x \in 1 .. LweSize : MaskedBy(v, LweKey)[x] = v[x] * LweKey[x]
                                    /\ v[x] \in Int /\ LweKey[x] \in Int
         /\ Total(MaskedBy(v, LweKey), LweSize) \in Int /\ VectorPhase(v) \in Int
<1> DEFINE f == MaskedBy(v, LweKey)
           n == LweSize
<1>1. n \in Nat /\ \A x \in 1 .. n : v[x] \in Int /\ LweKey[x] \in Int /\ f[x] = v[x] * LweKey[x]
  BY Parameters, KeysAre DEF Vectors, Lwe, MaskedBy
<1>2. v[0] \in Int
  BY Parameters DEF Vectors
<1> HIDE DEF f
<1>3. \A x \in 1 .. n : f[x] \in Int
  BY <1>1
<1>4. Addends(f, n)
  BY <1>1, <1>3 DEF Addends
<1>5. Total(f, n) \in Int
  BY <1>4, TotalStep
<1>6. VectorPhase(v) \in Int
  BY <1>2, <1>5 DEF VectorPhase, f
<1>7. QED
  BY <1>1, <1>2, <1>4, <1>5, <1>6 DEF f

\* The phase of a sum is the sum of the phases.
LEMMA VectorPlus ==
  ASSUME NEW u \in Vectors, NEW v \in Vectors, NEW w \in Vectors,
         \A x \in 0 .. LweSize : w[x] = u[x] + v[x]
  PROVE  VectorPhase(w) = VectorPhase(u) + VectorPhase(v)
<1> DEFINE n == LweSize
           F(t) == MaskedBy(t, LweKey)
<1>0. n \in Nat
  BY Parameters
<1>1. \A t \in Vectors : /\ t[0] \in Int /\ Addends(F(t), n) /\ Total(F(t), n) \in Int
                         /\ VectorPhase(t) = t[0] - Total(F(t), n)
                         /\ \A x \in 1 .. n : F(t)[x] = t[x] * LweKey[x]
                                              /\ t[x] \in Int /\ LweKey[x] \in Int
  BY VectorIs DEF VectorPhase
<1> HIDE DEF F
<1>2. ASSUME NEW x \in 1 .. n PROVE F(w)[x] = 1 * F(u)[x] + 1 * F(v)[x]
  <2> DEFINE k == LweKey[x]
             a == u[x]
             b == v[x]
  <2>1. F(w)[x] = w[x] * k /\ F(u)[x] = a * k /\ F(v)[x] = b * k
        /\ a \in Int /\ b \in Int /\ k \in Int
    BY <1>1
  <2>2. w[x] = a + b
    BY <1>0
  <2> HIDE DEF k, a, b
  <2>3. (a + b) * k = a * k + b * k /\ a * k \in Int /\ b * k \in Int
    BY <2>1
  <2>4. QED
    BY <2>1, <2>2, <2>3
<1>3. Combines(F(w), 1, F(u), 1, F(v), n)
  BY <1>1, <1>2 DEF Combines
<1>4. Total(F(w), n) = 1 * Total(F(u), n) + 1 * Total(F(v), n)
  BY <1>3, TotalLinear
<1>5. w[0] = u[0] + v[0]
  BY <1>0
<1>6. QED
  BY <1>1, <1>4, <1>5

\* The phase of a sum of vectors is the sum of their phases.
LEMMA VectorTotal ==
  ASSUME NEW n \in Nat, NEW f, \A j \in 1 .. n : f[j] \in Vectors
  PROVE  /\ VectorSum(f, n) \in Vectors
         /\ Addends(Phases(f, n), n)
         /\ VectorPhase(VectorSum(f, n)) = Total(Phases(f, n), n)
<1> DEFINE at(x) == At(f, n, x)
           F(m) == [x \in 0 .. LweSize |-> Total(at(x), m)]
           G == Phases(f, n)
<1>1. ASSUME NEW x \in 0 .. LweSize
      PROVE  /\ Total(at(x), 0) = 0
             /\ \A m \in 0 .. n : Total(at(x), m) \in Int
             /\ \A m \in Nat : m + 1 <= n => Total(at(x), m + 1) = Total(at(x), m) + f[m + 1][x]
  <2> DEFINE a == at(x)
  <2>1. \A j \in 1 .. n : a[j] = f[j][x] /\ a[j] \in Int
    BY DEF Vectors, At
  <2> HIDE DEF a
  <2>2. Addends(a, n)
    BY <2>1 DEF Addends
  <2>3. Total(a, 0) = 0 /\ Total(a, n) \in Int
        /\ \A m \in Nat : m + 1 <= n => Total(a, m) \in Int /\ Total(a, m + 1) = Total(a, m) + a[m + 1]
    BY <2>2, TotalStep
  <2>4. \A m \in 0 .. n : m = n \/ m + 1 <= n
    OBVIOUS
  <2>5. \A m \in 0 .. n : Total(a, m) \in Int
    BY <2>3, <2>4
  <2>6. \A m \in Nat : m + 1 <= n => m + 1 \in 1 .. n
    OBVIOUS
  <2>7. QED
    BY <2>1, <2>3, <2>5, <2>6 DEF a
<1> HIDE DEF at
<1>2. ASSUME NEW m \in 0 .. n
      PROVE  F(m) \in Vectors /\ \A x \in 0 .. LweSize : F(m)[x] = Total(at(x), m)
  BY <1>1 DEF Vectors
<1> HIDE DEF F
<1>3. ASSUME NEW j \in 1 .. n PROVE G[j] = VectorPhase(f[j]) /\ G[j] \in Int
  <2>1. VectorPhase(f[j]) \in Int
    BY VectorIs
  <2>2. QED
    BY <2>1 DEF Phases
<1> HIDE DEF G
<1>4. Addends(G, n)
  BY <1>3 DEF Addends
<1> DEFINE S == {m \in Nat : m <= n => VectorPhase(F(m)) = Total(G, m)}
<1>5. 0 \in S
  <2>1. F(0) \in Vectors /\ \A x \in 0 .. LweSize : F(0)[x] = 0
    BY <1>1, <1>2
  <2>2. VectorPhase(F(0)) = VectorPhase(F(0)) + VectorPhase(F(0))
    BY <2>1, VectorPlus
  <2>3. VectorPhase(F(0)) \in Int
    BY <2>1, VectorIs
  <2>4. Total(G, 0) = 0
    BY <1>4, TotalStep
  <2> DEFINE c == VectorPhase(F(0))
  <2> HIDE DEF c
  <2>5. c = c + c /\ c \in Int
    BY <2>2, <2>3 DEF c
  <2>6. c = Total(G, 0)
    BY <2>4, <2>5
  <2>7. QED
    BY <2>6 DEF c
<1>6. ASSUME NEW m \in Nat, m \in S PROVE m + 1 \in S
  <2>1. SUFFICES ASSUME m + 1 <= n
                 PROVE  VectorPhase(F(m + 1)) = Total(G, m + 1)
    OBVIOUS
  <2>2. m \in 0 .. n /\ m + 1 \in 0 .. n /\ m + 1 \in 1 .. n
    BY <2>1
  <2>3. F(m) \in Vectors /\ F(m + 1) \in Vectors /\ f[m + 1] \in Vectors
    BY <1>2, <2>2
  <2>4. \A x \in 0 .. LweSize : F(m + 1)[x] = F(m)[x] + f[m + 1][x]
    BY <1>1, <1>2, <2>1, <2>2
  <2>5. VectorPhase(F(m + 1)) = VectorPhase(F(m)) + VectorPhase(f[m + 1])
    BY <2>3, <2>4, VectorPlus
  <2>6. VectorPhase(F(m)) = Total(G, m)
    BY <1>6, <2>1
  <2>7. Total(G, m + 1) = Total(G, m) + G[m + 1]
    BY <1>4, <2>1, TotalStep
  <2>8. QED
    BY <1>3, <2>2, <2>5, <2>6, <2>7
<1> HIDE DEF S
<1>7. Nat \subseteq S
  BY <1>5, <1>6, Induction
<1>8. VectorPhase(F(n)) = Total(G, n)
  BY <1>7 DEF S
<1>9. F(n) \in Vectors
  BY <1>2
<1>10. VectorSum(f, n) = F(n)
  BY DEF VectorSum, F, at
<1>11. QED
  BY <1>4, <1>8, <1>9, <1>10 DEF G

(* What a digit of the mask takes.                                          *)
TakenVector(s, i, d) == [x \in 0 .. LweSize |-> Taken(s, i, d, x)]
TakenWeight(x, d) == Weight(SwitchBits, d) * SwitchDigit(x, d)
TakenNoise(s, i, d) ==
  LET m == SwitchDigit(s.a[i], d) IN IF m = 0 THEN 0 ELSE SwitchNoise[i][d][m]

\* The switching key, as it was generated.
LEMMA SwitchKeyIs ==
  ASSUME NEW i \in Ring, NEW d \in 1 .. SwitchLength, NEW m \in 1 .. (TwoTo[SwitchBits] - 1)
  PROVE  SwitchKey[i][d][m] = SwitchKeySample(i, d, m)
<1> DEFINE B == TwoTo[SwitchBits] - 1
           f(j, e) == [k \in 1 .. B |-> SwitchKeySample(j, e, k)]
           g(j) == [e \in 1 .. SwitchLength |-> Tuple(f(j, e), B)]
           h == [j \in Ring |-> Tuple(g(j), SwitchLength)]
<1>0. B \in Nat /\ SwitchLength \in Nat /\ RingSize \in Nat
  <2>1. SwitchBits <= TorusBits
    <3>1. SwitchBits * SwitchLength >= SwitchBits * 1
      BY Parameters
    <3>2. QED
      BY <3>1, Parameters
  <2>2. SwitchBits + 0 <= TorusBits
    BY <2>1, Parameters
  <2>3. TwoTo[SwitchBits] \in Nat \ {0}
    BY <2>2, TwoToSum, Parameters
  <2>4. QED
    BY <2>3, Parameters
<1>1. SwitchKey = Tuple(h, RingSize)
  BY DEF SwitchKey
<1> HIDE DEF B
<1>2. Tuple(h, RingSize) = h
  <2>1. h = [j \in 1 .. RingSize |-> h[j]]
    BY DEF Ring
  <2> HIDE DEF h
  <2>2. QED
    BY <1>0, <2>1, TupleWorks
<1>3. Tuple(g(i), SwitchLength) = g(i)
  <2> DEFINE q == g(i)
  <2>1. q = [j \in 1 .. SwitchLength |-> q[j]]
    OBVIOUS
  <2> HIDE DEF q
  <2>2. Tuple(q, SwitchLength) = q
    BY <1>0, <2>1, TupleWorks
  <2>3. QED
    BY <2>2 DEF q
<1>4. Tuple(f(i, d), B) = f(i, d)
  <2> DEFINE q == f(i, d)
  <2>1. q = [j \in 1 .. B |-> q[j]]
    OBVIOUS
  <2> HIDE DEF q
  <2>2. Tuple(q, B) = q
    BY <1>0, <2>1, TupleWorks
  <2>3. QED
    BY <2>2 DEF q
<1>5. SwitchKey[i] = g(i)
  BY <1>1, <1>2, <1>3
<1>6. SwitchKey[i][d] = f(i, d)
  BY <1>4, <1>5
<1>7. QED
  BY <1>6 DEF B

\* A sample of the switching key: a multiple of the bit, with its error.
LEMMA SwitchSampleIs ==
  ASSUME NEW i \in Ring, NEW d \in 1 .. SwitchLength, NEW m \in 1 .. (TwoTo[SwitchBits] - 1),
         NEW v, v = [x \in 0 .. LweSize |-> IF x = 0 THEN SwitchKeySample(i, d, m).b
                                            ELSE SwitchKeySample(i, d, m).a[x]]
  PROVE  /\ v \in Vectors
         /\ Near(VectorPhase(v), RingKey[i] * (Weight(SwitchBits, d) * m) + SwitchNoise[i][d][m], 0)
<1> DEFINE n == LweSize
           mask == SwitchMask[i][d][m]
           z == SwitchNoise[i][d][m]
           W == Weight(SwitchBits, d)
           k == RingKey[i]
           F == [x \in 1 .. n |-> mask[x] * LweKey[x]]
           t == Total(F, n)
           y == (t % Torus) + k * m * W + z
           q == SwitchKeySample(i, d, m)
<1>1. /\ n \in Nat /\ mask \in [1 .. n -> Int] /\ z \in Int
      /\ \A x \in 1 .. n : LweKey[x] \in Int
  <2>1. LweSize \in Nat /\ Lwe = 1 .. LweSize
        /\ \A x \in Lwe : LweKey[x] \in Int
    BY Parameters, KeysAre DEF Lwe
  <2> DEFINE B == 1 .. (TwoTo[SwitchBits] - 1)
             L == 1 .. SwitchLength
  <2>2. /\ SwitchMask \in [Ring -> [L -> [B -> [Lwe -> Int]]]]
        /\ SwitchNoise \in [Ring -> [L -> [B -> Int]]]
    BY KeysAssumption
  <2>3. d \in L /\ m \in B
    OBVIOUS
  <2> HIDE DEF B, L
  <2>4. SwitchMask[i][d][m] \in [Lwe -> Int] /\ SwitchNoise[i][d][m] \in Int
    BY <2>2, <2>3
  <2>5. QED
    BY <2>1, <2>4
<1>2. k \in Int /\ W \in Int /\ m \in Int
  <2>1. k \in Int
    BY KeysAre
  <2>2. W \in Int
    <3>1. d \in 0 .. SwitchLength
      BY Parameters
    <3>2. QED
      BY <3>1, Parameters, WeightIs
  <2>3. m \in Int
    OBVIOUS
  <2>4. QED
    BY <2>1, <2>2, <2>3
<1>3. q.a = mask /\ q.b = y % Torus
  BY DEF SwitchKeySample, Dot
<1> HIDE DEF mask, z, W, k, q
<1>4. \A x \in 1 .. n : F[x] = mask[x] * LweKey[x] /\ F[x] \in Int
  BY <1>1
<1> HIDE DEF F
<1>5. Addends(F, n) /\ t \in Int
  <2>1. Addends(F, n)
    BY <1>1, <1>4 DEF Addends
  <2>2. QED
    BY <2>1, TotalStep
<1> HIDE DEF t
<1> DEFINE r == t % Torus
<1>6. r \in Int /\ Near(r, t, 0)
  BY <1>5, NearSelf DEF Near
<1>7. y = r + k * m * W + z
  OBVIOUS
<1> HIDE DEF r, y
<1>8. k * m * W = k * (W * m) /\ k * (W * m) \in Int /\ z \in Int
  BY <1>1, <1>2
<1> DEFINE c == k * (W * m)
<1>9. c \in Int /\ y = r + (c + z) /\ y \in Int /\ c + z \in Int
  BY <1>6, <1>7, <1>8
<1>10. Near(y % Torus, y, 0) /\ y % Torus \in Int
  BY <1>9, NearSelf DEF Near
<1>11. v \in Vectors /\ v[0] = q.b /\ \A x \in 1 .. n : v[x] = mask[x]
  <2>1. \A x \in 1 .. n : mask[x] \in Int
    BY <1>1
  <2>2. \A x \in 0 .. n : x = 0 \/ x \in 1 .. n
    BY <1>1
  <2>3. q.b \in Int
    BY <1>3, <1>10
  <2>4. v = [x \in 0 .. n |-> IF x = 0 THEN q.b ELSE mask[x]]
    BY <1>3 DEF q
  <2>5. \A x \in 0 .. n : v[x] \in Int
    BY <2>1, <2>2, <2>3, <2>4
  <2>6. v \in Vectors
    BY <2>4, <2>5 DEF Vectors
  <2>7. 0 \in 0 .. n /\ \A x \in 1 .. n : x \in 0 .. n /\ x # 0
    BY <1>1
  <2>8. QED
    BY <2>4, <2>6, <2>7
<1>12. Total(MaskedBy(v, LweKey), n) = t
  <2>1. \A x \in 1 .. n : MaskedBy(v, LweKey)[x] = F[x]
    BY <1>4, <1>11 DEF MaskedBy
  <2>2. QED
    BY <1>5, <2>1, TotalSame DEF t
<1>13. VectorPhase(v) = (y % Torus) - t
  BY <1>3, <1>11, <1>12 DEF VectorPhase
<1> HIDE DEF c
<1>14. Near(y, t + (c + z), 0)
  <2> DEFINE u == c + z
  <2>1. u \in Int /\ y = r + u
    BY <1>9
  <2> HIDE DEF u
  <2>2. Near(u, u, 0)
    BY <2>1, NearSelf
  <2>3. Near(r + u, t + u, 0 + 0)
    BY <1>6, <2>2, NearSum
  <2>4. QED
    BY <2>1, <2>3 DEF u
<1>15. Near(y % Torus, t + (c + z), 0 + 0)
  BY <1>10, <1>14, NearThrough
<1>16. Near(t, t, 0)
  BY <1>5, NearSelf
<1>17. Near((y % Torus) - t, (t + (c + z)) - t, (0 + 0) + 0)
  BY <1>15, <1>16, NearDifference
<1>18. (t + (c + z)) - t = c + z /\ (0 + 0) + 0 = 0
  BY <1>1, <1>5, <1>9
<1>19. Near(VectorPhase(v), c + z, 0)
  BY <1>13, <1>17, <1>18
<1>20. QED
  BY <1>11, <1>19 DEF c, k, W, z

\* A digit of the mask takes its weight times the bit of the ring key, with
\* the error of the sample that is taken.
LEMMA TakenIs ==
  ASSUME NEW s, IsSample(s, RingSize), NEW i \in Ring, NEW d \in 1 .. SwitchLength
  PROVE  /\ TakenVector(s, i, d) \in Vectors
         /\ TakenWeight(s.a[i], d) \in Int /\ TakenNoise(s, i, d) \in Int
         /\ Near(VectorPhase(TakenVector(s, i, d)),
                 RingKey[i] * TakenWeight(s.a[i], d) + TakenNoise(s, i, d), 0)
<1> DEFINE m == SwitchDigit(s.a[i], d)
           v == TakenVector(s, i, d)
           W == Weight(SwitchBits, d)
           B == TwoTo[SwitchBits]
           n == LweSize
           k == RingKey[i]
           z == TakenNoise(s, i, d)
<1>1. s.a[i] \in Int /\ n \in Nat /\ k \in Int
  BY Parameters, KeysAre, RingIs DEF IsSample
<1>2. W \in Nat \ {0} /\ B \in Nat \ {0}
  <2>1. d - 1 \in Nat /\ (d - 1) + 1 <= SwitchLength /\ d \in 0 .. SwitchLength
    BY Parameters
  <2>2. QED
    BY <2>1, Parameters, WeightIs
<1>3. m \in 0 .. B - 1
  <2> DEFINE R == Weight(SwitchBits, SwitchLength)
             y == (s.a[i] + R \div 2) % Torus
             u == y \div W
  <2>1. R \in Nat \ {0}
    <3>1. SwitchLength \in 0 .. SwitchLength
      BY Parameters
    <3>2. QED
      BY <3>1, Parameters, WeightIs
  <2> HIDE DEF R
  <2>2. s.a[i] + R \div 2 \in Int
    BY <1>1, <2>1
  <2>3. y \in Int
    BY <2>2, NearSelf
  <2> HIDE DEF y
  <2>4. u \in Int
    BY <1>2, <2>3, RemainderIs
  <2>5. m = u % B
    BY DEF SwitchDigit, y, R
  <2> HIDE DEF u, B, m
  <2>6. u % B \in 0 .. B - 1
    BY <1>2, <2>4, RemainderIs
  <2>7. QED
    BY <2>5, <2>6
<1>4. TakenWeight(s.a[i], d) = W * m /\ z = IF m = 0 THEN 0 ELSE SwitchNoise[i][d][m]
  BY DEF TakenWeight, TakenNoise
<1>5. ASSUME NEW x \in 0 .. n
      PROVE  v[x] = CASE m = 0 -> 0
                      [] m # 0 /\ x = 0 -> SwitchKey[i][d][m].b
                      [] m # 0 /\ x # 0 -> SwitchKey[i][d][m].a[x]
  BY DEF TakenVector, Taken
<1>6. v = [x \in 0 .. n |-> v[x]]
  BY DEF TakenVector
<1> HIDE DEF v, m, W, B, k, z
<1>7. W * m \in Int /\ m \in Int
  BY <1>2, <1>3
<1>8. CASE m = 0
  <2>1. \A x \in 0 .. n : v[x] = 0
    BY <1>5, <1>8
  <2>2. v \in Vectors
    BY <1>6, <2>1 DEF Vectors
  <2>3. VectorPhase(v) = VectorPhase(v) + VectorPhase(v)
    <3>1. \A x \in 0 .. n : v[x] = v[x] + v[x]
      BY <2>1
    <3>2. QED
      BY <2>2, <3>1, VectorPlus
  <2> DEFINE c == VectorPhase(v)
  <2>4. c \in Int
    BY <2>2, VectorIs
  <2>5. c = c + c
    BY <2>3
  <2> HIDE DEF c
  <2>6. c = 0
    BY <2>4, <2>5
  <2>7. k * (W * m) + z = 0 /\ z = 0
    BY <1>1, <1>2, <1>4, <1>8
  <2>8. Near(0, 0, 0)
    BY NearSelf
  <2>9. QED
    BY <1>4, <1>7, <2>2, <2>6, <2>7, <2>8 DEF c, v, k, z
<1>9. CASE m # 0
  <2>1. m \in 1 .. (TwoTo[SwitchBits] - 1)
    BY <1>3, <1>9 DEF B
  <2>2. SwitchKey[i][d][m] = SwitchKeySample(i, d, m)
    BY <2>1, SwitchKeyIs
  <2>3. \A x \in 0 .. n : v[x] = IF x = 0 THEN SwitchKeySample(i, d, m).b
                                         ELSE SwitchKeySample(i, d, m).a[x]
    BY <1>5, <1>9, <2>2
  <2>4. v = [x \in 0 .. n |-> IF x = 0 THEN SwitchKeySample(i, d, m).b
                                       ELSE SwitchKeySample(i, d, m).a[x]]
    BY <1>6, <2>3
  <2>5. v \in Vectors /\ Near(VectorPhase(v), k * (W * m) + SwitchNoise[i][d][m], 0)
    BY <2>1, <2>4, SwitchSampleIs DEF k, W
  <2>6. z = SwitchNoise[i][d][m] /\ z \in Int
    <3> DEFINE M == 1 .. (TwoTo[SwitchBits] - 1)
               L == 1 .. SwitchLength
    <3>1. SwitchNoise \in [Ring -> [L -> [M -> Int]]]
      BY KeysAssumption
    <3>2. d \in L /\ m \in M
      BY <2>1
    <3> HIDE DEF L, M
    <3>3. SwitchNoise[i][d][m] \in Int
      BY <3>1, <3>2
    <3>4. QED
      BY <1>4, <1>9, <3>3
  <2>7. QED
    BY <1>4, <1>7, <2>5, <2>6 DEF v, k, z
<1>10. QED
  BY <1>8, <1>9

(* What a coefficient of the mask takes, and what all of them take.         *)
TakenNoises(s, i) == [d \in 1 .. SwitchLength |-> TakenNoise(s, i, d)]
SwitchLeft(s, i) ==
  RingKey[i] * Remainder(s.a[i], Weight(SwitchBits, SwitchLength))
    - Total(TakenNoises(s, i), SwitchLength)
TakenRow(s, i) == VectorSum([d \in 1 .. SwitchLength |-> TakenVector(s, i, d)], SwitchLength)
TakenAll(s) == VectorSum([i \in 1 .. RingSize |-> TakenRow(s, i)], RingSize)

\* The digits of a coefficient take it, times the bit of the ring key,
\* but for what no digit holds and the errors of the samples.
LEMMA TakenRowIs ==
  ASSUME NEW s, IsSample(s, RingSize), NEW i \in Ring
  PROVE  /\ TakenRow(s, i) \in Vectors
         /\ SwitchLeft(s, i) \in Int
         /\ Near(VectorPhase(TakenRow(s, i)), RingKey[i] * s.a[i] - SwitchLeft(s, i), 0)
<1> DEFINE l == SwitchLength
           f == [d \in 1 .. l |-> TakenVector(s, i, d)]
           P == Phases(f, l)
           U == [d \in 1 .. l |-> TakenWeight(s.a[i], d)]
           Z == TakenNoises(s, i)
           V == [d \in 1 .. l |-> RingKey[i] * U[d] + Z[d]]
           k == RingKey[i]
           x == s.a[i]
           R == Weight(SwitchBits, l)
           y == (x + R \div 2) % Torus
           rest == Remainder(x, R)
<1>1. /\ l \in Nat \ {0} /\ k \in Int
      /\ x \in Int /\ RingSize \in Nat
      /\ SwitchBits \in Nat \ {0} /\ SwitchBits * l <= TorusBits
  BY Parameters, KeysAre, RingIs DEF IsSample
<1>2. R \in Nat \ {0}
  <2>1. l \in 0 .. l
    BY <1>1
  <2>2. QED
    BY <1>1, <2>1, WeightIs
<1>3. \A d \in 1 .. l : f[d] = TakenVector(s, i, d) /\ f[d] \in Vectors
  BY TakenIs
<1> HIDE DEF f
<1>4. TakenRow(s, i) = VectorSum(f, l)
  BY DEF TakenRow, f
<1>5. /\ VectorSum(f, l) \in Vectors /\ Addends(P, l)
      /\ VectorPhase(VectorSum(f, l)) = Total(P, l)
  BY <1>1, <1>3, VectorTotal
<1>6. ASSUME NEW d \in 1 .. l
      PROVE  U[d] \in Int /\ Z[d] \in Int /\ Near(P[d], V[d], 0) /\ V[d] = k * U[d] + 1 * Z[d]
  <2>1. P[d] = VectorPhase(TakenVector(s, i, d))
    BY <1>3 DEF Phases
  <2>2. V[d] = RingKey[i] * TakenWeight(s.a[i], d) + TakenNoise(s, i, d)
        /\ U[d] = TakenWeight(s.a[i], d) /\ Z[d] = TakenNoise(s, i, d)
    BY DEF TakenNoises
  <2>3. U[d] \in Int /\ Z[d] \in Int /\ Near(P[d], V[d], 0)
    BY <2>1, <2>2, TakenIs
  <2>4. V[d] = k * U[d] + Z[d]
    BY <2>2
  <2> HIDE DEF Z, V, U
  <2>5. 1 * Z[d] = Z[d]
    BY <2>3
  <2>6. QED
    BY <2>3, <2>4, <2>5
<1>8. /\ \A d \in 1 .. l : U[d] = Weight(SwitchBits, d) * ((y \div Weight(SwitchBits, d)) % TwoTo[SwitchBits])
  BY DEF TakenWeight, SwitchDigit
<1> HIDE DEF P, U, V, Z
<1>9. Near(Total(P, l), Total(V, l), 0)
  <2>1. Close(P, V, 0, l)
    BY <1>1, <1>6 DEF Close
  <2>2. Near(Total(P, l), Total(V, l), l * 0) /\ l * 0 = 0
    BY <1>1, <2>1, NearTotal
  <2>3. QED
    BY <2>2
<1>10. Addends(U, l) /\ Addends(Z, l)
  BY <1>1, <1>6 DEF Addends
<1>11. /\ Total(U, l) \in Int /\ Total(Z, l) \in Int
       /\ Total(V, l) = k * Total(U, l) + Total(Z, l)
  <2>1. Combines(V, k, U, 1, Z, l)
    BY <1>1, <1>6, <1>10 DEF Combines
  <2>2. Total(V, l) = k * Total(U, l) + 1 * Total(Z, l)
    BY <2>1, TotalLinear
  <2>3. Total(U, l) \in Int /\ Total(Z, l) \in Int
    BY <1>10, TotalStep
  <2>4. QED
    BY <2>2, <2>3
<1>12. y \in 0 .. Torus - 1 /\ y \in Int /\ Near(y, x + R \div 2 + 0 * R, 0)
  <2> DEFINE w == x + R \div 2
  <2>1. R \div 2 \in Nat
    BY <1>2, RestIs
  <2>2. w \in Int /\ y = w % Torus /\ w = x + R \div 2 + 0 * R
    BY <1>1, <1>2, <2>1
  <2> HIDE DEF w, y
  <2>3. Near(w % Torus, w, 0) /\ w % Torus \in 0 .. Torus - 1
    BY <2>2, NearSelf
  <2>4. QED
    BY <2>2, <2>3 DEF Near
<1> HIDE DEF y, k, x
<1>13. rest \in Int /\ y % R \in 0 .. R - 1 /\ Near(y - (y % R), x + 0 * R - rest, 0)
  <2>1. TwoTo[SwitchBits * l] \in Int /\ Torus = TwoTo[SwitchBits * l] * R
    BY <1>1, LastWeightFits
  <2> DEFINE m == TwoTo[SwitchBits * l]
             z == 0
  <2>2. m \in Int /\ Torus = m * R /\ z \in Int
    BY <2>1
  <2>3. Near(y, x + R \div 2 + z * R, 0)
    BY <1>12
  <2> HIDE DEF m, R, z
  <2>4. Remainder(x, R) \in Int /\ y % R \in 0 .. R - 1
        /\ Near(y - (y % R), x + z * R - Remainder(x, R), 0)
    BY <1>1, <1>2, <1>12, <2>2, <2>3, RoundingIs
  <2>5. QED
    BY <2>4 DEF z
<1>14. Total(U, l) = y - (y % R)
  BY <1>1, <1>8, <1>12, DigitsAre
<1>15. Near(Total(U, l), x - rest, 0)
  <2>1. x + 0 * R - rest = x - rest
    BY <1>1, <1>2, <1>13
  <2>2. QED
    BY <1>13, <1>14, <2>1
<1> HIDE DEF rest
<1>16. Near(k * Total(U, l), k * (x - rest), 0)
  BY <1>1, <1>15, NearTimes
<1>17. Near(Total(Z, l), Total(Z, l), 0)
  BY <1>11, NearSelf
<1>18. Near(k * Total(U, l) + Total(Z, l), k * (x - rest) + Total(Z, l), 0 + 0)
  BY <1>16, <1>17, NearSum
<1>19. Near(Total(P, l), k * (x - rest) + Total(Z, l), 0 + (0 + 0))
  BY <1>9, <1>11, <1>18, NearThrough
<1> DEFINE left == k * rest - Total(Z, l)
<1>20. left \in Int /\ k * (x - rest) + Total(Z, l) = k * x - left
  <2> DEFINE c == Total(Z, l)
  <2>1. c \in Int
    BY <1>11
  <2> HIDE DEF c
  <2>2. k * rest \in Int /\ k * x \in Int /\ k * (x - rest) = k * x - k * rest
    BY <1>1, <1>13
  <2>3. k * rest - c \in Int /\ k * (x - rest) + c = k * x - (k * rest - c)
    BY <2>1, <2>2
  <2>4. QED
    BY <2>3 DEF c
<1>21. SwitchLeft(s, i) = left
  BY DEF SwitchLeft, k, rest, R, Z, x
<1> HIDE DEF left
<1>22. Near(Total(P, l), k * x - left, 0)
  BY <1>19, <1>20
<1>23. QED
  BY <1>4, <1>5, <1>20, <1>21, <1>22 DEF k, x

\* All that is taken.
LEMMA TakenAllIs ==
  ASSUME NEW s, IsSample(s, RingSize)
  PROVE  /\ TakenAll(s) \in Vectors
         /\ SwitchError(s) \in Int
         /\ Near(VectorPhase(TakenAll(s)), Total(Masked(s, RingKey), RingSize) - SwitchError(s), 0)
<1> DEFINE N == RingSize
           f == [i \in 1 .. N |-> TakenRow(s, i)]
           P == Phases(f, N)
           M == Masked(s, RingKey)
           E == [i \in 1 .. N |-> SwitchLeft(s, i)]
           H == [i \in 1 .. N |-> 1 * M[i] + (-1) * E[i]]
<1>1. N \in Nat \ {0} /\ Ring = 1 .. N /\ SwitchLength \in Nat
  BY RingIs, Parameters
<1>2. \A i \in 1 .. N : f[i] = TakenRow(s, i) /\ f[i] \in Vectors
  BY <1>1, TakenRowIs
<1> HIDE DEF f
<1>3. TakenAll(s) = VectorSum(f, N)
  BY DEF TakenAll, f
<1>4. /\ VectorSum(f, N) \in Vectors
      /\ VectorPhase(VectorSum(f, N)) = Total(P, N)
  BY <1>1, <1>2, VectorTotal
<1>5. ASSUME NEW i \in 1 .. N
      PROVE  M[i] \in Int /\ E[i] \in Int /\ Near(P[i], H[i], 0) /\ H[i] = 1 * M[i] + (-1) * E[i]
  <2>1. P[i] = VectorPhase(TakenRow(s, i)) /\ E[i] = SwitchLeft(s, i)
    BY <1>2 DEF Phases
  <2>2. s.a[i] \in Int /\ RingKey[i] \in Int
    BY <1>1, KeysAre DEF IsSample
  <2>3. M[i] = s.a[i] * RingKey[i]
    BY DEF Masked, IsSample
  <2>4. M[i] = RingKey[i] * s.a[i] /\ M[i] \in Int
    BY <2>2, <2>3
  <2>5. SwitchLeft(s, i) \in Int /\ Near(P[i], M[i] - SwitchLeft(s, i), 0)
    BY <1>1, <2>1, <2>4, TakenRowIs
  <2>6. H[i] = 1 * M[i] + (-1) * E[i]
    OBVIOUS
  <2> HIDE DEF M, E, H
  <2>7. E[i] \in Int /\ 1 * M[i] + (-1) * E[i] = M[i] - E[i]
    BY <2>1, <2>4, <2>5
  <2>8. QED
    BY <2>1, <2>4, <2>5, <2>6, <2>7
<1> HIDE DEF P, M, E, H
<1>6. Near(Total(P, N), Total(H, N), 0)
  <2>1. Close(P, H, 0, N)
    BY <1>1, <1>5 DEF Close
  <2>2. Near(Total(P, N), Total(H, N), N * 0) /\ N * 0 = 0
    BY <1>1, <2>1, NearTotal
  <2>3. QED
    BY <2>2
<1>7. Addends(M, N) /\ Addends(E, N)
  BY <1>1, <1>5 DEF Addends
<1>8. /\ Total(M, N) \in Int /\ Total(E, N) \in Int
      /\ Total(H, N) = Total(M, N) - Total(E, N)
  <2>1. Combines(H, 1, M, -1, E, N)
    BY <1>1, <1>5, <1>7 DEF Combines
  <2>2. Total(H, N) = 1 * Total(M, N) + (-1) * Total(E, N)
    BY <2>1, TotalLinear
  <2>3. Total(M, N) \in Int /\ Total(E, N) \in Int
    BY <1>7, TotalStep
  <2>4. QED
    BY <2>2, <2>3
<1>9. SwitchError(s) = Total(E, N)
  <2>1. E = [i \in Ring |-> SwitchLeft(s, i)]
    BY <1>1 DEF E
  <2>2. SwitchError(s) = Total([i \in Ring |-> SwitchLeft(s, i)], N)
    BY DEF SwitchError, SwitchLeft, TakenNoises, TakenNoise
  <2>3. QED
    BY <2>1, <2>2
<1>10. QED
  BY <1>3, <1>4, <1>6, <1>8, <1>9 DEF M

\* Back under the small key a sample has the phase that it had, up to the
\* errors of the key and what no digit holds.
LEMMA SwitchedIs ==
  ASSUME NEW s, IsSample(s, RingSize)
  PROVE  /\ IsSample(key_switching(s), LweSize)
         /\ SwitchError(s) \in Int
         /\ Near(SamplePhase(key_switching(s)), RingSamplePhase(s) + SwitchError(s), 0)
<1> DEFINE N == RingSize
           n == LweSize
           l == SwitchLength
           v == TakenAll(s)
           q == key_switching(s)
           A == [x \in Lwe |-> (-v[x]) % Torus]
           F == MaskedBy(v, LweKey)
           G == Masked(q, LweKey)
           M == Total(Masked(s, RingKey), N)
           E == SwitchError(s)
<1>1. N \in Nat \ {0} /\ Ring = 1 .. N /\ n \in Nat /\ Lwe = 1 .. n /\ s.b \in Int
      /\ \A x \in Lwe : LweKey[x] \in Int /\ x \in 0 .. n
  BY RingIs, Parameters, KeysAre DEF Lwe, IsSample
<1>2. v \in Vectors /\ E \in Int /\ Near(VectorPhase(v), M - E, 0) /\ M \in Int
  <2>1. v \in Vectors /\ E \in Int /\ Near(VectorPhase(v), M - E, 0)
    BY TakenAllIs
  <2>2. Addends(Masked(s, RingKey), N)
    <3> DEFINE f == Masked(s, RingKey)
    <3>1. \A i \in 1 .. N : f[i] = s.a[i] * RingKey[i] /\ s.a[i] \in Int /\ RingKey[i] \in Int
      BY <1>1, KeysAre DEF Masked, IsSample
    <3> HIDE DEF f
    <3>2. \A i \in 1 .. N : f[i] \in Int
      BY <3>1
    <3>3. QED
      BY <1>1, <3>2 DEF Addends, f
  <2>3. M \in Int
    BY <2>2, TotalStep
  <2>4. QED
    BY <2>1, <2>3
<1>3. /\ v[0] \in Int /\ Addends(F, n) /\ Total(F, n) \in Int
      /\ VectorPhase(v) = v[0] - Total(F, n)
      /\ \A x \in 1 .. n : F[x] = v[x] * LweKey[x] /\ v[x] \in Int
  BY <1>2, VectorIs DEF VectorPhase
<1> DEFINE taken(x) == Total([i \in Ring |-> Total([d \in 1 .. l |-> Taken(s, i, d, x)], l)], N)
<1>4. ASSUME NEW x \in 0 .. n PROVE v[x] = taken(x)
  <2>1. ASSUME NEW i \in 1 .. N
        PROVE  TakenRow(s, i)[x] = Total([d \in 1 .. l |-> Taken(s, i, d, x)], l)
    <3> DEFINE f == [d \in 1 .. l |-> TakenVector(s, i, d)]
    <3>1. TakenRow(s, i)[x] = Total(At(f, l, x), l)
      BY DEF TakenRow, VectorSum
    <3>2. At(f, l, x) = [d \in 1 .. l |-> Taken(s, i, d, x)]
      <4>1. \A d \in 1 .. l : f[d][x] = Taken(s, i, d, x)
        BY DEF TakenVector
      <4> HIDE DEF f
      <4>2. QED
        BY <4>1 DEF At
    <3>3. QED
      BY <3>1, <3>2
  <2> DEFINE g == [i \in 1 .. N |-> TakenRow(s, i)]
  <2>2. v[x] = Total(At(g, N, x), N)
    BY DEF TakenAll, VectorSum
  <2>3. At(g, N, x) = [i \in Ring |-> Total([d \in 1 .. l |-> Taken(s, i, d, x)], l)]
    <3>1. \A i \in 1 .. N : g[i][x] = Total([d \in 1 .. l |-> Taken(s, i, d, x)], l)
      BY <2>1
    <3> HIDE DEF g
    <3>2. QED
      BY <1>1, <3>1 DEF At
  <2>4. QED
    BY <2>2, <2>3
<1>5. q.a = Tuple([x \in Lwe |-> (-taken(x)) % Torus], n) /\ q.b = (s.b - taken(0)) % Torus
  BY DEF key_switching
<1> HIDE DEF taken, v, q
<1>6. [x \in Lwe |-> (-taken(x)) % Torus] = A
  BY <1>1, <1>4
<1>7. ASSUME NEW x \in 1 .. n
      PROVE  A[x] \in Int /\ Near(A[x], -v[x], 0)
  <2> DEFINE m == -v[x]
  <2>1. m \in Int
    BY <1>3
  <2>2. A[x] = m % Torus
    BY <1>1
  <2> HIDE DEF m, A
  <2>3. Near(m % Torus, m, 0) /\ m % Torus \in Int
    BY <2>1, NearSelf DEF Near
  <2>4. QED
    BY <2>2, <2>3 DEF m
<1>8. A \in [1 .. n -> Int]
  BY <1>1, <1>7
<1> HIDE DEF A
<1>9. q.a = A
  BY <1>1, <1>5, <1>6, <1>8, TupleIs
<1> DEFINE b == s.b - v[0]
<1>10. q.b = b % Torus /\ b \in Int
  <2>1. 0 \in 0 .. n
    BY <1>1
  <2>2. QED
    BY <1>1, <1>3, <1>4, <1>5, <2>1
<1> HIDE DEF b
<1>11. Near(b % Torus, b, 0) /\ b % Torus \in Int
  BY <1>10, NearSelf DEF Near
<1>12. IsSample(q, n)
  BY <1>8, <1>9, <1>10, <1>11 DEF IsSample
<1>13. ASSUME NEW x \in 1 .. n PROVE G[x] = A[x] * LweKey[x]
  BY <1>8, <1>9 DEF Masked
<1> DEFINE H == [x \in 1 .. n |-> (-1) * F[x] + 0 * F[x]]
<1>14. \A x \in 1 .. n : H[x] = (-1) * F[x] + 0 * F[x]
  OBVIOUS
<1> HIDE DEF F, G, H
<1>15. Addends(H, n) /\ Total(H, n) = (-1) * Total(F, n) + 0 * Total(F, n)
  <2>1. Combines(H, -1, F, 0, F, n)
    BY <1>3, <1>14 DEF Combines
  <2>2. QED
    BY <2>1, TotalLinear
<1>16. ASSUME NEW x \in 1 .. n PROVE Near(G[x], H[x], 0)
  <2> DEFINE k == LweKey[x]
             m == v[x]
             a == A[x]
  <2>1. k \in Int /\ m \in Int /\ a \in Int /\ Near(a, -m, 0)
    BY <1>1, <1>3, <1>7
  <2>2. G[x] = a * k /\ F[x] = m * k
    BY <1>3, <1>13
  <2> HIDE DEF k, m, a
  <2>3. Near(k * a, k * (-m), 0)
    BY <2>1, NearTimes
  <2>4. k * a = a * k /\ k * (-m) = -(m * k) /\ m * k \in Int
    BY <2>1
  <2>5. H[x] = -(m * k)
    BY <1>14, <2>2, <2>4
  <2>6. QED
    BY <2>2, <2>3, <2>4, <2>5
<1>17. Near(Total(G, n), Total(H, n), 0)
  <2>1. Close(G, H, 0, n)
    BY <1>1, <1>16 DEF Close
  <2>2. Near(Total(G, n), Total(H, n), n * 0)
    BY <2>1, NearTotal
  <2>3. n * 0 = 0
    BY <1>1
  <2>4. QED
    BY <2>2, <2>3
<1>18. Near((b % Torus) - Total(G, n), b - Total(H, n), 0 + 0)
  BY <1>11, <1>17, NearDifference
<1>19. b - Total(H, n) = s.b - VectorPhase(v)
  BY <1>1, <1>3, <1>15 DEF b
<1>20. SamplePhase(q) = (b % Torus) - Total(G, n)
  BY <1>10 DEF SamplePhase, G
<1>21. Near(s.b, s.b, 0)
  BY <1>1, NearSelf
<1>22. Near(s.b - VectorPhase(v), s.b - (M - E), 0 + 0)
  BY <1>2, <1>21, NearDifference
<1>23. Near(SamplePhase(q), s.b - (M - E), (0 + 0) + (0 + 0))
  BY <1>18, <1>19, <1>20, <1>22, NearThrough
<1>24. RingSamplePhase(s) = s.b - M
  BY DEF RingSamplePhase, M
<1> HIDE DEF M, E
<1>25. s.b - (M - E) = (s.b - M) + E /\ (0 + 0) + (0 + 0) = 0
  BY <1>1, <1>2
<1>26. QED
  BY <1>2, <1>12, <1>23, <1>24, <1>25 DEF q, E

-----------------------------------------------------------------------------
(* The linear part of the gates.                                            *)

KeyPhase(s, key, n) == s.b - Total(Masked(s, key), n)

\* A combination of samples has the combination of their phases.
LEMMA CombinedIs ==
  ASSUME NEW n \in Nat, NEW key, \A i \in 1 .. n : key[i] \in Int,
         NEW s, IsSample(s, n), NEW t, IsSample(t, n),
         NEW c \in Int, NEW k \in Int, NEW m \in Int
  PROVE  /\ IsSample(Combined(c, k, s, m, t), n)
         /\ Near(KeyPhase(Combined(c, k, s, m, t), key, n),
                 c + k * KeyPhase(s, key, n) + m * KeyPhase(t, key, n), 0)
<1> DEFINE q == Combined(c, k, s, m, t)
           f == [i \in 1 .. n |-> k * s.a[i] + m * t.a[i]]
           A == [i \in 1 .. n |-> f[i] % Torus]
           F == Masked(s, key)
           G == Masked(t, key)
           H == Masked(q, key)
           L == [i \in 1 .. n |-> k * F[i] + m * G[i]]
           b == c + k * s.b + m * t.b
<1>1. /\ s.a \in [1 .. n -> Int] /\ t.a \in [1 .. n -> Int] /\ s.b \in Int /\ t.b \in Int
      /\ \A i \in 1 .. n : s.a[i] \in Int /\ t.a[i] \in Int
  BY DEF IsSample
<1>2. \A i \in 1 .. n : f[i] \in Int /\ f[i] = k * s.a[i] + m * t.a[i]
  BY <1>1
<1>3. ASSUME NEW i \in 1 .. n PROVE A[i] \in Int /\ Near(A[i], f[i], 0)
  <2> DEFINE x == f[i]
  <2>1. x \in Int /\ A[i] = x % Torus
    BY <1>2
  <2> HIDE DEF x, A
  <2>2. Near(x % Torus, x, 0) /\ x % Torus \in Int
    BY <2>1, NearSelf DEF Near
  <2>3. QED
    BY <2>1, <2>2 DEF x
<1>4. A \in [1 .. n -> Int]
  BY <1>3
<1>5. q.a = A /\ q.b = b % Torus
  <2>1. DOMAIN s.a = 1 .. n /\ Len(s.a) = n
    BY <1>1, TupleIs
  <2>2. q.a = Tuple([i \in DOMAIN s.a |-> (k * s.a[i] + m * t.a[i]) % Torus], Len(s.a))
        /\ q.b = b % Torus
    BY DEF Combined
  <2>3. [i \in DOMAIN s.a |-> (k * s.a[i] + m * t.a[i]) % Torus] = A
    BY <2>1
  <2>4. Tuple(A, n) = A
    <3> HIDE DEF A
    <3>1. QED
      BY <1>4, TupleIs
  <2>5. QED
    BY <2>1, <2>2, <2>3, <2>4
<1>6. b \in Int
  BY <1>1
<1>7. /\ \A i \in 1 .. n : F[i] = s.a[i] * key[i] /\ G[i] = t.a[i] * key[i]
                           /\ L[i] = k * F[i] + m * G[i]
  BY <1>1 DEF Masked
<1> HIDE DEF q, f, A, b
<1>8. \A i \in 1 .. n : H[i] = A[i] * key[i]
  BY <1>4, <1>5 DEF Masked
<1> HIDE DEF F, G, H, L
<1>9. Near(b % Torus, b, 0) /\ b % Torus \in Int
  BY <1>6, NearSelf DEF Near
<1>10. IsSample(q, n)
  BY <1>4, <1>5, <1>9 DEF IsSample
<1>11. Addends(F, n) /\ Addends(G, n)
  <2>1. ASSUME NEW i \in 1 .. n PROVE F[i] \in Int /\ G[i] \in Int
    <3> DEFINE x == s.a[i]
               y == t.a[i]
               w == key[i]
    <3>1. x \in Int /\ y \in Int /\ w \in Int /\ F[i] = x * w /\ G[i] = y * w
      BY <1>1, <1>7
    <3> HIDE DEF x, y, w
    <3>2. QED
      BY <3>1
  <2>2. QED
    BY <2>1 DEF Addends
<1>12. Total(L, n) = k * Total(F, n) + m * Total(G, n)
  <2>1. Combines(L, k, F, m, G, n)
    BY <1>7, <1>11 DEF Combines
  <2>2. QED
    BY <2>1, TotalLinear
<1>13. ASSUME NEW i \in 1 .. n PROVE Near(H[i], L[i], 0)
  <2> DEFINE x == s.a[i]
             y == t.a[i]
             w == key[i]
             a == A[i]
  <2>1. x \in Int /\ y \in Int /\ w \in Int /\ a \in Int /\ Near(a, k * x + m * y, 0)
    BY <1>1, <1>2, <1>3
  <2>2. H[i] = a * w /\ L[i] = k * (x * w) + m * (y * w)
    BY <1>7, <1>8
  <2> HIDE DEF x, y, w, a
  <2>3. Near(w * a, w * (k * x + m * y), 0)
    BY <2>1, NearTimes
  <2>4. w * (k * x + m * y) = k * (x * w) + m * (y * w) /\ w * a = a * w
    <3>1. w * (k * x + m * y) = w * (k * x) + w * (m * y)
      BY <2>1
    <3>2. w * (k * x) = k * (x * w) /\ w * (m * y) = m * (y * w)
      BY <2>1
    <3>3. w * a = a * w
      BY <2>1
    <3>4. QED
      BY <3>1, <3>2, <3>3
  <2>5. QED
    BY <2>2, <2>3, <2>4
<1>14. Near(Total(H, n), Total(L, n), 0)
  <2>1. Close(H, L, 0, n)
    BY <1>13 DEF Close
  <2>2. Near(Total(H, n), Total(L, n), n * 0)
    BY <2>1, NearTotal
  <2>3. n * 0 = 0
    OBVIOUS
  <2>4. QED
    BY <2>2, <2>3
<1>15. Near((b % Torus) - Total(H, n), b - Total(L, n), 0 + 0)
  BY <1>9, <1>14, NearDifference
<1>16. b - Total(L, n) = c + k * (s.b - Total(F, n)) + m * (t.b - Total(G, n))
  <2> DEFINE u == Total(F, n)
             v == Total(G, n)
             x == s.b
             y == t.b
  <2>1. u \in Int /\ v \in Int /\ x \in Int /\ y \in Int
    BY <1>1, <1>11, TotalStep
  <2>2. Total(L, n) = k * u + m * v /\ b = c + k * x + m * y
    BY <1>12 DEF b
  <2> HIDE DEF u, v, x, y
  <2>3. /\ k * (x - u) = k * x - k * u /\ m * (y - v) = m * y - m * v
        /\ k * x \in Int /\ k * u \in Int /\ m * y \in Int /\ m * v \in Int
    BY <2>1
  <2>4. b - Total(L, n) = c + k * (x - u) + m * (y - v)
    BY <2>2, <2>3
  <2>5. QED
    BY <2>4 DEF u, v, x, y
<1>17. /\ KeyPhase(q, key, n) = (b % Torus) - Total(H, n)
       /\ KeyPhase(s, key, n) = s.b - Total(F, n)
       /\ KeyPhase(t, key, n) = t.b - Total(G, n)
  BY <1>5 DEF KeyPhase, F, G, H
<1>18. QED
  BY <1>10, <1>15, <1>16, <1>17 DEF q

(* A sample that stands for a bit, with an error of at most e.              *)
Stands(s, key, n, bit, e) ==
  /\ IsSample(s, n) /\ bit \in BOOLEAN
  /\ Near(KeyPhase(s, key, n), Ideal(bit), e)

\* The bits, as numbers.
LEMMA IdealIs ==
  ASSUME NEW bit \in BOOLEAN
  PROVE  /\ Ideal(bit) \in Int
         /\ bit => Ideal(bit) = Encoded(1, 8)
         /\ ~bit => Ideal(bit) = -Encoded(1, 8)
  BY NotchIs DEF Ideal

\* The errors of two samples add up, each as often as it is taken.
LEMMA CombinedStands ==
  ASSUME NEW n \in Nat, NEW key, \A i \in 1 .. n : key[i] \in Int,
         NEW s, NEW t, NEW p, NEW r, NEW e, Stands(s, key, n, p, e), Stands(t, key, n, r, e),
         NEW c \in Int, NEW h \in Nat, NEW k \in -h .. h, NEW m \in -h .. h
  PROVE  /\ IsSample(Combined(c, k, s, m, t), n)
         /\ Near(KeyPhase(Combined(c, k, s, m, t), key, n),
                 c + k * Ideal(p) + m * Ideal(r), h * e + h * e)
<1> DEFINE x == KeyPhase(s, key, n)
           y == KeyPhase(t, key, n)
           q == Combined(c, k, s, m, t)
<1>1. /\ IsSample(s, n) /\ IsSample(t, n) /\ k \in Int /\ m \in Int
      /\ Near(x, Ideal(p), e) /\ Near(y, Ideal(r), e)
  BY DEF Stands
<1>2. /\ IsSample(q, n) /\ Near(KeyPhase(q, key, n), c + k * x + m * y, 0)
  BY <1>1, CombinedIs
<1> HIDE DEF x, y, q
<1>3. Near(k * x, k * Ideal(p), h * e) /\ Near(m * y, m * Ideal(r), h * e)
  BY <1>1, NearScaled
<1>4. Near(c, c, 0)
  BY NearSelf
<1>5. Near(c + k * x, c + k * Ideal(p), 0 + h * e)
  BY <1>3, <1>4, NearSum
<1>6. Near((c + k * x) + m * y, (c + k * Ideal(p)) + m * Ideal(r), (0 + h * e) + h * e)
  BY <1>3, <1>5, NearSum
<1>7. Near(KeyPhase(q, key, n), c + k * Ideal(p) + m * Ideal(r), 0 + ((0 + h * e) + h * e))
  BY <1>2, <1>6, NearThrough
<1>8. 0 + ((0 + h * e) + h * e) = h * e + h * e
  BY <1>3 DEF Near
<1>9. QED
  BY <1>2, <1>7, <1>8 DEF q

\* A whole turn of the torus is nothing.
LEMMA NearTurn ==
  ASSUME NEW x, NEW y, NEW e, Near(x, y, e)
  PROVE  Near(x, y + Torus, e) /\ Near(x, y - Torus, e)
<1>1. PICK k \in Int : x \in Int /\ y \in Int /\ e \in Nat /\ x - y - k * Torus \in -e .. e
  BY DEF Near
<1> DEFINE T == Torus
<1>2. T \in Int /\ (k - 1) * T = k * T - T /\ (k + 1) * T = k * T + T /\ k * T \in Int
      /\ k - 1 \in Int /\ k + 1 \in Int
  BY TorusIs
<1>3. x - y - k * T \in -e .. e
  BY <1>1
<1> HIDE DEF T
<1>4. /\ x - (y + T) - (k - 1) * T \in -e .. e /\ y + T \in Int
      /\ x - (y - T) - (k + 1) * T \in -e .. e /\ y - T \in Int
  BY <1>1, <1>2, <1>3
<1>5. QED
  BY <1>1, <1>2, <1>4 DEF Near, T

(* What the inputs of a gate may be off, and what the rounding may add.     *)
LEMMA NoiseIs ==
  /\ FreshNoise \in Nat /\ TurnBudget \in Nat
  /\ 2 * FreshNoise + TurnBudget < Encoded(1, 8)
  /\ 4 * FreshNoise + TurnBudget < 2 * Encoded(1, 8)
<1>1. Torus \div 8 = Encoded(1, 8)
  <2> DEFINE mu == Encoded(1, 8)
             T == Torus
  <2>1. mu \in Nat /\ T = 8 * mu
    BY NotchIs
  <2> HIDE DEF mu, T
  <2>2. T \div 8 = mu
    BY <2>1
  <2>3. QED
    BY <2>2 DEF mu, T
<1>2. /\ FreshNoise \in Nat /\ TurnBudget \in Nat
      /\ 2 * FreshNoise + TurnBudget < Torus \div 8
  BY ParametersFit
<1>3. Encoded(1, 8) \in Nat
  BY NotchIs
<1>4. 2 * FreshNoise + TurnBudget < Encoded(1, 8)
  BY <1>1, <1>2
<1>5. 4 * FreshNoise + TurnBudget < 2 * Encoded(1, 8)
  BY <1>2, <1>3, <1>4
<1>6. QED
  BY <1>2, <1>4, <1>5

\* The phase of a sample under the small key is the one that Decrypted reads.
LEMMA StandsPhase ==
  ASSUME NEW s, IsSample(s, LweSize), NEW c, NEW e, Near(KeyPhase(s, LweKey, LweSize), c, e)
  PROVE  Near(Phase(s), c, e)
<1>1. KeyPhase(s, LweKey, LweSize) = SamplePhase(s)
  BY DEF KeyPhase, SamplePhase
<1>2. Near(Phase(s), SamplePhase(s), 0)
  BY PhaseIs
<1>3. Near(Phase(s), c, 0 + e)
  BY <1>1, <1>2, NearThrough
<1>4. 0 + e = e
  BY DEF Near
<1>5. QED
  BY <1>3, <1>4

(* A register that is as good as a fresh one.                               *)
Fresh(s, bit) == Stands(s, LweKey, LweSize, bit, FreshNoise)

\* A phase that is an odd multiple of an eighth, and one that is a quarter.
LEMMA EighthIsClear ==
  ASSUME NEW x, NEW bit \in BOOLEAN, NEW j \in {1, 3},
         Near(x, IF bit THEN j * Encoded(1, 8) ELSE -(j * Encoded(1, 8)),
              1 * FreshNoise + 1 * FreshNoise)
  PROVE  Clear(x, bit)
<1> DEFINE mu == Encoded(1, 8)
           T == Torus
           F == FreshNoise
           e == 1 * F + 1 * F
           c == IF bit THEN j * mu ELSE -(j * mu)
           E == TurnBudget
<1>1. /\ mu \in Nat \ {0} /\ T = 8 * mu /\ F \in Nat /\ E \in Nat /\ 2 * F + E < mu
  BY NotchIs, NoiseIs
<1>2. Near(x, c, e)
  OBVIOUS
<1> HIDE DEF mu, T, F, E
<1>3. IF bit THEN e + E <= c /\ 2 * (c + e + E) < T ELSE c + e + E < 0 /\ 2 * (c - e - E) >= -T
  BY <1>1
<1>4. QED
  BY <1>2, <1>3 DEF Clear, T, E

\* A phase that is a quarter, whose inputs were taken twice.
LEMMA QuarterIsClear ==
  ASSUME NEW x, NEW bit \in BOOLEAN,
         Near(x, IF bit THEN 2 * Encoded(1, 8) ELSE -(2 * Encoded(1, 8)),
              2 * FreshNoise + 2 * FreshNoise)
  PROVE  Clear(x, bit)
<1> DEFINE mu == Encoded(1, 8)
           T == Torus
           F == FreshNoise
           e == 2 * F + 2 * F
           c == IF bit THEN 2 * mu ELSE -(2 * mu)
           E == TurnBudget
<1>1. /\ mu \in Nat \ {0} /\ T = 8 * mu /\ F \in Nat /\ E \in Nat /\ 4 * F + E < 2 * mu
  BY NotchIs, NoiseIs
<1>2. Near(x, c, e)
  OBVIOUS
<1> HIDE DEF mu, T, F, E
<1>3. IF bit THEN e + E <= c /\ 2 * (c + e + E) < T ELSE c + e + E < 0 /\ 2 * (c - e - E) >= -T
  BY <1>1
<1>4. QED
  BY <1>2, <1>3 DEF Clear, T, E

\* A bootstrapping and a switch back leave a fresh sample, if the errors they
\* make are within the budgets.
LEMMA GateIsFresh ==
  ASSUME NEW s, IsSample(s, LweSize), NEW bit \in BOOLEAN, Clear(Phase(s), bit), Bearable(s)
  PROVE  Fresh(key_switching(bootstrapping(s)), bit)
<1> DEFINE t == bootstrapping(s)
           q == key_switching(t)
           B == BootstrapError(s)
           S == SwitchError(t)
           c == Ideal(bit)
<1>1. Distance(TurnError(s)) <= TurnBudget /\ Distance(B + S) <= FreshNoise
  BY DEF Bearable
<1>2. IsSample(t, RingSize) /\ B \in Int /\ Near(RingSamplePhase(t), c + B, 0)
  BY <1>1, BootstrapOpens
<1>3. FreshNoise \in Nat /\ c \in Int
  BY NoiseIs, IdealIs
<1> HIDE DEF t, B, c
<1>4. /\ IsSample(q, LweSize) /\ S \in Int
      /\ Near(SamplePhase(q), RingSamplePhase(t) + S, 0)
  BY <1>2, SwitchedIs
<1> HIDE DEF q, S
<1>5. Near(RingSamplePhase(t) + S, (c + B) + S, 0 + 0)
  BY <1>2, <1>4, NearSelf, NearSum
<1>6. Near(SamplePhase(q), (c + B) + S, 0 + (0 + 0))
  BY <1>4, <1>5, NearThrough
<1>7. (c + B) + S = c + (B + S) /\ B + S \in Int
  BY <1>2, <1>3, <1>4
<1>8. Near(SamplePhase(q), c, FreshNoise)
  BY <1>1, <1>3, <1>6, <1>7, Absorbed
<1>9. SamplePhase(q) = KeyPhase(q, LweKey, LweSize)
  BY DEF SamplePhase, KeyPhase
<1>10. QED
  BY <1>4, <1>8, <1>9 DEF Fresh, Stands, q, t, c

\* What a linear part makes of two fresh samples.
LEMMA LinearPart ==
  ASSUME NEW x, NEW y, NEW p, NEW q, Fresh(x, p), Fresh(y, q),
         NEW c \in Int, NEW h \in Nat, NEW k \in -h .. h, NEW m \in -h .. h
  PROVE  /\ IsSample(Combined(c, k, x, m, y), LweSize)
         /\ Near(Phase(Combined(c, k, x, m, y)), c + k * Ideal(p) + m * Ideal(q),
                 h * FreshNoise + h * FreshNoise)
<1> DEFINE s == Combined(c, k, x, m, y)
<1>1. LweSize \in Nat /\ \A i \in 1 .. LweSize : LweKey[i] \in Int
  BY Parameters, KeysAre DEF Lwe
<1>2. Stands(x, LweKey, LweSize, p, FreshNoise) /\ Stands(y, LweKey, LweSize, q, FreshNoise)
  BY DEF Fresh
<1>3. /\ IsSample(s, LweSize)
      /\ Near(KeyPhase(s, LweKey, LweSize), c + k * Ideal(p) + m * Ideal(q),
              h * FreshNoise + h * FreshNoise)
  BY <1>1, <1>2, CombinedStands
<1> HIDE DEF s
<1>4. Near(Phase(s), c + k * Ideal(p) + m * Ideal(q), h * FreshNoise + h * FreshNoise)
  BY <1>3, StandsPhase
<1>5. QED
  BY <1>3, <1>4 DEF s

(* The inputs of a gate, and what its linear part must be.                  *)
Inputs(x, y, p, q) == Fresh(x, p) /\ Fresh(y, q) /\ p \in BOOLEAN /\ q \in BOOLEAN
Decides(s, bit) == IsSample(s, LweSize) /\ Clear(Phase(s), bit)

(* The value of a linear part is an odd multiple of an eighth.              *)
OddEighth(c, k, m, p, q, bit) ==
  \E j \in {1, 3} :
     c + k * Ideal(p) + m * Ideal(q) = IF bit THEN j * Encoded(1, 8) ELSE -(j * Encoded(1, 8))

\* A linear part with weights of one, whose value is an odd multiple of an eighth.
LEMMA EighthDecides ==
  ASSUME NEW x, NEW y, NEW p, NEW q, Inputs(x, y, p, q), NEW bit \in BOOLEAN,
         NEW c \in Int, NEW k \in {-1, 1}, NEW m \in {-1, 1}, OddEighth(c, k, m, p, q, bit)
  PROVE  Decides(Combined(c, k, x, m, y), bit)
<1>0. PICK j \in {1, 3} :
         c + k * Ideal(p) + m * Ideal(q)
           = IF bit THEN j * Encoded(1, 8) ELSE -(j * Encoded(1, 8))
  BY DEF OddEighth
<1> DEFINE s == Combined(c, k, x, m, y)
<1>1. 1 \in Nat /\ k \in -1 .. 1 /\ m \in -1 .. 1
  OBVIOUS
<1>2. /\ IsSample(s, LweSize)
      /\ Near(Phase(s), c + k * Ideal(p) + m * Ideal(q), 1 * FreshNoise + 1 * FreshNoise)
  BY <1>1, LinearPart DEF Inputs
<1> HIDE DEF s
<1>3. Near(Phase(s), IF bit THEN j * Encoded(1, 8) ELSE -(j * Encoded(1, 8)),
           1 * FreshNoise + 1 * FreshNoise)
  BY <1>0, <1>2
<1>4. Clear(Phase(s), bit)
  BY <1>3, EighthIsClear
<1>5. QED
  BY <1>2, <1>4 DEF Decides, s

\* One with weights of two, whose value is a quarter, or one beside it by a turn.
LEMMA QuarterDecides ==
  ASSUME NEW x, NEW y, NEW p, NEW q, Inputs(x, y, p, q), NEW bit \in BOOLEAN,
         NEW c \in Int, NEW k \in {-2, 2}, NEW m \in {-2, 2},
         LET v == IF bit THEN 2 * Encoded(1, 8) ELSE -(2 * Encoded(1, 8))
         IN  c + k * Ideal(p) + m * Ideal(q) \in {v, v + Torus, v - Torus}
  PROVE  Decides(Combined(c, k, x, m, y), bit)
<1> DEFINE s == Combined(c, k, x, m, y)
           u == c + k * Ideal(p) + m * Ideal(q)
           v == IF bit THEN 2 * Encoded(1, 8) ELSE -(2 * Encoded(1, 8))
           e == 2 * FreshNoise + 2 * FreshNoise
<1>1. 2 \in Nat /\ k \in -2 .. 2 /\ m \in -2 .. 2
  OBVIOUS
<1>2. IsSample(s, LweSize) /\ Near(Phase(s), u, e)
  BY <1>1, LinearPart DEF Inputs
<1>3. u \in {v, v + Torus, v - Torus}
  OBVIOUS
<1>4. v \in Int /\ Torus \in Int
  BY NotchIs, TorusIs
<1> HIDE DEF s, u, v, e
<1>5. (v + Torus) - Torus = v /\ (v - Torus) + Torus = v
  BY <1>4
<1>6. Near(Phase(s), v, e)
  BY <1>2, <1>3, <1>5, NearTurn
<1>7. Clear(Phase(s), bit)
  BY <1>6, QuarterIsClear DEF v, e
<1>8. QED
  BY <1>2, <1>7 DEF Decides, s

\* The linear parts of the gates.
LEMMA LinearParts ==
  ASSUME NEW x, NEW y, NEW p, NEW q, Inputs(x, y, p, q)
  PROVE  /\ Decides(AND_pre_computation(x, y), p /\ q)
         /\ Decides(AND_N_pre_computation(x, y), ~p /\ q)
         /\ Decides(NAND_pre_computation(x, y), ~(p /\ q))
         /\ Decides(OR_pre_computation(x, y), p \/ q)
         /\ Decides(NOR_pre_computation(x, y), ~(p \/ q))
         /\ Decides(XOR_pre_computation(x, y), p # q)
         /\ Decides(XNOR_pre_computation(x, y), p = q)
<1> DEFINE mu == Encoded(1, 8)
           a == Ideal(p)
           b == Ideal(q)
<1>1. p \in BOOLEAN /\ q \in BOOLEAN
  BY DEF Inputs
<1>2. /\ mu \in Int /\ Torus = 8 * mu
      /\ a = (IF p THEN mu ELSE -mu) /\ b = (IF q THEN mu ELSE -mu)
      /\ Encoded(1, 4) = 2 * mu
  BY <1>1, NotchIs, IdealIs
<1> HIDE DEF mu, a, b
<1>3. Decides(AND_pre_computation(x, y), p /\ q)
  <2>1. \E j \in {1, 3} : -mu + 1 * a + 1 * b = IF p /\ q THEN j * mu ELSE -(j * mu)
    <3>1. -mu + 1 * a + 1 * b \in {IF p /\ q THEN j * mu ELSE -(j * mu) : j \in {1, 3}}
      BY <1>1, <1>2
    <3>2. QED
      BY <3>1
  <2>2. OddEighth(-mu, 1, 1, p, q, p /\ q)
    BY <2>1 DEF OddEighth, mu, a, b
  <2>3. -mu \in Int /\ (p /\ q) \in BOOLEAN
    BY <1>1, <1>2
  <2>4. Decides(Combined(-mu, 1, x, 1, y), p /\ q)
    BY <2>2, <2>3, EighthDecides
  <2>5. QED
    BY <2>4 DEF AND_pre_computation, mu
<1>4. Decides(AND_N_pre_computation(x, y), ~p /\ q)
  <2> DEFINE k == -1
             l == 1
  <2>1. \E j \in {1, 3} : -mu + k * a + l * b = IF ~p /\ q THEN j * mu ELSE -(j * mu)
    <3>1. -mu + k * a + l * b \in {IF ~p /\ q THEN j * mu ELSE -(j * mu) : j \in {1, 3}}
      BY <1>1, <1>2
    <3>2. QED
      BY <3>1
  <2>2. OddEighth(-mu, k, l, p, q, ~p /\ q)
    BY <2>1 DEF OddEighth, mu, a, b
  <2>3. -mu \in Int /\ (~p /\ q) \in BOOLEAN /\ k \in {-1, 1} /\ l \in {-1, 1}
    BY <1>1, <1>2
  <2> HIDE DEF k, l
  <2>4. Decides(Combined(-mu, k, x, l, y), ~p /\ q)
    BY <2>2, <2>3, EighthDecides
  <2>5. QED
    BY <2>4 DEF AND_N_pre_computation, k, l, mu
<1>5. Decides(NAND_pre_computation(x, y), ~(p /\ q))
  <2> DEFINE k == -1
             l == -1
  <2>1. \E j \in {1, 3} : mu + k * a + l * b = IF ~(p /\ q) THEN j * mu ELSE -(j * mu)
    <3>1. mu + k * a + l * b \in {IF ~(p /\ q) THEN j * mu ELSE -(j * mu) : j \in {1, 3}}
      BY <1>1, <1>2
    <3>2. QED
      BY <3>1
  <2>2. OddEighth(mu, k, l, p, q, ~(p /\ q))
    BY <2>1 DEF OddEighth, mu, a, b
  <2>3. mu \in Int /\ (~(p /\ q)) \in BOOLEAN /\ k \in {-1, 1} /\ l \in {-1, 1}
    BY <1>1, <1>2
  <2> HIDE DEF k, l
  <2>4. Decides(Combined(mu, k, x, l, y), ~(p /\ q))
    BY <2>2, <2>3, EighthDecides
  <2>5. QED
    BY <2>4 DEF NAND_pre_computation, k, l, mu
<1>6. Decides(OR_pre_computation(x, y), p \/ q)
  <2>1. \E j \in {1, 3} : mu + 1 * a + 1 * b = IF p \/ q THEN j * mu ELSE -(j * mu)
    <3>1. mu + 1 * a + 1 * b \in {IF p \/ q THEN j * mu ELSE -(j * mu) : j \in {1, 3}}
      BY <1>1, <1>2
    <3>2. QED
      BY <3>1
  <2>2. OddEighth(mu, 1, 1, p, q, p \/ q)
    BY <2>1 DEF OddEighth, mu, a, b
  <2>3. mu \in Int /\ (p \/ q) \in BOOLEAN
    BY <1>1, <1>2
  <2>4. Decides(Combined(mu, 1, x, 1, y), p \/ q)
    BY <2>2, <2>3, EighthDecides
  <2>5. QED
    BY <2>4 DEF OR_pre_computation, mu
<1>7. Decides(NOR_pre_computation(x, y), ~(p \/ q))
  <2> DEFINE k == -1
             l == -1
  <2>1. \E j \in {1, 3} : -mu + k * a + l * b = IF ~(p \/ q) THEN j * mu ELSE -(j * mu)
    <3>1. -mu + k * a + l * b \in {IF ~(p \/ q) THEN j * mu ELSE -(j * mu) : j \in {1, 3}}
      BY <1>1, <1>2
    <3>2. QED
      BY <3>1
  <2>2. OddEighth(-mu, k, l, p, q, ~(p \/ q))
    BY <2>1 DEF OddEighth, mu, a, b
  <2>3. -mu \in Int /\ (~(p \/ q)) \in BOOLEAN /\ k \in {-1, 1} /\ l \in {-1, 1}
    BY <1>1, <1>2
  <2> HIDE DEF k, l
  <2>4. Decides(Combined(-mu, k, x, l, y), ~(p \/ q))
    BY <2>2, <2>3, EighthDecides
  <2>5. QED
    BY <2>4 DEF NOR_pre_computation, k, l, mu
<1>8. Decides(XOR_pre_computation(x, y), p # q)
  <2> DEFINE v == IF p # q THEN 2 * mu ELSE -(2 * mu)
  <2>1. 2 * mu + 2 * a + 2 * b \in {v, v + Torus, v - Torus}
    BY <1>1, <1>2
  <2>2. 2 * mu \in Int /\ (p # q) \in BOOLEAN
    BY <1>1, <1>2
  <2>3. Decides(Combined(2 * mu, 2, x, 2, y), p # q)
    BY <2>1, <2>2, QuarterDecides DEF mu, a, b
  <2>4. QED
    BY <1>2, <2>3 DEF XOR_pre_computation
<1>9. Decides(XNOR_pre_computation(x, y), p = q)
  <2> DEFINE k == -2
             l == -2
  <2> DEFINE v == IF p = q THEN 2 * mu ELSE -(2 * mu)
  <2>1. -(2 * mu) + k * a + l * b \in {v, v + Torus, v - Torus}
    BY <1>1, <1>2
  <2>2. -(2 * mu) \in Int /\ (p = q) \in BOOLEAN /\ k \in {-2, 2} /\ l \in {-2, 2}
    BY <1>1, <1>2
  <2> HIDE DEF k, l
  <2>3. Decides(Combined(-(2 * mu), k, x, l, y), p = q)
    BY <2>1, <2>2, QuarterDecides DEF mu, a, b
  <2>4. QED
    BY <1>2, <2>3 DEF XNOR_pre_computation, k, l
<1>10. QED
  BY <1>3, <1>4, <1>5, <1>6, <1>7, <1>8, <1>9

\* A gate gives a fresh sample of what Boolean logic says.
LEMMA DecidedIsFresh ==
  ASSUME NEW s, NEW bit \in BOOLEAN, Decides(s, bit), Bearable(s)
  PROVE  Fresh(key_switching(bootstrapping(s)), bit)
  BY GateIsFresh DEF Decides

-----------------------------------------------------------------------------
(* The negation, the multiplexer and the encryption. *)

\* NOT turns the phase around and adds nothing.
LEMMA NegationIs ==
  ASSUME NEW s, IsSample(s, LweSize)
  PROVE  /\ IsSample(NOT_computation(s), LweSize)
         /\ Near(SamplePhase(NOT_computation(s)), -SamplePhase(s), 0)
<1> DEFINE n == LweSize
           q == NOT_computation(s)
           A == [i \in 1 .. n |-> (-s.a[i]) % Torus]
           F == Masked(s, LweKey)
           H == Masked(q, LweKey)
           m == -1
           L == [i \in 1 .. n |-> m * F[i] + 0 * F[i]]
<1>1. /\ s.a \in [1 .. n -> Int] /\ s.b \in Int /\ n \in Nat
      /\ \A i \in 1 .. n : s.a[i] \in Int /\ LweKey[i] \in Int
  BY Parameters, KeysAre DEF IsSample, Lwe
<1>2. ASSUME NEW i \in 1 .. n PROVE A[i] \in Int /\ Near(A[i], -s.a[i], 0)
  <2> DEFINE x == -s.a[i]
  <2>1. x \in Int /\ A[i] = x % Torus
    BY <1>1
  <2> HIDE DEF x, A
  <2>2. Near(x % Torus, x, 0) /\ x % Torus \in Int
    BY <2>1, NearSelf DEF Near
  <2>3. QED
    BY <2>1, <2>2 DEF x
<1>3. A \in [1 .. n -> Int]
  BY <1>2
<1>4. q.a = A /\ q.b = (-s.b) % Torus
  <2>1. DOMAIN s.a = 1 .. n /\ Len(s.a) = n
    BY <1>1, TupleIs
  <2>2. q.a = Tuple([i \in DOMAIN s.a |-> (-s.a[i]) % Torus], Len(s.a)) /\ q.b = (-s.b) % Torus
    BY DEF NOT_computation
  <2>3. [i \in DOMAIN s.a |-> (-s.a[i]) % Torus] = A
    BY <2>1
  <2>4. Tuple(A, n) = A
    <3> HIDE DEF A
    <3>1. QED
      BY <1>1, <1>3, TupleIs
  <2>5. QED
    BY <2>1, <2>2, <2>3, <2>4
<1> DEFINE b == -s.b
<1>5. b \in Int
  BY <1>1
<1>6. Addends(F, n) /\ (\A i \in 1 .. n : F[i] = s.a[i] * LweKey[i]) /\ SamplePhase(s) = s.b - Total(F, n)
  BY PhaseIs DEF SamplePhase
<1>7. Total(F, n) \in Int
  BY <1>6, TotalStep
<1>8. \A i \in 1 .. n : L[i] = m * F[i] + 0 * F[i]
  OBVIOUS
<1> HIDE DEF q, A, b, F
<1>9. IsSample(q, n)
  <2>1. b % Torus \in Int
    BY <1>5, NearSelf DEF Near
  <2>2. QED
    BY <1>3, <1>4, <2>1 DEF IsSample, b
<1>10. \A i \in 1 .. n : H[i] = A[i] * LweKey[i]
  BY <1>3, <1>4 DEF Masked
<1> HIDE DEF H, L
<1>11. m \in Int /\ 0 \in Int
  OBVIOUS
<1> HIDE DEF m
<1>12. Total(L, n) = m * Total(F, n) + 0 * Total(F, n)
  <2>1. Combines(L, m, F, 0, F, n)
    BY <1>1, <1>6, <1>8, <1>11 DEF Combines
  <2>2. QED
    BY <2>1, TotalLinear
<1>13. Total(L, n) = -Total(F, n)
  <2> DEFINE t == Total(F, n)
  <2>1. t \in Int
    BY <1>7
  <2> HIDE DEF t
  <2>2. m * t + 0 * t = -t
    BY <2>1 DEF m
  <2>3. QED
    BY <1>12, <2>2 DEF t
<1>14. ASSUME NEW i \in 1 .. n PROVE Near(H[i], L[i], 0)
  <2> DEFINE x == s.a[i]
             w == LweKey[i]
             a == A[i]
  <2>1. x \in Int /\ w \in Int /\ a \in Int /\ Near(a, -x, 0)
    BY <1>1, <1>2
  <2>2. H[i] = a * w /\ F[i] = x * w /\ L[i] = m * F[i] + 0 * F[i]
    BY <1>6, <1>8, <1>10
  <2> HIDE DEF x, w, a
  <2>3. Near(w * a, w * (-x), 0)
    BY <2>1, NearTimes
  <2>4. w * a = a * w /\ w * (-x) = -(x * w) /\ x * w \in Int
    BY <2>1
  <2>5. L[i] = -(x * w)
    <3> DEFINE t == x * w
    <3>1. t \in Int /\ L[i] = m * t + 0 * t
      BY <2>2, <2>4
    <3> HIDE DEF t
    <3>2. m * t + 0 * t = -t
      BY <3>1 DEF m
    <3>3. QED
      BY <3>1, <3>2 DEF t
  <2>6. QED
    BY <2>2, <2>3, <2>4, <2>5
<1>15. Near(Total(H, n), -Total(F, n), 0)
  <2>1. Close(H, L, 0, n)
    BY <1>1, <1>14 DEF Close
  <2>2. Near(Total(H, n), Total(L, n), n * 0)
    BY <2>1, NearTotal
  <2>3. n * 0 = 0
    BY <1>1
  <2>4. QED
    BY <1>13, <2>2, <2>3
<1>16. Near(b % Torus, b, 0)
  BY <1>5, NearSelf
<1>17. Near((b % Torus) - Total(H, n), b - (-Total(F, n)), 0 + 0)
  BY <1>15, <1>16, NearDifference
<1>18. b - (-Total(F, n)) = -SamplePhase(s)
  <2> DEFINE t == Total(F, n)
             x == s.b
  <2>1. t \in Int /\ x \in Int /\ b = -x /\ SamplePhase(s) = x - t
    BY <1>1, <1>6, <1>7 DEF b
  <2> HIDE DEF t, x
  <2>2. b - (-t) = -(x - t)
    BY <2>1
  <2>3. QED
    BY <2>1, <2>2 DEF t
<1>19. SamplePhase(q) = (b % Torus) - Total(H, n)
  BY <1>4 DEF SamplePhase, H, b
<1>20. QED
  BY <1>9, <1>17, <1>18, <1>19 DEF q

\* The negation of a fresh sample is as good as the sample.
LEMMA NegatedIsFresh ==
  ASSUME NEW s, NEW bit, Fresh(s, bit)
  PROVE  Fresh(NOT_computation(s), ~bit)
<1> DEFINE q == NOT_computation(s)
<1>1. /\ IsSample(s, LweSize) /\ bit \in BOOLEAN
      /\ Near(SamplePhase(s), Ideal(bit), FreshNoise)
  BY DEF Fresh, Stands, KeyPhase, SamplePhase
<1>2. IsSample(q, LweSize) /\ Near(SamplePhase(q), -SamplePhase(s), 0)
  BY <1>1, NegationIs
<1> HIDE DEF q
<1>3. Near(-SamplePhase(s), -Ideal(bit), FreshNoise)
  BY <1>1, NearMinus
<1>4. Near(SamplePhase(q), -Ideal(bit), 0 + FreshNoise)
  BY <1>2, <1>3, NearThrough
<1>5. 0 + FreshNoise = FreshNoise /\ (~bit) \in BOOLEAN
  BY <1>1, NoiseIs
<1>6. -Ideal(bit) = Ideal(~bit)
  <2> DEFINE mu == Encoded(1, 8)
  <2>1. mu \in Int
    BY NotchIs
  <2>2. /\ Ideal(bit) = (IF bit THEN mu ELSE -mu)
        /\ Ideal(~bit) = (IF ~bit THEN mu ELSE -mu)
    BY DEF Ideal
  <2> HIDE DEF mu
  <2>3. QED
    BY <1>1, <2>1, <2>2
<1>7. Near(KeyPhase(q, LweKey, LweSize), Ideal(~bit), FreshNoise)
  BY <1>4, <1>5, <1>6 DEF KeyPhase, SamplePhase
<1>8. QED
  BY <1>2, <1>5, <1>7 DEF Fresh, Stands, q

\* A product of MUX, under the ring key.
LEMMA ProductOpens ==
  ASSUME NEW d, NEW r \in BOOLEAN, Decides(d, r), Distance(TurnError(d)) <= TurnBudget
  PROVE  /\ IsSample(bootstrapping(d), RingSize) /\ BootstrapError(d) \in Int
         /\ Near(KeyPhase(bootstrapping(d), RingKey, RingSize), Ideal(r) + BootstrapError(d), 0)
<1>1. KeyPhase(bootstrapping(d), RingKey, RingSize) = RingSamplePhase(bootstrapping(d))
  BY DEF KeyPhase, RingSamplePhase
<1>2. QED
  BY <1>1, BootstrapOpens DEF Decides

\* MUX: the two products are added under the ring key, then switched back.
LEMMA MuxIsFresh ==
  ASSUME NEW x, NEW y, NEW control, NEW p, NEW q, NEW c,
         Fresh(x, p), Fresh(y, q), Fresh(control, c), MuxBearable(x, y, control)
  PROVE  Fresh(MuxSample(x, y, control), IF c THEN p ELSE q)
<1> DEFINE d == AND_pre_computation(control, x)
           h == AND_N_pre_computation(control, y)
           s == bootstrapping(d)
           t == bootstrapping(h)
           mu == Encoded(1, 8)
           u == Combined(mu, 1, s, 1, t)
           w == key_switching(u)
           bit == IF c THEN p ELSE q
           D == BootstrapError(d)
           H == BootstrapError(h)
           S == SwitchError(u)
           a == Ideal(c /\ p)
           b == Ideal(~c /\ q)
           E == D + H + S
<1>1. p \in BOOLEAN /\ q \in BOOLEAN /\ c \in BOOLEAN
  BY DEF Fresh, Stands
<1>2. MuxSample(x, y, control) = w
  BY DEF MuxSample, OR_pre_computation
<1>3. Inputs(control, x, c, p) /\ Inputs(control, y, c, q)
  BY <1>1 DEF Inputs
<1>4. Decides(d, c /\ p) /\ Decides(h, ~c /\ q)
  BY <1>3, LinearParts
<1>5. /\ Distance(TurnError(d)) <= TurnBudget /\ Distance(TurnError(h)) <= TurnBudget
      /\ Distance(E) <= FreshNoise
  BY DEF MuxBearable, OR_pre_computation
<1>6. /\ mu \in Int /\ RingSize \in Nat /\ (\A i \in 1 .. RingSize : RingKey[i] \in Int)
      /\ FreshNoise \in Nat
  BY Parameters, NotchIs, KeysAre, NoiseIs DEF Ring
<1>7. /\ a = (IF c /\ p THEN mu ELSE -mu) /\ b = (IF ~c /\ q THEN mu ELSE -mu)
      /\ Ideal(bit) = (IF bit THEN mu ELSE -mu)
  BY DEF Ideal
<1> HIDE DEF d, h, mu
<1>8. IsSample(s, RingSize) /\ D \in Int /\ Near(KeyPhase(s, RingKey, RingSize), a + D, 0)
  <2> DEFINE r == c /\ p
  <2>1. r \in BOOLEAN /\ Decides(d, r)
    BY <1>1, <1>4
  <2> HIDE DEF r
  <2>2. /\ IsSample(bootstrapping(d), RingSize) /\ BootstrapError(d) \in Int
        /\ Near(KeyPhase(bootstrapping(d), RingKey, RingSize), Ideal(r) + BootstrapError(d), 0)
    BY <1>5, <2>1, ProductOpens
  <2>3. QED
    BY <2>2 DEF r
<1>9. IsSample(t, RingSize) /\ H \in Int /\ Near(KeyPhase(t, RingKey, RingSize), b + H, 0)
  <2> DEFINE r == ~c /\ q
  <2>1. r \in BOOLEAN /\ Decides(h, r)
    BY <1>1, <1>4
  <2> HIDE DEF r
  <2>2. /\ IsSample(bootstrapping(h), RingSize) /\ BootstrapError(h) \in Int
        /\ Near(KeyPhase(bootstrapping(h), RingKey, RingSize), Ideal(r) + BootstrapError(h), 0)
    BY <1>5, <2>1, ProductOpens
  <2>3. QED
    BY <2>2 DEF r
<1> HIDE DEF s, t, D, H, a, b
<1> DEFINE X == KeyPhase(s, RingKey, RingSize)
           Y == KeyPhase(t, RingKey, RingSize)
<1>10. IsSample(u, RingSize) /\ Near(KeyPhase(u, RingKey, RingSize), mu + 1 * X + 1 * Y, 0)
  <2> DEFINE o == 1
  <2>1. o \in Int
    OBVIOUS
  <2> HIDE DEF o
  <2>2. /\ IsSample(Combined(mu, o, s, o, t), RingSize)
        /\ Near(KeyPhase(Combined(mu, o, s, o, t), RingKey, RingSize), mu + o * X + o * Y, 0)
    BY <1>6, <1>8, <1>9, <2>1, CombinedIs
  <2>3. QED
    BY <2>2 DEF o
<1>11. KeyPhase(u, RingKey, RingSize) = RingSamplePhase(u)
  BY DEF KeyPhase, RingSamplePhase
<1> HIDE DEF u
<1>12. /\ IsSample(w, LweSize) /\ S \in Int
       /\ Near(SamplePhase(w), RingSamplePhase(u) + S, 0)
  BY <1>10, SwitchedIs
<1> HIDE DEF w, S, X, Y
<1>13. X \in Int /\ Y \in Int /\ a \in Int /\ b \in Int /\ bit \in BOOLEAN
  BY <1>1, <1>6, <1>7, <1>8, <1>9 DEF Near, X, Y
<1>14. Near(RingSamplePhase(u), mu + X + Y, 0)
  BY <1>6, <1>10, <1>11, <1>13
<1>15. Near(mu + X + Y, mu + (a + D) + (b + H), 0 + 0 + 0)
  <2>1. Near(mu, mu, 0)
    BY <1>6, NearSelf
  <2>2. Near(mu + X, mu + (a + D), 0 + 0)
    BY <1>8, <2>1, NearSum DEF X
  <2>3. QED
    BY <1>9, <2>2, NearSum DEF Y
<1>16. mu + (a + D) + (b + H) + S = Ideal(bit) + E /\ Ideal(bit) \in Int /\ E \in Int
  <2>1. mu + a + b = Ideal(bit) /\ Ideal(bit) \in Int
    BY <1>1, <1>6, <1>7
  <2> HIDE DEF bit
  <2>2. QED
    BY <1>6, <1>8, <1>9, <1>12, <1>13, <2>1
<1> HIDE DEF bit, E
<1>17. Near(RingSamplePhase(u), mu + (a + D) + (b + H), 0 + (0 + 0 + 0))
  BY <1>14, <1>15, NearThrough
<1>18. Near(RingSamplePhase(u) + S, mu + (a + D) + (b + H) + S, (0 + (0 + 0 + 0)) + 0)
  BY <1>12, <1>17, NearSelf, NearSum
<1>19. Near(SamplePhase(w), Ideal(bit) + E, 0 + ((0 + (0 + 0 + 0)) + 0))
  BY <1>12, <1>16, <1>18, NearThrough
<1>20. 0 + ((0 + (0 + 0 + 0)) + 0) = 0
  OBVIOUS
<1>21. Near(SamplePhase(w), Ideal(bit), FreshNoise)
  BY <1>5, <1>6, <1>16, <1>19, <1>20, Absorbed
<1>22. KeyPhase(w, LweKey, LweSize) = SamplePhase(w)
  BY DEF KeyPhase, SamplePhase
<1>23. QED
  BY <1>2, <1>12, <1>13, <1>21, <1>22 DEF Fresh, Stands, bit

\* What encryption gives, for every message and every call of a behaviour.
LEMMA EncryptedIsFresh ==
  ASSUME NEW message \in Batches, NEW call \in 0 .. (MaxCalls - 1), NEW i \in 1 .. Len(message),
         Distance(EncryptionNoise[call + i]) <= FreshNoise
  PROVE  Fresh(EncryptedSample(message[i], call, i), message[i])
<1> DEFINE bit == message[i]
           s == EncryptedSample(bit, call, i)
           a == EncryptionMask[call + i]
           v == EncryptionNoise[call + i]
           n == LweSize
           F == Masked(s, LweKey)
           t == Total(F, n)
           d == Dot(a, LweKey, n)
           g == Ideal(bit)
           b == g + v + d
<1>1. a \in [Lwe -> Int] /\ v \in Int
  BY MessagesAssumption
<1>2. bit \in BOOLEAN
  BY MessagesAssumption
<1>3. s.a = a /\ s.b = b % Torus
  BY DEF EncryptedSample, Ideal
<1>4. n \in Nat /\ Lwe = 1 .. n /\ \A k \in 1 .. n : LweKey[k] \in Int
  BY Parameters, KeysAre DEF Lwe
<1>5. F = [k \in 1 .. n |-> a[k] * LweKey[k]]
  BY <1>1, <1>3, <1>4 DEF Masked
<1>6. d = t % Torus
  BY <1>5 DEF Dot
<1> HIDE DEF s, a, F
<1>7. \A k \in 1 .. n : F[k] \in Int
  <2>1. ASSUME NEW k \in 1 .. n PROVE F[k] \in Int
    <3> DEFINE x == a[k]
               w == LweKey[k]
    <3>1. x \in Int /\ w \in Int /\ F[k] = x * w
      BY <1>1, <1>4, <1>5
    <3> HIDE DEF x, w
    <3>2. QED
      BY <3>1
  <2>2. QED
    BY <2>1
<1>8. t \in Int
  <2>1. Addends(F, n)
    BY <1>4, <1>7 DEF Addends
  <2>2. QED
    BY <2>1, TotalStep
<1>9. g \in Int /\ FreshNoise \in Nat
  BY <1>2, IdealIs, NoiseIs
<1> HIDE DEF t, g, v, d
<1>10. Near(d, t, 0) /\ d \in Int
  BY <1>6, <1>8, NearSelf DEF Near
<1>11. b \in Int /\ v \in Int
  BY <1>1, <1>9, <1>10
<1>12. Near(g + v, g, FreshNoise)
  <2>1. g + v \in Int /\ Distance(v) <= FreshNoise
    BY <1>9, <1>11 DEF v
  <2>2. Near(g + v, g + v, 0)
    BY <2>1, NearSelf
  <2>3. QED
    BY <1>9, <1>11, <2>1, <2>2, Absorbed
<1>13. Near((g + v) + d, g + t, FreshNoise + 0)
  BY <1>10, <1>12, NearSum
<1>14. Near(b % Torus, b, 0) /\ b % Torus \in Int
  <2> HIDE DEF b
  <2>1. QED
    BY <1>11, NearSelf DEF Near
<1>15. Near(b % Torus, g + t, 0 + (FreshNoise + 0))
  BY <1>13, <1>14, NearThrough
<1>16. Near(t, t, 0)
  BY <1>8, NearSelf
<1>17. Near((b % Torus) - t, (g + t) - t, (0 + (FreshNoise + 0)) + 0)
  BY <1>15, <1>16, NearDifference
<1>18. (g + t) - t = g /\ (0 + (FreshNoise + 0)) + 0 = FreshNoise
  BY <1>8, <1>9
<1>19. KeyPhase(s, LweKey, n) = (b % Torus) - t
  BY <1>3 DEF KeyPhase, t, F
<1>20. IsSample(s, n)
  BY <1>1, <1>3, <1>4, <1>14 DEF IsSample
<1>21. QED
  BY <1>2, <1>17, <1>18, <1>19, <1>20 DEF Fresh, Stands, s, g

-----------------------------------------------------------------------------
(* What a fresh sample opens to. *)

\* The distance from zero of an element that is near to it.
LEMMA DistanceIs ==
  ASSUME NEW x, NEW e, Near(x, 0, e), 2 * e < Torus
  PROVE  Distance(x) <= e
<1> DEFINE T == Torus
           r == x % T
<1>1. PICK k \in Int : x \in Int /\ e \in Nat /\ x - 0 - k * T \in -e .. e
  BY DEF Near
<1>2. T \in Nat \ {0} /\ \E u \in Nat \ {0} : T = 8 * u
  BY TorusIs
<1>3. 2 * e < T
  OBVIOUS
<1>4. Distance(x) = IF r < T \div 2 THEN r ELSE T - r
  BY DEF Distance
<1> HIDE DEF T
<1> DEFINE d == x - k * T
<1>5. k * T \in Int /\ (k - 1) * T = k * T - T /\ k - 1 \in Int
  BY <1>1, <1>2
<1>6. d \in -e .. e /\ d \in Int /\ x = k * T + d /\ x = (k - 1) * T + (d + T)
  <2> DEFINE w == k * T
  <2>1. w \in Int /\ x - 0 - w \in -e .. e /\ (k - 1) * T = w - T /\ d = x - w
        /\ T \in Int /\ x \in Int /\ e \in Nat
    BY <1>1, <1>2, <1>5
  <2> HIDE DEF w, d
  <2>2. d \in -e .. e /\ d \in Int /\ x = w + d /\ x = (w - T) + (d + T)
    BY <2>1
  <2>3. QED
    BY <2>1, <2>2 DEF w
<1>7. \E u \in Nat \ {0} : T \div 2 = 4 * u /\ T = 8 * u
  <2>1. PICK u \in Nat \ {0} : T = 8 * u
    BY <1>2
  <2>2. T \div 2 = 4 * u
    BY <2>1
  <2>3. QED
    BY <2>1, <2>2
<1> HIDE DEF d
<1>8. CASE d >= 0
  <2>1. d \in 0 .. T - 1
    BY <1>1, <1>2, <1>3, <1>6, <1>8
  <2>2. r = d
    BY <1>1, <1>2, <1>6, <2>1, RemainderUnique
  <2>3. d < T \div 2
    BY <1>1, <1>3, <1>6, <1>7
  <2>4. QED
    BY <1>4, <1>6, <2>2, <2>3, <1>1
<1>9. CASE d < 0
  <2>1. d + T \in 0 .. T - 1
    BY <1>1, <1>2, <1>3, <1>6, <1>9
  <2> DEFINE j == k - 1
             q == d + T
  <2>2. j \in Int /\ q \in 0 .. T - 1 /\ x = j * T + q
    BY <1>5, <1>6, <2>1
  <2> HIDE DEF j, q
  <2>3. r = q
    BY <1>1, <1>2, <2>2, RemainderUnique
  <2>4. ~(q < T \div 2)
    BY <1>1, <1>3, <1>6, <1>7 DEF q
  <2>5. T - q <= e
    BY <1>1, <1>2, <1>6 DEF q
  <2> HIDE DEF r
  <2>6. QED
    BY <1>4, <2>3, <2>4, <2>5
<1>10. QED
  BY <1>6, <1>8, <1>9

\* A fresh sample has a small noise and decrypts to its bit.
LEMMA FreshOpens ==
  ASSUME NEW s, NEW bit, Fresh(s, bit)
  PROVE  /\ Distance(Phase(s) - Ideal(bit)) <= FreshNoise
         /\ Decrypted(s) = bit
<1> DEFINE mu == Encoded(1, 8)
           T == Torus
           F == FreshNoise
           p == Phase(s)
           g == Ideal(bit)
<1>1. IsSample(s, LweSize) /\ bit \in BOOLEAN /\ Near(KeyPhase(s, LweKey, LweSize), g, F)
  BY DEF Fresh, Stands
<1>2. Near(p, g, F)
  BY <1>1, StandsPhase
<1>3. p \in 0 .. T - 1
  BY <1>1, PhaseIs
<1>4. /\ mu \in Nat \ {0} /\ T = 8 * mu /\ F \in Nat
      /\ g \in Int /\ g = (IF bit THEN mu ELSE -mu) /\ F < mu
  <2>1. /\ mu \in Nat \ {0} /\ T = 8 * mu /\ F \in Nat /\ TurnBudget \in Nat
        /\ 2 * F + TurnBudget < mu
    BY NotchIs, NoiseIs
  <2>2. g \in Int /\ g = (IF bit THEN mu ELSE -mu)
    BY <1>1, IdealIs DEF Ideal
  <2> HIDE DEF mu, T, F, g
  <2>3. QED
    BY <2>1, <2>2
<1>5. Decrypted(s) = (p \in 1 .. (T \div 2 - 1))
  BY DEF Decrypted
<1>6. Near(p - g, g - g, F + 0)
  <2>1. Near(g, g, 0)
    BY <1>4, NearSelf
  <2>2. QED
    BY <1>2, <2>1, NearDifference
<1>7. PICK k \in Int : p - g - k * T \in -F .. F
  BY <1>2 DEF Near
<1> HIDE DEF mu, T, F, p, g
<1>8. g - g = 0 /\ F + 0 = F /\ 2 * F < T
  BY <1>4
<1>9. Distance(p - g) <= F
  BY <1>6, <1>8, DistanceIs DEF T
<1>10. T \div 2 - 1 = 4 * mu - 1
  BY <1>4
<1>11. k * T = 8 * (k * mu) /\ k * mu \in Int
  BY <1>4
<1>12. k * mu \in {0, mu} \/ k * mu >= 2 * mu \/ k * mu <= -mu
  <2>1. CASE k = 0
    BY <1>4, <2>1
  <2>2. CASE k = 1
    BY <1>4, <2>2
  <2>3. CASE k >= 2
    <3>1. k * mu = (k - 2) * mu + 2 * mu /\ (k - 2) * mu \in Nat
      BY <1>4, <2>3
    <3>2. QED
      BY <1>4, <3>1
  <2>4. CASE k <= -1
    <3>1. k * mu = -((-1 - k) * mu) - mu /\ (-1 - k) * mu \in Nat
      BY <1>4, <2>4
    <3>2. QED
      BY <1>4, <3>1
  <2>5. QED
    BY <2>1, <2>2, <2>3, <2>4
<1>13. (p \in 1 .. (4 * mu - 1)) = bit
  <2> DEFINE w == k * mu
  <2>1. /\ w \in {0, mu} \/ w >= 2 * mu \/ w <= -mu
        /\ w \in Int /\ p - g - 8 * w \in -F .. F
    BY <1>7, <1>11, <1>12
  <2> HIDE DEF w
  <2>2. CASE bit
    <3>1. g = mu /\ p \in Int /\ p >= 0 /\ p < 8 * mu
      BY <1>3, <1>4, <2>2
    <3>2. w = 0
      BY <1>4, <2>1, <3>1
    <3>3. p - mu >= -F /\ p - mu <= F
      BY <1>4, <2>1, <3>1, <3>2
    <3>4. p \in 1 .. (4 * mu - 1)
      BY <1>4, <3>1, <3>3
    <3>5. (p \in 1 .. (4 * mu - 1)) = TRUE /\ bit = TRUE
      BY <1>1, <2>2, <3>4
    <3>6. QED
      BY <3>5
  <2>3. CASE ~bit
    <3>1. g = -mu /\ p \in Int /\ p >= 0 /\ p < 8 * mu
      BY <1>3, <1>4, <2>3
    <3>2. w = mu
      BY <1>4, <2>1, <3>1
    <3>3. p >= 7 * mu - F
      BY <1>4, <2>1, <3>1, <3>2
    <3>4. p \notin 1 .. (4 * mu - 1)
      BY <1>4, <3>1, <3>3
    <3>5. (p \in 1 .. (4 * mu - 1)) = FALSE /\ bit = FALSE
      BY <1>1, <2>3, <3>4
    <3>6. QED
      BY <3>5
  <2>4. QED
    BY <2>2, <2>3, <1>1
<1>14. Decrypted(s) = bit
  BY <1>5, <1>10, <1>13
<1>15. QED
  BY <1>9, <1>14 DEF p, g, F

-----------------------------------------------------------------------------
(* The invariant. *)

(* What a register holds: for each of its bits a sample as good as a fresh  *)
(* one, as long as no error was beyond its budget.  Noise alone would not   *)
(* be inductive: a gate is right only about inputs that stand for the bits  *)
(* they are taken for.                                                      *)
Fits(samples, message) == Len(samples) = Len(message) /\ Len(message) \in Nat
Good(samples, message) == \A i \in 1 .. Len(message) : Fresh(samples[i], message[i])

GatesInvariant ==
  /\ reg = [r \in Registers |-> reg[r]]
  /\ bits = [r \in Registers |-> bits[r]]
  /\ calls \in 0 .. MaxCalls
  /\ \A r \in Registers : reg[r].generated => Fits(reg[r].samples, bits[r])
  /\ within => \A r \in Registers : reg[r].generated => Good(reg[r].samples, bits[r])

\* A batch has one element for each place.
LEMMA BatchIs ==
  ASSUME NEW n \in Nat, NEW f, f = [i \in 1 .. n |-> f[i]]
  PROVE  Tuple(f, n) = f /\ Len(Tuple(f, n)) = n
<1> DEFINE T == {f[i] : i \in 1 .. n}
<1>1. \A i \in 1 .. n : f[i] \in T
  OBVIOUS
<1> HIDE DEF T
<1>2. f \in [1 .. n -> T]
  BY <1>1
<1>3. QED
  BY <1>2, TupleIs

\* What a register that may be an input of a call is.
LEMMA InputIs ==
  ASSUME GatesInvariant, NEW r \in Registers, reg[r].generated
  PROVE  /\ Shape(r) \in Nat
         /\ within => \A i \in 1 .. Shape(r) : /\ Fresh(reg[r].samples[i], bits[r][i])
                                               /\ bits[r][i] \in BOOLEAN
<1>1. Fits(reg[r].samples, bits[r]) /\ (within => Good(reg[r].samples, bits[r]))
  BY DEF GatesInvariant
<1>2. Shape(r) = Len(bits[r]) /\ Len(bits[r]) \in Nat
  BY <1>1 DEF Fits, Shape
<1>3. QED
  BY <1>1, <1>2 DEF Good, Fresh, Stands

\* A call that gives a good register, unless an error is beyond its budget,
\* keeps the invariant.
LEMMA GiveKeeps ==
  ASSUME GatesInvariant, NEW out \in Registers, NEW samples, NEW message,
         Called, Give(out, samples, message), Fits(samples, message),
         within' => within /\ Good(samples, message)
  PROVE  GatesInvariant'
<1>1. /\ reg' = [reg EXCEPT ![out] = [generated |-> TRUE, samples |-> samples]]
      /\ bits' = [bits EXCEPT ![out] = message]
  BY DEF Give
<1>2. /\ reg = [r \in Registers |-> reg[r]] /\ bits = [r \in Registers |-> bits[r]]
      /\ calls \in 0 .. MaxCalls
      /\ \A r \in Registers : reg[r].generated => Fits(reg[r].samples, bits[r])
      /\ within => \A r \in Registers : reg[r].generated => Good(reg[r].samples, bits[r])
  BY DEF GatesInvariant
<1>3. DOMAIN reg = Registers /\ DOMAIN bits = Registers
  BY <1>2
<1>4. /\ reg' = [r \in Registers |-> reg'[r]] /\ bits' = [r \in Registers |-> bits'[r]]
      /\ reg'[out] = [generated |-> TRUE, samples |-> samples] /\ bits'[out] = message
      /\ \A r \in Registers : r # out => reg'[r] = reg[r] /\ bits'[r] = bits[r]
  BY <1>1, <1>3
<1>5. ASSUME NEW r \in Registers, reg'[r].generated
      PROVE  /\ Fits(reg'[r].samples, bits'[r])
             /\ within' => Good(reg'[r].samples, bits'[r])
  <2>1. CASE r = out
    <3>1. reg'[r].samples = samples /\ bits'[r] = message
      BY <1>4, <2>1
    <3>2. QED
      BY <3>1
  <2>2. CASE r # out
    <3>1. reg'[r] = reg[r] /\ bits'[r] = bits[r]
      BY <1>4, <2>2
    <3>2. reg[r].generated
      BY <1>5, <3>1
    <3>3. Fits(reg[r].samples, bits[r]) /\ (within => Good(reg[r].samples, bits[r]))
      BY <1>2, <3>2
    <3>4. QED
      BY <3>1, <3>3
  <2>3. QED
    BY <2>1, <2>2
<1>6. calls' \in 0 .. MaxCalls
  BY <1>2, Parameters DEF Called
<1>7. QED
  BY <1>4, <1>5, <1>6 DEF GatesInvariant

\* So does one whose batches fit place by place.
LEMMA BatchKeeps ==
  ASSUME GatesInvariant, NEW out \in Registers, NEW n \in Nat,
         NEW f, NEW g, f = [i \in 1 .. n |-> f[i]], g = [i \in 1 .. n |-> g[i]],
         Called, Give(out, Tuple(f, n), Tuple(g, n)),
         within' => within /\ \A i \in 1 .. n : Fresh(f[i], g[i])
  PROVE  GatesInvariant'
<1>1. /\ Tuple(f, n) = f /\ Len(Tuple(f, n)) = n
      /\ Tuple(g, n) = g /\ Len(Tuple(g, n)) = n
  BY BatchIs
<1>2. Fits(f, g) /\ Give(out, f, g) /\ Len(g) = n
  BY <1>1 DEF Fits
<1>3. within' => within /\ Good(f, g)
  BY <1>2 DEF Good
<1>4. QED
  BY <1>2, <1>3, GiveKeeps

\* NAND: the register that is given may be one of the two inputs.
LEMMA NANDKeeps ==
  ASSUME GatesInvariant, NAND
  PROVE  GatesInvariant'
<1>1. PICK x \in Registers, y \in Registers, out \in Registers :
         /\ Called /\ Shape(x) = Shape(y) /\ reg[x].generated /\ reg[y].generated
         /\ within' = (within /\ \A i \in 1 .. Shape(x) :
                          Bearable(NAND_pre_computation(reg[x].samples[i], reg[y].samples[i])))
         /\ Give(out,
              Tuple([i \in 1 .. Shape(x) |-> key_switching(bootstrapping(
                       NAND_pre_computation(reg[x].samples[i], reg[y].samples[i])))], Shape(x)),
              Tuple([i \in 1 .. Shape(x) |-> (~(bits[x][i] /\ bits[y][i]))], Shape(x)))
  BY DEF NAND, GateCall, Batch
<1> DEFINE n == Shape(x)
           f == [i \in 1 .. n |-> key_switching(bootstrapping(
                    NAND_pre_computation(reg[x].samples[i], reg[y].samples[i])))]
           g == [i \in 1 .. n |-> (~(bits[x][i] /\ bits[y][i]))]
<1>2. n \in Nat
  BY <1>1, InputIs
<1>3. ASSUME within', NEW i \in 1 .. n PROVE Fresh(f[i], g[i])
  <2> DEFINE s == NAND_pre_computation(reg[x].samples[i], reg[y].samples[i])
             b == (~(bits[x][i] /\ bits[y][i]))
  <2>1. within /\ Bearable(s)
    BY <1>1, <1>3
  <2>2. Inputs(reg[x].samples[i], reg[y].samples[i], bits[x][i], bits[y][i])
    BY <1>1, <2>1, InputIs DEF Inputs
  <2>3. Decides(s, b)
    BY <2>2, LinearParts
  <2>4. b \in BOOLEAN
    BY <2>2 DEF Inputs
  <2>5. f[i] = key_switching(bootstrapping(s)) /\ g[i] = b
    OBVIOUS
  <2> HIDE DEF s, b, f, g
  <2>6. QED
    BY <2>1, <2>3, <2>4, <2>5, DecidedIsFresh
<1>4. f = [i \in 1 .. n |-> f[i]] /\ g = [i \in 1 .. n |-> g[i]]
  OBVIOUS
<1>5. Give(out, Tuple(f, n), Tuple(g, n))
  BY <1>1
<1>6. within' => within
  BY <1>1
<1> HIDE DEF f, g, n
<1>7. QED
  BY <1>1, <1>2, <1>3, <1>4, <1>5, <1>6, BatchKeeps

\* AND: the register that is given may be one of the two inputs.
LEMMA ANDKeeps ==
  ASSUME GatesInvariant, AND
  PROVE  GatesInvariant'
<1>1. PICK x \in Registers, y \in Registers, out \in Registers :
         /\ Called /\ Shape(x) = Shape(y) /\ reg[x].generated /\ reg[y].generated
         /\ within' = (within /\ \A i \in 1 .. Shape(x) :
                          Bearable(AND_pre_computation(reg[x].samples[i], reg[y].samples[i])))
         /\ Give(out,
              Tuple([i \in 1 .. Shape(x) |-> key_switching(bootstrapping(
                       AND_pre_computation(reg[x].samples[i], reg[y].samples[i])))], Shape(x)),
              Tuple([i \in 1 .. Shape(x) |-> (bits[x][i] /\ bits[y][i])], Shape(x)))
  BY DEF AND, GateCall, Batch
<1> DEFINE n == Shape(x)
           f == [i \in 1 .. n |-> key_switching(bootstrapping(
                    AND_pre_computation(reg[x].samples[i], reg[y].samples[i])))]
           g == [i \in 1 .. n |-> (bits[x][i] /\ bits[y][i])]
<1>2. n \in Nat
  BY <1>1, InputIs
<1>3. ASSUME within', NEW i \in 1 .. n PROVE Fresh(f[i], g[i])
  <2> DEFINE s == AND_pre_computation(reg[x].samples[i], reg[y].samples[i])
             b == (bits[x][i] /\ bits[y][i])
  <2>1. within /\ Bearable(s)
    BY <1>1, <1>3
  <2>2. Inputs(reg[x].samples[i], reg[y].samples[i], bits[x][i], bits[y][i])
    BY <1>1, <2>1, InputIs DEF Inputs
  <2>3. Decides(s, b)
    BY <2>2, LinearParts
  <2>4. b \in BOOLEAN
    BY <2>2 DEF Inputs
  <2>5. f[i] = key_switching(bootstrapping(s)) /\ g[i] = b
    OBVIOUS
  <2> HIDE DEF s, b, f, g
  <2>6. QED
    BY <2>1, <2>3, <2>4, <2>5, DecidedIsFresh
<1>4. f = [i \in 1 .. n |-> f[i]] /\ g = [i \in 1 .. n |-> g[i]]
  OBVIOUS
<1>5. Give(out, Tuple(f, n), Tuple(g, n))
  BY <1>1
<1>6. within' => within
  BY <1>1
<1> HIDE DEF f, g, n
<1>7. QED
  BY <1>1, <1>2, <1>3, <1>4, <1>5, <1>6, BatchKeeps

\* NOR: the register that is given may be one of the two inputs.
LEMMA NORKeeps ==
  ASSUME GatesInvariant, NOR
  PROVE  GatesInvariant'
<1>1. PICK x \in Registers, y \in Registers, out \in Registers :
         /\ Called /\ Shape(x) = Shape(y) /\ reg[x].generated /\ reg[y].generated
         /\ within' = (within /\ \A i \in 1 .. Shape(x) :
                          Bearable(NOR_pre_computation(reg[x].samples[i], reg[y].samples[i])))
         /\ Give(out,
              Tuple([i \in 1 .. Shape(x) |-> key_switching(bootstrapping(
                       NOR_pre_computation(reg[x].samples[i], reg[y].samples[i])))], Shape(x)),
              Tuple([i \in 1 .. Shape(x) |-> (~(bits[x][i] \/ bits[y][i]))], Shape(x)))
  BY DEF NOR, GateCall, Batch
<1> DEFINE n == Shape(x)
           f == [i \in 1 .. n |-> key_switching(bootstrapping(
                    NOR_pre_computation(reg[x].samples[i], reg[y].samples[i])))]
           g == [i \in 1 .. n |-> (~(bits[x][i] \/ bits[y][i]))]
<1>2. n \in Nat
  BY <1>1, InputIs
<1>3. ASSUME within', NEW i \in 1 .. n PROVE Fresh(f[i], g[i])
  <2> DEFINE s == NOR_pre_computation(reg[x].samples[i], reg[y].samples[i])
             b == (~(bits[x][i] \/ bits[y][i]))
  <2>1. within /\ Bearable(s)
    BY <1>1, <1>3
  <2>2. Inputs(reg[x].samples[i], reg[y].samples[i], bits[x][i], bits[y][i])
    BY <1>1, <2>1, InputIs DEF Inputs
  <2>3. Decides(s, b)
    BY <2>2, LinearParts
  <2>4. b \in BOOLEAN
    BY <2>2 DEF Inputs
  <2>5. f[i] = key_switching(bootstrapping(s)) /\ g[i] = b
    OBVIOUS
  <2> HIDE DEF s, b, f, g
  <2>6. QED
    BY <2>1, <2>3, <2>4, <2>5, DecidedIsFresh
<1>4. f = [i \in 1 .. n |-> f[i]] /\ g = [i \in 1 .. n |-> g[i]]
  OBVIOUS
<1>5. Give(out, Tuple(f, n), Tuple(g, n))
  BY <1>1
<1>6. within' => within
  BY <1>1
<1> HIDE DEF f, g, n
<1>7. QED
  BY <1>1, <1>2, <1>3, <1>4, <1>5, <1>6, BatchKeeps

\* OR: the register that is given may be one of the two inputs.
LEMMA ORKeeps ==
  ASSUME GatesInvariant, OR
  PROVE  GatesInvariant'
<1>1. PICK x \in Registers, y \in Registers, out \in Registers :
         /\ Called /\ Shape(x) = Shape(y) /\ reg[x].generated /\ reg[y].generated
         /\ within' = (within /\ \A i \in 1 .. Shape(x) :
                          Bearable(OR_pre_computation(reg[x].samples[i], reg[y].samples[i])))
         /\ Give(out,
              Tuple([i \in 1 .. Shape(x) |-> key_switching(bootstrapping(
                       OR_pre_computation(reg[x].samples[i], reg[y].samples[i])))], Shape(x)),
              Tuple([i \in 1 .. Shape(x) |-> (bits[x][i] \/ bits[y][i])], Shape(x)))
  BY DEF OR, GateCall, Batch
<1> DEFINE n == Shape(x)
           f == [i \in 1 .. n |-> key_switching(bootstrapping(
                    OR_pre_computation(reg[x].samples[i], reg[y].samples[i])))]
           g == [i \in 1 .. n |-> (bits[x][i] \/ bits[y][i])]
<1>2. n \in Nat
  BY <1>1, InputIs
<1>3. ASSUME within', NEW i \in 1 .. n PROVE Fresh(f[i], g[i])
  <2> DEFINE s == OR_pre_computation(reg[x].samples[i], reg[y].samples[i])
             b == (bits[x][i] \/ bits[y][i])
  <2>1. within /\ Bearable(s)
    BY <1>1, <1>3
  <2>2. Inputs(reg[x].samples[i], reg[y].samples[i], bits[x][i], bits[y][i])
    BY <1>1, <2>1, InputIs DEF Inputs
  <2>3. Decides(s, b)
    BY <2>2, LinearParts
  <2>4. b \in BOOLEAN
    BY <2>2 DEF Inputs
  <2>5. f[i] = key_switching(bootstrapping(s)) /\ g[i] = b
    OBVIOUS
  <2> HIDE DEF s, b, f, g
  <2>6. QED
    BY <2>1, <2>3, <2>4, <2>5, DecidedIsFresh
<1>4. f = [i \in 1 .. n |-> f[i]] /\ g = [i \in 1 .. n |-> g[i]]
  OBVIOUS
<1>5. Give(out, Tuple(f, n), Tuple(g, n))
  BY <1>1
<1>6. within' => within
  BY <1>1
<1> HIDE DEF f, g, n
<1>7. QED
  BY <1>1, <1>2, <1>3, <1>4, <1>5, <1>6, BatchKeeps

\* XNOR: the register that is given may be one of the two inputs.
LEMMA XNORKeeps ==
  ASSUME GatesInvariant, XNOR
  PROVE  GatesInvariant'
<1>1. PICK x \in Registers, y \in Registers, out \in Registers :
         /\ Called /\ Shape(x) = Shape(y) /\ reg[x].generated /\ reg[y].generated
         /\ within' = (within /\ \A i \in 1 .. Shape(x) :
                          Bearable(XNOR_pre_computation(reg[x].samples[i], reg[y].samples[i])))
         /\ Give(out,
              Tuple([i \in 1 .. Shape(x) |-> key_switching(bootstrapping(
                       XNOR_pre_computation(reg[x].samples[i], reg[y].samples[i])))], Shape(x)),
              Tuple([i \in 1 .. Shape(x) |-> (bits[x][i] = bits[y][i])], Shape(x)))
  BY DEF XNOR, GateCall, Batch
<1> DEFINE n == Shape(x)
           f == [i \in 1 .. n |-> key_switching(bootstrapping(
                    XNOR_pre_computation(reg[x].samples[i], reg[y].samples[i])))]
           g == [i \in 1 .. n |-> (bits[x][i] = bits[y][i])]
<1>2. n \in Nat
  BY <1>1, InputIs
<1>3. ASSUME within', NEW i \in 1 .. n PROVE Fresh(f[i], g[i])
  <2> DEFINE s == XNOR_pre_computation(reg[x].samples[i], reg[y].samples[i])
             b == (bits[x][i] = bits[y][i])
  <2>1. within /\ Bearable(s)
    BY <1>1, <1>3
  <2>2. Inputs(reg[x].samples[i], reg[y].samples[i], bits[x][i], bits[y][i])
    BY <1>1, <2>1, InputIs DEF Inputs
  <2>3. Decides(s, b)
    BY <2>2, LinearParts
  <2>4. b \in BOOLEAN
    BY <2>2 DEF Inputs
  <2>5. f[i] = key_switching(bootstrapping(s)) /\ g[i] = b
    OBVIOUS
  <2> HIDE DEF s, b, f, g
  <2>6. QED
    BY <2>1, <2>3, <2>4, <2>5, DecidedIsFresh
<1>4. f = [i \in 1 .. n |-> f[i]] /\ g = [i \in 1 .. n |-> g[i]]
  OBVIOUS
<1>5. Give(out, Tuple(f, n), Tuple(g, n))
  BY <1>1
<1>6. within' => within
  BY <1>1
<1> HIDE DEF f, g, n
<1>7. QED
  BY <1>1, <1>2, <1>3, <1>4, <1>5, <1>6, BatchKeeps

\* XOR: the register that is given may be one of the two inputs.
LEMMA XORKeeps ==
  ASSUME GatesInvariant, XOR
  PROVE  GatesInvariant'
<1>1. PICK x \in Registers, y \in Registers, out \in Registers :
         /\ Called /\ Shape(x) = Shape(y) /\ reg[x].generated /\ reg[y].generated
         /\ within' = (within /\ \A i \in 1 .. Shape(x) :
                          Bearable(XOR_pre_computation(reg[x].samples[i], reg[y].samples[i])))
         /\ Give(out,
              Tuple([i \in 1 .. Shape(x) |-> key_switching(bootstrapping(
                       XOR_pre_computation(reg[x].samples[i], reg[y].samples[i])))], Shape(x)),
              Tuple([i \in 1 .. Shape(x) |-> (bits[x][i] # bits[y][i])], Shape(x)))
  BY DEF XOR, GateCall, Batch
<1> DEFINE n == Shape(x)
           f == [i \in 1 .. n |-> key_switching(bootstrapping(
                    XOR_pre_computation(reg[x].samples[i], reg[y].samples[i])))]
           g == [i \in 1 .. n |-> (bits[x][i] # bits[y][i])]
<1>2. n \in Nat
  BY <1>1, InputIs
<1>3. ASSUME within', NEW i \in 1 .. n PROVE Fresh(f[i], g[i])
  <2> DEFINE s == XOR_pre_computation(reg[x].samples[i], reg[y].samples[i])
             b == (bits[x][i] # bits[y][i])
  <2>1. within /\ Bearable(s)
    BY <1>1, <1>3
  <2>2. Inputs(reg[x].samples[i], reg[y].samples[i], bits[x][i], bits[y][i])
    BY <1>1, <2>1, InputIs DEF Inputs
  <2>3. Decides(s, b)
    BY <2>2, LinearParts
  <2>4. b \in BOOLEAN
    BY <2>2 DEF Inputs
  <2>5. f[i] = key_switching(bootstrapping(s)) /\ g[i] = b
    OBVIOUS
  <2> HIDE DEF s, b, f, g
  <2>6. QED
    BY <2>1, <2>3, <2>4, <2>5, DecidedIsFresh
<1>4. f = [i \in 1 .. n |-> f[i]] /\ g = [i \in 1 .. n |-> g[i]]
  OBVIOUS
<1>5. Give(out, Tuple(f, n), Tuple(g, n))
  BY <1>1
<1>6. within' => within
  BY <1>1
<1> HIDE DEF f, g, n
<1>7. QED
  BY <1>1, <1>2, <1>3, <1>4, <1>5, <1>6, BatchKeeps

\* NOT keeps the noise of its input, and the register it replaces may be it.
LEMMA NOTKeeps ==
  ASSUME GatesInvariant, NOT
  PROVE  GatesInvariant'
<1>1. PICK x \in Registers, out \in Registers :
         /\ Called /\ reg[x].generated /\ within' = within
         /\ Give(out,
              Tuple([i \in 1 .. Shape(x) |-> NOT_computation(reg[x].samples[i])], Shape(x)),
              Tuple([i \in 1 .. Shape(x) |-> ~bits[x][i]], Shape(x)))
  BY DEF NOT, Batch
<1> DEFINE n == Shape(x)
           f == [i \in 1 .. n |-> NOT_computation(reg[x].samples[i])]
           g == [i \in 1 .. n |-> ~bits[x][i]]
<1>2. n \in Nat /\ (within => \A i \in 1 .. n : Fresh(reg[x].samples[i], bits[x][i]))
  BY <1>1, InputIs
<1>3. ASSUME within', NEW i \in 1 .. n PROVE Fresh(f[i], g[i])
  <2>1. Fresh(NOT_computation(reg[x].samples[i]), ~bits[x][i])
    BY <1>1, <1>2, <1>3, NegatedIsFresh
  <2>2. f[i] = NOT_computation(reg[x].samples[i]) /\ g[i] = ~bits[x][i]
    OBVIOUS
  <2>3. QED
    BY <2>1, <2>2
<1>4. f = [i \in 1 .. n |-> f[i]] /\ g = [i \in 1 .. n |-> g[i]]
  OBVIOUS
<1>5. Give(out, Tuple(f, n), Tuple(g, n))
  BY <1>1
<1>6. within' => within
  BY <1>1
<1> HIDE DEF f, g, n
<1>7. QED
  BY <1>1, <1>2, <1>3, <1>4, <1>5, <1>6, BatchKeeps

\* MUX takes three inputs, any of which the output may replace.
LEMMA MUXKeeps ==
  ASSUME GatesInvariant, MUX
  PROVE  GatesInvariant'
<1>1. PICK x \in Registers, y \in Registers, control \in Registers, out \in Registers :
         /\ Called /\ Shape(x) = Shape(y) /\ Shape(x) = Shape(control)
         /\ reg[x].generated /\ reg[y].generated /\ reg[control].generated
         /\ within' = (within /\ \A i \in 1 .. Shape(x) :
                          MuxBearable(reg[x].samples[i], reg[y].samples[i],
                                      reg[control].samples[i]))
         /\ Give(out,
              Tuple([i \in 1 .. Shape(x) |-> MuxSample(reg[x].samples[i],
                       reg[y].samples[i], reg[control].samples[i])], Shape(x)),
              Tuple([i \in 1 .. Shape(x) |->
                       IF bits[control][i] THEN bits[x][i] ELSE bits[y][i]], Shape(x)))
  BY DEF MUX, Batch
<1> DEFINE n == Shape(x)
           f == [i \in 1 .. n |-> MuxSample(reg[x].samples[i],
                                     reg[y].samples[i], reg[control].samples[i])]
           g == [i \in 1 .. n |-> IF bits[control][i] THEN bits[x][i] ELSE bits[y][i]]
<1>2. n \in Nat
  BY <1>1, InputIs
<1>3. ASSUME within', NEW i \in 1 .. n PROVE Fresh(f[i], g[i])
  <2>1. /\ within
        /\ MuxBearable(reg[x].samples[i], reg[y].samples[i], reg[control].samples[i])
    BY <1>1, <1>3
  <2>2. /\ Fresh(reg[x].samples[i], bits[x][i])
        /\ Fresh(reg[y].samples[i], bits[y][i])
        /\ Fresh(reg[control].samples[i], bits[control][i])
    BY <1>1, <2>1, InputIs
  <2>3. Fresh(MuxSample(reg[x].samples[i], reg[y].samples[i], reg[control].samples[i]),
              IF bits[control][i] THEN bits[x][i] ELSE bits[y][i])
    BY <2>1, <2>2, MuxIsFresh
  <2>4. QED
    BY <2>3
<1>4. f = [i \in 1 .. n |-> f[i]] /\ g = [i \in 1 .. n |-> g[i]]
  OBVIOUS
<1>5. Give(out, Tuple(f, n), Tuple(g, n))
  BY <1>1
<1>6. within' => within
  BY <1>1
<1> HIDE DEF f, g, n
<1>7. QED
  BY <1>1, <1>2, <1>3, <1>4, <1>5, <1>6, BatchKeeps

\* Encryption draws the mask and the error of this call.
LEMMA EncryptKeeps ==
  ASSUME GatesInvariant, NEW r \in Registers, NEW message \in Batches, encrypt(r, message)
  PROVE  GatesInvariant'
<1> DEFINE n == Len(message)
           f == [i \in 1 .. n |-> EncryptedSample(message[i], calls, i)]
<1>1. /\ Called /\ Give(r, Tuple(f, n), message)
      /\ within' = (within /\ \A i \in 1 .. n : Distance(EncryptionNoise[calls + i]) <= FreshNoise)
  BY DEF encrypt, encrypt_lwe_symmetric, Batch
<1>2. calls \in 0 .. (MaxCalls - 1)
  <2>1. calls < MaxCalls
    BY <1>1 DEF Called
  <2>2. calls \in 0 .. MaxCalls
    BY DEF GatesInvariant
  <2>3. QED
    BY <2>1, <2>2, Parameters
<1>3. n \in Nat
  BY MessagesAssumption
<1>4. ASSUME within', NEW i \in 1 .. n PROVE Fresh(f[i], message[i])
  <2>1. Distance(EncryptionNoise[calls + i]) <= FreshNoise
    BY <1>1, <1>4
  <2>2. QED
    BY <1>2, <2>1, EncryptedIsFresh
<1>5. f = [i \in 1 .. n |-> f[i]]
  OBVIOUS
<1> HIDE DEF f
<1>6. Tuple(f, n) = f /\ Len(Tuple(f, n)) = n
  BY <1>3, <1>5, BatchIs
<1>7. Fits(Tuple(f, n), message)
  BY <1>3, <1>6 DEF Fits
<1>8. within' => within /\ Good(Tuple(f, n), message)
  BY <1>1, <1>4, <1>6 DEF Good
<1>9. QED
  BY <1>1, <1>7, <1>8, GiveKeeps

\* A call without a control reads what is not there and changes no register.
LEMMA MuxWithoutControlKeeps ==
  ASSUME GatesInvariant, MuxWithoutControl
  PROVE  GatesInvariant'
<1>1. Called /\ reg' = reg /\ bits' = bits /\ within' = within
  BY DEF MuxWithoutControl
<1>2. calls' \in 0 .. MaxCalls
  BY <1>1, Parameters DEF Called, GatesInvariant
<1>3. QED
  BY <1>1, <1>2 DEF GatesInvariant

\* No register holds anything at first.
LEMMA InitGives == Init => GatesInvariant
<1> SUFFICES ASSUME Init PROVE GatesInvariant
  OBVIOUS
<1>1. /\ reg = [r \in Registers |-> Unused] /\ bits = [r \in Registers |-> << >>] /\ calls = 0
  BY DEF Init
<1>2. \A r \in Registers : ~reg[r].generated
  BY <1>1 DEF Unused
<1>3. calls \in 0 .. MaxCalls
  BY <1>1, Parameters
<1>4. QED
  BY <1>1, <1>2, <1>3 DEF GatesInvariant

\* Every action keeps what the registers hold.
LEMMA NextKeeps == GatesInvariant /\ [Next]_vars => GatesInvariant'
<1> SUFFICES ASSUME GatesInvariant, [Next]_vars PROVE GatesInvariant'
  OBVIOUS
<1>1. CASE \E r \in Registers, message \in Batches : encrypt(r, message)
  BY <1>1, EncryptKeeps
<1>2. CASE NAND
  BY <1>2, NANDKeeps
<1>3. CASE AND
  BY <1>3, ANDKeeps
<1>4. CASE NOR
  BY <1>4, NORKeeps
<1>5. CASE OR
  BY <1>5, ORKeeps
<1>6. CASE XNOR
  BY <1>6, XNORKeeps
<1>7. CASE XOR
  BY <1>7, XORKeeps
<1>8. CASE NOT
  BY <1>8, NOTKeeps
<1>9. CASE MUX
  BY <1>9, MUXKeeps
<1>10. CASE MuxWithoutControl
  BY <1>10, MuxWithoutControlKeeps
<1>11. CASE UNCHANGED vars
  BY <1>11 DEF vars, GatesInvariant
<1>12. QED
  BY <1>1, <1>2, <1>3, <1>4, <1>5, <1>6, <1>7, <1>8, <1>9, <1>10, <1>11 DEF Next

\* The invariant holds in every state.
LEMMA AlwaysInvariant == Spec => []GatesInvariant
  BY InitGives, NextKeeps, PTL DEF Spec

-----------------------------------------------------------------------------
(* The theorems. *)

(* The shape of a register is the number of bits it was made from, and no   *)
(* behaviour makes more calls than its bound.                               *)
THEOREM TypeCorrect == Spec => []TypeOK
<1>1. GatesInvariant => TypeOK
  BY DEF GatesInvariant, Fits, Shape, TypeOK
<1>2. QED
  BY <1>1, AlwaysInvariant, PTL

(* Whatever gates led to a register, and whatever the keys, the masks and   *)
(* the errors are: as long as the errors that the calls really made, each   *)
(* worked out from those of its own digits and rounding, kept to their      *)
(* budgets, a sample is no farther from its bit than the budget of one.     *)
(* So those errors are all there are, and none is handed on by a gate that  *)
(* bootstraps.                                                              *)
THEOREM NoiseBounded == Spec => []NoiseStaysBounded
<1>1. ASSUME GatesInvariant PROVE NoiseStaysBounded
  <2>1. ASSUME within, NEW r \in Registers, reg[r].generated, NEW i \in 1 .. Shape(r)
        PROVE  Distance(Phase(reg[r].samples[i]) - Ideal(bits[r][i])) <= FreshNoise
    BY <1>1, <2>1, InputIs, FreshOpens
  <2>2. QED
    BY <2>1 DEF NoiseStaysBounded
<1>2. QED
  BY <1>1, AlwaysInvariant, PTL

(* Within the same budgets every register decrypts to the bits that Boolean *)
(* logic gives, whatever gates led to it and whichever of its inputs it     *)
(* took the place of.                                                       *)
THEOREM RegistersOpenAlways == Spec => []RegistersOpen
<1>1. ASSUME GatesInvariant PROVE RegistersOpen
  <2>1. ASSUME within, NEW r \in Registers, reg[r].generated, NEW i \in 1 .. Shape(r)
        PROVE  Decrypted(reg[r].samples[i]) = bits[r][i]
    BY <1>1, <2>1, InputIs, FreshOpens
  <2>2. QED
    BY <2>1 DEF RegistersOpen
<1>2. QED
  BY <1>1, AlwaysInvariant, PTL

=============================================================================
