--------------------------- MODULE SlotCalculator ---------------------------
(* What the operators of BFV promise to a program: every ciphertext and    *)
(* every plaintext stands for a vector of numbers modulo T in two rows of  *)
(* RowSize slots, and a call replaces the vector of its result by a        *)
(* function of the vectors of its operands, or throws and replaces none.   *)
EXTENDS Integers, Functions

CONSTANTS
  Texts,        \* ciphertexts and plaintexts
  T,            \* the plain modulus
  RowSize,      \* slots of a row
  PowerOfX,     \* PowerOfX[k]: the slots of the polynomial X^k
  Calls         \* the calls a program may make

VARIABLES
  value,        \* value[t]: the slots t stands for
  call,         \* the last call
  outcome       \* "ok", or why the last call threw

calculator == <<value, call, outcome>>

Slots == 0 .. 2 * RowSize - 1
Vectors == [Slots -> 0 .. T - 1]

SlotBySlot(F(_, _), u, v) == [s \in Slots |-> F(u[s], v[s]) % T]
Plus(u, v) == SlotBySlot(LAMBDA a, b : a + b, u, v)
Minus(u, v) == SlotBySlot(LAMBDA a, b : a - b, u, v)
Times(u, v) == SlotBySlot(LAMBDA a, b : a * b, u, v)
All(k) == [s \in Slots |-> k]

(* The rows rotated by k to the left, and the rows exchanged.              *)
Rotated(v, k) ==
  [s \in Slots |-> v[RowSize * (s \div RowSize) + (((s % RowSize) + k) % RowSize)]]
Swapped(v) == [s \in Slots |-> v[(s + RowSize) % (2 * RowSize)]]

Truth(F(_, _), u, v) ==
  [s \in Slots |-> IF F(u[s] = 1, v[s] = 1) THEN 1 ELSE 0]

(* Every slot holds the sum of all slots.                                  *)
Summed(v) == All(FoldFunction(LAMBDA a, b : a + b, 0, v) % T)

(* The vector a call leaves in its result.                                 *)
Meant(c) ==
  LET u == value[c.x]
      v == value[c.y]
  IN CASE c.op = "add"     -> Plus(u, v)
       [] c.op = "sub"     -> Minus(u, v)
       [] c.op = "mul"     -> Times(u, v)
       [] c.op = "negate"  -> Minus(All(0), u)
       [] c.op = "same"    -> u
       [] c.op = "rows"    -> Rotated(u, c.k)
       [] c.op = "columns" -> Swapped(u)
       [] c.op = "power"   -> Times(u, PowerOfX[c.k])
       [] c.op = "sum"     -> Summed(u)
       [] c.op = "inner"   -> Summed(Times(u, v))
       [] c.op = "not"     -> Truth(LAMBDA p, q : ~p, u, v)
       [] c.op = "and"     -> Truth(LAMBDA p, q : p /\ q, u, v)
       [] c.op = "or"      -> Truth(LAMBDA p, q : p \/ q, u, v)
       [] c.op = "xor"     -> Truth(LAMBDA p, q : p # q, u, v)
       [] c.op = "nand"    -> Truth(LAMBDA p, q : ~(p /\ q), u, v)
       [] c.op = "nor"     -> Truth(LAMBDA p, q : ~(p \/ q), u, v)
       [] c.op = "xnor"    -> Truth(LAMBDA p, q : p = q, u, v)

(* Rotations of one operand by two steps, one for each ciphertext.         *)
Several(c) ==
  [t \in Texts |-> IF t \in DOMAIN c.ks THEN Rotated(value[c.x], c.ks[t])
                   ELSE value[t]]

Init == value \in [Texts -> Vectors] /\ outcome = "ok"

Next ==
  LET c == call'
  IN
    /\ c \in Calls
    /\ IF outcome' # "ok" THEN value' = value
       ELSE IF c.op = "hoisted" THEN value' = Several(c)
       ELSE value' = [value EXCEPT ![c.z] = Meant(c)]

Spec == Init /\ [][Next]_calculator
=============================================================================
