--------------------------- MODULE Objects_proofs ---------------------------
(***************************************************************************)
(* Proofs about Objects for every number of objects, messages and contexts *)
(* and every selection of classes.                                         *)
(***************************************************************************)
EXTENDS Objects, WellFoundedInduction, TLAPS

Places == {"device", "host"}
Ways == {"from", "to"}

(* What the steps of a call hand on.                                       *)
States ==
    [place : [Names -> Places], held : SUBSET Cells, memory : [Cells -> Content],
     busy : SUBSET ({Host(o) : o \in Names} \X Ways), rushed : Ends]

(* The data of o is where o is, and is d; no map of a Galois key has       *)
(* elements of another one, and one that is not generated has none.        *)
Pure(s, o, d) ==
    Merges => \A w \in Places : <<w, o>> \in s.held => s.memory[<<w, o>>] = d
Holds(s, o, d) ==
    /\ <<s.place[o], o>> \in s.held /\ s.memory[<<s.place[o], o>>] = d
    /\ Pure(s, o, d)
Bare(s, o) == \A w \in Places : <<w, o>> \notin s.held

(* The queue where moves wait: a class whose store_in_host waits leaves no *)
(* copy to host memory in it, and one whose every move waits nothing.      *)
Waits == Class_.upWaits /\ Class_.downWaits /\ Class_.copyWaits
Quiet(s) ==
    /\ Class_.downWaits => \A o \in Names : <<Host(o), "to">> \notin s.busy
    /\ Waits => s.busy = {}

(* No call has given back memory that its class must not.                  *)
InTime(s) ==
    /\ Class_.upWaits => s.rushed \notin {"store_in_device", "operation"}
    /\ Waits => s.rushed = "no"

(* Between s and t a call worked on o and left the other objects alone.    *)
Kept(s, t, p) ==
    /\ t.place[p] = s.place[p]
    /\ \A w \in Places : /\ <<w, p>> \in t.held <=> <<w, p>> \in s.held
                         /\ t.memory[<<w, p>>] = s.memory[<<w, p>>]
Elsewhere(s, t, o) == \A p \in Names \ {o} : Kept(s, t, p)

(* What the calls need of the classes: a copy takes with it the members of *)
(* an archive, and only the ciphertexts of BFV are given back without a    *)
(* wait.                                                                   *)
Sound(k) ==
    LET class == Classes[k]
    IN  /\ class.resets \in BOOLEAN
        /\ Range(class.writes) \ {"method", "count", "data", "keys"} \subseteq class.fields
        /\ k # "BfvCiphertext" => class.upWaits

(* A set of natural numbers has a smallest one.                            *)
LEMMA Smallest ==
  ASSUME NEW B \in SUBSET Nat, B # {}
  PROVE  \E m \in B : \A k \in B : m <= k
<1> DEFINE R == OpToRel(<, Nat)
<1>1. IsWellFoundedOn(R, Nat)
  BY NatLessThanWellFounded
<1>2. \A i, j \in Nat : i < j => <<i, j>> \in R
  BY DEF OpToRel
<1> HIDE DEF R
<1>3. PICK m \in B : \A k \in B : ~(<<k, m>> \in R)
  BY <1>1, WFMin
<1>4. m \in Nat
  OBVIOUS
<1>5. ASSUME NEW k \in B PROVE m <= k
  <2>1. k \in Nat /\ ~(k < m)
    BY <1>2, <1>3, <1>4
  <2>2. QED
    BY <2>1, <1>4
<1>6. QED
  BY <1>5


-----------------------------------------------------------------------------
(* The classes.                                                            *)

(* Every class is sound: its tables, read one by one.                      *)
LEMMA SoundClasses == \A k \in DOMAIN Classes : Sound(k)
<1>1. Sound("BfvCiphertext")
  <2>1. Classes["BfvCiphertext"] =
          Class(BfvCiphertextMoves, BfvCiphertextMemory, BfvCiphertextCopies,
                BfvCiphertextTransfers,
                BfvCiphertextWrites, BfvCiphertextReads, FALSE)
    BY DEF Classes
  <2>2. QED
    BY <2>1 DEF Sound, Class, Range, BfvCiphertextMoves, BfvCiphertextMemory,
              BfvCiphertextCopies, BfvCiphertextTransfers, BfvCiphertextWrites
<1>2. Sound("BfvPlaintext")
  <2>1. Classes["BfvPlaintext"] =
          Class(BfvPlaintextMoves, BfvPlaintextMemory, BfvPlaintextCopies,
                BfvPlaintextTransfers,
                BfvPlaintextWrites, BfvPlaintextReads, FALSE)
    BY DEF Classes
  <2>2. QED
    BY <2>1 DEF Sound, Class, Range, BfvPlaintextMoves, BfvPlaintextMemory,
              BfvPlaintextCopies, BfvPlaintextTransfers, BfvPlaintextWrites
<1>3. Sound("BfvSecretkey")
  <2>1. Classes["BfvSecretkey"] =
          Class(BfvSecretkeyMoves, BfvSecretkeyMemory, BfvSecretkeyCopies,
                BfvSecretkeyTransfers,
                BfvSecretkeyWrites, BfvSecretkeyReads, TRUE)
    BY DEF Classes
  <2>2. QED
    BY <2>1 DEF Sound, Class, Range, BfvSecretkeyMoves, BfvSecretkeyMemory,
              BfvSecretkeyCopies, BfvSecretkeyTransfers, BfvSecretkeyWrites
<1>4. Sound("BfvPublickey")
  <2>1. Classes["BfvPublickey"] =
          Class(BfvPublickeyMoves, BfvPublickeyMemory, BfvPublickeyCopies,
                BfvPublickeyTransfers,
                BfvPublickeyWrites, BfvPublickeyReads, FALSE)
    BY DEF Classes
  <2>2. QED
    BY <2>1 DEF Sound, Class, Range, BfvPublickeyMoves, BfvPublickeyMemory,
              BfvPublickeyCopies, BfvPublickeyTransfers, BfvPublickeyWrites
<1>5. Sound("BfvRelinkey")
  <2>1. Classes["BfvRelinkey"] =
          Class(BfvRelinkeyMoves, BfvRelinkeyMemory, BfvRelinkeyCopies,
                BfvRelinkeyTransfers,
                BfvRelinkeyWrites, BfvRelinkeyReads, FALSE)
    BY DEF Classes
  <2>2. QED
    BY <2>1 DEF Sound, Class, Range, BfvRelinkeyMoves, BfvRelinkeyMemory,
              BfvRelinkeyCopies, BfvRelinkeyTransfers, BfvRelinkeyWrites
<1>6. Sound("BfvGaloiskey")
  <2>1. Classes["BfvGaloiskey"] =
          Class(BfvGaloiskeyMoves, BfvGaloiskeyMemory, BfvGaloiskeyCopies,
                BfvGaloiskeyTransfers,
                BfvGaloiskeyWrites, BfvGaloiskeyReads, FALSE)
    BY DEF Classes
  <2>2. QED
    BY <2>1 DEF Sound, Class, Range, BfvGaloiskeyMoves, BfvGaloiskeyMemory,
              BfvGaloiskeyCopies, BfvGaloiskeyTransfers, BfvGaloiskeyWrites
<1>7. Sound("BfvSwitchkey")
  <2>1. Classes["BfvSwitchkey"] =
          Class(BfvSwitchkeyMoves, BfvSwitchkeyMemory, BfvSwitchkeyCopies,
                BfvSwitchkeyTransfers,
                BfvSwitchkeyWrites, BfvSwitchkeyReads, FALSE)
    BY DEF Classes
  <2>2. QED
    BY <2>1 DEF Sound, Class, Range, BfvSwitchkeyMoves, BfvSwitchkeyMemory,
              BfvSwitchkeyCopies, BfvSwitchkeyTransfers, BfvSwitchkeyWrites
<1>8. Sound("CkksCiphertext")
  <2>1. Classes["CkksCiphertext"] =
          Class(CkksCiphertextMoves, CkksCiphertextMemory, CkksCiphertextCopies,
                CkksCiphertextTransfers,
                CkksCiphertextWrites, CkksCiphertextReads, TRUE)
    BY DEF Classes
  <2>2. QED
    BY <2>1 DEF Sound, Class, Range, CkksCiphertextMoves, CkksCiphertextMemory,
              CkksCiphertextCopies, CkksCiphertextTransfers, CkksCiphertextWrites
<1>9. Sound("CkksPlaintext")
  <2>1. Classes["CkksPlaintext"] =
          Class(CkksPlaintextMoves, CkksPlaintextMemory, CkksPlaintextCopies,
                CkksPlaintextTransfers,
                CkksPlaintextWrites, CkksPlaintextReads, FALSE)
    BY DEF Classes
  <2>2. QED
    BY <2>1 DEF Sound, Class, Range, CkksPlaintextMoves, CkksPlaintextMemory,
              CkksPlaintextCopies, CkksPlaintextTransfers, CkksPlaintextWrites
<1>10. Sound("CkksSecretkey")
  <2>1. Classes["CkksSecretkey"] =
          Class(CkksSecretkeyMoves, CkksSecretkeyMemory, CkksSecretkeyCopies,
                CkksSecretkeyTransfers,
                CkksSecretkeyWrites, CkksSecretkeyReads, TRUE)
    BY DEF Classes
  <2>2. QED
    BY <2>1 DEF Sound, Class, Range, CkksSecretkeyMoves, CkksSecretkeyMemory,
              CkksSecretkeyCopies, CkksSecretkeyTransfers, CkksSecretkeyWrites
<1>11. Sound("CkksPublickey")
  <2>1. Classes["CkksPublickey"] =
          Class(CkksPublickeyMoves, CkksPublickeyMemory, CkksPublickeyCopies,
                CkksPublickeyTransfers,
                CkksPublickeyWrites, CkksPublickeyReads, FALSE)
    BY DEF Classes
  <2>2. QED
    BY <2>1 DEF Sound, Class, Range, CkksPublickeyMoves, CkksPublickeyMemory,
              CkksPublickeyCopies, CkksPublickeyTransfers, CkksPublickeyWrites
<1>12. Sound("CkksRelinkey")
  <2>1. Classes["CkksRelinkey"] =
          Class(CkksRelinkeyMoves, CkksRelinkeyMemory, CkksRelinkeyCopies,
                CkksRelinkeyTransfers,
                CkksRelinkeyWrites, CkksRelinkeyReads, FALSE)
    BY DEF Classes
  <2>2. QED
    BY <2>1 DEF Sound, Class, Range, CkksRelinkeyMoves, CkksRelinkeyMemory,
              CkksRelinkeyCopies, CkksRelinkeyTransfers, CkksRelinkeyWrites
<1>13. Sound("CkksGaloiskey")
  <2>1. Classes["CkksGaloiskey"] =
          Class(CkksGaloiskeyMoves, CkksGaloiskeyMemory, CkksGaloiskeyCopies,
                CkksGaloiskeyTransfers,
                CkksGaloiskeyWrites, CkksGaloiskeyReads, FALSE)
    BY DEF Classes
  <2>2. QED
    BY <2>1 DEF Sound, Class, Range, CkksGaloiskeyMoves, CkksGaloiskeyMemory,
              CkksGaloiskeyCopies, CkksGaloiskeyTransfers, CkksGaloiskeyWrites
<1>14. Sound("CkksSwitchkey")
  <2>1. Classes["CkksSwitchkey"] =
          Class(CkksSwitchkeyMoves, CkksSwitchkeyMemory, CkksSwitchkeyCopies,
                CkksSwitchkeyTransfers,
                CkksSwitchkeyWrites, CkksSwitchkeyReads, FALSE)
    BY DEF Classes
  <2>2. QED
    BY <2>1 DEF Sound, Class, Range, CkksSwitchkeyMoves, CkksSwitchkeyMemory,
              CkksSwitchkeyCopies, CkksSwitchkeyTransfers, CkksSwitchkeyWrites
<1>15. Sound("TfheCiphertext")
  <2>1. Classes["TfheCiphertext"] =
          Class(TfheCiphertextMoves, TfheCiphertextMemory, TfheCiphertextCopies,
                TfheCiphertextTransfers,
                <<>>, <<>>, FALSE)
    BY DEF Classes
  <2>2. QED
    BY <2>1 DEF Sound, Class, Range, TfheCiphertextMoves, TfheCiphertextMemory,
              TfheCiphertextCopies, TfheCiphertextTransfers
<1>16. Sound("TfheSecretkey")
  <2>1. Classes["TfheSecretkey"] =
          Class(TfheSecretkeyMoves, TfheSecretkeyMemory, TfheSecretkeyCopies,
                TfheSecretkeyTransfers,
                <<>>, <<>>, FALSE)
    BY DEF Classes
  <2>2. QED
    BY <2>1 DEF Sound, Class, Range, TfheSecretkeyMoves, TfheSecretkeyMemory,
              TfheSecretkeyCopies, TfheSecretkeyTransfers
<1>17. Sound("TfheBootstrappingkey")
  <2>1. Classes["TfheBootstrappingkey"] =
          Class(TfheBootstrappingkeyMoves, TfheBootstrappingkeyMemory, TfheBootstrappingkeyCopies,
                TfheBootstrappingkeyTransfers,
                <<>>, <<>>, FALSE)
    BY DEF Classes
  <2>2. QED
    BY <2>1 DEF Sound, Class, Range, TfheBootstrappingkeyMoves, TfheBootstrappingkeyMemory,
              TfheBootstrappingkeyCopies, TfheBootstrappingkeyTransfers
<1>18. QED
  BY <1>1, <1>2, <1>3, <1>4, <1>5, <1>6, <1>7, <1>8, <1>9, <1>10, <1>11, <1>12, <1>13, <1>14,
     <1>15, <1>16, <1>17 DEF Classes

-----------------------------------------------------------------------------
(* Memory.                                                                 *)

LEMMA CellsAre ==
  /\ \A o \in Names : Device(o) \in Cells /\ Host(o) \in Cells
  /\ \A o \in Names, w \in Places : <<w, o>> \in Cells
  /\ \A o, p \in Names : Device(o) # Host(p)
  /\ \A o, p \in Names : Device(o) = Device(p) => o = p
  /\ \A o, p \in Names : Host(o) = Host(p) => o = p
BY DEF Cells, Device, Host, Places

(* Zero, Mixed and Merged are no data of an object.                        *)
LEMMA NoDatum ==
  /\ Zero \notin Datum /\ Mixed \notin Datum /\ Merged \notin Datum
  /\ Zero \in Content /\ Mixed \in Content /\ Merged \in Content
BY ObjectsAssumption DEF Zero, Mixed, Merged, Datum, Content

(* The first of some steps is one of them.                                 *)
LEMMA FirstStep ==
  ASSUME NEW n \in Nat, NEW B \in SUBSET (1 .. n), B # {}
  PROVE  \E i \in 1 .. n : i \in B /\ \A j \in 1 .. (i - 1) : j \notin B
<1>1. PICK i \in B : \A j \in B : i <= j
  <2>1. B \in SUBSET Nat
    OBVIOUS
  <2>2. QED
    BY <2>1, Smallest
<1>2. QED
  BY <1>1

(* A Galois key is moved by its map, and only once load() marked it as     *)
(* generated does it write elements.                                       *)
LEMMA MapsAre ==
  ASSUME NEW k \in Maps
  PROVE  LET class == Classes[k]
         IN  /\ ~class.both /\ ~class.resets
             /\ DOMAIN class.reads = 1 .. 17 /\ Len(class.reads) = 17
             /\ class.reads[12] = "mark!"
             /\ \A i \in 1 .. 11 : class.reads[i] # "data"
             /\ ~class.atOnce
<1>1. CASE k = "BfvGaloiskey"
  BY <1>1 DEF Classes, Class, BfvGaloiskeyTransfers, BfvGaloiskeyReads
<1>2. CASE k = "CkksGaloiskey"
  BY <1>2 DEF Classes, Class, CkksGaloiskeyTransfers, CkksGaloiskeyReads
<1>3. QED
  BY <1>1, <1>2 DEF Maps

LEMMA MapsLoad ==
  ASSUME NEW k \in Maps, NEW cut, NEW out \in LoadOutcomes(Classes[k], cut), ~out.marked
  PROVE  out.data = "kept"
<1> DEFINE class == Classes[k]
<1>1. /\ DOMAIN class.reads = 1 .. 17 /\ Len(class.reads) = 17 /\ class.reads[12] = "mark!"
      /\ \A i \in 1 .. 11 : class.reads[i] # "data"
      /\ ~class.atOnce
  BY MapsAre
<1> HIDE DEF class
<1>2. PICK throws \in ThrowsAt(class, cut) : out = Outcome(class, cut, throws)
  BY DEF LoadOutcomes, class
<1>3. throws \in Int
  <2> DEFINE may == {i \in 1 .. 17 : MayThrow(class, i, cut)}
             must == {i \in 1 .. 17 : MustThrow(class, i, cut)}
  <2>1. /\ may # {} => \E i \in 1 .. 17 : i \in may /\ \A j \in 1 .. (i - 1) : j \notin may
        /\ must # {} => \E i \in 1 .. 17 : i \in must /\ \A j \in 1 .. (i - 1) : j \notin must
    <3>1. may \in SUBSET (1 .. 17) /\ must \in SUBSET (1 .. 17) /\ 17 \in Nat
      OBVIOUS
    <3> HIDE DEF may, must
    <3>2. QED
      BY <3>1, FirstStep
  <2>2. /\ \A i \in 1 .. 17 : \A j \in 1 .. (i - 1) : j \in 1 .. 17
        /\ \A j \in 1 .. 17 : (j \in may <=> MayThrow(class, j, cut))
                               /\ (j \in must <=> MustThrow(class, j, cut))
    OBVIOUS
  <2>3. /\ (\E i \in 1 .. 17 : MayThrow(class, i, cut)) =>
             \E i \in 1 .. 17 : /\ MayThrow(class, i, cut)
                                 /\ \A j \in 1 .. (i - 1) : ~MayThrow(class, j, cut)
        /\ (\E i \in 1 .. 17 : MustThrow(class, i, cut)) =>
             \E i \in 1 .. 17 : /\ MustThrow(class, i, cut)
                                 /\ \A j \in 1 .. (i - 1) : ~MustThrow(class, j, cut)
    BY <2>1, <2>2
  <2> DEFINE a == IF \E i \in 1 .. 17 : MustThrow(class, i, cut)
                  THEN CHOOSE i \in 1 .. 17 : /\ MustThrow(class, i, cut)
                                         /\ \A j \in 1 .. (i - 1) : ~MustThrow(class, j, cut)
                  ELSE 17 + 1
             b == IF \E i \in 1 .. 17 : MayThrow(class, i, cut)
                  THEN CHOOSE i \in 1 .. 17 : /\ MayThrow(class, i, cut)
                                         /\ \A j \in 1 .. (i - 1) : ~MayThrow(class, j, cut)
                  ELSE 17 + 1
  <2>4. a \in Int /\ b \in Int
    BY <2>3
  <2>5. throws \in {a, b}
    BY <1>1, <1>2 DEF ThrowsAt
  <2>6. QED
    BY <2>4, <2>5
<1>4. ~Done(class, throws, "mark!") /\ (~Done(class, throws, "data") => out.data = "kept")
  BY <1>1, <1>2 DEF Outcome
<1>5. ~(12 \in 1 .. (throws - 1))
  BY <1>1, <1>4 DEF Done
<1>6. ~Done(class, throws, "data")
  BY <1>1, <1>3, <1>5 DEF Done
<1>7. QED
  BY <1>4, <1>6

(* A step of a call: what it makes of a state is one, and other objects    *)
(* stay as they are.                                                       *)
LEMMA FilledWorks ==
  ASSUME NEW s \in States, NEW o \in Names, NEW w \in Places, NEW d \in Content
  PROVE  LET t == Filled(s, <<w, o>>, d)
         IN  /\ t \in States
             /\ t.place = s.place /\ t.busy = s.busy /\ t.rushed = s.rushed
             /\ <<w, o>> \in t.held
             /\ Elsewhere(s, t, o)
             /\ Pure(s, o, d) => t.memory[<<w, o>>] = d /\ Pure(t, o, d)
<1> DEFINE t == Filled(s, <<w, o>>, d)
           j == Joined(s, <<w, o>>, d)
<1>1. <<w, o>> \in Cells
  BY CellsAre
<1>2. j \in Content /\ (Pure(s, o, d) => j = d)
  BY NoDatum DEF Joined, Pure
<1>3. t = [s EXCEPT !.held = @ \cup {<<w, o>>}, !.memory[<<w, o>>] = j]
  BY DEF Filled
<1> HIDE DEF j, t
<1>4. /\ t.place = s.place /\ t.busy = s.busy /\ t.rushed = s.rushed
      /\ t.held = s.held \cup {<<w, o>>} /\ t.memory = [s.memory EXCEPT ![<<w, o>>] = j]
      /\ t \in States
  BY <1>1, <1>2, <1>3 DEF States
<1>5. Elsewhere(s, t, o)
  BY <1>1, <1>4, CellsAre DEF Elsewhere, Kept, States
<1>6. Pure(s, o, d) => t.memory[<<w, o>>] = d /\ Pure(t, o, d)
  BY <1>1, <1>2, <1>4, CellsAre DEF Pure, States
<1>7. QED
  BY <1>4, <1>5, <1>6 DEF t

(* Memory given back: that of o, and too early only if a command uses it.  *)
LEMMA HostReleasedWorks ==
  ASSUME NEW s \in States, NEW o \in Names, NEW call \in Ends
  PROVE  LET t == HostReleased(s, o, call)
         IN  /\ t \in States
             /\ t.place = s.place /\ t.busy = s.busy
             /\ t.rushed \in {s.rushed, call}
             /\ s.busy = {} => t.rushed = s.rushed
             /\ t.held = s.held \ {Host(o)}
             /\ Elsewhere(s, t, o)
             /\ \A d \in Content : Pure(s, o, d) => Pure(t, o, d)
             /\ t.memory[Device(o)] = s.memory[Device(o)]
<1> DEFINE t == HostReleased(s, o, call)
<1>1. Host(o) \in Cells /\ Zero \in Content
  BY CellsAre DEF Content
<1>2. /\ t.place = s.place /\ t.busy = s.busy
      /\ t.held = s.held \ {Host(o)} /\ t.memory = [s.memory EXCEPT ![Host(o)] = Zero]
      /\ t.rushed = IF InUse(s, o) THEN call ELSE s.rushed
      /\ t \in States
  BY <1>1 DEF HostReleased, States
<1> HIDE DEF t
<1>3. s.busy = {} => ~InUse(s, o)
  BY DEF InUse
<1>4. Elsewhere(s, t, o)
  BY <1>1, <1>2, CellsAre DEF Elsewhere, Kept, States, Host
<1>5. /\ \A d \in Content : Pure(s, o, d) => Pure(t, o, d)
      /\ t.memory[Device(o)] = s.memory[Device(o)]
  BY <1>1, <1>2, CellsAre DEF Pure, States, Host, Device
<1>6. QED
  BY <1>2, <1>3, <1>4, <1>5 DEF t

LEMMA DeviceReleasedWorks ==
  ASSUME NEW s \in States, NEW o \in Names
  PROVE  LET t == DeviceReleased(s, o)
         IN  /\ t \in States
             /\ t.place = s.place /\ t.busy = s.busy /\ t.rushed = s.rushed
             /\ t.held = s.held \ {Device(o)}
             /\ Elsewhere(s, t, o)
             /\ \A d \in Content : Pure(s, o, d) => Pure(t, o, d)
             /\ \A d \in Content : s.place[o] = "host" /\ Holds(s, o, d) => Holds(t, o, d)
<1> DEFINE t == DeviceReleased(s, o)
<1>1. Device(o) \in Cells /\ Zero \in Content
  BY CellsAre DEF Content
<1>2. /\ t.place = s.place /\ t.busy = s.busy /\ t.rushed = s.rushed
      /\ t.held = s.held \ {Device(o)} /\ t.memory = [s.memory EXCEPT ![Device(o)] = Zero]
      /\ t \in States
  BY <1>1 DEF DeviceReleased, States
<1> HIDE DEF t
<1>3. Elsewhere(s, t, o)
  BY <1>1, <1>2, CellsAre DEF Elsewhere, Kept, States, Device
<1>4. \A d \in Content : Pure(s, o, d) => Pure(t, o, d)
  BY <1>1, <1>2, CellsAre DEF Pure, States, Device
<1>5. \A d \in Content : s.place[o] = "host" /\ Holds(s, o, d) => Holds(t, o, d)
  BY <1>1, <1>2, <1>4, CellsAre DEF Holds, States, Host, Device, Places
<1>6. QED
  BY <1>2, <1>3, <1>4, <1>5 DEF t

(* New host memory in the place of the old.                                *)
LEMMA HostReplacedWorks ==
  ASSUME NEW s \in States, NEW o \in Names, NEW call \in Ends
  PROVE  LET t == HostReplaced(s, o, call)
         IN  /\ t \in States
             /\ t.place = s.place /\ t.busy = s.busy
             /\ t.rushed \in {s.rushed, call}
             /\ s.busy = {} => t.rushed = s.rushed
             /\ t.held \subseteq s.held
             /\ Elsewhere(s, t, o)
             /\ \A d \in Content : Pure(s, o, d) => Pure(t, o, d)
             /\ t.memory[Device(o)] = s.memory[Device(o)]
<1> DEFINE t == HostReplaced(s, o, call)
<1>1. CASE Merges
  <2>1. /\ t.place = s.place /\ t.busy = s.busy /\ t.held = s.held /\ t.memory = s.memory
        /\ t.rushed = IF InUse(s, o) THEN call ELSE s.rushed
        /\ t \in States
    BY <1>1 DEF HostReplaced, States
  <2>2. s.busy = {} => ~InUse(s, o)
    BY DEF InUse
  <2> HIDE DEF t
  <2>3. QED
    BY <2>1, <2>2 DEF Elsewhere, Kept, Pure, t
<1>2. CASE ~Merges
  <2>1. t = HostReleased(s, o, call)
    BY <1>2 DEF HostReplaced
  <2>2. QED
    BY <2>1, HostReleasedWorks
<1>3. QED
  BY <1>1, <1>2

(* The buffer an object does not use is forgotten.                         *)
LEMMA LeftOverWorks ==
  ASSUME NEW s \in States, NEW o \in Names, NEW w \in Places
  PROVE  LET t == LeftOver(s, <<w, o>>)
         IN  /\ t \in States
             /\ t.place = s.place /\ t.busy = s.busy /\ t.rushed = s.rushed
             /\ t.held = s.held
             /\ Elsewhere(s, t, o)
             /\ \A d \in Content : s.place[o] # w /\ Holds(s, o, d) => Holds(t, o, d)
<1> DEFINE t == LeftOver(s, <<w, o>>)
<1>1. CASE Merges
  <2>1. t = s
    BY <1>1 DEF LeftOver
  <2> HIDE DEF t
  <2>2. QED
    BY <2>1 DEF Elsewhere, Kept, t
<1>2. CASE ~Merges
  <2>1. <<w, o>> \in Cells /\ Zero \in Content
    BY CellsAre DEF Content
  <2>2. /\ t.place = s.place /\ t.busy = s.busy /\ t.rushed = s.rushed
        /\ t.held = s.held /\ t.memory = [s.memory EXCEPT ![<<w, o>>] = Zero]
        /\ t \in States
    BY <1>2, <2>1 DEF LeftOver, States
  <2> HIDE DEF t
  <2>3. Elsewhere(s, t, o)
    BY <2>1, <2>2, CellsAre DEF Elsewhere, Kept, States
  <2>4. \A d \in Content : s.place[o] # w /\ Holds(s, o, d) => Holds(t, o, d)
    BY <1>2, <2>1, <2>2, CellsAre DEF Holds, Pure, States
  <2>5. QED
    BY <2>2, <2>3, <2>4 DEF t
<1>3. QED
  BY <1>1, <1>2

(* A place changes: that of o.                                             *)
LEMMA PlacedWorks ==
  ASSUME NEW s \in States, NEW o \in Names, NEW w \in Places
  PROVE  LET t == [s EXCEPT !.place[o] = w]
         IN  /\ t \in States
             /\ t.place = [s.place EXCEPT ![o] = w] /\ t.place[o] = w
             /\ t.held = s.held /\ t.memory = s.memory
             /\ t.busy = s.busy /\ t.rushed = s.rushed
             /\ Elsewhere(s, t, o)
             /\ \A d \in Content : Pure(s, o, d) => Pure(t, o, d)
             /\ \A d \in Content : s.place[o] = w /\ Holds(s, o, d) => Holds(t, o, d)
<1> DEFINE t == [s EXCEPT !.place[o] = w]
<1>1. /\ t \in States
      /\ t.place = [s.place EXCEPT ![o] = w]
      /\ t.held = s.held /\ t.memory = s.memory
      /\ t.busy = s.busy /\ t.rushed = s.rushed
  BY DEF States
<1> HIDE DEF t
<1>2. QED
  BY <1>1 DEF States, Elsewhere, Kept, Holds, Pure, t

LEMMA DrainedIfWorks ==
  ASSUME NEW s \in States, NEW waits
  PROVE  LET t == DrainedIf(waits, s)
         IN  /\ t \in States
             /\ t.place = s.place /\ t.held = s.held /\ t.memory = s.memory
             /\ t.rushed = s.rushed
             /\ t.busy \in {s.busy, {}}
             /\ waits => t.busy = {}
             /\ \A o \in Names : Elsewhere(s, t, o)
             /\ \A o \in Names, d \in Content : /\ Holds(s, o, d) => Holds(t, o, d)
                                                /\ Pure(s, o, d) => Pure(t, o, d)
<1> DEFINE t == DrainedIf(waits, s)
<1>1. /\ t \in States
      /\ t.place = s.place /\ t.held = s.held /\ t.memory = s.memory
      /\ t.rushed = s.rushed
      /\ t.busy \in {s.busy, {}}
      /\ waits => t.busy = {}
  BY DEF DrainedIf, Drained, States
<1> HIDE DEF t
<1>2. QED
  BY <1>1 DEF Elsewhere, Kept, Holds, Pure, t

(* A copy to the other memory has the same data; the queue gets a command. *)
LEMMA ToDeviceWorks ==
  ASSUME NEW s \in States, NEW o \in Names
  PROVE  LET t == ToDevice(s, o)
             d == s.memory[Host(o)]
         IN  /\ t \in States
             /\ t.place = s.place /\ t.rushed = s.rushed
             /\ t.busy = s.busy \cup {<<Host(o), "from">>}
             /\ Device(o) \in t.held
             /\ Pure(s, o, d) => t.memory[Device(o)] = d /\ Pure(t, o, d)
             /\ Elsewhere(s, t, o)
<1> DEFINE d == s.memory[Host(o)]
           f == Filled(s, Device(o), d)
           t == ToDevice(s, o)
<1>1. d \in Content
  BY CellsAre DEF States
<1>2. Device(o) = <<"device", o>> /\ "device" \in Places
  BY DEF Device, Places
<1> HIDE DEF d
<1>3. /\ f \in States /\ f.place = s.place /\ f.busy = s.busy /\ f.rushed = s.rushed
      /\ Device(o) \in f.held /\ Elsewhere(s, f, o)
      /\ Pure(s, o, d) => f.memory[Device(o)] = d /\ Pure(f, o, d)
  BY <1>1, <1>2, FilledWorks
<1>4. t = [f EXCEPT !.busy = @ \cup {<<Host(o), "from">>}]
  BY DEF ToDevice, d
<1> HIDE DEF f
<1>5. /\ t \in States /\ t.place = f.place /\ t.held = f.held /\ t.memory = f.memory
      /\ t.rushed = f.rushed /\ t.busy = f.busy \cup {<<Host(o), "from">>}
  BY <1>3, <1>4 DEF States, Ways
<1> HIDE DEF t
<1>6. Elsewhere(s, t, o) /\ (Pure(f, o, d) => Pure(t, o, d))
  BY <1>3, <1>5 DEF Elsewhere, Kept, Pure
<1>7. QED
  BY <1>3, <1>5, <1>6 DEF d, t

LEMMA ToHostWorks ==
  ASSUME NEW s \in States, NEW o \in Names
  PROVE  LET t == ToHost(s, o)
             d == s.memory[Device(o)]
         IN  /\ t \in States
             /\ t.place = s.place /\ t.rushed = s.rushed
             /\ t.busy = s.busy \cup {<<Host(o), "to">>}
             /\ Host(o) \in t.held
             /\ Pure(s, o, d) => t.memory[Host(o)] = d /\ Pure(t, o, d)
             /\ Elsewhere(s, t, o)
<1> DEFINE d == s.memory[Device(o)]
           f == Filled(s, Host(o), d)
           t == ToHost(s, o)
<1>1. d \in Content
  BY CellsAre DEF States
<1>2. Host(o) = <<"host", o>> /\ "host" \in Places
  BY DEF Host, Places
<1> HIDE DEF d
<1>3. /\ f \in States /\ f.place = s.place /\ f.busy = s.busy /\ f.rushed = s.rushed
      /\ Host(o) \in f.held /\ Elsewhere(s, f, o)
      /\ Pure(s, o, d) => f.memory[Host(o)] = d /\ Pure(f, o, d)
  BY <1>1, <1>2, FilledWorks
<1>4. t = [f EXCEPT !.busy = @ \cup {<<Host(o), "to">>}]
  BY DEF ToHost, d
<1> HIDE DEF f
<1>5. /\ t \in States /\ t.place = f.place /\ t.held = f.held /\ t.memory = f.memory
      /\ t.rushed = f.rushed /\ t.busy = f.busy \cup {<<Host(o), "to">>}
  BY <1>3, <1>4 DEF States, Ways
<1> HIDE DEF t
<1>6. Elsewhere(s, t, o) /\ (Pure(f, o, d) => Pure(t, o, d))
  BY <1>3, <1>5 DEF Elsewhere, Kept, Pure
<1>7. QED
  BY <1>3, <1>5, <1>6 DEF d, t

-----------------------------------------------------------------------------
(* Moves of an object.                                                     *)

(* What a call that works on o may do: the other objects keep their data,  *)
(* the queue stays as its class promises, and memory is given back early   *)
(* only by a class that does not always wait, under the name of the call.  *)
Works(s, t, o, call) ==
    /\ t \in States
    /\ Elsewhere(s, t, o)
    /\ Quiet(s) => Quiet(t)
    /\ t.rushed \in {s.rushed, call}
    /\ Waits /\ Quiet(s) => t.rushed = s.rushed

(* Steps one after the other.                                              *)
LEMMA ElsewhereFollows ==
  ASSUME NEW s, NEW t, NEW u, NEW o \in Names, Elsewhere(s, t, o), Elsewhere(t, u, o)
  PROVE  Elsewhere(s, u, o)
BY DEF Elsewhere, Kept

(* What an object holds is all that its maps hold.                         *)
LEMMA HeldIsPure ==
  ASSUME NEW s \in States, NEW o \in Names, NEW d \in Content
  PROVE  /\ Holds(s, o, d) => Pure(s, o, d)
         /\ Holds(s, o, d) => s.memory[<<s.place[o], o>>] = d
         /\ s.place[o] \in Places
         /\ Pure(s, o, d) /\ <<s.place[o], o>> \in s.held /\ s.memory[<<s.place[o], o>>] = d
              => Holds(s, o, d)
BY DEF Holds, States

LEMMA StoredInDeviceWorks ==
  ASSUME NEW s \in States, NEW o \in Names, NEW call \in Ends
  PROVE  LET t == StoredInDevice(s, o, call)
         IN  /\ Works(s, t, o, call)
             /\ t.place[o] = "device"
             /\ Class_.upWaits => t.rushed = s.rushed
             /\ \A d \in Content : Holds(s, o, d) => Holds(t, o, d)
<1> DEFINE t == StoredInDevice(s, o, call)
           m == [s EXCEPT !.place[o] = "device"]
           u == ToDevice(m, o)
           v == DrainedIf(Class_.upWaits, u)
           w == HostReleased(v, o, call)
<1>1. /\ m \in States /\ m.place[o] = "device"
      /\ m.held = s.held /\ m.memory = s.memory /\ m.busy = s.busy /\ m.rushed = s.rushed
      /\ Elsewhere(s, m, o)
      /\ \A d \in Content : Pure(s, o, d) => Pure(m, o, d)
      /\ \A d \in Content : s.place[o] = "device" /\ Holds(s, o, d) => Holds(m, o, d)
  <2>1. "device" \in Places
    BY DEF Places
  <2>2. QED
    BY <2>1, PlacedWorks
<1> HIDE DEF m
<1>2. CASE s.place[o] = "device" \/ Host(o) \notin s.held
  <2>1. t = m
    BY <1>2 DEF StoredInDevice, m
  <2>2. s.place[o] # "device" => s.place[o] = "host"
    BY DEF States, Places
  <2>3. \A d \in Content : Holds(s, o, d) => Holds(t, o, d)
    BY <1>1, <1>2, <2>1, <2>2 DEF Holds, Host
  <2>4. QED
    BY <1>1, <2>1, <2>3 DEF Works, Quiet
<1>3. CASE ~(s.place[o] = "device" \/ Host(o) \notin s.held)
  <2>1. t = w
    BY <1>3 DEF StoredInDevice, m, u, v, w
  <2>2. /\ u \in States /\ u.place = m.place /\ u.rushed = m.rushed
        /\ u.busy = m.busy \cup {<<Host(o), "from">>}
        /\ Device(o) \in u.held
        /\ Pure(m, o, m.memory[Host(o)]) =>
             u.memory[Device(o)] = m.memory[Host(o)] /\ Pure(u, o, m.memory[Host(o)])
        /\ Elsewhere(m, u, o)
    BY <1>1, ToDeviceWorks
  <2> HIDE DEF u
  <2>3. /\ v \in States /\ v.place = u.place /\ v.held = u.held /\ v.memory = u.memory
        /\ v.rushed = u.rushed /\ v.busy \in {u.busy, {}}
        /\ Class_.upWaits => v.busy = {}
        /\ Elsewhere(u, v, o)
        /\ \A d \in Content : Pure(u, o, d) => Pure(v, o, d)
    BY <2>2, DrainedIfWorks
  <2> HIDE DEF v
  <2>4. /\ w \in States /\ w.place = v.place /\ w.busy = v.busy
        /\ w.rushed \in {v.rushed, call}
        /\ v.busy = {} => w.rushed = v.rushed
        /\ Elsewhere(v, w, o)
        /\ Device(o) \in v.held => Device(o) \in w.held
        /\ w.memory[Device(o)] = v.memory[Device(o)]
        /\ \A d \in Content : Pure(v, o, d) => Pure(w, o, d)
    BY <2>3, HostReleasedWorks, CellsAre
  <2> HIDE DEF w
  <2>5. Elsewhere(s, w, o)
    BY <1>1, <2>2, <2>3, <2>4, ElsewhereFollows
  <2>6. ASSUME NEW d \in Content, Holds(s, o, d)
        PROVE  Holds(w, o, d)
    <3>1. s.place[o] = "host"
      BY <1>3 DEF States, Places
    <3>2. d = m.memory[Host(o)] /\ Pure(m, o, d)
      BY <3>1, <2>6, <1>1 DEF Holds, Host
    <3>3. Device(o) \in w.held /\ w.memory[Device(o)] = d /\ Pure(w, o, d)
      BY <3>2, <2>2, <2>3, <2>4
    <3>4. w.place[o] = "device"
      BY <1>1, <2>2, <2>3, <2>4
    <3>5. QED
      BY <3>3, <3>4 DEF Holds, Device
  <2>7. Quiet(s) => Quiet(w)
    BY <1>1, <2>2, <2>3, <2>4 DEF Quiet, Waits
  <2>8. QED
    BY <1>1, <2>1, <2>2, <2>3, <2>4, <2>5, <2>6, <2>7 DEF Works, Waits
<1>4. QED
  BY <1>2, <1>3

LEMMA StoredInHostWorks ==
  ASSUME NEW s \in States, NEW o \in Names, NEW call \in Ends
  PROVE  LET t == StoredInHost(s, o, call)
         IN  /\ Works(s, t, o, call)
             /\ \A d \in Content : Holds(s, o, d) => Holds(t, o, d)
<1> DEFINE t == StoredInHost(s, o, call)
           m == [s EXCEPT !.place[o] = "host"]
           r == HostReplaced(m, o, call)
           u == ToHost(r, o)
           v == DrainedIf(Class_.downWaits, u)
           w == DeviceReleased(v, o)
<1>1. /\ m \in States /\ m.place[o] = "host"
      /\ m.held = s.held /\ m.memory = s.memory /\ m.busy = s.busy /\ m.rushed = s.rushed
      /\ Elsewhere(s, m, o)
      /\ \A d \in Content : Pure(s, o, d) => Pure(m, o, d)
      /\ \A d \in Content : s.place[o] = "host" /\ Holds(s, o, d) => Holds(m, o, d)
  <2> HIDE DEF t, r, u, v, w
  <2>1. "host" \in Places
    BY DEF Places
  <2>2. /\ m \in States /\ m.place[o] = "host"
        /\ m.held = s.held /\ m.memory = s.memory /\ m.busy = s.busy /\ m.rushed = s.rushed
    BY <2>1, PlacedWorks
  <2>3. /\ Elsewhere(s, m, o)
        /\ \A d \in Content : Pure(s, o, d) => Pure(m, o, d)
        /\ \A d \in Content : s.place[o] = "host" /\ Holds(s, o, d) => Holds(m, o, d)
    BY <2>1, PlacedWorks
  <2>4. QED
    BY <2>2, <2>3
<1> HIDE DEF m
<1>2. CASE s.place[o] = "host" \/ Device(o) \notin s.held
  <2>1. t = m
    BY <1>2 DEF StoredInHost, m
  <2>2. s.place[o] # "host" => s.place[o] = "device"
    BY DEF States, Places
  <2>3. \A d \in Content : Holds(s, o, d) => Holds(t, o, d)
    BY <1>1, <1>2, <2>1, <2>2 DEF Holds, Device
  <2>4. QED
    BY <1>1, <2>1, <2>3 DEF Works, Quiet
<1>3. CASE ~(s.place[o] = "host" \/ Device(o) \notin s.held)
  <2>1. t = w
    BY <1>3 DEF StoredInHost, m, r, u, v, w
  <2>2. /\ r \in States /\ r.place = m.place /\ r.busy = m.busy
        /\ r.rushed \in {m.rushed, call}
        /\ m.busy = {} => r.rushed = m.rushed
        /\ Elsewhere(m, r, o)
        /\ \A d \in Content : Pure(m, o, d) => Pure(r, o, d)
        /\ r.memory[Device(o)] = m.memory[Device(o)]
    BY <1>1, HostReplacedWorks
  <2> HIDE DEF r
  <2>3. /\ u \in States /\ u.place = r.place /\ u.rushed = r.rushed
        /\ u.busy = r.busy \cup {<<Host(o), "to">>}
        /\ Host(o) \in u.held
        /\ Pure(r, o, r.memory[Device(o)]) =>
             u.memory[Host(o)] = r.memory[Device(o)] /\ Pure(u, o, r.memory[Device(o)])
        /\ Elsewhere(r, u, o)
    BY <2>2, ToHostWorks
  <2> HIDE DEF u
  <2>4. /\ v \in States /\ v.place = u.place /\ v.held = u.held /\ v.memory = u.memory
        /\ v.rushed = u.rushed /\ v.busy \in {u.busy, {}}
        /\ Class_.downWaits => v.busy = {}
        /\ Elsewhere(u, v, o)
        /\ \A d \in Content : Holds(u, o, d) => Holds(v, o, d)
    BY <2>3, DrainedIfWorks
  <2> HIDE DEF v
  <2>5. /\ w \in States /\ w.place = v.place /\ w.busy = v.busy /\ w.rushed = v.rushed
        /\ Elsewhere(v, w, o)
        /\ \A d \in Content : v.place[o] = "host" /\ Holds(v, o, d) => Holds(w, o, d)
    BY <2>4, DeviceReleasedWorks
  <2> HIDE DEF w
  <2>6. Elsewhere(s, w, o)
    BY <1>1, <2>2, <2>3, <2>4, <2>5, ElsewhereFollows
  <2>7. ASSUME NEW d \in Content, Holds(s, o, d)
        PROVE  Holds(w, o, d)
    <3>1. s.place[o] = "device"
      BY <1>3 DEF States, Places
    <3>2. d = r.memory[Device(o)] /\ Pure(r, o, d)
      BY <3>1, <2>7, <1>1, <2>2 DEF Holds, Device
    <3>3. Host(o) \in u.held /\ u.memory[Host(o)] = d /\ Pure(u, o, d) /\ u.place[o] = "host"
      BY <3>2, <1>1, <2>2, <2>3
    <3>4. Holds(u, o, d)
      BY <3>3 DEF Holds, Host
    <3>5. QED
      BY <3>3, <3>4, <2>4, <2>5
  <2>8. Quiet(s) => Quiet(w)
    BY <1>1, <2>2, <2>3, <2>4, <2>5 DEF Quiet, Waits
  <2>9. QED
    BY <1>1, <2>1, <2>2, <2>3, <2>4, <2>5, <2>6, <2>7, <2>8 DEF Works, Quiet
<1>4. QED
  BY <1>2, <1>3

LEMMA CopiedToDeviceWorks ==
  ASSUME NEW s \in States, NEW o \in Names
  PROVE  LET t == CopiedToDevice(s, o)
         IN  /\ Works(s, t, o, s.rushed)
             /\ t.place[o] = "device"
             /\ \A d \in Content : Holds(s, o, d) => Holds(t, o, d)
<1> DEFINE t == CopiedToDevice(s, o)
           m == [s EXCEPT !.place[o] = "device"]
           u == ToDevice(m, o)
           v == DrainedIf(Class_.copyWaits, u)
           w == LeftOver(v, Host(o))
<1>1. /\ m \in States /\ m.place[o] = "device"
      /\ m.held = s.held /\ m.memory = s.memory /\ m.busy = s.busy /\ m.rushed = s.rushed
      /\ Elsewhere(s, m, o)
      /\ \A d \in Content : Pure(s, o, d) => Pure(m, o, d)
      /\ \A d \in Content : s.place[o] = "device" /\ Holds(s, o, d) => Holds(m, o, d)
  <2>1. "device" \in Places
    BY DEF Places
  <2>2. QED
    BY <2>1, PlacedWorks
<1> HIDE DEF m
<1>2. CASE s.place[o] = "device" \/ Host(o) \notin s.held
  <2>1. t = m
    BY <1>2 DEF CopiedToDevice, m
  <2>2. s.place[o] # "device" => s.place[o] = "host"
    BY DEF States, Places
  <2>3. \A d \in Content : Holds(s, o, d) => Holds(t, o, d)
    BY <1>1, <1>2, <2>1, <2>2 DEF Holds, Host
  <2>4. QED
    BY <1>1, <2>1, <2>3 DEF Works, Quiet
<1>3. CASE ~(s.place[o] = "device" \/ Host(o) \notin s.held)
  <2>1. t = w
    BY <1>3 DEF CopiedToDevice, m, u, v, w
  <2>2. /\ u \in States /\ u.place = m.place /\ u.rushed = m.rushed
        /\ u.busy = m.busy \cup {<<Host(o), "from">>}
        /\ Device(o) \in u.held
        /\ Pure(m, o, m.memory[Host(o)]) =>
             u.memory[Device(o)] = m.memory[Host(o)] /\ Pure(u, o, m.memory[Host(o)])
        /\ Elsewhere(m, u, o)
    BY <1>1, ToDeviceWorks
  <2> HIDE DEF u
  <2>3. /\ v \in States /\ v.place = u.place /\ v.held = u.held /\ v.memory = u.memory
        /\ v.rushed = u.rushed /\ v.busy \in {u.busy, {}}
        /\ Class_.copyWaits => v.busy = {}
        /\ Elsewhere(u, v, o)
        /\ \A d \in Content : Holds(u, o, d) => Holds(v, o, d)
    BY <2>2, DrainedIfWorks
  <2> HIDE DEF v
  <2>4. /\ w \in States /\ w.place = v.place /\ w.busy = v.busy /\ w.rushed = v.rushed
        /\ Elsewhere(v, w, o)
        /\ \A d \in Content : v.place[o] # "host" /\ Holds(v, o, d) => Holds(w, o, d)
    <3>1. Host(o) = <<"host", o>> /\ "host" \in Places
      BY DEF Places, Host
    <3>2. QED
      BY <3>1, <2>3, LeftOverWorks
  <2> HIDE DEF w
  <2>5. Elsewhere(s, w, o)
    BY <1>1, <2>2, <2>3, <2>4, ElsewhereFollows
  <2>6. ASSUME NEW d \in Content, Holds(s, o, d)
        PROVE  Holds(w, o, d)
    <3>1. s.place[o] = "host"
      BY <1>3 DEF States, Places
    <3>2. d = m.memory[Host(o)] /\ Pure(m, o, d)
      BY <3>1, <2>6, <1>1 DEF Holds, Host
    <3>3. Device(o) \in u.held /\ u.memory[Device(o)] = d /\ Pure(u, o, d) /\ u.place[o] = "device"
      BY <3>2, <1>1, <2>2
    <3>4. Holds(u, o, d)
      BY <3>3 DEF Holds, Device
    <3>5. QED
      BY <3>3, <3>4, <2>3, <2>4
  <2>7. Quiet(s) => Quiet(w)
    BY <1>1, <2>2, <2>3, <2>4 DEF Quiet, Waits
  <2>8. QED
    BY <1>1, <2>1, <2>2, <2>3, <2>4, <2>5, <2>6, <2>7 DEF Works
<1>4. QED
  BY <1>2, <1>3

(* An output holds what the kernel wrote, in either memory, if no map had  *)
(* elements of another key.                                                *)
LEMMA SetWorks ==
  ASSUME NEW s \in States, NEW o \in Names, NEW d \in Content, NEW call \in Ends, Pure(s, o, d)
  PROVE  LET t == Set(s, o, d, call)
         IN  Works(s, t, o, call) /\ Holds(t, o, d)
<1> DEFINE m == [s EXCEPT !.place[o] = "device"]
           f == Filled(m, Device(o), d)
           u == LeftOver(f, Host(o))
           r == HostReleased(u, o, call)
<1>0. /\ Host(o) = <<"host", o>> /\ Device(o) = <<"device", o>>
      /\ "host" \in Places /\ "device" \in Places
  BY DEF Places, Host, Device
<1>1. /\ m \in States /\ m.place[o] = "device"
      /\ m.busy = s.busy /\ m.rushed = s.rushed /\ Elsewhere(s, m, o) /\ Pure(m, o, d)
  BY <1>0, PlacedWorks
<1> HIDE DEF m
<1>2. /\ f \in States /\ f.place = m.place /\ f.busy = m.busy /\ f.rushed = m.rushed
      /\ Elsewhere(m, f, o) /\ Device(o) \in f.held /\ f.memory[Device(o)] = d /\ Pure(f, o, d)
  BY <1>0, <1>1, FilledWorks
<1> HIDE DEF f
<1>3. /\ u \in States /\ u.place = f.place /\ u.busy = f.busy /\ u.rushed = f.rushed
      /\ Elsewhere(f, u, o)
      /\ \A e \in Content : f.place[o] # "host" /\ Holds(f, o, e) => Holds(u, o, e)
  <2>1. u = LeftOver(f, <<"host", o>>)
    BY <1>0
  <2> HIDE DEF u
  <2>2. QED
    BY <1>0, <1>2, <2>1, LeftOverWorks
<1> HIDE DEF u
<1>4. Works(s, u, o, call) /\ Holds(u, o, d) /\ u.place[o] = "device"
  <2>1. Holds(f, o, d)
    BY <1>1, <1>2 DEF Holds, Device
  <2>2. Elsewhere(s, u, o)
    BY <1>1, <1>2, <1>3, ElsewhereFollows
  <2>3. QED
    BY <1>1, <1>2, <1>3, <2>1, <2>2 DEF Works, Quiet
<1>5. Works(s, r, o, call) /\ Holds(r, o, d)
  <2>1. /\ r \in States /\ r.place = u.place /\ r.busy = u.busy
        /\ r.rushed \in {u.rushed, call}
        /\ u.busy = {} => r.rushed = u.rushed
        /\ Elsewhere(u, r, o)
        /\ r.held = u.held \ {Host(o)} /\ r.memory[Device(o)] = u.memory[Device(o)]
        /\ Pure(u, o, d) => Pure(r, o, d)
    BY <1>3, HostReleasedWorks
  <2> HIDE DEF r
  <2>2. Holds(r, o, d)
    BY <1>4, <2>1, CellsAre DEF Holds, Device
  <2>3. Elsewhere(s, r, o)
    BY <1>4, <2>1, ElsewhereFollows DEF Works
  <2>4. QED
    BY <1>1, <1>2, <1>3, <1>4, <2>1, <2>2, <2>3 DEF Works, Quiet
<1>6. Set(s, o, d, call) = u \/ Set(s, o, d, call) = r
  BY DEF Set, m, f, u, r
<1>7. QED
  BY <1>4, <1>5, <1>6

LEMMA WorkFollows ==
  ASSUME NEW s, NEW t, NEW u, NEW o \in Names, NEW call,
         Works(s, t, o, call), Works(t, u, o, call)
  PROVE  Works(s, u, o, call)
<1>1. Elsewhere(s, u, o)
  BY ElsewhereFollows DEF Works
<1>2. QED
  BY <1>1 DEF Works

(* A new object is where the options want it, and has its data.            *)
LEMMA OutputWorks ==
  ASSUME NEW s \in States, NEW o \in Names, NEW d \in Content, NEW to \in Places,
         NEW call \in Ends, Pure(s, o, d)
  PROVE  LET t == Stored(Set(s, o, d, call), o, to, call)
         IN  Works(s, t, o, call) /\ Holds(t, o, d)
<1> DEFINE u == Set(s, o, d, call)
           t == Stored(u, o, to, call)
<1>1. Works(s, u, o, call) /\ Holds(u, o, d)
  BY SetWorks
<1> HIDE DEF u
<1>2. Works(u, t, o, call) /\ \A e \in Content : Holds(u, o, e) => Holds(t, o, e)
  <2>1. u \in States
    BY <1>1 DEF Works
  <2>2. CASE to = "device"
    BY <2>1, <2>2, StoredInDeviceWorks DEF Stored
  <2>3. CASE to # "device"
    BY <2>1, <2>3, StoredInHostWorks DEF Stored
  <2>4. QED
    BY <2>2, <2>3
<1> HIDE DEF t
<1>3. Works(s, t, o, call) /\ Holds(t, o, d)
  BY <1>1, <1>2, WorkFollows
<1>4. QED
  BY <1>3 DEF t, u

-----------------------------------------------------------------------------
(* Copies and moves from one object to another.                            *)

LEMMA NowIsState == TypeOK => Now \in States
BY DEF TypeOK, Now, States, Ways, Places

(* A copy of what may be read has the data, if the maps of the target had  *)
(* no elements of another key; the source keeps it.                        *)
LEMMA CopiedWorks ==
  ASSUME TypeOK, Quiet(Now), NEW o \in Names, NEW p \in Names, o # p, HostReadable(o)
  PROVE  LET t == Copied(Now, p, o)
         IN  /\ Works(Now, t, p, "copy")
             /\ \A d \in Content : Holds(Now, o, d) /\ Pure(Now, p, d) => Holds(t, p, d)
<1> DEFINE r == HostReleased(Now, p, "copy")
           e == IF Class_.leavesOther THEN Now ELSE DeviceReleased(r, p)
           z == [e EXCEPT !.place[p] = place[o],
                          !.held = IF Merges THEN @ ELSE @ \ {<<place[o], p>>},
                          !.rushed = IF place[o] = "host" /\ InUse(Now, p)
                                     THEN "copy" ELSE @]
           t == Copied(Now, p, o)
<1>1. /\ Now \in States /\ "copy" \in Ends /\ place[o] \in Places
      /\ Now.place = place /\ Now.held = held /\ Now.memory = memory /\ Now.busy = busy
  BY NowIsState DEF Ends, Now, TypeOK, Places
<1>2. /\ e \in States /\ e.place = place /\ e.busy = busy /\ e.rushed \in {Now.rushed, "copy"}
      /\ busy = {} => e.rushed = Now.rushed
      /\ Elsewhere(Now, e, p)
      /\ \A d \in Content : Pure(Now, p, d) => Pure(e, p, d)
  <2>1. /\ r \in States /\ r.place = place /\ r.busy = busy
        /\ r.rushed \in {Now.rushed, "copy"}
        /\ busy = {} => r.rushed = Now.rushed
        /\ Elsewhere(Now, r, p)
        /\ \A d \in Content : Pure(Now, p, d) => Pure(r, p, d)
    BY <1>1, HostReleasedWorks
  <2> HIDE DEF r
  <2>2. /\ DeviceReleased(r, p) \in States /\ DeviceReleased(r, p).place = r.place
        /\ DeviceReleased(r, p).busy = r.busy /\ DeviceReleased(r, p).rushed = r.rushed
        /\ Elsewhere(r, DeviceReleased(r, p), p)
        /\ \A d \in Content : Pure(r, p, d) => Pure(DeviceReleased(r, p), p, d)
    BY <2>1, DeviceReleasedWorks
  <2>3. Elsewhere(Now, Now, p)
    BY DEF Elsewhere, Kept
  <2>4. Elsewhere(Now, DeviceReleased(r, p), p)
    BY <2>1, <2>2, ElsewhereFollows
  <2>5. QED
    BY <1>1, <2>1, <2>2, <2>3, <2>4
<1> HIDE DEF e
<1>3. /\ z \in States /\ z.place[p] = place[o] /\ z.busy = busy
      /\ z.rushed \in {Now.rushed, "copy"}
      /\ busy = {} => z.rushed = Now.rushed
      /\ Elsewhere(e, z, p)
      /\ \A d \in Content : Pure(e, p, d) => Pure(z, p, d)
  <2>1. /\ z.place = [e.place EXCEPT ![p] = place[o]]
        /\ z.held = (IF Merges THEN e.held ELSE e.held \ {<<place[o], p>>})
        /\ z.memory = e.memory /\ z.busy = e.busy
        /\ z.rushed = IF place[o] = "host" /\ InUse(Now, p) THEN "copy" ELSE e.rushed
        /\ z \in States
    BY <1>1, <1>2 DEF States
  <2>2. busy = {} => ~InUse(Now, p)
    BY <1>1 DEF InUse
  <2> HIDE DEF z
  <2>3. ASSUME NEW q \in Names \ {p}
        PROVE  Kept(e, z, q)
    <3>1. z.place[q] = e.place[q]
      BY <1>2, <2>1 DEF States
    <3>2. \A w \in Places : <<w, q>> \in z.held <=> <<w, q>> \in e.held
      <4>1. \A w \in Places : <<w, q>> # <<place[o], p>>
        OBVIOUS
      <4>2. QED
        BY <2>1, <4>1
    <3>3. QED
      BY <2>1, <3>1, <3>2 DEF Kept
  <2>4. Elsewhere(e, z, p)
    BY <2>3 DEF Elsewhere
  <2>5. \A d \in Content : Pure(e, p, d) => Pure(z, p, d)
    BY <2>1 DEF Pure
  <2>6. QED
    BY <1>1, <1>2, <2>1, <2>2, <2>4, <2>5 DEF States
<1> HIDE DEF z
<1>4. Works(Now, z, p, "copy")
  <2>1. Elsewhere(Now, z, p)
    BY <1>2, <1>3, ElsewhereFollows
  <2>2. QED
    BY <1>1, <1>2, <1>3, <2>1 DEF Works, Quiet
<1>5. CASE <<place[o], o>> \notin held
  <2>1. t = z
    BY <1>5 DEF Copied, z, e, r
  <2>2. QED
    BY <1>1, <1>4, <1>5, <2>1 DEF Holds
<1>6. CASE <<place[o], o>> \in held
  <2> DEFINE d == IF place[o] = "device" THEN memory[Device(o)] ELSE Read(o)
             w == IF place[o] = "device" THEN "host" ELSE "device"
             f == Filled(z, <<place[o], p>>, d)
  <2>1. d \in Content /\ d = memory[<<place[o], o>>] /\ w \in Places /\ w # place[o]
    <3>1. memory[Host(o)] \in Content /\ memory[Device(o)] \in Content
      BY CellsAre DEF TypeOK
    <3>2. place[o] = "host" => Ready(o)
      BY <1>1 DEF HostReadable, Quiet, Ready
    <3>3. QED
      BY <1>1, <3>1, <3>2 DEF Read, Device, Host, Places
  <2>2. t = LeftOver(f, <<w, p>>)
    BY <1>1, <1>6 DEF Copied, z, e, r, Device, Host, Places
  <2> HIDE DEF d, w
  <2>3. /\ f \in States /\ f.place = z.place /\ f.busy = z.busy /\ f.rushed = z.rushed
        /\ <<place[o], p>> \in f.held
        /\ Pure(z, p, d) => f.memory[<<place[o], p>>] = d /\ Pure(f, p, d)
        /\ Elsewhere(z, f, p)
    BY <1>1, <1>3, <2>1, FilledWorks
  <2> HIDE DEF f
  <2>4. /\ t \in States /\ t.place = f.place /\ t.busy = f.busy /\ t.rushed = f.rushed
        /\ Elsewhere(f, t, p)
        /\ \A c \in Content : f.place[p] # w /\ Holds(f, p, c) => Holds(t, p, c)
    BY <2>1, <2>2, <2>3, LeftOverWorks
  <2> HIDE DEF t
  <2>5. Pure(Now, p, d) => Holds(t, p, d)
    <3>1. Pure(Now, p, d) => Holds(f, p, d)
      BY <1>2, <1>3, <2>1, <2>3 DEF Holds
    <3>2. QED
      BY <3>1, <1>3, <2>1, <2>3, <2>4
  <2>6. Works(Now, t, p, "copy")
    <3>1. Elsewhere(Now, t, p)
      BY <1>4, <2>3, <2>4, ElsewhereFollows DEF Works
    <3>2. QED
      BY <1>4, <2>3, <2>4, <3>1 DEF Works, Quiet
  <2>7. \A c \in Content : Holds(Now, o, c) => c = d
    BY <1>1, <2>1 DEF Holds
  <2>8. QED
    BY <2>5, <2>6, <2>7 DEF t
<1>7. QED
  BY <1>5, <1>6

(* The data of an object that is moved is that of the other, if the maps   *)
(* of the target had no elements of another key.                           *)
LEMMA MovedWorks ==
  ASSUME TypeOK, Quiet(Now), NEW o \in Names, NEW p \in Names, o # p
  PROVE  LET t == Moved(Now, p, o)
         IN  /\ t \in States /\ Quiet(t)
             /\ t.rushed \in {rushed, "assignment"}
             /\ Waits => t.rushed = rushed
             /\ \A q \in Names \ {o, p} : Kept(Now, t, q)
             /\ \A d \in Content : Holds(Now, o, d) /\ Pure(Now, p, d) => Holds(t, p, d)
<1> DEFINE t == Moved(Now, p, o)
           r == HostReplaced(Now, p, "assignment")
           taken == IF Class_.both THEN {"device", "host"} ELSE {place[o]}
           e == IF "host" \in taken THEN r ELSE Now
           stays(c) == c[2] \notin {o, p} \/ (Merges /\ c[1] \notin taken)
           j == Joined(e, <<place[o], p>>, e.memory[<<place[o], o>>])
           held_ == {c \in e.held : c[2] \notin {o, p} \/ c[1] \notin taken}
                      \cup {<<w, p>> : w \in {w \in taken : <<w, o>> \in held}}
           memory_ == [c \in Cells |->
                         IF c = <<place[o], p>> THEN Joined(e, c, e.memory[<<place[o], o>>])
                         ELSE IF stays(c) THEN e.memory[c] ELSE Zero]
           busy_ == {b \in e.busy : b[1] # Host(o) \/ "host" \notin taken}
                      \cup {<<Host(p), b[2]>> : b \in {b \in busy : b[1] = Host(o)
                                                             /\ "host" \in taken}}
<1>1. /\ Now \in States /\ "assignment" \in Ends /\ place[o] \in Places
      /\ Now.place = place /\ Now.held = held /\ Now.memory = memory /\ Now.busy = busy
      /\ Now.rushed = rushed
  BY NowIsState DEF Ends, Now, TypeOK, Places
<1>2. taken \subseteq Places /\ place[o] \in taken
  BY <1>1 DEF Places
<1>3. /\ e \in States /\ e.place = place /\ e.busy = busy
      /\ e.rushed \in {rushed, "assignment"}
      /\ busy = {} => e.rushed = rushed
      /\ Elsewhere(Now, e, p)
      /\ \A d \in Content : Pure(Now, p, d) => Pure(e, p, d)
  <2>1. /\ r \in States /\ r.place = place /\ r.busy = busy
        /\ r.rushed \in {Now.rushed, "assignment"}
        /\ busy = {} => r.rushed = Now.rushed
        /\ Elsewhere(Now, r, p)
        /\ \A d \in Content : Pure(Now, p, d) => Pure(r, p, d)
    BY <1>1, HostReplacedWorks
  <2>2. Elsewhere(Now, Now, p)
    BY DEF Elsewhere, Kept
  <2>3. QED
    BY <1>1, <2>1, <2>2
<1>4. t = [e EXCEPT !.place[p] = place[o], !.held = held_, !.memory = memory_, !.busy = busy_]
  BY <1>3 DEF Moved
<1> HIDE DEF t, e, taken
<1>5. held_ \subseteq Cells
  <2>1. e.held \subseteq Cells
    BY <1>3 DEF States
  <2>2. \A w \in taken : <<w, p>> \in Cells
    BY <1>2, CellsAre
  <2>3. QED
    BY <2>1, <2>2
<1>6. memory_ \in [Cells -> Content] /\ j \in Content
  <2>1. <<place[o], o>> \in Cells
    BY <1>1, CellsAre
  <2>2. /\ Zero \in Content /\ Merged \in Content
        /\ \A c \in Cells : e.memory[c] \in Content
    BY <1>3, NoDatum DEF States
  <2>3. \A c \in Cells : Joined(e, c, e.memory[<<place[o], o>>]) \in Content
    BY <2>1, <2>2 DEF Joined
  <2>4. <<place[o], p>> \in Cells
    BY <1>1, CellsAre
  <2>5. QED
    BY <2>2, <2>3, <2>4
<1>7. /\ busy_ \subseteq {Host(q) : q \in Names} \X Ways
      /\ busy = {} => busy_ = {}
      /\ (\A q \in Names : <<Host(q), "to">> \notin busy) =>
           \A q \in Names : <<Host(q), "to">> \notin busy_
  <2>1. \A b \in busy : \E q \in Names, way \in Ways : b = <<Host(q), way>>
    BY DEF TypeOK, Ways
  <2>2. QED
    BY <1>3, <2>1
<1>8. /\ \A w \in Places, q \in Names \ {o, p} :
           /\ <<w, q>> \in held_ <=> <<w, q>> \in e.held
           /\ memory_[<<w, q>>] = e.memory[<<w, q>>]
      /\ memory_[<<place[o], p>>] = j
      /\ \A w \in Places \ taken : Merges =>
           /\ <<w, p>> \in held_ <=> <<w, p>> \in e.held
           /\ memory_[<<w, p>>] = e.memory[<<w, p>>]
      /\ \A w \in taken : <<w, p>> \in held_ <=> <<w, o>> \in held
  <2>1. ASSUME NEW w \in Places, NEW q \in Names \ {o, p}
        PROVE  /\ <<w, q>> \in held_ <=> <<w, q>> \in e.held
               /\ memory_[<<w, q>>] = e.memory[<<w, q>>]
    <3>1. <<w, q>> \in Cells /\ <<w, q>>[1] = w /\ <<w, q>>[2] = q
      BY CellsAre
    <3>2. <<w, q>> \in held_ <=> <<w, q>> \in e.held
      BY <3>1
    <3>3. memory_[<<w, q>>] = e.memory[<<w, q>>]
      BY <3>1
    <3>4. QED
      BY <3>2, <3>3
  <2>2. memory_[<<place[o], p>>] = j
    BY <1>1, CellsAre
  <2>3. ASSUME NEW w \in Places \ taken, Merges
        PROVE  /\ <<w, p>> \in held_ <=> <<w, p>> \in e.held
               /\ memory_[<<w, p>>] = e.memory[<<w, p>>]
    <3>1. <<w, p>> \in Cells /\ <<w, p>>[1] = w /\ <<w, p>> # <<place[o], p>>
      BY <1>2, CellsAre
    <3>2. <<w, p>> \in held_ <=> <<w, p>> \in e.held
      BY <3>1
    <3>3. memory_[<<w, p>>] = e.memory[<<w, p>>]
      BY <2>3, <3>1
    <3>4. QED
      BY <3>2, <3>3
  <2>4. ASSUME NEW w \in taken
        PROVE  <<w, p>> \in held_ <=> <<w, o>> \in held
    OBVIOUS
  <2>5. QED
    BY <2>1, <2>2, <2>3, <2>4
<1> HIDE DEF held_, memory_, busy_
<1>9. /\ t \in States /\ t.place = [place EXCEPT ![p] = place[o]] /\ t.held = held_
      /\ t.memory = memory_ /\ t.busy = busy_ /\ t.rushed = e.rushed
  BY <1>1, <1>3, <1>4, <1>5, <1>6, <1>7 DEF States
<1>10. Quiet(t) /\ (Waits => t.rushed = rushed)
  BY <1>1, <1>3, <1>7, <1>9 DEF Quiet
<1>11. ASSUME NEW q \in Names \ {o, p}
       PROVE  Kept(Now, t, q)
  <2>1. Kept(Now, e, q)
    BY <1>3 DEF Elsewhere
  <2>2. t.place[q] = e.place[q]
    BY <1>3, <1>9 DEF TypeOK
  <2>3. QED
    BY <1>8, <1>9, <2>1, <2>2 DEF Kept
<1>12. ASSUME NEW d \in Content, Holds(Now, o, d), Pure(Now, p, d)
       PROVE  Holds(t, p, d)
  <2>1. Pure(e, p, d)
    BY <1>3, <1>12
  <2>2. e.memory[<<place[o], o>>] = d /\ <<place[o], o>> \in held
    BY <1>1, <1>3, <1>12 DEF Elsewhere, Kept, Holds
  <2>3. j = d
    BY <1>1, <2>1, <2>2 DEF Joined, Pure
  <2>4. t.place[p] = place[o] /\ <<place[o], p>> \in t.held /\ t.memory[<<place[o], p>>] = d
    BY <1>1, <1>2, <1>8, <1>9, <2>2, <2>3 DEF TypeOK
  <2>5. ASSUME Merges, NEW w \in Places, <<w, p>> \in t.held
        PROVE  t.memory[<<w, p>>] = d
    <3>1. CASE w = place[o]
      BY <2>4, <3>1
    <3>2. CASE w # place[o] /\ w \notin taken
      BY <1>8, <1>9, <2>1, <2>5, <3>2 DEF Pure
    <3>3. CASE w # place[o] /\ w \in taken
      <4>1. Class_.both
        BY <3>3 DEF taken
      <4>2. ~Class_.both
        BY <2>5, MapsAre, ObjectsAssumption DEF Merges, Class_
      <4>3. QED
        BY <4>1, <4>2
    <3>4. QED
      BY <3>1, <3>2, <3>3
  <2>6. QED
    BY <2>4, <2>5 DEF Holds, Pure
<1>13. QED
  BY <1>3, <1>9, <1>10, <1>11, <1>12 DEF t

-----------------------------------------------------------------------------
(* The invariant.                                                          *)

DataOf(o) ==
    generated[o] /\ promised[o] \in Datum =>
      Holds(Now, o, promised[o]) /\ fields[o] = promised[o] /\ context[o] = promised[o][2]

ArchiveKept ==
    archive # NoArchive /\ archive.was \in Datum =>
      archive.data = archive.was /\ archive.fields = archive.was
        /\ archive.context = archive.was[2]

Unused == Merges => \A o \in Names : ~generated[o] => Bare(Now, o)

IInv ==
    /\ TypeOK
    /\ Quiet(Now)
    /\ InTime(Now)
    /\ \A o \in Names : DataOf(o)
    /\ ArchiveKept
    /\ Unused

LEMMA ChangedIs ==
  /\ \A d \in Content : Changed(d) \in Content
  /\ \A d \in Datum : Changed(d) \in Datum /\ Changed(d)[2] = d[2]
  /\ \A d \in Content \ Datum : Changed(d) \notin Datum
<1>1. \A m \in Messages : \E n \in Messages : n # m
  BY ObjectsAssumption
<1>2. \A d \in Datum : (CHOOSE m \in Messages : m # d[1]) \in Messages
  BY <1>1 DEF Datum
<1>3. QED
  BY <1>2 DEF Changed, Datum, Content

LEMMA Committed ==
  ASSUME NEW s \in States, Commit(s)
  PROVE  /\ Now' = s
         /\ place' \in [Names -> Places] /\ held' \subseteq Cells
         /\ memory' \in [Cells -> Content]
         /\ busy' \subseteq {Host(o) : o \in Names} \X Ways /\ rushed' \in Ends
<1>1. Now' = s
  BY DEF Commit, Now, States
<1>2. QED
  BY <1>1 DEF Commit, States

(* What was kept is held as before.                                        *)
LEMMA KeptHolds ==
  ASSUME NEW s \in States, NEW t, NEW p \in Names, Kept(s, t, p), NEW d \in Content
  PROVE  Holds(s, p, d) <=> Holds(t, p, d)
BY DEF Kept, Holds, Pure, States

(* A call that works on o and gives it what it promises keeps the          *)
(* invariant.                                                              *)
LEMMA CallKeeps ==
  ASSUME IInv, Runs, UNCHANGED kind,
         NEW t, NEW o \in Names, NEW call, Works(Now, t, o, call), Commit(t),
         call \in {"store_in_device", "operation"} /\ Class_.upWaits => t.rushed = "no",
         generated' \in [Names -> BOOLEAN], fields' \in [Names -> Content],
         context' \in [Names -> Contexts \cup {NoContext}], promised' \in [Names -> Content],
         \A p \in Names \ {o} : /\ generated'[p] = generated[p] /\ fields'[p] = fields[p]
                                /\ context'[p] = context[p] /\ promised'[p] = promised[p],
         generated'[o] /\ promised'[o] \in Datum =>
           /\ Holds(t, o, promised'[o])
           /\ fields'[o] = promised'[o] /\ context'[o] = promised'[o][2],
         Merges /\ ~generated'[o] => Bare(t, o),
         archive' \in Archives \cup {NoArchive}, ArchiveKept'
  PROVE  IInv'
<1>1. /\ t \in States /\ Now' = t
      /\ place' \in [Names -> Places] /\ held' \subseteq Cells
      /\ memory' \in [Cells -> Content]
      /\ busy' \subseteq {Host(q) : q \in Names} \X Ways /\ rushed' \in Ends
  BY Committed DEF Works
<1>2. TypeOK'
  BY <1>1 DEF IInv, TypeOK, Places, Ways
<1>3. Class_' = Class_ /\ (Merges' <=> Merges)
  BY DEF Class_, Merges
<1>4. Quiet(Now)'
  BY <1>1, <1>3 DEF Quiet, Waits, Works, IInv
<1>5. InTime(Now)'
  <2>1. Now.rushed = "no"
    BY DEF Runs, Now
  <2>2. QED
    BY <1>1, <1>3, <2>1 DEF InTime, Waits, Works, IInv
<1>6. ASSUME NEW p \in Names
      PROVE  DataOf(p)'
  <2>1. CASE p = o
    BY <1>1, <1>3, <2>1 DEF DataOf, Holds, Pure
  <2>2. CASE p # o
    <3>1. SUFFICES ASSUME generated'[p], promised'[p] \in Datum
                   PROVE  /\ Holds(t, p, promised'[p])
                          /\ fields'[p] = promised'[p] /\ context'[p] = promised'[p][2]
      BY <1>1, <1>3 DEF DataOf, Holds, Pure
    <3>2. /\ Holds(Now, p, promised[p]) /\ fields[p] = promised[p]
          /\ context[p] = promised[p][2] /\ promised[p] \in Content
      BY <2>2, <3>1 DEF IInv, DataOf, TypeOK
    <3>3. Kept(Now, t, p) /\ Now \in States
      BY <2>2, NowIsState DEF Works, Elsewhere, IInv
    <3>4. QED
      BY <2>2, <3>2, <3>3, KeptHolds
  <2>3. QED
    BY <2>1, <2>2
<1>7. Unused'
  <2>1. SUFFICES ASSUME Merges, NEW p \in Names, ~generated'[p]
                 PROVE  Bare(t, p)
    BY <1>1, <1>3 DEF Unused, Bare
  <2>2. CASE p # o
    BY <2>1, <2>2 DEF IInv, Unused, Bare, Works, Elsewhere, Kept
  <2>3. QED
    BY <2>1, <2>2
<1>8. QED
  BY <1>2, <1>4, <1>5, <1>6, <1>7 DEF IInv

(* Nothing but what the stream holds changes.                              *)
LEMMA NothingWorks ==
  ASSUME NEW s \in States, NEW o \in Names, NEW call
  PROVE  Works(s, s, o, call)
BY DEF Works, Elsewhere, Kept

LEMMA DrainedWorks ==
  ASSUME NEW s \in States, NEW o \in Names, NEW call
  PROVE  /\ Works(s, Drained(s), o, call)
         /\ Drained(s).rushed = s.rushed /\ Drained(s).place = s.place
         /\ Drained(s).held = s.held /\ Drained(s).memory = s.memory
         /\ \A d \in Content : Holds(s, o, d) => Holds(Drained(s), o, d)
<1>1. /\ Drained(s) \in States /\ Drained(s).place = s.place /\ Drained(s).held = s.held
      /\ Drained(s).memory = s.memory /\ Drained(s).rushed = s.rushed
      /\ Drained(s).busy = {}
  BY DEF Drained, States
<1>2. QED
  BY <1>1 DEF Works, Elsewhere, Kept, Quiet, Holds, Pure

LEMMA ArchiveUnchanged ==
  ASSUME IInv, UNCHANGED archive
  PROVE  archive' \in Archives \cup {NoArchive} /\ ArchiveKept'
BY DEF IInv, TypeOK, ArchiveKept

(* What the members of the invariant say of an object.                     *)
LEMMA ObjectIs ==
  ASSUME IInv, NEW o \in Names
  PROVE  /\ Now \in States
         /\ generated[o] \in BOOLEAN /\ fields[o] \in Content /\ promised[o] \in Content
         /\ context[o] \in Contexts \cup {NoContext} /\ place[o] \in Places
         /\ generated[o] /\ promised[o] \in Datum =>
              /\ Holds(Now, o, promised[o])
              /\ fields[o] = promised[o] /\ context[o] = promised[o][2]
BY NowIsState DEF IInv, DataOf, TypeOK, Places

-----------------------------------------------------------------------------
(* The steps.                                                              *)

LEMMA InitHolds == Init => IInv
<1> SUFFICES ASSUME Init PROVE IInv
  OBVIOUS
<1>1. TypeOK
  BY ObjectsAssumption, NoDatum DEF Init, TypeOK, Ends
<1>2. Quiet(Now) /\ InTime(Now)
  BY DEF Init, Quiet, InTime, Now
<1>3. (\A o \in Names : DataOf(o)) /\ ArchiveKept /\ Unused
  BY DEF Init, DataOf, ArchiveKept, Unused, Bare, Now
<1>4. QED
  BY <1>1, <1>2, <1>3 DEF IInv

LEMMA ProduceKeeps ==
  ASSUME IInv, NEW o \in Names, NEW m \in Messages, NEW c \in Contexts,
         NEW to \in {"device", "host"}, Produce(o, m, c, to)
  PROVE  IInv'
<1> DEFINE d == <<m, c>>
           t == Stored(Set(Now, o, d, "output"), o, to, "output")
<1>1. d \in Content /\ d \in Datum /\ d[2] = c /\ "output" \in Ends /\ to \in Places
  BY DEF Datum, Content, Ends, Places
<1>2. Now \in States /\ Pure(Now, o, d)
  BY ObjectIs DEF Produce, IInv, Unused, Bare, Pure
<1>3. Works(Now, t, o, "output") /\ Holds(t, o, d)
  BY <1>1, <1>2, OutputWorks
<1>4. /\ Runs /\ UNCHANGED <<kind, archive>> /\ Commit(t)
      /\ generated' = [generated EXCEPT ![o] = TRUE]
      /\ fields' = [fields EXCEPT ![o] = d]
      /\ context' = [context EXCEPT ![o] = c]
      /\ promised' = [promised EXCEPT ![o] = d]
  BY DEF Produce
<1> HIDE DEF t, d
<1>5. /\ generated' \in [Names -> BOOLEAN] /\ fields' \in [Names -> Content]
      /\ context' \in [Names -> Contexts \cup {NoContext}] /\ promised' \in [Names -> Content]
      /\ fields'[o] = d /\ promised'[o] = d /\ context'[o] = c
      /\ \A p \in Names \ {o} : /\ generated'[p] = generated[p] /\ fields'[p] = fields[p]
                                /\ context'[p] = context[p] /\ promised'[p] = promised[p]
  BY <1>1, <1>4 DEF IInv, TypeOK
<1>6. /\ archive' \in Archives \cup {NoArchive} /\ ArchiveKept'
      /\ Runs /\ UNCHANGED kind /\ Commit(t)
      /\ generated'[o]
  BY <1>4, ArchiveUnchanged DEF IInv, TypeOK
<1>7. QED
  BY <1>1, <1>3, <1>5, <1>6, CallKeeps

(* Only the memory of o changes, and it holds what it held.                *)
LEMMA MemoryKeeps ==
  ASSUME IInv, Runs, NEW t, NEW o \in Names, NEW call, Works(Now, t, o, call), Commit(t),
         call \in {"store_in_device", "operation"} /\ Class_.upWaits => t.rushed = "no",
         \A d \in Content : Holds(Now, o, d) => Holds(t, o, d),
         generated[o],
         UNCHANGED <<kind, generated, fields, context, promised>>,
         archive' \in Archives \cup {NoArchive}, ArchiveKept'
  PROVE  IInv'
<1>1. /\ generated' \in [Names -> BOOLEAN] /\ fields' \in [Names -> Content]
      /\ context' \in [Names -> Contexts \cup {NoContext}] /\ promised' \in [Names -> Content]
  BY DEF IInv, TypeOK
<1>2. generated'[o] /\ promised'[o] \in Datum =>
        Holds(t, o, promised'[o]) /\ fields'[o] = promised'[o] /\ context'[o] = promised'[o][2]
  BY ObjectIs
<1>3. QED
  BY <1>1, <1>2, CallKeeps

LEMMA StoreInDeviceKeeps ==
  ASSUME IInv, NEW o \in Names, StoreInDevice(o)
  PROVE  IInv'
<1> DEFINE t == StoredInDevice(Now, o, "store_in_device")
<1>1. Now \in States /\ "store_in_device" \in Ends
  BY ObjectIs DEF Ends
<1>2. /\ Works(Now, t, o, "store_in_device")
      /\ Class_.upWaits => t.rushed = Now.rushed
      /\ \A d \in Content : Holds(Now, o, d) => Holds(t, o, d)
  BY <1>1, StoredInDeviceWorks
<1>3. /\ Runs /\ Commit(t) /\ generated[o]
      /\ UNCHANGED <<kind, generated, fields, context, archive, promised>>
  BY DEF StoreInDevice
<1>4. Now.rushed = "no"
  BY <1>3 DEF Runs, Now
<1> HIDE DEF t
<1>5. QED
  BY <1>2, <1>3, <1>4, ArchiveUnchanged, MemoryKeeps

LEMMA StoreInHostKeeps ==
  ASSUME IInv, NEW o \in Names, StoreInHost(o)
  PROVE  IInv'
<1> DEFINE t == StoredInHost(Now, o, "store_in_host")
<1>1. Now \in States /\ "store_in_host" \in Ends
  BY ObjectIs DEF Ends
<1>2. /\ Works(Now, t, o, "store_in_host")
      /\ \A d \in Content : Holds(Now, o, d) => Holds(t, o, d)
  BY <1>1, StoredInHostWorks
<1>3. /\ Runs /\ Commit(t) /\ generated[o]
      /\ UNCHANGED <<kind, generated, fields, context, archive, promised>>
  BY DEF StoreInHost
<1> HIDE DEF t
<1>4. QED
  BY <1>2, <1>3, ArchiveUnchanged, MemoryKeeps

LEMMA UseKeeps ==
  ASSUME IInv, NEW o \in Names, Use(o)
  PROVE  IInv'
<1> DEFINE n == Drained(Now)
           t == IF place[o] = "device" THEN Now
                ELSE [n EXCEPT !.rushed = IF Class_.upWaits THEN @ ELSE "operation"]
<1>1. Now \in States /\ "operation" \in Ends
  BY ObjectIs DEF Ends
<1>2. Runs /\ Now.rushed = "no"
  BY DEF Use, Runs, Now
<1>3. /\ Works(Now, n, o, "operation") /\ n.rushed = "no"
      /\ \A d \in Content : Holds(Now, o, d) => Holds(n, o, d)
  BY <1>1, <1>2, DrainedWorks
<1>4. Works(Now, Now, o, "operation")
  BY <1>1, NothingWorks
<1> HIDE DEF n
<1>5. /\ Works(Now, t, o, "operation")
      /\ Class_.upWaits => t.rushed = "no"
      /\ \A d \in Content : Holds(Now, o, d) => Holds(t, o, d)
  <2>1. CASE place[o] = "device"
    BY <1>2, <1>4, <2>1
  <2>2. CASE place[o] # "device"
    <3>1. /\ t \in States /\ t.place = n.place /\ t.held = n.held /\ t.memory = n.memory
          /\ t.busy = n.busy /\ t.rushed = IF Class_.upWaits THEN "no" ELSE "operation"
      BY <1>1, <1>3, <2>2 DEF Works, States
    <3>2. Elsewhere(Now, t, o) /\ \A d \in Content : Holds(n, o, d) => Holds(t, o, d)
      BY <1>3, <3>1 DEF Works, Elsewhere, Kept, Holds, Pure
    <3>3. QED
      BY <1>2, <1>3, <3>1, <3>2 DEF Works, Quiet, Waits
  <2>3. QED
    BY <2>1, <2>2
<1>6. /\ Commit(t) /\ generated[o]
      /\ UNCHANGED <<kind, generated, fields, context, archive, promised>>
  BY DEF Use, n
<1> HIDE DEF t
<1>7. QED
  BY <1>2, <1>5, <1>6, ArchiveUnchanged, MemoryKeeps

LEMMA SaveKeeps ==
  ASSUME IInv, NEW o \in Names, Save(o)
  PROVE  IInv'
<1> DEFINE t == IF place[o] = "device" THEN Drained(Now) ELSE Now
           data == IF place[o] = "device" THEN memory[Device(o)] ELSE Read(o)
<1>1. Now \in States /\ place[o] \in Places
  BY ObjectIs
<1>2. /\ Works(Now, t, o, "output")
      /\ \A d \in Content : Holds(Now, o, d) => Holds(t, o, d)
  BY <1>1, DrainedWorks, NothingWorks
<1>3. /\ Runs /\ Commit(t) /\ UNCHANGED <<kind, generated, fields, context, promised>>
      /\ generated[o] /\ HostReadable(o)
      /\ archive' = [fields |-> fields[o], data |-> data, context |-> context[o],
                     was |-> promised[o]]
  BY DEF Save
<1> HIDE DEF t
<1>4. data \in Content /\ data = memory[<<place[o], o>>]
  <2>1. memory[Host(o)] \in Content /\ memory[Device(o)] \in Content
    BY CellsAre DEF IInv, TypeOK
  <2>2. place[o] = "host" => Ready(o)
    BY <1>3 DEF HostReadable, IInv, Quiet, Ready, Now
  <2>3. QED
    BY <1>1, <2>1, <2>2 DEF Read, Device, Host, Places
<1> HIDE DEF data
<1>5. archive' \in Archives
  BY <1>3, <1>4, ObjectIs DEF Archives
<1>6. promised[o] \in Datum => data = promised[o]
  BY <1>3, <1>4, ObjectIs DEF Holds, Now
<1>7. ArchiveKept'
  BY <1>3, <1>6, ObjectIs DEF ArchiveKept
<1>8. QED
  BY <1>2, <1>3, <1>5, <1>7, MemoryKeeps

LEMMA InPlaceKeeps ==
  ASSUME IInv, NEW o \in Names, NEW keep \in BOOLEAN, InPlace(o, keep)
  PROVE  IInv'
<1> DEFINE n == IF keep THEN CopiedToDevice(Now, o) ELSE StoredInDevice(Now, o, "operation")
           t == [n EXCEPT !.memory[Device(o)] = Changed(@)]
<1>1. /\ Runs /\ UNCHANGED <<kind, generated, context, archive>> /\ generated[o]
      /\ Commit(t)
      /\ fields' = [fields EXCEPT ![o] = Changed(@)]
      /\ promised' = [promised EXCEPT ![o] = Changed(@)]
  BY DEF InPlace
<1>2. Now \in States /\ "operation" \in Ends /\ Now.rushed = "no"
  BY <1>1, ObjectIs DEF Ends, Now, Runs
<1>3. /\ Works(Now, n, o, "operation")
      /\ n.place[o] = "device"
      /\ Class_.upWaits => n.rushed = "no"
      /\ \A d \in Content : Holds(Now, o, d) => Holds(n, o, d)
  <2>1. CASE keep
    BY <1>2, <2>1, CopiedToDeviceWorks DEF Works
  <2>2. CASE ~keep
    BY <1>2, <2>2, StoredInDeviceWorks
  <2>3. QED
    BY <2>1, <2>2
<1> HIDE DEF n
<1>4. /\ t \in States /\ t.place = n.place /\ t.held = n.held /\ t.busy = n.busy
      /\ t.rushed = n.rushed
      /\ t.memory = [n.memory EXCEPT ![Device(o)] = Changed(@)]
  BY <1>3, CellsAre, ChangedIs DEF Works, States
<1> HIDE DEF t
<1>5. Elsewhere(n, t, o)
  BY <1>3, <1>4, CellsAre DEF Works, States, Elsewhere, Kept, Device
<1>6. Works(Now, t, o, "operation")
  <2>1. Elsewhere(Now, t, o)
    BY <1>3, <1>5, ElsewhereFollows DEF Works
  <2>2. QED
    BY <1>3, <1>4, <2>1 DEF Works, Quiet
<1>7. \A d \in Content : Holds(Now, o, d) => Holds(t, o, Changed(d))
  <2>1. ~Merges
    BY DEF InPlace, Merges, Maps
  <2>2. QED
    BY <1>3, <1>4, <2>1, CellsAre DEF Works, States, Holds, Pure, Device
<1>8. /\ generated' \in [Names -> BOOLEAN] /\ fields' \in [Names -> Content]
      /\ context' \in [Names -> Contexts \cup {NoContext}] /\ promised' \in [Names -> Content]
      /\ fields'[o] = Changed(fields[o]) /\ promised'[o] = Changed(promised[o])
      /\ \A p \in Names \ {o} : /\ generated'[p] = generated[p] /\ fields'[p] = fields[p]
                                /\ context'[p] = context[p] /\ promised'[p] = promised[p]
  BY <1>1, ChangedIs DEF IInv, TypeOK
<1>9. promised'[o] \in Datum => promised[o] \in Datum /\ promised'[o][2] = promised[o][2]
  BY <1>8, ChangedIs, ObjectIs
<1>10. promised'[o] \in Datum =>
         Holds(t, o, promised'[o]) /\ fields'[o] = promised'[o] /\ context'[o] = promised'[o][2]
  BY <1>1, <1>7, <1>8, <1>9, ObjectIs
<1>11. /\ archive' \in Archives \cup {NoArchive} /\ ArchiveKept'
       /\ Runs /\ UNCHANGED kind /\ Commit(t)
       /\ generated'[o] /\ (Class_.upWaits => t.rushed = "no")
  BY <1>1, <1>3, <1>4, <1>8, ArchiveUnchanged
<1>12. QED
  BY <1>6, <1>8, <1>10, <1>11, CallKeeps

(* An assignment promises what its source is, or nothing.                  *)
LEMMA AssignedIs ==
  ASSUME IInv, NEW o \in Names, NEW p \in Names
  PROVE  /\ Assigned(p, o) \in Content
         /\ Assigned(p, o) \in Datum =>
              Assigned(p, o) = promised[o] /\ Pure(Now, p, promised[o])
<1>1. promised[o] \in Content
  BY ObjectIs
<1>2. ASSUME Assigned(p, o) \in Datum
      PROVE  Assigned(p, o) = promised[o] /\ Pure(Now, p, promised[o])
  <2>1. ~(Merges /\ \E c \in held : c[2] = p /\ memory[c] # promised[o])
    BY <1>2, NoDatum DEF Assigned
  <2>2. Pure(Now, p, promised[o])
    BY <2>1 DEF Pure, Now
  <2>3. QED
    BY <2>1, <2>2 DEF Assigned
<1>3. QED
  BY <1>1, <1>2, NoDatum DEF Assigned

LEMMA CopyKeeps ==
  ASSUME IInv, NEW o \in Names, NEW p \in Names, Copy(o, p)
  PROVE  IInv'
<1> DEFINE t == Copied(Now, p, o)
<1>1. /\ Runs /\ UNCHANGED <<kind, archive>> /\ Commit(t)
      /\ generated[o] /\ o # p /\ HostReadable(o)
      /\ generated' = [generated EXCEPT ![p] = generated[o]]
      /\ fields' = [fields EXCEPT ![p] = IF Members \subseteq Class_.fields THEN fields[o]
                                         ELSE Mixed]
      /\ context' = [context EXCEPT ![p] = context[o]]
      /\ promised' = [promised EXCEPT ![p] = Assigned(p, o)]
  BY DEF Copy
<1>2. Members \subseteq Class_.fields
  <2>1. Sound(kind)
    BY SoundClasses, ObjectsAssumption DEF IInv, TypeOK
  <2>2. QED
    BY <2>1 DEF Sound, Members, Class_
<1>3. /\ Works(Now, t, p, "copy")
      /\ \A d \in Content : Holds(Now, o, d) /\ Pure(Now, p, d) => Holds(t, p, d)
  BY <1>1, CopiedWorks DEF IInv
<1> HIDE DEF t
<1>4. /\ generated' \in [Names -> BOOLEAN] /\ fields' \in [Names -> Content]
      /\ context' \in [Names -> Contexts \cup {NoContext}] /\ promised' \in [Names -> Content]
      /\ fields'[p] = fields[o] /\ promised'[p] = Assigned(p, o) /\ context'[p] = context[o]
      /\ \A q \in Names \ {p} : /\ generated'[q] = generated[q] /\ fields'[q] = fields[q]
                                /\ context'[q] = context[q] /\ promised'[q] = promised[q]
  BY <1>1, <1>2, AssignedIs DEF IInv, TypeOK
<1>5. promised'[p] \in Datum =>
        Holds(t, p, promised'[p]) /\ fields'[p] = promised'[p] /\ context'[p] = promised'[p][2]
  BY <1>1, <1>3, <1>4, ObjectIs, AssignedIs
<1>6. generated'[p]
  BY <1>1 DEF IInv, TypeOK
<1>7. QED
  BY <1>1, <1>3, <1>4, <1>5, <1>6, ArchiveUnchanged, CallKeeps

LEMMA MoveKeeps ==
  ASSUME IInv, NEW o \in Names, NEW p \in Names, Move(o, p)
  PROVE  IInv'
<1> DEFINE t == Moved(Now, p, o)
<1>1. /\ Runs /\ UNCHANGED <<kind, archive>> /\ Commit(t)
      /\ generated[o] /\ o # p
      /\ generated' = [generated EXCEPT ![p] = TRUE, ![o] = ~Class_.resets]
      /\ fields' = [fields EXCEPT ![p] = fields[o]]
      /\ context' = [context EXCEPT ![p] = context[o]]
      /\ promised' = [promised EXCEPT ![p] = Assigned(p, o),
                                      ![o] = IF Class_.resets THEN Zero ELSE Mixed]
  BY DEF Move
<1>2. /\ t \in States /\ Quiet(t)
      /\ t.rushed \in {rushed, "assignment"}
      /\ Waits => t.rushed = rushed
      /\ \A q \in Names \ {o, p} : Kept(Now, t, q)
      /\ \A d \in Content : Holds(Now, o, d) /\ Pure(Now, p, d) => Holds(t, p, d)
  BY <1>1, MovedWorks DEF IInv
<1> HIDE DEF t
<1>3. /\ Now' = t
      /\ place' \in [Names -> Places] /\ held' \subseteq Cells
      /\ memory' \in [Cells -> Content]
      /\ busy' \subseteq {Host(q) : q \in Names} \X Ways /\ rushed' \in Ends
  BY <1>1, <1>2, Committed
<1>4. Class_.resets \in BOOLEAN /\ (Merges => ~Class_.resets)
  <2>1. kind \in DOMAIN Classes
    BY ObjectsAssumption DEF IInv, TypeOK
  <2>2. Class_.resets \in BOOLEAN
    BY <2>1, SoundClasses DEF Sound, Class_
  <2>3. Merges => ~Class_.resets
    BY MapsAre DEF Class_, Merges
  <2>4. QED
    BY <2>2, <2>3
<1>5. /\ generated' \in [Names -> BOOLEAN] /\ fields' \in [Names -> Content]
      /\ context' \in [Names -> Contexts \cup {NoContext}] /\ promised' \in [Names -> Content]
      /\ fields'[p] = fields[o] /\ promised'[p] = Assigned(p, o) /\ context'[p] = context[o]
      /\ promised'[o] \in {Zero, Mixed}
      /\ generated'[p] /\ (Merges => generated'[o])
      /\ \A q \in Names \ {o, p} : /\ generated'[q] = generated[q] /\ fields'[q] = fields[q]
                                   /\ context'[q] = context[q] /\ promised'[q] = promised[q]
  BY <1>1, <1>4, NoDatum, AssignedIs DEF IInv, TypeOK
<1>6. TypeOK'
  BY <1>1, <1>3, <1>5, ArchiveUnchanged DEF IInv, TypeOK, Places, Ways
<1>7. Class_' = Class_ /\ rushed = "no" /\ (Merges' <=> Merges)
  BY <1>1 DEF Class_, Runs, Merges
<1>8. Quiet(Now)' /\ InTime(Now)'
  BY <1>2, <1>3, <1>7 DEF Quiet, InTime, Waits
<1>9. ASSUME NEW q \in Names
      PROVE  DataOf(q)'
  <2>1. SUFFICES ASSUME generated'[q], promised'[q] \in Datum
                 PROVE  /\ Holds(t, q, promised'[q])
                        /\ fields'[q] = promised'[q] /\ context'[q] = promised'[q][2]
    BY <1>3, <1>7 DEF DataOf, Holds, Pure
  <2>2. q # o
    BY <1>5, <2>1, NoDatum
  <2>3. CASE q = p
    BY <1>1, <1>2, <1>5, <2>1, <2>3, ObjectIs, AssignedIs
  <2>4. CASE q # p
    BY <1>2, <1>5, <2>1, <2>2, <2>4, ObjectIs, KeptHolds
  <2>5. QED
    BY <2>3, <2>4
<1>10. Unused'
  <2>1. SUFFICES ASSUME Merges, NEW q \in Names, ~generated'[q]
                 PROVE  Bare(t, q)
    BY <1>3, <1>7 DEF Unused, Bare
  <2>2. q \notin {o, p} /\ ~generated[q]
    BY <1>5, <2>1
  <2>3. QED
    BY <1>2, <2>1, <2>2 DEF IInv, Unused, Bare, Kept
<1>11. QED
  BY <1>1, <1>6, <1>8, <1>9, <1>10, ArchiveUnchanged DEF IInv

LEMMA RenewKeeps ==
  ASSUME IInv, NEW o \in Names, NEW c \in Contexts \cup {NoContext}, Renew(o, c)
  PROVE  IInv'
<1> DEFINE r == HostReleased(Now, o, "destructor")
           n == DeviceReleased(r, o)
           t == [n EXCEPT !.place[o] = "device"]
<1>1. Now \in States /\ "destructor" \in Ends
  BY ObjectIs DEF Ends
<1>2. /\ r \in States /\ r.busy = Now.busy /\ r.rushed \in {Now.rushed, "destructor"}
      /\ Now.busy = {} => r.rushed = Now.rushed
      /\ Elsewhere(Now, r, o) /\ r.held = held \ {Host(o)}
  BY <1>1, HostReleasedWorks DEF Now
<1>3. /\ Runs /\ UNCHANGED <<kind, archive>> /\ Commit(t)
      /\ generated' = [generated EXCEPT ![o] = FALSE]
      /\ fields' = [fields EXCEPT ![o] = Zero]
      /\ context' = [context EXCEPT ![o] = c]
      /\ promised' = [promised EXCEPT ![o] = Zero]
  BY DEF Renew
<1> HIDE DEF r
<1>4. /\ n \in States /\ n.busy = r.busy /\ n.rushed = r.rushed /\ Elsewhere(r, n, o)
      /\ n.held = r.held \ {Device(o)}
  BY <1>2, DeviceReleasedWorks
<1> HIDE DEF n
<1>5. /\ t \in States /\ t.busy = n.busy /\ t.rushed = n.rushed /\ Elsewhere(n, t, o)
      /\ t.held = n.held
  <2>1. n \in States /\ "device" \in Places
    BY <1>4 DEF Places
  <2>2. QED
    BY <2>1, PlacedWorks
<1> HIDE DEF t
<1>6. Works(Now, t, o, "destructor") /\ Bare(t, o)
  <2>1. Elsewhere(Now, t, o)
    BY <1>2, <1>4, <1>5, ElsewhereFollows
  <2>2. Bare(t, o)
    BY <1>2, <1>4, <1>5 DEF Bare, Places, Device, Host
  <2>3. QED
    BY <1>2, <1>4, <1>5, <2>1, <2>2 DEF Works, Quiet
<1>7. /\ generated' \in [Names -> BOOLEAN] /\ fields' \in [Names -> Content]
      /\ context' \in [Names -> Contexts \cup {NoContext}] /\ promised' \in [Names -> Content]
      /\ ~generated'[o]
      /\ \A p \in Names \ {o} : /\ generated'[p] = generated[p] /\ fields'[p] = fields[p]
                                /\ context'[p] = context[p] /\ promised'[p] = promised[p]
  BY <1>3, NoDatum DEF IInv, TypeOK
<1>8. QED
  BY <1>3, <1>6, <1>7, ArchiveUnchanged, CallKeeps

LEMMA StreamKeeps ==
  ASSUME IInv, StreamRuns
  PROVE  IInv'
<1>1. /\ busy' \subseteq busy
      /\ UNCHANGED <<kind, place, generated, fields, context, held, memory, archive, promised,
                     rushed>>
  BY DEF StreamRuns
<1>2. TypeOK' /\ ArchiveKept'
  BY <1>1 DEF IInv, TypeOK, ArchiveKept
<1>3. Quiet(Now)' /\ InTime(Now)'
  BY <1>1 DEF IInv, Quiet, InTime, Waits, Now, Class_
<1>4. \A o \in Names : DataOf(o)'
  BY <1>1 DEF IInv, DataOf, Holds, Pure, Merges, Now
<1>5. Unused'
  BY <1>1 DEF IInv, Unused, Bare, Merges, Now
<1>6. QED
  BY <1>2, <1>3, <1>4, <1>5 DEF IInv

(* What is left of the object that load() fills, for every cut.            *)
LEMMA OutcomesAre ==
  ASSUME NEW class, NEW cut, NEW out \in LoadOutcomes(class, cut)
  PROVE  out.marked \in BOOLEAN
<1>1. PICK throws \in ThrowsAt(class, cut) : out = Outcome(class, cut, throws)
  BY DEF LoadOutcomes
<1>2. (throws \notin DOMAIN class.reads) \in BOOLEAN /\ Done(class, throws, "mark!") \in BOOLEAN
  BY DEF Done
<1>3. out.marked \in {throws \notin DOMAIN class.reads, Done(class, throws, "mark!")}
  BY <1>1 DEF Outcome
<1>4. QED
  BY <1>2, <1>3

LEMMA LoadKeeps ==
  ASSUME IInv, NEW o \in Names, NEW cut \in 0 .. Len(Class_.writes), Load(o, cut)
  PROVE  IInv'
<1>1. PICK out \in LoadOutcomes(Class_, cut) :
        LET here == IF out.data = "kept" THEN Now ELSE Drained(Now)
            datum == IF out.data = "read" THEN archive.data ELSE Zero
            moved == IF out.marked THEN [here EXCEPT !.place[o] = "device"] ELSE here
        IN  /\ Commit(IF out.data = "kept" THEN moved
                      ELSE Filled(moved, Device(o), datum))
            /\ generated' = [generated EXCEPT ![o] = out.marked]
            /\ fields' = [fields EXCEPT ![o] = CASE out.fields = "kept" -> @
                                                 [] out.fields = "read" -> archive.fields
                                                 [] OTHER -> Mixed]
            /\ context' = IF Class_.atOnce /\ out.throws THEN context
                          ELSE [context EXCEPT ![o] = archive.context]
            /\ promised' = [promised EXCEPT ![o] =
                               IF cut = Len(Class_.writes) THEN archive.was
                               ELSE IF out.marked THEN Mixed ELSE @]
  BY DEF Load
<1> DEFINE here == IF out.data = "kept" THEN Now ELSE Drained(Now)
           datum == IF out.data = "read" THEN archive.data ELSE Zero
           moved == IF out.marked THEN [here EXCEPT !.place[o] = "device"] ELSE here
           t == IF out.data = "kept" THEN moved ELSE Filled(moved, Device(o), datum)
<1>2. /\ Runs /\ UNCHANGED <<kind, archive>> /\ Commit(t)
      /\ archive \in Archives /\ Serializable /\ ~generated[o]
  <2>1. Runs /\ UNCHANGED <<kind, archive>> /\ archive # NoArchive /\ Serializable /\ ~generated[o]
    BY DEF Load
  <2>2. QED
    BY <1>1, <2>1 DEF IInv, TypeOK
<1>3. Now \in States /\ out.marked \in BOOLEAN /\ datum \in Content
  BY <1>2, ObjectIs, OutcomesAre, NoDatum DEF Archives
<1> HIDE DEF datum
<1>4. Works(Now, here, o, "output") /\ here.held = held
  BY <1>3, NothingWorks, DrainedWorks DEF Now
<1> HIDE DEF here
<1>5. here \in States /\ "device" \in Places
  BY <1>4 DEF Works, Places
<1>6. /\ Works(here, moved, o, "output") /\ (out.marked => moved.place[o] = "device")
      /\ Merges => Bare(moved, o)
  <2>1. CASE out.marked
    <3> DEFINE m == [here EXCEPT !.place[o] = "device"]
    <3>1. /\ m \in States /\ m.place[o] = "device" /\ m.busy = here.busy
          /\ m.rushed = here.rushed /\ Elsewhere(here, m, o) /\ m.held = here.held
      <4> HIDE DEF moved, t
      <4>1. m \in States /\ m.place[o] = "device" /\ Elsewhere(here, m, o)
        BY <1>5, PlacedWorks
      <4>2. m.busy = here.busy /\ m.rushed = here.rushed /\ m.held = here.held
        BY <1>5, PlacedWorks
      <4>3. QED
        BY <4>1, <4>2
    <3>2. moved = m
      BY <2>1
    <3> HIDE DEF m
    <3>3. Merges => Bare(m, o)
      BY <1>2, <1>4, <3>1 DEF IInv, Unused, Bare, Now
    <3>4. QED
      BY <3>1, <3>2, <3>3 DEF Works, Quiet
  <2>2. CASE ~out.marked
    <3>1. Merges => Bare(here, o)
      BY <1>2, <1>4 DEF IInv, Unused, Bare, Now
    <3>2. QED
      BY <1>5, <2>2, <3>1, NothingWorks
  <2>3. QED
    BY <2>1, <2>2
<1> HIDE DEF moved
<1>7. /\ Works(moved, t, o, "output")
      /\ out.marked /\ out.data # "kept" => Holds(t, o, datum)
      /\ Merges /\ ~out.marked => Bare(t, o)
  <2>1. moved \in States
    BY <1>6 DEF Works
  <2>2. CASE out.data = "kept"
    BY <1>6, <2>1, <2>2, NothingWorks DEF Bare
  <2>3. CASE out.data # "kept"
    <3> DEFINE f == Filled(moved, Device(o), datum)
    <3>1. /\ f \in States /\ f.place = moved.place /\ f.busy = moved.busy
          /\ f.rushed = moved.rushed /\ Elsewhere(moved, f, o)
          /\ Device(o) \in f.held /\ f.memory[Device(o)] = datum /\ Pure(f, o, datum)
      <4>1. Device(o) = <<"device", o>> /\ "device" \in Places
        BY DEF Device, Places
      <4>2. Pure(moved, o, datum)
        BY <1>6 DEF Pure, Bare
      <4>3. QED
        BY <1>3, <2>1, <4>1, <4>2, FilledWorks
    <3>2. t = f
      BY <2>3
    <3> HIDE DEF f
    <3>3. Works(moved, f, o, "output")
      BY <3>1 DEF Works, Quiet
    <3>4. out.marked => Holds(f, o, datum)
      BY <1>6, <3>1 DEF Holds, Device
    <3>5. Merges => out.marked
      BY <2>3, MapsLoad DEF Merges, Class_
    <3>6. QED
      BY <3>2, <3>3, <3>4, <3>5
  <2>4. QED
    BY <2>2, <2>3
<1> HIDE DEF t
<1>8. Works(Now, t, o, "output")
  BY <1>4, <1>6, <1>7, WorkFollows
<1>9. /\ generated' \in [Names -> BOOLEAN] /\ fields' \in [Names -> Content]
      /\ context' \in [Names -> Contexts \cup {NoContext}] /\ promised' \in [Names -> Content]
  BY <1>1, <1>2, <1>3, NoDatum DEF Archives, IInv, TypeOK
<1>10. /\ generated'[o] = out.marked
       /\ promised'[o] = IF cut = Len(Class_.writes) THEN archive.was
                         ELSE IF out.marked THEN Mixed ELSE promised[o]
       /\ \A p \in Names \ {o} : /\ generated'[p] = generated[p] /\ fields'[p] = fields[p]
                                 /\ context'[p] = context[p] /\ promised'[p] = promised[p]
  BY <1>1 DEF IInv, TypeOK
<1>11. ASSUME generated'[o], promised'[o] \in Datum
       PROVE  /\ Holds(t, o, promised'[o])
              /\ fields'[o] = promised'[o] /\ context'[o] = promised'[o][2]
  <2>1. cut = Len(Class_.writes) /\ promised'[o] = archive.was
    BY <1>10, <1>11, NoDatum
  <2>2. ~out.throws /\ out.marked /\ out.fields = "read" /\ out.data = "read"
    BY <1>2, <2>1, ArchivesLoad, ObjectsAssumption DEF Class_, Serializable, IInv, TypeOK
  <2>3. fields'[o] = archive.fields /\ context'[o] = archive.context
    BY <1>1, <2>2 DEF IInv, TypeOK
  <2>4. /\ archive.data = archive.was /\ archive.fields = archive.was
        /\ archive.context = archive.was[2]
    <3>1. archive # NoArchive
      BY DEF Load
    <3>2. QED
      BY <1>11, <2>1, <3>1 DEF IInv, ArchiveKept
  <2>5. Holds(t, o, archive.data)
    BY <1>7, <2>2 DEF datum
  <2>6. QED
    BY <2>1, <2>3, <2>4, <2>5
<1>12. /\ Merges /\ ~generated'[o] => Bare(t, o)
       /\ \A p \in Names \ {o} : /\ generated'[p] = generated[p] /\ fields'[p] = fields[p]
                                 /\ context'[p] = context[p] /\ promised'[p] = promised[p]
       /\ archive' \in Archives \cup {NoArchive} /\ ArchiveKept'
       /\ Runs /\ UNCHANGED kind /\ Commit(t)
  BY <1>2, <1>7, <1>10, ArchiveUnchanged
<1>13. QED
  BY <1>8, <1>9, <1>11, <1>12, CallKeeps

-----------------------------------------------------------------------------
(* The theorems.                                                           *)

LEMMA StepHolds == IInv /\ [Next]_vars => IInv'
<1> SUFFICES ASSUME IInv, [Next]_vars PROVE IInv'
  OBVIOUS
<1>1. CASE Next
  <2>1. ASSUME NEW o \in Names, NEW m \in Messages, NEW c \in Contexts,
               NEW to \in {"device", "host"}, Produce(o, m, c, to)
        PROVE  IInv'
    BY <2>1, ProduceKeeps
  <2>2. ASSUME NEW o \in Names, StoreInDevice(o) \/ StoreInHost(o) \/ Use(o) \/ Save(o)
        PROVE  IInv'
    BY <2>2, StoreInDeviceKeeps, StoreInHostKeeps, UseKeeps, SaveKeeps
  <2>3. ASSUME NEW o \in Names, NEW keep \in BOOLEAN, InPlace(o, keep)
        PROVE  IInv'
    BY <2>3, InPlaceKeeps
  <2>4. ASSUME NEW o \in Names, NEW p \in Names, Copy(o, p) \/ Move(o, p)
        PROVE  IInv'
    BY <2>4, CopyKeeps, MoveKeeps
  <2>5. ASSUME NEW o \in Names, NEW cut \in 0 .. Len(Class_.writes), Load(o, cut)
        PROVE  IInv'
    BY <2>5, LoadKeeps
  <2>6. ASSUME NEW o \in Names, NEW c \in Contexts \cup {NoContext}, Renew(o, c)
        PROVE  IInv'
    BY <2>6, RenewKeeps
  <2>7. ASSUME StreamRuns
        PROVE  IInv'
    BY <2>7, StreamKeeps
  <2>8. QED
    BY <1>1, <2>1, <2>2, <2>3, <2>4, <2>5, <2>6, <2>7 DEF Next
<1>2. CASE UNCHANGED vars
  BY <1>2 DEF vars, IInv, TypeOK, Quiet, InTime, Waits, Class_, DataOf, Holds, Pure, Merges,
              Now, ArchiveKept, Unused, Bare
<1>3. QED
  BY <1>1, <1>2

LEMMA Invariant == Spec => []IInv
BY InitHolds, StepHolds, PTL DEF Spec

(* Every variable has its type, whatever the classes and however many      *)
(* objects there are.                                                      *)
THEOREM TypeCorrect == Spec => []TypeOK
<1>1. IInv => TypeOK
  BY DEF IInv
<1>2. QED
  BY <1>1, Invariant, PTL

(* The parts of an object belong together: stored, copied, moved, changed, *)
(* saved and loaded, in any order and of any class, but for the Galois     *)
(* keys that had elements of another one when they were assigned to.       *)
THEOREM ObjectsStayWhole == Spec => []WholeObjects
<1>1. IInv => WholeObjects
  BY DEF IInv, WholeObjects, DataOf, ArchiveKept, Holds, Now
<1>2. QED
  BY <1>1, Invariant, PTL

(* Host memory is given back after its copy in every class but the         *)
(* ciphertexts of BFV.                                                     *)
THEOREM HostMemoryStays == Spec => []HostMemoryOutlivesItsCopy
<1>1. IInv => HostMemoryOutlivesItsCopy
  <2> SUFFICES ASSUME IInv, kind # "BfvCiphertext"
               PROVE  /\ rushed \notin {"store_in_device", "operation"}
                      /\ Class_.upWaits /\ Class_.downWaits /\ Class_.copyWaits =>
                           rushed = "no"
    BY DEF HostMemoryOutlivesItsCopy
  <2>1. Class_.upWaits
    BY SoundClasses, ObjectsAssumption DEF IInv, TypeOK, Sound, Class_
  <2>2. QED
    BY <2>1 DEF IInv, InTime, Waits, Now
<1>2. QED
  BY <1>1, Invariant, PTL

-----------------------------------------------------------------------------
(* Loads that were cut.                                                    *)

Firm == {"CkksCiphertext", "CkksSecretkey", "BfvSecretkey"}

(* The classes that load at once end with the data, and a transfer resets  *)
(* its source.                                                             *)
LEMMA FirmClasses ==
  ASSUME NEW k \in Firm
  PROVE  LET class == Classes[k]
         IN  /\ class.atOnce /\ class.resets /\ class.writes # <<>>
             /\ Len(class.writes) \in Nat
             /\ Len(class.reads) \in Nat /\ DOMAIN class.reads = 1 .. Len(class.reads)
             /\ SubSeq(class.reads, 1, Len(class.reads)) = class.reads
             /\ \E i \in DOMAIN class.reads : class.reads[i] = "data"
             /\ class.reads[Len(class.reads)] = "data"
<1>1. CASE k = "CkksCiphertext"
  <2> DEFINE reads == CkksCiphertextReads
             writes == CkksCiphertextWrites
  <2>1. Classes[k].atOnce /\ Classes[k].resets /\ Classes[k].reads = reads /\ Classes[k].writes = writes
    BY <1>1 DEF Classes, Class, CkksCiphertextTransfers
  <2>2. /\ Len(reads) = 15 /\ DOMAIN reads = 1 .. 15 /\ reads[15] = "data"
        /\ Len(writes) = 14 /\ writes # <<>>
    BY DEF CkksCiphertextReads, CkksCiphertextWrites
  <2>3. reads \in Seq({reads[i] : i \in 1 .. 15})
    BY DEF CkksCiphertextReads
  <2> HIDE DEF reads, writes
  <2>4. SubSeq(reads, 1, Len(reads)) = reads
    BY <2>2, <2>3
  <2>5. QED
    BY <2>1, <2>2, <2>4
<1>2. CASE k = "CkksSecretkey"
  <2> DEFINE reads == CkksSecretkeyReads
             writes == CkksSecretkeyWrites
  <2>1. Classes[k].atOnce /\ Classes[k].resets /\ Classes[k].reads = reads /\ Classes[k].writes = writes
    BY <1>2 DEF Classes, Class, CkksSecretkeyTransfers
  <2>2. /\ Len(reads) = 11 /\ DOMAIN reads = 1 .. 11 /\ reads[11] = "data"
        /\ Len(writes) = 10 /\ writes # <<>>
    BY DEF CkksSecretkeyReads, CkksSecretkeyWrites
  <2>3. reads \in Seq({reads[i] : i \in 1 .. 11})
    BY DEF CkksSecretkeyReads
  <2> HIDE DEF reads, writes
  <2>4. SubSeq(reads, 1, Len(reads)) = reads
    BY <2>2, <2>3
  <2>5. QED
    BY <2>1, <2>2, <2>4
<1>3. CASE k = "BfvSecretkey"
  <2> DEFINE reads == BfvSecretkeyReads
             writes == BfvSecretkeyWrites
  <2>1. Classes[k].atOnce /\ Classes[k].resets /\ Classes[k].reads = reads /\ Classes[k].writes = writes
    BY <1>3 DEF Classes, Class, BfvSecretkeyTransfers
  <2>2. /\ Len(reads) = 11 /\ DOMAIN reads = 1 .. 11 /\ reads[11] = "data"
        /\ Len(writes) = 10 /\ writes # <<>>
    BY DEF BfvSecretkeyReads, BfvSecretkeyWrites
  <2>3. reads \in Seq({reads[i] : i \in 1 .. 11})
    BY DEF BfvSecretkeyReads
  <2> HIDE DEF reads, writes
  <2>4. SubSeq(reads, 1, Len(reads)) = reads
    BY <2>2, <2>3
  <2>5. QED
    BY <2>1, <2>2, <2>4
<1>4. QED
  BY <1>1, <1>2, <1>3 DEF Firm

(* They are among the seventeen.                                           *)
LEMMA FirmIsClass == \A k \in Firm : k \in DOMAIN Classes
  BY DEF Classes, Firm

(* A stream that holds less than the archive runs out under load().        *)
LEMMA SomeStepThrows ==
  ASSUME NEW k \in Firm, Agrees(Classes[k]), NEW cut \in 0 .. Len(Classes[k].writes) - 1
  PROVE  LET n == Len(Classes[k].reads)
         IN  n \in 1 .. n /\ MustThrow(Classes[k], n, cut)
<1> DEFINE class == Classes[k]
           n == Len(class.reads)
<1>1. /\ class.atOnce /\ n \in Nat /\ DOMAIN class.reads = 1 .. n
      /\ SubSeq(class.reads, 1, n) = class.reads /\ class.reads[n] = "data"
      /\ \E i \in DOMAIN class.reads : class.reads[i] = "data"
      /\ Len(class.writes) \in Nat
  BY FirmClasses
<1> HIDE DEF class
<1>2. Asked(class, n) = Len(class.writes)
  <2>1. SelectSeq(SubSeq(class.reads, 1, n), LAMBDA s : ~IsCheck(s))
          = SelectSeq(class.reads, LAMBDA s : ~IsCheck(s))
    BY <1>1
  <2>2. Asked(class, n) = Len(SelectSeq(SubSeq(class.reads, 1, n), LAMBDA s : ~IsCheck(s)))
    BY DEF Asked
  <2>3. SelectSeq(class.reads, LAMBDA s : ~IsCheck(s)) = class.writes
    BY DEF Agrees, class
  <2>4. QED
    BY <2>1, <2>2, <2>3
<1>3. ~IsCheck("data")
  BY DEF IsCheck
<1>4. Len(class.writes) > cut
  BY <1>1 DEF class
<1>5. Missing(class, n, cut)
  BY <1>1, <1>2, <1>3, <1>4 DEF Missing
<1>6. MustThrow(class, n, cut)
  BY <1>1, <1>5 DEF MustThrow
<1>7. n \in 1 .. n
  BY <1>1
<1>8. QED
  BY <1>6, <1>7 DEF class

(* So one of the steps of such a load is the first that throws.             *)
LEMMA CutThrows ==
  ASSUME NEW k \in Firm, Agrees(Classes[k]), NEW cut \in 0 .. Len(Classes[k].writes) - 1,
         NEW throws \in ThrowsAt(Classes[k], cut)
  PROVE  throws \in DOMAIN Classes[k].reads
<1> DEFINE class == Classes[k]
           n == Len(class.reads)
           must == {i \in 1 .. n : MustThrow(class, i, cut)}
           may == {i \in 1 .. n : MayThrow(class, i, cut)}
<1>1. n \in Nat /\ DOMAIN class.reads = 1 .. n
  BY FirmClasses
<1>2. n \in must /\ n \in may
  BY SomeStepThrows DEF MayThrow
<1>3. must \in SUBSET (1 .. n) /\ may \in SUBSET (1 .. n)
  OBVIOUS
<1> HIDE DEF must, may
<1>4. /\ \E i \in 1 .. n : i \in must /\ \A j \in 1 .. (i - 1) : j \notin must
      /\ \E i \in 1 .. n : i \in may /\ \A j \in 1 .. (i - 1) : j \notin may
  BY <1>1, <1>2, <1>3, FirstStep
<1> HIDE DEF class
<1>5. /\ \E i \in 1 .. n : MustThrow(class, i, cut) /\ \A j \in 1 .. (i - 1) : ~MustThrow(class, j, cut)
      /\ \E i \in 1 .. n : MayThrow(class, i, cut) /\ \A j \in 1 .. (i - 1) : ~MayThrow(class, j, cut)
  BY <1>1, <1>4 DEF must, may
<1> DEFINE a == CHOOSE i \in 1 .. n : MustThrow(class, i, cut) /\ \A j \in 1 .. (i - 1) : ~MustThrow(class, j, cut)
           b == CHOOSE i \in 1 .. n : MayThrow(class, i, cut) /\ \A j \in 1 .. (i - 1) : ~MayThrow(class, j, cut)
<1>6. a \in 1 .. n /\ b \in 1 .. n
  BY <1>5
<1>7. throws \in ThrowsAt(class, cut)
  BY DEF class
<1>8. /\ \E i \in 1 .. n : MustThrow(class, i, cut)
      /\ \E i \in 1 .. n : MayThrow(class, i, cut)
  BY <1>5
<1>9. throws \in {a, b}
  BY <1>7, <1>8 DEF ThrowsAt
<1>10. QED
  BY <1>1, <1>6, <1>9 DEF class

(* The load of a cut archive leaves such an object alone.                  *)
LEMMA CutLoads ==
  ASSUME NEW k \in Firm, NEW cut \in 0 .. Len(Classes[k].writes), cut # Len(Classes[k].writes),
         NEW out \in LoadOutcomes(Classes[k], cut)
  PROVE  ~out.marked /\ out.fields = "kept"
<1> DEFINE class == Classes[k]
<1>1. class.atOnce /\ class.writes # <<>> /\ k \in DOMAIN Classes
  BY FirmClasses, FirmIsClass
<1>2. Agrees(class)
  <2>1. PICK throws : throws \in ThrowsAt(class, Len(class.writes))
    <3>1. ASSUME NEW p, NEW q PROVE {p, q} # {}
      OBVIOUS
    <3>2. ThrowsAt(class, Len(class.writes)) # {}
      BY <3>1 DEF ThrowsAt
    <3>3. QED
      BY <3>2
  <2> DEFINE whole == Outcome(class, Len(class.writes), throws)
  <2>2. whole \in LoadOutcomes(class, Len(class.writes))
    BY <2>1 DEF LoadOutcomes
  <2> HIDE DEF whole, class
  <2>3. whole.fields = "read"
    BY <1>1, <2>2, ArchivesLoad DEF class
  <2>4. QED
    BY <2>3 DEF whole, Outcome
<1>3. PICK throws \in ThrowsAt(class, cut) : out = Outcome(class, cut, throws)
  BY DEF LoadOutcomes
<1>4. cut \in 0 .. Len(class.writes) - 1
  BY FirmClasses
<1>5. throws \in DOMAIN class.reads
  BY <1>2, <1>3, <1>4, CutThrows
<1> HIDE DEF class
<1>6. QED
  BY <1>1, <1>3, <1>5 DEF Outcome, class

(* Of such a class nothing is left half done, and no archive says so.      *)
Clear ==
  kind \in Firm =>
    /\ \A o \in Names : promised[o] # Mixed /\ fields[o] # Mixed
    /\ archive # NoArchive => archive.was # Mixed /\ archive.fields # Mixed

(* Changing a content does not leave it half loaded.                        *)
LEMMA ChangedIsClear ==
  ASSUME NEW d \in Content, d # Mixed
  PROVE  Changed(d) # Mixed
<1>1. CASE d \in Datum
  BY <1>1, ChangedIs, NoDatum
<1>2. CASE d \notin Datum
  BY <1>2 DEF Changed
<1>3. QED
  BY <1>1, <1>2

(* Nor does load(), of whatever archive and cut.                            *)
LEMMA LoadIsClear ==
  ASSUME IInv, Clear, NEW o \in Names, NEW cut \in 0 .. Len(Class_.writes), Load(o, cut)
  PROVE  Clear'
<1> SUFFICES ASSUME kind \in Firm
             PROVE  Clear'
  BY DEF Clear, Load
<1>1. PICK out \in LoadOutcomes(Class_, cut) :
        /\ fields' = [fields EXCEPT ![o] = CASE out.fields = "kept" -> @
                                             [] out.fields = "read" -> archive.fields
                                             [] OTHER -> Mixed]
        /\ promised' = [promised EXCEPT ![o] =
                           IF cut = Len(Class_.writes) THEN archive.was
                           ELSE IF out.marked THEN Mixed ELSE @]
  BY DEF Load
<1>2. /\ UNCHANGED <<kind, archive>> /\ archive # NoArchive /\ archive \in Archives
      /\ promised \in [Names -> Content] /\ fields \in [Names -> Content]
  BY DEF Load, IInv, TypeOK
<1>3. archive.was # Mixed /\ archive.fields # Mixed
  BY <1>2 DEF Clear
<1>4. promised'[o] # Mixed /\ fields'[o] # Mixed
  <2>1. CASE cut = Len(Class_.writes)
    <3>1. out.fields = "read"
      BY <2>1, FirmClasses, FirmIsClass, ArchivesLoad DEF Class_
    <3>2. QED
      BY <1>1, <1>2, <1>3, <2>1, <3>1
  <2>2. CASE cut # Len(Class_.writes)
    <3>1. ~out.marked /\ out.fields = "kept"
      BY <2>2, CutLoads DEF Class_
    <3>2. QED
      BY <1>1, <1>2, <2>2, <3>1 DEF Clear
  <2>3. QED
    BY <2>1, <2>2
<1>5. \A p \in Names \ {o} : promised'[p] = promised[p] /\ fields'[p] = fields[p]
  BY <1>1, <1>2
<1>6. QED
  BY <1>2, <1>4, <1>5 DEF Clear

(* Nor does any other step.                                                 *)
LEMMA NextIsClear ==
  ASSUME IInv, Clear, Next
  PROVE  Clear'
<1>1. /\ promised \in [Names -> Content] /\ fields \in [Names -> Content]
      /\ kind \in Kinds /\ kind \in DOMAIN Classes
  BY ObjectsAssumption DEF IInv, TypeOK
<1>2. CASE \E o \in Names, m \in Messages, c \in Contexts, to \in {"device", "host"} :
             Produce(o, m, c, to)
  <2>1. PICK o \in Names, d \in Datum :
          /\ UNCHANGED <<kind, archive>>
          /\ fields' = [fields EXCEPT ![o] = d] /\ promised' = [promised EXCEPT ![o] = d]
    BY <1>2 DEF Produce, Datum
  <2>2. QED
    BY <1>1, <2>1, NoDatum DEF Clear
<1>3. CASE \E o \in Names : StoreInDevice(o) \/ StoreInHost(o) \/ Use(o)
  BY <1>3 DEF Clear, StoreInDevice, StoreInHost, Use
<1>4. CASE \E o \in Names : Save(o)
  <2>1. PICK o \in Names :
          /\ UNCHANGED <<kind, fields, promised>>
          /\ archive'.fields = fields[o] /\ archive'.was = promised[o]
    BY <1>4 DEF Save
  <2>2. QED
    BY <2>1 DEF Clear
<1>5. CASE \E o \in Names, keep \in BOOLEAN : InPlace(o, keep)
  <2>1. PICK o \in Names :
          /\ UNCHANGED <<kind, archive>>
          /\ fields' = [fields EXCEPT ![o] = Changed(@)]
          /\ promised' = [promised EXCEPT ![o] = Changed(@)]
    BY <1>5 DEF InPlace
  <2>2. kind \in Firm => Changed(fields[o]) # Mixed /\ Changed(promised[o]) # Mixed
    BY <1>1, ChangedIsClear DEF Clear
  <2>3. QED
    BY <1>1, <2>1, <2>2 DEF Clear
<1>6. CASE \E o, p \in Names : Copy(o, p)
  <2>1. PICK o \in Names, p \in Names :
          /\ UNCHANGED <<kind, archive>>
          /\ fields' = [fields EXCEPT ![p] = IF Members \subseteq Class_.fields THEN fields[o]
                                             ELSE Mixed]
          /\ promised' = [promised EXCEPT ![p] = Assigned(p, o)]
    BY <1>6 DEF Copy
  <2>2. Members \subseteq Class_.fields
    BY <1>1, SoundClasses DEF Sound, Members, Class_
  <2>3. promised[o] # Mixed => Assigned(p, o) # Mixed
    BY DEF Assigned, Merged, Mixed
  <2>4. QED
    BY <1>1, <2>1, <2>2, <2>3 DEF Clear
<1>7. CASE \E o, p \in Names : Move(o, p)
  <2>1. PICK o \in Names, p \in Names :
          /\ UNCHANGED <<kind, archive>>
          /\ fields' = [fields EXCEPT ![p] = fields[o]]
          /\ promised' = [promised EXCEPT ![p] = Assigned(p, o),
                                          ![o] = IF Class_.resets THEN Zero ELSE Mixed]
    BY <1>7 DEF Move
  <2>2. kind \in Firm => Class_.resets
    BY FirmClasses DEF Class_
  <2>3. Zero # Mixed
    BY DEF Zero, Mixed
  <2>4. promised[o] # Mixed => Assigned(p, o) # Mixed
    BY DEF Assigned, Merged, Mixed
  <2>5. QED
    BY <1>1, <2>1, <2>2, <2>3, <2>4 DEF Clear
<1>8. CASE \E o \in Names, cut \in 0 .. Len(Class_.writes) : Load(o, cut)
  BY <1>8, LoadIsClear
<1>9. CASE \E o \in Names, c \in Contexts \cup {NoContext} : Renew(o, c)
  <2>1. PICK o \in Names :
          /\ UNCHANGED <<kind, archive>>
          /\ fields' = [fields EXCEPT ![o] = Zero] /\ promised' = [promised EXCEPT ![o] = Zero]
    BY <1>9 DEF Renew
  <2>2. Zero # Mixed
    BY DEF Zero, Mixed
  <2>3. QED
    BY <1>1, <2>1, <2>2 DEF Clear
<1>10. CASE StreamRuns
  BY <1>10 DEF Clear, StreamRuns
<1>11. QED
  BY <1>2, <1>3, <1>4, <1>5, <1>6, <1>7, <1>8, <1>9, <1>10 DEF Next

(* A ciphertext of CKKS or a secret key that load() found cut is as it was *)
(* before, whatever moves, copies, saves and loads went before, so no      *)
(* object of these classes is ever left half loaded.                       *)
THEOREM HalfLoadedNever == Spec => []NeverHalfLoaded
<1>1. Init => Clear
  <2>1. Zero # Mixed
    BY DEF Zero, Mixed
  <2>2. QED
    BY <2>1 DEF Init, Clear
<1>2. IInv /\ Clear /\ [Next]_vars => Clear'
  <2>1. ASSUME UNCHANGED vars, Clear PROVE Clear'
    BY <2>1 DEF vars, Clear
  <2>2. QED
    BY <2>1, NextIsClear
<1>3. Clear => NeverHalfLoaded
  BY DEF Clear, NeverHalfLoaded, Firm
<1>4. QED
  BY <1>1, <1>2, <1>3, Invariant, PTL DEF Spec
=============================================================================
