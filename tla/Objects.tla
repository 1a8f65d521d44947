------------------------------ MODULE Objects ------------------------------
(***************************************************************************)
(* Ciphertexts, plaintexts and keys as places for data: the objects of one *)
(* class, whose data is in device or in host memory, copied between the    *)
(* two by commands that a stream runs later; operations that read an       *)
(* object or change it in place from either memory (storagemanager.cuh);   *)
(* copies; archives, whole, cut short or of something else.                *)
(*                                                                         *)
(* The data of an object is what a context gave it, <<message, context>>.  *)
(* All calls come from one thread, on one stream that the default stream   *)
(* waits for.  Archives have a header (format v2).                         *)
(***************************************************************************)
EXTENDS ObjectClasses, FiniteSets

CONSTANTS
    Names,        \* the objects
    Messages,     \* what a context can put into one
    Contexts,     \* identities of contexts
    NoContext,    \* the identity 0
    Kinds,        \* the classes of objects to look at
    NoArchive

ASSUME ObjectsAssumption ==
    /\ NoContext \notin Contexts
    /\ Kinds \subseteq DOMAIN Classes
    /\ \A m \in Messages : Messages # {m}

VARIABLES
    kind,        \* the class of the objects
    place,       \* storage_type_ of an object
    generated,   \* its ..._generated_ flag
    fields,      \* whose members (size, depth, scale, form, ...) it has
    context,     \* context_id_
    held,        \* the buffers that are not empty
    memory,      \* what is in them, once the stream has run what it was given
    busy,        \* host memory that commands yet to run copy from or to
    archive,     \* what the last save() wrote
    promised,    \* what the calls so far have made of an object
    rushed       \* the call that gave back host memory a command still uses

vars == <<kind, place, generated, fields, context, held, memory, busy, archive, promised,
          rushed>>

Class_ == Classes[kind]

Datum == Messages \X Contexts
Zero == <<0, NoContext>>         \* fresh host memory
Mixed == <<1, NoContext>>        \* of two objects, or of none
Merged == <<2, NoContext>>       \* elements of a key, beside some of other keys
Content == Datum \cup {Zero, Mixed, Merged}

Device(o) == <<"device", o>>
Host(o) == <<"host", o>>
Cells == {Device(o) : o \in Names} \cup {Host(o) : o \in Names}

(* An operation that changes a datum in place.                             *)
Changed(d) == IF d \in Datum THEN <<CHOOSE m \in Messages : m # d[1], d[2]>> ELSE d

-----------------------------------------------------------------------------
(* The memory, where the objects are, what the stream still copies and     *)
(* whether memory was given back too early, as one value that the steps of *)
(* a call hand on.  Commands run in the order of the calls, so memory has  *)
(* their effect at once; what the processor must not touch until they run  *)
(* is in busy.                                                             *)
Now == [place |-> place, held |-> held, memory |-> memory, busy |-> busy, rushed |-> rushed]

Commit(s) ==
    /\ place' = s.place /\ held' = s.held /\ memory' = s.memory
    /\ busy' = s.busy /\ rushed' = s.rushed

(* What is in a buffer, or in the map of a Galois key, that datum is       *)
(* written to: elements that datum lacks stay in the map, where a rotation *)
(* finds them and save() writes them.                                      *)
Merges == kind \in Maps
Joined(s, cell, datum) ==
    IF Merges /\ datum \in Datum /\ cell \in s.held /\ s.memory[cell] # datum
    THEN Merged ELSE datum

(* A kernel, or a copy from datum's place, fills a buffer.                 *)
Filled(s, cell, datum) ==
    [s EXCEPT !.held = @ \cup {cell}, !.memory[cell] = Joined(s, cell, datum)]

ToDevice(s, o) ==
    [Filled(s, Device(o), s.memory[Host(o)]) EXCEPT !.busy = @ \cup {<<Host(o), "from">>}]
ToHost(s, o) ==
    [Filled(s, Host(o), s.memory[Device(o)]) EXCEPT !.busy = @ \cup {<<Host(o), "to">>}]

(* cudaStreamSynchronize, and the calls that wait for the device.          *)
Drained(s) == [s EXCEPT !.busy = {}]
DrainedIf(waits, s) == IF waits THEN Drained(s) ELSE s

InUse(s, o) == \E way \in {"from", "to"} : <<Host(o), way>> \in s.busy

(* A buffer that an object keeps beside the one it uses; nobody reads it   *)
(* again, so what is in it is forgotten.  The elements in the other map of *)
(* a Galois key come back when the key moves there.                        *)
LeftOver(s, cell) == IF Merges THEN s ELSE [s EXCEPT !.memory[cell] = Zero]

(* Device memory is given back in the order of the stream, host memory at  *)
(* once.                                                                   *)
DeviceReleased(s, o) == [s EXCEPT !.held = @ \ {Device(o)}, !.memory[Device(o)] = Zero]
HostReleased(s, o, call) ==
    [s EXCEPT !.held = @ \ {Host(o)}, !.memory[Host(o)] = Zero,
              !.rushed = IF InUse(s, o) THEN call ELSE @]

(* New host memory takes the place of the old, in a map of each element    *)
(* that is written.                                                        *)
HostReplaced(s, o, call) ==
    IF Merges THEN [s EXCEPT !.rushed = IF InUse(s, o) THEN call ELSE @]
    ELSE HostReleased(s, o, call)

-----------------------------------------------------------------------------
(* Moves of an object.                                                     *)

StoredInDevice(s, o, call) ==
    LET moved == [s EXCEPT !.place[o] = "device"]
    IN  IF s.place[o] = "device" \/ Host(o) \notin s.held THEN moved
        ELSE HostReleased(DrainedIf(Class_.upWaits, ToDevice(moved, o)), o, call)

StoredInHost(s, o, call) ==
    LET moved == [s EXCEPT !.place[o] = "host"]
    IN  IF s.place[o] = "host" \/ Device(o) \notin s.held THEN moved
        ELSE DeviceReleased(
                 DrainedIf(Class_.downWaits, ToHost(HostReplaced(moved, o, call), o)), o)

CopiedToDevice(s, o) ==
    LET moved == [s EXCEPT !.place[o] = "device"]
    IN  IF s.place[o] = "device" \/ Host(o) \notin s.held THEN moved
        ELSE LeftOver(DrainedIf(Class_.copyWaits, ToDevice(moved, o)), Host(o))

(* memory_set: the output of an operation, which a kernel writes.          *)
Set(s, o, datum, call) ==
    LET output == LeftOver(Filled([s EXCEPT !.place[o] = "device"], Device(o), datum), Host(o))
    IN  IF Class_.setReleases THEN HostReleased(output, o, call) ELSE output

(* output_storage_manager: the output goes where the options want it.      *)
Stored(s, o, to, call) ==
    IF to = "device" THEN StoredInDevice(s, o, call) ELSE StoredInHost(s, o, call)

-----------------------------------------------------------------------------
Init ==
    /\ kind \in Kinds
    /\ place = [o \in Names |-> "device"]
    /\ generated = [o \in Names |-> FALSE]
    /\ fields = [o \in Names |-> Zero]
    /\ context \in [Names -> Contexts \cup {NoContext}]
    /\ held = {}
    /\ memory = [c \in Cells |-> Zero]
    /\ busy = {}
    /\ archive = NoArchive
    /\ promised = [o \in Names |-> Zero]
    /\ rushed = "no"

Runs == rushed = "no"

(* Nothing is said of an object that a load left half done, or that was    *)
(* moved from, and a program does nothing with it but destroy it.          *)
Trusted(o) == promised[o] # Mixed

(* An operation, an encoder or a generator of the context makes o.  The    *)
(* generator of a Galois key wants one that is not generated yet.          *)
Produce(o, m, c, to) ==
    /\ Runs /\ Trusted(o)
    /\ Merges => ~generated[o]
    /\ context[o] \in {NoContext, c}
    /\ Commit(Stored(Set(Now, o, <<m, c>>, "output"), o, to, "output"))
    /\ generated' = [generated EXCEPT ![o] = TRUE]
    /\ fields' = [fields EXCEPT ![o] = <<m, c>>]
    /\ context' = [context EXCEPT ![o] = c]
    /\ promised' = [promised EXCEPT ![o] = <<m, c>>]
    /\ UNCHANGED <<kind, archive>>

StoreInDevice(o) ==
    /\ Runs /\ Trusted(o) /\ generated[o] /\ place[o] = "host"
    /\ Commit(StoredInDevice(Now, o, "store_in_device"))
    /\ UNCHANGED <<kind, generated, fields, context, archive, promised>>

StoreInHost(o) ==
    /\ Runs /\ Trusted(o) /\ generated[o] /\ place[o] = "device"
    /\ Commit(StoredInHost(Now, o, "store_in_host"))
    /\ UNCHANGED <<kind, generated, fields, context, archive, promised>>

(* A program waits for the stream before it reads host memory of a class   *)
(* whose store_in_host does not.                                           *)
Ready(o) == <<Host(o), "to">> \notin busy
HostReadable(o) == place[o] = "host" /\ ~Class_.downWaits => Ready(o)

(* What the processor finds in host memory.                                *)
Read(o) == IF Ready(o) THEN memory[Host(o)] ELSE Mixed

(* An operation reads o: in device memory as it is, else from a copy that  *)
(* store_in_device moves once the stream has run, and that is gone when    *)
(* the call returns.                                                       *)
Use(o) ==
    /\ Runs /\ Trusted(o) /\ generated[o]
    /\ Commit(IF place[o] = "device" THEN Now
              ELSE [Drained(Now) EXCEPT !.rushed = IF Class_.upWaits THEN @ ELSE "operation"])
    /\ UNCHANGED <<kind, generated, fields, context, archive, promised>>

(* input_storage_manager of an object that the operation changes, with     *)
(* keep_initial_condition_ and without.  The memory stays in the device.   *)
InPlace(o, keep) ==
    LET there == IF keep THEN CopiedToDevice(Now, o) ELSE StoredInDevice(Now, o, "operation")
    IN  /\ Runs /\ Trusted(o) /\ generated[o]
        /\ kind \in {"BfvCiphertext", "CkksCiphertext", "CkksPlaintext"}
        /\ Commit([there EXCEPT !.memory[Device(o)] = Changed(@)])
        /\ fields' = [fields EXCEPT ![o] = Changed(@)]
        /\ promised' = [promised EXCEPT ![o] = Changed(@)]
        /\ UNCHANGED <<kind, generated, context, archive>>

(* A copy of o assigned to p: by the stream, or by the processor at once.  *)
Members == Range(Class_.writes) \ {"method", "count", "data", "keys"}

Copied(s, p, o) ==
    LET other == IF Class_.leavesOther THEN s
                 ELSE DeviceReleased(HostReleased(s, p, "copy"), p)
        sized == [other EXCEPT !.place[p] = place[o],
                               !.held = IF Merges THEN @ ELSE @ \ {<<place[o], p>>},
                               !.rushed = IF place[o] = "host" /\ InUse(s, p)
                                          THEN "copy" ELSE @]
    IN  IF <<place[o], o>> \notin held THEN sized
        ELSE IF place[o] = "device"
             THEN LeftOver(Filled(sized, Device(p), memory[Device(o)]), Host(p))
             ELSE LeftOver(Filled(sized, Host(p), Read(o)), Device(p))

(* What p is after an assignment from o, or what is left to say of it: a   *)
(* Galois key that has elements keeps those that o lacks.                  *)
Assigned(p, o) ==
    IF /\ Merges
       /\ \E c \in held : c[2] = p /\ memory[c] # promised[o]
    THEN Merged ELSE promised[o]

Copy(o, p) ==
    /\ Runs /\ Trusted(o) /\ Trusted(p) /\ generated[o] /\ o # p /\ HostReadable(o)
    /\ Commit(Copied(Now, p, o))
    /\ generated' = [generated EXCEPT ![p] = generated[o]]
    /\ fields' = [fields EXCEPT ![p] = IF Members \subseteq Class_.fields THEN fields[o]
                                       ELSE Mixed]
    /\ context' = [context EXCEPT ![p] = context[o]]
    /\ promised' = [promised EXCEPT ![p] = Assigned(p, o)]
    /\ UNCHANGED <<kind, archive>>

(* p = std::move(o).                                                       *)
Moved(s, p, o) ==
    LET taken == IF Class_.both THEN {"device", "host"} ELSE {place[o]}
        emptied == IF "host" \in taken THEN HostReplaced(s, p, "assignment") ELSE s
        stays(c) == c[2] \notin {o, p} \/ (Merges /\ c[1] \notin taken)
    IN  [emptied EXCEPT
           !.place[p] = place[o],
           !.held = {c \in @ : c[2] \notin {o, p} \/ c[1] \notin taken}
                      \cup {<<w, p>> : w \in {w \in taken : <<w, o>> \in held}},
           !.memory = [c \in Cells |->
                         IF c = <<place[o], p>> THEN Joined(emptied, c, @[<<place[o], o>>])
                         ELSE IF stays(c) THEN @[c] ELSE Zero],
           !.busy = {b \in @ : b[1] # Host(o) \/ "host" \notin taken}
                      \cup {<<Host(p), b[2]>> : b \in {b \in busy : b[1] = Host(o)
                                                             /\ "host" \in taken}}]

Move(o, p) ==
    /\ Runs /\ Trusted(o) /\ Trusted(p) /\ generated[o] /\ o # p
    /\ Commit(Moved(Now, p, o))
    /\ generated' = [generated EXCEPT ![p] = TRUE, ![o] = ~Class_.resets]
    /\ fields' = [fields EXCEPT ![p] = fields[o]]
    /\ context' = [context EXCEPT ![p] = context[o]]
    /\ promised' = [promised EXCEPT ![p] = Assigned(p, o),
                                    ![o] = IF Class_.resets THEN Zero ELSE Mixed]
    /\ UNCHANGED <<kind, archive>>

(* The objects of TFHE have no archives.                                   *)
Serializable == Class_.writes # <<>>

(* save(): data in device memory is fetched by a call that waits.          *)
Save(o) ==
    LET here == IF place[o] = "device" THEN Drained(Now) ELSE Now
    IN  /\ Runs /\ Trusted(o) /\ Serializable /\ generated[o] /\ HostReadable(o)
        /\ Commit(here)
        /\ archive' = [fields |-> fields[o],
                       data |-> IF place[o] = "device" THEN memory[Device(o)] ELSE Read(o),
                       context |-> context[o], was |-> promised[o]]
        /\ UNCHANGED <<kind, generated, fields, context, promised>>

(* load() of the archive, of which the stream holds the header and the     *)
(* first cut items.  A header of another kind of object or another scheme, *)
(* or one that is cut, throws before anything changes.                     *)
Load(o, cut) ==
    /\ Runs /\ Serializable /\ archive # NoArchive /\ ~generated[o]
    /\ context[o] = NoContext \/ context[o] = archive.context
    /\ \E out \in LoadOutcomes(Class_, cut) :
          LET here == IF out.data = "kept" THEN Now ELSE Drained(Now)
              datum == IF out.data = "read" THEN archive.data ELSE Zero
              moved == IF out.marked THEN [here EXCEPT !.place[o] = "device"] ELSE here
          IN  /\ Commit(IF out.data = "kept" THEN moved
                        ELSE Filled(moved, Device(o), datum))
              /\ generated' = [generated EXCEPT ![o] = out.marked]
              /\ fields' = [fields EXCEPT ![o] = CASE out.fields = "kept" -> @
                                                   [] out.fields = "read" -> archive.fields
                                                   [] OTHER -> Mixed]
              /\ context' = IF Class_.atOnce /\ out.throws THEN context
                            ELSE [context EXCEPT ![o] = archive.context]
              /\ promised' = [promised EXCEPT ![o] =
                                 IF cut = Len(Class_.writes) THEN archive.was
                                 ELSE IF out.marked THEN Mixed ELSE @]
    /\ UNCHANGED <<kind, archive>>

(* o is destroyed, and another one constructed, with or without a context. *)
Renew(o, c) ==
    /\ Runs
    /\ Commit([DeviceReleased(HostReleased(Now, o, "destructor"), o)
                  EXCEPT !.place[o] = "device"])
    /\ generated' = [generated EXCEPT ![o] = FALSE]
    /\ fields' = [fields EXCEPT ![o] = Zero]
    /\ context' = [context EXCEPT ![o] = c]
    /\ promised' = [promised EXCEPT ![o] = Zero]
    /\ UNCHANGED <<kind, archive>>

StreamRuns ==
    /\ Runs
    /\ \E command \in busy : busy' = busy \ {command}
    /\ UNCHANGED <<kind, place, generated, fields, context, held, memory, archive, promised,
                   rushed>>

Next ==
    \/ \E o \in Names, m \in Messages, c \in Contexts, to \in {"device", "host"} :
          Produce(o, m, c, to)
    \/ \E o \in Names : StoreInDevice(o) \/ StoreInHost(o) \/ Use(o) \/ Save(o)
    \/ \E o \in Names, keep \in BOOLEAN : InPlace(o, keep)
    \/ \E o, p \in Names : Copy(o, p) \/ Move(o, p)
    \/ \E o \in Names, cut \in 0 .. Len(Class_.writes) : Load(o, cut)
    \/ \E o \in Names, c \in Contexts \cup {NoContext} : Renew(o, c)
    \/ StreamRuns

Spec == Init /\ [][Next]_vars

-----------------------------------------------------------------------------
Archives ==
    [fields : Content, data : Content, context : Contexts \cup {NoContext}, was : Content]

Ends ==
    {"no", "output", "store_in_device", "store_in_host", "operation", "copy", "assignment",
     "destructor"}

TypeOK ==
    /\ kind \in Kinds
    /\ place \in [Names -> {"device", "host"}]
    /\ generated \in [Names -> BOOLEAN]
    /\ fields \in [Names -> Content]
    /\ context \in [Names -> Contexts \cup {NoContext}]
    /\ held \subseteq Cells
    /\ memory \in [Cells -> Content]
    /\ busy \subseteq {Host(o) : o \in Names} \X {"from", "to"}
    /\ archive \in Archives \cup {NoArchive}
    /\ promised \in [Names -> Content]
    /\ rushed \in Ends

(* The member data of a call that did not fail are one object's: what is   *)
(* in memory once the stream has run, the members that describe it and the *)
(* identity of the context belong together, wherever the object was stored,*)
(* copied, changed, saved and loaded; and so do the parts of an archive.   *)
(* A Galois key of BFV or CKKS that had elements of another one when it    *)
(* was assigned to is Merged, and nothing is said of it, of its copies and *)
(* of its archives: operator= leaves elements in the maps of its target    *)
(* that the other key lacks.  An assignment to one without elements, or    *)
(* with those of the same key, is as good as that of any other object.     *)
WholeObjects ==
    LET Whole(datum, members, id, was) ==
            was \in Datum => datum = was /\ members = was /\ id = was[2]
    IN  Runs =>
          /\ \A o \in Names : generated[o] =>
                /\ Whole(memory[<<place[o], o>>], fields[o], context[o], promised[o])
                /\ promised[o] \in Datum => <<place[o], o>> \in held
          /\ archive # NoArchive =>
                Whole(archive.data, archive.fields, archive.context, archive.was)

(* Host memory, which a pool hands out again at once, is not given back by *)
(* store_in_device, by an operation on an object in host memory, nor at    *)
(* all by the classes whose every move waits, while a command of the       *)
(* stream still reads or writes it: in all classes but the ciphertexts of  *)
(* BFV (test_storage.cpp).                                                 *)
HostMemoryOutlivesItsCopy ==
    kind # "BfvCiphertext" =>
      /\ rushed \notin {"store_in_device", "operation"}
      /\ Class_.upWaits /\ Class_.downWaits /\ Class_.copyWaits => rushed = "no"

(* A ciphertext of CKKS and a secret key are never left half loaded: after *)
(* an archive that was cut they are as before, and can be loaded again.    *)
NeverHalfLoaded ==
    kind \in {"CkksCiphertext", "CkksSecretkey", "BfvSecretkey"} =>
      \A o \in Names : promised[o] # Mixed /\ fields[o] # Mixed
=============================================================================
