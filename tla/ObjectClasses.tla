--------------------------- MODULE ObjectClasses ---------------------------
(***************************************************************************)
(* What tells the serializable classes of the library apart: how each      *)
(* moves its data between host and device memory, what its save() writes   *)
(* and in which order its load() reads, checks and commits it.  The        *)
(* operations themselves are the actions of Objects.                       *)
(*                                                                         *)
(* Moves: upWaits and downWaits say whether store_in_device and            *)
(* store_in_host wait for the copy they queue, copyWaits the same of       *)
(* copy_to_device, and setReleases whether a new output gives back host    *)
(* memory.  An object without memory only changes its place.               *)
(*                                                                         *)
(* Copies: the members a copy takes over, and whether an assignment leaves *)
(* the buffer of the other place as it was (leavesOther).                  *)
(*                                                                         *)
(* Transfers: whether a move takes over both buffers or only the one of    *)
(* the place, and whether it resets the generated flag of its source.      *)
(*                                                                         *)
(* Reads: a field, "method" (the key switching byte), "count" (the size of *)
(* the payload, a local variable) and "data" consume an item of the        *)
(* stream; "scheme?" and "count?" are checks, "mark!" sets storage_type_   *)
(* to device and the generated flag to true.                               *)
(***************************************************************************)
EXTENDS Integers, Sequences, SequencesExt

-----------------------------------------------------------------------------
(* BFV                                                                     *)

BfvCiphertextMoves == [upWaits |-> FALSE, downWaits |-> FALSE]
BfvCiphertextCopies ==
    [leavesOther |-> TRUE,
     fields |-> {"ring", "moduli", "parts", "scheme", "ntt", "storage", "relin",
                 "generated", "context"}]
BfvCiphertextTransfers == [both |-> TRUE, resets |-> FALSE]
BfvCiphertextMemory == [copyWaits |-> FALSE, setReleases |-> TRUE]
BfvCiphertextWrites ==
    <<"scheme", "ring", "moduli", "parts", "ntt", "storage", "relin", "generated",
      "count", "data">>
BfvCiphertextReads ==
    <<"scheme", "ring", "moduli", "parts", "ntt", "storage", "relin", "generated", "mark!",
      "count", "count?", "data">>

\* Mutant: store_in_device does not wait for its copy.
HastyPlaintextMoves == [upWaits |-> FALSE, downWaits |-> FALSE]
BfvPlaintextMoves == [upWaits |-> TRUE, downWaits |-> FALSE]
BfvPlaintextCopies ==
    [leavesOther |-> TRUE,
     fields |-> {"scheme", "size", "ntt", "storage", "generated", "context"}]
BfvPlaintextTransfers == [both |-> TRUE, resets |-> FALSE]
BfvPlaintextMemory == [copyWaits |-> FALSE, setReleases |-> TRUE]
BfvPlaintextWrites == <<"scheme", "size", "ntt", "generated", "storage", "count", "data">>
BfvPlaintextReads ==
    <<"scheme", "scheme?", "size", "ntt", "generated", "storage", "mark!",
      "count", "count?", "data">>

\* Every short read and every bad value throws, and the object is assigned
\* from the temporary at the very end.
BfvSecretkeyMoves == [upWaits |-> TRUE, downWaits |-> TRUE]
BfvSecretkeyCopies ==
    [leavesOther |-> FALSE,
     fields |-> {"context", "scheme", "ring", "moduli", "power", "hamming", "ntt",
                 "generated", "storage"}]
BfvSecretkeyTransfers == [both |-> TRUE, resets |-> TRUE]
BfvSecretkeyMemory == [copyWaits |-> TRUE, setReleases |-> TRUE]
BfvSecretkeyWrites ==
    <<"scheme", "ring", "moduli", "power", "hamming", "ntt", "generated", "storage",
      "count", "data">>
BfvSecretkeyReads ==
    <<"scheme", "ring", "moduli", "power", "hamming", "ntt", "generated", "storage",
      "count", "count?", "data">>

BfvPublickeyMoves == [upWaits |-> TRUE, downWaits |-> FALSE]
BfvPublickeyCopies ==
    [leavesOther |-> TRUE,
     fields |-> {"context", "scheme", "ring", "moduli", "ntt", "storage",
                 "generated"}]
BfvPublickeyTransfers == [both |-> TRUE, resets |-> FALSE]
BfvPublickeyMemory == [copyWaits |-> FALSE, setReleases |-> TRUE]
BfvPublickeyWrites ==
    <<"scheme", "ring", "moduli", "ntt", "generated", "storage", "count", "data">>
BfvPublickeyReads ==
    <<"scheme", "scheme?", "ring", "moduli", "ntt", "generated", "storage", "mark!",
      "count", "count?", "data">>

\* The number of residues is a member that the constructor has set, so a
\* short stream is noticed up to the key switching byte only.
BfvRelinkeyMoves == [upWaits |-> TRUE, downWaits |-> FALSE]
BfvRelinkeyCopies ==
    [leavesOther |-> TRUE,
     fields |-> {"context", "scheme", "ring", "Q'", "Q", "digits", "digits~", "r'",
                 "storage", "size", "generated"}]
BfvRelinkeyTransfers == [both |-> FALSE, resets |-> FALSE]
BfvRelinkeyMemory == [copyWaits |-> FALSE, setReleases |-> TRUE]
BfvRelinkeyWrites ==
    <<"scheme", "method", "ring", "Q'", "Q", "digits", "digits~", "r'", "storage", "generated",
      "size", "data">>
BfvRelinkeyReads ==
    <<"scheme", "scheme?", "method", "ring", "Q'", "Q", "digits", "digits~", "r'", "storage",
      "generated", "size", "mark!", "data">>

BfvGaloiskeyMoves == [upWaits |-> TRUE, downWaits |-> FALSE]
BfvGaloiskeyCopies ==
    [leavesOther |-> TRUE,
     fields |-> {"context", "scheme", "ring", "Q'", "Q", "digits", "customized",
                 "order", "storage", "size", "elements", "zeroElement", "generated"}]
BfvGaloiskeyTransfers == [both |-> FALSE, resets |-> FALSE]
BfvGaloiskeyMemory == [copyWaits |-> FALSE, setReleases |-> FALSE]
BfvGaloiskeyWrites ==
    <<"scheme", "method", "ring", "Q'", "Q", "digits", "customized", "order", "storage",
      "generated", "elements", "zeroElement", "size", "keys", "data">>
BfvGaloiskeyReads ==
    <<"scheme", "scheme?", "method", "ring", "Q'", "Q", "digits", "customized", "order",
      "storage", "generated", "mark!", "elements", "zeroElement", "size", "keys", "data">>

BfvSwitchkeyMoves == [upWaits |-> TRUE, downWaits |-> FALSE]
BfvSwitchkeyCopies ==
    [leavesOther |-> FALSE,
     fields |-> {"context", "scheme", "ring", "Q'", "Q", "digits", "storage",
                 "size", "generated"}]
BfvSwitchkeyTransfers == [both |-> TRUE, resets |-> FALSE]
BfvSwitchkeyMemory == [copyWaits |-> FALSE, setReleases |-> TRUE]
BfvSwitchkeyWrites ==
    <<"scheme", "method", "ring", "Q'", "Q", "digits", "storage", "generated", "size", "data">>
BfvSwitchkeyReads ==
    <<"scheme", "method", "ring", "Q'", "Q", "digits", "storage", "generated", "size",
      "mark!", "data">>

-----------------------------------------------------------------------------
(* CKKS                                                                    *)

CkksCiphertextMoves == [upWaits |-> TRUE, downWaits |-> TRUE]
\* Mutant: a copy forgets that it waits for a rescaling.
CopiesWithoutRescale ==
    [leavesOther |-> TRUE,
     fields |-> {"ring", "moduli", "parts", "depth", "scheme", "ntt", "storage",
                 "scale", "encoding", "relin", "generated", "context"}]
CkksCiphertextCopies ==
    [leavesOther |-> TRUE,
     fields |-> {"ring", "moduli", "parts", "depth", "scheme", "ntt", "storage",
                 "scale", "encoding", "rescale", "relin", "generated", "context"}]
CkksCiphertextTransfers == [both |-> TRUE, resets |-> TRUE]
CkksCiphertextMemory == [copyWaits |-> FALSE, setReleases |-> TRUE]
CkksCiphertextWrites ==
    <<"scheme", "ring", "moduli", "parts", "depth", "ntt", "storage", "scale", "encoding",
      "rescale", "relin", "generated", "count", "data">>
CkksCiphertextReads ==
    <<"scheme", "ring", "moduli", "parts", "depth", "ntt", "storage", "scale", "encoding",
      "rescale", "relin", "generated", "count", "count?", "data">>

CkksPlaintextMoves == [upWaits |-> TRUE, downWaits |-> FALSE]
CkksPlaintextCopies ==
    [leavesOther |-> TRUE,
     fields |-> {"scheme", "size", "depth", "scale", "ntt", "encoding", "storage",
                 "generated", "context"}]
CkksPlaintextTransfers == [both |-> TRUE, resets |-> FALSE]
CkksPlaintextMemory == [copyWaits |-> FALSE, setReleases |-> TRUE]
CkksPlaintextWrites ==
    <<"scheme", "size", "depth", "scale", "ntt", "encoding", "generated", "storage",
      "count", "data">>
CkksPlaintextReads ==
    <<"scheme", "scheme?", "size", "depth", "scale", "ntt", "encoding", "generated", "storage",
      "mark!", "count", "count?", "data">>

CkksSecretkeyMoves == [upWaits |-> TRUE, downWaits |-> TRUE]
CkksSecretkeyCopies ==
    [leavesOther |-> FALSE,
     fields |-> {"context", "scheme", "ring", "moduli", "power", "hamming", "ntt",
                 "generated", "storage"}]
CkksSecretkeyTransfers == [both |-> TRUE, resets |-> TRUE]
CkksSecretkeyMemory == [copyWaits |-> TRUE, setReleases |-> TRUE]
CkksSecretkeyWrites ==
    <<"scheme", "ring", "moduli", "power", "hamming", "ntt", "generated", "storage",
      "count", "data">>
CkksSecretkeyReads ==
    <<"scheme", "ring", "moduli", "power", "hamming", "ntt", "generated", "storage",
      "count", "count?", "data">>

CkksPublickeyMoves == [upWaits |-> TRUE, downWaits |-> FALSE]
CkksPublickeyCopies ==
    [leavesOther |-> TRUE,
     fields |-> {"context", "scheme", "ring", "moduli", "ntt", "storage",
                 "generated"}]
CkksPublickeyTransfers == [both |-> TRUE, resets |-> FALSE]
CkksPublickeyMemory == [copyWaits |-> FALSE, setReleases |-> TRUE]
CkksPublickeyWrites ==
    <<"scheme", "ring", "moduli", "ntt", "generated", "storage", "count", "data">>
CkksPublickeyReads ==
    <<"scheme", "scheme?", "ring", "moduli", "ntt", "generated", "storage", "mark!",
      "count", "count?", "data">>

CkksRelinkeyMoves == [upWaits |-> TRUE, downWaits |-> FALSE]
CkksRelinkeyCopies ==
    [leavesOther |-> TRUE,
     fields |-> {"context", "scheme", "ring", "Q'", "Q", "digits", "digits~", "r'",
                 "storage", "size", "generated"}]
CkksRelinkeyTransfers == [both |-> FALSE, resets |-> FALSE]
CkksRelinkeyMemory == [copyWaits |-> FALSE, setReleases |-> TRUE]
CkksRelinkeyWrites ==
    <<"scheme", "method", "ring", "Q'", "Q", "digits", "digits~", "r'", "storage", "generated",
      "size", "data">>
CkksRelinkeyReads ==
    <<"scheme", "scheme?", "method", "ring", "Q'", "Q", "digits", "digits~", "r'", "storage",
      "generated", "size", "mark!", "data">>

CkksGaloiskeyMoves == [upWaits |-> TRUE, downWaits |-> FALSE]
CkksGaloiskeyCopies ==
    [leavesOther |-> TRUE,
     fields |-> {"context", "scheme", "ring", "Q'", "Q", "digits", "customized",
                 "order", "storage", "size", "elements", "zeroElement", "generated"}]
CkksGaloiskeyTransfers == [both |-> FALSE, resets |-> FALSE]
CkksGaloiskeyMemory == [copyWaits |-> FALSE, setReleases |-> FALSE]
CkksGaloiskeyWrites ==
    <<"scheme", "method", "ring", "Q'", "Q", "digits", "customized", "order", "storage",
      "generated", "elements", "zeroElement", "size", "keys", "data">>
CkksGaloiskeyReads ==
    <<"scheme", "scheme?", "method", "ring", "Q'", "Q", "digits", "customized", "order",
      "storage", "generated", "mark!", "elements", "zeroElement", "size", "keys", "data">>

CkksSwitchkeyMoves == [upWaits |-> TRUE, downWaits |-> FALSE]
CkksSwitchkeyCopies ==
    [leavesOther |-> FALSE,
     fields |-> {"context", "scheme", "ring", "Q'", "Q", "digits", "storage",
                 "size", "generated"}]
CkksSwitchkeyTransfers == [both |-> TRUE, resets |-> FALSE]
CkksSwitchkeyMemory == [copyWaits |-> FALSE, setReleases |-> TRUE]
CkksSwitchkeyWrites ==
    <<"scheme", "method", "ring", "Q'", "Q", "digits", "storage", "generated", "size", "data">>
CkksSwitchkeyReads ==
    <<"scheme", "method", "ring", "Q'", "Q", "digits", "storage", "generated", "size",
      "mark!", "data">>

-----------------------------------------------------------------------------
(* TFHE: every function waits, and nothing is serialized. *)

TfheCiphertextMoves == [upWaits |-> TRUE, downWaits |-> TRUE]
TfheCiphertextCopies ==
    [leavesOther |-> TRUE,
     fields |-> {"n", "shape", "variances", "storage", "generated"}]
TfheCiphertextTransfers == [both |-> TRUE, resets |-> FALSE]
TfheCiphertextMemory == [copyWaits |-> TRUE, setReleases |-> FALSE]
TfheSecretkeyMoves == [upWaits |-> TRUE, downWaits |-> TRUE]
TfheSecretkeyCopies ==
    [leavesOther |-> FALSE,
     fields |-> {"context", "n", "N", "k", "gadget", "storage", "generated"}]
TfheSecretkeyTransfers == [both |-> TRUE, resets |-> TRUE]
TfheSecretkeyMemory == [copyWaits |-> TRUE, setReleases |-> FALSE]
TfheBootstrappingkeyMoves == [upWaits |-> TRUE, downWaits |-> TRUE]
TfheBootstrappingkeyCopies ==
    [leavesOther |-> FALSE,
     fields |-> {"context", "base", "length", "variances", "storage", "generated"}]
TfheBootstrappingkeyTransfers == [both |-> TRUE, resets |-> TRUE]
TfheBootstrappingkeyMemory == [copyWaits |-> TRUE, setReleases |-> FALSE]

-----------------------------------------------------------------------------
(* The classes by name.  atOnce: load() reads into temporaries, throws on  *)
(* every short read and assigns the object at its very end.                *)

Class(moves, buffers, copies, transfers, writes, reads, atOnce) ==
    [upWaits |-> moves.upWaits, downWaits |-> moves.downWaits,
     copyWaits |-> buffers.copyWaits, setReleases |-> buffers.setReleases,
     leavesOther |-> copies.leavesOther, fields |-> copies.fields,
     both |-> transfers.both, resets |-> transfers.resets,
     writes |-> writes, reads |-> reads, atOnce |-> atOnce]

Classes ==
    [BfvCiphertext |->
         Class(BfvCiphertextMoves, BfvCiphertextMemory, BfvCiphertextCopies, BfvCiphertextTransfers,
               BfvCiphertextWrites, BfvCiphertextReads, FALSE),
     BfvPlaintext |->
         Class(BfvPlaintextMoves, BfvPlaintextMemory, BfvPlaintextCopies, BfvPlaintextTransfers,
               BfvPlaintextWrites, BfvPlaintextReads, FALSE),
     BfvSecretkey |->
         Class(BfvSecretkeyMoves, BfvSecretkeyMemory, BfvSecretkeyCopies, BfvSecretkeyTransfers,
               BfvSecretkeyWrites, BfvSecretkeyReads, TRUE),
     BfvPublickey |->
         Class(BfvPublickeyMoves, BfvPublickeyMemory, BfvPublickeyCopies, BfvPublickeyTransfers,
               BfvPublickeyWrites, BfvPublickeyReads, FALSE),
     BfvRelinkey |->
         Class(BfvRelinkeyMoves, BfvRelinkeyMemory, BfvRelinkeyCopies, BfvRelinkeyTransfers,
               BfvRelinkeyWrites, BfvRelinkeyReads, FALSE),
     BfvGaloiskey |->
         Class(BfvGaloiskeyMoves, BfvGaloiskeyMemory, BfvGaloiskeyCopies, BfvGaloiskeyTransfers,
               BfvGaloiskeyWrites, BfvGaloiskeyReads, FALSE),
     BfvSwitchkey |->
         Class(BfvSwitchkeyMoves, BfvSwitchkeyMemory, BfvSwitchkeyCopies, BfvSwitchkeyTransfers,
               BfvSwitchkeyWrites, BfvSwitchkeyReads, FALSE),
     CkksCiphertext |->
         Class(CkksCiphertextMoves, CkksCiphertextMemory, CkksCiphertextCopies, CkksCiphertextTransfers,
               CkksCiphertextWrites, CkksCiphertextReads, TRUE),
     CkksPlaintext |->
         Class(CkksPlaintextMoves, CkksPlaintextMemory, CkksPlaintextCopies, CkksPlaintextTransfers,
               CkksPlaintextWrites, CkksPlaintextReads, FALSE),
     CkksSecretkey |->
         Class(CkksSecretkeyMoves, CkksSecretkeyMemory, CkksSecretkeyCopies, CkksSecretkeyTransfers,
               CkksSecretkeyWrites, CkksSecretkeyReads, TRUE),
     CkksPublickey |->
         Class(CkksPublickeyMoves, CkksPublickeyMemory, CkksPublickeyCopies, CkksPublickeyTransfers,
               CkksPublickeyWrites, CkksPublickeyReads, FALSE),
     CkksRelinkey |->
         Class(CkksRelinkeyMoves, CkksRelinkeyMemory, CkksRelinkeyCopies, CkksRelinkeyTransfers,
               CkksRelinkeyWrites, CkksRelinkeyReads, FALSE),
     CkksGaloiskey |->
         Class(CkksGaloiskeyMoves, CkksGaloiskeyMemory, CkksGaloiskeyCopies, CkksGaloiskeyTransfers,
               CkksGaloiskeyWrites, CkksGaloiskeyReads, FALSE),
     CkksSwitchkey |->
         Class(CkksSwitchkeyMoves, CkksSwitchkeyMemory, CkksSwitchkeyCopies, CkksSwitchkeyTransfers,
               CkksSwitchkeyWrites, CkksSwitchkeyReads, FALSE),
     TfheCiphertext |->
         Class(TfheCiphertextMoves, TfheCiphertextMemory, TfheCiphertextCopies, TfheCiphertextTransfers,
               <<>>, <<>>, FALSE),
     TfheSecretkey |->
         Class(TfheSecretkeyMoves, TfheSecretkeyMemory, TfheSecretkeyCopies, TfheSecretkeyTransfers,
               <<>>, <<>>, FALSE),
     TfheBootstrappingkey |->
         Class(TfheBootstrappingkeyMoves, TfheBootstrappingkeyMemory, TfheBootstrappingkeyCopies, TfheBootstrappingkeyTransfers,
               <<>>, <<>>, FALSE)]

\* The classes whose data are a map from Galois elements to buffers in each
\* memory: assignments, moves between memories and load() write element by
\* element into maps that keep what else they have.
Maps == {"BfvGaloiskey", "CkksGaloiskey"}

-----------------------------------------------------------------------------
(* What load() makes of a stream that holds the first cut items of an      *)
(* archive of the same class.                                              *)

IsCheck(step) == step \in {"scheme?", "count?", "mark!"}

\* The number of items that the first i steps of load() ask for.
Asked(class, i) == Len(SelectSeq(SubSeq(class.reads, 1, i), LAMBDA s : ~IsCheck(s)))

\* Not in the stream any more.
Missing(class, i, cut) == ~IsCheck(class.reads[i]) /\ Asked(class, i) > cut

\* Mutant: only the key switching byte is checked.
ThrowsForMethod(class, i, cut) == Missing(class, i, cut) /\ class.reads[i] = "method"

\* A member that is missing in the stream keeps its value, so the check of
\* the scheme passes; the key switching byte is checked by its reader.  The
\* count is a local variable that nothing has set: the check of the size
\* may go either way.  So is the number of Galois elements, for which the
\* memory may or may not suffice.
MustThrow(class, i, cut) ==
    /\ Missing(class, i, cut)
    /\ class.atOnce \/ class.reads[i] = "method"
MayThrow(class, i, cut) ==
    \/ MustThrow(class, i, cut)
    \/ class.reads[i] = "count?" /\ Missing(class, i - 1, cut)
    \/ class.reads[i] = "elements" /\ Missing(class, i, cut)

\* The step at which load() throws, or one past the last.
ThrowsAt(class, cut) ==
    LET steps == 1 .. Len(class.reads)
        First(is(_)) == IF \E i \in steps : is(i)
                        THEN CHOOSE i \in steps : is(i) /\ \A j \in 1 .. (i - 1) : ~is(j)
                        ELSE Len(class.reads) + 1
    IN  {First(LAMBDA i : MustThrow(class, i, cut)), First(LAMBDA i : MayThrow(class, i, cut))}

\* The items in the order in which they are read are those written, with
\* the same ones before the cut.
Agrees(class) == SelectSeq(class.reads, LAMBDA s : ~IsCheck(s)) = class.writes

\* Steps before the one that throws are done.
Done(class, throws, step) == \E i \in 1 .. (throws - 1) : class.reads[i] = step

\* What is left of the object: marked as generated, its members and its data.
Outcome(class, cut, throws) ==
    LET whole == cut = Len(class.writes)
    IN  [throws |-> throws \in DOMAIN class.reads,
         marked |-> IF class.atOnce THEN throws \notin DOMAIN class.reads
                    ELSE Done(class, throws, "mark!"),
         fields |-> IF class.atOnce /\ ~whole THEN "kept"
                    ELSE IF cut >= Len(class.writes) - 1 /\ Agrees(class) THEN "read"
                    ELSE "mixed",
         data |-> IF ~Done(class, throws, "data") THEN "kept"
                  ELSE IF whole /\ Agrees(class) THEN "read" ELSE "zero"]

LoadOutcomes(class, cut) == {Outcome(class, cut, throws) : throws \in ThrowsAt(class, cut)}

(* Of a whole archive, every load() makes the object it was written from.  *)
ASSUME ArchivesLoad ==
    \A k \in DOMAIN Classes :
        Classes[k].writes # <<>> =>
            \A out \in LoadOutcomes(Classes[k], Len(Classes[k].writes)) :
                ~out.throws /\ out.marked /\ out.fields = "read" /\ out.data = "read"
=============================================================================
