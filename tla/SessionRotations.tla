-------------------------- MODULE SessionRotations --------------------------
(***************************************************************************)
(* The rotation keys of an HESession (src/lib/host/ckks/session.cu; the    *)
(* BFV session has the same protocol).  The copies of a session share one  *)
(* state with an optional Galoiskey that grows while several threads       *)
(* rotate.  galois_mutex is held shared while the key is used and          *)
(* exclusively while steps are added, and rotation_keys drops the shared   *)
(* lock, takes the exclusive one and takes the shared one again.           *)
(*                                                                         *)
(* A step stands for a normalized shift and for its Galois element.  The   *)
(* key of a step is generated by kernels queued on the default stream;     *)
(* the threads rotate on streams of their own.                             *)
(***************************************************************************)
EXTENDS FiniteSets, Naturals

CONSTANTS
  Threads,        \* the threads that share copies of the session
  Steps,          \* the normalized shifts other than zero
  MadeOf,         \* the sets of steps a step can be put together from
  MayFail,        \* a generation may throw: out of memory, a CUDA error
  MayMove,        \* the application moves galois_key() between memories
  WritersFirst,   \* the shared_mutex lets no reader pass a waiting writer
  NoThread,
  Conjugation     \* stands for the key of the conjugation

ASSUME RotationsAssumption ==
  /\ IsFiniteSet(Steps)
  /\ MadeOf \in [Steps -> SUBSET SUBSET Steps]
  /\ MayFail \in BOOLEAN
  /\ MayMove \in BOOLEAN
  /\ WritersFirst \in BOOLEAN
  /\ NoThread \notin Threads
  /\ Conjugation \notin Steps

VARIABLES
  pc,             \* where each thread is in rotation_keys or save
  secret,         \* state.secret_key.has_value(): an owner, not an evaluator
  want,           \* the steps each thread's call needs
  outcome,        \* how the last call of each thread ended
  readers,        \* galois_mutex: the threads that hold it shared
  writer,         \* galois_mutex: the thread that holds it exclusively
  present,        \* state.galois_key.has_value()
  galoisElt,      \* the steps galois_key.galois_elt lists
  generated,      \* galois_key.galois_key_generated_
  storage,        \* galois_key.storage_type_, "unset" before generation
  device,         \* the steps with an entry in device_location_
  host,           \* the steps with an entry in host_location_
  missing,        \* generate_rotations: the steps still to be made
  extra,          \* device_location_ of the local Galoiskey keys
  pending,        \* steps whose kernels are queued on the default stream
  file            \* the key last written by save

mutexVars == <<readers, writer>>
keyVars   == <<present, galoisElt, generated, storage, device, host>>
genVars   == <<missing, extra, pending>>
callVars  == <<pc, want, outcome>>
vars      == <<callVars, mutexVars, keyVars, genVars, file, secret>>

Control == {"idle", "shared", "check", "exclusive", "plan", "first",
            "extra", "merge", "relock", "use", "saveLock", "save"}

Outcomes == {"none", "ok", "KeyNotFound", "failed", "saved", "notGenerated"}

Storages == {"unset", "device", "host"}

(* What save writes: the listed steps, the steps with data, and whether    *)
(* there is a key at all.                                                  *)
Files == [elts : SUBSET Steps, data : SUBSET Steps, conjugation : BOOLEAN]

NoKeyFile == [elts |-> {}, data |-> {}, conjugation |-> FALSE]

(* Mutant: the loop over the shifts keeps what it found of one of them.    *)
SomePresent(S) == present /\ (S = {} \/ S \cap galoisElt # {})

(* The shifts of the call are all there: the test of rotation_keys.        *)
AllPresent(S) == present /\ S \subseteq galoisElt

(* The maps rotate_ckks looks a step up in; storage_type_ has any value    *)
(* while nothing has set it.                                               *)
Found ==
  IF storage = "device" THEN {device}
  ELSE IF storage = "host" THEN {host}
  ELSE {device, host}

Go(t, label)       == pc' = [pc EXCEPT ![t] = label]
Begin(t, label)    == /\ Go(t, label)
                      /\ outcome' = [outcome EXCEPT ![t] = "none"]
Return(t, result)  == /\ Go(t, "idle")
                      /\ want' = [want EXCEPT ![t] = {}]
                      /\ outcome' = [outcome EXCEPT ![t] = result]

-----------------------------------------------------------------------------

(* A new session has no Galois key, or the complete one of the rotations   *)
(* its constructor was given or its file held.                             *)
Init ==
  /\ pc = [t \in Threads |-> "idle"]
  /\ want = [t \in Threads |-> {}]
  /\ outcome = [t \in Threads |-> "none"]
  /\ readers = {}
  /\ writer = NoThread
  /\ present \in BOOLEAN
  /\ galoisElt \in SUBSET Steps
  /\ ~present => galoisElt = {}
  /\ generated = present
  /\ storage = IF present THEN "device" ELSE "unset"
  /\ device = galoisElt
  /\ host = {}
  /\ missing = {}
  /\ extra = {}
  /\ pending = {}
  /\ file = NoKeyFile
  /\ secret \in BOOLEAN

(* rotate, rotate_hoisted, sum_slots, conjugate (no step), bootstrap.      *)
Call(t) ==
  /\ pc[t] = "idle"
  /\ \E S \in SUBSET Steps : want' = [want EXCEPT ![t] = S]
  /\ Begin(t, "shared")
  /\ UNCHANGED <<mutexVars, keyVars, genVars, file, secret>>

(* std::shared_mutex leaves it open whether readers pass a waiting writer. *)
AcquireShared(t) ==
  /\ pc[t] \in {"shared", "relock", "saveLock"}
  /\ writer = NoThread
  /\ WritersFirst => \A u \in Threads : pc[u] # "exclusive"
  /\ readers' = readers \cup {t}
  /\ \/ pc[t] = "shared"   /\ Go(t, "check")
     \/ pc[t] = "relock"   /\ Go(t, "use")
     \/ pc[t] = "saveLock" /\ Go(t, "save")
  /\ UNCHANGED <<want, outcome, writer, keyVars, genVars, file, secret>>

(* Keep the shared lock when the keys are there, else drop it.             *)
Check(t) ==
  /\ pc[t] = "check"
  /\ \/ /\ AllPresent(want[t])
        /\ Go(t, "use")
        /\ UNCHANGED readers
     \/ /\ ~AllPresent(want[t])
        /\ readers' = readers \ {t}
        /\ Go(t, "exclusive")
  /\ UNCHANGED <<want, outcome, writer, keyVars, genVars, file, secret>>

AcquireExclusive(t) ==
  /\ pc[t] = "exclusive"
  /\ writer = NoThread
  /\ readers = {}
  /\ writer' = t
  /\ Go(t, "plan")
  /\ UNCHANGED <<want, outcome, readers, keyVars, genVars, file, secret>>

-----------------------------------------------------------------------------
(* generate_rotations, which runs under the exclusive lock.                *)

(* Mutant: what is missing is not looked up again under the lock.          *)
AllWanted(t) == want[t]

MissingSteps(t) == {s \in want[t] : ~present \/ s \notin galoisElt}

(* Mutant: the shared lock is taken back inside the exclusive one.         *)
PlanNothingAndKeep(t) ==
  /\ pc[t] = "plan"
  /\ present
  /\ MissingSteps(t) = {}
  /\ Go(t, "relock")
  /\ UNCHANGED <<want, outcome, mutexVars, keyVars, genVars, file, secret>>

(* Another thread added the steps between the two locks.                   *)
PlanNothing(t) ==
  /\ pc[t] = "plan"
  /\ present
  /\ MissingSteps(t) = {}
  /\ writer' = NoThread
  /\ Go(t, "relock")
  /\ UNCHANGED <<want, outcome, readers, keyVars, genVars, file, secret>>

PlanRefused(t) ==
  /\ pc[t] = "plan"
  /\ ~(present /\ MissingSteps(t) = {})
  /\ ~secret
  /\ writer' = NoThread
  /\ Return(t, "KeyNotFound")
  /\ UNCHANGED <<readers, keyVars, genVars, file, secret>>

(* The first key lists its steps before any of them is generated.          *)
PlanFirst(t) ==
  /\ pc[t] = "plan"
  /\ secret
  /\ ~present
  /\ present' = TRUE
  /\ galoisElt' = MissingSteps(t)
  /\ missing' = MissingSteps(t)
  /\ Go(t, "first")
  /\ UNCHANGED <<want, outcome, mutexVars, generated, storage, device, host,
                 extra, pending, file, secret>>

(* Later steps are generated into a Galoiskey of their own.                *)
PlanExtra(t) ==
  /\ pc[t] = "plan"
  /\ secret
  /\ present
  /\ MissingSteps(t) # {}
  /\ missing' = MissingSteps(t)
  /\ Go(t, "extra")
  /\ UNCHANGED <<want, outcome, mutexVars, keyVars, extra, pending, file, secret>>

(* One turn of the loop of generate_ckks_galois_key, over an unordered     *)
(* map: a buffer and the kernels that fill it, queued on the stream.       *)
GenerateStep(t) ==
  \E s \in missing :
    /\ pending' = pending \cup {s}
    /\ \/ /\ pc[t] = "first"
          /\ s \notin device
          /\ device' = device \cup {s}
          /\ UNCHANGED extra
       \/ /\ pc[t] = "extra"
          /\ s \notin extra
          /\ extra' = extra \cup {s}
          /\ UNCHANGED device
    /\ UNCHANGED <<callVars, mutexVars, present, galoisElt, generated, storage,
                   host, missing, file, secret>>

(* Mutant: the lock is released while the kernels run.                     *)
NoSynchronize == UNCHANGED pending

(* The default stream is synchronized before the lock is released.         *)
Synchronize == pending' = {}

(* The first key is complete.                                              *)
FinishFirst(t) ==
  /\ pc[t] = "first"
  /\ missing \subseteq device
  /\ generated' = TRUE
  /\ storage' = "device"
  /\ missing' = {}
  /\ Synchronize
  /\ writer' = NoThread
  /\ Go(t, "relock")
  /\ UNCHANGED <<want, outcome, readers, present, galoisElt, device, host,
                 extra, file, secret>>

(* Mutant: the new key takes the place of the key of the session.          *)
BeginReplacement(t) ==
  /\ pc[t] = "extra"
  /\ missing \subseteq extra
  /\ galoisElt' = {}
  /\ device' = {}
  /\ Go(t, "merge")
  /\ UNCHANGED <<want, outcome, mutexVars, present, generated, storage, host,
                 genVars, file, secret>>

BeginMerge(t) ==
  /\ pc[t] = "extra"
  /\ missing \subseteq extra
  /\ Go(t, "merge")
  /\ UNCHANGED <<want, outcome, mutexVars, keyVars, genVars, file, secret>>

(* Mutant: the step is listed and its buffer dropped with the local key.   *)
ListStep(t) ==
  /\ pc[t] = "merge"
  /\ \E s \in missing :
       /\ galoisElt' = galoisElt \cup {s}
       /\ missing' = missing \ {s}
       /\ extra' = extra \ {s}
  /\ UNCHANGED <<callVars, mutexVars, present, generated, storage, device, host,
                 pending, file, secret>>

(* The buffers move to device_location_ whatever storage_type_ is.         *)
MergeStep(t) ==
  /\ pc[t] = "merge"
  /\ \E s \in missing :
       /\ galoisElt' = galoisElt \cup {s}
       /\ device' = device \cup {s}
       /\ missing' = missing \ {s}
       /\ extra' = extra \ {s}
  /\ UNCHANGED <<callVars, mutexVars, present, generated, storage, host,
                 pending, file, secret>>

FinishMerge(t) ==
  /\ pc[t] = "merge"
  /\ missing = {}
  /\ Synchronize
  /\ writer' = NoThread
  /\ Go(t, "relock")
  /\ UNCHANGED <<want, outcome, readers, keyVars, missing, extra, file, secret>>

(* An exception unwinds the local key and the exclusive lock; the session  *)
(* keeps the galois_key that PlanFirst made.                               *)
GenerateFails(t) ==
  /\ MayFail
  /\ pc[t] \in {"first", "extra"}
  /\ missing' = {}
  /\ extra' = {}
  /\ writer' = NoThread
  /\ Return(t, "failed")
  /\ UNCHANGED <<readers, keyVars, pending, file, secret>>

-----------------------------------------------------------------------------

(* rotate_ckks finds the step in its map, or the listed steps it is put    *)
(* together from, or throws.                                               *)
Rotates(s, map) ==
  \/ s \in map
  \/ \E parts \in MadeOf[s] : parts \subseteq galoisElt \cap map

(* The operator under the shared lock, in the map storage_type_ says.      *)
Use(t) ==
  /\ pc[t] = "use"
  /\ readers' = readers \ {t}
  /\ \E map \in Found :
       Return(t, IF \A s \in want[t] : Rotates(s, map) THEN "ok" ELSE "failed")
  /\ UNCHANGED <<writer, keyVars, genVars, file, secret>>

BeginSave(t) ==
  /\ pc[t] = "idle"
  /\ Begin(t, "saveLock")
  /\ UNCHANGED <<want, mutexVars, keyVars, genVars, file, secret>>

(* The Galois key part of HESession::save.                                 *)
Save(t) ==
  /\ pc[t] = "save"
  /\ readers' = readers \ {t}
  /\ \/ /\ ~present
        /\ file' = NoKeyFile
        /\ Return(t, "saved")
     \/ /\ present
        /\ ~generated
        /\ Return(t, "notGenerated")
        /\ UNCHANGED file
     \/ /\ present
        /\ generated
        /\ file' = [elts |-> galoisElt,
                    data |-> IF storage = "device" THEN device ELSE host,
                    conjugation |-> TRUE]
        /\ Return(t, "saved")
  /\ UNCHANGED <<writer, keyVars, genVars, secret>>

(* Galoiskey::store_in_host and store_in_device on the reference that      *)
(* HESession::galois_key() returns; the documentation allows it while no   *)
(* thread uses the session.                                                *)
Quiet == \A t \in Threads : pc[t] = "idle"

StoreInHost ==
  /\ MayMove
  /\ Quiet
  /\ generated
  /\ storage = "device"
  /\ host' = host \cup device
  /\ device' = {}
  /\ storage' = "host"
  /\ UNCHANGED <<callVars, mutexVars, present, galoisElt, generated, genVars,
                 file, secret>>

StoreInDevice ==
  /\ MayMove
  /\ Quiet
  /\ generated
  /\ storage = "host"
  /\ device' = device \cup host
  /\ host' = {}
  /\ storage' = "device"
  /\ UNCHANGED <<callVars, mutexVars, present, galoisElt, generated, genVars,
                 file, secret>>

(* The kernels of a step finish on the default stream.                     *)
StreamRuns ==
  /\ \E s \in pending : pending' = pending \ {s}
  /\ UNCHANGED <<callVars, mutexVars, keyVars, missing, extra, file, secret>>

-----------------------------------------------------------------------------

Generate(t) ==
  \/ PlanNothing(t) \/ PlanRefused(t) \/ PlanFirst(t) \/ PlanExtra(t)
  \/ GenerateStep(t) \/ FinishFirst(t)
  \/ BeginMerge(t) \/ MergeStep(t) \/ FinishMerge(t)

Proceed(t) == Check(t) \/ Generate(t) \/ Use(t) \/ Save(t)

Thread(t) ==
  \/ Call(t) \/ BeginSave(t)
  \/ AcquireShared(t) \/ AcquireExclusive(t)
  \/ Proceed(t)
  \/ GenerateFails(t)

Next ==
  \/ \E t \in Threads : Thread(t)
  \/ StoreInHost
  \/ StoreInDevice
  \/ StreamRuns

Spec == Init /\ [][Next]_vars

(* A thread inside a call runs on, and a thread that waits for the mutex   *)
(* is not passed over forever.                                             *)
Fairness ==
  /\ \A t \in Threads : /\ WF_vars(Proceed(t))
                        /\ SF_vars(AcquireShared(t))
                        /\ SF_vars(AcquireExclusive(t))

FairSpec == Spec /\ Fairness

-----------------------------------------------------------------------------
(* Properties.                                                             *)

(***************************************************************************)
(* The session implements RotationKeys: a key is ready when it is listed   *)
(* and its buffer is in device_location_, and the key of the conjugation   *)
(* when galois_key_generated_ says so.  Every rotation needs the latter,   *)
(* because it needs state.galois_key.                                      *)
(***************************************************************************)
WithConjugation(S, made) == S \cup (IF made THEN {Conjugation} ELSE {})

ReadyKeys == WithConjugation(galoisElt \cap device, generated)

CallOf(t) ==
  CASE pc[t] = "idle" -> "idle"
    [] pc[t] \in {"saveLock", "save"} -> "save"
    [] OTHER -> "rotate"

Promise == INSTANCE RotationKeys WITH
  maker  <- secret,
  Keys   <- Steps \cup {Conjugation},
  keys   <- ReadyKeys,
  call   <- [t \in Threads |-> CallOf(t)],
  need   <- [t \in Threads |-> WithConjugation(want[t], CallOf(t) = "rotate")],
  result <- outcome,
  saved  <- WithConjugation(file.elts \cap file.data, file.conjugation)

(* Threads that share a session, each with its own interleaving of the     *)
(* three locks of rotation_keys, get what RotationKeys promises, as long   *)
(* as generating a key does not fail and the key is not moved.             *)
KeepsPromise == Promise!KSpec

(* Type correctness of the shared state and of the threads' progress.      *)
TypeOK ==
  /\ pc \in [Threads -> Control]
  /\ want \in [Threads -> SUBSET Steps]
  /\ outcome \in [Threads -> Outcomes]
  /\ readers \in SUBSET Threads
  /\ writer \in Threads \cup {NoThread}
  /\ present \in BOOLEAN
  /\ galoisElt \in SUBSET Steps
  /\ generated \in BOOLEAN
  /\ storage \in Storages
  /\ device \in SUBSET Steps
  /\ host \in SUBSET Steps
  /\ missing \in SUBSET Steps
  /\ extra \in SUBSET Steps
  /\ pending \in SUBSET Steps
  /\ file \in Files
  /\ secret \in BOOLEAN

(* rotation_keys returns with a shared lock and does not look again after  *)
(* it took the lock back ("Keys are only added, so the keys of shifts are  *)
(* still there"): whatever other threads did between the three locks, the  *)
(* key lists every step of the call.                                       *)
KeysStillThere ==
  \A t \in Threads : pc[t] = "use" => AllPresent(want[t])

(* A rotation by a step that has no key yet generates the key: a thread    *)
(* that goes on to rotate finds the data of its steps where rotate_ckks    *)
(* looks, and the kernels that fill it have finished, although they ran    *)
(* on another stream.                                                      *)
RotationHasKey ==
  \A t \in Threads : pc[t] = "use" =>
    /\ \A map \in Found : want[t] \subseteq map
    /\ want[t] \cap pending = {}

(* A file lists no step without its data, although save runs beside        *)
(* threads that add steps.                                                 *)
SavedKeyIsWhole == file.elts \subseteq file.data

(* The buffer of a step that other threads' kernels may be reading is not  *)
(* generated a second time, even when several threads saw it missing.      *)
NeverRegenerated ==
  [][\A t \in Threads : \A s \in missing' \ missing : s \notin device \cup host]_vars

(* Every call of a session returns, with a rotation or with an error.      *)
CallsReturn ==
  \A t \in Threads : pc[t] # "idle" ~> pc[t] = "idle"

=============================================================================
