----------------------- MODULE SessionRotations_proofs -----------------------
(***************************************************************************)
(* Proofs about SessionRotations for every set of threads and steps.       *)
(***************************************************************************)
EXTENDS SessionRotations, TLAPS

(* The threads that hold galois_mutex are those at its critical sections,  *)
(* and a writer is alone.                                                  *)
Reading == {"check", "use", "save"}
Writing == {"plan", "first", "extra", "merge"}

MutexInv ==
  /\ \A t \in Threads : t \in readers <=> pc[t] \in Reading
  /\ \A t \in Threads : writer = t <=> pc[t] \in Writing
  /\ writer # NoThread => readers = {}

(* The steps of a call are listed, or are being added to the list.         *)
GrowInv ==
  \A t \in Threads :
    /\ pc[t] \in {"relock", "use"} => AllPresent(want[t])
    /\ pc[t] = "first" => AllPresent(want[t])
    /\ pc[t] \in {"extra", "merge"} =>
         present /\ want[t] \subseteq galoisElt \cup missing

IInv == TypeOK /\ MutexInv /\ GrowInv

-----------------------------------------------------------------------------

(* Every variable keeps its type.                                          *)
THEOREM TypeCorrect == Spec => []TypeOK
<1>1. Init => TypeOK
  BY RotationsAssumption
  DEF Init, TypeOK, Control, Outcomes, Storages, Files, NoKeyFile
<1>2. TypeOK /\ [Next]_vars => TypeOK'
  <2> SUFFICES ASSUME TypeOK, [Next]_vars PROVE TypeOK'
    OBVIOUS
  <2> USE DEF TypeOK
  <2>1. ASSUME NEW t \in Threads, Thread(t) PROVE TypeOK'
    <3>1. CASE Call(t)
      BY <3>1 DEF Call, Begin, Go, Control, Outcomes, mutexVars, keyVars, genVars
    <3>2. CASE BeginSave(t)
      BY <3>2 DEF BeginSave, Begin, Go, Control, Outcomes, mutexVars, keyVars, genVars
    <3>3. CASE AcquireShared(t)
      BY <3>3 DEF AcquireShared, Go, Control, keyVars, genVars
    <3>4. CASE AcquireExclusive(t)
      BY <3>4 DEF AcquireExclusive, Go, Control, keyVars, genVars
    <3>5. CASE Check(t)
      BY <3>5 DEF Check, Go, Control, keyVars, genVars
    <3>6. CASE PlanNothing(t)
      BY <3>6 DEF PlanNothing, Go, Control, keyVars, genVars
    <3>7. CASE PlanRefused(t)
      BY <3>7 DEF PlanRefused, Return, Go, Control, Outcomes, keyVars, genVars
    <3>8. CASE PlanFirst(t)
      BY <3>8 DEF PlanFirst, MissingSteps, Go, Control, mutexVars
    <3>9. CASE PlanExtra(t)
      BY <3>9 DEF PlanExtra, MissingSteps, Go, Control, mutexVars, keyVars
    <3>10. CASE GenerateStep(t)
      BY <3>10 DEF GenerateStep, callVars, mutexVars
    <3>11. CASE FinishFirst(t)
      BY <3>11 DEF FinishFirst, Synchronize, Go, Control, Storages
    <3>12. CASE BeginMerge(t)
      BY <3>12 DEF BeginMerge, Go, Control, mutexVars, keyVars, genVars
    <3>13. CASE MergeStep(t)
      BY <3>13 DEF MergeStep, callVars, mutexVars
    <3>14. CASE FinishMerge(t)
      BY <3>14 DEF FinishMerge, Synchronize, Go, Control, keyVars
    <3>15. CASE GenerateFails(t)
      BY <3>15 DEF GenerateFails, Return, Go, Control, Outcomes, keyVars
    <3>16. CASE Use(t)
      BY <3>16 DEF Use, Return, Go, Control, Outcomes, keyVars, genVars
    <3>17. CASE Save(t)
      <4> DEFINE data == IF storage = "device" THEN device ELSE host
      <4>1. file' \in Files
        <5>1. data \in SUBSET Steps
          OBVIOUS
        <5>2. [elts |-> galoisElt, data |-> data, conjugation |-> TRUE] \in Files
          BY <5>1 DEF Files
        <5>3. NoKeyFile \in Files
          BY DEF NoKeyFile, Files
        <5>4. \/ file' = NoKeyFile \/ UNCHANGED file
              \/ file' = [elts |-> galoisElt, data |-> data, conjugation |-> TRUE]
          BY <3>17 DEF Save
        <5>5. QED
          BY <5>2, <5>3, <5>4
      <4>2. QED
        BY <3>17, <4>1 DEF Save, Return, Go, Control, Outcomes, keyVars, genVars
    <3>18. QED
      BY <2>1, <3>1, <3>2, <3>3, <3>4, <3>5, <3>6, <3>7, <3>8, <3>9, <3>10,
         <3>11, <3>12, <3>13, <3>14, <3>15, <3>16, <3>17
      DEF Thread, Proceed, Generate
  <2>2. CASE StoreInHost
    BY <2>2 DEF StoreInHost, callVars, mutexVars, genVars, Storages
  <2>3. CASE StoreInDevice
    BY <2>3 DEF StoreInDevice, callVars, mutexVars, genVars, Storages
  <2>4. CASE StreamRuns
    BY <2>4 DEF StreamRuns, callVars, mutexVars, keyVars
  <2>5. CASE UNCHANGED vars
    BY <2>5 DEF vars, callVars, mutexVars, keyVars, genVars
  <2>6. QED
    BY <2>1, <2>2, <2>3, <2>4, <2>5 DEF Next
<1>3. QED
  BY <1>1, <1>2, PTL DEF Spec

-----------------------------------------------------------------------------

(* The step lemma of IInv: the locks keep MutexInv, and because only the   *)
(* writer changes galois_elt, and only adds to it, they keep GrowInv.      *)
LEMMA IInvStep == TypeOK /\ TypeOK' /\ MutexInv /\ GrowInv /\ [Next]_vars
                    => MutexInv' /\ GrowInv'
<1> SUFFICES ASSUME TypeOK, TypeOK', MutexInv, GrowInv, [Next]_vars
             PROVE  MutexInv' /\ GrowInv'
  OBVIOUS
<1> USE RotationsAssumption DEF vars, callVars, mutexVars, keyVars, genVars
<1>1. ASSUME NEW t \in Threads, Thread(t) PROVE MutexInv' /\ GrowInv'
  <2>1. CASE Call(t)
    <3>1. MutexInv'
      BY <2>1 DEF Call, Go, Begin, TypeOK, MutexInv, Reading, Writing
    <3>2. GrowInv'
      BY <2>1 DEF Call, Go, AllPresent, Begin, TypeOK, MutexInv, GrowInv, Writing
    <3>3. QED BY <3>1, <3>2
  <2>2. CASE BeginSave(t)
    <3>1. MutexInv'
      BY <2>2 DEF BeginSave, Go, Begin, TypeOK, MutexInv, Reading, Writing
    <3>2. GrowInv'
      BY <2>2 DEF BeginSave, Go, AllPresent, Begin, TypeOK, MutexInv, GrowInv, Writing
    <3>3. QED BY <3>1, <3>2
  <2>3. CASE AcquireShared(t)
    <3>1. MutexInv'
      BY <2>3 DEF AcquireShared, Go, TypeOK, MutexInv, Reading, Writing
    <3>2. GrowInv'
      BY <2>3 DEF AcquireShared, Go, AllPresent, TypeOK, MutexInv, GrowInv, Writing
    <3>3. QED BY <3>1, <3>2
  <2>4. CASE AcquireExclusive(t)
    <3>1. MutexInv'
      BY <2>4 DEF AcquireExclusive, Go, TypeOK, MutexInv, Reading, Writing
    <3>2. GrowInv'
      BY <2>4 DEF AcquireExclusive, Go, AllPresent, TypeOK, MutexInv, GrowInv, Writing
    <3>3. QED BY <3>1, <3>2
  <2>5. CASE Check(t)
    <3>1. MutexInv'
      BY <2>5 DEF Check, Go, TypeOK, MutexInv, Reading, Writing
    <3>2. GrowInv'
      BY <2>5 DEF Check, Go, AllPresent, TypeOK, MutexInv, GrowInv, Writing
    <3>3. QED BY <3>1, <3>2
  <2>6. CASE PlanNothing(t)
    <3>1. MutexInv'
      BY <2>6 DEF PlanNothing, Go, TypeOK, MutexInv, Reading, Writing
    <3>2. GrowInv'
      BY <2>6 DEF PlanNothing, Go, AllPresent, MissingSteps, TypeOK, MutexInv, GrowInv, Writing
    <3>3. QED BY <3>1, <3>2
  <2>7. CASE PlanRefused(t)
    <3>1. MutexInv'
      BY <2>7 DEF PlanRefused, Go, Return, TypeOK, MutexInv, Reading, Writing
    <3>2. GrowInv'
      BY <2>7 DEF PlanRefused, Go, AllPresent, Return, TypeOK, MutexInv, GrowInv, Writing
    <3>3. QED BY <3>1, <3>2
  <2>8. CASE PlanFirst(t)
    <3>1. MutexInv'
      BY <2>8 DEF PlanFirst, Go, TypeOK, MutexInv, Reading, Writing
    <3>2. GrowInv'
      BY <2>8 DEF PlanFirst, Go, AllPresent, MissingSteps, TypeOK, MutexInv, GrowInv, Writing
    <3>3. QED BY <3>1, <3>2
  <2>9. CASE PlanExtra(t)
    <3>1. MutexInv'
      BY <2>9 DEF PlanExtra, Go, TypeOK, MutexInv, Reading, Writing
    <3>2. GrowInv'
      BY <2>9 DEF PlanExtra, Go, AllPresent, MissingSteps, TypeOK, MutexInv, GrowInv, Writing
    <3>3. QED BY <3>1, <3>2
  <2>10. CASE GenerateStep(t)
    <3>1. MutexInv'
      BY <2>10 DEF GenerateStep, Go, TypeOK, MutexInv, Reading, Writing
    <3>2. GrowInv'
      BY <2>10 DEF GenerateStep, Go, AllPresent, TypeOK, MutexInv, GrowInv, Writing
    <3>3. QED BY <3>1, <3>2
  <2>11. CASE FinishFirst(t)
    <3>1. MutexInv'
      BY <2>11 DEF FinishFirst, Synchronize, Go, TypeOK, MutexInv, Reading, Writing
    <3>2. GrowInv'
      BY <2>11 DEF FinishFirst, Synchronize, Go, AllPresent, TypeOK, MutexInv, GrowInv, Writing
    <3>3. QED BY <3>1, <3>2
  <2>12. CASE BeginMerge(t)
    <3>1. MutexInv'
      BY <2>12 DEF BeginMerge, Go, TypeOK, MutexInv, Reading, Writing
    <3>2. GrowInv'
      BY <2>12 DEF BeginMerge, Go, AllPresent, TypeOK, MutexInv, GrowInv, Writing
    <3>3. QED BY <3>1, <3>2
  <2>13. CASE MergeStep(t)
    <3>1. MutexInv'
      BY <2>13 DEF MergeStep, Go, TypeOK, MutexInv, Reading, Writing
    <3>2. GrowInv'
      BY <2>13 DEF MergeStep, Go, AllPresent, TypeOK, MutexInv, GrowInv, Writing
    <3>3. QED BY <3>1, <3>2
  <2>14. CASE FinishMerge(t)
    <3>1. MutexInv'
      BY <2>14 DEF FinishMerge, Synchronize, Go, TypeOK, MutexInv, Reading, Writing
    <3>2. GrowInv'
      BY <2>14 DEF FinishMerge, Synchronize, Go, AllPresent, TypeOK, MutexInv, GrowInv, Writing
    <3>3. QED BY <3>1, <3>2
  <2>15. CASE GenerateFails(t)
    <3>1. MutexInv'
      BY <2>15 DEF GenerateFails, Go, Return, TypeOK, MutexInv, Reading, Writing
    <3>2. GrowInv'
      BY <2>15 DEF GenerateFails, Go, AllPresent, Return, TypeOK, MutexInv, GrowInv, Writing
    <3>3. QED BY <3>1, <3>2
  <2>16. CASE Use(t)
    <3>1. MutexInv'
      BY <2>16 DEF Use, Go, Return, TypeOK, MutexInv, Reading, Writing
    <3>2. GrowInv'
      BY <2>16 DEF Use, Go, AllPresent, Return, TypeOK, MutexInv, GrowInv, Writing
    <3>3. QED BY <3>1, <3>2
  <2>17. CASE Save(t)
    <3>1. MutexInv'
      BY <2>17 DEF Save, Go, Return, TypeOK, MutexInv, Reading, Writing
    <3>2. GrowInv'
      BY <2>17 DEF Save, Go, AllPresent, Return, TypeOK, MutexInv, GrowInv, Writing
    <3>3. QED BY <3>1, <3>2
  <2>18. QED
    BY <1>1, <2>1, <2>2, <2>3, <2>4, <2>5, <2>6, <2>7, <2>8, <2>9, <2>10, <2>11, <2>12, <2>13, <2>14, <2>15, <2>16, <2>17 DEF Thread, Proceed, Generate
<1>2. CASE StoreInHost
  BY <1>2 DEF StoreInHost, MutexInv, GrowInv, AllPresent
<1>3. CASE StoreInDevice
  BY <1>3 DEF StoreInDevice, MutexInv, GrowInv, AllPresent
<1>4. CASE StreamRuns
  BY <1>4 DEF StreamRuns, MutexInv, GrowInv, AllPresent
<1>5. CASE UNCHANGED vars
  BY <1>5 DEF MutexInv, GrowInv, AllPresent
<1>6. QED
  BY <1>1, <1>2, <1>3, <1>4, <1>5 DEF Next

LEMMA IInvHolds == Spec => []IInv
<1>1. Init => MutexInv /\ GrowInv
  BY RotationsAssumption DEF Init, MutexInv, GrowInv, Reading, Writing
<1>2. QED
  BY <1>1, IInvStep, TypeCorrect, PTL DEF Spec, IInv

(* rotation_keys does not look at the key again after it took the shared   *)
(* lock back: the comment "Keys are only added, so the keys of shifts are  *)
(* still there" is right, also when generations fail.                      *)
THEOREM KeysStayThere == Spec => []KeysStillThere
<1>1. IInv => KeysStillThere
  BY DEF IInv, GrowInv, KeysStillThere
<1>2. QED
  BY <1>1, IInvHolds, PTL

-----------------------------------------------------------------------------
(* What is generated is what is not there, whatever fails or is moved.     *)

(* Data are listed, and the writer makes steps of its own call: for the    *)
(* first key listed ones, and later ones that are not listed yet.          *)
ListInv ==
  /\ device \cup host \subseteq galoisElt
  /\ ~present => galoisElt = {}
  /\ \A t \in Threads :
       /\ pc[t] \in {"first", "extra", "merge"} => secret /\ missing \subseteq want[t]
       /\ pc[t] = "first" => missing \subseteq galoisElt
       /\ pc[t] \in {"extra", "merge"} => missing \cap galoisElt = {}

LEMMA ListInvStep ==
  ASSUME TypeOK, TypeOK', MutexInv, MutexInv', GrowInv, ListInv, [Next]_vars
  PROVE  ListInv'
<1> USE RotationsAssumption DEF vars, callVars, mutexVars, keyVars, genVars
<1>1. ASSUME NEW t \in Threads, Thread(t) PROVE ListInv'
  <2>1. CASE Call(t)
    BY <2>1 DEF Call, Go, Begin, TypeOK, MutexInv, ListInv, Writing
  <2>2. CASE BeginSave(t)
    BY <2>2 DEF BeginSave, Go, Begin, TypeOK, MutexInv, ListInv, Writing
  <2>3. CASE AcquireShared(t)
    BY <2>3 DEF AcquireShared, Go, TypeOK, MutexInv, ListInv, Writing
  <2>4. CASE AcquireExclusive(t)
    BY <2>4 DEF AcquireExclusive, Go, TypeOK, MutexInv, ListInv, Writing
  <2>5. CASE Check(t)
    BY <2>5 DEF Check, Go, TypeOK, MutexInv, ListInv, Writing
  <2>6. CASE PlanNothing(t)
    BY <2>6 DEF PlanNothing, Go, MissingSteps, TypeOK, MutexInv, ListInv, Writing
  <2>7. CASE PlanRefused(t)
    BY <2>7 DEF PlanRefused, Go, Return, TypeOK, MutexInv, ListInv, Writing
  <2>8. CASE PlanFirst(t)
    BY <2>8 DEF PlanFirst, Go, MissingSteps, TypeOK, MutexInv, ListInv, Writing
  <2>9. CASE PlanExtra(t)
    BY <2>9 DEF PlanExtra, Go, MissingSteps, TypeOK, MutexInv, ListInv, Writing
  <2>10. CASE GenerateStep(t)
    BY <2>10 DEF GenerateStep, Go, TypeOK, MutexInv, ListInv, Writing
  <2>11. CASE FinishFirst(t)
    BY <2>11 DEF FinishFirst, Go, Synchronize, TypeOK, MutexInv, ListInv, Writing
  <2>12. CASE BeginMerge(t)
    BY <2>12 DEF BeginMerge, Go, TypeOK, MutexInv, ListInv, Writing
  <2>13. CASE MergeStep(t)
    <3>1. PICK s \in missing :
            /\ galoisElt' = galoisElt \cup {s} /\ device' = device \cup {s}
            /\ missing' = missing \ {s}
      BY <2>13 DEF MergeStep
    <3>2. pc[t] = "merge" /\ UNCHANGED <<pc, want, secret, present, host>>
      BY <2>13 DEF MergeStep
    <3>3. device' \cup host' \subseteq galoisElt' /\ (~present' => galoisElt' = {})
      BY <3>1, <3>2 DEF ListInv, MutexInv, GrowInv
    <3>4. ASSUME NEW u \in Threads, pc[u] \in {"first", "extra", "merge"}
          PROVE  /\ u = t
                 /\ secret' /\ missing' \subseteq want'[u]
                 /\ missing' \cap galoisElt' = {}
      <4>1. writer = u /\ writer = t
        BY <3>2, <3>4 DEF MutexInv, Writing
      <4>2. secret /\ missing \subseteq want[u] /\ missing \cap galoisElt = {}
        BY <3>2, <4>1 DEF ListInv
      <4>3. QED
        BY <3>1, <3>2, <4>1, <4>2
    <3>5. QED
      BY <3>2, <3>3, <3>4 DEF ListInv
  <2>14. CASE FinishMerge(t)
    BY <2>14 DEF FinishMerge, Go, Synchronize, TypeOK, MutexInv, ListInv, Writing
  <2>15. CASE GenerateFails(t)
    BY <2>15 DEF GenerateFails, Go, Return, TypeOK, MutexInv, ListInv, Writing
  <2>16. CASE Use(t)
    BY <2>16 DEF Use, Go, Return, TypeOK, MutexInv, ListInv, Writing
  <2>17. CASE Save(t)
    BY <2>17 DEF Save, Go, Return, TypeOK, MutexInv, ListInv, Writing
  <2>18. QED
    BY <1>1, <2>1, <2>2, <2>3, <2>4, <2>5, <2>6, <2>7, <2>8, <2>9, <2>10, <2>11, <2>12, <2>13, <2>14, <2>15, <2>16, <2>17
    DEF Thread, Proceed, Generate
<1>2. CASE StoreInHost \/ StoreInDevice
  BY <1>2 DEF StoreInHost, StoreInDevice, ListInv
<1>3. CASE StreamRuns
  BY <1>3 DEF StreamRuns, ListInv
<1>4. CASE UNCHANGED vars
  BY <1>4 DEF ListInv
<1>5. QED
  BY <1>1, <1>2, <1>3, <1>4 DEF Next

LEMMA ListInvHolds == Spec => []ListInv
<1>1. Init => ListInv
  BY DEF Init, ListInv
<1>2. IInv /\ IInv' /\ ListInv /\ [Next]_vars => ListInv'
  BY ListInvStep DEF IInv
<1>3. QED
  BY <1>1, <1>2, IInvHolds, PTL DEF Spec

(* No buffer is generated a second time, although a thread that saw its    *)
(* steps missing let go of the lock before it generates them: they are     *)
(* looked up again under the exclusive lock.                               *)
THEOREM NothingRegenerated == Spec => NeverRegenerated
<1> DEFINE Fresh ==
      \A t \in Threads : \A s \in missing' \ missing : s \notin device \cup host
<1>1. TypeOK /\ ListInv /\ [Next]_vars => [Fresh]_vars
  <2> SUFFICES ASSUME TypeOK, ListInv, [Next]_vars, NEW s \in missing', s \notin missing
               PROVE  s \notin device \cup host
    BY DEF vars
  <2>1. \E t \in Threads : PlanFirst(t) \/ PlanExtra(t)
    <3>1. ASSUME NEW t \in Threads, Thread(t) PROVE PlanFirst(t) \/ PlanExtra(t)
      BY <3>1 DEF Thread, Call, BeginSave, AcquireShared, AcquireExclusive, Proceed,
        Check, Generate, PlanNothing, PlanRefused, GenerateStep, FinishFirst,
        BeginMerge, MergeStep, FinishMerge, GenerateFails, Use, Save, genVars
    <3>2. CASE StoreInHost \/ StoreInDevice \/ StreamRuns \/ UNCHANGED vars
      BY <3>2 DEF StoreInHost, StoreInDevice, StreamRuns, vars, genVars
    <3>3. QED
      BY <3>1, <3>2 DEF Next
  <2>2. s \notin galoisElt
    BY <2>1 DEF PlanFirst, PlanExtra, MissingSteps, ListInv
  <2>3. QED
    BY <2>2 DEF ListInv
<1>2. QED
  BY <1>1, TypeCorrect, ListInvHolds, PTL DEF Spec, NeverRegenerated

-----------------------------------------------------------------------------
(* The data behind the list, when no generation fails and the application  *)
(* leaves the key on the device.                                           *)

Filling == \E t \in Threads : pc[t] = "first"

DataInv ==
  /\ host = {}
  /\ present /\ ~Filling => generated
  /\ generated => present /\ storage = "device" /\ galoisElt \subseteq device /\ ~Filling
  /\ \A t \in Threads : pc[t] = "first" => galoisElt = missing
  /\ \A t \in Threads : pc[t] = "use" => pending = {}
  /\ pending # {} => \E t \in Threads : pc[t] \in {"first", "extra", "merge"}
  /\ file.elts \subseteq file.data

Undisturbed == ~MayFail /\ ~MayMove

LEMMA DataInvStep ==
  ASSUME Undisturbed, TypeOK, TypeOK', MutexInv, MutexInv', GrowInv, DataInv, [Next]_vars
  PROVE  DataInv'
<1> USE RotationsAssumption DEF vars, callVars, mutexVars, keyVars, genVars, Undisturbed
<1>1. ASSUME NEW t \in Threads, Thread(t) PROVE DataInv'
  <2>1. CASE Call(t)
    BY <2>1 DEF Call, Go, Begin, TypeOK, MutexInv, DataInv, Filling, Reading, Writing
  <2>2. CASE BeginSave(t)
    BY <2>2 DEF BeginSave, Go, Begin, TypeOK, MutexInv, DataInv, Filling, Reading, Writing
  <2>3. CASE AcquireShared(t)
    BY <2>3 DEF AcquireShared, Go, TypeOK, MutexInv, DataInv, Filling, Reading, Writing
  <2>4. CASE AcquireExclusive(t)
    BY <2>4 DEF AcquireExclusive, Go, TypeOK, MutexInv, DataInv, Filling, Reading, Writing
  <2>5. CASE Check(t)
    BY <2>5 DEF Check, Go, AllPresent, TypeOK, MutexInv, DataInv, Filling, Reading, Writing
  <2>6. CASE PlanNothing(t)
    BY <2>6 DEF PlanNothing, Go, MissingSteps, TypeOK, MutexInv, DataInv, Filling, Reading, Writing
  <2>7. CASE PlanRefused(t)
    BY <2>7 DEF PlanRefused, Go, Return, TypeOK, MutexInv, DataInv, Filling, Reading, Writing
  <2>8. CASE PlanFirst(t)
    BY <2>8 DEF PlanFirst, Go, MissingSteps, TypeOK, MutexInv, DataInv, Filling, Reading, Writing
  <2>9. CASE PlanExtra(t)
    BY <2>9 DEF PlanExtra, Go, MissingSteps, TypeOK, MutexInv, DataInv, Filling, Reading, Writing
  <2>10. CASE GenerateStep(t)
    BY <2>10 DEF GenerateStep, Go, TypeOK, MutexInv, DataInv, Filling, Reading, Writing
  <2>11. CASE FinishFirst(t)
    BY <2>11 DEF FinishFirst, Synchronize, Go, AllPresent, TypeOK, MutexInv, GrowInv, DataInv, Filling, Reading, Writing
  <2>12. CASE BeginMerge(t)
    BY <2>12 DEF BeginMerge, Go, TypeOK, MutexInv, DataInv, Filling, Reading, Writing
  <2>13. CASE MergeStep(t)
    BY <2>13 DEF MergeStep, Go, TypeOK, MutexInv, DataInv, Filling, Reading, Writing
  <2>14. CASE FinishMerge(t)
    BY <2>14 DEF FinishMerge, Synchronize, Go, TypeOK, MutexInv, DataInv, Filling, Reading, Writing
  <2>15. CASE GenerateFails(t)
    BY <2>15 DEF GenerateFails, Go, Return, TypeOK, MutexInv, DataInv, Filling, Reading, Writing
  <2>16. CASE Use(t)
    BY <2>16 DEF Use, Go, Return, TypeOK, MutexInv, DataInv, Filling, Reading, Writing
  <2>17. CASE Save(t)
    BY <2>17 DEF Save, Go, Return, NoKeyFile, TypeOK, MutexInv, DataInv, Filling, Reading, Writing
  <2>18. QED
    BY <1>1, <2>1, <2>2, <2>3, <2>4, <2>5, <2>6, <2>7, <2>8, <2>9, <2>10, <2>11, <2>12, <2>13, <2>14, <2>15, <2>16, <2>17 DEF Thread, Proceed, Generate
<1>2. CASE StoreInHost \/ StoreInDevice
  BY <1>2 DEF StoreInHost, StoreInDevice
<1>3. CASE StreamRuns
  BY <1>3 DEF StreamRuns, DataInv, Filling
<1>4. CASE UNCHANGED vars
  BY <1>4 DEF DataInv, Filling
<1>5. QED
  BY <1>1, <1>2, <1>3, <1>4 DEF Next

LEMMA DataInvHolds == ASSUME Undisturbed PROVE Spec => []DataInv
<1>1. Init => DataInv
  BY RotationsAssumption DEF Init, DataInv, Filling, NoKeyFile
<1>2. IInv /\ IInv' /\ DataInv /\ [Next]_vars => DataInv'
  BY DataInvStep DEF IInv
<1>3. QED
  BY <1>1, <1>2, IInvHolds, PTL DEF Spec

(* A thread that goes on to rotate finds the finished data of its steps    *)
(* where rotate_ckks looks it up.                                          *)
THEOREM RotationsHaveKeys == ASSUME Undisturbed PROVE Spec => []RotationHasKey
<1>1. IInv /\ DataInv => RotationHasKey
  <2> SUFFICES ASSUME IInv, DataInv, NEW t \in Threads, pc[t] = "use"
               PROVE  /\ \A map \in Found : want[t] \subseteq map
                      /\ want[t] \cap pending = {}
    BY DEF RotationHasKey
  <2>1. AllPresent(want[t])
    BY DEF IInv, GrowInv
  <2>2. ~Filling
    BY RotationsAssumption DEF IInv, MutexInv, Filling, Reading, Writing
  <2>3. storage = "device" /\ galoisElt \subseteq device
    BY <2>1, <2>2 DEF DataInv, AllPresent
  <2>4. \A map \in Found : map = device
    BY <2>3 DEF Found
  <2>5. QED
    BY <2>1, <2>3, <2>4 DEF DataInv, AllPresent
<1>2. QED
  BY <1>1, IInvHolds, DataInvHolds, PTL

(* A saved session lists no step whose data it lacks.                      *)
THEOREM SavedKeysAreWhole == ASSUME Undisturbed PROVE Spec => []SavedKeyIsWhole
<1>1. DataInv => SavedKeyIsWhole
  BY DEF DataInv, SavedKeyIsWhole
<1>2. QED
  BY <1>1, DataInvHolds, PTL

-----------------------------------------------------------------------------
(* The refinement: what a step of the session is for RotationKeys.         *)

Stage(label) ==
  CASE label = "idle" -> "idle"
    [] label \in {"saveLock", "save"} -> "save"
    [] OTHER -> "rotate"

AllCalls == [t \in Threads |-> CallOf(t)]
Needs == [t \in Threads |-> WithConjugation(want[t], CallOf(t) = "rotate")]
SavedKeys == WithConjugation(file.elts \cap file.data, file.conjugation)
Mapped == <<secret, ReadyKeys, AllCalls, Needs, outcome, SavedKeys>>

LEMMA Stages ==
  /\ Stage("idle") = "idle"
  /\ \A l \in {"saveLock", "save"} : Stage(l) = "save"
  /\ \A l \in {"shared", "check", "exclusive", "plan", "first", "extra", "merge",
               "relock", "use"} : Stage(l) = "rotate"
BY DEF Stage

LEMMA CallOfStage == \A t \in Threads : CallOf(t) = Stage(pc[t])
BY DEF CallOf, Stage

(* A thread moves to a label, perhaps with other steps to wait for.        *)
LEMMA Moves ==
  ASSUME NEW t \in Threads,
         \A u \in Threads \ {t} : pc'[u] = pc[u] /\ want'[u] = want[u]
  PROVE  /\ AllCalls' = [AllCalls EXCEPT ![t] = Stage(pc'[t])]
         /\ Needs' = [Needs EXCEPT ![t] = IF Stage(pc'[t]) = "rotate"
                                          THEN want'[t] \cup {Conjugation}
                                          ELSE want'[t]]
<1>1. \A u \in Threads : CallOf(u)' = Stage(pc'[u])
  BY DEF CallOf, Stage
<1>2. \A u \in Threads \ {t} : CallOf(u)' = CallOf(u)
  BY <1>1, CallOfStage
<1>3. AllCalls' = [AllCalls EXCEPT ![t] = Stage(pc'[t])]
  BY <1>1, <1>2 DEF AllCalls
<1>4. Needs' = [u \in Threads |-> WithConjugation(want'[u], CallOf(u)' = "rotate")]
  BY DEF Needs, WithConjugation
<1>5. \A u \in Threads \ {t} :
        WithConjugation(want'[u], CallOf(u)' = "rotate") = Needs[u]
  BY <1>2 DEF Needs, WithConjugation
<1>6. WithConjugation(want'[t], CallOf(t)' = "rotate")
        = IF Stage(pc'[t]) = "rotate" THEN want'[t] \cup {Conjugation} ELSE want'[t]
  BY <1>1 DEF WithConjugation
<1>7. QED
  BY <1>3, <1>4, <1>5, <1>6 DEF Needs

(* A thread goes on in its call.                                           *)
LEMMA GoesOn ==
  ASSUME TypeOK, NEW t \in Threads, NEW l, Stage(l) = Stage(pc[t]),
         pc' = [pc EXCEPT ![t] = l], UNCHANGED want
  PROVE  UNCHANGED <<AllCalls, Needs>>
<1>1. pc'[t] = l /\ \A u \in Threads \ {t} : pc'[u] = pc[u] /\ want'[u] = want[u]
  BY DEF TypeOK
<1>2. /\ AllCalls' = [AllCalls EXCEPT ![t] = Stage(l)]
      /\ Needs' = [Needs EXCEPT ![t] = IF Stage(l) = "rotate"
                                       THEN want[t] \cup {Conjugation} ELSE want[t]]
  BY <1>1, Moves
<1>3. /\ AllCalls[t] = Stage(l)
      /\ Needs[t] = IF Stage(l) = "rotate"
                    THEN want[t] \cup {Conjugation} ELSE want[t]
  BY CallOfStage DEF AllCalls, Needs, WithConjugation
<1>4. QED
  BY <1>2, <1>3 DEF AllCalls, Needs

(* A thread returns from its call.                                         *)
LEMMA Returns ==
  ASSUME TypeOK, NEW t \in Threads,
         pc' = [pc EXCEPT ![t] = "idle"], want' = [want EXCEPT ![t] = {}]
  PROVE  /\ AllCalls' = [AllCalls EXCEPT ![t] = "idle"]
         /\ Needs' = [Needs EXCEPT ![t] = {}]
<1>1. /\ pc'[t] = "idle" /\ want'[t] = {}
      /\ \A u \in Threads \ {t} : pc'[u] = pc[u] /\ want'[u] = want[u]
  BY DEF TypeOK
<1>2. QED
  BY <1>1, Moves, Stages

LEMMA ReadyType == TypeOK => ReadyKeys \subseteq Steps \cup {Conjugation}
BY DEF TypeOK, ReadyKeys, WithConjugation

(* Each action of RotationKeys, in the words of the session.               *)
LEMMA IsAsk ==
  ASSUME TypeOK, NEW t \in Threads, NEW S \in SUBSET Steps, pc[t] = "idle",
         AllCalls' = [AllCalls EXCEPT ![t] = "rotate"],
         Needs' = [Needs EXCEPT ![t] = S \cup {Conjugation}],
         outcome' = [outcome EXCEPT ![t] = "none"],
         UNCHANGED <<ReadyKeys, SavedKeys>>
  PROVE  Promise!AskRotate(t)
<1>1. AllCalls[t] = "idle"
  BY CallOfStage, Stages DEF AllCalls
<1>2. S \cup {Conjugation} \in SUBSET (Steps \cup {Conjugation})
  OBVIOUS
<1>3. QED
  BY <1>1, <1>2 DEF Promise!AskRotate, Promise!Request, AllCalls, Needs, SavedKeys

LEMMA IsAskSave ==
  ASSUME TypeOK, NEW t \in Threads, pc[t] = "idle",
         AllCalls' = [AllCalls EXCEPT ![t] = "save"], UNCHANGED Needs,
         outcome' = [outcome EXCEPT ![t] = "none"],
         UNCHANGED <<ReadyKeys, SavedKeys>>
  PROVE  Promise!AskSave(t)
<1>1. AllCalls[t] = "idle"
  BY CallOfStage, Stages DEF AllCalls
<1>2. QED
  BY <1>1 DEF Promise!AskSave, Promise!Request, AllCalls, Needs, SavedKeys

LEMMA IsMake ==
  ASSUME TypeOK, NEW t \in Threads, secret, AllCalls[t] = "rotate",
         NEW k \in Needs[t], k \notin ReadyKeys, ReadyKeys' = ReadyKeys \cup {k},
         UNCHANGED <<AllCalls, Needs, outcome, SavedKeys>>
  PROVE  Promise!MakeKey(t)
BY DEF Promise!MakeKey, AllCalls, Needs, SavedKeys

LEMMA IsRotate ==
  ASSUME TypeOK, NEW t \in Threads, AllCalls[t] = "rotate", Needs[t] \subseteq ReadyKeys,
         AllCalls' = [AllCalls EXCEPT ![t] = "idle"],
         Needs' = [Needs EXCEPT ![t] = {}],
         outcome' = [outcome EXCEPT ![t] = "ok"],
         UNCHANGED <<ReadyKeys, SavedKeys>>
  PROVE  Promise!Rotate(t)
BY DEF Promise!Rotate, Promise!Answer, AllCalls, Needs, SavedKeys

LEMMA IsRefuse ==
  ASSUME TypeOK, NEW t \in Threads, AllCalls[t] = "rotate", ~secret,
         ~(Needs[t] \subseteq ReadyKeys),
         AllCalls' = [AllCalls EXCEPT ![t] = "idle"],
         Needs' = [Needs EXCEPT ![t] = {}],
         outcome' = [outcome EXCEPT ![t] = "KeyNotFound"],
         UNCHANGED <<ReadyKeys, SavedKeys>>
  PROVE  Promise!Refuse(t)
BY DEF Promise!Refuse, Promise!Answer, AllCalls, Needs, SavedKeys

LEMMA IsSave ==
  ASSUME TypeOK, NEW t \in Threads, AllCalls[t] = "save", SavedKeys' = ReadyKeys,
         AllCalls' = [AllCalls EXCEPT ![t] = "idle"],
         Needs' = [Needs EXCEPT ![t] = {}],
         outcome' = [outcome EXCEPT ![t] = "saved"],
         UNCHANGED ReadyKeys
  PROVE  Promise!SaveKeys(t)
BY DEF Promise!SaveKeys, Promise!Answer, AllCalls, Needs, SavedKeys

Answers(t) ==
  \/ Promise!AskRotate(t) \/ Promise!AskSave(t) \/ Promise!MakeKey(t)
  \/ Promise!Rotate(t) \/ Promise!Refuse(t) \/ Promise!SaveKeys(t)

SimInv == TypeOK /\ MutexInv /\ GrowInv /\ DataInv /\ ListInv

(* The labels of a call a thread is in.                                    *)
Busy == {"shared", "check", "exclusive", "plan", "first", "extra", "merge",
         "relock", "use"}

LEMMA Rotating ==
  ASSUME NEW t \in Threads, pc[t] \in Busy
  PROVE  AllCalls[t] = "rotate" /\ Needs[t] = want[t] \cup {Conjugation}
<1>1. CallOf(t) = "rotate"
  BY CallOfStage, Stages DEF Busy
<1>2. QED
  BY <1>1 DEF AllCalls, Needs, WithConjugation

(* While no writer fills the first key, the ready keys are those listed,   *)
(* with the conjugation's when there is a key at all.                      *)
LEMMA Ready ==
  ASSUME SimInv, ~Filling
  PROVE  /\ ReadyKeys = WithConjugation(galoisElt, present)
         /\ generated = present
<1>1. generated = present
  BY DEF SimInv, TypeOK, DataInv
<1>2. galoisElt \cap device = galoisElt
  BY <1>1 DEF SimInv, DataInv, ListInv
<1>3. QED
  BY <1>1, <1>2 DEF ReadyKeys, WithConjugation

LEMMA NotFilling ==
  ASSUME SimInv, NEW t \in Threads, pc[t] \in {"plan", "extra", "merge", "use", "save"}
  PROVE  ~Filling
BY RotationsAssumption DEF SimInv, MutexInv, Filling, Reading, Writing

LEMMA CallImplements ==
  ASSUME SimInv, NEW t \in Threads, Call(t) PROVE Answers(t)
<1>1. PICK S \in SUBSET Steps : want' = [want EXCEPT ![t] = S]
  BY DEF Call
<1>2. /\ pc[t] = "idle" /\ pc' = [pc EXCEPT ![t] = "shared"] /\ TypeOK
      /\ outcome' = [outcome EXCEPT ![t] = "none"]
  BY DEF Call, Begin, Go, SimInv
<1>3. /\ AllCalls' = [AllCalls EXCEPT ![t] = "rotate"]
      /\ Needs' = [Needs EXCEPT ![t] = S \cup {Conjugation}]
  <2>1. /\ pc'[t] = "shared" /\ want'[t] = S
        /\ \A u \in Threads \ {t} : pc'[u] = pc[u] /\ want'[u] = want[u]
    BY <1>1, <1>2 DEF TypeOK
  <2>2. QED
    BY <2>1, Moves, Stages
<1>4. UNCHANGED <<ReadyKeys, SavedKeys>>
  BY DEF Call, keyVars, ReadyKeys, SavedKeys, WithConjugation
<1>5. QED
  BY <1>1, <1>2, <1>3, <1>4, IsAsk DEF Answers

LEMMA BeginSaveImplements ==
  ASSUME SimInv, NEW t \in Threads, BeginSave(t) PROVE Answers(t)
<1>1. /\ pc[t] = "idle" /\ pc' = [pc EXCEPT ![t] = "saveLock"] /\ TypeOK
      /\ outcome' = [outcome EXCEPT ![t] = "none"] /\ UNCHANGED want
  BY DEF BeginSave, Begin, Go, SimInv
<1>2. /\ pc'[t] = "saveLock" /\ want'[t] = want[t]
      /\ \A u \in Threads \ {t} : pc'[u] = pc[u] /\ want'[u] = want[u]
  BY <1>1 DEF TypeOK
<1>3. /\ AllCalls' = [AllCalls EXCEPT ![t] = "save"]
      /\ Needs' = [Needs EXCEPT ![t] = want[t]]
  BY <1>2, Moves, Stages
<1>4. Needs[t] = want[t]
  BY <1>1, CallOfStage, Stages DEF Needs, WithConjugation
<1>5. UNCHANGED Needs
  BY <1>3, <1>4 DEF Needs
<1>6. UNCHANGED <<ReadyKeys, SavedKeys>>
  BY DEF BeginSave, keyVars, ReadyKeys, SavedKeys, WithConjugation
<1>7. QED
  BY <1>1, <1>3, <1>5, <1>6, IsAskSave DEF Answers

(* The locks, and the steps that plan what is missing.                     *)
LEMMA LocksStutter ==
  ASSUME SimInv, NEW t \in Threads,
         \/ AcquireShared(t) \/ AcquireExclusive(t) \/ Check(t)
         \/ PlanNothing(t) \/ PlanExtra(t) \/ BeginMerge(t) \/ FinishMerge(t)
  PROVE  UNCHANGED Mapped
<1>1. /\ UNCHANGED <<secret, outcome, want, galoisElt, device, generated, file>>
      /\ TypeOK
  BY DEF AcquireShared, AcquireExclusive, Check, PlanNothing, PlanExtra, BeginMerge,
    FinishMerge, keyVars, SimInv
<1>2. \E l : pc' = [pc EXCEPT ![t] = l] /\ Stage(l) = Stage(pc[t])
  <2>1. CASE AcquireShared(t)
    BY <2>1, Stages DEF AcquireShared, Go
  <2>2. CASE AcquireExclusive(t) \/ Check(t)
    BY <2>2, Stages DEF AcquireExclusive, Check, Go
  <2>3. CASE PlanNothing(t) \/ PlanExtra(t) \/ BeginMerge(t) \/ FinishMerge(t)
    BY <2>3, Stages DEF PlanNothing, PlanExtra, BeginMerge, FinishMerge, Go
  <2>4. QED
    BY <2>1, <2>2, <2>3
<1>3. UNCHANGED <<AllCalls, Needs>>
  BY <1>1, <1>2, GoesOn
<1>4. QED
  BY <1>1, <1>3 DEF Mapped, ReadyKeys, SavedKeys, WithConjugation

(* The first key lists its steps, of which none has data.                  *)
LEMMA PlanFirstStutters ==
  ASSUME SimInv, NEW t \in Threads, PlanFirst(t)
  PROVE  UNCHANGED Mapped
<1>1. /\ pc[t] = "plan" /\ pc' = [pc EXCEPT ![t] = "first"] /\ ~present /\ TypeOK
      /\ UNCHANGED <<secret, outcome, want, device, generated, file>>
  BY DEF PlanFirst, Go, SimInv
<1>2. UNCHANGED <<AllCalls, Needs>>
  BY <1>1, GoesOn, Stages
<1>3. device = {}
  BY <1>1 DEF SimInv, ListInv
<1>4. UNCHANGED ReadyKeys
  BY <1>1, <1>3 DEF ReadyKeys, WithConjugation
<1>5. QED
  BY <1>1, <1>2, <1>4 DEF Mapped, SavedKeys, WithConjugation

LEMMA PlanRefusedImplements ==
  ASSUME SimInv, NEW t \in Threads, PlanRefused(t) PROVE Answers(t)
<1>1. /\ pc[t] = "plan" /\ ~(present /\ MissingSteps(t) = {}) /\ ~secret /\ TypeOK
      /\ pc' = [pc EXCEPT ![t] = "idle"] /\ want' = [want EXCEPT ![t] = {}]
      /\ outcome' = [outcome EXCEPT ![t] = "KeyNotFound"]
  BY DEF PlanRefused, Return, Go, SimInv
<1>2. AllCalls[t] = "rotate" /\ Needs[t] = want[t] \cup {Conjugation}
  BY <1>1, Rotating DEF Busy
<1>3. ReadyKeys = WithConjugation(galoisElt, present)
  BY <1>1, NotFilling, Ready
<1>4. ~(Needs[t] \subseteq ReadyKeys)
  <2>1. want[t] \subseteq Steps /\ galoisElt \subseteq Steps /\ Conjugation \notin Steps
    BY <1>1, RotationsAssumption DEF TypeOK
  <2>2. CASE ~present
    BY <1>2, <1>3, <2>1, <2>2 DEF WithConjugation
  <2>3. CASE present
    <3>1. PICK s \in want[t] : s \notin galoisElt
      BY <1>1, <2>3 DEF MissingSteps
    <3>2. QED
      BY <1>2, <1>3, <2>1, <3>1 DEF WithConjugation
  <2>4. QED
    BY <2>2, <2>3
<1>5. /\ AllCalls' = [AllCalls EXCEPT ![t] = "idle"]
      /\ Needs' = [Needs EXCEPT ![t] = {}]
  BY <1>1, Returns
<1>6. UNCHANGED <<ReadyKeys, SavedKeys>>
  BY DEF PlanRefused, keyVars, ReadyKeys, SavedKeys, WithConjugation
<1>7. QED
  BY <1>1, <1>2, <1>4, <1>5, <1>6, IsRefuse DEF Answers

(* Data for the first key make one key ready after another; those of a     *)
(* later one only when they are merged.                                    *)
LEMMA GenerateStepImplements ==
  ASSUME SimInv, NEW t \in Threads, GenerateStep(t)
  PROVE  Answers(t) \/ UNCHANGED Mapped
<1>1. PICK s \in missing :
        \/ pc[t] = "first" /\ s \notin device /\ device' = device \cup {s}
        \/ pc[t] = "extra" /\ UNCHANGED device
  BY DEF GenerateStep
<1>2. /\ UNCHANGED <<pc, want, outcome, galoisElt, generated, file, secret>>
      /\ TypeOK
  BY DEF GenerateStep, callVars, SimInv
<1>3. UNCHANGED <<AllCalls, Needs, outcome, SavedKeys>>
  BY <1>2 DEF AllCalls, Needs, CallOf, SavedKeys, WithConjugation
<1>4. CASE pc[t] = "first" /\ s \notin device /\ device' = device \cup {s}
  <2>1. s \in want[t] /\ s \in galoisElt /\ secret
    BY <1>4 DEF SimInv, ListInv
  <2>2. AllCalls[t] = "rotate" /\ s \in Needs[t]
    BY <1>4, <2>1, Rotating DEF Busy
  <2>3. s # Conjugation
    BY <1>2, <2>1, RotationsAssumption DEF TypeOK
  <2>4. s \notin ReadyKeys
    BY <1>4, <2>3 DEF ReadyKeys, WithConjugation
  <2>5. ReadyKeys' = ReadyKeys \cup {s}
    BY <1>2, <1>4, <2>1 DEF ReadyKeys, WithConjugation
  <2>6. QED
    BY <1>2, <1>3, <2>1, <2>2, <2>4, <2>5, IsMake DEF Answers
<1>5. CASE pc[t] = "extra" /\ UNCHANGED device
  BY <1>2, <1>3, <1>5 DEF Mapped, ReadyKeys, WithConjugation
<1>6. QED
  BY <1>1, <1>4, <1>5

(* The key of the conjugation is ready when the first key is complete.     *)
LEMMA FinishFirstImplements ==
  ASSUME SimInv, NEW t \in Threads, FinishFirst(t) PROVE Answers(t)
<1>1. /\ pc[t] = "first" /\ pc' = [pc EXCEPT ![t] = "relock"] /\ generated' = TRUE
      /\ UNCHANGED <<want, outcome, galoisElt, device, file, secret>> /\ TypeOK
  BY DEF FinishFirst, Go, SimInv
<1>2. UNCHANGED <<AllCalls, Needs>>
  BY <1>1, GoesOn, Stages
<1>3. AllCalls[t] = "rotate" /\ Conjugation \in Needs[t]
  BY <1>1, Rotating DEF Busy
<1>4. secret /\ ~generated
  BY <1>1 DEF SimInv, ListInv, DataInv, Filling
<1>5. Conjugation \notin ReadyKeys
  BY <1>1, <1>4, RotationsAssumption DEF ReadyKeys, WithConjugation, TypeOK
<1>6. ReadyKeys' = ReadyKeys \cup {Conjugation}
  BY <1>1, <1>4 DEF ReadyKeys, WithConjugation
<1>7. UNCHANGED <<AllCalls, Needs, outcome, SavedKeys>>
  BY <1>1, <1>2 DEF SavedKeys, WithConjugation
<1>8. QED
  BY <1>1, <1>3, <1>4, <1>5, <1>6, <1>7, IsMake DEF Answers

LEMMA MergeStepImplements ==
  ASSUME SimInv, NEW t \in Threads, MergeStep(t) PROVE Answers(t)
<1>1. PICK s \in missing :
        galoisElt' = galoisElt \cup {s} /\ device' = device \cup {s}
  BY DEF MergeStep
<1>2. /\ pc[t] = "merge" /\ TypeOK
      /\ UNCHANGED <<pc, want, outcome, generated, file, secret>>
  BY DEF MergeStep, callVars, SimInv
<1>3. UNCHANGED <<AllCalls, Needs, outcome, SavedKeys>>
  BY <1>2 DEF AllCalls, Needs, CallOf, SavedKeys, WithConjugation
<1>4. s \in want[t] /\ s \notin galoisElt /\ secret /\ device \subseteq galoisElt
  BY <1>1, <1>2 DEF SimInv, ListInv
<1>5. AllCalls[t] = "rotate" /\ s \in Needs[t]
  BY <1>2, <1>4, Rotating DEF Busy
<1>6. s # Conjugation
  BY <1>1, <1>2, RotationsAssumption DEF TypeOK
<1>7. s \notin ReadyKeys
  BY <1>4, <1>6 DEF ReadyKeys, WithConjugation
<1>8. ReadyKeys' = ReadyKeys \cup {s}
  BY <1>1, <1>2, <1>4 DEF ReadyKeys, WithConjugation
<1>9. QED
  BY <1>2, <1>3, <1>4, <1>5, <1>7, <1>8, IsMake DEF Answers

LEMMA UseImplements ==
  ASSUME SimInv, NEW t \in Threads, Use(t) PROVE Answers(t)
<1>1. /\ pc[t] = "use" /\ TypeOK
      /\ UNCHANGED <<present, galoisElt, generated, storage, device, host, file>>
  BY DEF Use, keyVars, SimInv
<1>2. present /\ want[t] \subseteq galoisElt
  BY <1>1 DEF SimInv, GrowInv, AllPresent
<1>3. generated /\ ReadyKeys = galoisElt \cup {Conjugation}
  BY <1>1, <1>2, NotFilling, Ready DEF WithConjugation
<1>4. storage = "device" /\ galoisElt \subseteq device
  BY <1>3 DEF SimInv, DataInv
<1>5. \A map \in Found : \A s \in want[t] : Rotates(s, map)
  BY <1>2, <1>4 DEF Found, Rotates
<1>6. Return(t, "ok")
  BY <1>5 DEF Use
<1>7. /\ pc' = [pc EXCEPT ![t] = "idle"] /\ want' = [want EXCEPT ![t] = {}]
      /\ outcome' = [outcome EXCEPT ![t] = "ok"]
  BY <1>6 DEF Return, Go
<1>8. /\ AllCalls' = [AllCalls EXCEPT ![t] = "idle"]
      /\ Needs' = [Needs EXCEPT ![t] = {}]
  BY <1>1, <1>7, Returns
<1>9. AllCalls[t] = "rotate" /\ Needs[t] \subseteq ReadyKeys
  BY <1>1, <1>2, <1>3, Rotating DEF Busy
<1>10. UNCHANGED <<ReadyKeys, SavedKeys>>
  BY <1>1 DEF ReadyKeys, SavedKeys, WithConjugation
<1>11. QED
  BY <1>1, <1>7, <1>8, <1>9, <1>10, IsRotate DEF Answers

LEMMA SaveImplements ==
  ASSUME SimInv, NEW t \in Threads, Save(t) PROVE Answers(t)
<1>1. /\ pc[t] = "save" /\ TypeOK
      /\ UNCHANGED <<present, galoisElt, generated, storage, device, host>>
  BY DEF Save, keyVars, SimInv
<1>2. ReadyKeys = WithConjugation(galoisElt, present) /\ generated = present
  BY <1>1, NotFilling, Ready
<1>3. /\ Return(t, "saved")
      /\ SavedKeys' = ReadyKeys
  <2>1. CASE ~present
    <3>1. Return(t, "saved") /\ file' = NoKeyFile
      BY <2>1 DEF Save
    <3>2. galoisElt = {}
      BY <2>1 DEF SimInv, ListInv
    <3>3. QED
      BY <1>2, <2>1, <3>1, <3>2 DEF SavedKeys, NoKeyFile, WithConjugation
  <2>2. CASE present
    <3>1. generated /\ storage = "device" /\ galoisElt \subseteq device
      BY <1>2, <2>2 DEF SimInv, DataInv
    <3>2. /\ Return(t, "saved")
          /\ file' = [elts |-> galoisElt, data |-> device, conjugation |-> TRUE]
      BY <2>2, <3>1 DEF Save
    <3>3. file'.elts \cap file'.data = galoisElt /\ file'.conjugation = TRUE
      BY <3>1, <3>2
    <3>4. QED
      BY <1>2, <2>2, <3>2, <3>3 DEF SavedKeys, WithConjugation
  <2>3. QED
    BY <2>1, <2>2
<1>4. /\ pc' = [pc EXCEPT ![t] = "idle"] /\ want' = [want EXCEPT ![t] = {}]
      /\ outcome' = [outcome EXCEPT ![t] = "saved"]
  BY <1>3 DEF Return, Go
<1>5. /\ AllCalls' = [AllCalls EXCEPT ![t] = "idle"]
      /\ Needs' = [Needs EXCEPT ![t] = {}]
  BY <1>1, <1>4, Returns
<1>6. AllCalls[t] = "save"
  BY <1>1, CallOfStage, Stages DEF AllCalls
<1>7. UNCHANGED ReadyKeys
  BY <1>1 DEF ReadyKeys, WithConjugation
<1>8. QED
  BY <1>1, <1>3, <1>4, <1>5, <1>6, <1>7, IsSave DEF Answers

LEMMA StepImplements ==
  ASSUME Undisturbed, SimInv, [Next]_vars
  PROVE  [Promise!KNext]_Mapped
<1>1. ASSUME NEW t \in Threads, Thread(t)
      PROVE  (Answers(t) /\ UNCHANGED secret) \/ UNCHANGED Mapped
  <2>1. UNCHANGED secret
    BY <1>1 DEF Thread, Call, BeginSave, AcquireShared, AcquireExclusive, Proceed,
      Check, Generate, PlanNothing, PlanRefused, PlanFirst, PlanExtra, GenerateStep,
      FinishFirst, BeginMerge, MergeStep, FinishMerge, GenerateFails, Use, Save
  <2>2. ~GenerateFails(t)
    BY DEF GenerateFails, Undisturbed
  <2>3. CASE \/ AcquireShared(t) \/ AcquireExclusive(t) \/ Check(t)
             \/ PlanNothing(t) \/ PlanExtra(t) \/ BeginMerge(t) \/ FinishMerge(t)
    BY <2>3, LocksStutter
  <2>4. QED
    BY <1>1, <2>1, <2>2, <2>3, CallImplements, BeginSaveImplements,
      PlanFirstStutters, PlanRefusedImplements, GenerateStepImplements,
      FinishFirstImplements, MergeStepImplements, UseImplements, SaveImplements
    DEF Thread, Proceed, Generate
<1>2. ~StoreInHost /\ ~StoreInDevice
  BY DEF StoreInHost, StoreInDevice, Undisturbed
<1>3. CASE StreamRuns \/ UNCHANGED vars
  <2>1. UNCHANGED <<pc, want, outcome, galoisElt, device, generated, file, secret>>
    BY <1>3 DEF StreamRuns, vars, callVars, keyVars
  <2>2. QED
    BY <2>1 DEF Mapped, AllCalls, Needs, CallOf, ReadyKeys, SavedKeys, WithConjugation
<1>4. CASE \E t \in Threads : Thread(t)
  <2>1. PICK t \in Threads : Thread(t)
    BY <1>4
  <2>2. CASE Answers(t) /\ UNCHANGED secret
    BY <2>2 DEF Answers, Promise!KNext
  <2>3. QED
    BY <1>1, <2>1, <2>2
<1>5. QED
  BY <1>2, <1>3, <1>4 DEF Next

(* The protocol of the three locks implements the set of keys that only    *)
(* grows, for any number of threads and steps, as long as generations do   *)
(* not fail and the key is not moved: rotations end with their keys or are *)
(* refused without, keys are made when a rotation needs them and not       *)
(* before, and a file holds the keys there are (session.cu:512-592 and    *)
(* 974-1014).                                                              *)
THEOREM ImplementsPromise == ASSUME Undisturbed PROVE Spec => KeepsPromise
<1>1. Init => Promise!KInit
  <2>1. ASSUME Init PROVE /\ AllCalls = [t \in Threads |-> "idle"]
                          /\ Needs = [t \in Threads |-> {}]
    <3>1. \A t \in Threads : CallOf(t) = "idle" /\ want[t] = {}
      BY <2>1, CallOfStage, Stages DEF Init
    <3>2. QED
      BY <3>1 DEF AllCalls, Needs, WithConjugation
  <2>2. ASSUME Init PROVE /\ SavedKeys = {} /\ secret \in BOOLEAN
                          /\ ReadyKeys \subseteq Steps \cup {Conjugation}
                          /\ outcome = [t \in Threads |-> "none"]
    BY <2>2 DEF Init, SavedKeys, ReadyKeys, NoKeyFile, WithConjugation
  <2>3. QED
    BY <2>1, <2>2 DEF Promise!KInit, AllCalls, Needs, SavedKeys
<1>2. SimInv /\ [Next]_vars => [Promise!KNext]_Mapped
  BY StepImplements
<1>3. Spec => []SimInv
  BY IInvHolds, DataInvHolds, ListInvHolds, PTL DEF IInv, SimInv
<1>4. QED
  BY <1>1, <1>2, <1>3, PTL
  DEF Spec, KeepsPromise, Promise!KSpec, Promise!kvars, Mapped, AllCalls, Needs,
    SavedKeys

=============================================================================
