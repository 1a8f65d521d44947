-------------------------- MODULE MemoryPool_proofs --------------------------
(***************************************************************************)
(* Proofs about MemoryPool for every number of callers, buffers and pools. *)
(***************************************************************************)
EXTENDS MemoryPool, FiniteSetTheorems, TLAPS

(* The resources, as the type invariant needs them.                        *)
LEMMA ResourceTypes ==
  ASSUME TypeOK
  PROVE  /\ HostBase \in Resources /\ DeviceBase \in Resources
         /\ HostPool \in Resources
         /\ DevicePool \in Resources
         /\ \A use \in BOOLEAN : ResourceWhen(use) \in Resources
         /\ DeviceResource \in Resources
BY PoolAssumption
DEF TypeOK, Resources, HostBase, DeviceBase, HostPool, DevicePool, Resource,
    ResourceWhen, DeviceResource

(* Every variable has its type at the start, and every step keeps it.      *)
LEMMA TypeInit == Init => TypeOK
<1>1. Resource("app", 0) \in Resources
  BY DEF Resources, AppResources
<1>2. NoVector \in [resource : Resources \cup {None}, bytes : 0..1]
  BY DEF NoVector
<1>3. [pool |-> TRUE, asDefault |-> FALSE] \in Configs
  BY DEF Configs
<1>4. [from |-> None, to |-> None] \in [from : Resources \cup {None}, to : Resources \cup {None}]
  OBVIOUS
<1>5. 0 \in 0..PoolLimit /\ 0 \in Int
  BY PoolAssumption
<1>6. SUFFICES ASSUME Init PROVE TypeOK
  OBVIOUS
<1>7. config \in [Callers -> Configs]
  BY <1>3, <1>6 DEF Init
<1>8. vector \in [Vectors -> [resource : Resources \cup {None}, bytes : 0..1]]
  BY <1>2, <1>6 DEF Init
<1>9. lastFree \in [from : Resources \cup {None}, to : Resources \cup {None}]
  BY <1>4, <1>6 DEF Init
<1>10. rmmDefault \in Resources /\ previous \in Resources \cup {None}
  BY <1>1, <1>6 DEF Init
<1>11. QED
  BY <1>5, <1>6, <1>7, <1>8, <1>9, <1>10 DEF Init, TypeOK

LEMMA TypeStep ==
  ASSUME TypeOK, [Next]_vars
  PROVE  TypeOK'
<1> USE PoolAssumption, ResourceTypes
    DEF TypeOK, callVars, poolVars, countVars, rmmVars, heapVars, FirstDefault
<1>1. ASSUME NEW c \in Callers, Caller(c) PROVE TypeOK'
  <2>1. CASE Generate(c)
    BY <2>1 DEF Generate, Go, Configs
  <2>2. CASE InitializeNothing(c)
    BY <2>2 DEF InitializeNothing, Go, NeedsWork
  <2>3. CASE InitializeWithoutPool(c)
    BY <2>3 DEF InitializeWithoutPool, Go, NeedsWork
  <2>4. CASE InitializePools(c)
    BY <2>4 DEF InitializePools, Go, MakeHostPool, MakeDevicePool, NeedsWork
  <2>5. CASE InitializeThrows(c)
    BY <2>5 DEF InitializeThrows, Go, MakeHostPool, NeedsWork
  <2>6. CASE UseMemoryPool(c)
    BY <2>6 DEF UseMemoryPool, Go, Configs
  <2>7. CASE SetAsRmmDefault(c)
    BY <2>7 DEF SetAsRmmDefault, Go
  <2>8. CASE UnsetRmmDefault(c)
    BY <2>8 DEF UnsetRmmDefault, Go, RestoreRmmDefault
  <2>9. CASE InitializeGenerator(c)
    BY <2>9 DEF InitializeGenerator, Go
  <2>10. CASE Release(c)
    <3>1. rmmDefault' \in Resources /\ previous' \in Resources \cup {None}
      BY <2>10 DEF Release, RestoreRmmDefault
    <3>2. 0 \in 0..PoolLimit /\ 0 \in Int
      OBVIOUS
    <3>3. pc' \in [Callers -> {"idle", "initialize", "use", "default", "generator", "release"}]
      BY <2>10 DEF Release, Go
    <3>4. QED
      BY <2>10, <3>1, <3>2, <3>3 DEF Release
  <2>11. CASE ReleaseGenerator(c)
    BY <2>11 DEF ReleaseGenerator, Go
  <2>12. QED
    BY <1>1, <2>1, <2>2, <2>3, <2>4, <2>5, <2>6, <2>7, <2>8, <2>9, <2>10, <2>11 DEF Caller
<1>2. ASSUME NEW b \in HostBlocks, HostAllocate(b) PROVE TypeOK'
  BY <1>2 DEF HostAllocate, Outside, Blocks
<1>3. ASSUME NEW b \in HostBlocks, HostDeallocate(b) PROVE TypeOK'
  BY <1>3 DEF HostDeallocate, Outside, Freed, FromDevicePool, FromHostPool, Blocks
<1>4. ASSUME NEW b \in DeviceBlocks, Allocate(b) PROVE TypeOK'
  BY <1>4 DEF Allocate, Outside, Blocks
<1>5. ASSUME NEW b \in DeviceBlocks, Deallocate(b) PROVE TypeOK'
  BY <1>5 DEF Deallocate, Outside, Freed, FromDevicePool, FromHostPool, Blocks
<1>6. ASSUME NEW v \in Vectors, NewVector(v) PROVE TypeOK'
  BY <1>6 DEF NewVector, Outside, Counted
<1>7. ASSUME NEW v \in Vectors, ResizeVector(v) PROVE TypeOK'
  BY <1>7 DEF ResizeVector, Outside, Counted
<1>8. ASSUME NEW v \in Vectors, DestroyVector(v) PROVE TypeOK'
  BY <1>8 DEF DestroyVector, Outside, Counted, NoVector
<1>9. CASE SetDefaultElsewhere
  BY <1>9 DEF SetDefaultElsewhere, Resources
<1>10. CASE UNCHANGED vars
  BY <1>10 DEF vars
<1>11. QED
  BY <1>1, <1>2, <1>3, <1>4, <1>5, <1>6, <1>7, <1>8, <1>9, <1>10 DEF Next

(* The state of the pool, of its callers and of their buffers keeps its     *)
(* type, for any number of callers, buffers and pools.                      *)
THEOREM TypeCorrect == Spec => []TypeOK
BY TypeInit, TypeStep, PTL DEF Spec

-----------------------------------------------------------------------------
(* The resource of each live buffer, told from the sets that deallocate    *)
(* looks into, and the counters that release looks at.                     *)

Filled(pool) ==
  {v \in Vectors : /\ vector[v].bytes = 1
                   /\ vector[v].resource.kind = "devicePool"
                   /\ vector[v].resource.id = pool}

DeviceInv ==
  /\ \A b \in DeviceBlocks :
       IF b \in pooledDevice THEN source[b] = DevicePool /\ devicePool # 0
                             ELSE source[b] \in {None, DeviceBase}
  /\ \A v \in Vectors : vector[v].resource.kind = "devicePool"
                            => vector[v].resource.id \in 1..deviceMade
  /\ devicePool <= deviceMade
  /\ devicePool # 0 =>
       deviceUsed = Cardinality(pooledDevice) + Cardinality(Filled(devicePool))
  /\ ~initialized => devicePool = 0

HostInv ==
  /\ \A b \in HostBlocks :
       IF b \in pooledHost THEN source[b] = HostPool /\ hostPool # 0
                           ELSE source[b] \in {None, HostBase}
  /\ hostPool # 0 => hostUsed = Cardinality(pooledHost)
  /\ hostPool # 0 => devicePool # 0

(* The sets the counters count are finite.                                 *)
LEMMA FiniteCounts ==
  ASSUME TypeOK
  PROVE  /\ IsFiniteSet(pooledHost) /\ Cardinality(pooledHost) \in Nat
         /\ IsFiniteSet(pooledDevice) /\ Cardinality(pooledDevice) \in Nat
         /\ \A pool : IsFiniteSet(Filled(pool)) /\ Cardinality(Filled(pool)) \in Nat
<1>1. IsFiniteSet(pooledHost) /\ IsFiniteSet(pooledDevice)
  BY PoolAssumption, FS_Subset DEF TypeOK
<1>2. ASSUME NEW pool PROVE IsFiniteSet(Filled(pool))
  BY PoolAssumption, FS_Subset DEF Filled
<1>3. QED
  BY <1>1, <1>2, FS_CardinalityType

(* Nothing but the operations of the pool and of the vectors matters.      *)
LEMMA Frame ==
  ASSUME UNCHANGED <<hostPool, devicePool, deviceMade, countVars, source, vector>>,
         initialized' = initialized \/ initialized'
  PROVE  /\ DeviceInv => DeviceInv'
         /\ HostInv => HostInv'
BY DEF DeviceInv, HostInv, Filled, countVars, HostPool, DevicePool

(* A vector that changes its memory moves in or out of the counted ones.   *)
LEMMA FilledStep ==
  ASSUME TypeOK, NEW v \in Vectors, NEW r \in Resources \cup {None}, NEW n \in 0..1,
         vector' = [vector EXCEPT ![v] = [resource |-> r, bytes |-> n]],
         vector[v].resource = r \/ vector[v].bytes = 0 \/ n = 0,
         devicePool' = devicePool
  PROVE  Cardinality(Filled(devicePool)') = Cardinality(Filled(devicePool))
           - (IF v \in Filled(devicePool) THEN 1 ELSE 0)
           + (IF n = 1 /\ r.kind = "devicePool" /\ r.id = devicePool THEN 1 ELSE 0)
<1> DEFINE before == Filled(devicePool)
           holds == n = 1 /\ r.kind = "devicePool" /\ r.id = devicePool
<1>1. \A u \in Vectors : vector'[u] = IF u = v THEN [resource |-> r, bytes |-> n] ELSE vector[u]
  BY DEF TypeOK
<1>2. Filled(devicePool)' = IF holds THEN (before \ {v}) \cup {v} ELSE before \ {v}
  BY <1>1 DEF Filled
<1>3. IsFiniteSet(before) /\ Cardinality(before) \in Nat
  BY FiniteCounts
<1>4. /\ IsFiniteSet(before \ {v})
      /\ Cardinality(before \ {v}) = IF v \in before THEN Cardinality(before) - 1
                                                    ELSE Cardinality(before)
  BY <1>3, FS_RemoveElement
<1>5. Cardinality((before \ {v}) \cup {v}) = Cardinality(before \ {v}) + 1
  BY <1>4, FS_AddElement
<1>6. QED
  BY <1>2, <1>3, <1>4, <1>5

-----------------------------------------------------------------------------
(* A call of a context either leaves the pools alone or makes or releases  *)
(* them, and then none of their memory is in use.                          *)
LEMMA DeviceCaller ==
  ASSUME TypeOK, DeviceInv, NEW c \in Callers, Caller(c)
  PROVE  DeviceInv'
<1> USE DEF poolVars, countVars, rmmVars, heapVars
<1>1. CASE Generate(c)
  BY <1>1, Frame DEF Generate
<1>2. CASE InitializeNothing(c)
  BY <1>2, Frame DEF InitializeNothing
<1>3. CASE InitializeWithoutPool(c)
  BY <1>3, Frame DEF InitializeWithoutPool
<1>4. CASE InitializePools(c)
  <2>1. devicePool = 0 /\ pooledDevice = {}
    BY <1>4 DEF InitializePools, NeedsWork, DeviceInv, TypeOK
  <2>2. /\ deviceMade \in Nat /\ deviceMade' = deviceMade + 1
        /\ devicePool' = deviceMade + 1 /\ deviceUsed' = 0
        /\ UNCHANGED <<pooledDevice, source, vector>>
        /\ initialized'
    BY <1>4, PoolAssumption DEF InitializePools, MakeDevicePool, TypeOK
  <2>3. Filled(devicePool)' = {}
    BY <2>2 DEF Filled, DeviceInv
  <2>4. Cardinality({}) = 0
    BY FS_EmptySet
  <2>5. \A b \in DeviceBlocks : source[b] \in {None, DeviceBase}
    BY <2>1 DEF DeviceInv
  <2>6. \A v \in Vectors : vector[v].resource.kind = "devicePool"
                               => vector[v].resource.id \in 1..(deviceMade + 1)
    BY <2>2 DEF DeviceInv
  <2>7. QED
    BY <2>1, <2>2, <2>3, <2>4, <2>5, <2>6 DEF DeviceInv, DeviceBase, None, Resource
<1>5. CASE InitializeThrows(c)
  BY <1>5 DEF InitializeThrows, DeviceInv, Filled, DevicePool
<1>6. CASE UseMemoryPool(c)
  BY <1>6, Frame DEF UseMemoryPool
<1>7. CASE SetAsRmmDefault(c)
  BY <1>7, Frame DEF SetAsRmmDefault
<1>8. CASE UnsetRmmDefault(c)
  BY <1>8, Frame DEF UnsetRmmDefault
<1>9. CASE InitializeGenerator(c)
  BY <1>9, Frame DEF InitializeGenerator
<1>10. CASE Release(c)
  <2>1. IsFiniteSet(pooledDevice) /\ Cardinality(pooledDevice) \in Nat
        /\ Cardinality(Filled(devicePool)) \in Nat
    BY FiniteCounts
  <2>2. pooledDevice = {}
    <3>1. CASE devicePool = 0
      BY <3>1 DEF DeviceInv, TypeOK
    <3>2. CASE devicePool # 0
      BY <1>10, <2>1, <3>2, FS_EmptySet DEF Release, InUse, DeviceInv
    <3>3. QED
      BY <3>1, <3>2
  <2>3. \A b \in DeviceBlocks : source[b] \in {None, DeviceBase}
    BY <2>2 DEF DeviceInv
  <2>4. /\ devicePool' = 0 /\ pooledDevice' = {}
        /\ UNCHANGED <<deviceMade, source, vector>>
    BY <1>10 DEF Release
  <2>5. 0 <= deviceMade
    BY PoolAssumption DEF TypeOK
  <2>6. QED
    BY <2>3, <2>4, <2>5 DEF DeviceInv, DeviceBase, None, Resource
<1>11. CASE ReleaseGenerator(c)
  BY <1>11, Frame DEF ReleaseGenerator
<1>12. QED
  BY <1>1, <1>2, <1>3, <1>4, <1>5, <1>6, <1>7, <1>8, <1>9, <1>10, <1>11 DEF Caller

(* The buffers of the device go through pooled_device_allocations_.        *)
LEMMA DeviceBuffers ==
  ASSUME TypeOK, DeviceInv, NEW b \in DeviceBlocks, Allocate(b) \/ Deallocate(b)
  PROVE  /\ DeviceInv'
         /\ lastFree' = lastFree \/ lastFree'.from = lastFree'.to
<1>1. /\ IsFiniteSet(pooledDevice) /\ Cardinality(pooledDevice) \in Nat
      /\ Cardinality(Filled(devicePool)) \in Nat
  BY FiniteCounts
<1>2. /\ UNCHANGED <<devicePool, deviceMade, initialized, vector>>
      /\ Filled(devicePool)' = Filled(devicePool)
  BY DEF Allocate, Deallocate, Outside, poolVars, Filled
<1>3. b \in Blocks /\ DOMAIN source = Blocks /\ DeviceBlocks \subseteq Blocks
  BY DEF Blocks, TypeOK
<1>4. CASE Allocate(b)
  <2>1. b \notin pooledDevice
    BY <1>4 DEF Allocate, DeviceInv, DevicePool, None, Resource
  <2>2. Cardinality(pooledDevice \cup {b}) = Cardinality(pooledDevice) + 1
    BY <1>1, <2>1, FS_AddElement
  <2>3. CASE usePool /\ devicePool # 0
    <3>1. /\ pooledDevice' = pooledDevice \cup {b} /\ deviceUsed' = deviceUsed + 1
          /\ source' = [source EXCEPT ![b] = DevicePool] /\ lastFree' = lastFree
      BY <1>4, <2>3 DEF Allocate, DeviceResource, ResourceWhen
    <3>2. \A d \in DeviceBlocks :
            IF d \in pooledDevice' THEN source'[d] = DevicePool
                                   ELSE source'[d] \in {None, DeviceBase}
      BY <1>3, <3>1 DEF DeviceInv
    <3>3. deviceUsed' = Cardinality(pooledDevice') + Cardinality(Filled(devicePool))
      BY <1>1, <2>2, <2>3, <3>1 DEF DeviceInv
    <3>4. QED
      BY <1>2, <2>3, <3>1, <3>2, <3>3 DEF DeviceInv, DevicePool, DeviceBase, None
  <2>4. CASE ~(usePool /\ devicePool # 0)
    <3>1. /\ UNCHANGED <<pooledDevice, deviceUsed, lastFree>>
          /\ source' = [source EXCEPT ![b] = DeviceBase]
      BY <1>4, <2>4 DEF Allocate, DeviceResource, ResourceWhen
    <3>2. QED
      BY <1>2, <1>3, <2>1, <3>1 DEF DeviceInv, DevicePool, DeviceBase, None
  <2>5. QED
    BY <2>3, <2>4
<1>5. CASE Deallocate(b)
  <2>1. CASE b \in pooledDevice
    <3>1. /\ pooledDevice' = pooledDevice \ {b} /\ deviceUsed' = deviceUsed - 1
          /\ source' = [source EXCEPT ![b] = None]
          /\ lastFree' = [from |-> source[b], to |-> DevicePool]
      BY <1>5, <2>1 DEF Deallocate, Freed, FromDevicePool
    <3>2. source[b] = DevicePool
      BY <2>1 DEF DeviceInv
    <3>3. Cardinality(pooledDevice \ {b}) = Cardinality(pooledDevice) - 1
      BY <1>1, <2>1, FS_RemoveElement
    <3>4. QED
      BY <1>1, <1>2, <1>3, <3>1, <3>2, <3>3 DEF DeviceInv, DevicePool, DeviceBase, None, TypeOK
  <2>2. CASE b \notin pooledDevice
    <3>1. /\ UNCHANGED <<pooledDevice, deviceUsed>>
          /\ source' = [source EXCEPT ![b] = None]
          /\ lastFree' = [from |-> source[b], to |-> DeviceBase]
      BY <1>5, <2>2 DEF Deallocate, Freed, FromDevicePool
    <3>2. source[b] = DeviceBase
      BY <1>5, <2>2 DEF Deallocate, DeviceInv
    <3>3. QED
      BY <1>2, <1>3, <2>2, <3>1, <3>2 DEF DeviceInv, DevicePool, DeviceBase, None
  <2>3. QED
    BY <2>1, <2>2
<1>6. QED
  BY <1>4, <1>5

(* A vector is counted by the pool it was made with, as long as that pool  *)
(* is the current one.                                                     *)
LEMMA DeviceVectors ==
  ASSUME TypeOK, DeviceInv, NEW v \in Vectors,
         NewVector(v) \/ ResizeVector(v) \/ DestroyVector(v)
  PROVE  DeviceInv' /\ lastFree' = lastFree
<1> DEFINE Becomes(r, n) ==
             /\ vector' = [vector EXCEPT ![v] = [resource |-> r, bytes |-> n]]
             /\ vector[v].resource = r \/ vector[v].bytes = 0 \/ n = 0
<1>1. UNCHANGED <<devicePool, deviceMade, initialized, pooledDevice, source, lastFree>>
  BY DEF NewVector, ResizeVector, DestroyVector, Outside, poolVars
<1>2. vector[v] \in [resource : Resources \cup {None}, bytes : 0..1]
  BY DEF TypeOK
<1>3. \E r \in Resources \cup {None}, n \in 0..1 :
        /\ Becomes(r, n)
        /\ r.kind = "devicePool" => r.id \in 1..deviceMade
        /\ devicePool # 0 => deviceUsed' = deviceUsed
             - (IF v \in Filled(devicePool) THEN 1 ELSE 0)
             + (IF n = 1 /\ r.kind = "devicePool" /\ r.id = devicePool THEN 1 ELSE 0)
  <2>1. CASE NewVector(v)
    <3>1. PICK n \in 0..1 :
            /\ vector' = [vector EXCEPT ![v] = [resource |-> DeviceResource, bytes |-> n]]
            /\ Counted(DeviceResource, 0, n)
      BY <2>1 DEF NewVector
    <3>2. vector[v].bytes = 0
      BY <2>1 DEF NewVector, NoVector
    <3>3. DeviceResource \in Resources
      BY ResourceTypes
    <3>4. DeviceResource.kind = "devicePool" => DeviceResource.id \in 1..deviceMade
      BY PoolAssumption DEF DeviceResource, ResourceWhen, DevicePool, DeviceBase, Resource, DeviceInv, TypeOK
    <3>5. deviceUsed' = deviceUsed + (IF n = 1 /\ DeviceResource.kind = "devicePool"
                                        /\ DeviceResource.id = devicePool THEN 1 ELSE 0)
      BY <3>1 DEF Counted, TypeOK
    <3>6. v \notin Filled(devicePool)
      BY <3>2 DEF Filled
    <3>7. deviceUsed \in Int
      BY DEF TypeOK
    <3>8. deviceUsed' = deviceUsed
             - (IF v \in Filled(devicePool) THEN 1 ELSE 0)
             + (IF n = 1 /\ DeviceResource.kind = "devicePool"
                   /\ DeviceResource.id = devicePool THEN 1 ELSE 0)
      BY <3>5, <3>6, <3>7
    <3> DeviceResource \in Resources \cup {None}
      BY <3>3
    <3>9. WITNESS DeviceResource \in Resources \cup {None}, n \in 0..1
    <3>10. QED
      BY <3>1, <3>2, <3>4, <3>8
  <2>2. CASE ResizeVector(v)
    <3>1. PICK n \in 0..1 :
            /\ vector' = [vector EXCEPT ![v].bytes = n]
            /\ Counted(vector[v].resource, vector[v].bytes, n)
      BY <2>2 DEF ResizeVector
    <3> DEFINE r == vector[v].resource
    <3>2. [vector[v] EXCEPT !.bytes = n] = [resource |-> r, bytes |-> n]
      BY <1>2
    <3>3. vector' = [vector EXCEPT ![v] = [resource |-> r, bytes |-> n]]
      BY <3>1, <3>2
    <3>4. r \in Resources \cup {None} /\ (r.kind = "devicePool" => r.id \in 1..deviceMade)
      BY <1>2 DEF DeviceInv
    <3>5. deviceUsed' = deviceUsed
             - (IF v \in Filled(devicePool) THEN 1 ELSE 0)
             + (IF n = 1 /\ r.kind = "devicePool" /\ r.id = devicePool THEN 1 ELSE 0)
      BY <1>2, <3>1 DEF Counted, Filled, TypeOK
    <3>6. QED
      BY <3>3, <3>4, <3>5
  <2>3. CASE DestroyVector(v)
    <3>1. vector' = [vector EXCEPT ![v] = [resource |-> None, bytes |-> 0]]
      BY <2>3 DEF DestroyVector, NoVector
    <3>2. None.kind # "devicePool"
      BY DEF None, Resource
    <3>3. deviceUsed' = deviceUsed - (IF v \in Filled(devicePool) THEN 1 ELSE 0) + 0
      BY <1>2, <2>3 DEF DestroyVector, Counted, Filled, TypeOK
    <3>4. deviceUsed \in Int
      BY DEF TypeOK
    <3>5. deviceUsed' = deviceUsed
             - (IF v \in Filled(devicePool) THEN 1 ELSE 0)
             + (IF 0 = 1 /\ None.kind = "devicePool" /\ None.id = devicePool THEN 1 ELSE 0)
      BY <3>2, <3>3, <3>4
    <3>6. 0 \in 0..1
      OBVIOUS
    <3>7. WITNESS None \in Resources \cup {None}, 0 \in 0..1
    <3>8. QED
      BY <3>1, <3>2, <3>5
  <2>4. QED
    BY <2>1, <2>2, <2>3
<1>4. PICK r \in Resources \cup {None}, n \in 0..1 :
        /\ Becomes(r, n)
        /\ r.kind = "devicePool" => r.id \in 1..deviceMade
        /\ devicePool # 0 => deviceUsed' = deviceUsed
             - (IF v \in Filled(devicePool) THEN 1 ELSE 0)
             + (IF n = 1 /\ r.kind = "devicePool" /\ r.id = devicePool THEN 1 ELSE 0)
  BY <1>3
<1>5. Cardinality(Filled(devicePool)') = Cardinality(Filled(devicePool))
           - (IF v \in Filled(devicePool) THEN 1 ELSE 0)
           + (IF n = 1 /\ r.kind = "devicePool" /\ r.id = devicePool THEN 1 ELSE 0)
  BY <1>1, <1>4, FilledStep
<1>6. \A u \in Vectors : vector'[u] = IF u = v THEN [resource |-> r, bytes |-> n] ELSE vector[u]
  BY <1>4 DEF TypeOK
<1>7. Cardinality(pooledDevice) \in Nat /\ Cardinality(Filled(devicePool)) \in Nat
  BY FiniteCounts
<1>8. \A u \in Vectors : vector'[u].resource.kind = "devicePool"
                            => vector'[u].resource.id \in 1..deviceMade
  BY <1>4, <1>6 DEF DeviceInv
<1>9. Cardinality(Filled(devicePool))' = Cardinality(Filled(devicePool)')
  OBVIOUS
<1>10. devicePool' # 0 =>
         deviceUsed' = Cardinality(pooledDevice)' + Cardinality(Filled(devicePool))'
  BY <1>1, <1>4, <1>5, <1>7, <1>9 DEF DeviceInv, TypeOK
<1>11. QED
  BY <1>1, <1>8, <1>10 DEF DeviceInv, DevicePool, DeviceBase, None

-----------------------------------------------------------------------------
(* The buffers of the host, where the pool exists only with the pool of    *)
(* the device.                                                             *)
LEMMA HostCaller ==
  ASSUME TypeOK, HostInv, DeviceInv, ~DeviceMayFail, NEW c \in Callers, Caller(c)
  PROVE  HostInv'
<1> USE DEF poolVars, countVars, rmmVars, heapVars
<1>1. CASE Generate(c)
  BY <1>1, Frame DEF Generate
<1>2. CASE InitializeNothing(c)
  BY <1>2, Frame DEF InitializeNothing
<1>3. CASE InitializeWithoutPool(c)
  BY <1>3, Frame DEF InitializeWithoutPool
<1>4. CASE InitializePools(c)
  <2>1. hostPool = 0 /\ pooledHost = {}
    BY <1>4 DEF InitializePools, NeedsWork, DeviceInv, HostInv, TypeOK
  <2>2. /\ hostUsed' = 0 /\ devicePool' # 0
        /\ UNCHANGED <<pooledHost, source>>
    BY <1>4, PoolAssumption DEF InitializePools, MakeHostPool, MakeDevicePool, TypeOK
  <2>3. Cardinality({}) = 0
    BY FS_EmptySet
  <2>4. QED
    BY <2>1, <2>2, <2>3 DEF HostInv, HostBase, None, Resource
<1>5. CASE InitializeThrows(c)
  BY <1>5 DEF InitializeThrows
<1>6. CASE UseMemoryPool(c)
  BY <1>6, Frame DEF UseMemoryPool
<1>7. CASE SetAsRmmDefault(c)
  BY <1>7, Frame DEF SetAsRmmDefault
<1>8. CASE UnsetRmmDefault(c)
  BY <1>8, Frame DEF UnsetRmmDefault
<1>9. CASE InitializeGenerator(c)
  BY <1>9, Frame DEF InitializeGenerator
<1>10. CASE Release(c)
  <2>1. IsFiniteSet(pooledHost)
    BY FiniteCounts
  <2>2. pooledHost = {}
    BY <1>10, <2>1, FS_EmptySet DEF Release, InUse, HostInv, TypeOK
  <2>3. /\ hostPool' = 0 /\ pooledHost' = {} /\ source' = source
    BY <1>10 DEF Release
  <2>4. QED
    BY <2>2, <2>3 DEF HostInv, HostBase, None, Resource
<1>11. CASE ReleaseGenerator(c)
  BY <1>11, Frame DEF ReleaseGenerator
<1>12. QED
  BY <1>1, <1>2, <1>3, <1>4, <1>5, <1>6, <1>7, <1>8, <1>9, <1>10, <1>11 DEF Caller

LEMMA HostBuffers ==
  ASSUME TypeOK, HostInv, NEW b \in HostBlocks, HostAllocate(b) \/ HostDeallocate(b)
  PROVE  HostInv' /\ (lastFree' = lastFree \/ lastFree'.from = lastFree'.to)
<1>1. IsFiniteSet(pooledHost) /\ Cardinality(pooledHost) \in Nat
  BY FiniteCounts
<1>2. UNCHANGED <<hostPool, devicePool>>
  BY DEF HostAllocate, HostDeallocate, Outside, poolVars
<1>3. b \in Blocks /\ DOMAIN source = Blocks /\ HostBlocks \subseteq Blocks
  BY DEF Blocks, TypeOK
<1>4. CASE HostAllocate(b)
  <2>1. b \notin pooledHost
    BY <1>4 DEF HostAllocate, HostInv, HostPool, None, Resource
  <2>2. Cardinality(pooledHost \cup {b}) = Cardinality(pooledHost) + 1
    BY <1>1, <2>1, FS_AddElement
  <2>3. CASE usePool /\ hostPool # 0
    <3>1. /\ pooledHost' = pooledHost \cup {b} /\ hostUsed' = hostUsed + 1
          /\ source' = [source EXCEPT ![b] = HostPool] /\ lastFree' = lastFree
      BY <1>4, <2>3 DEF HostAllocate
    <3>2. hostUsed' = Cardinality(pooledHost')
      BY <1>1, <2>2, <2>3, <3>1 DEF HostInv
    <3>3. QED
      BY <1>2, <1>3, <2>3, <3>1, <3>2 DEF HostInv, HostPool, HostBase, None
  <2>4. CASE ~(usePool /\ hostPool # 0)
    <3>1. /\ UNCHANGED <<pooledHost, hostUsed, lastFree>>
          /\ source' = [source EXCEPT ![b] = HostBase]
      BY <1>4, <2>4 DEF HostAllocate
    <3>2. QED
      BY <1>2, <1>3, <2>1, <3>1 DEF HostInv, HostPool, HostBase, None
  <2>5. QED
    BY <2>3, <2>4
<1>5. CASE HostDeallocate(b)
  <2>1. CASE b \in pooledHost
    <3>1. /\ pooledHost' = pooledHost \ {b} /\ hostUsed' = hostUsed - 1
          /\ source' = [source EXCEPT ![b] = None]
          /\ lastFree' = [from |-> source[b], to |-> HostPool]
      BY <1>5, <2>1 DEF HostDeallocate, Freed, FromHostPool
    <3>2. source[b] = HostPool /\ hostPool # 0
      BY <2>1 DEF HostInv
    <3>3. Cardinality(pooledHost \ {b}) = Cardinality(pooledHost) - 1
      BY <1>1, <2>1, FS_RemoveElement
    <3>4. hostUsed' = Cardinality(pooledHost')
      BY <1>1, <3>1, <3>2, <3>3 DEF HostInv
    <3>5. QED
      BY <1>2, <1>3, <3>1, <3>2, <3>4 DEF HostInv, HostPool, HostBase, None
  <2>2. CASE b \notin pooledHost
    <3>1. /\ UNCHANGED <<pooledHost, hostUsed>>
          /\ source' = [source EXCEPT ![b] = None]
          /\ lastFree' = [from |-> source[b], to |-> HostBase]
      BY <1>5, <2>2 DEF HostDeallocate, Freed, FromHostPool
    <3>2. source[b] = HostBase
      BY <1>5, <2>2 DEF HostDeallocate, HostInv
    <3>3. QED
      BY <1>2, <1>3, <2>2, <3>1, <3>2 DEF HostInv, HostPool, HostBase, None
  <2>3. QED
    BY <2>1, <2>2
<1>6. QED
  BY <1>4, <1>5

(* A buffer of the one kind leaves what is known of the other alone.       *)
LEMMA OtherKind ==
  ASSUME TypeOK
  PROVE  /\ \A b \in HostBlocks :
              HostAllocate(b) \/ HostDeallocate(b) => (DeviceInv => DeviceInv')
         /\ \A b \in DeviceBlocks :
              Allocate(b) \/ Deallocate(b) => (HostInv => HostInv')
         /\ \A v \in Vectors :
              NewVector(v) \/ ResizeVector(v) \/ DestroyVector(v) => (HostInv => HostInv')
<1> USE PoolAssumption
<1>1. ASSUME NEW b \in HostBlocks, HostAllocate(b) \/ HostDeallocate(b), DeviceInv
      PROVE  DeviceInv'
  <2>1. /\ UNCHANGED <<devicePool, deviceMade, initialized, pooledDevice, deviceUsed, vector>>
        /\ \A d \in DeviceBlocks : source'[d] = source[d]
    BY <1>1 DEF HostAllocate, HostDeallocate, Freed, Outside, poolVars, Blocks, TypeOK
  <2>2. Filled(devicePool)' = Filled(devicePool)
    BY <2>1 DEF Filled
  <2>3. QED
    BY <1>1, <2>1, <2>2 DEF DeviceInv, DevicePool
<1>2. ASSUME NEW b \in DeviceBlocks, Allocate(b) \/ Deallocate(b), HostInv
      PROVE  HostInv'
  <2>1. /\ UNCHANGED <<hostPool, devicePool, pooledHost, hostUsed>>
        /\ \A h \in HostBlocks : source'[h] = source[h]
    BY <1>2 DEF Allocate, Deallocate, Freed, Outside, poolVars, Blocks, TypeOK
  <2>2. QED
    BY <1>2, <2>1 DEF HostInv, HostPool
<1>3. ASSUME NEW v \in Vectors, NewVector(v) \/ ResizeVector(v) \/ DestroyVector(v), HostInv
      PROVE  HostInv'
  BY <1>3 DEF NewVector, ResizeVector, DestroyVector, Outside, poolVars, HostInv, HostPool
<1>4. QED
  BY <1>1, <1>2, <1>3

-----------------------------------------------------------------------------
(* What holds whatever fails: what is known of the device, that the memory *)
(* of the host comes from the host, and what follows for the last buffer   *)
(* that was returned.                                                      *)

HostKinds == \A b \in HostBlocks : source[b].kind \in {"none", "hostBase", "hostPool"}

PoolInv == TypeOK /\ DeviceInv /\ HostKinds /\ DeviceReturnedToSource

LEMMA PoolInvInit == Init => PoolInv
<1> SUFFICES ASSUME Init PROVE PoolInv
  OBVIOUS
<1>1. TypeOK
  BY TypeInit
<1>2. \A b \in Blocks : source[b] = None
  BY DEF Init
<1>3. \A v \in Vectors : vector[v].resource = None
  BY DEF Init, NoVector
<1>4. None.kind = "none"
  BY DEF None, Resource
<1>5. DeviceInv
  BY <1>1, <1>2, <1>3, <1>4, PoolAssumption DEF Init, DeviceInv, Blocks, TypeOK
<1>6. HostKinds
  BY <1>2, <1>4 DEF HostKinds, Blocks
<1>7. DeviceReturnedToSource
  BY DEF Init, DeviceReturnedToSource
<1>8. QED
  BY <1>1, <1>5, <1>6, <1>7 DEF PoolInv

(* Steps that touch no buffer.                                             *)
LEMMA HeapUntouched ==
  ASSUME TypeOK, NEW c \in Callers, Caller(c)
  PROVE  UNCHANGED heapVars
BY DEF Caller, Generate, InitializeNothing, InitializeWithoutPool, InitializePools,
       InitializeThrows, UseMemoryPool, SetAsRmmDefault, UnsetRmmDefault,
       InitializeGenerator, Release, ReleaseGenerator

LEMMA PoolInvStep ==
  ASSUME PoolInv, [Next]_vars
  PROVE  PoolInv'
<1> USE DEF PoolInv
<1>1. TypeOK'
  BY TypeStep
<1>2. ASSUME NEW c \in Callers, Caller(c) PROVE PoolInv'
  <2>1. source' = source /\ lastFree' = lastFree
    BY <1>2, HeapUntouched DEF heapVars
  <2>2. QED
    BY <1>1, <1>2, <2>1, DeviceCaller DEF HostKinds, DeviceReturnedToSource
<1>3. ASSUME NEW b \in HostBlocks, HostAllocate(b) \/ HostDeallocate(b) PROVE PoolInv'
  <2>1. DeviceInv'
    BY <1>3, OtherKind
  <2>2. b \in Blocks /\ DOMAIN source = Blocks /\ HostBlocks \subseteq Blocks
    BY DEF Blocks, TypeOK
  <2>3. HostPool.kind = "hostPool" /\ HostBase.kind = "hostBase" /\ None.kind = "none"
    BY DEF HostPool, HostBase, None, Resource
  <2>4. HostKinds' /\ DeviceReturnedToSource'
    <3>1. CASE HostAllocate(b)
      BY <2>2, <2>3, <3>1 DEF HostAllocate, HostKinds, DeviceReturnedToSource
    <3>2. CASE HostDeallocate(b)
      BY <2>2, <2>3, <3>2 DEF HostDeallocate, Freed, FromHostPool, HostKinds, DeviceReturnedToSource
    <3>3. QED
      BY <1>3, <3>1, <3>2
  <2>5. QED
    BY <1>1, <2>1, <2>4
<1>4. ASSUME NEW b \in DeviceBlocks, Allocate(b) \/ Deallocate(b) PROVE PoolInv'
  <2>1. \A h \in HostBlocks : source'[h] = source[h]
    BY <1>4, PoolAssumption DEF Allocate, Deallocate, Freed, Blocks, TypeOK
  <2>2. QED
    BY <1>1, <1>4, <2>1, DeviceBuffers DEF HostKinds, DeviceReturnedToSource
<1>5. ASSUME NEW v \in Vectors, NewVector(v) \/ ResizeVector(v) \/ DestroyVector(v)
      PROVE  PoolInv'
  <2>1. UNCHANGED source
    BY <1>5 DEF NewVector, ResizeVector, DestroyVector
  <2>2. QED
    BY <1>1, <1>5, <2>1, DeviceVectors DEF HostKinds, DeviceReturnedToSource
<1>6. CASE SetDefaultElsewhere \/ UNCHANGED vars
  <2>1. UNCHANGED <<hostPool, devicePool, deviceMade, initialized, countVars, source, vector, lastFree>>
    BY <1>6 DEF SetDefaultElsewhere, vars, poolVars, heapVars
  <2>2. QED
    BY <1>1, <2>1, Frame DEF HostKinds, DeviceReturnedToSource
<1>7. QED
  BY <1>2, <1>3, <1>4, <1>5, <1>6 DEF Next

LEMMA PoolInvHolds == Spec => []PoolInv
BY PoolInvInit, PoolInvStep, PTL DEF Spec

(* Device buffers go back to the resource they came from, whatever fails.  *)
THEOREM DeviceBuffersReturned == Spec => []DeviceReturnedToSource
<1>1. PoolInv => DeviceReturnedToSource
  BY DEF PoolInv
<1>2. QED
  BY <1>1, PoolInvHolds, PTL

-----------------------------------------------------------------------------
(* Where the pools can be made, the host is as well off as the device.     *)

BothInv == PoolInv /\ HostInv /\ ReturnedToSource

LEMMA BothInvStep ==
  ASSUME ~DeviceMayFail, BothInv, [Next]_vars
  PROVE  BothInv'
<1> USE DEF BothInv
<1>1. PoolInv'
  BY PoolInvStep
<1>2. TypeOK /\ DeviceInv
  BY DEF PoolInv
<1>3. ASSUME NEW c \in Callers, Caller(c) PROVE BothInv'
  BY <1>1, <1>2, <1>3, HostCaller, HeapUntouched DEF heapVars, ReturnedToSource
<1>4. ASSUME NEW b \in HostBlocks, HostAllocate(b) \/ HostDeallocate(b) PROVE BothInv'
  BY <1>1, <1>2, <1>4, HostBuffers DEF ReturnedToSource
<1>5. ASSUME NEW b \in DeviceBlocks, Allocate(b) \/ Deallocate(b) PROVE BothInv'
  BY <1>1, <1>2, <1>5, DeviceBuffers, OtherKind DEF ReturnedToSource
<1>6. ASSUME NEW v \in Vectors, NewVector(v) \/ ResizeVector(v) \/ DestroyVector(v)
      PROVE  BothInv'
  BY <1>1, <1>2, <1>6, DeviceVectors, OtherKind DEF ReturnedToSource
<1>7. CASE SetDefaultElsewhere \/ UNCHANGED vars
  <2>1. UNCHANGED <<hostPool, devicePool, deviceMade, initialized, countVars, source, vector, lastFree>>
    BY <1>7 DEF SetDefaultElsewhere, vars, poolVars, heapVars
  <2>2. QED
    BY <1>1, <2>1, Frame DEF ReturnedToSource
<1>8. QED
  BY <1>3, <1>4, <1>5, <1>6, <1>7 DEF Next

LEMMA BothInvHolds ==
  ASSUME ~DeviceMayFail
  PROVE  Spec => []BothInv
<1>1. Init => BothInv
  <2> SUFFICES ASSUME Init PROVE BothInv
    OBVIOUS
  <2>1. \A b \in Blocks : source[b] = None
    BY DEF Init
  <2>2. HostInv
    BY <2>1 DEF Init, HostInv, Blocks
  <2>3. QED
    BY <2>2, PoolInvInit DEF Init, BothInv, ReturnedToSource
<1>2. BothInv /\ [Next]_vars => BothInv'
  BY BothInvStep
<1>3. QED
  BY <1>1, <1>2, PTL DEF Spec

(* Buffers are always returned to the resource they were allocated from.   *)
THEOREM BuffersReturned ==
  ASSUME ~DeviceMayFail
  PROVE  Spec => []ReturnedToSource
<1>1. BothInv => ReturnedToSource
  BY DEF BothInv
<1>2. QED
  BY <1>1, BothInvHolds, PTL

(* The counters of the pools count the memory that came from them.         *)
THEOREM UsageExact ==
  ASSUME ~DeviceMayFail
  PROVE  Spec => []UsageIsExact
<1>1. BothInv => UsageIsExact
  <2> SUFFICES ASSUME BothInv PROVE UsageIsExact
    OBVIOUS
  <2>1. TypeOK /\ DeviceInv /\ HostInv /\ HostKinds
    BY DEF BothInv, PoolInv
  <2>2. /\ HostPool # HostBase /\ HostPool # None /\ HostPool # DevicePool
        /\ DevicePool # DeviceBase /\ DevicePool # None /\ HostPool # DeviceBase
        /\ DevicePool.kind = "devicePool"
    BY DEF HostPool, HostBase, DevicePool, DeviceBase, None, Resource
  <2>3. pooledHost \subseteq HostBlocks /\ pooledDevice \subseteq DeviceBlocks
    BY <2>1 DEF TypeOK
  <2>4. Live(HostPool) = pooledHost
    BY <2>1, <2>2, <2>3 DEF Live, Blocks, DeviceInv, HostInv
  <2>5. Live(DevicePool) = pooledDevice
    BY <2>1, <2>2, <2>3 DEF Live, Blocks, DeviceInv, HostKinds
  <2>6. \A r \in Resources \cup {None} :
          r = DevicePool <=> r.kind = "devicePool" /\ r.id = devicePool
    BY DEF Resources, AppResources, HostBase, DeviceBase, DevicePool, None, Resource
  <2>7. \A v \in Vectors : vector[v].resource \in Resources \cup {None}
    BY <2>1 DEF TypeOK
  <2>8. {v \in Vectors : vector[v].resource = DevicePool /\ vector[v].bytes = 1}
          = Filled(devicePool)
    BY <2>6, <2>7 DEF Filled
  <2>9. QED
    BY <2>1, <2>4, <2>5, <2>8 DEF UsageIsExact, DeviceInv, HostInv
<1>2. QED
  BY <1>1, BothInvHolds, PTL

-----------------------------------------------------------------------------
(* Where shutdown() is called after the vectors are gone, every vector is  *)
(* of the current pool.                                                    *)

VectorsCurrent ==
  \A v \in Vectors :
    \/ vector[v].resource.kind \in {"none", "deviceBase"}
    \/ vector[v].resource.kind = "devicePool" /\ vector[v].resource.id = devicePool

AliveInv == PoolInv /\ VectorsCurrent

LEMMA AliveInvStep ==
  ASSUME ~EmptyVectorsStay, AliveInv, [Next]_vars
  PROVE  AliveInv'
<1>1. PoolInv'
  BY PoolInvStep DEF AliveInv
<1>2. TypeOK /\ DeviceInv /\ VectorsCurrent
  BY DEF AliveInv, PoolInv
<1> USE DEF AliveInv, VectorsCurrent
<1>3. ASSUME NEW c \in Callers, Caller(c) PROVE AliveInv'
  <2>1. vector' = vector
    BY <1>2, <1>3, HeapUntouched DEF heapVars
  <2>2. CASE InitializePools(c)
    <3>1. devicePool = 0
      BY <1>2, <2>2 DEF InitializePools, NeedsWork, DeviceInv
    <3>2. \A v \in Vectors : vector[v].resource.kind # "devicePool"
      BY <1>2, <3>1 DEF DeviceInv
    <3>3. QED
      BY <1>1, <2>1, <3>2
  <2>3. CASE Release(c)
    <3>1. devicePool # 0 => Filled(devicePool) = {}
      <4>1. IsFiniteSet(Filled(devicePool))
        BY <1>2, FiniteCounts
      <4>2. /\ Cardinality(pooledDevice) \in Nat /\ Cardinality(Filled(devicePool)) \in Nat
        BY <1>2, FiniteCounts
      <4>3. devicePool # 0 => Cardinality(Filled(devicePool)) = 0
        BY <1>2, <2>3, <4>2 DEF Release, InUse, DeviceInv
      <4>4. QED
        BY <4>1, <4>3, FS_EmptySet
    <3>2. ASSUME NEW v \in Vectors PROVE vector[v].resource.kind # "devicePool"
      <4>1. CASE vector[v].bytes = 0
        BY <2>3, <4>1 DEF Release, NoVector, None, Resource
      <4>2. CASE vector[v].bytes = 1
        <5>1. vector[v].resource.kind = "devicePool" => devicePool # 0
          BY <1>2 DEF DeviceInv
        <5>2. QED
          BY <1>2, <3>1, <4>2, <5>1 DEF Filled
      <4>3. QED
        BY <1>2, <4>1, <4>2 DEF TypeOK
    <3>3. QED
      BY <1>1, <2>1, <3>2
  <2>4. CASE ~(InitializePools(c) \/ Release(c))
    <3>1. devicePool' = devicePool
      BY <1>3, <2>4
      DEF Caller, Generate, InitializeNothing, InitializeWithoutPool, InitializeThrows,
          UseMemoryPool, SetAsRmmDefault, UnsetRmmDefault, InitializeGenerator,
          ReleaseGenerator, poolVars
    <3>2. QED
      BY <1>1, <1>2, <2>1, <3>1
  <2>5. QED
    BY <2>2, <2>3, <2>4
<1>4. ASSUME NEW b \in Blocks,
             HostAllocate(b) \/ HostDeallocate(b) \/ Allocate(b) \/ Deallocate(b)
      PROVE  AliveInv'
  BY <1>1, <1>2, <1>4
  DEF HostAllocate, HostDeallocate, Allocate, Deallocate, Outside, poolVars
<1>5. ASSUME NEW v \in Vectors, NewVector(v) \/ ResizeVector(v) \/ DestroyVector(v)
      PROVE  AliveInv'
  <2>1. DOMAIN vector = Vectors /\ devicePool' = devicePool
    BY <1>2, <1>5 DEF NewVector, ResizeVector, DestroyVector, Outside, poolVars, TypeOK
  <2>2. \/ DeviceResource.kind = "deviceBase"
        \/ DeviceResource.kind = "devicePool" /\ DeviceResource.id = devicePool
    BY DEF DeviceResource, ResourceWhen, DevicePool, DeviceBase, Resource
  <2>3. CASE NewVector(v)
    BY <1>1, <1>2, <2>1, <2>2, <2>3 DEF NewVector
  <2>4. CASE ResizeVector(v)
    <3>1. PICK n \in 0..1 : vector' = [vector EXCEPT ![v].bytes = n]
      BY <2>4 DEF ResizeVector
    <3>2. \A u \in Vectors : vector'[u].resource = vector[u].resource
      BY <1>2, <3>1 DEF TypeOK
    <3>3. QED
      BY <1>1, <1>2, <2>1, <3>2
  <2>5. CASE DestroyVector(v)
    BY <1>1, <1>2, <2>1, <2>5 DEF DestroyVector, NoVector, None, Resource
  <2>6. QED
    BY <1>5, <2>3, <2>4, <2>5
<1>6. CASE SetDefaultElsewhere \/ UNCHANGED vars
  BY <1>1, <1>2, <1>6 DEF SetDefaultElsewhere, vars, poolVars, heapVars
<1>7. QED
  BY <1>3, <1>4, <1>5, <1>6 DEF Next, Blocks

(* Memory in use keeps its pool, whatever is generated, released and       *)
(* started again in between.                                               *)
THEOREM MemoryStaysAlive ==
  ASSUME ~EmptyVectorsStay
  PROVE  Spec => []DeviceMemoryAlive
<1>1. Init => AliveInv
  <2>1. Init => VectorsCurrent
    BY DEF Init, VectorsCurrent, NoVector, None, Resource
  <2>2. QED
    BY <2>1, PoolInvInit DEF AliveInv
<1>2. AliveInv /\ [Next]_vars => AliveInv'
  BY AliveInvStep
<1>3. AliveInv => DeviceMemoryAlive
  <2> SUFFICES ASSUME AliveInv PROVE DeviceMemoryAlive
    OBVIOUS
  <2>1. \A b \in DeviceBlocks : source[b] \in {DevicePool, DeviceBase, None}
    BY DEF AliveInv, PoolInv, DeviceInv
  <2>2. Alive(DevicePool) /\ Alive(DeviceBase) /\ Alive(None)
    BY DEF Alive, DevicePool, DeviceBase, None, Resource
  <2>3. \A v \in Vectors : vector[v].bytes # 0 => Alive(vector[v].resource)
    <3>1. TAKE v \in Vectors
    <3>2. HAVE vector[v].bytes # 0
    <3>3. QED
      BY DEF AliveInv, VectorsCurrent, Alive
  <2>4. QED
    BY <2>1, <2>2, <2>3 DEF DeviceMemoryAlive
<1>4. QED
  BY <1>1, <1>2, <1>3, PTL DEF Spec

-----------------------------------------------------------------------------
(* The RMM default.                                                        *)

(* Calls that turn the pool on find it, or have made it, before they do;   *)
(* so the resource HEonGPU allocates from does not change under a default  *)
(* that HEonGPU has set, except in the step that sets it again.            *)
DefaultInv ==
  /\ \A c \in Callers : pc[c] = "use" /\ config[c].pool => devicePool # 0
  /\ \A c \in Callers : pc[c] = "default" /\ usePool => devicePool # 0
  /\ previous # None /\ usePool => devicePool # 0
  /\ previous \in AppResources \cup {None}
  /\ previous = None => rmmDefault \in AppResources
  /\ \/ rmmDefault \in AppResources \cup {DeviceBase}
     \/ rmmDefault = DevicePool /\ devicePool # 0
  /\ ~AppSetsDefault /\ previous # None => rmmDefault = DeviceResource

SetInv == PoolInv /\ DefaultInv

LEMMA ResourcesDiffer ==
  /\ None \notin AppResources
  /\ \A r \in AppResources : r.kind = "app"
  /\ DeviceBase.kind = "deviceBase" /\ None.kind = "none"
  /\ DevicePool.kind = "devicePool" /\ DevicePool.id = devicePool
BY DEF AppResources, None, DeviceBase, DevicePool, Resource

LEMMA SetInvStep ==
  ASSUME SetInv, [Next]_vars
  PROVE  SetInv'
<1>1. PoolInv'
  BY PoolInvStep DEF SetInv
<1>2. TypeOK /\ DefaultInv /\ (~initialized => devicePool = 0)
  BY DEF SetInv, PoolInv, DeviceInv
<1>3. SUFFICES DefaultInv'
  BY <1>1 DEF SetInv
<1>4. ASSUME NEW c \in Callers, Caller(c) PROVE DefaultInv'
  <2>1. pc \in [Callers -> {"idle", "initialize", "use", "default", "generator", "release"}]
        /\ config \in [Callers -> Configs]
    BY <1>2 DEF TypeOK
  <2>2. CASE Generate(c)
    BY <1>2, <2>1, <2>2
    DEF Generate, Go, DefaultInv, poolVars, rmmVars, DeviceResource, ResourceWhen, DevicePool
  <2>3. CASE InitializeNothing(c)
    BY <1>2, <2>1, <2>3
    DEF InitializeNothing, NeedsWork, Go, DefaultInv, poolVars, rmmVars, DeviceResource,
        ResourceWhen, DevicePool
  <2>4. CASE InitializeWithoutPool(c)
    BY <1>2, <2>1, <2>4
    DEF InitializeWithoutPool, Go, DefaultInv, rmmVars, DeviceResource, ResourceWhen, DevicePool
  <2>5. CASE InitializePools(c)
    <3>1. devicePool = 0 /\ devicePool' # 0
      BY <1>2, <2>5 DEF InitializePools, NeedsWork, MakeDevicePool, TypeOK
    <3>2. UNCHANGED <<config, usePool, rmmDefault, previous>> /\ pc' = [pc EXCEPT ![c] = "use"]
      BY <2>5 DEF InitializePools, Go, rmmVars
    <3>3. QED
      BY <1>2, <2>1, <3>1, <3>2 DEF DefaultInv, DeviceResource, ResourceWhen
  <2>6. CASE InitializeThrows(c)
    BY <1>2, <2>1, <2>6
    DEF InitializeThrows, Go, DefaultInv, rmmVars, DeviceResource, ResourceWhen, DevicePool
  <2>7. CASE UseMemoryPool(c)
    <3>1. /\ pc[c] = "use" /\ usePool' = config[c].pool /\ pc' = [pc EXCEPT ![c] = "default"]
          /\ rmmDefault' = IF previous # None THEN ResourceWhen(usePool') ELSE rmmDefault
          /\ UNCHANGED <<config, devicePool, previous>>
      BY <2>7 DEF UseMemoryPool, Go
    <3>2. usePool' => devicePool # 0
      BY <1>2, <3>1 DEF DefaultInv
    <3>3. DeviceResource' = ResourceWhen(usePool') /\ DevicePool' = DevicePool
      BY <3>1 DEF DeviceResource, ResourceWhen, DevicePool
    <3>4. ResourceWhen(usePool') \in {DeviceBase, DevicePool}
          /\ (devicePool = 0 => ResourceWhen(usePool') = DeviceBase)
      BY DEF ResourceWhen
    <3>5. QED
      BY <1>2, <2>1, <3>1, <3>2, <3>3, <3>4 DEF DefaultInv
  <2>8. CASE SetAsRmmDefault(c)
    <3>1. /\ pc[c] = "default" /\ pc' = [pc EXCEPT ![c] = "generator"]
          /\ rmmDefault' = DeviceResource
          /\ previous' = IF previous = None THEN rmmDefault ELSE previous
          /\ UNCHANGED <<config, devicePool, usePool>>
      BY <2>8 DEF SetAsRmmDefault, FirstDefault, Go, poolVars
    <3>2. DeviceResource' = DeviceResource /\ DevicePool' = DevicePool
      BY <3>1 DEF DeviceResource, ResourceWhen, DevicePool
    <3>3. DeviceResource = DeviceBase \/ (DeviceResource = DevicePool /\ devicePool # 0)
      BY DEF DeviceResource, ResourceWhen
    <3>4. QED
      BY <1>2, <2>1, <3>1, <3>2, <3>3, ResourcesDiffer DEF DefaultInv
  <2>9. CASE UnsetRmmDefault(c)
    <3>1. /\ pc' = [pc EXCEPT ![c] = "generator"] /\ UNCHANGED <<config, devicePool, usePool>>
          /\ RestoreRmmDefault
      BY <2>9 DEF UnsetRmmDefault, Go, poolVars
    <3>2. previous' = None /\ rmmDefault' \in AppResources
      BY <1>2, <3>1 DEF RestoreRmmDefault, DefaultInv, rmmVars
    <3>3. QED
      BY <1>2, <2>1, <3>1, <3>2 DEF DefaultInv
  <2>10. CASE InitializeGenerator(c)
    BY <1>2, <2>1, <2>10
    DEF InitializeGenerator, Go, DefaultInv, poolVars, rmmVars, DeviceResource, ResourceWhen,
        DevicePool
  <2>11. CASE Release(c)
    <3>1. \A d \in Callers : pc'[d] \in {"idle", "release"}
      BY <2>1, <2>11 DEF Release, Go
    <3>2. previous' = None /\ rmmDefault' \in AppResources
      BY <1>2, <2>11 DEF Release, RestoreRmmDefault, DefaultInv, rmmVars
    <3>3. QED
      BY <3>1, <3>2 DEF DefaultInv
  <2>12. CASE ReleaseGenerator(c)
    BY <1>2, <2>1, <2>12
    DEF ReleaseGenerator, Go, DefaultInv, poolVars, rmmVars, DeviceResource, ResourceWhen,
        DevicePool
  <2>13. QED
    BY <1>4, <2>2, <2>3, <2>4, <2>5, <2>6, <2>7, <2>8, <2>9, <2>10, <2>11, <2>12 DEF Caller
<1>5. CASE SetDefaultElsewhere
  BY <1>2, <1>5
  DEF SetDefaultElsewhere, DefaultInv, callVars, poolVars, DeviceResource, ResourceWhen, DevicePool
<1>6. CASE UNCHANGED <<callVars, poolVars, rmmVars>>
  BY <1>2, <1>6
  DEF DefaultInv, callVars, poolVars, rmmVars, DeviceResource, ResourceWhen, DevicePool
<1>7. ASSUME NEW b \in Blocks,
             HostAllocate(b) \/ HostDeallocate(b) \/ Allocate(b) \/ Deallocate(b)
      PROVE  DefaultInv'
  BY <1>6, <1>7 DEF HostAllocate, HostDeallocate, Allocate, Deallocate, Outside
<1>8. ASSUME NEW v \in Vectors, NewVector(v) \/ ResizeVector(v) \/ DestroyVector(v)
      PROVE  DefaultInv'
  BY <1>6, <1>8 DEF NewVector, ResizeVector, DestroyVector, Outside
<1>9. CASE UNCHANGED vars
  BY <1>6, <1>9 DEF vars
<1>10. QED
  BY <1>4, <1>5, <1>7, <1>8, <1>9 DEF Next, Blocks

LEMMA SetInvHolds == Spec => []SetInv
<1>1. Init => SetInv
  <2>1. Init => DefaultInv
    BY DEF Init, DefaultInv, AppResources
  <2>2. QED
    BY <2>1, PoolInvInit DEF SetInv
<1>2. QED
  BY <1>1, SetInvStep, PTL DEF Spec

(* The process never allocates from an RMM default that is gone, even when *)
(* the application sets defaults of its own and the device pool cannot     *)
(* always be made.                                                         *)
THEOREM DefaultStaysAlive == Spec => []DefaultAlive
<1>1. SetInv => DefaultAlive
  BY ResourcesDiffer DEF SetInv, DefaultInv, DefaultAlive, Alive
<1>2. QED
  BY <1>1, SetInvHolds, PTL

(* While HEonGPU has replaced the default, it is the resource HEonGPU      *)
(* allocates from, and what it will restore is the application's, unless   *)
(* the application sets the default again.                                 *)
THEOREM DefaultIsFollowed ==
  ASSUME ~AppSetsDefault
  PROVE  Spec => []DefaultFollowsPool
<1>1. SetInv => DefaultFollowsPool
  BY DEF SetInv, DefaultInv, DefaultFollowsPool
<1>2. QED
  BY <1>1, SetInvHolds, PTL

=============================================================================
