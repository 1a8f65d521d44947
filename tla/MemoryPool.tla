----------------------------- MODULE MemoryPool -----------------------------
(***************************************************************************)
(* The process-wide memory pool (src/lib/util/memorypool.cu) with the      *)
(* calls that set it up and release it (src/lib/util/runtime.cu).  Each    *)
(* operation of the pool runs under its mutex and is one action; the       *)
(* initialization of a context is four operations, and other threads       *)
(* allocate between them.                                                  *)
(*                                                                         *)
(* Host and device buffers are returned through the pool, which remembers  *)
(* which of them it gave out.  A DeviceVector keeps a reference to the     *)
(* device resource it was made with and uses it for as long as it lives.   *)
(***************************************************************************)
EXTENDS Integers, FiniteSets

CONSTANTS
  Callers,        \* the threads that generate contexts
  HostBlocks,     \* host buffers
  DeviceBlocks,   \* device buffers of MemoryPool::allocate
  Vectors,        \* DeviceVector objects
  PoolLimit,      \* bound: how many pools of each kind a process makes
  DeviceMayFail,  \* the device pool may not be created, for its sizes or
                  \* for want of memory
  AppSetsDefault, \* the application changes the RMM default as well
  EmptyVectorsStay \* it calls shutdown() while vectors without memory exist

ASSUME PoolAssumption ==
  /\ IsFiniteSet(HostBlocks)
  /\ IsFiniteSet(DeviceBlocks)
  /\ HostBlocks \cap DeviceBlocks = {}
  /\ IsFiniteSet(Vectors)
  /\ PoolLimit \in Nat \ {0}
  /\ DeviceMayFail \in BOOLEAN
  /\ AppSetsDefault \in BOOLEAN
  /\ EmptyVectorsStay \in BOOLEAN

VARIABLES
  pc,             \* the next operation of each caller
  config,         \* the MemoryPoolConfig of each caller
  initialized,    \* initialized_
  usePool,        \* use_pool_
  hostPool,       \* host_pool_ and host_stats_adaptor_, 0 for none
  devicePool,     \* device_pool_ and device_stats_adaptor_, 0 for none
  hostUsed,       \* the buffers host_stats_adaptor_ counts
  deviceUsed,     \* the buffers device_stats_adaptor_ counts
  pooledHost,     \* pooled_host_allocations_
  pooledDevice,   \* pooled_device_allocations_
  rmmDefault,     \* the default resource of RMM
  previous,       \* previous_rmm_default_
  generator,      \* the random number generator exists
  source,         \* the resource each live buffer was allocated from
  vector,         \* the resource and the size of each live DeviceVector
  lastFree,       \* where the last buffer came from and where it went
  hostMade,       \* host pools made so far
  deviceMade      \* device pools made so far

poolVars  == <<initialized, usePool, hostPool, devicePool, hostMade, deviceMade>>
countVars == <<hostUsed, deviceUsed, pooledHost, pooledDevice>>
rmmVars   == <<rmmDefault, previous>>
heapVars  == <<source, vector, lastFree>>
callVars  == <<pc, config>>
vars == <<callVars, poolVars, countVars, rmmVars, generator, heapVars>>

Blocks == HostBlocks \cup DeviceBlocks

(* The resources memory comes from: the base resources, which are kept     *)
(* once made, the pools in the order they are made, and those of the       *)
(* application.                                                            *)
Resource(kind, id) == [kind |-> kind, id |-> id]

HostBase   == Resource("hostBase", 0)
DeviceBase == Resource("deviceBase", 0)
HostPool   == Resource("hostPool", hostPool)
DevicePool == Resource("devicePool", devicePool)
None       == Resource("none", 0)

AppResources == {Resource("app", i) : i \in 0..1}

Resources ==
  {HostBase, DeviceBase} \cup AppResources
    \cup {Resource(kind, i) : kind \in {"hostPool", "devicePool"}, i \in 0..PoolLimit}

NoVector == [resource |-> None, bytes |-> 0]

(* device_resource()                                                       *)
ResourceWhen(use) == IF use /\ devicePool # 0 THEN DevicePool ELSE DeviceBase

DeviceResource == ResourceWhen(usePool)

Configs == [pool : BOOLEAN, asDefault : BOOLEAN]

Go(c, label) == pc' = [pc EXCEPT ![c] = label]

-----------------------------------------------------------------------------

Init ==
  /\ pc = [c \in Callers |-> "idle"]
  /\ config = [c \in Callers |-> [pool |-> TRUE, asDefault |-> FALSE]]
  /\ initialized = FALSE
  /\ usePool = TRUE
  /\ hostPool = 0
  /\ devicePool = 0
  /\ hostUsed = 0
  /\ deviceUsed = 0
  /\ pooledHost = {}
  /\ pooledDevice = {}
  /\ rmmDefault = Resource("app", 0)
  /\ previous = None
  /\ generator = FALSE
  /\ source = [b \in Blocks |-> None]
  /\ vector = [v \in Vectors |-> NoVector]
  /\ lastFree = [from |-> None, to |-> None]
  /\ hostMade = 0
  /\ deviceMade = 0

(* generate() of a context, or heongpu::initialize.                        *)
Generate(c) ==
  /\ pc[c] = "idle"
  /\ \A d \in Callers : pc[d] # "release"
  /\ \E f \in Configs : config' = [config EXCEPT ![c] = f]
  /\ Go(c, "initialize")
  /\ UNCHANGED <<poolVars, countVars, rmmVars, generator, heapVars>>

(* MemoryPool::initialize.  The pools are made by the first call that asks *)
(* for them, the host pool before the sizes of the device pool are known.  *)
NeedsWork(c) == ~initialized \/ (config[c].pool /\ devicePool = 0)

InitializeNothing(c) ==
  /\ pc[c] = "initialize"
  /\ ~NeedsWork(c)
  /\ Go(c, "use")
  /\ UNCHANGED <<config, poolVars, countVars, rmmVars, generator, heapVars>>

InitializeWithoutPool(c) ==
  /\ pc[c] = "initialize"
  /\ NeedsWork(c)
  /\ ~config[c].pool
  /\ initialized' = TRUE
  /\ Go(c, "use")
  /\ UNCHANGED <<config, usePool, hostPool, devicePool, hostMade, deviceMade,
                 countVars, rmmVars, generator, heapVars>>

(* The new adaptor counts from zero; the sets of buffers are not touched.  *)
MakeHostPool ==
  /\ hostMade < PoolLimit
  /\ hostMade' = hostMade + 1
  /\ hostPool' = hostMade'
  /\ hostUsed' = 0

MakeDevicePool ==
  /\ deviceMade < PoolLimit
  /\ deviceMade' = deviceMade + 1
  /\ devicePool' = deviceMade'
  /\ deviceUsed' = 0

InitializePools(c) ==
  /\ pc[c] = "initialize"
  /\ NeedsWork(c)
  /\ config[c].pool
  /\ MakeHostPool
  /\ MakeDevicePool
  /\ initialized' = TRUE
  /\ Go(c, "use")
  /\ UNCHANGED <<config, usePool, pooledHost, pooledDevice, rmmVars, generator,
                 heapVars>>

(* An exception after the host pool exists leaves it there.                *)
InitializeThrows(c) ==
  /\ DeviceMayFail
  /\ pc[c] = "initialize"
  /\ NeedsWork(c)
  /\ config[c].pool
  /\ MakeHostPool
  /\ Go(c, "idle")
  /\ UNCHANGED <<config, initialized, usePool, devicePool, deviceMade,
                 deviceUsed, pooledHost, pooledDevice, rmmVars, generator,
                 heapVars>>

(* MemoryPool::use_memory_pool                                             *)
UseMemoryPool(c) ==
  /\ pc[c] = "use"
  /\ usePool' = config[c].pool
  /\ rmmDefault' = IF previous # None THEN ResourceWhen(usePool') ELSE rmmDefault
  /\ Go(c, "default")
  /\ UNCHANGED <<config, initialized, hostPool, devicePool, hostMade,
                 deviceMade, countVars, previous, generator, heapVars>>

(* Mutant: every call remembers the default it replaces.                   *)
LastDefault == rmmDefault

(* The default from before HEonGPU first replaced it is the one that is    *)
(* kept.                                                                   *)
FirstDefault == IF previous = None THEN rmmDefault ELSE previous

(* MemoryPool::set_as_rmm_default                                          *)
SetAsRmmDefault(c) ==
  /\ pc[c] = "default"
  /\ config[c].asDefault
  /\ rmmDefault' = DeviceResource
  /\ previous' = FirstDefault
  /\ Go(c, "generator")
  /\ UNCHANGED <<config, poolVars, countVars, generator, heapVars>>

(* Mutant: the default is left to a pool that goes away.                   *)
ForgetRmmDefault == UNCHANGED rmmVars

RestoreRmmDefault ==
  IF previous # None
  THEN /\ rmmDefault' = previous
       /\ previous' = None
  ELSE UNCHANGED rmmVars

UnsetRmmDefault(c) ==
  /\ pc[c] = "default"
  /\ ~config[c].asDefault
  /\ RestoreRmmDefault
  /\ Go(c, "generator")
  /\ UNCHANGED <<config, poolVars, countVars, generator, heapVars>>

InitializeGenerator(c) ==
  /\ pc[c] = "generator"
  /\ generator' = TRUE
  /\ Go(c, "idle")
  /\ UNCHANGED <<config, poolVars, countVars, rmmVars, heapVars>>

(* Mutant: the buffers of the device are not looked at.                    *)
HostInUse == hostPool # 0 /\ hostUsed # 0

(* MemoryPool::release, which shutdown() calls while no other thread uses  *)
(* HEonGPU; it throws and changes nothing while the pools are in use.      *)
InUse ==
  \/ hostPool # 0 /\ hostUsed # 0
  \/ devicePool # 0 /\ deviceUsed # 0

Release(c) ==
  /\ \A d \in Callers : pc[d] = "idle"
  /\ ~InUse
  /\ EmptyVectorsStay \/ \A v \in Vectors : vector[v].bytes = 0 => vector[v] = NoVector
  /\ RestoreRmmDefault
  /\ hostPool' = 0
  /\ devicePool' = 0
  /\ hostUsed' = 0
  /\ deviceUsed' = 0
  /\ pooledHost' = {}
  /\ pooledDevice' = {}
  /\ initialized' = FALSE
  /\ usePool' = TRUE
  /\ Go(c, "release")
  /\ UNCHANGED <<config, hostMade, deviceMade, generator, heapVars>>

ReleaseGenerator(c) ==
  /\ pc[c] = "release"
  /\ generator' = FALSE
  /\ Go(c, "idle")
  /\ UNCHANGED <<config, poolVars, countVars, rmmVars, heapVars>>

-----------------------------------------------------------------------------
(* Buffers.                                                                *)

Outside == UNCHANGED <<callVars, poolVars, rmmVars, generator>>

(* host_allocate                                                           *)
HostAllocate(b) ==
  /\ source[b] = None
  /\ IF usePool /\ hostPool # 0
     THEN /\ source' = [source EXCEPT ![b] = HostPool]
          /\ pooledHost' = pooledHost \cup {b}
          /\ hostUsed' = hostUsed + 1
     ELSE /\ source' = [source EXCEPT ![b] = HostBase]
          /\ UNCHANGED <<pooledHost, hostUsed>>
  /\ Outside
  /\ UNCHANGED <<deviceUsed, pooledDevice, vector, lastFree>>

Freed(b, to) ==
  /\ source' = [source EXCEPT ![b] = None]
  /\ lastFree' = [from |-> source[b], to |-> to]

(* Mutants: a buffer goes where a new one would come from.                 *)
HostPoolInUse(b)   == usePool /\ hostPool # 0
DevicePoolInUse(b) == usePool /\ devicePool # 0

(* Whether the pool gave the buffer out.                                   *)
FromHostPool(b)   == b \in pooledHost
FromDevicePool(b) == b \in pooledDevice

(* host_deallocate                                                         *)
HostDeallocate(b) ==
  /\ source[b] # None
  /\ IF FromHostPool(b)
     THEN /\ Freed(b, HostPool)
          /\ pooledHost' = pooledHost \ {b}
          /\ hostUsed' = hostUsed - 1
     ELSE /\ Freed(b, HostBase)
          /\ UNCHANGED <<pooledHost, hostUsed>>
  /\ Outside
  /\ UNCHANGED <<deviceUsed, pooledDevice, vector>>

(* Mutant: the buffer is remembered among those of the host.               *)
AllocateAmongHost(b) ==
  /\ source[b] = None
  /\ source' = [source EXCEPT ![b] = DeviceResource]
  /\ IF usePool /\ devicePool # 0
     THEN /\ pooledHost' = pooledHost \cup {b}
          /\ deviceUsed' = deviceUsed + 1
     ELSE UNCHANGED <<pooledHost, deviceUsed>>
  /\ Outside
  /\ UNCHANGED <<hostUsed, pooledDevice, vector, lastFree>>

(* allocate                                                                *)
Allocate(b) ==
  /\ source[b] = None
  /\ source' = [source EXCEPT ![b] = DeviceResource]
  /\ IF usePool /\ devicePool # 0
     THEN /\ pooledDevice' = pooledDevice \cup {b}
          /\ deviceUsed' = deviceUsed + 1
     ELSE UNCHANGED <<pooledDevice, deviceUsed>>
  /\ Outside
  /\ UNCHANGED <<hostUsed, pooledHost, vector, lastFree>>

(* deallocate                                                              *)
Deallocate(b) ==
  /\ source[b] # None
  /\ IF FromDevicePool(b)
     THEN /\ Freed(b, DevicePool)
          /\ pooledDevice' = pooledDevice \ {b}
          /\ deviceUsed' = deviceUsed - 1
     ELSE /\ Freed(b, DeviceBase)
          /\ UNCHANGED <<pooledDevice, deviceUsed>>
  /\ Outside
  /\ UNCHANGED <<hostUsed, pooledHost, vector>>

(* A DeviceVector goes past allocate and deallocate, to the adaptor of its *)
(* resource, which counts what it holds.                                   *)
Counted(r, before, after) ==
  deviceUsed' = IF r.kind = "devicePool" /\ r.id = devicePool
                THEN deviceUsed - before + after ELSE deviceUsed

NewVector(v) ==
  /\ vector[v] = NoVector
  /\ \E n \in 0..1 :
       /\ vector' = [vector EXCEPT ![v] = [resource |-> DeviceResource, bytes |-> n]]
       /\ Counted(DeviceResource, 0, n)
  /\ Outside
  /\ UNCHANGED <<hostUsed, pooledHost, pooledDevice, source, lastFree>>

ResizeVector(v) ==
  /\ vector[v] # NoVector
  /\ \E n \in 0..1 :
       /\ vector' = [vector EXCEPT ![v].bytes = n]
       /\ Counted(vector[v].resource, vector[v].bytes, n)
  /\ Outside
  /\ UNCHANGED <<hostUsed, pooledHost, pooledDevice, source, lastFree>>

DestroyVector(v) ==
  /\ vector[v] # NoVector
  /\ vector' = [vector EXCEPT ![v] = NoVector]
  /\ Counted(vector[v].resource, vector[v].bytes, 0)
  /\ Outside
  /\ UNCHANGED <<hostUsed, pooledHost, pooledDevice, source, lastFree>>

(* Other code of the process sets the RMM default.                         *)
SetDefaultElsewhere ==
  /\ AppSetsDefault
  /\ \E r \in AppResources : rmmDefault' = r
  /\ UNCHANGED <<callVars, poolVars, countVars, previous, generator, heapVars>>

-----------------------------------------------------------------------------

Caller(c) ==
  \/ Generate(c)
  \/ InitializeNothing(c) \/ InitializeWithoutPool(c)
  \/ InitializePools(c) \/ InitializeThrows(c)
  \/ UseMemoryPool(c) \/ SetAsRmmDefault(c) \/ UnsetRmmDefault(c)
  \/ InitializeGenerator(c)
  \/ Release(c) \/ ReleaseGenerator(c)

Next ==
  \/ \E c \in Callers : Caller(c)
  \/ \E b \in HostBlocks : HostAllocate(b) \/ HostDeallocate(b)
  \/ \E b \in DeviceBlocks : Allocate(b) \/ Deallocate(b)
  \/ \E v \in Vectors : NewVector(v) \/ ResizeVector(v) \/ DestroyVector(v)
  \/ SetDefaultElsewhere

Spec == Init /\ [][Next]_vars

-----------------------------------------------------------------------------
(* Properties.                                                             *)

(* A resource memory can be taken from and returned to.                    *)
Alive(r) ==
  /\ r.kind = "hostPool" => r.id = hostPool
  /\ r.kind = "devicePool" => r.id = devicePool

Live(r) == {b \in Blocks : source[b] = r}

(* Type correctness of the pool, of the callers and of the heap.           *)
TypeOK ==
  /\ pc \in [Callers -> {"idle", "initialize", "use", "default", "generator", "release"}]
  /\ config \in [Callers -> Configs]
  /\ initialized \in BOOLEAN
  /\ usePool \in BOOLEAN
  /\ hostPool \in 0..PoolLimit
  /\ devicePool \in 0..PoolLimit
  /\ hostMade \in 0..PoolLimit
  /\ deviceMade \in 0..PoolLimit
  /\ hostUsed \in Int
  /\ deviceUsed \in Int
  /\ pooledHost \in SUBSET HostBlocks
  /\ pooledDevice \in SUBSET DeviceBlocks
  /\ rmmDefault \in Resources
  /\ previous \in Resources \cup {None}
  /\ generator \in BOOLEAN
  /\ source \in [Blocks -> Resources \cup {None}]
  /\ vector \in [Vectors -> [resource : Resources \cup {None}, bytes : 0..1]]
  /\ lastFree \in [from : Resources \cup {None}, to : Resources \cup {None}]

(* Buffers are always returned to the resource they were allocated from,   *)
(* whatever configurations and shutdowns came in between.                  *)
ReturnedToSource == lastFree.from = lastFree.to

(* The same for the buffers of the device alone.                           *)
DeviceReturnedToSource ==
  lastFree.from.kind \in {"deviceBase", "devicePool"} => lastFree.from = lastFree.to

(* Memory in use keeps its pool: no buffer and no vector with memory ever  *)
(* outlives the device pool it came from, and shutdown() is refused for as *)
(* long as the counters of the pool say so.                                *)
DeviceMemoryAlive ==
  /\ \A b \in DeviceBlocks : Alive(source[b])
  /\ \A v \in Vectors : vector[v].bytes # 0 => Alive(vector[v].resource)

(* The statistics the usage functions and shutdown() rely on count exactly *)
(* the memory that came from the current pools.                            *)
UsageIsExact ==
  /\ hostPool # 0 => hostUsed = Cardinality(Live(HostPool))
  /\ devicePool # 0 =>
       deviceUsed = Cardinality(Live(DevicePool))
                    + Cardinality({v \in Vectors : vector[v].resource = DevicePool
                                                   /\ vector[v].bytes = 1})

(* While HEonGPU has replaced the RMM default, the default is the resource *)
(* HEonGPU itself allocates from, as one context after another turns the   *)
(* pool on and off; and what it will restore is not its own.               *)
DefaultFollowsPool ==
  previous # None => rmmDefault = DeviceResource /\ previous \in AppResources

(* The process never allocates from an RMM default that is gone.           *)
DefaultAlive == Alive(rmmDefault)

=============================================================================
