SPECIFICATION Spec
CONSTANTS
  Callers = {c1, c2}
  HostBlocks = {h1}
  DeviceBlocks = {d1}
  Vectors = {v1}
  PoolLimit = 2
  DeviceMayFail = FALSE
  AppSetsDefault = FALSE
  EmptyVectorsStay = FALSE
SYMMETRY Symmetry
INVARIANTS
  TypeOK
  ReturnedToSource
  UsageIsExact
  DefaultFollowsPool
  DeviceMemoryAlive
