SPECIFICATION Spec
CONSTANTS
  Callers = {c1}
  HostBlocks = {h1}
  DeviceBlocks = {d1}
  Vectors = {v1}
  PoolLimit = 3
  DeviceMayFail = TRUE
  AppSetsDefault = TRUE
  EmptyVectorsStay = TRUE
SYMMETRY Symmetry
INVARIANTS
  DeviceReturnedToSource
  DefaultAlive
