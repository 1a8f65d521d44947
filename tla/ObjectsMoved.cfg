SPECIFICATION Spec
CHECK_DEADLOCK FALSE
CONSTANTS
  Names = {A, B}
  Messages = {m1, m2}
  Contexts = {c1, c2}
  NoContext = NoContext
  Kinds <- AllKinds
  NoArchive = NoArchive
SYMMETRY Symmetry
INVARIANTS
  WholeObjects
  HostMemoryOutlivesItsCopy
  NeverHalfLoaded
