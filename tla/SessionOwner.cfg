SPECIFICATION Spec
CONSTANTS
  Threads = {t1, t2, t3}
  Steps = {s1, s2}
  MadeOf <- Multiples
  MayFail = FALSE
  MayMove = FALSE
  WritersFirst = FALSE
  NoThread = NoThread
  Conjugation = Conjugation
SYMMETRY Symmetry
INVARIANTS
  RotationHasKey
  SavedKeyIsWhole
PROPERTIES
  KeepsPromise
