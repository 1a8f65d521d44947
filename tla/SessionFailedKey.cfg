SPECIFICATION Spec
CONSTANTS
  Threads = {t1, t2}
  Steps = {s1, s2}
  MadeOf <- Multiples
  MayFail = TRUE
  MayMove = FALSE
  WritersFirst = FALSE
  NoThread = NoThread
  Conjugation = Conjugation
SYMMETRY Symmetry
INVARIANTS
  RotationHasKey
