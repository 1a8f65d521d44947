SPECIFICATION FairSpec
CONSTANTS
  Threads = {t1, t2}
  Steps = {s1, s2}
  MadeOf <- Multiples
  MayFail = TRUE
  MayMove = TRUE
  WritersFirst = TRUE
  NoThread = NoThread
  Conjugation = Conjugation
INVARIANTS
  KeysStillThere
PROPERTIES
  NeverRegenerated
  CallsReturn
