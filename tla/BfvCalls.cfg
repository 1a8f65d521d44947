SPECIFICATION Spec
CONSTANTS
  Ciphertexts = {"c1", "c2"}
  Plaintexts = {"p1"}
  T = 17
  RowSize = 4
  Zeta = 3
  KeySteps <- KeyForTwo
  Steps <- SomeSteps
  GaloisSteps <- SomeElements
  Shifts <- SomeShifts
  Powers <- SomePowers
  Secrets <- TwoSecrets
  Masks <- TwoMasks
  Message <- ThreeMessages
  Unchecked = FALSE
  MaxOps = 3
  LastResults = {"c1"}
VIEW Seen
CHECK_DEADLOCK FALSE
INVARIANTS
  SizeIsHeld
PROPERTIES
  KeepsMeaning
  NeverTooSmall
  ThrowsLeaveAlone
