SPECIFICATION Spec
CHECK_DEADLOCK FALSE
CONSTANTS
  TorusBits = 20
  LweSize = 2
  RingSize = 16
  DigitBits = 7
  DigitCount = 2
  SwitchBits = 2
  SwitchLength = 7
  LweKey <- SmallKey
  RingKey <- BigKey
  BootMask <- MaskOfRow
  SwitchMask <- MaskOfSwitch
  BootNoise <- NoiseOfRow
  SwitchNoise <- NoiseOfSwitch
  FreshNoise = 30000
  TurnBudget = 45000
  EncryptionMask <- MaskOfSample
  EncryptionNoise <- NoiseOfSample
  Registers = {r1, r2}
  Batches <- AllPairs
  MaxCalls = 3
INVARIANTS
  RegistersOpen
  NoiseStaysBounded
