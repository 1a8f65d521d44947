SPECIFICATION Spec
CONSTANTS
  Ciphertexts = {c1, c2}
  Plaintexts = {p1}
  L = 4
  Top = 3
  LogPrime <- LogPrimes
  TopScale = 40
  LevelScale <- LevelScales
  Automatic = TRUE
  Encodings <- NoEncodings
  PlainDrops = FALSE
  ConstantScales = {0}
  Fractions = {FALSE}
  ScaleFactors = {0}
  MaxScale = 100
INVARIANTS
  TypeOK
  ScaleOfLevel
  RelinearizedFirst
  OperandsMeet
  ManualCodeWorks
  ScaleIsTrue
PROPERTIES
  KeepsBudget
  OperationCosts
