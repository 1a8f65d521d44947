SPECIFICATION Spec
CONSTANTS
  Ciphertexts = {c1, c2}
  Plaintexts = {p1}
  L = 2
  Top = 2
  LogPrime <- EqualPrimes
  TopScale = 40
  LevelScale <- LevelScales
  Automatic = FALSE
  Encodings <- OneScale
  PlainDrops = TRUE
  ConstantScales = {40}
  Fractions = {TRUE, FALSE}
  ScaleFactors = {40}
  MaxScale = 80
SYMMETRY Symmetry
INVARIANTS
  ScaleOfATerm
