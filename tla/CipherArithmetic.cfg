SPECIFICATION Spec
CHECK_DEADLOCK FALSE
CONSTANTS
    Degree = 8
    Contexts <- ContextList
    m_tilde = 256
    InternalPrimes <- Primes
    MAX_MOD_BIT_COUNT = 8
    Spare = 5
    Secret <- Secrets
    Draws <- Sequence
    Samples = {30, 60}
    Elements = {5}
    MaxCalls = 4
PROPERTIES
    KeySwitchKeepsPhase
    LevelsKeepPhase
    BfvProductRounds
    DecryptionRounds
