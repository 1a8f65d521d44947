SPECIFICATION Spec
CHECK_DEADLOCK FALSE
CONSTANTS
    Modulus = 17
    DegreePower = 3
    Root = 3
    Parties <- MCParties
    Secret <- MCSecret
    Seeds = {"seed1", "seed2"}
    Common <- MCCommon
    Blinds <- MCBlinds
    PFactor = 6
    GaloisSets <- MCGaloisSets
    GaloisZero = 15
    PlainModulus = 2
    Ciphertexts <- MCCiphertexts
    Masks <- MCMasks
    ManagerScale <- MCManagerScale
    Noise <- MCNoise
    MaxList = 2
INVARIANTS
      PublicKeyFitsTheVector
    RelinKeyFitsJointSecret
    GaloisKeyFitsTheVector
    JointDecryptionOpens
    BootstrappingKeepsMessage
