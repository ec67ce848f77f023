CONSTANTS
    NbSlots <- MCNbSlots
    BitWidth <- MCBitWidth
    MaxEpoch <- MCMaxEpoch
    MaxNonce <- MCMaxNonce
    ActivateEncryption = TRUE
    None = None

SPECIFICATION Spec

INVARIANTS
    TypeOK
    SessionSlotConsistent
    NoUncaughtException
    AcceptedAreSpent
    ConfigCacheIsPowerOnConfig

PROPERTIES
    UapEnforced
    WriteNeedsFreshCiphertext
