CONSTANTS
    NbSlots = 1
    BitWidth = 1
    MaxEpoch = 1
    MaxNonce = 1
    ActivateEncryption = TRUE
    None = None
    FrameLen = 2
    NbChunks = 2
    Schedule <- MCSchedule
    MaxFaults = 2
    HostCiphertexts <- MCHostCiphertexts

SPECIFICATION SpiSpec

INVARIANTS
    SpiTypeOK
    HostGetsItsAnswer

PROPERTIES
    HostProgress
    ImplementsExchange
