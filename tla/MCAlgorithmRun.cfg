CONSTANTS
    MaxFaults = 2
    Probes = 1
    Cases = 2
    Options <- MCOptions
    MaxPrepare = 2
    MaxFinish = 2
    MaxWait = 1
    ClassicEncryption <- MCClassicEncryption
    Aead <- MCAead
    IkeIntegrity <- MCIkeIntegrity
    EspIntegrity <- MCEspIntegrity
    IkePrf <- MCIkePrf
    Ke <- MCKe
    EsnModes <- MCEsnModes
    EncryptionNames <- MCEncryptionNames
    AeadNames <- MCAeadNames
    IntegrityNames <- MCIntegrityNames
    PrfNames <- MCPrfNames
    KeNames <- MCKeNames
    BaselineCases <- MCBaselineCases
SPECIFICATION Spec
INVARIANTS TypeOK PassAgreed PeerCleanConfirmed
PROPERTIES RunEnds ResponderReturns
