SPECIFICATION Spec
CONSTANTS
    Points <- MCPoints
    Scalars <- MCScalars
    Base = 8
    PAdd <- MCPAdd
    PSub <- MCPSub
    PMul <- MCPMul
    SAdd <- MCSAdd
    SMul <- MCSMul
    MulByCofactor <- MCMulByCofactor
    Compress <- MCCompress
    Decompress <- MCDecompress
    HashPoints <- MCHashPoints
    HashCandidate <- MCHashCandidate
    HashOutput <- MCHashOutput
    HashNonce <- MCHashNonce
    Low16 <- MCLow16
    VrfSecrets = {1, 2, 3}
    Expand <- MCExpand
    Prompts = {1, 2, 3}
    OutputDigits = 3
    Secrets = {1, 2}
    Digests = {1, 2, 3}
    Ecdsa <- MCEcdsa
    Recover <- MCRecover
    Order = 23
    ChainIds = {0, 1, 109, 110, 127}
    U64Max = 255
    NoChain = NoChain
    NoKey = NoKey
    Stranger = Stranger
    Empty = Empty
    Garbled = Garbled
    Signers = {a1, a2}
    AddressOf <- MCAddressOf
    FixedAddress = a1
    Precisions = {0, 1, 2, 3, 4}
    Thresholds = {0, 9, 300}
    Replicas = 2
    Contents = {"hello", "bye"}
    MaxTraffic = 2
    MaxBatch = 2
INVARIANTS
    SelectionCheckable
    FormsKeepSigner
    VerifyMeansSigned
    BatchIsOneByOne
    
CHECK_DEADLOCK FALSE
