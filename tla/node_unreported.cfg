\* One job and a connection that is lost.
SPECIFICATION Spec
CONSTANTS
    j1 = j1
    j2 = j2
    j3 = j3
    Jobs = {j1}
    NoJob = NoJob
    NoEntry = NoEntry
    Kind <- OneOfEach
    FaultKinds = {}
    RetryMax = 8
    MaxEpoch = 2
    MaxSends = 1
    MaxFaults = 0
    MaxFails = 0
INVARIANT OkMeansReported
