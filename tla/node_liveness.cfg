\* Fair tasks, every kind of payload, one failing call to Redis or clock step.
SPECIFICATION FairSpec
CONSTANTS
    j1 = j1
    j2 = j2
    j3 = j3
    Jobs = {j1, j2, j3}
    NoJob = NoJob
    NoEntry = NoEntry
    Kind <- OneOfEach
    FaultKinds = {"redis", "clock"}
    RetryMax = 1
    MaxEpoch = 2
    MaxSends = 2
    MaxFaults = 1
    MaxFails = 2
PROPERTIES
    QueueDrains
    Reconnects
    AnsweredIsHandled
