\* Everything fails; two connections, so that one s_task is left behind.
SPECIFICATION Spec
CONSTANTS
    j1 = j1
    j2 = j2
    j3 = j3
    Jobs = {j1, j2}
    NoJob = NoJob
    NoEntry = NoEntry
    Kind <- OneOfEach
    FaultKinds = {"redis", "pg", "clock", "crash"}
    RetryMax = 1
    MaxEpoch = 2
    MaxSends = 2
    MaxFaults = 2
    MaxFails = 2
INVARIANTS
    NoEntryLost
    HandledInOrder
    ReportedIsStored
    SuccessMeansQueued
PROPERTY KeepsJobLog
