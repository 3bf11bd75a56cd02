\* Three calls on one connection, fair tasks and timers.
SPECIFICATION FairSpec
CONSTANTS
    q1 = q1
    q2 = q2
    q3 = q3
    Requests = {q1, q2, q3}
INVARIANTS
    NoCallbackLeak
    NoLostWakeup
PROPERTIES
    KeepsRpc
    RequestsReturn
    ReceiverFindsOut
