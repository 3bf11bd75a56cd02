\* Three processes, counters up to 3; every behaviour ends at MaxEvents.
SPECIFICATION Spec
CONSTANTS
    Keys = {1, 2, 3}
    U32Max = 3
    MaxEvents = 5
CHECK_DEADLOCK FALSE
INVARIANTS
    CountsEvents
    OrderIsCausality
    DepComparesOne
    ReduceIsLamport
