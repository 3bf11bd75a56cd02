\* Two calls, every branch, ranges at both ends of the scale.
SPECIFICATION Spec
CONSTANTS
    t1 = t1
    t2 = t2
    t3 = t3
    c1 = c1
    c2 = c2
    Tasks = {t1, t2}
    Consumers = {c1, c2}
    Nobody = Nobody
    Dispatches <- EveryBranch
    NodeType = "opml"
    Ranges <- SomeRanges
    MaxRanges = {100, 104}
    U64Max = 105
    U32Max = 9
    PollLimit = 1
    Capacity = 1
INVARIANTS
    NoUnderflow
    ClockFollows
    EscalationKeepsSelection
