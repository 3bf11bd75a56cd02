\* Three calls of two consumers, for a worker with room for one question.
SPECIFICATION FairSpec
CONSTANTS
    t1 = t1
    t2 = t2
    t3 = t3
    c1 = c1
    c2 = c2
    Tasks = {t1, t2, t3}
    Consumers = {c1, c2}
    Nobody = Nobody
    Dispatches <- OneJob
    NodeType = "opml"
    Ranges <- OneRange
    MaxRanges = {100}
    U64Max = 105
    U32Max = 9
    PollLimit = 2
    Capacity = 1
INVARIANT LoadBounded
PROPERTY JobsEnd
