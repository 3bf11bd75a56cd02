SPECIFICATION FairSpec
CONSTANTS
    Threads = {t1, t2, t3}
    Nobody = Nobody
    MaxCalls = 2
INVARIANT NestedReadersGetThrough
PROPERTY CallsReturn
CHECK_DEADLOCK FALSE
