\* The worker answers before the channel is there.
SPECIFICATION Spec
CONSTANTS
    q1 = q1
    q2 = q2
    w1 = w1
    Questions = {q1}
    Kind <- OneOfEach
    MaxAnswers = 1
    Workers = {}
    Nobody = Nobody
INVARIANT StoredMeansStored
\* No other question comes, so the hub stops.
CHECK_DEADLOCK FALSE
