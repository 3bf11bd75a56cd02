\* One question of each kind, two answers to each, and endless other calls of a worker.
SPECIFICATION FairSpec
CONSTANTS
    q1 = q1
    q2 = q2
    w1 = w1
    Questions = {q1, q2}
    Kind <- OneOfEach
    MaxAnswers = 2
    Workers = {w1}
    Nobody = Nobody
INVARIANTS
    LockHasHolder
    NoOpmlLockCycle
    LockMoves
PROPERTY
    QuestionsReturn
