SPECIFICATION FairSpec
CONSTANTS
    s1 = s1
    s2 = s2
    b1 = b1
    b2 = b2
    Items <- TwoAndOne
    Batches = {b1, b2}
    Interval = 2
    Workers = 0
    MaxWorkers = 10
    Deadline = 2
    MaxTime = 5
    MaxChanges = 1
INVARIANTS RowsAreRecent ErrorHasCause
PROPERTY EveryRequestAnswered
CHECK_DEADLOCK FALSE
