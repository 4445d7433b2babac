SPECIFICATION FairSpec
CONSTANTS
    u1 = u1
    u2 = u2
    u3 = u3
    p1 = p1
    p2 = p2
    NoThread = NoThread
    Updates <- MCUpdates
    Polls <- MCPolls
    MayRaise = TRUE
CHECK_DEADLOCK FALSE
PROPERTY EveryPollAnswered
