SPECIFICATION FairSpec
CONSTANTS
    h1 = h1
    h2 = h2
    q1 = q1
    q2 = q2
    p1 = p1
    p2 = p2
    Hosts <- TwoHosts
    Posts <- TwoPosts
    Polls <- OnePoll
    FetchMayFail = TRUE
    MayRestart = TRUE
    Movable <- OneHost
CHECK_DEADLOCK FALSE
PROPERTIES EntryOutlivesUpdate DropsAfterAllAnswered WatchDrains
