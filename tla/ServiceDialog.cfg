SPECIFICATION DialogFairSpec
CONSTANTS
    j1 = j1
    j2 = j2
    j3 = j3
    n1 = n1
    loose1 = loose1
    NoJob = NoJob
    Jobs <- ThreeJobs
    Mine <- TwoMine
    Names <- TwoNames
    Loose <- OneLoose
    MaxJobs = 2
    MayRaise = TRUE
    MaxPolls = 2
CHECK_DEADLOCK FALSE
INVARIANTS TableKeepsRunning OnlyLooseInterrupted ReportedIsOver
PROPERTIES OldestDroppedFirst ImplementsLifecycle CommandReported
