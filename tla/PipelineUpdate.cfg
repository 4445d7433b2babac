SPECIFICATION FairSpec
CONSTANTS
    s1 = s1
    s2 = s2
    s3 = s3
    r1 = r1
    r2 = r2
    Sys = Sys
    Jobs <- MCJobs
    Repos <- MCRepos
    RepoOf <- MCRepoOf
    Plain = {s2}
    WithSys = TRUE
    UserActs = TRUE
    StopMayFail = TRUE
CHECK_DEADLOCK FALSE
INVARIANTS RestartsInOrder OutcomeHonest
PROPERTIES RestartedRunsNew UpdateEnds
