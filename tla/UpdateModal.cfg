SPECIFICATION ModalFairSpec
CONSTANTS
    s1 = s1
    s2 = s2
    r1 = r1
    r2 = r2
    Sys = Sys
    Jobs <- MCJobs
    Repos <- MCRepos
    RepoOf <- MCRepoOf
    Plain = {s2}
    WithSys = TRUE
    UserActs = FALSE
    StopMayFail = FALSE
    Targets <- MCAll
    FetchMayFail = TRUE
    MayForget = TRUE
    MaxPolls = 2
CHECK_DEADLOCK FALSE
INVARIANT ClosedVerdictFinal
PROPERTY ModalCompletes
