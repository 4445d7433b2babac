SPECIFICATION RenameSpec
CONSTANTS
    a = a
    b = b
    c = c
    newA = newA
    newB = newB
    idA = idA
    idB = idB
    Names = {a, b, c, newA, newB}
    Ids = {idA, idB}
    ServiceNameFor <- NameFor
    Serves <- ServedBy
    Hosts <- MCHosts
    MaxFailed = 2
    MaxRuns = 2
    MaxActs = 1
INVARIANTS
    LinesResolve
    RunEndsClean
PROPERTIES
    UnitFilesKept
    NoSecondWatchdog
CHECK_DEADLOCK FALSE
