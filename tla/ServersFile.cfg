SPECIFICATION Spec
CONSTANTS
    p = p
    k = k
    s = s
    c = c
    a1 = a1
    a2 = a2
    r1 = r1
    r2 = r2
    None = None
    Names = {p, k, s, c}
    SysMonitors = {s}
    KafkaNames = {k}
    RtlsNames = {}
    SkipNames = {c}
    Addrs = {a1, a2}
    Requests = {r1, r2}
    Files <- MCFiles
    Sites <- MCSites
    MaxMoves = 1
    MaxSyncs = 1
    MaxAsked = 2
INVARIANTS SecondSyncIdle MemoryIsFile
PROPERTY ListSurvives
CHECK_DEADLOCK FALSE
SYMMETRY Symmetry
