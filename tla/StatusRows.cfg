SPECIFICATION FairRowsSpec
CONSTANTS
    sys = sys
    cam = cam
    api = api
    h1 = h1
    h2 = h2
    Pipelines <- AllPipelines
    Kind <- AllKinds
    HostOf <- HostsOf
    MonitorOf <- Monitors
    NoHost = NoHost
    Conditions <- AllConditions
    MaxEvents = 1
INVARIANTS RowAgrees SysAgrees
PROPERTY StoppedIsShown
