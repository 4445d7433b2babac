SPECIFICATION FairSpec
CONSTANTS
    h1 = h1
    h2 = h2
    loose1 = loose1
    f1 = f1
    f2 = f2
    NoThread = NoThread
    Hosts <- TwoHosts
    Loose <- OneLoose
    Drift <- TheDrift
    Kafka = {}
    PlcCv <- ThePlcCv
    Forcers <- TwoForces
INVARIANTS ReadyIsFresh BackgroundOverCompleteMap VersionsSurviveResets
PROPERTY ForcedRefreshHonoured
