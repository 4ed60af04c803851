SPECIFICATION FairSpec
CONSTANTS
    NoSession = NoSession
    a = a
    b = b
    h = h
    Ids = {a, b}
    Hosts = {h}
    MaxRequests = 3
    InitialConfigs <- Configs
    MaxCrashes = 1
INVARIANTS
    TypeOK
    PresenceAgrees
    FileAgrees
    ConfiguredListed
PROPERTIES
    StopReturns
