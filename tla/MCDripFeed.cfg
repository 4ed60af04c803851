SPECIFICATION FairSpec
CONSTANTS
    s1 = s1
    s2 = s2
    t1 = t1
    p1 = p1
    Serial = {s1, s2}
    Tcp = {t1}
    Ports = {p1}
    PortOf <- OnePort
    Lines <- FewLines
    Workers = 2
    Takers = {t1}
    MaxPosts = 2
    MaxChars = 2
    Drivers = {"acts", "passes"}
INVARIANTS
    TypeOK
    LateLines
    PortsInOrder
PROPERTIES
    SilentWhilePaused
    ImplementsDripJob
    CancelEnds
    FeedEnds
