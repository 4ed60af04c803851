SPECIFICATION FairSpec
CONSTANTS
    NoSession = NoSession
    NoPage = NoPage
    c1 = c1
    p1 = p1
    c2 = c2
    c3 = c3
    ip1 = ip1
    ip2 = ip2
    Clients = {c2, c3}
    Ips = {ip1, ip2}
    PeerOf <- MachineOf
    Pages = {p1}
    MaxSockets = 2
    QueueSize = 1
    MaxActivity = 1
INVARIANTS
    TypeOK
    FeedInOrder
    CountAgrees
PROPERTIES
    DeadSubscribersLeave
