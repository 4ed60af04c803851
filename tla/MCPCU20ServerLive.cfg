SPECIFICATION FairSpec
CONSTANTS
    c1 = c1
    c2 = c2
    c3 = c3
    i1 = i1
    i2 = i2
    NoSession = NoSession
    Conns = {c1, c2}
    Ips = {i1, i2}
    PeerOf <- TwoMachines
    NumPorts = 1
    PortOf <- OnePort
    Readers = {c1}
    MaxFrames = 2
    WaitClosedWaits = FALSE
PROPERTIES
    QuietConnectionsEnd
    StopCompletes
