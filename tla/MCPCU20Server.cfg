SPECIFICATION Spec
CONSTANTS
    c1 = c1
    c2 = c2
    c3 = c3
    i1 = i1
    i2 = i2
    NoSession = NoSession
    Conns = {c1, c2, c3}
    Ips = {i1, i2}
    PeerOf <- TwoMachines
    NumPorts = 2
    PortOf <- TwoPorts
    Readers = {c1, c2, c3}
    MaxFrames = 3
    WaitClosedWaits = FALSE
SYMMETRY Symmetric
INVARIANTS
    TypeOK
    TableTracksConnections
    PresenceSound
    TotalsExact
    EventsPaired
    JobsOwned
PROPERTIES
    ImplementsFileService
