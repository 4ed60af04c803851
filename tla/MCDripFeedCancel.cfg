SPECIFICATION FairSpec
CONSTANTS
    s1 = s1
    s2 = s2
    t1 = t1
    p1 = p1
    Serial = {s1, s2}
    Tcp = {}
    Ports = {p1}
    PortOf <- OnePort
    Lines <- FewLines
    Workers = 1
    Takers = {}
    MaxPosts = 2
    MaxChars = 0
    Drivers = {"passes"}
PROPERTIES
    CancelHonoured
