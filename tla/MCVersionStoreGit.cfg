SPECIFICATION Spec
CONSTANTS
    s1 = s1
    s2 = s2
    f1 = f1
    f2 = f2
    Sessions = {s1, s2}
    Files = {f1, f2}
    NoFile = NoFile
    Names = {f1, f2}
    BaseName <- OwnNames
    Matches <- OnlyItself
    MaxSnapshots = 1
    Strategies = {"git"}
    Lengths = {2}
    MaxWrites = 3
    MaxTime = 1
    MaxEnds = 1
SYMMETRY Symmetry
INVARIANT
    CommitsOwnWrite
