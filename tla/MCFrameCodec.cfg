SPECIFICATION Spec
CONSTANTS
    StreamLen = 13
    Base = 2
    MaxFrame = 3
    MaxChunk = 13
    MaxDepth = 2
INVARIANTS
    TypeOK
    PartitionOfStream
    NothingHeldBack
    RaisesOnlyOnGarbage
