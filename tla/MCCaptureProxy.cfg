SPECIFICATION Spec
CONSTANTS
    k1 = k1
    k2 = k2
    Conns = {k1, k2}
    Flaky = {k1}
    MaxBytes <- OneEach
    MaxId = 0
INVARIANTS
    DeliveredRecorded
    ReplayAsksFirst
PROPERTY
    EndsTogether
CHECK_DEADLOCK FALSE
