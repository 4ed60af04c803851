SPECIFICATION Spec
CONSTANTS
    Setups <- AllCycles
    Home <- AtHome
INVARIANTS
    RapidsClear
    EveryProbeTouches
    OffsetsSound
    AbsoluteOnlyWhenSet
