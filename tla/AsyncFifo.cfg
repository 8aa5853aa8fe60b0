SPECIFICATION Spec
CONSTANTS
    Depth = 4
    Depths = {4, 8, 16, 32}
    Data = {zero, one}
    ZeroData = zero
INVARIANTS
    TypeOK
    NeverOverrun
    NoCollision
PROPERTIES
    StalledBeatHolds
    ImplementsQueue
