SPECIFICATION LinksSpec
CONSTANTS
    Data = {zero, one, two}
    ZeroData = zero
    Depth = 4
    Count = 3
    Policies = {"fixed_priority", "round_robin"}
    Scopes = {"beat", "packet"}
    NoBeat = NoBeat
    Nobody = Nobody
    Builds = {"native", "systemverilog"}
    Regions = {"pipeline", "temporal"}
    Stages = 2
    BufferDepth = 1
    CreditCapacity = 3
    Words = {zero, one}
    ZeroWord = zero
    Garbled = Garbled
    Capacity = 2
    Channels = {c1, c2}
    Scalar = c1
    Families = {"credit", "vc_credit"}
    NoChannel = NoChannel
    MaxOutstanding = 3
    Ids = {i1, i2, i3}
    Orderings = {"in_order", "out_of_order"}
    Depths = {0, 1}
    FieldBits = {b1, b2}
    Priorities = {"hardware", "software"}
INVARIANTS
    LinksTypeOK
    OneWave
    HeldWhileOffered
    WiresExact
    BoundedBypass
    CreditsExact
    LedgerExact
    NoEventForgotten
PROPERTIES
    ImplementsQueue
    PacketsContiguous
    GrantedBeatHolds
    ChainImplementsQueue
    CrossingsProgress
    NoStarvation
    ChainFlows
