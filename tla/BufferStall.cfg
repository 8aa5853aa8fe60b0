SPECIFICATION ChainSpec
CONSTANTS
    Builds = {"native"}
    Regions = {"pipeline"}
    Stages = 1
    BufferDepth = 1
    CreditCapacity = 2
    Words = {zero, one}
    ZeroWord = zero
    Garbled = Garbled
INVARIANT StalledSourceWaits
