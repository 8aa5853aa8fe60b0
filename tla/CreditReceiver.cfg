SPECIFICATION LinkSpec
CONSTANTS
    Capacity = 3
    Channels = {c1}
    Scalar = c1
    Families = {"credit"}
    NoChannel = NoChannel
INVARIANT OverflowMeansFull
