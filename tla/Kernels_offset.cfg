SPECIFICATION MCSpec
CONSTANTS
    Nothing = Nothing
    Null = Null
    Garbage = Garbage
    HeaderSize = 16
    MinAlign = 4
    FrameElements = 8
    Workers <- MCWorkers
    Jobs <- AllJobs
    WarpJobs <- CheckedWarps
    FenceJobs <- CheckedFences
    Radix = 8
    Rounds = 3
    Multipliers <- CheckedMultipliers
    Weyl <- CheckedWeyl
    XorWords <- CheckedXor
    Draws <- CheckedDraws
    PerUnit = 4096
    Significands <- CheckedSignificands
    MaxDraws = 6
INVARIANTS
    OffsetSkipsNumbers
CHECK_DEADLOCK FALSE
