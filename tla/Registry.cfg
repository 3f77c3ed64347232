SPECIFICATION MCSpec
CONSTANTS
    None = None
    Threads = {t1, t2}
    Kinds = {k1, k2}
    NumDevices = 1
    Overlapping = FALSE
    Careful = TRUE
    MemDevices = 2
    MemBuffers = 2
    HandleSlots = {1, 2, 3}
    HandleRoots <- CheckedRoots
    HandleOps = 3
    MaxPlatforms = 3
    MaxDevices = 3
    MaxQueues = 2
    MaxCalls = 4
SYMMETRY ThreadSymmetry
INVARIANTS
    OneDevicePerIndex
    
    
    BuffersAreUsable
    HandlesAreSound
CHECK_DEADLOCK FALSE
