SPECIFICATION AFairSpec
CONSTANTS
    t1 = t1
    t2 = t2
    c1 = c1
    c2 = c2
    Thread <- MCThread
    Cell <- MCCell
    Words = 4
    AndBits <- MCAndBits
    OrBits <- MCOrBits
    XorBits <- MCXorBits
    Jobs <- MCJobs
PROPERTIES
    ImplementsAtomicMemory
    EveryOperationReturns
CHECK_DEADLOCK FALSE
