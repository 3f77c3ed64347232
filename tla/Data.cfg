SPECIFICATION DataSpec
CONSTANTS
    Nothing = Nothing
    ViewJobs <- CheckedViews
    PackJobs <- CheckedPacks
    Ones = 3
    AndBits <- CheckedAnd
    OrBits <- CheckedOr
    XorBits <- CheckedXor
    MaxSelected = 2
    MaxPackOps = 3
INVARIANTS
  CopiesAreExact
  BoundariesAreExact
  PacksAreLanewise
CHECK_DEADLOCK FALSE
