SPECIFICATION FairSpec
CONSTANTS
  Apis = {"cuda", "sycl"}
  Client = {c1, c2}
  Kinds = {"kernel", "host", "deferred", "event", "await"}
  Callback = callback
  MaxOps = 2
  DropAnytime = FALSE
INVARIANTS
  EmptyMeansDone
  MemoryOutlivesItsUses
PROPERTIES
  OrderIsKept
  
CHECK_DEADLOCK FALSE
