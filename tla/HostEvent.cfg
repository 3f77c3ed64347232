SPECIFICATION FairSpec
CONSTANTS
  q1 = q1
  q2 = q2
  b1 = b1
  c1 = c1
  c2 = c2
  Queue <- MCQueue
  BlockingQueue <- MCBlockingQueue
  Client <- MCClient
  Sharing <- MCSharing
  Event = {e1}
  None = None
  MaxOps = 3
INVARIANTS
  SignalledAfterPreceding
  WaitCoversPreceding
  LaterWorkAwaitsEvent
  DestructorNeverBlocks
PROPERTIES
  EventsAreLive
