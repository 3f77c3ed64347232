SPECIFICATION FairSpec
CONSTANTS
  q1 = q1
  q2 = q2
  b1 = b1
  c1 = c1
  c2 = c2
  Queue <- MCQueue
  Buffer <- MCBuffer
  Client <- MCClient
  Program <- MCProgram
  None = None
  MaxCalls = 4
INVARIANTS
  NoUseAfterFree
  DeviceWaitCoversHeldQueues
PROPERTIES
  EverythingEnds
