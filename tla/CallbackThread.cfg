SPECIFICATION FairSpec
CONSTANTS
  t1 = t1
  t2 = t2
  t3 = t3
  c1 = c1
  c2 = c2
  Task <- MCTask
  MayThrow <- MCMayThrow
  NoTask = NoTask
  Client <- MCClient
  Worker = Worker
  NoThread = NoThread
INVARIANTS
  FutureAfterDestruction
  EmptyMeansNothingRuns
PROPERTIES
  DestructorEndsTheWorker
  ImplementsFairSerialExecutor
