SPECIFICATION FairSpec
CONSTANTS
  User = {t1, t2}
  Marker = {m1, m2}
  MayThrow = {t1}
  WorkerMayThrow = {}
  NoTask = NoTask
  Client = {c1, c2}
  Worker = Worker
  NoThread = NoThread
  Kinds = {TRUE, FALSE}
INVARIANTS
  ReturnCoversWork
  EmptyMeansFinished
  DeferredStartsAfterPreceding
PROPERTIES
  QueueIsLive
