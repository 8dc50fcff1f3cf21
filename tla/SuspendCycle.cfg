SPECIFICATION FairSpec
CONSTANTS
  Threads = {t1, t2}
  NoThread = NoThread
  UseReadBarrier = TRUE
  MaxSuspendBarriers = 3
  Ops = {"RequestSynchronousCheckpoint", "SuspendThreadByThreadId"}
  MaxOps = 2
PROPERTIES
  OperationsTerminate
