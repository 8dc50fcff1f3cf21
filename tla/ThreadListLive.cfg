SPECIFICATION FairJniSpec
CONSTANTS
  Threads = {t1, t2}
  NoThread = NoThread
  UseReadBarrier = TRUE
  MaxSuspendBarriers = 3
  Ops = {"SuspendAll", "FlipThreadRoots", "SuspendThreadByThreadId", "JniCritical"}
  MaxOps = 2
INVARIANTS FlipBeforeManagedCode CriticalExcludesFlip
PROPERTIES OperationsTerminate RetryEnds
