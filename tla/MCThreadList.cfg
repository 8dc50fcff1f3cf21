SPECIFICATION Spec
CONSTANTS
  Threads = {t1, t2, t3}
  NoThread = NoThread
  UseReadBarrier = TRUE
  MaxSuspendBarriers = 3
  Ops = {"SuspendAll", "FlipThreadRoots", "RunCheckpoint", "SuspendThreadByThreadId",
         "RequestSynchronousCheckpoint", "Detach"}
  MaxOps = 3
SYMMETRY Symmetry
INVARIANTS
  Exclusion
  SuspendCountExact
  VisitedSuspended
  BarrierExact
  CheckpointExactlyOnce
  CheckpointOnlyWhenRunnable
  ResumeNotLost
  ReferencedAttached
