SPECIFICATION FairSpec
CONSTANTS
  Threads = {t1, t2, t3}
  NoThread = NoThread
  Recursive = TRUE
  MaxRecursion = 2
  MaxSequence = 1
INVARIANTS MutualExclusion ContendersExact NoLostWakeup RecursionMatchesCalls
PROPERTIES SignalReaches
