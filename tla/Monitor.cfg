SPECIFICATION Spec
CONSTANTS
  Threads = {a, b, c}
  None = None
  kThinLockMaxCount = 1
  Hashes = {1, 2}
  MaxDepth = 3
SYMMETRY Symmetry
INVARIANTS UsersKeepMonitor NoLostWakeup IdentityHashIsStable
PROPERTIES ImplementsJavaMonitor
