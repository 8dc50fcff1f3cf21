SPECIFICATION FairSpec
CONSTANTS
  Mutators = {x, y}
  Collector = g
  Rounds = 1
PROPERTIES WeakAccessReturns
CHECK_DEADLOCK FALSE
