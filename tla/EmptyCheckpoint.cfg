SPECIFICATION FairSpec
CONSTANTS
  Mutators = {x, y}
  Collector = g
  Rounds = 1
INVARIANTS AccessesOver BarrierExact
PROPERTIES CheckpointEnds
CHECK_DEADLOCK FALSE
