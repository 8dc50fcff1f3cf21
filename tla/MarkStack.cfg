SPECIFICATION Spec
CONSTANTS
  Mutators = {m1}
  Objects = {a, b}
SYMMETRY Symmetry
INVARIANTS
  OnlyCollectorPushes
  GrayIsOnOneStack
  MarkingConverges
  ToSpaceInvariant
PROPERTY
  FinalizedAfterClearing
CHECK_DEADLOCK FALSE
