CONSTANTS
  FrameSize = 4
  EvalSize = 6
  Need = {0, 2, 3}
SPECIFICATION Spec
INVARIANTS
  FramesIntact
  TopsExact
  LiveDisjoint
CHECK_DEADLOCK FALSE
