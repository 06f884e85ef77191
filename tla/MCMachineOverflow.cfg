CONSTANTS
  FrameSize = 3
  EvalSize = 4
  Need = {2}
SPECIFICATION Spec
INVARIANT FrameIsTop
CHECK_DEADLOCK FALSE
