CONSTANTS
  o1 = o1 o2 = o2 o3 = o3
  Object = {o1, o2, o3}
  Null = Null
  MaxDepth = 1
  Threshold = 2
  SegmentBits = 2
  CacheSize = 1
  Slot <- MCSlot
  BatchSize = 2
  MaxEdges = 4
  MaxOut = 2
  MaxTargets = 1
SPECIFICATION MCFairSpec
INVARIANTS
  MarkingExact
  StackBounded
  ScannedOnce
  BitmapFaithful
  ReportedExact
PROPERTY MarkingEnds
CHECK_DEADLOCK FALSE
