CONSTANTS
  Addr = {a1, a2}
  Field = {f1}
  Null = Null
  ManagedCollect = "never"
  MaxSerial = 1
  MaxCalls = 4
  MaxWeak = 0
SPECIFICATION FairSpec
INVARIANTS
  NoDangling
  PendingIntact
  QueueEmptyAtPromotion
PROPERTIES
  FreedOnlyGarbage
  GarbageReclaimed
  PendingRuns
CHECK_DEADLOCK FALSE
