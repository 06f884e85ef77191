SPECIFICATION Spec
CONSTANTS
  Obj = Obj A = A B = B S = S T = T I = I M = M
  NoClass = NoClass
  NoMethod = NoMethod
  Classes = {Obj, A, B, S, T, I, M}
  PtrSize = 4
  HeaderWords = 2
  Worlds <- MCWorlds
INVARIANTS
  PartsComputedOnce
  DoneIsClosed
  CctorOnce
  CctorReady
  AllocationReady
  LayoutExact
  BitmapExact
  StaticsExact
  CyclesOnly
  DispatchExact
CHECK_DEADLOCK FALSE
