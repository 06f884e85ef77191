CONSTANTS
  Cell = {c1, c2}
  Object = {o1, o2}
  NoObj = NoObj
  IdSpace = 8
  MintBound = 4
SPECIFICATION Spec
INVARIANTS
  CellsAccounted
  NoDanglingHandle
PROPERTY ImplementsSpec
SYMMETRY Symmetry
CHECK_DEADLOCK FALSE
