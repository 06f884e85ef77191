CONSTANTS
  Addr = {a1, a2}
  Field = {f1}
  Null = Null
  ManagedCollect = "any"
  MaxSerial = 2
  MaxCalls = 4
  MaxWeak = 1
SPECIFICATION Spec
INVARIANTS
  NoDangling
SYMMETRY Symmetry
CHECK_DEADLOCK FALSE
