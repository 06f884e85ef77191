CONSTANTS
  Addr = {a1, a2}
  Field = {f1}
  Null = Null
  ManagedCollect = "bare"
  MaxSerial = 2
  MaxCalls = 5
  MaxWeak = 1
SPECIFICATION Spec
INVARIANTS
  NoDangling
  RegistryExact
  WeakFaithful
SYMMETRY Symmetry
CHECK_DEADLOCK FALSE
