CONSTANTS
  Arena = {r1, r2, r3}
  NoArena = NoArena
  BlockCount = 3
  WordBits = 2
SPECIFICATION Spec
INVARIANTS
  FreeListExact
PROPERTIES
  GrowsOnlyWhenFull
  ImplementsPool
SYMMETRY Symmetry
