CONSTANTS
    ByteBits = 1
    PtrSize = 8
    StructSize = 12
    FrameLimit = 64
    Slots = 16
    Cells = 4
    Elements = 2
    Methods <- MCMethods
    Leftovers = {0, 255}
    ArgValues <- MCArgValues
SPECIFICATION Spec
INVARIANTS
    SameMeaning
    RejectsOnlyIllTyped
    FrameHolds
CHECK_DEADLOCK FALSE
