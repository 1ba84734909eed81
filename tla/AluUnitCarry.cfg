CONSTANTS
    ByteBits = 1
    ByteMod = 2
SPECIFICATION Spec
INVARIANT CarryOutOfAdd
CHECK_DEADLOCK FALSE
