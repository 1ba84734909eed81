CONSTANTS
    ByteBits = 1
    ByteMod = 2
SPECIFICATION Spec
INVARIANT LessOrEqualIsNotGreater
CHECK_DEADLOCK FALSE
