CONSTANTS
    ByteBits = 1
    ByteMod = 2
SPECIFICATION Spec
 
INVARIANT SignedOrder
INVARIANT EqualityIsExact
INVARIANT ShiftsScale
CHECK_DEADLOCK FALSE
