CONSTANTS
    ByteBits = 2
    ByteMod = 4
    NRegs = 5
    Decode <- MCDecode
    BusErrorVector <- MCVectorInBios
    BusIrq = TRUE
    ResetVector = 0
    BiosBase = 0
    BiosSize = 16
    MemBase = 236
    MemSize = 8
    TermBase = 246
    IoPort = 254
    Keys <- MCKeys
    IoWords <- MCIoWords
    Images <- BusPrograms
    MaxResets = 0
    MaxFreezes = 0
SPECIFICATION FairSpec
PROPERTIES
    InterruptLowered
CHECK_DEADLOCK FALSE
