CONSTANTS
    ByteBits = 2
    ByteMod = 4
    NRegs = 5
    Decode <- MCDecode
    BusErrorVector <- MCBusErrorVector
    BusIrq = TRUE
    ResetVector = 0
    BiosBase = 0
    BiosSize = 16
    MemBase = 236
    MemSize = 8
    TermBase = 246
    IoPort = 254
    Keys <- MCKeys
    IoWords <- MCIoWords
    Images <- HolePrograms
    MaxResets = 1
    MaxFreezes = 1
SPECIFICATION Spec
PROPERTIES
    AccessAnswered
    ImplementsMachine
CHECK_DEADLOCK FALSE
