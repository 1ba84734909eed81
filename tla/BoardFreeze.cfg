CONSTANTS
    ByteBits = 2
    ByteMod = 4
    NRegs = 5
    Decode <- MCDecode
    BusErrorVector <- MCBusErrorVector
    BusIrq = FALSE
    ResetVector = 0
    BiosBase = 0
    BiosSize = 16
    MemBase = 236
    MemSize = 8
    TermBase = 246
    IoPort = 254
    Keys <- MCKeys
    IoWords <- MCIoWords
    Images <- BusPrograms
    MaxResets = 1
    MaxFreezes = 2
SPECIFICATION Spec
INVARIANTS
    FetchedInstruction
    DataBusFresh
    StorePerformed
PROPERTIES
    OnlyPendingStores
    ReadsAnsweredOnce
    ImplementsMachine
CHECK_DEADLOCK FALSE
