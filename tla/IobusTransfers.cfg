CONSTANTS
    ByteBits = 7
    ByteMod = 128
    PciAddressPort = 3320
    PciDataPort = 3324
    PciDevices <- MCPciDevices
    PciConfig <- MCPciConfig
    PriIo = 496
    SecIo = 368
    IoSpan = 13
    SectorSize = 5
    CountMod = 8
    IndexMod = 8
    Attached <- MCAttached
    IdentifyData <- MCIdentifyData
    Garbage <- MCGarbage
    PowerOnDrives <- MCQuietDrives
    PowerOnWords <- MCZero
    PortWords <- MCTransferPorts
    DataWords <- MCTransferWords
    Sizes = {0, 2}
SPECIFICATION Spec
INVARIANTS
    TypeOK
    TransferInSector
PROPERTIES
    ImplementsIoSpace
