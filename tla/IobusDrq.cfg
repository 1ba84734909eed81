CONSTANTS
    ByteBits = 7
    ByteMod = 128
    PciAddressPort = 3320
    PciDataPort = 3324
    PciDevices <- MCPciDevices
    PciConfig <- MCPciConfig
    PriIo = 496
    SecIo = 368
    IoSpan = 13
    SectorSize = 6
    CountMod = 32
    IndexMod = 16
    Attached <- MCAttached
    IdentifyData <- MCIdentifyData
    Garbage <- MCGarbage
    PowerOnDrives <- MCQuietDrives
    PowerOnWords <- MCPowerOnWords
    PortWords <- MCTransferPorts
    DataWords <- MCTransferWords
    Sizes = {1}
SPECIFICATION Spec
INVARIANTS
    DrqMeansPending
