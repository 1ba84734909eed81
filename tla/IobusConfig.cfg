CONSTANTS
    ByteBits = 7
    ByteMod = 128
    PciAddressPort = 3320
    PciDataPort = 3324
    PciDevices <- MCPciDevices
    PciConfig <- MCPciConfig
    PriIo = 496
    SecIo = 368
    IoSpan = 13
    SectorSize = 4
    CountMod = 8
    IndexMod = 8
    Attached <- MCMaster
    IdentifyData <- MCIdentifyData
    Garbage <- MCGarbage
    PowerOnDrives <- MCNoisyDrives
    PowerOnWords <- MCZero
    PortWords <- MCConfigPorts
    DataWords <- MCConfigWords
    Sizes = {2}
SPECIFICATION Spec

    
PROPERTIES
    ImplementsIoSpace
