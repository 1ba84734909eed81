CONSTANTS
    Words <- MCAllWords
    PowerOn <- MCPowerOn
SPECIFICATION Spec
INVARIANTS
    TypeOK
    LatchesFollowLayout
    DisassemblesTheRest
