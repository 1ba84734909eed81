CONSTANTS
    Words <- MCWords
    PowerOn <- MCPowerOn
SPECIFICATION Spec
INVARIANTS
    CompareByteComparesByte
