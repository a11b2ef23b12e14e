CONSTANTS
    Keys <- MCKeys
    Empty <- NoBytes
    TableSize = 2
    HashOf <- MCHash
    Cap = 3
    LeftInputs <- FilledTables
    RightInputs <- FilledTables
    IntMod = 4
SPECIFICATION Spec
INVARIANT Complete
