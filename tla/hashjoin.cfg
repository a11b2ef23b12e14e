CONSTANTS
    Keys <- MCKeys
    Empty <- NoBytes
    TableSize = 2
    HashOf <- MCHash
    Cap = 2
    LeftInputs <- LeftTables
    RightInputs <- RightTables
    IntMod = 4
SPECIFICATION FairSpec
INVARIANTS TypeOK ReturnsExactly InOrder NoPairTwice
PROPERTY Ends
