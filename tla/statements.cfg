CONSTANTS
    StrUnits = 2
    ByteRange = 8
    Procs = {1, 2}
    Requests <- MCRequests
    InitialTables <- OldTables
    AnyDef <- MCAnyDef
    BlockSize = 1
SPECIFICATION FairSpec
INVARIANTS TypeOK ContentOfLast InsertedIsRead NoTornRecord
PROPERTY Ends
