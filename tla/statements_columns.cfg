CONSTANTS
    StrUnits = 2
    ByteRange = 8
    Procs = {1, 2}
    Requests <- OddRequests
    InitialTables <- OddTables
    AnyDef <- MCAnyDef
    BlockSize = 1
SPECIFICATION Spec
INVARIANT AcceptedIsRead
