CONSTANTS
    MinCapacity = 1
    MaxCapacity = 4
    MaxSize = 6
    Contents = {"x", "y"}
SPECIFICATION Spec
INVARIANTS TypeOK WithinCapacity RowsKept HeldIsReadable
