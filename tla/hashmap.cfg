CONSTANTS
    Keys = {"", "a", "c"}
    Empty = ""
    Values = {0, 1}
    TableSize = 2
    HashOf <- MCHashColliding
    Cap = 2
SPECIFICATION Spec
INVARIANTS TypeOK UnusedOnlyAlone KeysInTheirBucket OneNodePerKey CursorInRange
PROPERTY ActsAsMultiMap
CHECK_DEADLOCK FALSE
