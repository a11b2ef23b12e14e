CONSTANTS
    MinLeft = 1
    MaxLeft = 3
    MaxRight = 3
SPECIFICATION FairSpec
INVARIANTS TypeOK ReturnedSoFar
PROPERTY ImplementsJoin
