CONSTANTS
    MaxBytes = 40
    RecordSize = 3
    BlockSize = 3
SPECIFICATION FairSpec
INVARIANTS TypeOK NothingLost BlockwiseReversed
PROPERTY ImplementsIterator
