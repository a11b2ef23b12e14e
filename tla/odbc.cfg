CONSTANTS
    Values = {"3", "5", "x", "y"}
    Number <- MCNumber
    Rank <- MCRank
    Numeric = {"3", "5"}
    LineBuff = 6
    MaxCols = 6
    IntBits = 8
    LongBits = 8
    HashOf <- MCRank
    HtSize = 7
    JoinCols = 4
    Headers <- MCHeaders
    Tables <- MCTables
    Statements <- MCStatements_
    Handles = {h1, h2}
    MaxScans = 2
    Bindings <- MCBindings
SYMMETRY HandleSymmetry
SPECIFICATION Spec
INVARIANTS TypeOK OwnRows FilesAreClosed OnlyTheseEndTheHost
PROPERTY ImplementsHandles
