CONSTANTS
    Values = {"3", "5", "9", "-", "x"}
    Number <- MCNumber
    Rank <- MCRank
    Numeric = {"3", "5", "9"}
    LineBuff = 5
    MaxCols = 6
    IntBits = 4
    LongBits = 8
    HashOf <- MCHashOf
    HtSize = 7
    JoinCols = 4
    SqlArg = "statement"
    Numerals = {"0", "7"}
    Headers <- MCHeaders
    MaxLines = 2
    Cases <- TextCases
SPECIFICATION Spec
INVARIANT ComparesText
