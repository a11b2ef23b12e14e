------------------------------ MODULE Catalog ------------------------------
(***************************************************************************)
(* catalogFile of src/planner/catalog.c: the columns of a text file and    *)
(* their types, from its first two lines.                                  *)
(***************************************************************************)
EXTENDS Tuple

CONSTANTS
    Numeric,    \* Values of digits only
    Headers     \* Headers[f]: the names of the columns of file f

ASSUME CatalogAssumption ==
    /\ Numeric \subseteq Values
    /\ \A f \in DOMAIN Headers : Len(Headers[f]) \in 1 .. MaxCols

\* What fgets returns of the first line, in fields: with a cut line the
\* planner sees the same part as the scan.
FieldsOf(read) ==
    LET t == Scanned(FreshTuple, read)
    IN  [n \in 1 .. Len(Starts(read)) |-> Text(t, n - 1)]

\* A column is a number if its field in the first line has only digits, or
\* nothing; one that the line does not have stays DTYPE_STR.  Without a line
\* to look at there is no catalog: the planner crashes.
CatalogFile(f, lines) ==
    LET fields == FieldsOf(Fgets(Bytes(lines[1])))
    IN  IF lines = <<>> THEN <<>>
        ELSE [c \in DOMAIN Headers[f] |->
                [name |-> Headers[f][c],
                 type |-> IF c <= Len(fields) /\ fields[c] \in Numeric \cup {Nul}
                          THEN "long" ELSE "str"]]
============================================================================
