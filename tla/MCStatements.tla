---------------------------- MODULE MCStatements ----------------------------
(***************************************************************************)
(* Two or three runs of the program on a small table.                      *)
(***************************************************************************)
EXTENDS Statements

\* The name of a number takes no unit of its own, that of a string one.
Name(type) == IF type = "long" THEN 0 ELSE 1

Col(type, len) == [name |-> Name(type), type |-> type, len |-> len]

NumStr == <<Col("long", 1), Col("str", 2)>>
Num    == <<Col("long", 1)>>

\* The same as they are declared: only a CHAR has a size.
Declared(type, size) == [name |-> Name(type), type |-> type, size |-> size]
DeclaredNumStr  == <<Declared("long", 0), Declared("str", 2)>>
DeclaredNum     == <<Declared("long", 0)>>
DeclaredNothing == <<Declared("str", 0)>>

\* A size that is stored as a negative length.
DeclaredHuge == <<Declared("long", 0), Declared("str", 6)>>

\* NumStr with another name for the string.
Renamed(length) == [DeclaredNumStr EXCEPT ![2].name = length]

Nothing == [op |-> "select", columns |-> <<>>, from |-> "table",
            types |-> <<>>, select |-> <<>>, rows |-> 0]

Create(cs)         == [Nothing EXCEPT !.op = "create", !.columns = cs]
Insert(ts, sel, n) == [Nothing EXCEPT !.op = "insert", !.from = "text",
                          !.types = ts, !.select = sel, !.rows = n]
InsertItself       == [Nothing EXCEPT !.op = "insert"]
Select             == Nothing

\* The table before: none, or one of two rows.
OldRow(r) ==
    LET types == <<"long", "str">>
    IN  RecordWritten(types, TextTuple(types, 0, r))

OldTables ==
    {[exists |-> FALSE, content |-> <<>>],
     [exists |-> TRUE, content |-> Header(NumStr) \o OldRow(1) \o OldRow(2)]}

Together(S, T) == {<<s, t>> : s \in S, t \in T}

InsertTwo == Insert(<<"long", "str">>, <<1, 2>>, 2)
InsertOne == Insert(<<"long", "str">>, <<1>>, 1)

MCRequests ==
    Together({Create(DeclaredNumStr), Create(DeclaredNum),
              Create(DeclaredNothing), InsertTwo, InsertOne},
             {Select, InsertItself, InsertTwo})
    \cup Together({Create(DeclaredHuge), Create(Renamed(4))}, {Select})
    \cup Together({Create(Renamed(0)), Create(Renamed(2))}, {InsertItself})

MCAnyDef == {<<>>, NumStr, Num}

\* Queries the check lets in although the record has another layout.
OddRequests ==
    Together({Insert(<<"long", "long">>, <<2, 1>>, 1)}, {Select})

NumNum == <<Col("long", 1), Col("long", 1)>>

OddTables == {[exists |-> TRUE, content |-> Header(NumNum)]}

\* The tables of both instances are such as an INSERT leaves.
ASSUME MCTablesFit == OldTablesFit
============================================================================
