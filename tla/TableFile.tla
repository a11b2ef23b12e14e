----------------------------- MODULE TableFile -----------------------------
(***************************************************************************)
(* The .tdb file of a table, src/io/tdb.c: a header with the definition of *)
(* the table and after it records of fixed size, without marks.            *)
(*                                                                         *)
(* A file is a sequence of units.  A unit of the header is the number of   *)
(* columns, the descriptor of a column, or a part of a name that the       *)
(* descriptor does not stand for; these are put behind the descriptors, as *)
(* nothing depends on where in the header they are.  A long is one unit of *)
(* a record and a string StrUnits of them.  A definition is a sequence of  *)
(* columns [name, type, len] with the lengths in units.                    *)
(***************************************************************************)
EXTENDS Integers, Sequences, SequencesExt

CONSTANTS
    StrUnits,       \* TDBMAXSTRINGSIZE: what INSERT writes for a string
    ByteRange       \* The values a char has, which is how a length is stored

ASSUME StrUnitsAssumption == StrUnits \in Nat \ {0}

ASSUME ByteRangeAssumption == ByteRange \in Nat \ {0}

Types == {"long", "str"}

\* name is the length of the name, and len that of the column: what was
\* declared, also CHAR(0), in a signed char.
Column == [name : Nat, type : Types, len : Int]

\* A byte that nothing was written to, in a hole of the file or a new buffer.
Zero == <<"zero">>

\* The sum of the first k of these numbers.
SumFirst(lens, k) ==
    LET sum[i \in 0 .. Len(lens)] == IF i = 0 THEN 0 ELSE sum[i - 1] + lens[i]
    IN  sum[k]

NamesSize(def) == SumFirst([c \in DOMAIN def |-> def[c].name], Len(def))

Header(def) ==
    <<<<"columns", Len(def)>>>>
        \o [c \in DOMAIN def |->
              <<"column", def[c].name, def[c].type, def[c].len>>]
        \o [n \in 1 .. NamesSize(def) |-> <<"name">>]

\* Mutant: the number of columns is counted twice.
MetadataSizeOver(def) == 2 + Len(def) + NamesSize(def)

\* Mutant: the names are not counted.
MetadataSizeUnnamed(def) == 1 + Len(def)

MetadataSize(def) == 1 + Len(def) + NamesSize(def)

Metadata(content) ==
    [c \in 1 .. (IF content[1] = Zero THEN 0 ELSE content[1][2]) |->
        [name |-> content[c + 1][2],
         type |-> content[c + 1][3],
         len  |-> content[c + 1][4]]]

\* The header is all there; a hole in front reads as a table of no columns.
HasMetadata(content) ==
    /\ content # <<>>
    /\ \/ content[1] = Zero
       \/ /\ content[1][1] = "columns"
          /\ \A c \in 1 .. content[1][2] :
                c + 1 \in DOMAIN content /\ content[c + 1][1] = "column"
          /\ MetadataSize(Metadata(content)) <= Len(content)

\* What readTdbMetadata may return: it does not look at what fread returns,
\* so of a torn header the result is partly uninitialized.
MetadataRead(content, anything) ==
    IF HasMetadata(content) THEN {Metadata(content)} ELSE anything
----------------------------------------------------------------------------
LengthsBefore(def, c) == SumFirst([i \in DOMAIN def |-> def[i].len], c - 1)

\* scan.recordSize of makeScanTDBOp.
RecordSize(def) == LengthsBefore(def, Len(def) + 1)

Data(content, def) ==
    SubSeq(content, MetadataSize(def) + 1, Len(content))

\* Mutant: part of a record at the end counts as one.
RecordsRoundedUp(data, def) ==
    LET size == RecordSize(def) IN
    [i \in 1 .. ((Len(data) + size - 1) \div size) |->
        SubSeq(data, (i - 1) * size + 1,
               IF i * size > Len(data) THEN Len(data) ELSE i * size)]

\* A piece of the data area cut into records; a torn one at the end is lost.
Records(data, def) ==
    [i \in 1 .. (Len(data) \div RecordSize(def)) |->
        SubSeq(data, (i - 1) * RecordSize(def) + 1, i * RecordSize(def))]

UnitsWritten(type) == IF type = "long" THEN 1 ELSE StrUnits

\* An int assigned to a char, which is signed in the builds of the program.
SignedByte(n) ==
    LET byte == n % ByteRange
    IN  IF byte < ByteRange \div 2 THEN byte ELSE byte - ByteRange

\* constructTDB: the definition of a table with columns [name, type, size].
ConstructTDB(columns) ==
    [c \in DOMAIN columns |->
        [name |-> columns[c].name,
         type |-> columns[c].type,
         len  |-> IF columns[c].type = "long" THEN 1 ELSE SignedByte(columns[c].size)]]

(***************************************************************************)
(* handleTupleInsert: the record written for a tuple with columns of these *)
(* types.  It takes every column of the tuple, in the tuple's order,       *)
(* whatever the query selects of them.  tuple[c] are the units found at    *)
(* the offset of column c, at least StrUnits of them.  The record is put   *)
(* together in a buffer of TDBRECORDMAXSIZE bytes, which the tuples of the *)
(* model never overrun.                                                    *)
(***************************************************************************)
Field(types, tuple, c) == SubSeq(tuple[c], 1, UnitsWritten(types[c]))

RecordWritten(types, tuple) ==
    FlattenSeq([c \in DOMAIN types |-> Field(types, tuple, c)])

\* The record for the selected columns, in the order of the selection.
RecordSelected(types, select, tuple) ==
    FlattenSeq([i \in DOMAIN select |-> Field(types, tuple, select[i])])

\* resultDescription.columns[c].active of the projection, in column order.
Active(types, select) ==
    SelectSeq([c \in DOMAIN types |-> c],
              LAMBDA c : \E i \in DOMAIN select : select[i] = c)

\* executeInsert lets the query in: as many columns selected as the table
\* has, and the active ones, in column order, of the types of the table's.
Accepted(types, select, def) ==
    LET active == Active(types, select) IN
    /\ Len(select) = Len(def)
    /\ \A i \in DOMAIN active : types[active[i]] = def[i].type
============================================================================
