------------------------------- MODULE Tuple -------------------------------
(***************************************************************************)
(* The tuple an executor passes down the operators, src/executor/tuple.c,  *)
(* and how scanGetTuple of src/operators/scan.c fills it from a line.      *)
(*                                                                         *)
(* A file is a sequence of lines, a line a sequence of fields.  A field is *)
(* a value of one character or Nul, the empty string; so a token of a line *)
(* is a value, a delimiter or the line feed, and takes one byte.           *)
(***************************************************************************)
EXTENDS Integers, Sequences, SequencesExt

CONSTANTS
    Values,     \* What a field may hold
    Number,     \* Number[v]: what atol makes of it
    Rank,       \* Rank[v]: its place in the order of strcmp
    LongBits,   \* Width of a long
    LineBuff,   \* LINEBUFF
    MaxCols     \* MAXCOLS

Nul == ""
Delimiter == ";"
LF == "\n"
LongMax == 2 ^ (LongBits - 1) - 1

ASSUME TupleAssumption ==
    /\ LongBits \in Nat \ {0}
    /\ LineBuff \in Nat /\ LineBuff > 1
    /\ MaxCols \in Nat /\ MaxCols >= LineBuff
    /\ Values \cap {Nul, Delimiter, LF} = {}
    /\ Number \in [Values \cup {Nul} -> Int]
    /\ Rank \in [Values \cup {Nul} -> Nat]
    /\ Number[Nul] = 0
    /\ \A v \in Values : Rank[v] > Rank[Nul]

Columns == 0 .. MaxCols - 1

\* initTupleOfSize: zeroed, but not empty.  long is the number at the start
\* of data that an aggregate stores there.
FreshTuple ==
    [type |-> "tdb", empty |-> FALSE, long |-> 0, longCount |-> 0,
     data    |-> [p \in 0 .. LineBuff - 1 |-> Nul],
     offsets |-> [c \in Columns |-> 0],
     casted  |-> [c \in Columns |-> FALSE],
     longs   |-> [c \in Columns |-> 0]]

\* Mutant: the conversions of the row before are still counted.
ResetOnlyFlags(t) == [t EXCEPT !.casted = [c \in Columns |-> FALSE]]

ResetTuple(t) ==
    [t EXCEPT !.longCount = 0, !.casted = [c \in Columns |-> FALSE]]

MarkTupleAsEmpty(t) == [t EXCEPT !.empty = TRUE]

(***************************************************************************)
(* A joined tuple is [type |-> "join", empty, left, right, leftCols]: the  *)
(* tuples of the two rows, which are those that the join keeps, and how    *)
(* many columns are of the left one.  A column is one of a part.           *)
(***************************************************************************)
Joined(left, right, leftCols) ==
    [type |-> "join", empty |-> FALSE, left |-> left, right |-> right,
     leftCols |-> leftCols]

IsLeft(t, c) == c < t.leftCols
Part(t, c) == IF t.type # "join" THEN t
              ELSE IF IsLeft(t, c) THEN t.left ELSE t.right
Place(t, c) == IF t.type = "join" /\ ~ IsLeft(t, c) THEN c - t.leftCols ELSE c

\* getTupleColByIndex, up to the next zero byte.
Text(t, c) == Part(t, c).data[Part(t, c).offsets[Place(t, c)]]

\* isCasted.
Casted(t, c) == Part(t, c).casted[Place(t, c)]

\* The offset of a converted column is an index of longs.
CastColumnToLong(t, c) ==
    [t EXCEPT !.offsets[c] = t.longCount,
              !.longs[t.longCount] = Number[Text(t, c)],
              !.longCount = @ + 1,
              !.casted[c] = TRUE]

\* getTupleLongColByIndex: the tuple it leaves, and the value it returns.
Converted(t, c) ==
    IF t.type = "tdb" \/ t.casted[c] THEN t ELSE CastColumnToLong(t, c)
WithLong(t, c) ==
    CASE t.type # "join" -> Converted(t, c)
      [] t.type = "join" /\ IsLeft(t, c) -> [t EXCEPT !.left = Converted(@, c)]
      [] OTHER -> [t EXCEPT !.right = Converted(@, Place(t, c))]
Long(t, c) == LET part == Part(t, c) IN
    IF part.type = "tdb" THEN part.long ELSE part.longs[part.offsets[Place(t, c)]]
----------------------------------------------------------------------------
\* A line as it is in the file.
RECURSIVE Bytes(_)
Bytes(line) ==
    LET field == IF Head(line) = Nul THEN <<>> ELSE <<Head(line)>>
    IN  IF Len(line) = 1 THEN Append(field, LF)
        ELSE Append(field, Delimiter) \o Bytes(Tail(line))

\* What fgets reads: at most LineBuff - 1 bytes, up to the line feed.
Fgets(bytes) ==
    SubSeq(bytes, 1, IF Len(bytes) < LineBuff THEN Len(bytes)
                                              ELSE LineBuff - 1)

\* The offsets of the columns in what was read: the start, and the byte
\* after each delimiter.
Starts(read) ==
    SetToSortSeq({0} \cup {p \in DOMAIN read : read[p] = Delimiter}, <)

\* Mutant: a column starts at its delimiter.
ScannedAtDelimiter(t, read) ==
    LET starts == Starts(read)
        byte(p) == IF p >= Len(read) \/ read[p + 1] \in {Delimiter, LF}
                   THEN Nul ELSE read[p + 1]
    IN  [t EXCEPT
          !.type = "delimited", !.empty = FALSE,
          !.data = [p \in DOMAIN @ |-> IF p <= Len(read) THEN byte(p) ELSE @[p]],
          !.offsets = [c \in Columns |->
                IF c \in 1 .. Len(starts) - 1 THEN starts[c + 1] - 1 ELSE @[c]]]

\* scanGetTuple: the bytes are read over those of the row before,
\* delimiters and the line feed become zero bytes; columns that the line
\* does not have keep the offset they had.
Scanned(t, read) ==
    LET starts == Starts(read)
        byte(p) == IF p >= Len(read) \/ read[p + 1] \in {Delimiter, LF}
                   THEN Nul ELSE read[p + 1]
    IN  [t EXCEPT
          !.type = "delimited", !.empty = FALSE,
          !.data = [p \in DOMAIN @ |-> IF p <= Len(read) THEN byte(p) ELSE @[p]],
          !.offsets = [c \in Columns |->
                IF c < Len(starts) THEN starts[c + 1] ELSE @[c]]]
----------------------------------------------------------------------------
\* A scan's file: the line and the position in it to read next.  The first
\* call opens it and skips the header.
ClosedFile == [state |-> "closed", line |-> 1, pos |-> 0]

Ahead(file, lines) == LET bytes == Bytes(lines[file.line])
                      IN  SubSeq(bytes, file.pos + 1, Len(bytes))

AtEnd(file, lines) == file.line > Len(lines)

\* scanGetTuple: what it makes of the tuple, and of the file.  At the end
\* the buffer is freed and the file closed.
ScannedTuple(t, file, lines) ==
    IF AtEnd(file, lines)
    THEN [MarkTupleAsEmpty(ResetTuple(t)) EXCEPT !.type = "delimited"]
    ELSE Scanned(ResetTuple(t), Fgets(Ahead(file, lines)))

\* Mutant: at the end the file is left as it is.
ScannedFileLeftOpen(file, lines) ==
    IF AtEnd(file, lines) THEN file
    ELSE LET ahead == Len(Ahead(file, lines))
             read  == Len(Fgets(Ahead(file, lines)))
         IN  IF read = ahead THEN [state |-> "open", line |-> file.line + 1, pos |-> 0]
             ELSE [state |-> "open", line |-> file.line, pos |-> file.pos + read]

ScannedFile(file, lines) ==
    IF AtEnd(file, lines) THEN [file EXCEPT !.state = "freed"]
    ELSE LET ahead == Len(Ahead(file, lines))
             read  == Len(Fgets(Ahead(file, lines)))
         IN  IF read = ahead THEN [state |-> "open", line |-> file.line + 1, pos |-> 0]
             ELSE [state |-> "open", line |-> file.line, pos |-> file.pos + read]
============================================================================
