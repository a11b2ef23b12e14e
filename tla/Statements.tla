---------------------------- MODULE Statements -----------------------------
(***************************************************************************)
(* CREATE TABLE, INSERT and SELECT on one table: executeCreateTable,       *)
(* executeInsert, and the part of executeSelect that touches the file.     *)
(* Each statement is a run of the program, so several may be under way at  *)
(* once and any may be killed; they meet in the file of the table.  What a *)
(* process has written with fwrite reaches the file when the C library     *)
(* flushes it: at any time, in order, at the process's own offset.         *)
(***************************************************************************)
EXTENDS TableFile

CONSTANTS
    Procs,          \* The runs of the program
    Requests,       \* What they may be asked to do: process -> statement
    InitialTables,  \* What the file may hold before: [exists, content]
    AnyDef,         \* Definitions uninitialized memory may look like
    BlockSize       \* Records in a full scan buffer: TDBSCANBUFFRECORDS

(***************************************************************************)
(* A statement is [op, columns, from, types, select, rows]: columns for    *)
(* CREATE, a sequence of [name, type, size] as in CreateInfo, the others   *)
(* for INSERT.  The query of an INSERT reads a text file of `rows' rows of *)
(* columns `types' and selects the columns `select', or, with              *)
(* from = "table", it is SELECT * of the table itself.                     *)
(***************************************************************************)
Statement == [op : {"create", "insert", "select"},
              columns : Seq([name : Nat, type : Types, size : Nat]),
              from : {"text", "table"}, types : Seq(Types),
              select : Seq(Nat), rows : Nat]

\* What may be in a file: parts of headers and of rows, and holes.
Unit ==
    {Zero} \cup ({"columns"} \X Nat) \cup ({"column"} \X Nat \X Types \X Int)
    \cup {<<"name">>} \cup ({"row"} \X (Procs \cup {0}) \X Nat \X Nat \X Nat)

\* 0 stands for no process, and for one that wrote the file before.
ASSUME StatementsAssumption ==
    /\ 0 \notin Procs
    /\ BlockSize \in Nat \ {0}
    /\ Requests \subseteq [Procs -> Statement]
    /\ InitialTables \subseteq [exists : BOOLEAN, content : Seq(Unit)]
    /\ \A t \in InitialTables : t.exists \/ t.content = <<>>
    /\ AnyDef \subseteq Seq(Column)

VARIABLES
    exists, table,  \* The file of the table
    stmt,           \* What each process was asked to do
    pc,             \* Where each process is
    def,            \* The definition its scan of the table was planned with
    target,         \* The definition the statement writes
    buf,            \* Units written but not flushed
    pos,            \* The offset in the file of the first of them
    read,           \* Rows of the text file, or units of the data area, read
    out,            \* The records a SELECT has returned
    last,           \* History: the process that truncated the file last
    overlapped,     \* History: it was truncated while another was writing
    stable          \* History: the file is as it was when p was planned

file == <<exists, table>>
history == <<last, overlapped>>
vars == <<file, stmt, pc, def, target, buf, pos, read, out, history, stable>>

Init ==
    /\ \E t \in InitialTables : exists = t.exists /\ table = t.content
    /\ stmt \in Requests
    /\ pc = [p \in Procs |-> "plan"]
    /\ def = [p \in Procs |-> <<>>]
    /\ target = [p \in Procs |-> <<>>]
    /\ buf = [p \in Procs |-> <<>>]
    /\ pos = [p \in Procs |-> 0]
    /\ read = [p \in Procs |-> 0]
    /\ out = [p \in Procs |-> <<>>]
    /\ last = 0
    /\ overlapped = FALSE
    /\ stable = [p \in Procs |-> TRUE]

Scans(p) == stmt[p].op = "select" \/ (stmt[p].op = "insert" /\ stmt[p].from = "table")

QueryTypes(p) ==
    IF stmt[p].from = "table" THEN [c \in DOMAIN def[p] |-> def[p][c].type]
                              ELSE stmt[p].types

QuerySelect(p) ==
    IF stmt[p].from = "table" THEN [c \in DOMAIN def[p] |-> c]
                              ELSE stmt[p].select

Goto(p, place) == pc' = [pc EXCEPT ![p] = place]

Writing(p) == pc[p] \in {"write", "close"}

TextInsert(p) ==
    stmt[p].op = "insert" /\ stmt[p].from = "text" /\ stmt[p].select # <<>>
----------------------------------------------------------------------------
\* Planning: a scan of the table reads its header, and stops the program when
\* there is no memory for its buffer, as when the lengths add up to less than
\* zero: the size of a record is unsigned.
Plan(p) ==
    /\ pc[p] = "plan"
    /\ Scans(p) => exists
    /\ \E d \in IF Scans(p) THEN MetadataRead(table, AnyDef) ELSE {<<>>} :
          def' = [def EXCEPT ![p] = d]
    /\ IF RecordSize(def'[p]) < 0 THEN Goto(p, "failed")
       ELSE Goto(p, CASE stmt[p].op = "create" -> "open"
                      [] stmt[p].op = "insert" -> "check"
                      [] stmt[p].op = "select" -> "scan")
    /\ stable' = [stable EXCEPT ![p] = TRUE]
    /\ UNCHANGED <<file, stmt, target, buf, pos, read, out, history>>

\* executeInsert reads the header of its target and compares the columns.
Check(p) ==
    /\ pc[p] = "check"
    /\ exists
    /\ \E d \in MetadataRead(table, AnyDef) :
          /\ target' = [target EXCEPT ![p] = d]
          /\ Goto(p, IF Accepted(QueryTypes(p), QuerySelect(p), d)
                     THEN "open" ELSE "failed")
    /\ UNCHANGED <<file, stmt, def, buf, pos, read, out, history, stable>>

\* "Table does not exist", "Unable to open the file", "No columns selected".
Fail(p) ==
    /\ \/ pc[p] = "plan" /\ Scans(p) /\ ~ exists
       \/ pc[p] = "check" /\ ~ exists
       \/ pc[p] = "scan" /\ def[p] = <<>>
    /\ Goto(p, "failed")
    /\ UNCHANGED <<file, stmt, def, target, buf, pos, read, out, history, stable>>

\* fopen(path, "w+") empties the file; the header goes to the buffer.
OpensFile(p, place) ==
    /\ exists' = TRUE
    /\ buf' = [buf EXCEPT ![p] = Header(target'[p])]
    /\ Goto(p, place)
    /\ last' = p
    /\ overlapped' = (overlapped \/ \E q \in Procs : Writing(q))
    /\ stable' = [q \in Procs |-> FALSE]
    /\ UNCHANGED <<stmt, def, pos, read, out>>

\* executeCreateTable: writeTdbMetadata opens, writes and closes the file.
CreateTable(p) ==
    /\ pc[p] = "open" /\ stmt[p].op = "create"
    /\ target' = [target EXCEPT ![p] = ConstructTDB(stmt[p].columns)]
    /\ table' = <<>>
    /\ OpensFile(p, "close")

\* Mutant: the file is opened without truncating it.
OpenKeep(p) ==
    /\ pc[p] = "open" /\ stmt[p].op = "insert"
    /\ UNCHANGED <<table, target>>
    /\ OpensFile(p, "write")

\* executeInsert opens its target, and runs its query afterwards.
Open(p) ==
    /\ pc[p] = "open" /\ stmt[p].op = "insert"
    /\ table' = <<>>
    /\ UNCHANGED target
    /\ OpensFile(p, "write")
----------------------------------------------------------------------------
\* Row r of the text file of p, as a tuple of the scan.
TextTuple(types, p, r) ==
    [c \in DOMAIN types |-> [n \in 1 .. StrUnits |-> <<"row", p, r, c, n>>]]

RowWritten(p, r) ==
    RecordWritten(stmt[p].types, TextTuple(stmt[p].types, p, r))

\* A row of the text file has come through the query.
WriteRow(p) ==
    /\ pc[p] = "write"
    /\ TextInsert(p)
    /\ read[p] < stmt[p].rows
    /\ buf' = [buf EXCEPT ![p] = @ \o RowWritten(p, read[p] + 1)]
    /\ read' = [read EXCEPT ![p] = @ + 1]
    /\ UNCHANGED <<file, stmt, pc, def, target, pos, out, history, stable>>

\* The query has returned its empty tuple.
LastRow(p) ==
    /\ pc[p] = "write"
    /\ TextInsert(p)
    /\ read[p] = stmt[p].rows
    /\ Goto(p, "close")
    /\ UNCHANGED <<file, stmt, def, target, buf, pos, read, out, history, stable>>

BufferSize(p) == BlockSize * RecordSize(def[p])

\* What read() delivers to fillBuffer: a block, or what the file still has.
Block(p) ==
    LET data == Data(table, def[p])
        end  == read[p] + BufferSize(p)
    IN  SubSeq(data, read[p] + 1, IF end > Len(data) THEN Len(data) ELSE end)

\* A record of the table as a tuple: a string that is shorter than StrUnits
\* is taken along with what follows it.
TableTuple(d, rec) ==
    [c \in DOMAIN d |-> [n \in 1 .. StrUnits |->
        IF LengthsBefore(d, c) + n \in DOMAIN rec
        THEN rec[LengthsBefore(d, c) + n] ELSE Zero]]

Rewritten(p, rec) == RecordWritten(QueryTypes(p), TableTuple(def[p], rec))

Scanning(p) ==
    /\ pc[p] = "scan" \/ (pc[p] = "write" /\ stmt[p].from = "table")
    /\ def[p] # <<>>

\* Mutant: a short read is not taken for the end.
ReadBlockOn(p) ==
    LET records == Reverse(Records(Block(p), def[p])) IN
    /\ Scanning(p) /\ RecordSize(def[p]) > 0
    /\ read' = [read EXCEPT ![p] = @ + Len(Block(p))]
    /\ IF stmt[p].op = "select"
       THEN out' = [out EXCEPT ![p] = @ \o records] /\ UNCHANGED buf
       ELSE /\ buf' = [buf EXCEPT ![p] =
                          @ \o FlattenSeq([i \in DOMAIN records |->
                                              Rewritten(p, records[i])])]
            /\ UNCHANGED out
    /\ UNCHANGED <<file, stmt, pc, def, target, pos, history, stable>>

\* The scan fills its buffer and hands out its records from the last to the
\* first, to the output or to handleTupleInsert; a short read is the end.  The
\* tuple of the scan takes TUPLESIZE bytes: longer records are left out.
ReadBlock(p) ==
    LET records == Reverse(Records(Block(p), def[p])) IN
    /\ Scanning(p) /\ RecordSize(def[p]) > 0
    /\ read' = [read EXCEPT ![p] = @ + Len(Block(p))]
    /\ IF stmt[p].op = "select"
       THEN out' = [out EXCEPT ![p] = @ \o records] /\ UNCHANGED buf
       ELSE /\ buf' = [buf EXCEPT ![p] =
                          @ \o FlattenSeq([i \in DOMAIN records |->
                                              Rewritten(p, records[i])])]
            /\ UNCHANGED out
    /\ Goto(p, IF Len(Block(p)) = BufferSize(p) THEN pc[p]
               ELSE IF stmt[p].op = "select" THEN "done" ELSE "close")
    /\ UNCHANGED <<file, stmt, def, target, pos, history, stable>>

\* A query of no columns stops the program; its exit flushes the header.
NoColumns(p) ==
    /\ pc[p] = "write"
    /\ QuerySelect(p) = <<>>
    /\ Goto(p, "close")
    /\ UNCHANGED <<file, stmt, def, target, buf, pos, read, out, history, stable>>
----------------------------------------------------------------------------
\* The file with these units at this offset.  Writing past the end of a file
\* that another process has truncated leaves a hole, which reads as zeros.
Patched(content, at, units) ==
    LET end == at + Len(units) IN
    [i \in 1 .. (IF Len(content) > end THEN Len(content) ELSE end) |->
        IF i \in (at + 1) .. end THEN units[i - at]
        ELSE IF i \in DOMAIN content THEN content[i] ELSE Zero]

\* The C library writes out some of what is buffered.
Flush(p) ==
    /\ Writing(p)
    /\ \E n \in DOMAIN buf[p] :
          /\ table' = Patched(table, pos[p], SubSeq(buf[p], 1, n))
          /\ buf' = [buf EXCEPT ![p] = SubSeq(@, n + 1, Len(@))]
          /\ pos' = [pos EXCEPT ![p] = @ + n]
    /\ stable' = [q \in Procs |-> FALSE]
    /\ UNCHANGED <<exists, stmt, pc, def, target, read, out, history>>

\* Mutant: the file is left open, and what is buffered is lost.
CloseLate(p) ==
    /\ pc[p] = "close"
    /\ Goto(p, "done")
    /\ UNCHANGED <<file, stmt, def, target, buf, pos, read, out, history, stable>>

\* fclose returns when the buffer has been written.
Close(p) ==
    /\ pc[p] = "close"
    /\ buf[p] = <<>>
    /\ Goto(p, "done")
    /\ UNCHANGED <<file, stmt, def, target, buf, pos, read, out, history, stable>>

Ended(p) == pc[p] \in {"done", "failed", "killed"}

\* The process ends at once: what is buffered is lost.
Dies(p) ==
    /\ Goto(p, "killed")
    /\ buf' = [buf EXCEPT ![p] = <<>>]
    /\ UNCHANGED <<file, stmt, def, target, pos, read, out, history, stable>>

\* The number of records read is divided by the size of a record, which is
\* zero when the table has only columns of type CHAR(0).
DivideByZero(p) == Scanning(p) /\ RecordSize(def[p]) = 0 /\ Dies(p)

\* The process is killed, or the machine stops.
Kill(p) == ~ Ended(p) /\ Dies(p)

Step(p) ==
    \/ Plan(p) \/ Check(p) \/ Fail(p) \/ CreateTable(p) \/ Open(p)
    \/ WriteRow(p) \/ LastRow(p) \/ ReadBlock(p) \/ NoColumns(p)
    \/ DivideByZero(p) \/ Flush(p) \/ Close(p)

AllEnded == (\A p \in Procs : Ended(p)) /\ UNCHANGED vars

Next == (\E p \in Procs : Step(p) \/ Kill(p)) \/ AllEnded

Spec == Init /\ [][Next]_vars

\* The machine goes on running some process as long as one can run.
FairSpec == Spec /\ WF_vars(\E p \in Procs : Step(p))
----------------------------------------------------------------------------
(***************************************************************************)
(* Properties.                                                             *)
(***************************************************************************)
Places == {"plan", "check", "open", "write", "scan", "close",
           "done", "failed", "killed"}

\* Each process is at a place its statement leads to, holds unwritten units
\* only while it writes, and has read whole records but for the last block.
TypeOK ==
    /\ exists \in BOOLEAN /\ overlapped \in BOOLEAN
    /\ exists \/ table = <<>>
    /\ last \in Procs \cup {0}
    /\ stable \in [Procs -> BOOLEAN]
    /\ pc \in [Procs -> Places]
    /\ \A p \in Procs :
          /\ pc[p] \in {"write", "check"} => stmt[p].op = "insert"
          /\ pc[p] = "scan" => stmt[p].op = "select"
          /\ pos[p] \in Nat /\ read[p] \in Nat
          /\ Writing(p) \/ buf[p] = <<>>

RowsOf(p) == IF TextInsert(p) THEN stmt[p].rows ELSE 0

RowSelected(p, r) ==
    RecordSelected(stmt[p].types, stmt[p].select, TextTuple(stmt[p].types, p, r))

\* The file as the statement of p should leave it.
Whole(p) ==
    Header(target[p]) \o FlattenSeq([r \in 1 .. RowsOf(p) |-> RowWritten(p, r)])

InsertsItself(p) == stmt[p].op = "insert" /\ stmt[p].from = "table"

\* The header that p writes does not reach into what its scan, planned with
\* an earlier header, takes for rows.
HeaderKept(p) == InsertsItself(p) => MetadataSize(target[p]) <= MetadataSize(def[p])

\* Unless statements write at the same time, the file is what the last of
\* them has written of its table so far: a header and rows from the first
\* on, cut off anywhere after a crash, nothing of the former table, and all
\* of it once the statement has ended.  A statement that inserts a table
\* into itself finds it emptied and leaves it without rows, if no CREATE
\* with longer names came between its planning and its check: then it reads
\* a part of its own header.
ContentOfLast ==
    last # 0 /\ ~ overlapped /\ HeaderKept(last) =>
        /\ IsPrefix(table \o buf[last], Whole(last))
        /\ pc[last] = "done" => table = Whole(last)

\* The records of the statement have the layout its header says.
Fits(p) ==
    /\ TextInsert(p)
    /\ stmt[p].select = [c \in DOMAIN stmt[p].types |-> c]
    /\ DOMAIN target[p] = DOMAIN stmt[p].types
    /\ \A c \in DOMAIN target[p] : target[p][c].len = UnitsWritten(stmt[p].types[c])

\* What a SELECT of a table nobody writes meanwhile returns of the rows that
\* the INSERT before it selected: those that reached the file whole, once.
ReadsBack(p) ==
    LET k == Len(Data(table, def[p])) \div RecordSize(def[p]) IN
    /\ Len(out[p]) = k
    /\ {out[p][n] : n \in DOMAIN out[p]} = {RowSelected(last, r) : r \in 1 .. k}

ReadsInsert(p) ==
    /\ stmt[p].op = "select" /\ pc[p] = "done"
    /\ stable[p]
    /\ HasMetadata(table)
    /\ last # 0 /\ ~ overlapped /\ TextInsert(last)

\* A row that was inserted comes back from the file unit by unit, with the
\* header of one program and the scan of another, and also from the file of
\* an INSERT that was killed between any two writes.
InsertedIsRead ==
    \A p \in Procs : ReadsInsert(p) /\ Fits(last) => ReadsBack(p)

\* All statements have the layout d, with names of the same lengths.
Uniform(d) ==
    /\ \A c \in DOMAIN d : d[c].len >= 0
    /\ \A q \in Procs : /\ target[q] \in {<<>>, d}
                        /\ TextInsert(q) => target[q] = <<>> \/ Fits(q)
                        /\ HeaderKept(q)

\* Row r of process q in a table of layout d.
RowOfTable(d, q, r) ==
    FlattenSeq([c \in DOMAIN d |-> [n \in 1 .. d[c].len |-> <<"row", q, r, c, n>>]])

IsRow(rec, d) ==
    /\ rec[1][1] = "row"
    /\ rec = RowOfTable(d, rec[1][2], rec[1][3])

\* What an INSERT has left, perhaps killed when its header was in the file.
LeftByInsert(content) ==
    LET d == Metadata(content) IN
    content # <<>> =>
        /\ HasMetadata(content)
        /\ \E k \in 0 .. Len(content) :
              IsPrefix(content,
                       Header(d) \o FlattenSeq([r \in 1 .. k |-> RowOfTable(d, 0, r)]))

OldTablesFit == \A t \in InitialTables : LeftByInsert(t.content)

\* A SELECT that runs while the table is rewritten may see old and new rows,
\* but no record made of two rows and none twice: each block starts at the
\* start of a record and each record in the file is one that was written.
\* This takes statements that keep the table's definition: after a CREATE
\* with names of other lengths the records lie at other offsets, and a scan
\* that was planned before returns parts of the header or of two rows.
NoTornRecord ==
    \A p \in Procs :
        Uniform(def[p]) /\ ~ overlapped =>
            /\ \A n \in DOMAIN out[p] : IsRow(out[p][n], def[p])
            /\ IsInjective(out[p])

\* Every statement ends, also one that reads the table it is writing: it
\* does not chase its own rows.
Ends == <>(\A p \in Procs : Ended(p))

\* insert.c:56: "Check target table matches result description of the query".
\* A query that passes the check can be read back.
AcceptedIsRead == \A p \in Procs : ReadsInsert(p) => ReadsBack(p)
============================================================================
