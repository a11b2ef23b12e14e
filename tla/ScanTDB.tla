------------------------------ MODULE ScanTDB ------------------------------
(***************************************************************************)
(* The scan of a .tdb table, src/operators/scanTDB.c: fillBuffer reads the *)
(* data area of the file a block at a time, scanTDBGetTuple hands out the  *)
(* records of the block from the last to the first.                        *)
(*                                                                         *)
(* Records are numbered from 1 in the order of the file.  The data area is *)
(* any number of bytes: after the last record there may be part of one,    *)
(* left by an INSERT that did not finish.                                  *)
(***************************************************************************)
EXTENDS Integers, Sequences

CONSTANTS MaxBytes,     \* Bound on the size of the data area
          RecordSize,   \* scan.recordSize
          BlockSize     \* Records in a full buffer: TDBSCANBUFFRECORDS

ASSUME ScanAssumption ==
    /\ MaxBytes \in Nat
    /\ RecordSize \in Nat \ {0}
    /\ BlockSize \in Nat \ {0}

VARIABLES
    bytes,      \* Size of the data area of the file
    cursor,     \* scan.cursor: bytes of it that have been read
    first,      \* Records before the first one of the buffer
    inBuffer,   \* scan.recordsInBuffer
    fileRead,   \* scan.fileRead: a short read has met the end of the file
    pc,         \* "call" inside getTuple, "returned", "done"
    out         \* The records returned so far

vars == <<bytes, cursor, first, inBuffer, fileRead, pc, out>>

Smaller(a, b) == IF a <= b THEN a ELSE b

\* Mutant: the buffer does not hold whole records.
OddBufferSize == RecordSize * BlockSize + 1

BufferSize == RecordSize * BlockSize

Records == bytes \div RecordSize

Init ==
    /\ bytes \in 0 .. MaxBytes
    /\ cursor = 0
    /\ first = 0
    /\ inBuffer = 0
    /\ fileRead = FALSE
    /\ pc = "call"
    /\ out = <<>>
----------------------------------------------------------------------------
\* What read() returns: all of a buffer or all that is left.
BytesRead == Smaller(BufferSize, bytes - cursor)

\* Mutant: the position of the first record of the buffer is not kept up.
FillBufferStale ==
    /\ pc = "call"
    /\ inBuffer = 0
    /\ ~ fileRead
    /\ cursor' = cursor + BytesRead
    /\ inBuffer' = BytesRead \div RecordSize
    /\ fileRead' = (BytesRead < BufferSize)
    /\ UNCHANGED <<bytes, first, pc, out>>

\* The buffer is filled anew: whole records are counted, and a short read
\* closes the file.
FillBuffer ==
    /\ pc = "call"
    /\ inBuffer = 0
    /\ ~ fileRead
    /\ cursor' = cursor + BytesRead
    /\ first' = cursor \div RecordSize
    /\ inBuffer' = BytesRead \div RecordSize
    /\ fileRead' = (BytesRead < BufferSize)
    /\ UNCHANGED <<bytes, pc, out>>

\* Mutant: the record after the last is taken first.
ReturnPastEnd ==
    /\ pc = "call"
    /\ inBuffer > 0
    /\ out' = Append(out, first + inBuffer + 1)
    /\ inBuffer' = inBuffer - 1
    /\ pc' = "returned"
    /\ UNCHANGED <<bytes, cursor, first, fileRead>>

ReturnRecord ==
    /\ pc = "call"
    /\ inBuffer > 0
    /\ out' = Append(out, first + inBuffer)
    /\ inBuffer' = inBuffer - 1
    /\ pc' = "returned"
    /\ UNCHANGED <<bytes, cursor, first, fileRead>>

\* Mutant: the end of the file is taken for the end of the buffer.
ReturnEmptyEarly ==
    /\ pc = "call"
    /\ fileRead
    /\ pc' = "done"
    /\ UNCHANGED <<bytes, cursor, first, inBuffer, fileRead, out>>

\* Frees the buffer.
ReturnEmpty ==
    /\ pc = "call"
    /\ inBuffer = 0
    /\ fileRead
    /\ pc' = "done"
    /\ UNCHANGED <<bytes, cursor, first, inBuffer, fileRead, out>>

CallAgain ==
    /\ pc = "returned"
    /\ pc' = "call"
    /\ UNCHANGED <<bytes, cursor, first, inBuffer, fileRead, out>>

\* A parent that honours the iterator protocol does not call again.
Stopped == pc = "done" /\ UNCHANGED vars

Work == FillBuffer \/ ReturnRecord \/ ReturnEmpty \/ CallAgain

Next == Work \/ Stopped

Spec == Init /\ [][Next]_vars

\* One thread, and a parent that calls until it gets the empty tuple.
FairSpec == Spec /\ WF_vars(Work)
----------------------------------------------------------------------------
(***************************************************************************)
(* Properties.                                                             *)
(***************************************************************************)
\* The counts stay within the file and the buffer.
TypeOK ==
    /\ bytes \in 0 .. MaxBytes
    /\ cursor \in 0 .. bytes
    /\ first \in 0 .. Records
    /\ inBuffer \in 0 .. BlockSize
    /\ fileRead \in BOOLEAN
    /\ pc \in {"call", "returned", "done"}
    /\ out \in Seq(1 .. Records)

Returned == {out[n] : n \in DOMAIN out}

\* The records read and not yet returned are the low end of the buffer; all
\* others read have been returned, none of them twice.  At its end the scan
\* has returned every complete record of the file.
NothingLost ==
    LET read == cursor \div RecordSize IN
    /\ Returned = (1 .. read) \ ((first + 1) .. (first + inBuffer))
    /\ Len(out) = read - inBuffer
    /\ pc = "done" => Returned = 1 .. Records

\* The order the tests of src/test/test_tdb.bats show for one block, for any
\* number of blocks: blocks in the order of the file, each from its end.
BlockwiseReversed ==
    \A n \in DOMAIN out :
        LET before == ((n - 1) \div BlockSize) * BlockSize
            size   == Smaller(BlockSize, Records - before)
        IN  out[n] = before + size - (n - 1 - before)

RI == INSTANCE RowIterator WITH
        rows  <- 1 .. Records,
        ended <- pc = "done"

\* The scan returns every complete record once and then ends, also when the
\* file is empty, a multiple of the block, or ends in part of a record.
ImplementsIterator == RI!RISpec
============================================================================
