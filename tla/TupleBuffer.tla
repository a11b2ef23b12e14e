---------------------------- MODULE TupleBuffer ----------------------------
(***************************************************************************)
(* The growing buffer of tuples a join keeps of its right child,           *)
(* src/executor/tuplebuffer.c.  Each slot has a Tuple and a piece of one   *)
(* data block; the Tuple points into the block.  Growing may move both     *)
(* arrays (realloc), so pointers taken before it dangle: a pointer is the  *)
(* number of the block it was taken in and a slot.                         *)
(***************************************************************************)
EXTENDS Integers, Sequences

CONSTANTS MinCapacity, MaxCapacity,     \* Capacities given to initTupleBuffer
          MaxSize,                      \* Bound on the tuples taken
          Contents                      \* What a child can write to a tuple

ASSUME BufferAssumption ==
    /\ MinCapacity \in Nat \ {0}
    /\ MaxCapacity \in Nat
    /\ MaxSize \in Nat

VARIABLES
    capacity,   \* buff->capacity
    size,       \* buff->size: slots handed out
    cursor,     \* buff->cursor, in units of tupledatasize
    block,      \* Number of the current allocation of tuples and data
    dataptr,    \* slot -> tuples[slot].data
    data,       \* slot -> the bytes of its piece of the current block
    filled,     \* The rows written so far, in order
    held        \* The last pointer returned: [call, block, slot]

vars == <<capacity, size, cursor, block, dataptr, data, filled, held>>

Slots == 0 .. (capacity - 1)

\* What malloc'ed memory holds before it is written.
Unset == "unset"
WildPointer == [block |-> -1, slot |-> 0]

Init ==
    /\ capacity \in MinCapacity .. MaxCapacity
    /\ size = 0
    /\ cursor = 0
    /\ block = 0
    /\ dataptr = [s \in Slots |-> WildPointer]
    /\ data = [s \in Slots |-> Unset]
    /\ filled = <<>>
    /\ held = [call |-> "init", block |-> 0, slot |-> 0]
----------------------------------------------------------------------------
\* Mutant: the test leaves no spare slot and is off by one.
GrowLate == size > capacity

MustGrow == size >= capacity - 1

\* Mutants: only the capacity is doubled; the old contents are not copied.
NotGrown(f, unset, n) == f
GrownAnew(f, unset, n) == [s \in 0 .. (n - 1) |-> unset]

\* realloc keeps what is in the arrays and makes old addresses invalid.
Grown(f, unset, n) == [s \in 0 .. (n - 1) |-> IF s \in DOMAIN f THEN f[s] ELSE unset]

(***************************************************************************)
(* getTupleFromBuffer, and the child's write to the tuple it returned: the *)
(* joins call it and pass the tuple to right->getTuple at once.  v is what *)
(* the child writes at tpl->data.                                          *)
(***************************************************************************)
GetTupleFromBuffer(v) ==
    LET c == IF MustGrow THEN 2 * capacity ELSE capacity
        b == IF MustGrow THEN block + 1 ELSE block
    IN  /\ size < MaxSize
        /\ capacity' = c
        /\ block' = b
        /\ size' = size + 1
        /\ cursor' = cursor + 1
        /\ dataptr' = [Grown(dataptr, WildPointer, c)
                          EXCEPT ![size] = [block |-> b, slot |-> cursor]]
        /\ data' = [Grown(data, Unset, c) EXCEPT ![cursor] = v]
        /\ filled' = Append(filled, v)
        /\ held' = [call |-> "get", block |-> b, slot |-> size]

\* Mutant: the data pointer is returned as it was stored.
GetStale(i) ==
    /\ i < size
    /\ held' = [call |-> "index", block |-> block, slot |-> i]
    /\ UNCHANGED <<capacity, size, cursor, block, dataptr, data, filled>>

\* The data pointer is refreshed before the tuple is returned.
GetTupleByIndex(i) ==
    /\ i < size
    /\ dataptr' = [dataptr EXCEPT ![i] = [block |-> block, slot |-> i]]
    /\ held' = [call |-> "index", block |-> block, slot |-> i]
    /\ UNCHANGED <<capacity, size, cursor, block, data, filled>>

Next ==
    \/ \E v \in Contents : GetTupleFromBuffer(v)
    \/ \E i \in Slots : GetTupleByIndex(i)

Spec == Init /\ [][Next]_vars
----------------------------------------------------------------------------
(***************************************************************************)
(* Properties.                                                             *)
(***************************************************************************)
Pointer == [block : Nat \cup {-1}, slot : Nat]

\* The arrays have as many slots as the buffer has capacity.
TypeOK ==
    /\ capacity \in Nat \ {0}
    /\ size \in Nat /\ cursor \in Nat /\ block \in Nat
    /\ dataptr \in [Slots -> Pointer]
    /\ data \in [Slots -> Contents \cup {Unset}]
    /\ filled \in Seq(Contents)
    /\ held \in [call : {"init", "get", "index"}, block : Nat, slot : Nat]

\* A slot is handed out only when it exists, also right after growing from
\* the smallest capacity.
WithinCapacity == size <= capacity /\ cursor = size

\* Growing and appending change no row that was there: slot i holds the i-th
\* row the child returned (counting from 0).
RowsKept ==
    /\ Len(filled) = size
    /\ \A i \in 0 .. (size - 1) : data[i] = filled[i + 1]

\* Following tpl->data of the tuple just returned leads to that row, in the
\* block that is allocated now, although rows stored before a growth keep a
\* stale pointer until they are asked for.
HeldIsReadable ==
    held.call # "init" =>
        /\ held.block = block
        /\ held.slot < size
        /\ dataptr[held.slot] = [block |-> block, slot |-> held.slot]
============================================================================
