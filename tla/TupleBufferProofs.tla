-------------------------- MODULE TupleBufferProofs --------------------------
(***************************************************************************)
(* Proofs about TupleBuffer, for every initial capacity and any number of  *)
(* rows: no slot out of bounds, no row lost by growing, no stale pointer   *)
(* returned.                                                               *)
(***************************************************************************)
EXTENDS TupleBuffer, TLAPS

IInv == TypeOK /\ WithinCapacity /\ RowsKept /\ HeldIsReadable

\* After getTupleFromBuffer has grown the arrays, or not, the next slot exists.
LEMMA RoomForOne ==
  ASSUME TypeOK, WithinCapacity
  PROVE  LET c == IF MustGrow THEN 2 * capacity ELSE capacity
         IN  c \in Nat \ {0} /\ size < c /\ size + 1 <= c /\ capacity <= c
  BY DEF TypeOK, WithinCapacity, MustGrow

LEMMA InitInv == Init => IInv
  <1> SUFFICES ASSUME Init PROVE IInv
    OBVIOUS
  <1>1. capacity \in Nat \ {0}
    BY BufferAssumption DEF Init
  <1>2. WildPointer \in Pointer
    BY DEF WildPointer, Pointer
  <1>3. TypeOK
    BY <1>1, <1>2 DEF Init, TypeOK
  <1> QED BY <1>1, <1>3 DEF Init, IInv, WithinCapacity, RowsKept, HeldIsReadable

\* Growing an array keeps its elements and gives it n slots.
LEMMA GrownArray ==
  ASSUME NEW S, NEW u \in S, NEW m \in Nat, NEW n \in Nat, m <= n,
         NEW f \in [0 .. (m - 1) -> S]
  PROVE  /\ Grown(f, u, n) \in [0 .. (n - 1) -> S]
         /\ \A i \in 0 .. (m - 1) : Grown(f, u, n)[i] = f[i]
  BY DEF Grown

LEMMA GetKeeps ==
  ASSUME IInv, NEW v \in Contents, GetTupleFromBuffer(v)
  PROVE  IInv'
  <1> DEFINE c == IF MustGrow THEN 2 * capacity ELSE capacity
             b == IF MustGrow THEN block + 1 ELSE block
             dp == Grown(dataptr, WildPointer, c)
             dt == Grown(data, Unset, c)
  <1>1. TypeOK /\ WithinCapacity /\ RowsKept
    BY DEF IInv
  <1>2. c \in Nat \ {0} /\ size < c /\ size + 1 <= c /\ capacity <= c
    BY <1>1, RoomForOne
  <1>3. b \in Nat /\ size \in Nat /\ cursor = size /\ capacity \in Nat \ {0}
    BY <1>1 DEF TypeOK, WithinCapacity
  <1>4. /\ capacity' = c /\ block' = b /\ size' = size + 1 /\ cursor' = size + 1
        /\ dataptr' = [dp EXCEPT ![size] = [block |-> b, slot |-> size]]
        /\ data' = [dt EXCEPT ![size] = v]
        /\ filled' = Append(filled, v)
        /\ held' = [call |-> "get", block |-> b, slot |-> size]
    BY <1>3 DEF GetTupleFromBuffer
  <1> HIDE DEF c, b
  <1>5. /\ dp \in [0 .. (c - 1) -> Pointer]
        /\ dt \in [0 .. (c - 1) -> Contents \cup {Unset}]
        /\ \A i \in 0 .. (capacity - 1) : dt[i] = data[i]
    <2>1. WildPointer \in Pointer
      BY DEF WildPointer, Pointer
    <2>2. dataptr \in [0 .. (capacity - 1) -> Pointer]
          /\ data \in [0 .. (capacity - 1) -> Contents \cup {Unset}]
      BY <1>1 DEF TypeOK, Slots
    <2>3. c \in Nat /\ capacity \in Nat /\ capacity <= c
      BY <1>2, <1>3
    <2>4. dp \in [0 .. (c - 1) -> Pointer]
      BY <2>1, <2>2, <2>3, GrownArray
    <2>5. /\ dt \in [0 .. (c - 1) -> Contents \cup {Unset}]
          /\ \A i \in 0 .. (capacity - 1) : dt[i] = data[i]
      <3> DEFINE T == Contents \cup {Unset}
      <3>1. Unset \in T /\ data \in [0 .. (capacity - 1) -> T]
        BY <2>2
      <3> HIDE DEF T
      <3>2. dt \in [0 .. (c - 1) -> T] /\ \A i \in 0 .. (capacity - 1) : dt[i] = data[i]
        BY <2>3, <3>1, GrownArray
      <3> QED BY <3>2 DEF T
    <2> QED BY <2>4, <2>5
  <1> HIDE DEF dp, dt
  <1>6. size \in 0 .. (c - 1) /\ [block |-> b, slot |-> size] \in Pointer
    BY <1>2, <1>3 DEF Pointer
  <1>7. /\ dataptr' \in [0 .. (c - 1) -> Pointer]
        /\ data' \in [0 .. (c - 1) -> Contents \cup {Unset}]
        /\ dataptr'[size] = [block |-> b, slot |-> size]
        /\ data'[size] = v
        /\ \A i \in 0 .. (size - 1) : data'[i] = dt[i]
    BY <1>2, <1>3, <1>4, <1>5, <1>6
  <1>8. filled \in Seq(Contents) /\ Len(filled) = size
    BY <1>1 DEF TypeOK, RowsKept
  <1>9. filled' \in Seq(Contents) /\ Len(filled') = size + 1
        /\ filled'[size + 1] = v /\ \A i \in 1 .. size : filled'[i] = filled[i]
    BY <1>4, <1>8
  <1>10. TypeOK'
    <2>1. held' \in [call : {"init", "get", "index"}, block : Nat, slot : Nat]
      BY <1>3, <1>4
    <2> QED BY <1>2, <1>3, <1>4, <1>7, <1>9, <2>1 DEF TypeOK, Slots
  <1>11. WithinCapacity'
    BY <1>2, <1>4 DEF WithinCapacity
  <1>12. RowsKept'
    <2>1. ASSUME NEW i \in 0 .. size PROVE data'[i] = filled'[i + 1]
      <3>1. CASE i = size
        BY <1>7, <1>9, <3>1
      <3>2. CASE i # size
        <4>1. i \in 0 .. (size - 1) /\ i \in 0 .. (capacity - 1) /\ i + 1 \in 1 .. size
          BY <1>1, <1>3, <3>2 DEF WithinCapacity
        <4>2. data[i] = filled[i + 1]
          BY <1>1, <4>1 DEF RowsKept
        <4> QED BY <1>5, <1>7, <1>9, <4>1, <4>2
      <3> QED BY <3>1, <3>2
    <2>2. 0 .. (size' - 1) = 0 .. size
      BY <1>3, <1>4
    <2> QED BY <1>4, <1>9, <2>1, <2>2 DEF RowsKept
  <1>13. HeldIsReadable'
    BY <1>3, <1>4, <1>7 DEF HeldIsReadable
  <1> QED BY <1>10, <1>11, <1>12, <1>13 DEF IInv

LEMMA IndexKeeps ==
  ASSUME IInv, NEW i \in Slots, GetTupleByIndex(i)
  PROVE  IInv'
  <1>1. i \in 0 .. (capacity - 1) /\ i \in Nat /\ i < size /\ block \in Nat
    BY DEF IInv, TypeOK, GetTupleByIndex, Slots
  <1>2. [block |-> block, slot |-> i] \in Pointer
    BY <1>1 DEF Pointer
  <1>3. dataptr' \in [Slots -> Pointer] /\ dataptr'[i] = [block |-> block, slot |-> i]
    BY <1>1, <1>2 DEF IInv, TypeOK, GetTupleByIndex
  <1>4. held' = [call |-> "index", block |-> block, slot |-> i]
    BY DEF GetTupleByIndex
  <1>5. TypeOK'
    BY <1>1, <1>3, <1>4 DEF IInv, TypeOK, GetTupleByIndex, Slots
  <1> QED BY <1>1, <1>3, <1>4, <1>5
          DEF IInv, GetTupleByIndex, WithinCapacity, RowsKept, HeldIsReadable

LEMMA NextInv == IInv /\ [Next]_vars => IInv'
  <1> SUFFICES ASSUME IInv, [Next]_vars PROVE IInv'
    OBVIOUS
  <1>1. CASE UNCHANGED vars
    BY <1>1 DEF vars, IInv, TypeOK, Slots, WithinCapacity, RowsKept, HeldIsReadable
  <1> QED BY <1>1, GetKeeps, IndexKeeps DEF Next

\* The arrays of tuples and of data always have `capacity' slots, also after
\* both were moved by realloc (tuplebuffer.c).
THEOREM TypeCorrect == Spec => []TypeOK
  <1>1. IInv => TypeOK
    BY DEF IInv
  <1> QED BY <1>1, InitInv, NextInv, PTL DEF Spec

\* Every slot handed out exists, for any initial capacity above 0
\* (tuplebuffer.c:41-51 grows one slot early).
THEOREM NoSlotBeyondCapacity == Spec => []WithinCapacity
  <1>1. IInv => WithinCapacity
    BY DEF IInv
  <1> QED BY <1>1, InitInv, NextInv, PTL DEF Spec

\* However often the buffer has grown, slot i holds the i-th row.
THEOREM GrowingKeepsRows == Spec => []RowsKept
  <1>1. IInv => RowsKept
    BY DEF IInv
  <1> QED BY <1>1, InitInv, NextInv, PTL DEF Spec

\* The tuple returned last points into the block that is allocated now.
THEOREM ReturnedTupleIsFresh == Spec => []HeldIsReadable
  <1>1. IInv => HeldIsReadable
    BY DEF IInv
  <1> QED BY <1>1, InitInv, NextInv, PTL DEF Spec
============================================================================
