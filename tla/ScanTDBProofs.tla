--------------------------- MODULE ScanTDBProofs ---------------------------
(***************************************************************************)
(* Proofs about ScanTDB, for a file of any number of bytes, any record     *)
(* size and any number of records in a buffer.                             *)
(***************************************************************************)
EXTENDS ScanTDB, TLAPS

\* The records of the buffer when it was filled: a full block or the rest.
Filled == Smaller(BlockSize, Records - first)

\* Nothing has been read yet.
Fresh == cursor = 0 /\ first = 0 /\ inBuffer = 0 /\ ~ fileRead /\ out = <<>>

\* The buffer in use was filled at the record after `first'.
InBlock ==
    /\ first * RecordSize <= bytes
    /\ cursor = first * RecordSize + Smaller(BufferSize, bytes - first * RecordSize)
    /\ fileRead = (bytes - first * RecordSize < BufferSize)
    /\ inBuffer <= Filled
    /\ Len(out) = first + Filled - inBuffer

Base ==
    /\ bytes \in 0 .. MaxBytes
    /\ first \in Nat
    /\ inBuffer \in Nat
    /\ fileRead \in BOOLEAN
    /\ pc \in {"call", "returned", "done"}
    /\ out \in Seq(1 .. Records)

\* Whole blocks came before the buffer.
Aligned == first = (first \div BlockSize) * BlockSize

IInv == Base /\ Aligned /\ (Fresh \/ InBlock) /\ NothingLost /\ BlockwiseReversed

----------------------------------------------------------------------------
(***************************************************************************)
(* Division.                                                               *)
(***************************************************************************)
LEMMA Quotient ==
  ASSUME NEW x \in Nat, NEW d \in Nat \ {0}
  PROVE  x \div d \in Nat /\ (x \div d) * d <= x /\ x < (x \div d) * d + d
  BY SMTT(20)

LEMMA QuotientIs ==
  ASSUME NEW x \in Nat, NEW d \in Nat \ {0}, NEW q \in Nat,
         q * d <= x, x < q * d + d
  PROVE  x \div d = q
  BY SMTT(20)

LEMMA QuotientOfSum ==
  ASSUME NEW a \in Nat, NEW b \in Nat, NEW d \in Nat \ {0}
  PROVE  (a * d + b) \div d = a + (b \div d)
  BY SMTT(20)

\* d times a is counted in whole d's.
LEMMA QuotientLimit ==
  ASSUME NEW x \in Nat, NEW a \in Nat, NEW d \in Nat \ {0}
  PROVE  a * d <= x <=> a <= x \div d
  BY Quotient, SMTT(20)

\* Whole blocks are counted as such, one more included.
LEMMA NextBlock ==
  ASSUME NEW a \in Nat, NEW d \in Nat \ {0}, a = (a \div d) * d
  PROVE  /\ a + d = ((a + d) \div d) * d
         /\ \A i \in 0 .. (d - 1) : ((a + i) \div d) * d = a
  <1> DEFINE q == a \div d
  <1>1. q \in Nat /\ a = q * d
    BY Quotient
  <1> HIDE DEF q
  <1>2. (a + d) \div d = q + 1
    <2>1. (q + 1) * d = a + d /\ q + 1 \in Nat /\ a + d \in Nat
      BY <1>1
    <2>2. (q + 1) * d <= a + d /\ a + d < (q + 1) * d + d
      BY <2>1
    <2> QED BY <2>1, <2>2, QuotientIs
  <1>3. (q + 1) * d = a + d
    BY <1>1
  <1>4. ASSUME NEW i \in 0 .. (d - 1) PROVE (a + i) \div d = q
    <2>1. a + i \in Nat /\ q * d <= a + i /\ a + i < q * d + d
      BY <1>1
    <2> QED BY <1>1, <2>1, QuotientIs
  <1> QED BY <1>1, <1>2, <1>3, <1>4
----------------------------------------------------------------------------
(***************************************************************************)
(* Where the scan stands in the file.                                      *)
(***************************************************************************)
LEMMA RecordsCounted ==
  ASSUME bytes \in 0 .. MaxBytes
  PROVE  /\ bytes \in Nat /\ Records \in Nat
         /\ \A a \in Nat : a * RecordSize <= bytes <=> a <= Records
         /\ Records * RecordSize <= bytes
         /\ bytes < Records * RecordSize + RecordSize
  <1>1. bytes \in Nat
    BY ScanAssumption
  <1> QED BY <1>1, ScanAssumption, Quotient, QuotientLimit DEF Records

\* What a read from record f on delivers, in bytes and in whole records.
LEMMA ReadFrom ==
  ASSUME bytes \in 0 .. MaxBytes, NEW f \in Nat, f * RecordSize <= bytes,
         NEW n, n = Smaller(BufferSize, bytes - f * RecordSize)
  PROVE  /\ n \in Nat /\ f * RecordSize + n <= bytes
         /\ n \div RecordSize = Smaller(BlockSize, Records - f)
         /\ n < BufferSize => f * RecordSize + n = bytes
                              /\ f + n \div RecordSize = Records
         /\ ~ (n < BufferSize) => n \div RecordSize = BlockSize
                                  /\ f * RecordSize + n = (f + BlockSize) * RecordSize
  <1>1. bytes \in Nat /\ Records \in Nat /\ f <= Records
        /\ Records * RecordSize <= bytes /\ bytes < Records * RecordSize + RecordSize
    BY RecordsCounted
  <1>2. RecordSize \in Nat \ {0} /\ BlockSize \in Nat \ {0}
    BY ScanAssumption
  <1>3. BufferSize \in Nat /\ BufferSize = RecordSize * BlockSize
        /\ f * RecordSize \in Nat
    BY <1>2 DEF BufferSize
  <1>4. n \in Nat /\ f * RecordSize + n <= bytes
        /\ (n < BufferSize => f * RecordSize + n = bytes)
        /\ (~ (n < BufferSize) => n = BufferSize)
    BY <1>1, <1>3 DEF Smaller
  <1>5. CASE n < BufferSize
    <2>1. f * RecordSize + n = bytes
      BY <1>4, <1>5
    <2>2. f + n \div RecordSize = Records
      <3>1. (f * RecordSize + n) \div RecordSize = f + n \div RecordSize
        BY <1>2, <1>4, QuotientOfSum
      <3> QED BY <2>1, <3>1 DEF Records
    <2>3. n \div RecordSize \in Nat /\ (n \div RecordSize) * RecordSize <= n
      BY <1>2, <1>4, Quotient
    <2>4. n \div RecordSize < BlockSize
      <3>1. (n \div RecordSize) * RecordSize < BlockSize * RecordSize
        BY <1>2, <1>3, <1>4, <1>5, <2>3
      <3> QED BY <1>2, <2>3, <3>1, SMTT(20)
    <2> QED BY <1>1, <1>2, <1>4, <1>5, <2>1, <2>2, <2>3, <2>4 DEF Smaller
  <1>6. CASE ~ (n < BufferSize)
    <2>1. n = RecordSize * BlockSize
      BY <1>3, <1>4, <1>6
    <2>2. n \div RecordSize = BlockSize
      <3>1. BlockSize * RecordSize <= n /\ n < BlockSize * RecordSize + RecordSize
        BY <1>2, <2>1
      <3> QED BY <1>2, <1>4, <3>1, QuotientIs
    <2>3. f * RecordSize + n = (f + BlockSize) * RecordSize
      BY <1>2, <2>1
    <2>4. f + BlockSize <= Records
      BY <1>2, <1>4, <2>3, RecordsCounted
    <2> QED BY <1>1, <1>2, <1>4, <1>6, <2>2, <2>3, <2>4 DEF Smaller
  <1> QED BY <1>5, <1>6

\* The buffer of a block: how many records it had and what has been read.
LEMMA BlockFacts ==
  ASSUME Base, InBlock
  PROVE  /\ Records \in Nat /\ first <= Records
         /\ Filled \in 0 .. BlockSize /\ first + Filled <= Records
         /\ cursor \in 0 .. bytes
         /\ cursor \div RecordSize = first + Filled
         /\ fileRead => first + Filled = Records
         /\ ~ fileRead => /\ Filled = BlockSize
                          /\ cursor = (first + BlockSize) * RecordSize
  <1> DEFINE n == Smaller(BufferSize, bytes - first * RecordSize)
  <1>1. first \in Nat /\ bytes \in 0 .. MaxBytes /\ bytes \in Nat /\ Records \in Nat
        /\ first <= Records
    BY RecordsCounted DEF Base, InBlock
  <1>2. RecordSize \in Nat \ {0} /\ BlockSize \in Nat \ {0} /\ BufferSize \in Nat
        /\ first * RecordSize \in Nat
    BY <1>1, ScanAssumption DEF BufferSize
  <1>3. cursor = first * RecordSize + n /\ first * RecordSize <= bytes
        /\ fileRead = (bytes - first * RecordSize < BufferSize)
    BY DEF InBlock
  <1>4. n < BufferSize <=> bytes - first * RecordSize < BufferSize
    BY <1>1, <1>2 DEF Smaller
  <1>5. /\ n \in Nat /\ first * RecordSize + n <= bytes
        /\ n \div RecordSize = Filled
        /\ n < BufferSize => first + n \div RecordSize = Records
        /\ ~ (n < BufferSize) => n \div RecordSize = BlockSize
                                 /\ first * RecordSize + n = (first + BlockSize) * RecordSize
    BY <1>1, <1>3, ReadFrom DEF Filled
  <1> HIDE DEF n
  <1>6. Filled \in 0 .. BlockSize /\ first + Filled <= Records
    BY <1>1, <1>2 DEF Filled, Smaller
  <1>7. cursor \div RecordSize = first + Filled
    <2>1. (first * RecordSize + n) \div RecordSize = first + n \div RecordSize
      BY <1>1, <1>2, <1>5, QuotientOfSum
    <2> QED BY <1>3, <1>5, <2>1
  <1>8. fileRead <=> n < BufferSize
    BY <1>3, <1>4
  <1>9. cursor \in 0 .. bytes
    BY <1>1, <1>2, <1>3, <1>5
  <1> QED BY <1>1, <1>3, <1>5, <1>6, <1>7, <1>8, <1>9
----------------------------------------------------------------------------
\* What Append leaves of a sequence and what it adds.
LEMMA Appended ==
  ASSUME NEW S, NEW s \in Seq(S), NEW e \in S
  PROVE  /\ Append(s, e) \in Seq(S) /\ Len(Append(s, e)) = Len(s) + 1
         /\ Append(s, e)[Len(s) + 1] = e /\ \A n \in DOMAIN s : Append(s, e)[n] = s[n]
         /\ DOMAIN s = 1 .. Len(s) /\ DOMAIN Append(s, e) = DOMAIN s \cup {Len(s) + 1}
  OBVIOUS

LEMMA InitInv == Init => IInv
  <1> SUFFICES ASSUME Init PROVE IInv
    OBVIOUS
  <1>1. bytes \in 0 .. MaxBytes /\ Records \in Nat /\ bytes \in Nat
    BY RecordsCounted DEF Init
  <1>2. 0 \div RecordSize = 0 /\ (0 \div BlockSize) * BlockSize = 0
    BY ScanAssumption, QuotientIs
  <1>3. Base /\ Aligned /\ Fresh
    <2>0. out \in Seq(1 .. Records)
      BY DEF Init
    <2>1. Base /\ Fresh
      BY <2>0 DEF Init, Base, Fresh
    <2>2. Aligned
      BY <1>2 DEF Init, Aligned
    <2> QED BY <2>1, <2>2
  <1>4. NothingLost
    <2>1. Returned = {} /\ Len(out) = 0 /\ cursor \div RecordSize = 0 /\ inBuffer = 0
          /\ pc # "done"
      BY <1>2 DEF Init, Returned
    <2> QED BY <2>1 DEF NothingLost
  <1>5. BlockwiseReversed
    BY DEF Init, BlockwiseReversed
  <1> QED BY <1>3, <1>4, <1>5 DEF IInv

\* When the buffer is used up and the file is not, everything read has been
\* returned and the next read starts at a record.
LEMMA ReadyToFill ==
  ASSUME IInv, inBuffer = 0, ~ fileRead,
         NEW f, f = cursor \div RecordSize
  PROVE  /\ f \in Nat /\ f * RecordSize <= bytes /\ cursor = f * RecordSize
         /\ f = (f \div BlockSize) * BlockSize
         /\ Len(out) = f /\ Returned = 1 .. f
  <1>1. Base /\ NothingLost /\ bytes \in Nat
    BY RecordsCounted DEF IInv, Base
  <1>2. RecordSize \in Nat \ {0} /\ BlockSize \in Nat \ {0}
    BY ScanAssumption
  <1>3. f \in Nat /\ f * RecordSize <= bytes /\ cursor = f * RecordSize
        /\ f = (f \div BlockSize) * BlockSize
    <2>1. CASE Fresh
      <3>1. cursor = 0 /\ 0 \div RecordSize = 0 /\ 0 \div BlockSize = 0
        BY <1>2, <2>1, QuotientIs DEF Fresh
      <3> QED BY <1>1, <1>2, <3>1
    <2>2. CASE InBlock
      <3>1. f = first + BlockSize /\ cursor = f * RecordSize /\ cursor \in 0 .. bytes
        BY <1>1, <2>2, BlockFacts
      <3>2. first \in Nat /\ first = (first \div BlockSize) * BlockSize
        BY <1>1 DEF IInv, Base, Aligned
      <3>3. first + BlockSize = ((first + BlockSize) \div BlockSize) * BlockSize
        BY <1>2, <3>2, NextBlock
      <3>4. f \in Nat /\ f * RecordSize <= bytes
        BY <1>1, <1>2, <3>1, <3>2
      <3> QED BY <3>1, <3>3, <3>4
    <2> QED BY <2>1, <2>2 DEF IInv
  <1>4. Returned = (1 .. f) \ ((first + 1) .. (first + 0)) /\ Len(out) = f - 0
    BY <1>1 DEF NothingLost
  <1>5. (first + 1) .. (first + 0) = {}
    BY <1>1 DEF Base
  <1>6. Returned = 1 .. f /\ Len(out) = f
    <2>1. f \in Nat /\ f - 0 = f
      BY <1>3
    <2> QED BY <1>4, <1>5, <2>1
  <1> QED BY <1>3, <1>6

LEMMA FillKeeps == ASSUME IInv, FillBuffer PROVE IInv'
  <1> DEFINE f == cursor \div RecordSize
             n == BytesRead
             i == n \div RecordSize
  <1>1. /\ f \in Nat /\ f * RecordSize <= bytes /\ cursor = f * RecordSize
        /\ f = (f \div BlockSize) * BlockSize
        /\ Len(out) = f /\ Returned = 1 .. f
    BY ReadyToFill DEF FillBuffer
  <1>2. /\ cursor' = f * RecordSize + n /\ first' = f /\ inBuffer' = i
        /\ fileRead' = (n < BufferSize)
        /\ bytes' = bytes /\ pc' = pc /\ out' = out
    BY <1>1 DEF FillBuffer
  <1>3. Base /\ BlockwiseReversed /\ bytes \in 0 .. MaxBytes /\ Records' = Records
    BY <1>2 DEF IInv, Base, Records
  <1>4. n = Smaller(BufferSize, bytes - f * RecordSize)
    BY <1>1 DEF BytesRead
  <1> HIDE DEF f, n
  <1>5. RecordSize \in Nat \ {0} /\ BlockSize \in Nat \ {0} /\ BufferSize \in Nat
        /\ bytes \in Nat /\ f * RecordSize \in Nat
    BY <1>1, <1>3, ScanAssumption, RecordsCounted DEF BufferSize
  <1>6. /\ n \in Nat /\ i = Smaller(BlockSize, Records - f) /\ i \in Nat
        /\ n < BufferSize <=> bytes - f * RecordSize < BufferSize
    <2>1. n \in Nat /\ i = Smaller(BlockSize, Records - f)
      BY <1>1, <1>3, <1>4, ReadFrom
    <2>2. i \in Nat
      BY <1>5, <2>1, Quotient
    <2> QED BY <1>4, <1>5, <2>1, <2>2 DEF Smaller
  <1> HIDE DEF i
  <1>7. Base' /\ Aligned'
    BY <1>1, <1>2, <1>3, <1>6 DEF Base, Aligned
  <1>8. InBlock'
    <2>1. Filled' = i
      BY <1>2, <1>3, <1>6 DEF Filled
    <2> QED BY <1>1, <1>2, <1>4, <1>6, <2>1 DEF InBlock, BufferSize
  <1>9. NothingLost'
    <2>1. cursor' \div RecordSize = f + i
      BY <1>1, <1>2, <1>5, <1>6, QuotientOfSum DEF i
    <2>2. Returned' = Returned
      BY <1>2 DEF Returned
    <2>3. 1 .. f = (1 .. (f + i)) \ ((f + 1) .. (f + i))
      BY <1>1, <1>6
    <2>4. pc' # "done"
      BY <1>2 DEF FillBuffer
    <2> QED BY <1>1, <1>2, <1>6, <2>1, <2>2, <2>3, <2>4 DEF NothingLost
  <1>10. BlockwiseReversed'
    BY <1>2, <1>3 DEF BlockwiseReversed
  <1> QED BY <1>7, <1>8, <1>9, <1>10 DEF IInv

\* The record that is returned is one of the file and was not returned before.
LEMMA NewRecord ==
  ASSUME IInv, inBuffer > 0
  PROVE  /\ InBlock
         /\ first + inBuffer \in 1 .. Records
         /\ first + inBuffer \notin Returned
  <1>1. Base /\ InBlock /\ NothingLost
    BY DEF IInv, Fresh
  <1>2. first \in Nat /\ inBuffer \in Nat /\ Records \in Nat /\ Filled \in Nat
        /\ inBuffer <= Filled /\ first + Filled <= Records
    BY <1>1, BlockFacts, ScanAssumption DEF Base, InBlock
  <1>3. first + inBuffer \in 1 .. Records
        /\ first + inBuffer \in (first + 1) .. (first + inBuffer)
    BY <1>2
  <1> QED BY <1>1, <1>3 DEF NothingLost

LEMMA ReturnKeeps == ASSUME IInv, ReturnRecord PROVE IInv'
  <1> DEFINE v == first + inBuffer
             read == first + Filled
  <1>1. Base /\ Aligned /\ InBlock /\ NothingLost /\ BlockwiseReversed
        /\ v \in 1 .. Records /\ v \notin Returned
    BY NewRecord DEF IInv, ReturnRecord
  <1>2. /\ first \in Nat /\ inBuffer \in Nat /\ inBuffer > 0 /\ inBuffer <= Filled
        /\ Filled \in 0 .. BlockSize /\ Records \in Nat
        /\ cursor \div RecordSize = read /\ BlockSize \in Nat \ {0}
        /\ out \in Seq(1 .. Records) /\ Len(out) = read - inBuffer
    BY <1>1, BlockFacts, ScanAssumption, SMTT(30) DEF Base, InBlock, ReturnRecord
  <1>3. /\ out' = Append(out, v) /\ inBuffer' = inBuffer - 1 /\ pc' = "returned"
        /\ bytes' = bytes /\ cursor' = cursor /\ first' = first /\ fileRead' = fileRead
    BY DEF ReturnRecord
  <1>4. Records' = Records /\ Filled' = Filled
    BY <1>3 DEF Records, Filled
  <1> HIDE DEF v
  <1>5. /\ out' \in Seq(1 .. Records) /\ Len(out') = Len(out) + 1
        /\ out'[Len(out) + 1] = v /\ \A n \in DOMAIN out : out'[n] = out[n]
        /\ DOMAIN out = 1 .. Len(out) /\ DOMAIN out' = DOMAIN out \cup {Len(out) + 1}
    BY <1>1, <1>2, <1>3, Appended, SMTT(30)
  <1>6. Base' /\ Aligned'
    BY <1>1, <1>2, <1>3, <1>4, <1>5 DEF Base, Aligned
  <1>7. InBlock'
    <2>1. /\ first' * RecordSize <= bytes'
          /\ cursor' = first' * RecordSize + Smaller(BufferSize, bytes' - first' * RecordSize)
          /\ fileRead' = (bytes' - first' * RecordSize < BufferSize)
      BY <1>1, <1>3 DEF InBlock
    <2>2. inBuffer' <= Filled' /\ Len(out') = first' + Filled' - inBuffer'
      BY <1>2, <1>3, <1>4, <1>5
    <2> QED BY <2>1, <2>2 DEF InBlock, BufferSize
  <1>8. NothingLost'
    <2>1. Returned' = Returned \cup {v}
      BY <1>5 DEF Returned
    <2>2. Returned = (1 .. read) \ ((first + 1) .. (first + inBuffer))
      BY <1>1, <1>2 DEF NothingLost
    <2>3. Returned \cup {v} = (1 .. read) \ ((first + 1) .. (first + (inBuffer - 1)))
      BY <1>2, <2>2 DEF v
    <2>4. Len(out') = read - (inBuffer - 1)
      BY <1>2, <1>5
    <2>5. cursor' \div RecordSize = read
      BY <1>2, <1>3
    <2> QED BY <1>3, <2>1, <2>3, <2>4, <2>5 DEF NothingLost
  <1>9. BlockwiseReversed'
    <2> DEFINE m == Len(out) + 1
    <2>1. m - 1 = first + (Filled - inBuffer) /\ Filled - inBuffer \in 0 .. (BlockSize - 1)
          /\ first = (first \div BlockSize) * BlockSize
      BY <1>1, <1>2 DEF Aligned
    <2>2. ((m - 1) \div BlockSize) * BlockSize = first
      <3>1. first \in Nat /\ BlockSize \in Nat \ {0}
        BY <1>2
      <3>2. \A i \in 0 .. (BlockSize - 1) : ((first + i) \div BlockSize) * BlockSize = first
        BY <2>1, <3>1, NextBlock
      <3> QED BY <2>1, <3>2
    <2>3. v = first + Filled - (m - 1 - first)
      BY <1>2, <2>1 DEF v
    <2>4. v = LET before == ((m - 1) \div BlockSize) * BlockSize
                  size   == Smaller(BlockSize, Records - before)
              IN  before + size - (m - 1 - before)
      BY <2>2, <2>3 DEF Filled
    <2> HIDE DEF m
    <2>5. \A n \in DOMAIN out' : n \in DOMAIN out \/ n = m
      BY <1>5 DEF m
    <2>6. out'[m] = v
      BY <1>5 DEF m
    <2> QED BY <1>1, <1>4, <1>5, <2>4, <2>5, <2>6 DEF BlockwiseReversed
  <1> QED BY <1>6, <1>7, <1>8, <1>9 DEF IInv

\* The empty buffer after a short read: nothing of the file is left.
LEMMA AllReturned ==
  ASSUME IInv, inBuffer = 0, fileRead
  PROVE  Returned = 1 .. Records
  <1>1. Base /\ InBlock /\ NothingLost
    BY DEF IInv, Fresh
  <1>2. cursor \div RecordSize = Records /\ first \in Nat /\ Records \in Nat
    BY <1>1, BlockFacts DEF Base
  <1>3. Returned = (1 .. Records) \ ((first + 1) .. (first + 0))
    BY <1>1, <1>2 DEF NothingLost
  <1>4. (first + 1) .. (first + 0) = {}
    BY <1>2
  <1> QED BY <1>3, <1>4

LEMMA NextInv == IInv /\ [Next]_vars => IInv'
  <1> SUFFICES ASSUME IInv, [Next]_vars PROVE IInv'
    OBVIOUS
  <1>1. ASSUME UNCHANGED <<bytes, cursor, first, inBuffer, fileRead, out>>,
               pc' \in {"call", "returned", "done"},
               pc' = "done" => Returned = 1 .. Records
        PROVE  IInv'
    BY <1>1 DEF IInv, Base, Aligned, Fresh, InBlock, Filled, Records, BufferSize,
                NothingLost, Returned, BlockwiseReversed
  <1>2. CASE ReturnEmpty
    BY <1>1, <1>2, AllReturned DEF ReturnEmpty
  <1>3. CASE CallAgain
    BY <1>1, <1>3 DEF CallAgain
  <1>4. CASE Stopped \/ UNCHANGED vars
    BY <1>1, <1>4 DEF Stopped, vars, IInv, Base, NothingLost
  <1> QED BY <1>2, <1>3, <1>4, FillKeeps, ReturnKeeps DEF Next, Work
----------------------------------------------------------------------------
\* The counts of scanTDB.c stay within the file and the buffer.
THEOREM TypeCorrect == Spec => []TypeOK
  <1>1. IInv => TypeOK
    <2> SUFFICES ASSUME IInv PROVE TypeOK
      OBVIOUS
    <2>1. Base
      BY DEF IInv
    <2>2. cursor \in 0 .. bytes /\ first \in 0 .. Records /\ inBuffer \in 0 .. BlockSize
      <3>1. CASE Fresh
        BY <2>1, <3>1, RecordsCounted, ScanAssumption DEF Fresh, Base
      <3>2. CASE InBlock
        BY <2>1, <3>2, BlockFacts, ScanAssumption DEF InBlock, Base
      <3> QED BY <3>1, <3>2 DEF IInv
    <2> QED BY <2>1, <2>2 DEF TypeOK, Base
  <1> QED BY <1>1, InitInv, NextInv, PTL DEF Spec

\* Wherever the file ends (after a block, a record or part of one), every
\* record that fillBuffer has read is in the buffer or was returned once, and
\* when scanTDBGetTuple returns its empty tuple all of them were returned.
THEOREM NoRecordLost == Spec => []NothingLost
  <1>1. IInv => NothingLost
    BY DEF IInv
  <1> QED BY <1>1, InitInv, NextInv, PTL DEF Spec

\* The order of the result is known for every file: blocks as they come, each
\* from its last record to its first (scanTDB.c hands out the buffer's end).
THEOREM OrderOfRecords == Spec => []BlockwiseReversed
  <1>1. IInv => BlockwiseReversed
    BY DEF IInv
  <1> QED BY <1>1, InitInv, NextInv, PTL DEF Spec

\* The scan is an iterator over the complete records of the file: what it
\* returns is new, and its empty tuple comes after the last (the safety part
\* of ImplementsIterator; that the calls end is liveness, left to the run).
THEOREM ScanIsIterator == Spec => RI!RISafety
  <1>1. Init => RI!RIInit
    BY DEF Init, RI!RIInit
  <1>2. IInv /\ [Next]_vars => [RI!RINext]_(RI!riVars)
    <2> SUFFICES ASSUME IInv, [Next]_vars PROVE [RI!RINext]_(RI!riVars)
      OBVIOUS
    <2>1. CASE ReturnRecord
      <3>1. first + inBuffer \in RI!Waiting
        BY <2>1, NewRecord DEF ReturnRecord, RI!Waiting, Returned
      <3>2. bytes' = bytes /\ pc = "call" /\ pc' = "returned"
            /\ out' = Append(out, first + inBuffer)
        BY <2>1 DEF ReturnRecord
      <3> QED BY <3>1, <3>2 DEF RI!RINext, RI!ReturnRow, Records
    <2>2. CASE ReturnEmpty
      <3>1. pc = "call" /\ pc' = "done" /\ bytes' = bytes /\ out' = out
            /\ inBuffer = 0 /\ fileRead
        BY <2>2 DEF ReturnEmpty
      <3>2. Returned = 1 .. Records
        BY <3>1, AllReturned
      <3>3. RI!Waiting = {}
        BY <3>2 DEF RI!Waiting, Returned
      <3> QED BY <3>1, <3>3 DEF RI!RINext, RI!ReturnEmpty, Records
    <2>3. CASE FillBuffer \/ CallAgain \/ Stopped \/ UNCHANGED vars
      BY <2>3 DEF FillBuffer, CallAgain, Stopped, vars, RI!riVars, Records
    <2> QED BY <2>1, <2>2, <2>3 DEF Next, Work
  <1> QED BY <1>1, <1>2, InitInv, NextInv, PTL DEF Spec, RI!RISafety
============================================================================
