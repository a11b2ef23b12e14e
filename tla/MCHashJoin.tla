---------------------------- MODULE MCHashJoin -----------------------------
(***************************************************************************)
(* Small tables for HashJoin.  A key is a sequence of bytes: the text of a *)
(* column, or a stored long and what follows it up to the first zero byte. *)
(***************************************************************************)
EXTENDS HashJoin

UpTo(n, S) == UNION {[1 .. m -> S] : m \in 0 .. n}

NoBytes == <<>>
a == <<1>>
b == <<2>>
c == <<3>>
Texts == {NoBytes, a, b, c}

ValOf(k) == CASE k = a -> 1 [] k = b -> 2 [] k = c -> 3 [] OTHER -> 0

PlainRow(k) == [key |-> k, alt |-> k, val |-> ValOf(k)]

\* a and c share a bucket, which is also that of the empty string.
MCHash == [k \in Keys |->
    CASE k = a -> 2 [] k = b -> 1 [] k = c -> 4 [] OTHER -> Len(k)]

PlainTables == UpTo(3, {PlainRow(k) : k \in Texts})

\* Text tables joined on a long that is not the first column, which may hold
\* anything: the look-ups find it after a conversion.
TextLongTables ==
    UpTo(2, {[key |-> k, alt |-> s, val |-> ValOf(k)] : k \in Texts, s \in {a, c}})

\* Longs of three bytes in base 2, and ints of two.
Bytes == [1 .. 3 -> 0 .. 1]

\* What follows is the end of the record, or a byte of the next column.
Behind == {<<>>, <<0>>, <<1>>}

StoredRow(d, behind) == [key |-> CString(d \o behind), alt |-> CString(d \o behind),
                         val |-> d[1] + 2 * d[2] + 4 * d[3]]

StoredTables == UpTo(1, {StoredRow(d, behind) : d \in Bytes, behind \in Behind})

MCKeys == Texts \cup {CString(d \o behind) : d \in Bytes, behind \in Behind}

LeftTables  == PlainTables \cup TextLongTables \cup StoredTables
RightTables == UpTo(3, {PlainRow(k) : k \in Texts \ {c}}) \cup StoredTables

FilledTables == UpTo(3, {PlainRow(k) : k \in Texts \ {NoBytes}})
============================================================================
