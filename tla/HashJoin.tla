----------------------------- MODULE HashJoin ------------------------------
(***************************************************************************)
(* The hash-join operator, src/operators/hashjoin.c: hashjoinGetTuple and  *)
(* the state it keeps in op->info.join between two calls.  The first call  *)
(* reads the whole right child into a tuple buffer and a hash map from the *)
(* string at the join column to row numbers; every call then goes on       *)
(* probing the map with the left rows until a pair passes the filter.      *)
(* One action is one iteration of a loop of the function.                  *)
(***************************************************************************)
EXTENDS Hashmap

CONSTANTS
    LeftInputs,     \* The tables the left child may scan,
    RightInputs,    \* and the right child: sequences of rows
    IntMod          \* 2^32: the filter keeps `long - long' in an int

ASSUME HashJoinAssumption == IntMod \in Nat \ {0}

(***************************************************************************)
(* Of a row the operator sees only the join column:                        *)
(*   key  the string found there when the row has just been read,          *)
(*   alt  the string found there once the filter has converted the column  *)
(*        to a long, which makes offsets[col] an index into longs[],       *)
(*   val  the value compared by the filter.                                *)
(* For a string column and for a .tdb row alt is key.  The key of a stored *)
(* long is a string of its bytes and those behind it, so that two rows of  *)
(* one value may have different keys.                                      *)
(***************************************************************************)
Row == [key : Keys, alt : Keys, val : Int]

ASSUME InputsAssumption ==
    /\ LeftInputs \subseteq Seq(Row)
    /\ RightInputs \subseteq Seq(Row)

VARIABLES
    left, right,    \* The tables being joined
    map,            \* op->info.join.hashmap
    rcount,         \* op->info.join.rightTupleCount
    lpos,           \* The row in leftTuple; 0 for the zeroed tuple it starts
                    \* as, Len(left) + 1 for the empty tuple
    casted,         \* leftTuple->casted[joinColIdx]
    pc,             \* Where the operator is
    out             \* The pairs of positions returned so far

vars == <<left, right, map, rcount, lpos, casted, pc, out>>

\* A stored long read as a C string: the bytes of data from its offset on, up
\* to the first zero byte.  When none of its own is zero the string goes on
\* with the columns behind it, and behind the record with what the memory
\* holds: zeros in the left tuple, anything in the buffer of the right ones.
CString(data) ==
    LET n == CHOOSE n \in 0 .. Len(data) :
                /\ \A m \in 1 .. n : data[m] # 0
                /\ n = Len(data) \/ data[n + 1] = 0
    IN  SubSeq(data, 1, n)

\* (char*) getTupleColByIndex(leftTuple, joinColIdx)
JoinValue ==
    IF lpos = 0 THEN Empty
    ELSE IF casted THEN left[lpos].alt ELSE left[lpos].key

\* The single `=' of the join condition: int cmpRes = a - b; cmpRes == 0.
Matches(l, r) == (l.val - r.val) % IntMod = 0

Init ==
    /\ left \in LeftInputs
    /\ right \in RightInputs
    /\ map = InitHashmap
    /\ rcount = 0
    /\ lpos = 0
    /\ casted = FALSE
    /\ pc = "collect"
    /\ out = <<>>
----------------------------------------------------------------------------
\* One row of the right child goes to the buffer and into the map.
CollectRight ==
    /\ pc = "collect"
    /\ rcount < Len(right)
    /\ ~ Overruns(map, right[rcount + 1].key)
    /\ map' = InsertToHashmap(map, right[rcount + 1].key, rcount)
    /\ rcount' = rcount + 1
    /\ UNCHANGED <<left, right, lpos, casted, pc, out>>

\* More rows with one key than a node of the map holds; see Overruns.
CollectTooMany ==
    /\ pc = "collect"
    /\ rcount < Len(right)
    /\ Overruns(map, right[rcount + 1].key)
    /\ pc' = "wild"
    /\ UNCHANGED <<left, right, map, rcount, lpos, casted, out>>

\* The right child returned its empty tuple; leftTuple is still zeroed.
Collected ==
    /\ pc = "collect"
    /\ rcount = Len(right)
    /\ pc' = "probe"
    /\ UNCHANGED <<left, right, map, rcount, lpos, casted, out>>

\* Mutant: the cursor is not rewound.
NextLeftNoReset ==
    /\ pc = "probe"
    /\ ~ IsInHashmap(map, JoinValue)
    /\ lpos' = lpos + 1
    /\ casted' = FALSE
    /\ pc' = IF lpos = Len(left) THEN "finish" ELSE "probe"
    /\ UNCHANGED <<left, right, map, rcount, out>>

\* Nothing, or nothing more, under the join value: rewind and read on.
NextLeft ==
    /\ pc = "probe"
    /\ ~ IsInHashmap(map, JoinValue)
    /\ map' = ResetCursor(map, JoinValue)
    /\ lpos' = lpos + 1
    /\ casted' = FALSE
    /\ pc' = IF lpos = Len(left) THEN "finish" ELSE "probe"
    /\ UNCHANGED <<left, right, rcount, out>>

\* The row number read from the map, as a position in `right'.  It is never
\* negative: IsInHashmap has just said that a value is left.
Candidate == GetResult(map, JoinValue) + 1

\* Mutant: the rejected candidate is looked at again.
RejectStays ==
    /\ pc = "probe"
    /\ IsInHashmap(map, JoinValue)
    /\ ~ Matches(left[lpos], right[Candidate])
    /\ casted' = TRUE
    /\ UNCHANGED <<left, right, map, rcount, lpos, pc, out>>

\* The values differ although the keys are equal: go on with the same row.
Reject ==
    /\ pc = "probe"
    /\ IsInHashmap(map, JoinValue)
    /\ ~ Matches(left[lpos], right[Candidate])
    /\ map' = AfterGet(map, JoinValue)
    /\ casted' = TRUE
    /\ UNCHANGED <<left, right, rcount, lpos, pc, out>>

\* Mutants: the row number is taken as a position; the value stays in the map.
ReturnOffByOne ==
    /\ pc = "probe"
    /\ IsInHashmap(map, JoinValue)
    /\ Matches(left[lpos], right[Candidate])
    /\ out' = Append(out, <<lpos, Candidate - 1>>)
    /\ map' = AfterGet(map, JoinValue)
    /\ casted' = TRUE
    /\ pc' = "returned"
    /\ UNCHANGED <<left, right, rcount, lpos>>

ReturnAgain ==
    /\ pc = "probe"
    /\ IsInHashmap(map, JoinValue)
    /\ Matches(left[lpos], right[Candidate])
    /\ out' = Append(out, <<lpos, Candidate>>)
    /\ casted' = TRUE
    /\ pc' = "returned"
    /\ UNCHANGED <<left, right, map, rcount, lpos>>

ReturnTuple ==
    /\ pc = "probe"
    /\ IsInHashmap(map, JoinValue)
    /\ Matches(left[lpos], right[Candidate])
    /\ out' = Append(out, <<lpos, Candidate>>)
    /\ map' = AfterGet(map, JoinValue)
    /\ casted' = TRUE
    /\ pc' = "returned"
    /\ UNCHANGED <<left, right, rcount, lpos>>

\* The parent calls getTuple again: both children are collected or current.
CallAgain ==
    /\ pc = "returned"
    /\ pc' = "probe"
    /\ UNCHANGED <<left, right, map, rcount, lpos, casted, out>>

\* Frees the buffer, the left tuple and the map; tpl is marked empty.
Finish ==
    /\ pc = "finish"
    /\ pc' = "done"
    /\ UNCHANGED <<left, right, map, rcount, lpos, casted, out>>

\* A parent does not call again after the empty tuple.
Stopped == pc \in {"done", "wild"} /\ UNCHANGED vars

Work ==
    \/ CollectRight \/ CollectTooMany \/ Collected
    \/ NextLeft \/ Reject \/ ReturnTuple \/ CallAgain \/ Finish

Next == Work \/ Stopped

Spec == Init /\ [][Next]_vars

\* The engine is one thread: a call runs until it returns, and executeSelect
\* keeps calling until it gets the empty tuple.
FairSpec == Spec /\ WF_vars(Work)
----------------------------------------------------------------------------
(***************************************************************************)
(* Invariants.                                                             *)
(***************************************************************************)
\* The operator's state: positions within the tables, a known place in the
\* code and a result made of pairs of row positions.
TypeOK ==
    /\ left \in LeftInputs /\ right \in RightInputs
    /\ rcount \in 0 .. Len(right)
    /\ lpos \in 0 .. (Len(left) + 1)
    /\ casted \in BOOLEAN
    /\ pc \in {"collect", "wild", "probe", "returned", "finish", "done"}
    /\ out \in Seq((1 .. Len(left)) \X (1 .. Len(right)))

Returned == {out[n] : n \in DOMAIN out}

Pairs == (1 .. Len(left)) \X (1 .. Len(right))

\* Rows whose value does not look like another key once converted: string
\* columns, .tdb rows, and the first column of a text file.
Plain == \A i \in DOMAIN left : left[i].alt = left[i].key

\* Another key of the bucket was met before k: k's node hangs on a next
\* pointer, where resetCursor does not reach it.
Chained(k) ==
    \E j \in DOMAIN right :
        /\ right[j].key \notin {Empty, k}
        /\ Bucket(right[j].key) = Bucket(k)
        /\ \A h \in 1 .. j : right[h].key # k

\* A left row gets the right rows of its value that have its key as well,
\* unless the key is empty, or is chained and an earlier left row has used it
\* up.  Equal values are not enough: see CString.
GetsJoined(p) ==
    LET l == left[p[1]]
        r == right[p[2]]
    IN  /\ l.key = r.key
        /\ l.key # Empty
        /\ Matches(l, r)
        /\ Chained(l.key) => \A h \in 1 .. (p[1] - 1) : left[h].key # l.key

\* The result of the whole join, collisions and all, when no conversion
\* interferes (hashjoin.c: the do loop with isInHashmap and resetCursor).
ReturnsExactly ==
    pc = "done" /\ Plain => Returned = {p \in Pairs : GetsJoined(p)}

Before(p, q) == p[1] < q[1] \/ (p[1] = q[1] /\ p[2] < q[2])

\* Pairs come left row by left row and within it in the order of the right
\* rows, so none comes twice, although each row leaves cursors behind.
InOrder ==
    Plain => \A m, n \in DOMAIN out : m < n => Before(out[m], out[n])

\* Also when the conversion sends the operator to another key in the middle
\* of a left row, no pair is returned twice and no left row comes back.
NoPairTwice ==
    \A m, n \in DOMAIN out :
        m < n => out[m] # out[n] /\ out[m][1] <= out[n][1]
----------------------------------------------------------------------------
(***************************************************************************)
(* The operator and the join it stands for.                                *)
(***************************************************************************)
Joined == {p \in Pairs : left[p[1]].val = right[p[2]].val}

\* README.md: "Inner joins between two tables".
Complete == pc = "done" => Joined \subseteq Returned

\* Every call comes back and the parent that keeps calling gets the empty
\* tuple: rejected candidates are used up, whatever key they came from.
Ends == <>(pc \in {"done", "wild"})
============================================================================
