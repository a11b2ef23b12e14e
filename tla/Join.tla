-------------------------------- MODULE Join --------------------------------
(***************************************************************************)
(* getTuple of a join below other operators: joinGetTuple of               *)
(* src/operators/join.c and hashjoinGetTuple of src/operators/hashjoin.c   *)
(* on two text files, one call a function of the state in op->info.join.   *)
(* (NestedLoopJoin and HashJoin take the same functions apart, on rows     *)
(* without columns; here the rows are tuples, which the operators above    *)
(* convert while the join keeps them.)                                     *)
(***************************************************************************)
EXTENDS Filter

CONSTANTS
    HashOf,     \* The sum that hash() makes of a string
    HtSize      \* --htsize

Map == INSTANCE Hashmap WITH Keys <- Values \cup {Nul}, Empty <- Nul,
                             TableSize <- HtSize, Cap <- 10000

RECURSIVE Collect(_, _, _), NestedLoop(_, _, _), Probe(_, _, _)

\* The state before the first call.  current is the right tuple that was
\* returned last, rights is the tuple buffer.
InitJoin ==
    [state |-> "new", left |-> FreshTuple, rights |-> <<>>, rightTupleIdx |-> 0,
     current |-> 0, map |-> Map!InitHashmap, leftFile |-> ClosedFile,
     rightFile |-> ClosedFile]

\* Where a hash join looks for its key.  The place of a constant, -1, has been
\* moved by makeJoinFilterOps too, and so the offset is taken from in front of
\* offsets[]: of up to ten left columns a part of casted[] that stays zero.
KeyAt(t, operand) ==
    IF operand.kind = "col" THEN Text(t, operand.col) ELSE t.data[0]

LeftKey(j, op)   == KeyAt(j.left, op.on[1].op.left)
RightKey(t, op)  == KeyAt(t, op.on[1].op.right)

\* A row of the right table is put into the buffer, and in a hash join into
\* the map.
Stored(j, t, op, lines) ==
    [j EXCEPT !.rightFile = ScannedFile(@, lines),
              !.rights = Append(@, t),
              !.map = IF op.type = "hashjoin"
                      THEN Map!InsertToHashmap(@, RightKey(t, op), Len(j.rights))
                      ELSE @]

\* The first call does so with all of them.  (Here and below a set is that
\* of the one result.)
Collect(j, op, lines) ==
    IF AtEnd(j.rightFile, lines)
    THEN {[j EXCEPT !.state = "open", !.rightFile = ScannedFile(@, lines)]}
    ELSE UNION {Collect(next, op, lines) :
                next \in {Stored(j, t, op, lines) :
                            t \in {ScannedTuple(FreshTuple, j.rightFile, lines)}}}

ReadLeft(j, lines) ==
    {[j EXCEPT !.left = ScannedTuple(@, j.leftFile, lines),
               !.leftFile = ScannedFile(@, lines)]}

Drained(j) == {[join |-> [j EXCEPT !.state = "freed"], how |-> "end"]}

\* The condition on the left tuple and the n-th right one, which keep what
\* it converts: the join after it, and what it says.
Tried(j, n, op) ==
    {[join |-> [j EXCEPT !.left = verdict.tuples[1], !.rights[n] = verdict.tuples[2],
                         !.current = n],
      how |-> CASE verdict.failed -> "failed"
                [] verdict.value  -> "row"
                [] OTHER          -> "no"] :
        verdict \in EvaluateOps(<<j.left, j.rights[n]>>, op.on)}

\* The loops of joinGetTuple.
NestedLoop(j, op, lines) ==
    IF j.rightTupleIdx >= Len(j.rights)
    THEN UNION {IF read.left.empty THEN Drained(read) ELSE NestedLoop(read, op, lines) :
                read \in ReadLeft([j EXCEPT !.rightTupleIdx = 0], lines)}
    ELSE UNION {IF try.how = "no" THEN NestedLoop(try.join, op, lines) ELSE {try} :
                try \in Tried([j EXCEPT !.rightTupleIdx = @ + 1], j.rightTupleIdx + 1, op)}

\* The loop of hashjoinGetTuple.  The first left tuple is the zeroed one.
Probe(j, op, lines) ==
    UNION {IF ~ Map!IsInHashmap(j.map, key)
           THEN UNION {IF read.left.empty THEN Drained(read) ELSE Probe(read, op, lines) :
                       read \in ReadLeft([j EXCEPT !.map = Map!ResetCursor(@, key)], lines)}
           ELSE UNION {IF try.how = "no" THEN Probe(try.join, op, lines) ELSE {try} :
                       try \in Tried([j EXCEPT !.map = Map!AfterGet(@, key)],
                                     Map!GetResult(j.map, key) + 1, op)} :
           key \in {LeftKey(j, op)}}

\* What the operators above have converted since the last call is in the
\* tuple they share with the join.
Resumed(j, t) ==
    IF j.current = 0 \/ t.type # "join" THEN {j}
    ELSE {[j EXCEPT !.left = t.left, !.rights[j.current] = t.right]}

\* A call of getTuple with tuple t.  (A left file has a line, or it would not
\* have been planned.)
JoinCall(j, t, op, leftLines, rightLines) ==
    LET loop(k) == IF op.type = "hashjoin" THEN Probe(k, op, leftLines)
                                           ELSE NestedLoop(k, op, leftLines)
        entered == IF j.state # "new" THEN Resumed(j, t)
                   ELSE IF op.type = "hashjoin" THEN Collect(j, op, rightLines)
                   ELSE UNION {ReadLeft(k, leftLines) : k \in Collect(j, op, rightLines)}
    IN  UNION {loop(k) : k \in entered}

JoinedTuple(j, op) == Joined(j.left, j.rights[j.current], op.leftCols)
=============================================================================
