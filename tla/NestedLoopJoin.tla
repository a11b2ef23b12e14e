-------------------------- MODULE NestedLoopJoin ---------------------------
(***************************************************************************)
(* The nested-loop join operator, src/operators/join.c: joinGetTuple and   *)
(* the state it keeps in op->info.join between two calls.  The first call  *)
(* copies the right child into a tuple buffer, every call goes on with the *)
(* pair of rows where the last one stopped.  One action is one iteration   *)
(* of a loop of the function.                                              *)
(*                                                                         *)
(* Rows are numbered from 1 and the join condition is any set of pairs of  *)
(* rows: what evaluateTuplesAgainstFilterOps says of them.                 *)
(***************************************************************************)
EXTENDS Integers, Sequences

CONSTANTS MinLeft, MaxLeft, MaxRight     \* Sizes of the tables joined

ASSUME SizesAssumption ==
    /\ MinLeft \in Nat
    /\ MaxLeft \in Nat
    /\ MaxRight \in Nat

VARIABLES
    nleft, nright,  \* Number of rows the children return
    matching,       \* The pairs that satisfy the join condition
    rcount,         \* op->info.join.rightTupleCount
    ridx,           \* op->info.join.rightTupleIdx
    lpos,           \* The row in leftTuple: 0 when leftTuple is NULL,
                    \* nleft + 1 when it is the empty tuple
    pc,             \* Where the operator is
    out             \* The pairs returned so far

tables == <<nleft, nright, matching>>
vars == <<tables, rcount, ridx, lpos, pc, out>>

Pairs == (1 .. nleft) \X (1 .. nright)

LeftIsEmpty == lpos = nleft + 1

Init ==
    /\ nleft \in MinLeft .. MaxLeft
    /\ nright \in 0 .. MaxRight
    /\ matching \in SUBSET Pairs
    /\ rcount = 0
    /\ ridx = 0
    /\ lpos = 0
    /\ pc = "collect"
    /\ out = <<>>
----------------------------------------------------------------------------
CollectRight ==
    /\ pc = "collect"
    /\ rcount < nright
    /\ rcount' = rcount + 1
    /\ UNCHANGED <<tables, ridx, lpos, pc, out>>

\* The right child is at its end.  leftTuple is NULL: it is allocated and
\* gets the first left row.
FirstLeft ==
    /\ pc = "collect"
    /\ rcount = nright
    /\ lpos' = 1
    /\ pc' = "entry"
    /\ UNCHANGED <<tables, rcount, ridx, out>>

\* The test of leftTuple on every entry of the function: an empty one makes
\* it call the left child, although that is at its end.
Enter ==
    /\ pc = "entry"
    /\ pc' = IF LeftIsEmpty THEN "fault" ELSE "loop"
    /\ UNCHANGED <<tables, rcount, ridx, lpos, out>>

\* Mutant: the right position is not set back.
NextLeftKeepsIdx ==
    /\ pc = "loop"
    /\ ridx >= rcount
    /\ lpos' = lpos + 1
    /\ pc' = IF lpos = nleft THEN "finish" ELSE "loop"
    /\ UNCHANGED <<tables, rcount, ridx, out>>

\* All right rows tried: start over with the next left row.
NextLeft ==
    /\ pc = "loop"
    /\ ridx >= rcount
    /\ ridx' = 0
    /\ lpos' = lpos + 1
    /\ pc' = IF lpos = nleft THEN "finish" ELSE "loop"
    /\ UNCHANGED <<tables, rcount, out>>

\* Mutant: one position too many.
RejectPastEnd ==
    /\ pc = "loop"
    /\ ridx <= rcount
    /\ <<lpos, ridx + 1>> \notin matching
    /\ ridx' = ridx + 1
    /\ UNCHANGED <<tables, rcount, lpos, pc, out>>

Reject ==
    /\ pc = "loop"
    /\ ridx < rcount
    /\ <<lpos, ridx + 1>> \notin matching
    /\ ridx' = ridx + 1
    /\ UNCHANGED <<tables, rcount, lpos, pc, out>>

ReturnTuple ==
    /\ pc = "loop"
    /\ ridx < rcount
    /\ <<lpos, ridx + 1>> \in matching
    /\ ridx' = ridx + 1
    /\ out' = Append(out, <<lpos, ridx + 1>>)
    /\ pc' = "returned"
    /\ UNCHANGED <<tables, rcount, lpos>>

\* Mutant: the right position is kept in a local variable of the call.
CallFromFirst ==
    /\ pc = "returned"
    /\ pc' = "entry"
    /\ ridx' = 0
    /\ UNCHANGED <<tables, rcount, lpos, out>>

CallAgain ==
    /\ pc = "returned"
    /\ pc' = "entry"
    /\ UNCHANGED <<tables, rcount, ridx, lpos, out>>

\* Frees the buffer and the left tuple; tpl is marked empty.
Finish ==
    /\ pc = "finish"
    /\ pc' = "done"
    /\ UNCHANGED <<tables, rcount, ridx, lpos, out>>

\* A parent does not call again after the empty tuple; what happens after a
\* call of a child past its end is not determined by the source.
Stopped == pc \in {"done", "fault"} /\ UNCHANGED vars

Work ==
    \/ CollectRight \/ FirstLeft \/ Enter \/ NextLeft
    \/ Reject \/ ReturnTuple \/ CallAgain \/ Finish

Next == Work \/ Stopped

Spec == Init /\ [][Next]_vars

\* One thread, and a parent that calls until it gets the empty tuple.
FairSpec == Spec /\ WF_vars(Work)
----------------------------------------------------------------------------
(***************************************************************************)
(* Properties.                                                             *)
(***************************************************************************)
\* Positions stay within the tables and the tuple buffer, and a pair is only
\* made of rows the children returned.
TypeOK ==
    /\ nleft \in Nat /\ nright \in Nat
    /\ matching \subseteq Pairs
    /\ rcount \in 0 .. nright
    /\ ridx \in 0 .. rcount
    /\ lpos \in 0 .. (nleft + 1)
    /\ pc \in {"collect", "entry", "loop", "returned", "finish", "done", "fault"}
    /\ out \in Seq(Pairs)

Returned == {out[n] : n \in DOMAIN out}

\* The pair p comes before the one the loop tries next.
Tried(p) == p[1] < lpos \/ (p[1] = lpos /\ p[2] <= ridx)

\* Whenever the operator is between two pairs it has returned the matching
\* ones it has passed and no other: suspending the double loop at a return
\* and taking it up in the next call skips and repeats nothing.
ReturnedSoFar == Returned = {p \in matching : Tried(p)}

JI == INSTANCE JoinIterator WITH
        joined <- matching,
        ended  <- pc = "done"

\* With a row in the left table the operator is a join iterator: the loop of
\* join.c:51-54, ending with the empty tuple.
ImplementsJoin == JI!JISpec
============================================================================
