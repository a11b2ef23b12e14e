--------------------------- MODULE JoinIterator ----------------------------
(***************************************************************************)
(* What the parent of a join operator is promised: getTuple returns the    *)
(* joined pairs one call at a time, left rows in their order and for each  *)
(* the right rows in theirs, each pair once, and an empty tuple only when  *)
(* no pair is left.  A pair is the positions of its rows, and `joined' the *)
(* pairs that satisfy the join condition; it is fixed by the two tables.   *)
(***************************************************************************)
EXTENDS Integers, Sequences

VARIABLES joined,   \* The set of pairs to return
          out,      \* The pairs returned so far
          ended     \* The empty tuple has been returned

jiVars == <<joined, out, ended>>

Before(p, q) == p[1] < q[1] \/ (p[1] = q[1] /\ p[2] < q[2])

Waiting == joined \ {out[n] : n \in DOMAIN out}

JIInit ==
    /\ out = <<>>
    /\ ended = FALSE

ReturnPair ==
    /\ ~ ended
    /\ \E p \in Waiting :
          /\ \A q \in Waiting \ {p} : Before(p, q)
          /\ out' = Append(out, p)
    /\ UNCHANGED <<joined, ended>>

ReturnEmpty ==
    /\ ~ ended
    /\ Waiting = {}
    /\ ended' = TRUE
    /\ UNCHANGED <<joined, out>>

JINext == ReturnPair \/ ReturnEmpty

JISafety == JIInit /\ [][JINext]_jiVars

\* A parent that keeps calling gets every pair and then the empty tuple.
JISpec == JISafety /\ WF_jiVars(JINext)
============================================================================
