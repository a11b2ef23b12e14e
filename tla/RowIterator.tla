---------------------------- MODULE RowIterator ----------------------------
(***************************************************************************)
(* What an operator expects of its child: each call of getTuple returns a  *)
(* row of the table it has not returned before, and an empty tuple only    *)
(* when there is none left.  SQL promises no order, neither does this.     *)
(***************************************************************************)
EXTENDS Integers, Sequences

VARIABLES rows,     \* The rows of the table
          out,      \* Those returned so far, first to last
          ended     \* The empty tuple has been returned

riVars == <<rows, out, ended>>

Waiting == rows \ {out[n] : n \in DOMAIN out}

RIInit ==
    /\ out = <<>>
    /\ ended = FALSE

ReturnRow ==
    /\ ~ ended
    /\ \E r \in Waiting : out' = Append(out, r)
    /\ UNCHANGED <<rows, ended>>

ReturnEmpty ==
    /\ ~ ended
    /\ Waiting = {}
    /\ ended' = TRUE
    /\ UNCHANGED <<rows, out>>

RINext == ReturnRow \/ ReturnEmpty

RISafety == RIInit /\ [][RINext]_riVars

\* A parent that keeps calling gets every row and then the empty tuple.
RISpec == RISafety /\ WF_riVars(RINext)
============================================================================
