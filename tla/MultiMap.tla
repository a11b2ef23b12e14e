----------------------------- MODULE MultiMap ------------------------------
(***************************************************************************)
(* What the users of the hash map rely on: for each key the values put     *)
(* under it, in the order they were put, and a position from which they    *)
(* are read one at a time and which can be rewound.  Keys do not affect    *)
(* each other.  `last' is the call made and what it returned.              *)
(***************************************************************************)
EXTENDS Integers, Sequences

CONSTANTS Names,    \* The keys that can hold values
          Ignored,  \* A key that is accepted by every call and never stored
          Values

VARIABLES log,      \* name -> the values put, oldest first
          pos,      \* name -> how many of them have been read
          last      \* [op, key, result]

mmVars == <<log, pos, last>>

MMInit ==
    /\ log = [n \in Names |-> <<>>]
    /\ pos = [n \in Names |-> 0]
    /\ last = [op |-> "init", key |-> Ignored, result |-> 0]

PutValue(n, v) ==
    /\ log' = [log EXCEPT ![n] = Append(@, v)]
    /\ last' = [op |-> "insert", key |-> n, result |-> 0]
    /\ UNCHANGED pos

NextValue(n) ==
    /\ pos[n] < Len(log[n])
    /\ pos' = [pos EXCEPT ![n] = @ + 1]
    /\ last' = [op |-> "get", key |-> n, result |-> log[n][pos[n] + 1]]
    /\ UNCHANGED log

\* Nothing put, or nothing left: 0 and -1.
NoValue(n) ==
    /\ pos[n] = Len(log[n])
    /\ last' = [op |-> "get", key |-> n,
                result |-> IF log[n] = <<>> THEN 0 ELSE -1]
    /\ UNCHANGED <<log, pos>>

Ask(n) ==
    /\ last' = [op |-> "isin", key |-> n,
                result |-> IF pos[n] < Len(log[n]) THEN 1 ELSE 0]
    /\ UNCHANGED <<log, pos>>

Rewind(n) ==
    /\ pos' = [pos EXCEPT ![n] = 0]
    /\ last' = [op |-> "reset", key |-> n, result |-> 0]
    /\ UNCHANGED log

\* A call with the empty string stores, moves and rewinds nothing.
NoEffect ==
    /\ last' \in [op : {"insert", "isin", "reset"}, key : {Ignored}, result : {0}]
               \cup [op : {"get"}, key : {Ignored}, result : {0, -1}]
    /\ UNCHANGED <<log, pos>>

MMNext ==
    \/ \E n \in Names :
          \/ \E v \in Values : PutValue(n, v)
          \/ NextValue(n)
          \/ NoValue(n)
          \/ Ask(n)
          \/ Rewind(n)
    \/ NoEffect

MMSpec == MMInit /\ [][MMNext]_mmVars
============================================================================
