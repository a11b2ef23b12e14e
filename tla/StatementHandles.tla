-------------------------- MODULE StatementHandles --------------------------
(***************************************************************************)
(* What the ODBC driver does with the files that its statements read,      *)
(* whatever the statements and their rows are: a handle has a plan, the    *)
(* scan of the plan opens a FILE at the first fetch and closes it when it  *)
(* has read the last line, and an aggregate has then one row to return.    *)
(* OdbcStatement, which has the plans and the rows, implements this.       *)
(***************************************************************************)
CONSTANTS
    Handles,
    Files,      \* The memory in which fopen may place a FILE
    NoFile      \* What a plan has instead before its first fetch

VARIABLES
    running,    \* The host program goes on
    state,      \* Of each handle: "none", "empty", or "query" with a plan
    file,       \* The FILE that the plan of each handle refers to
    drained,    \* The aggregate of each handle has returned its row
    open,       \* The FILEs that are open
    (* What the host has seen, as in OdbcStatement. *)
    ended, overrun, abandoned

vars == <<running, state, file, drained, open, ended, overrun, abandoned>>

Init ==
    /\ running = TRUE
    /\ state = [h \in Handles |-> "none"]
    /\ file = [h \in Handles |-> NoFile]
    /\ drained = [h \in Handles |-> FALSE]
    /\ open = {}
    /\ ended = [h \in Handles |-> FALSE]
    /\ overrun = FALSE
    /\ abandoned = FALSE

SQLAllocHandle(h) ==
    /\ running /\ state[h] = "none"
    /\ state' = [state EXCEPT ![h] = "empty"]
    /\ UNCHANGED <<running, file, drained, open, ended, overrun, abandoned>>

\* The plan is freed, and with it what it knew of its FILE.
Drops(h) ==
    /\ file' = [file EXCEPT ![h] = NoFile]
    /\ drained' = [drained EXCEPT ![h] = FALSE]
    /\ ended' = [ended EXCEPT ![h] = FALSE]
    /\ abandoned' = (abandoned \/ (state[h] = "query" /\ ~ ended[h]))
    /\ UNCHANGED <<running, open, overrun>>

SQLFreeHandle(h) ==
    /\ running /\ state[h] = "query"
    /\ state' = [state EXCEPT ![h] = "none"]
    /\ Drops(h)

SQLPrepare(h) ==
    /\ running /\ state[h] # "none"
    /\ state' = [state EXCEPT ![h] = "query"]
    /\ Drops(h)

\* SQLFetch makes the scan of the plan read f: what fopen returns, or what it
\* returned before and is open, perhaps because another plan has opened it.
Reads(h, f) ==
    /\ running /\ state[h] = "query" /\ ~ drained[h]
    /\ \/ file[h] = NoFile /\ ~ ended[h] /\ f \in Files \ open
       \/ file[h] = f /\ f \in open
    /\ file' = [file EXCEPT ![h] = f]
    /\ UNCHANGED <<running, state>>

\* The scan has more lines.
FetchRow(h) == \E f \in Files :
    /\ Reads(h, f)
    /\ open' = open \cup {f}
    /\ overrun' = (overrun \/ ended[h])
    /\ UNCHANGED <<drained, ended, abandoned>>

\* The aggregate returns what has come of all lines.
FetchResult(h) == \E f \in Files :
    /\ Reads(h, f)
    /\ open' = open \ {f}
    /\ drained' = [drained EXCEPT ![h] = TRUE]
    /\ overrun' = (overrun \/ ended[h])
    /\ UNCHANGED <<ended, abandoned>>

\* There are no more lines, or what comes of them does not pass a filter.
FetchNoData(h) == \E f \in Files :
    /\ Reads(h, f)
    /\ open' = open \ {f}
    /\ drained' \in {drained, [drained EXCEPT ![h] = TRUE]}
    /\ ended' = [ended EXCEPT ![h] = TRUE]
    /\ overrun' = (overrun \/ (ended[h] /\ open' # open))
    /\ UNCHANGED abandoned

\* An aggregate that has returned its row does not ask its child again.
FetchAgain(h) ==
    /\ running /\ state[h] = "query" /\ drained[h]
    /\ ended' = [ended EXCEPT ![h] = TRUE]
    /\ UNCHANGED <<running, state, file, drained, open, overrun, abandoned>>

\* A join has its files for itself.
FetchJoined(h) ==
    /\ running /\ state[h] = "query" /\ ~ drained[h] /\ file[h] = NoFile
    /\ \/ /\ overrun' = (overrun \/ ended[h])
          /\ drained' \in {drained, [drained EXCEPT ![h] = TRUE]}
          /\ UNCHANGED ended
       \/ /\ ended' = [ended EXCEPT ![h] = TRUE]
          /\ drained' \in {drained, [drained EXCEPT ![h] = TRUE]}
          /\ UNCHANGED overrun
    /\ UNCHANGED <<running, state, file, open, abandoned>>

\* The host program ends in a call.
HostEnds(h) ==
    /\ running /\ state[h] # "none"
    /\ running' = FALSE
    /\ state' = [g \in Handles |-> IF g = h THEN state[h] ELSE "none"]
    /\ file' = [g \in Handles |-> IF g = h THEN file[h] ELSE NoFile]
    /\ drained' = [g \in Handles |-> IF g = h THEN drained[h] ELSE FALSE]
    /\ open' = {}
    /\ UNCHANGED <<ended, overrun, abandoned>>

Fetch(h) ==
    FetchRow(h) \/ FetchResult(h) \/ FetchNoData(h) \/ FetchAgain(h) \/ FetchJoined(h)

Next == \E h \in Handles :
    SQLAllocHandle(h) \/ SQLFreeHandle(h) \/ SQLPrepare(h) \/ Fetch(h) \/ HostEnds(h)

Spec == Init /\ [][Next]_vars
----------------------------------------------------------------------------
\* The plan of h is in the middle of its file.
Busy(h) == state[h] = "query" /\ file[h] # NoFile /\ ~ ended[h] /\ ~ drained[h]

\* As long as no statement is dropped before its end, a FILE that is open is
\* one that a statement has still to read.
FilesAreClosed ==
    ~ abandoned => \A f \in open : \E h \in Handles : Busy(h) /\ file[h] = f

\* As long as nobody fetches past an end, a statement that is being read has
\* a FILE that is open and no other statement reads it.
OwnFile ==
    running /\ ~ overrun => \A h \in Handles : Busy(h) =>
        /\ file[h] \in open
        /\ \A g \in Handles \ {h} : Busy(g) => file[g] # file[h]
=============================================================================
