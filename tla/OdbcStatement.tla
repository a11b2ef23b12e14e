--------------------------- MODULE OdbcStatement ---------------------------
(***************************************************************************)
(* The ODBC driver, src/odbc: a host program with statement handles, each  *)
(* with a plan and a tuple, of which SQLFetch gets one row at a time.  The *)
(* host may make any call on a handle it has, in any order, and the calls  *)
(* on different handles may be mixed.                                      *)
(*                                                                         *)
(* SQLExecDirect does what SQLPrepare does, SQLFetchScroll at most what    *)
(* SQLFetch does; SQLExecute, SQLCancel, SQLFreeStmt and the calls on      *)
(* other handles do nothing.                                               *)
(***************************************************************************)
EXTENDS Aggregate, Catalog, Join, Planner, Sql

CONSTANTS
    Handles,
    Statements,     \* What the host prepares, as in Sql
    Tables,         \* Tables[f]: the lines of file f
    Bindings,       \* What the host binds: [column, type, buffer, indicator],
                    \* type is "char", "long" or "other", and the host may
                    \* leave out the buffer or the place for the length
    MaxScans        \* Bound on the FILEs that are ever opened

VARIABLES
    handles,    \* Each a StatementHandle, or Unallocated
    scans,      \* The FILEs with their line buffers: [table, file].  A freed
                \* one is memory that fopen may hand out again.
    host,       \* [how, call, handle, with]: how is "running", "failed" by
                \* exit(1), or "crashed", in a call with a handle and,
                \* if the call has one, a statement or a binding
    (* What the host has seen, of which the driver knows nothing. *)
    returned,   \* The rows that each handle has returned since its SQLPrepare
    ended,      \* SQLFetch of it has said SQL_NO_DATA
    overrun,    \* A statement was fetched again after that
    abandoned   \* A statement was dropped before that

seen == <<returned, ended, overrun, abandoned>>
vars == <<handles, scans, host, seen>>

RECURSIVE GetTuple(_, _), Fold(_, _, _)

Unallocated == [allocated |-> FALSE]

\* Mutant: the memory is not cleared and holds an old tuple.
NewHandleUncleared ==
    [allocated |-> TRUE, prepared |-> FALSE, plan |-> <<>>, statement |-> <<>>,
     tpl |-> FreshTuple, scan |-> 0, join |-> InitJoin, done |-> {},
     bound |-> FALSE, charBuff |-> {}, longintBuff |-> {}]

\* SQLAllocHandle: calloc, so there is no plan, no tuple and no binding.
NewHandle ==
    [allocated |-> TRUE, prepared |-> FALSE, plan |-> <<>>, statement |-> <<>>,
     tpl |-> <<>>, scan |-> 0, join |-> InitJoin, done |-> {},
     bound |-> FALSE, charBuff |-> {}, longintBuff |-> {}]

\* planQuery.  Nobody calls initOptions in the library.
TableColumns == [f \in DOMAIN Tables |-> CatalogFile(f, Tables[f])]
Planned ==
    [s \in Statements |->
        Plan(Statement(Parse(StatementTokens(s))), TableColumns, "unset")]

\* planQuery and prepareQuery: a statement that is not a query has no
\* getTuple, which ends the program.
Prepares(s) ==
    LET outcome == Outcome(Planned[s].ops) IN
    CASE outcome # "planned" -> outcome
      [] Planned[s].ops[1].type \in {"project", "aggregate"} -> "ok"
      [] OTHER -> "failed"

Running == [how |-> "running", call |-> "none", handle |-> "none", with |-> <<>>]

NothingReturned == [h \in Handles |-> <<>>]

Init ==
    /\ handles = [h \in Handles |-> Unallocated]
    /\ scans = <<>>
    /\ host = Running
    /\ returned = NothingReturned
    /\ ended = [h \in Handles |-> FALSE]
    /\ overrun = FALSE
    /\ abandoned = FALSE

Allocated(h) == host.how = "running" /\ handles[h].allocated
Prepared(h)  == Allocated(h) /\ handles[h].prepared

\* The host program ends in a call, and of its memory only the handle of the
\* call is looked at.
Ends(how, call, h, s) ==
    /\ host' = [how |-> how, call |-> call, handle |-> h, with |-> s]
    /\ handles' = [g \in Handles |-> IF g = h THEN handles[h] ELSE Unallocated]
    /\ scans' = <<>>
    /\ returned' = NothingReturned
    /\ UNCHANGED <<ended, overrun, abandoned>>
----------------------------------------------------------------------------
\* fetchTuple: one call of getTuple of ops[1] and what it calls.  A run is
\* [tpl, scan, join, done, scans, how]: the tuple, what the plan keeps - done
\* are the aggregates that are - and how it went, "ok" or as in host.  The
\* result is the set of what may come of it.
Opened(run, table) ==
    LET new == [table |-> table, file |-> ClosedFile]
    IN  {[run EXCEPT !.scan = n, !.scans = IF n > Len(@) THEN Append(@, new)
                                                         ELSE [@ EXCEPT ![n] = new]] :
            n \in {m \in 1 .. Min({Len(run.scans) + 1, MaxScans}) :
                    m > Len(run.scans) \/ run.scans[m].file.state = "freed"}}

\* scanGetTuple with a FILE that it has closed before: it crashes, unless
\* another statement has got the memory and its file is read.
ReadFrom(run) ==
    LET scan == run.scans[run.scan] IN
    IF scan.file.state = "freed" THEN [run EXCEPT !.how = "crashed"]
    ELSE [run EXCEPT
            !.tpl = ScannedTuple(@, scan.file, Tables[scan.table]),
            !.scans[run.scan].file = ScannedFile(@, Tables[scan.table])]

Scan(op, run) ==
    {ReadFrom(r) : r \in IF run.scan = 0 THEN Opened(run, op.file) ELSE {run}}

\* The files of a join are not among the scans.
JoinRun(op, run) ==
    IF run.join.state = "freed" THEN {[run EXCEPT !.how = "crashed"]}
    ELSE {CASE call.how = "row" -> [run EXCEPT !.join = call.join,
                                               !.tpl = JoinedTuple(call.join, op)]
            [] call.how = "end" -> [run EXCEPT !.join = call.join,
                                               !.tpl = MarkTupleAsEmpty(@)]
            [] OTHER -> [run EXCEPT !.how = "failed"] :
          call \in JoinCall(run.join, run.tpl, op, Tables[op.left], Tables[op.right])}

\* Mutant: the aggregate forgets that it is done.
KeptUndone(run, k) == run

Done(run, k) == [run EXCEPT !.done = @ \cup {k}]

\* The loop of aggregateGetTuple: the runs at the end of its child, each with
\* what the aggregate has come to.
Fold(ops, run, a) ==
    UNION {IF below.how # "ok" \/ below.tpl.empty THEN {[run |-> below, a |-> a]}
           ELSE UNION {Fold(ops, [below EXCEPT !.tpl = t], Counted(ops[1], a, t)) :
                       t \in {Observed(ops[1], below.tpl)}} :
           below \in GetTuple(Tail(ops), run)}

GetTuple(ops, run) ==
    LET op == ops[1] IN
    CASE op.type = "project" -> GetTuple(Tail(ops), run)
      [] op.type = "scan" -> Scan(op, run)
      [] op.type \in {"join", "hashjoin"} -> JoinRun(op, run)
      [] op.type = "filter" ->
            UNION {IF below.how # "ok" \/ below.tpl.empty THEN {below}
                   ELSE UNION {CASE verdict.failed -> {[below EXCEPT !.how = "failed"]}
                                 [] ~ verdict.failed /\ verdict.value ->
                                        {[below EXCEPT !.tpl = verdict.tuples[1]]}
                                 [] OTHER ->
                                        GetTuple(ops, [below EXCEPT !.tpl = verdict.tuples[1]]) :
                               verdict \in EvaluateOps(<<below.tpl>>, op.list)} :
                   below \in GetTuple(Tail(ops), run)}
      [] op.type = "aggregate" /\ Len(ops) \in run.done ->
            {[run EXCEPT !.tpl = MarkTupleAsEmpty(@)]}
      [] op.type = "aggregate" /\ Len(ops) \notin run.done ->
            {CASE end.run.how # "ok" -> end.run
               [] end.run.how = "ok" /\ DividesByZero(op, end.a) ->
                    [end.run EXCEPT !.how = "crashed"]
               [] OTHER -> [Done(end.run, Len(ops)) EXCEPT
                                !.tpl = WithResult(run.tpl, Final(op, end.a))] :
             end \in Fold(ops, [run EXCEPT !.tpl = FreshTuple], NoObservations(op))}

Fetched(h) ==
    LET handle == handles[h] IN
    GetTuple(handle.plan.ops, [tpl |-> handle.tpl, scan |-> handle.scan,
                               join |-> handle.join, done |-> handle.done,
                               scans |-> scans, how |-> "ok"])
----------------------------------------------------------------------------
\* api.c: the number of columns is that of columnOrder, but the columns are
\* taken as they stand in the result description.  getLongFromIndex takes
\* the bytes at the column's offset for a long, and getCharFromIndex for a
\* string, whatever they are; a joined tuple has nothing there.
Width(handle) == Len(handle.plan.order)
ColumnOf(handle, c) == handle.plan.cols[c + 1]

FromIndex(handle, c) ==
    LET t == handle.tpl
        isLong == ColumnOf(handle, c).type = "long"
    IN  CASE t.type = "join" -> [kind |-> "zero", long |-> 0, text |-> Nul]
          [] t.type = "tdb"  -> [kind |-> "long", long |-> t.long, text |-> Nul]
          [] OTHER -> [kind |-> IF isLong THEN "bytes" ELSE "text",
                       long |-> 0, text |-> Text(t, c)]

\* Once the host has called SQLBindCol each column of the row is written to
\* the buffer of its type; only an empty text needs none.
Writable(handle) ==
    handle.bound => \A c \in 0 .. Width(handle) - 1 :
        IF ColumnOf(handle, c).type = "long"
        THEN c \in handle.longintBuff
        ELSE c \in handle.charBuff \/ FromIndex(handle, c).text = Nul
----------------------------------------------------------------------------
SQLAllocHandle(h) ==
    /\ host.how = "running"
    /\ ~ handles[h].allocated
    /\ handles' = [handles EXCEPT ![h] = NewHandle]
    /\ UNCHANGED <<scans, host, seen>>

\* What the host sees when the statement of a handle is dropped.
Dropped(h) ==
    /\ returned' = [returned EXCEPT ![h] = <<>>]
    /\ ended' = [ended EXCEPT ![h] = FALSE]
    /\ abandoned' = (abandoned \/ (handles[h].prepared /\ ~ ended[h]))
    /\ UNCHANGED overrun

\* The plan is freed, but not what its scan has opened.  Without a plan
\* there is no tuple either, and freeTuple has nothing to look at.
SQLFreeHandle(h) ==
    /\ Prepared(h)
    /\ handles' = [handles EXCEPT ![h] = Unallocated]
    /\ Dropped(h)
    /\ UNCHANGED <<scans, host>>

FreeUnprepared(h) ==
    /\ Allocated(h) /\ ~ Prepared(h)
    /\ Ends("crashed", "free", h, <<>>)

\* Mutant: the statement goes on with the scan of the one before.
PreparedOn(handle, s) ==
    [handle EXCEPT !.prepared = TRUE, !.statement = s, !.plan = Planned[s],
                   !.tpl = FreshTuple, !.join = InitJoin, !.done = {}]

\* A new plan and a new tuple; bindings stay.
WithStatement(handle, s) ==
    [handle EXCEPT !.prepared = TRUE, !.statement = s, !.plan = Planned[s],
                   !.tpl = FreshTuple, !.scan = 0, !.join = InitJoin, !.done = {}]

SQLPrepare(h) == \E s \in Statements :
    /\ Allocated(h)
    /\ Prepares(s) = "ok"
    /\ handles' = [handles EXCEPT ![h] = WithStatement(@, s)]
    /\ Dropped(h)
    /\ UNCHANGED <<scans, host>>

PrepareFails(h) == \E s \in Statements :
    /\ Allocated(h)
    /\ Prepares(s) # "ok"
    /\ Ends(Prepares(s), "prepare", h, s)

\* A NULL for the buffer takes away the one that was there.
WithBuffer(buffers, b) ==
    IF b.buffer THEN buffers \cup {b.column} ELSE buffers \ {b.column}

\* The handle is bound before the type is looked at: a type the driver does
\* not know is SQL_ERROR, and the handle has no buffer for it.
Bound(handle, b) ==
    CASE b.type = "char" -> [handle EXCEPT !.bound = TRUE, !.charBuff = WithBuffer(@, b)]
      [] b.type = "long" -> [handle EXCEPT !.bound = TRUE, !.longintBuff = WithBuffer(@, b)]
      [] OTHER -> [handle EXCEPT !.bound = TRUE]

SQLBindCol(h) == \E b \in Bindings :
    /\ Allocated(h)
    /\ b.type = "other" \/ b.indicator
    /\ handles' = [handles EXCEPT ![h] = Bound(@, b)]
    /\ UNCHANGED <<scans, host, seen>>

\* The length is written without a look at the pointer.
BindFails(h) == \E b \in Bindings :
    /\ Allocated(h)
    /\ b.type # "other" /\ ~ b.indicator
    /\ Ends("crashed", "bind", h, b)

\* Mutant: the plan is rewound after each row, and a fetch reads the file
\* from its beginning.
KeepsNoScan(handle, run) ==
    [handle EXCEPT !.tpl = run.tpl, !.join = run.join, !.done = run.done]

\* The handle after a fetch.
Keeps(handle, run) ==
    [handle EXCEPT !.tpl = run.tpl, !.scan = run.scan, !.join = run.join, !.done = run.done]

\* SQLFetch with a row, which the host has then from its buffers or from
\* SQLGetData.  (It is followed until some statement is fetched past its end.)
FetchRow(h) ==
    /\ Prepared(h)
    /\ \E run \in Fetched(h) :
        /\ run.how = "ok" /\ ~ run.tpl.empty /\ Writable(Keeps(handles[h], run))
        /\ handles' = [handles EXCEPT ![h] = Keeps(@, run)]
        /\ scans' = run.scans
    /\ overrun' = (overrun \/ ended[h])
    /\ returned' = IF overrun' THEN NothingReturned
                   ELSE [returned EXCEPT ![h] = Append(@,
                            [c \in 1 .. Width(handles[h]) |-> FromIndex(handles'[h], c - 1)])]
    /\ UNCHANGED <<host, ended, abandoned>>

FetchNoData(h) ==
    /\ Prepared(h)
    /\ \E run \in Fetched(h) :
        /\ run.how = "ok" /\ run.tpl.empty
        /\ handles' = [handles EXCEPT ![h] = Keeps(@, run)]
        /\ scans' = run.scans
    /\ ended' = [ended EXCEPT ![h] = TRUE]
    /\ overrun' = (overrun \/ (ended[h] /\ scans' # scans))
    /\ returned' = IF overrun' THEN NothingReturned ELSE returned
    /\ UNCHANGED <<host, abandoned>>

FetchFails(h) ==
    /\ Prepared(h)
    /\ \E run \in Fetched(h) :
        \/ run.how # "ok" /\ Ends(run.how, "fetch", h, <<>>)
        \/ run.how = "ok" /\ ~ run.tpl.empty /\ ~ Writable(Keeps(handles[h], run))
           /\ Ends("crashed", "write", h, <<>>)

\* SQLFetch, SQLGetData, SQLMoreResults and the questions about columns
\* follow the pointers to the plan and the tuple.
AskUnprepared(h) ==
    /\ Allocated(h) /\ ~ Prepared(h)
    /\ Ends("crashed", "ask", h, <<>>)

\* SQLMoreResults.
MoreResults(h) == ~ handles[h].tpl.empty

Call(h) ==
    \/ SQLAllocHandle(h) \/ SQLFreeHandle(h) \/ FreeUnprepared(h)
    \/ SQLPrepare(h) \/ PrepareFails(h) \/ SQLBindCol(h) \/ BindFails(h)
    \/ FetchRow(h) \/ FetchNoData(h) \/ FetchFails(h) \/ AskUnprepared(h)

Over == host.how # "running" /\ UNCHANGED vars

Next == (\E h \in Handles : Call(h)) \/ Over

Spec == Init /\ [][Next]_vars
----------------------------------------------------------------------------
\* All states are of the types of odbc.h; a handle has a tuple if and only if
\* it has a plan, the FILE its plan refers to has been opened, and where the
\* handle has a buffer _Fetch looks for it.
TypeOK ==
    /\ host.how \in {"running", "failed", "crashed"}
    /\ Len(scans) <= MaxScans
    /\ \A n \in DOMAIN scans : scans[n].file.state \in {"closed", "open", "freed"}
    /\ \A h \in Handles : handles[h].allocated =>
        /\ handles[h].prepared <=> handles[h].tpl # <<>>
        /\ handles[h].prepared <=> handles[h].plan # <<>>
        /\ host.how = "running" => handles[h].scan \in 0 .. Len(scans)
        /\ handles[h].charBuff \cup handles[h].longintBuff # {} => handles[h].bound

\* The statements whose columns can be told by their index: the first ones of
\* one file, in their order, or an aggregate.
Selected(s) ==
    \/ s.fun # "none"
    \/ /\ s.from.join = <<>> /\ s.from.source.kind = "file"
       /\ \A n \in DOMAIN s.cols :
            s.cols[n].text = TableColumns[s.from.source.file][n].name

Database == [f \in DOMAIN Tables |-> [cols |-> TableColumns[f], lines |-> Tables[f]]]

Delivers(cell, value) == CASE cell.kind = "text" -> cell.text = value.text
                           [] cell.kind = "long" -> cell.long = value.long
                           [] OTHER -> TRUE

\* However the calls on the handles are mixed, and whatever was prepared on a
\* handle before, each statement returns the rows of its own query, each
\* once, and SQL_NO_DATA after the last; SQLMoreResults says the same.  (No
\* number of a text file is returned as a number.)  It ends with the first
\* SQLFetch after SQL_NO_DATA, which may take a row of another statement.
OwnRows ==
    ~ overrun => \A h \in Handles : Prepared(h) =>
        /\ MoreResults(h) <=> ~ ended[h]
        /\ Selected(handles[h].statement) =>
            LET answer == Relation(handles[h].statement, Database).rows
                rows   == returned[h]
            IN  /\ Len(rows) <= Len(answer)
                /\ ended[h] => Len(rows) = Len(answer)
                /\ \A i \in DOMAIN rows :
                    /\ Len(rows[i]) = Len(answer[i])
                    /\ \A n \in DOMAIN rows[i] : Delivers(rows[i][n], answer[i][n])

\* The comment in SQLPrepare.c, "Free any previously allocated stuff", and
\* SQLFreeHandle: no FILE stays open that no statement uses, as long as every
\* statement has been fetched to its end.
FilesAreClosed ==
    ~ abandoned => \A n \in DOMAIN scans :
        scans[n].file.state = "open" => \E h \in Handles :
            handles[h].allocated /\ handles[h].prepared /\ handles[h].scan = n

\* Every call of the host opens, reads and closes the FILEs of its own plan
\* only and as StatementHandles says, of which FilesAreClosed is proved for
\* any number of handles: a plan that is prepared anew has no FILE, one that
\* has read its last line has closed it, and an aggregate reads no further.
SH == INSTANCE StatementHandles WITH
    Files <- 1 .. MaxScans, NoFile <- 0,
    running <- host.how = "running",
    state <- [h \in Handles |-> CASE ~ handles[h].allocated -> "none"
                                  [] handles[h].allocated /\ ~ handles[h].prepared -> "empty"
                                  [] OTHER -> "query"],
    file <- [h \in Handles |-> IF handles[h].allocated THEN handles[h].scan ELSE 0],
    drained <- [h \in Handles |-> handles[h].allocated /\ handles[h].done # {}],
    open <- {n \in DOMAIN scans : scans[n].file.state # "freed"}

ImplementsHandles == SH!Spec

\* A query with a join that needs the options, and one whose column c the
\* host has given no buffer of its type.
NeedsOptions(s) == \E q \in Subqueries(s) :
    /\ Len(On(q)) = 1
    /\ On(q)[1].term.type = "cond" /\ On(q)[1].term.boolOp = "="
NotBound(h) == \E c \in 0 .. Width(handles[h]) - 1 :
    IF ColumnOf(handles[h], c).type = "long" THEN c \notin handles[h].longintBuff
                                             ELSE c \notin handles[h].charBuff

\* The host ends in a call only
\*  - on a handle that has no statement,
\*  - that prepares what is not a query, a query of a file that is not there,
\*    or a join on one equality,
\*  - that binds a column without a place for its length,
\*  - that fetches a row after a call of SQLBindCol, also one that said
\*    SQL_ERROR, though some column has no buffer of its type,
\*  - that fetches again after SQL_NO_DATA, unless an aggregate has said it,
\*    or after somebody has done that.
OnlyTheseEndTheHost ==
    LET h == host.handle
        s == host.with
    IN  /\ host.call \in {"free", "ask"} => ~ handles[h].prepared
        /\ host.call = "prepare" =>
            \/ s.op # "select"
            \/ NeedsOptions(s)
            \/ \E q \in Subqueries(s) : \E source \in Sources(q) :
                    source.kind = "file" /\ source.file \notin DOMAIN Tables
        /\ host.call = "bind" => s.type \in {"char", "long"} /\ ~ s.indicator
        /\ host.call = "write" => handles[h].bound /\ NotBound(h)
        /\ host.call = "fetch" =>
            overrun \/ (ended[h] /\ handles[h].statement.fun = "none")
=============================================================================
