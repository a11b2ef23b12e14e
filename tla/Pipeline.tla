------------------------------ MODULE Pipeline ------------------------------
(***************************************************************************)
(* A run of squel on one statement, from the command line to the last row  *)
(* printed: the statement is parsed and planned, and the plan is a chain   *)
(* of operators, each of which calls getTuple of the next                  *)
(*                                                                         *)
(*   project or aggregate, filter, (those of a subquery,) scan or join     *)
(*                                                                         *)
(* under executeSelect, which calls the first until it gets an empty       *)
(* tuple.  All operators share the caller's tuple, but an aggregate hands  *)
(* one of its own to its child, and a join keeps those of its two scans.   *)
(***************************************************************************)
EXTENDS Aggregate, Catalog, Join, Planner, Sql, CommandLine

CONSTANT
    Cases       \* Runs to look at: [args, statement, tables], tables[f] being
                \* the lines of file f without the header

VARIABLES
    args, statement, tables,
    status,     \* "planned", "running", "done", "shown" (the help or the
                \* parse tree), or how the program failed: "failed" by
                \* exit(1), "crashed" by a signal
    plan,       \* [ops, cols, order], the operators root first
    at,         \* Where control is: an operator or 0, executeSelect
    dir,        \* "call": getTuple of it is called, "return": it goes on
                \* after a call
    tuples,     \* The tuple of executeSelect, those of the aggregates below
    agg,        \* What the aggregate at each place has: done is kept, the
                \* rest are variables of a call
    file,       \* The scan: state, line and position in it to read next
    join,       \* The join that is there instead of a scan
    out         \* The rows printed

input == <<args, statement, tables>>
vars == <<input, status, plan, at, dir, tuples, agg, file, join, out>>
----------------------------------------------------------------------------
TableColumns == [f \in DOMAIN tables |-> CatalogFile(f, tables[f])]

NoPlan == [ops |-> <<>>, cols |-> <<>>, order |-> <<>>]
Fate(how) == [status |-> how, plan |-> NoPlan]

\* planQuery, with what parse() makes of the statement.
PlanQuery(parsed, opts) ==
    Plan(Statement(parsed), TableColumns, opts.enableHashjoin)

\* main up to execute: the argument at query_arg is parsed and planned.
Main(parsed) ==
    LET opts   == Options(args)
        plans  == PlanQuery(parsed, opts)
    IN  CASE opts.ends # "no" -> Fate(opts.ends)
          [] args[opts.queryArg] # SqlArg \/ parsed.failed -> Fate("failed")
          [] opts.onlyParse -> Fate("shown")
          [] Outcome(plans.ops) # "planned" -> Fate(Outcome(plans.ops))
          [] OTHER -> [status |-> "planned", plan |-> plans]

NoAggregate == [done |-> FALSE, sofar |-> [result |-> 0, observations |-> 0]]

IsAggregate(op) == op.type = "aggregate"

Init ==
    /\ \E case \in Cases : /\ args = case.args
                          /\ statement = case.statement
                          /\ tables = case.tables
    /\ \E parsed \in {Parse(StatementTokens(statement))} :
            \E main \in {Main(parsed)} : status = main.status /\ plan = main.plan
    /\ at = 0
    /\ dir = "return"
    /\ tuples = <<>>
    /\ agg = [k \in DOMAIN plan.ops |-> NoAggregate]
    /\ file = ClosedFile
    /\ join = InitJoin
    /\ out = <<>>
----------------------------------------------------------------------------
\* The program ends.
End(how) ==
    /\ status' = how
    /\ UNCHANGED <<input, plan, at, dir, tuples, agg, file, join, out>>

Call(k) == at' = k /\ dir' = "call"
Return == at' = at - 1 /\ dir' = "return"
Op == plan.ops[at]
Called(type)   == status = "running" /\ dir = "call" /\ at > 0 /\ Op.type = type
Returned(type) == status = "running" /\ dir = "return" /\ at > 0 /\ Op.type = type

\* The tuple an operator passes down, and the one it is called with.
TupleBelow(k) == Len(SelectSeq(SubSeq(plan.ops, 1, k), IsAggregate)) + 1
TupleAt(k)    == TupleBelow(k - 1)

\* execute: executeSelect makes its tuple and calls the root.
Start ==
    /\ status = "planned"
    /\ plan.ops[1].type \in {"project", "aggregate"}
    /\ status' = "running"
    /\ tuples' = [n \in 1 .. Len(SelectSeq(plan.ops, IsAggregate)) + 1 |-> FreshTuple]
    /\ Call(1)
    /\ UNCHANGED <<input, plan, agg, file, join, out>>

\* explainOp: the operators from the root on, with every filter of a list,
\* but not those in parentheses, and the scans of a join.
Listed(op) ==
    CASE op.type = "filter" -> [n \in DOMAIN op.list |-> "filter"]
      [] op.type \in {"join", "hashjoin"} ->
            <<op.type>> \o [n \in DOMAIN op.on |-> "filter"] \o <<"scan", "scan">>
      [] OTHER -> <<op.type>>

Listing(ops) == FlattenSeq([k \in DOMAIN ops |-> Listed(ops[k])])

Explain ==
    /\ status = "planned"
    /\ plan.ops[1].type = "explain"
    /\ status' = "done"
    /\ out' = Listing(Tail(plan.ops))
    /\ UNCHANGED <<input, plan, at, dir, tuples, agg, file, join>>

\* CREATE TABLE and INSERT go on in Statements.
HandedOver == status = "planned" /\ plan.ops[1].type \in {"create", "insert"}

\* projectGetTuple and filterGetTuple pass the call on with their tuple.
PassDown ==
    /\ Called("project") \/ Called("filter")
    /\ Call(at + 1)
    /\ UNCHANGED <<input, status, plan, tuples, agg, file, join, out>>

\* scanGetTuple.
Scanning == tables[Op.file]

ScanRow ==
    /\ Called("scan")
    /\ file.state # "freed"
    /\ ~ AtEnd(file, Scanning)
    /\ tuples' = [tuples EXCEPT ![TupleAt(at)] = ScannedTuple(@, file, Scanning)]
    /\ file' = ScannedFile(file, Scanning)
    /\ Return
    /\ UNCHANGED <<input, status, plan, agg, join, out>>

ScanEnd ==
    /\ Called("scan")
    /\ file.state # "freed"
    /\ AtEnd(file, Scanning)
    /\ tuples' = [tuples EXCEPT ![TupleAt(at)] = ScannedTuple(@, file, Scanning)]
    /\ file' = ScannedFile(file, Scanning)
    /\ Return
    /\ UNCHANGED <<input, status, plan, agg, join, out>>

\* joinGetTuple or hashjoinGetTuple.
JoinGetTuple ==
    /\ Called("join") \/ Called("hashjoin")
    /\ join.state # "freed"
    /\ \E call \in JoinCall(join, tuples[TupleAt(at)], Op, tables[Op.left], tables[Op.right]) :
        \/ /\ call.how = "row"
           /\ join' = call.join
           /\ tuples' = [tuples EXCEPT ![TupleAt(at)] = JoinedTuple(call.join, Op)]
           /\ Return
           /\ UNCHANGED <<input, status, plan, agg, file, out>>
        \/ /\ call.how = "end"
           /\ join' = call.join
           /\ tuples' = [tuples EXCEPT ![TupleAt(at)] = MarkTupleAsEmpty(@)]
           /\ Return
           /\ UNCHANGED <<input, status, plan, agg, file, out>>
        \/ /\ call.how = "failed"
           /\ End("failed")

\* projectGetTuple returns what it got.
PassUp ==
    /\ Returned("project")
    /\ Return
    /\ UNCHANGED <<input, status, plan, tuples, agg, file, join, out>>

Verdicts == EvaluateOps(<<tuples[TupleAt(at)]>>, Op.list)

FilterEnd ==
    /\ Returned("filter")
    /\ tuples[TupleAt(at)].empty
    /\ Return
    /\ UNCHANGED <<input, status, plan, tuples, agg, file, join, out>>

FilterFails ==
    /\ Returned("filter")
    /\ ~ tuples[TupleAt(at)].empty
    /\ \E verdict \in Verdicts : verdict.failed
    /\ End("failed")

FilterPasses ==
    /\ Returned("filter")
    /\ ~ tuples[TupleAt(at)].empty
    /\ \E verdict \in Verdicts :
        /\ ~ verdict.failed /\ verdict.value
        /\ tuples' = [tuples EXCEPT ![TupleAt(at)] = verdict.tuples[1]]
    /\ Return
    /\ UNCHANGED <<input, status, plan, agg, file, join, out>>

\* Mutant: the same tuple is looked at again.
FilterStays ==
    /\ Returned("filter")
    /\ ~ tuples[TupleAt(at)].empty
    /\ \E verdict \in Verdicts :
        /\ ~ verdict.failed /\ ~ verdict.value
        /\ tuples' = [tuples EXCEPT ![TupleAt(at)] = verdict.tuples[1]]
    /\ UNCHANGED <<input, status, plan, at, dir, agg, file, join, out>>

FilterRejects ==
    /\ Returned("filter")
    /\ ~ tuples[TupleAt(at)].empty
    /\ \E verdict \in Verdicts :
        /\ ~ verdict.failed /\ ~ verdict.value
        /\ tuples' = [tuples EXCEPT ![TupleAt(at)] = verdict.tuples[1]]
    /\ Call(at + 1)
    /\ UNCHANGED <<input, status, plan, agg, file, join, out>>
----------------------------------------------------------------------------
\* aggregateGetTuple.
AggregateStart ==
    /\ Called("aggregate")
    /\ ~ agg[at].done
    /\ agg' = [agg EXCEPT ![at].sofar = NoObservations(Op)]
    /\ tuples' = [tuples EXCEPT ![TupleBelow(at)] = FreshTuple]
    /\ Call(at + 1)
    /\ UNCHANGED <<input, status, plan, file, join, out>>

AggregateDone ==
    /\ Called("aggregate")
    /\ agg[at].done
    /\ tuples' = [tuples EXCEPT ![TupleAt(at)] = MarkTupleAsEmpty(@)]
    /\ Return
    /\ UNCHANGED <<input, status, plan, agg, file, join, out>>

AggregateRow ==
    /\ Returned("aggregate")
    /\ ~ tuples[TupleBelow(at)].empty
    /\ tuples' = [tuples EXCEPT ![TupleBelow(at)] = Observed(Op, @)]
    /\ agg' = [agg EXCEPT ![at].sofar = Counted(Op, @, tuples'[TupleBelow(at)])]
    /\ Call(at + 1)
    /\ UNCHANGED <<input, status, plan, file, join, out>>

\* Mutant: the next call folds the child again.
AggregateForgets ==
    /\ Returned("aggregate")
    /\ tuples[TupleBelow(at)].empty
    /\ ~ DividesByZero(Op, agg[at].sofar)
    /\ tuples' = [tuples EXCEPT ![TupleAt(at)] = WithResult(@, Final(Op, agg[at].sofar))]
    /\ Return
    /\ UNCHANGED <<input, status, plan, agg, file, join, out>>

AggregateResult ==
    /\ Returned("aggregate")
    /\ tuples[TupleBelow(at)].empty
    /\ ~ DividesByZero(Op, agg[at].sofar)
    /\ tuples' = [tuples EXCEPT ![TupleAt(at)] = WithResult(@, Final(Op, agg[at].sofar))]
    /\ agg' = [agg EXCEPT ![at].done = TRUE]
    /\ Return
    /\ UNCHANGED <<input, status, plan, file, join, out>>

AggregateDividesByZero ==
    /\ Returned("aggregate")
    /\ tuples[TupleBelow(at)].empty
    /\ DividesByZero(Op, agg[at].sofar)
    /\ End("crashed")
----------------------------------------------------------------------------
\* The columns that printColnames and printTuple go through.
PrintedCols == SelectSeq(plan.order, LAMBDA c : plan.cols[c + 1].active)

\* printTuple: a column that has been converted is printed as a number if it
\* is one, any other as its text.
Cell(t, c) ==
    LET isLong == Casted(t, c) /\ plan.cols[c + 1].type = "long"
    IN  [isLong |-> isLong,
         long   |-> IF isLong THEN Long(t, c) ELSE 0,
         text   |-> IF isLong THEN Nul ELSE Text(t, c)]

\* The loop of executeSelect.
PrintRow ==
    /\ status = "running" /\ at = 0
    /\ ~ tuples[1].empty
    /\ out' = Append(out, [n \in DOMAIN PrintedCols |->
                            Cell(tuples[1], PrintedCols[n])])
    /\ Call(1)
    /\ UNCHANGED <<input, status, plan, tuples, agg, file, join>>

NoMoreRows ==
    /\ status = "running" /\ at = 0
    /\ tuples[1].empty
    /\ End("done")

Ended == HandedOver \/ status \in {"done", "shown", "failed", "crashed"}

Over == Ended /\ UNCHANGED vars

Work ==
    \/ Explain \/ Start \/ PassDown \/ PassUp
    \/ ScanRow \/ ScanEnd \/ JoinGetTuple
    \/ FilterEnd \/ FilterFails \/ FilterPasses \/ FilterRejects
    \/ AggregateStart \/ AggregateDone \/ AggregateRow \/ AggregateResult
    \/ AggregateDividesByZero
    \/ PrintRow \/ NoMoreRows

Next == Work \/ Over

Spec == Init /\ [][Next]_vars

\* One thread that runs until the program ends.
FairSpec == Spec /\ WF_vars(Work)
=============================================================================
