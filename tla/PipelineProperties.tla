------------------------- MODULE PipelineProperties -------------------------
(***************************************************************************)
(* What a run of squel promises, for any statement and command line.       *)
(***************************************************************************)
EXTENDS Pipeline

RECURSIVE Understood(_, _), Reach(_), Shape(_)

\* The statement without EXPLAIN, its queries, the files they read and their
\* lines.
Stated == IF statement.op = "explain" THEN statement.of ELSE statement
Queries == CASE Stated.op = "select" -> Subqueries(Stated)
             [] Stated.op = "insert" -> Subqueries(Stated.query)
             [] OTHER -> {}
AllConditions(q) == Conditions(q.where) \cup Conditions(On(q))
Files == UNION {{s.file : s \in {t \in Sources(q) : t.kind = "file"}} : q \in Queries}
Database == [f \in Files |-> [cols |-> TableColumns[f], lines |-> tables[f]]]
UsedLines == UNION {{tables[f][i] : i \in DOMAIN tables[f]} : f \in Files}
NoLines == \E f \in Files : f \in DOMAIN tables /\ tables[f] = <<>>

\* The columns that the planner looks for a name in: those of the files, also
\* when a subquery has not selected them.
Reach(q) ==
    LET of(s) == CASE s.kind = "file"  -> [c \in DOMAIN TableColumns[s.file] |->
                        [name |-> TableColumns[s.file][c].name, alias |-> s.alias,
                         type |-> TableColumns[s.file][c].type]]
                   [] s.kind = "query" /\ s.query.fun = "none" ->
                        [c \in DOMAIN Reach(s.query) |-> Unnamed(Reach(s.query)[c])]
                   [] OTHER -> <<[name |-> s.query.cols[1].text, alias |-> "", type |-> "long"]>>
    IN  of(q.from.source)
        \o (IF q.from.join = <<>> THEN <<>> ELSE of(q.from.join[1].source))

NamesIn(q) == {x \in UNION {{c.left, c.right} : c \in AllConditions(q)}
                     \cup {q.cols[n] : n \in DOMAIN q.cols} : x.kind = "col"}
LeftWidth(q)  == Len(TableColumns[q.from.source.file])
RightWidth(q) == Len(TableColumns[q.from.join[1].source.file])
Joins == {q \in Queries : q.from.join # <<>>}
----------------------------------------------------------------------------
\* The command line: options, each with its number, then --parse if at all,
\* then the statement.
OptionCount == LET n == Len(args) IN
               IF n > 1 /\ args[n - 1] = "--parse" THEN n - 2 ELSE n - 1
Formed == /\ args # <<>> /\ args[Len(args)] = SqlArg
          /\ OptionCount % 2 = 0
          /\ \A i \in 1 .. OptionCount : IF i % 2 = 1 THEN args[i] \in WithNumber
                                                ELSE args[i] \in Numerals
HashJoinAsked ==
    LET given == {i \in DOMAIN args : args[i] = "--hashjoin"}
    IN  given = {} \/ args[Max(given) + 1] # "0"

\* README: "Any join operation based only on a single equality comparison is
\* turned into a hashjoin".
JoinKind(on) ==
    IF Len(on) = 1 /\ on[1].term.type = "cond" /\ on[1].term.boolOp = "=" /\ HashJoinAsked
    THEN "hashjoin" ELSE "join"

\* The operators of a query as it is written, in the form of EXPLAIN.
Shape(q) ==
    <<IF q.fun = "none" THEN "project" ELSE "aggregate">>
    \o [n \in DOMAIN q.where |-> "filter"]
    \o (CASE q.from.join # <<>> ->
               <<JoinKind(On(q))>> \o [n \in DOMAIN On(q) |-> "filter"] \o <<"scan", "scan">>
          [] q.from.source.kind = "query" -> Shape(q.from.source.query)
          [] OTHER -> <<"scan">>)

AsWritten(ops, s) ==
    CASE s.op = "select" -> Listing(ops) = Shape(s)
      [] s.op = "insert" -> /\ ops[1] = [type |-> "insert", table |-> s.table]
                            /\ Listing(Tail(ops)) = Shape(s.query)
      [] s.op = "create" ->
            /\ ops[1].table = s.table
            /\ Len(ops[1].columns) = Len(s.columns)
            /\ \A c \in DOMAIN s.columns :
                    /\ ops[1].columns[c].name = s.columns[c].name
                    /\ ops[1].columns[c].size = s.columns[c].size
                    /\ (ops[1].columns[c].type = "str") <=> (s.columns[c].type = "CHAR")

\* The operators of a plan are those the statement is written with, whatever
\* the parser's nodes and links were in between: one filter per term of a
\* clause, the join that README.md promises, the columns and sizes of CREATE;
\* and EXPLAIN prints them.
PlansAsWritten ==
    /\ status = "planned" =>
            AsWritten(IF Stated = statement THEN plan.ops ELSE Tail(plan.ops), Stated)
    /\ (status = "done" /\ Stated # statement /\ Stated.op = "select")
            => out = Shape(Stated)
----------------------------------------------------------------------------
TupleOK(t) == t.type # "join" =>
    /\ t.longCount \in 0 .. MaxCols
    /\ \A c \in Columns : t.offsets[c] \in (IF t.casted[c] THEN 0 .. t.longCount - 1
                                                           ELSE 0 .. LineBuff - 1)

\* Control is at an operator of the plan, and the offsets of a tuple, of its
\* data or of its converted numbers, stay within it.
TypeOK ==
    /\ status \in {"planned", "running", "done", "shown", "failed", "crashed"}
    /\ at \in 0 .. Len(plan.ops)
    /\ dir \in {"call", "return"}
    /\ file.state \in {"closed", "open", "freed"}
    /\ join.state \in {"new", "open", "freed"}
    /\ join.current \in 0 .. Len(join.rights)
    /\ \A n \in DOMAIN tuples : TupleOK(tuples[n])
    /\ TupleOK(join.left) /\ \A n \in DOMAIN join.rights : TupleOK(join.rights[n])

\* A scan or a join frees what it has at the end and must not be called
\* again: filters and aggregates stop at the empty tuple, and an aggregate,
\* which returns a row after it, remembers that.
NoCallPastEnd ==
    /\ ~ (Called("scan") /\ file.state = "freed")
    /\ ~ ((Called("join") \/ Called("hashjoin")) /\ join.state = "freed")

Fits(line) == Len(Bytes(line)) < LineBuff

\* A tuple holds the fields of a line, some of them converted.
HoldsLine(t, line) ==
    \A c \in 0 .. Len(line) - 1 : IF t.casted[c] THEN Long(t, c) = Number[line[c + 1]]
                                                 ELSE Text(t, c) = line[c + 1]

HoldsLastRead(t, read, lines) ==
    (read.state = "open" /\ read.line > 1 /\ read.pos = 0 /\ Fits(lines[read.line - 1]))
        => HoldsLine(t, lines[read.line - 1])

\* While a row is in use its columns are those of its line, whatever was in
\* the tuple before and whichever of them have been converted.  In a join
\* that is so for the rows of both tables, and for those in the buffer, in
\* whatever order they have been returned and converted.
ColumnsOfTheLine ==
    status = "running" =>
        LET t == tuples[Len(tuples)]
            leaf == plan.ops[Len(plan.ops)]
        IN  IF leaf.type = "scan" THEN HoldsLastRead(t, file, tables[leaf.file])
            ELSE (t.type = "join" /\ ~ t.empty) =>
                /\ HoldsLastRead(t.left, join.leftFile, tables[leaf.left])
                /\ LET lines == tables[leaf.right]
                   IN  (\A i \in DOMAIN lines : Fits(lines[i])) =>
                        /\ HoldsLine(t.right, lines[join.current])
                        /\ \A n \in DOMAIN join.rights \ {join.current} :
                                HoldsLine(join.rights[n], lines[n])
----------------------------------------------------------------------------
\* All lines are whole and have all columns.
Whole == \A f \in Files : \A i \in DOMAIN tables[f] :
            Fits(tables[f][i]) /\ Len(tables[f][i]) >= Len(Headers[f])

\* The numbers that conditions may compare: fields, constants and the results
\* of subqueries.
NumbersInPlay ==
    {Number[v] : v \in UNION {{line[n] : n \in DOMAIN line} : line \in UsedLines}}
    \cup {Number[x.text] : x \in {y \in UNION {{c.left, c.right} : c \in
             UNION {AllConditions(q) : q \in Queries}} : y.kind # "col"}}
    \cup {Relation(q, Database).rows[1][1].long :
             q \in {r \in Queries \ {Stated} : r.fun # "none"}}

\* Differences fit an int, and there is no average of negative numbers.
NumbersFit ==
    /\ \A m, n \in NumbersInPlay : Wrapped(m - n, IntBits) = m - n
    /\ \A q \in Queries : q.fun = "AVG" => \A n \in NumbersInPlay : n >= 0

\* No condition compares a column on its left with a string for order.
NoOrderOfText ==
    \A q \in Queries : \A c \in AllConditions(q) :
        (c.right.kind = "string" /\ IsCol(c.left)) => c.boolOp \in {"=", "!="}

\* A name means one column, of those that are selected and of those that the
\* planner knows; an aggregate has to name its column without the table.
Unambiguous(q) ==
    /\ \A x \in NamesIn(q) : /\ Cardinality(Named(Reach(q), x)) = 1
                             /\ Named(From(q, Database).cols, x) # {}
    /\ q.fun # "none" =>
          \A c, d \in DOMAIN Reach(q) :
             (Reach(q)[c].name = q.cols[1].text /\ Reach(q)[d].name = q.cols[1].text) => c = d

\* A star over a subquery prints the columns in the order of the table.
InTableOrder(q) ==
    (q.cols = <<>> /\ q.from.source.kind = "query") =>
        LET sub == q.from.source.query
            places == [n \in DOMAIN sub.cols |-> Column(Reach(sub), sub.cols[n])]
        IN  sub.fun = "none" => \A m, n \in DOMAIN places : m < n => places[m] < places[n]

\* A condition of ON has the first table's column on its left.
OnInOrder(q) ==
    \A c \in Conditions(On(q)) :
        /\ IsCol(c.left)  => Column(Reach(q), c.left) <= LeftWidth(q)
        /\ IsCol(c.right) => Column(Reach(q), c.right) > LeftWidth(q)

\* Columns of the second table that are read from its row although their
\* index is one in both rows: the first column, if there is nothing at the
\* place where its index leads to, which is so in parentheses also.
OnRebased(q) ==
    \A c \in Conditions(On(q)) : IsCol(c.right) =>
        LET n == Column(Reach(q), c.right) - LeftWidth(q)
        IN  /\ n = 1 => RightWidth(q) <= LeftWidth(q)
            /\ n > 1 => \E k \in DOMAIN On(q) : On(q)[k].term = c

\* A hash join reads the key of a left row again after it has converted it,
\* and does not join empty keys.
HashKeyStays(q) ==
    JoinKind(On(q)) = "hashjoin" =>
        LET c == On(q)[1].term
            key == Min({Column(Reach(q), c.left), Column(Reach(q), c.right)})
            rights == tables[q.from.join[1].source.file]
        IN  /\ IsCol(c.left) /\ IsCol(c.right)
            /\ key = 1 \/ Reach(q)[key].type = "str"
            /\ \A i \in DOMAIN rights : \A n \in DOMAIN rights[i] : rights[i][n] # Nul

Regular ==
    /\ Whole /\ NoOrderOfText
    /\ \A q \in Queries : Unambiguous(q) /\ InTableOrder(q)
    /\ \A q \in Joins : OnRebased(q) /\ HashKeyStays(q)
    /\ NumbersFit

\* The rows printed so far are the first ones of the answer, and all of it
\* when the program is done.
Shows(cell, value) == IF cell.isLong THEN cell.long = value.long
                                     ELSE cell.text = value.text

PrintsAnswer ==
    LET answer == Relation(statement, Database).rows IN
    /\ Len(out) <= Len(answer)
    /\ \A i \in DOMAIN out :
         /\ Len(out[i]) = Len(answer[i])
         /\ \A n \in DOMAIN out[i] : Shows(out[i][n], answer[i][n])
    /\ status = "done" => Len(out) = Len(answer)

Answers == /\ statement.op = "select" /\ at = 0 /\ status \in {"running", "done"}

\* What a query prints is what it means: parser, planner, scans, joins,
\* conversions, clauses, subqueries and aggregates taken together, for every
\* statement that is accepted.
AnswersQuery ==
    (Answers /\ Regular /\ \A q \in Joins : OnInOrder(q)) => PrintsAnswer

\* The same with strings on the right of < and >, as the tests "Less than"
\* and "Greater than" of test_simple_where.bats have it for two columns.
\* filter.c:86 passes the constant to strcmp first, so it does not hold.
ComparesText == (Answers /\ Whole /\ NumbersFit) => PrintsAnswer

\* The same with the tables in either order in ON, as the README's example
\* "ON u.time=lt.time" and the test "Join fruits to animals duplicating rows"
\* of test_join_duplicate.bats have it.  The left operand is read from the
\* left row whatever table it is of (filter.c:36), so it does not hold.
JoinsInAnyOrder == (Answers /\ Regular) => PrintsAnswer
----------------------------------------------------------------------------
\* Parentheses that parser and planner understand: in front of all
\* conditions, and between parentheses only on their own.
Understood(clause, depth) ==
    LET parens == {n \in DOMAIN clause : clause[n].term.type = "("} IN
    /\ \A n \in parens : 1 .. n \subseteq parens
    /\ \A n \in parens : Understood(clause[n].term.clause, depth + 1)
    /\ depth > 0 => parens = {} \/ Len(clause) = 1

\* Every name is one of a column, with the alias of its table.
Resolved(q) == \A x \in NamesIn(q) :
    IF q.fun # "none" /\ x = q.cols[1]
    THEN \E c \in DOMAIN Reach(q) : Reach(q)[c].name = x.text
    ELSE Named(Reach(q), x) # {}

WellTyped(q) == \A c \in AllConditions(q) : TypeOf(c.left, Reach(q)) = TypeOf(c.right, Reach(q))

\* A join is one of two files.
JoinsFiles(q) == \A s \in Sources(q) : s.kind = "file"

Acceptable ==
    /\ \A q \in Queries : /\ q.fun \in {"none", "COUNT", "SUM", "AVG", "MAX", "MIN"}
                          /\ Understood(q.where, 0) /\ Understood(On(q), 0)
    /\ \A q \in Joins : JoinsFiles(q)
    /\ Files \subseteq DOMAIN tables
    /\ ~ NoLines
    /\ \A q \in Joins : Len(Reach(q)) <= JoinCols
    /\ \A q \in Queries : Resolved(q) /\ WellTyped(q)
    /\ Stated.op = "create" =>
          \A c \in DOMAIN Stated.columns :
             Stated.columns[c].type \in {"INT", "LONG", "CHAR"}

\* No other run fails, and none crashes unless a number or the statement is
\* missing on the command line, a file has no first line, a subquery is
\* joined, or there is nothing to take the average of.
OnlyTheseFail ==
    /\ status = "failed" => ~ Formed \/ ~ Acceptable
    /\ status = "crashed" =>
        \/ ~ Formed
        \/ NoLines
        \/ \E q \in Joins : ~ JoinsFiles(q)
        \/ \E q \in Queries : q.fun = "AVG" /\
                ((Regular /\ \A r \in Joins : OnInOrder(r)) => Kept(q, Database).rows = <<>>)
    /\ status = "shown" => \E i \in DOMAIN args : args[i] \in {"--help", "--parse"}

\* Every run ends.
Ends == <>Ended
============================================================================
