-------------------------------- MODULE Sql --------------------------------
(***************************************************************************)
(* The statements that squel is given, the tokens they are written with,   *)
(* and what a query means: the relation it denotes, from the statement     *)
(* itself, without a parser, a planner or an operator.                     *)
(*                                                                         *)
(* A query is [op |-> "select", fun, cols, from, where]: fun is "none" or  *)
(* the aggregate function of cols[1]; cols are columns [kind |-> "col",    *)
(* ref, text], none for a star; from is [source, join] with join <<>> or   *)
(* the second table and its condition, <<[source, on]>>; a source is       *)
(* [kind |-> "file", file, alias] or [kind |-> "query", query].  A clause  *)
(* (where, on; none: <<>>) is a sequence of [after, term]: a condition     *)
(* [type |-> "cond", left, boolOp, right] or [type |-> "(", clause] after  *)
(* a connective, that of the first counting for nothing.                   *)
(*                                                                         *)
(* A database is, for each file, [cols, lines]: columns [name, type].      *)
(***************************************************************************)
EXTENDS Tuple, FiniteSetsExt

RECURSIVE ClauseTokens(_), QueryTokens(_), StatementTokens(_)
RECURSIVE Conditions(_), Subqueries(_), Relation(_, _), Meaning(_, _, _)
----------------------------------------------------------------------------
Mark(type) == [type |-> type, ref |-> "", text |-> type]
Marked(type, text) == [type |-> type, ref |-> "", text |-> text]

Between(separator, parts) ==
    FlattenSeq([n \in DOMAIN parts |->
                    IF n = 1 THEN parts[n] ELSE <<Mark(separator)>> \o parts[n]])

OperandToken(x) ==
    [type |-> CASE x.kind = "col" -> "name" [] x.kind = "number" -> "number"
                [] x.kind = "string" -> "quoted",
     ref |-> x.ref, text |-> x.text]

TermTokens(term) ==
    IF term.type = "(" THEN <<Mark("(")>> \o ClauseTokens(term.clause) \o <<Mark(")")>>
    ELSE <<OperandToken(term.left), Marked("boolop", term.boolOp), OperandToken(term.right)>>

ClauseTokens(clause) ==
    FlattenSeq([n \in DOMAIN clause |->
        (IF n = 1 THEN <<>> ELSE <<Mark(clause[n].after)>>) \o TermTokens(clause[n].term)])

SourceTokens(source) ==
    IF source.kind = "query" THEN <<Mark("(")>> \o QueryTokens(source.query) \o <<Mark(")")>>
    ELSE <<Marked("quoted", source.file)>>
         \o (IF source.alias = "" THEN <<>> ELSE <<Mark("AS"), Marked("name", source.alias)>>)

FromTokens(from) ==
    SourceTokens(from.source)
    \o (IF from.join = <<>> THEN <<>>
        ELSE <<Mark("JOIN")>> \o SourceTokens(from.join[1].source)
             \o <<Mark("ON")>> \o ClauseTokens(from.join[1].on))

QueryTokens(q) ==
    LET cols == [n \in DOMAIN q.cols |-> <<OperandToken(q.cols[n])>>]
    IN  <<Mark("SELECT")>>
        \o (CASE q.cols = <<>>  -> <<Mark("*")>>
              [] q.fun # "none" -> <<Marked("function", q.fun), Mark("(")>>
                                   \o cols[1] \o <<Mark(")")>>
              [] OTHER          -> Between(",", cols))
        \o <<Mark("FROM")>> \o FromTokens(q.from)
        \o (IF q.where = <<>> THEN <<>> ELSE <<Mark("WHERE")>> \o ClauseTokens(q.where))

ColumnTokens(column) ==
    <<Marked("name", column.name), Marked(IF column.size = "" THEN "name" ELSE "CHAR", column.type)>>
    \o (IF column.size = "" THEN <<>>
        ELSE <<Mark("("), Marked("number", column.size), Mark(")")>>)

\* The other statements are [op |-> "create", table, columns], columns being
\* [name, type, size], [op |-> "insert", table, query] and [op |-> "explain",
\* of].
StatementTokens(s) ==
    CASE s.op = "select"  -> QueryTokens(s)
      [] s.op = "create"  -> <<Mark("CREATE"), Mark("TABLE"), Marked("name", s.table),
                               Mark("AS"), Mark("(")>>
                             \o Between(",", [c \in DOMAIN s.columns |->
                                                ColumnTokens(s.columns[c])])
                             \o <<Mark(")")>>
      [] s.op = "insert"  -> <<Mark("INSERT"), Mark("INTO"), Marked("name", s.table)>>
                             \o QueryTokens(s.query)
      [] s.op = "explain" -> <<Mark("EXPLAIN")>> \o StatementTokens(s.of)
----------------------------------------------------------------------------
\* All conditions of a clause, those between parentheses too.
Conditions(clause) ==
    UNION {LET term == clause[n].term
           IN  IF term.type = "(" THEN Conditions(term.clause) ELSE {term}
           : n \in DOMAIN clause}

On(q) == IF q.from.join = <<>> THEN <<>> ELSE q.from.join[1].on
Sources(q) == {q.from.source} \cup {q.from.join[n].source : n \in DOMAIN q.from.join}

\* A query and all queries in it.
Subqueries(q) ==
    {q} \cup UNION {Subqueries(s.query) : s \in {t \in Sources(q) : t.kind = "query"}}

\* The columns that a name may mean.
Named(cols, x) == {c \in DOMAIN cols : cols[c].name = x.text /\ cols[c].alias = x.ref}
Column(cols, x) == Min(Named(cols, x))

\* The type of an operand.
TypeOf(x, cols) == CASE x.kind = "col"    -> cols[Column(cols, x)].type
                     [] x.kind = "number" -> "long"
                     [] x.kind = "string" -> "str"

\* Rows are of values [text, long].
Value(row, x, cols) ==
    IF x.kind = "col" THEN row[Column(cols, x)]
    ELSE [text |-> x.text, long |-> Number[x.text]]

Compares(boolOp, l, r) ==
    CASE boolOp = "="  -> l = r
      [] boolOp = "!=" -> l # r
      [] boolOp = "<"  -> l < r
      [] boolOp = ">"  -> l > r
      [] boolOp = ">=" -> l >= r
      [] boolOp = "<=" -> l <= r

\* A clause is read from left to right: the same as in SQL unless AND and OR
\* meet without parentheses.
Meaning(row, clause, cols) ==
    LET true(term) ==
            IF term.type = "(" THEN Meaning(row, term.clause, cols)
            ELSE LET l == Value(row, term.left, cols)
                     r == Value(row, term.right, cols)
                 IN  IF TypeOf(term.left, cols) = "long"
                     THEN Compares(term.boolOp, l.long, r.long)
                     ELSE Compares(term.boolOp, Rank[l.text], Rank[r.text])
    IN  FoldLeft(LAMBDA sofar, entry :
                    IF entry.after = "AND" THEN sofar /\ true(entry.term)
                                           ELSE sofar \/ true(entry.term),
                 TRUE, clause)

Folded(fun, ns) ==
    LET values == {ns[n] : n \in DOMAIN ns}
        sum    == FoldLeft(+, 0, ns)
    IN  CASE fun = "COUNT" -> Len(ns)
          [] fun = "SUM"   -> sum
          [] fun = "AVG"   -> IF ns = <<>> THEN 0 ELSE sum \div Len(ns)
          [] fun = "MAX"   -> Max(values \cup {0})
          [] fun = "MIN"   -> Min(values \cup {LongMax})

Unnamed(col) == [col EXCEPT !.alias = ""]

SourceRelation(source, db) ==
    IF source.kind = "query" THEN Relation(source.query, db)
    ELSE LET table == db[source.file] IN
         [cols |-> [c \in DOMAIN table.cols |->
                [name |-> table.cols[c].name, alias |-> source.alias,
                 type |-> table.cols[c].type]],
          rows |-> [i \in DOMAIN table.lines |-> [c \in DOMAIN table.cols |->
                [text |-> table.lines[i][c], long |-> Number[table.lines[i][c]]]]]]

Restricted(relation, clause) ==
    [cols |-> relation.cols,
     rows |-> SelectSeq(relation.rows, LAMBDA row : Meaning(row, clause, relation.cols))]

\* For each row of the first table those of the second, in their order.
Crossed(left, right) ==
    [cols |-> left.cols \o right.cols,
     rows |-> FlattenSeq([i \in DOMAIN left.rows |->
                [k \in DOMAIN right.rows |-> left.rows[i] \o right.rows[k]]])]

\* What a query selects from: with JOIN the pairs of rows that satisfy ON.
From(q, db) ==
    IF q.from.join = <<>> THEN SourceRelation(q.from.source, db)
    ELSE Restricted(Crossed(SourceRelation(q.from.source, db),
                            SourceRelation(q.from.join[1].source, db)), On(q))

Kept(q, db) == Restricted(From(q, db), q.where)

\* The rows of a relation that were kept, reduced to some of their columns or
\* to the value of a function.
Projected(kept, cols) ==
    [cols |-> [n \in DOMAIN cols |-> Unnamed(kept.cols[cols[n]])],
     rows |-> [i \in DOMAIN kept.rows |-> [n \in DOMAIN cols |-> kept.rows[i][cols[n]]]]]

Aggregated(kept, fun, x) ==
    [cols |-> <<[name |-> x.text, alias |-> "", type |-> "long"]>>,
     rows |-> <<<<[text |-> Nul,
                   long |-> Folded(fun, [i \in DOMAIN kept.rows |->
                                kept.rows[i][Column(kept.cols, x)].long])]>>>>]

Result(q, kept) ==
    CASE q.fun # "none" -> Aggregated(kept, q.fun, q.cols[1])
      [] q.fun = "none" /\ q.cols = <<>> ->
            Projected(kept, [c \in DOMAIN kept.cols |-> c])
      [] OTHER ->
            Projected(kept, [n \in DOMAIN q.cols |-> Column(kept.cols, q.cols[n])])

Relation(q, db) == Result(q, Kept(q, db))
============================================================================
