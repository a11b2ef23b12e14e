------------------------------ MODULE Planner ------------------------------
(***************************************************************************)
(* src/planner: from the tree of a statement to the operators that execute *)
(* it.                                                                     *)
(*                                                                         *)
(* A plan is [ops, cols, order]: the operators, root first, each the child *)
(* of the one before; the columns of the result description, [name, alias, *)
(* type, active]; and its columnOrder, indexes of columns from 0.  Where   *)
(* the planner ends the program there is an operator of type "failed", by  *)
(* exit(1), or "crashed", by a signal, and nothing behind it counts.       *)
(*                                                                         *)
(* catalog[f] are the columns [name, type] that catalogFile finds in file  *)
(* f, or none if it has no line to infer the types from.                   *)
(***************************************************************************)
EXTENDS Parser

CONSTANT JoinCols   \* Columns of JOINTUPLESIZE bytes: 20

ASSUME PlannerAssumption == JoinCols \in Nat

RECURSIVE MakeConditions(_, _), MakeFilterOps(_, _), PlanSelect(_, _, _),
          Plan(_, _, _), FilterLeaves(_)

GivesUp(how) == [type |-> how]
----------------------------------------------------------------------------
\* findColIdxInResDesc takes the first of these, and exits if there is none.
Found(cols, node) ==
    {c \in DOMAIN cols : cols[c].name = node.text /\ cols[c].alias = node.ref}

First(found) == (CHOOSE c \in found : \A d \in found : c <= d) - 1

\* An operand of a condition: its place in boolExprList, or the constant.
Operand(node, cols) ==
    CASE node.type = "IDENT_COL" ->
            [kind |-> "col", col |-> First(Found(cols, node)), const |-> ""]
      [] node.type = "NUMBER" -> [kind |-> "number", col |-> 0, const |-> node.text]
      [] node.type = "STRING" -> [kind |-> "string", col |-> 0, const |-> node.text]
      [] OTHER                -> [kind |-> "other", col |-> 0, const |-> ""]

\* boolExprAddDatatypes.
Datatype(operand, cols) ==
    CASE operand.kind = "col"    -> cols[operand.col + 1].type
      [] operand.kind = "number" -> "long"
      [] operand.kind = "string" -> "str"
      [] operand.kind = "other"  -> "undefined"

\* makeFilterOp, on the first three of the nodes.
MakeFilterOp(nodes, cols) ==
    LET left  == Operand(nodes[1], cols)
        right == Operand(nodes[3], cols)
    IN  IF \/ Len(nodes) < 3
           \/ nodes[2].type # "BOOLOP"
           \/ \E n \in {1, 3} : nodes[n].type = "IDENT_COL" /\ Found(cols, nodes[n]) = {}
        THEN GivesUp("failed")
        ELSE [type |-> "cond", left |-> left, boolOp |-> nodes[2].text,
              right |-> right,
              dtypes |-> <<Datatype(left, cols), Datatype(right, cols)>>]

Entry(op, next) == [op |-> op, next |-> next]

\* The list that starts with a condition: it goes on as long as there is a
\* connective and something behind it, and with conditions only.
MakeConditions(nodes, cols) ==
    LET op == MakeFilterOp(nodes, cols) IN
    CASE Len(nodes) <= 4 -> <<Entry(op, "none")>>
      [] Len(nodes) > 4 /\ nodes[4].type \notin {"AND", "OR"} ->
            <<Entry(op, "none"), Entry(GivesUp("failed"), "none")>>
      [] OTHER -> <<Entry(op, nodes[4].type)>>
                  \o MakeConditions(SubSeq(nodes, 5, Len(nodes)), cols)

\* Mutant: a parenthesis must be the last of its list.
MakeFilterOpsLast(nodes, cols) ==
    IF nodes = <<>> THEN <<Entry(GivesUp("crashed"), "none")>>
    ELSE IF nodes[1].type # "OPAREN" THEN MakeConditions(nodes, cols)
    ELSE <<Entry([type |-> "(", child |-> MakeConditions(nodes[1].child, cols)], "none")>>

\* _makeFilterOps.  The list that starts with a parenthesis: a wrapper of a
\* list of its own, and what is behind the next connective, of any type.
MakeFilterOps(nodes, cols) ==
    IF nodes = <<>> THEN <<Entry(GivesUp("crashed"), "none")>>
    ELSE IF nodes[1].type # "OPAREN" THEN MakeConditions(nodes, cols)
    ELSE LET inner   == nodes[1].child
             wrapper == IF inner = <<>> THEN GivesUp("failed")
                        ELSE [type |-> "(", child |-> MakeFilterOps(inner, cols)]
         IN  IF Len(nodes) > 2 /\ nodes[2].type # "CPAREN"
             THEN <<Entry(wrapper, nodes[2].type)>>
                  \o MakeFilterOps(SubSeq(nodes, 3, Len(nodes)), cols)
             ELSE <<Entry(wrapper, "none")>>
----------------------------------------------------------------------------
\* chooseScanOp and makeScanOp.  (There is no .tdb file of any name.)
MakeScanOp(node, catalog) ==
    LET exists == node.type = "FILEPATH" /\ node.text \in DOMAIN catalog
        cols == IF exists THEN catalog[node.text] ELSE <<>> IN
    [op   |-> CASE ~ exists -> GivesUp("failed")
                [] exists /\ cols = <<>> -> GivesUp("crashed")
                [] OTHER -> [type |-> "scan", file |-> node.text],
     cols |-> [c \in DOMAIN cols |->
                [name |-> cols[c].name, alias |-> node.alias,
                 type |-> cols[c].type, active |-> TRUE]]]

\* makeJoinFilterOps: the index of a column of the right table becomes one
\* in the right tuple, but for the first column; those in parentheses stay.
\* (That of a constant, which it moves too, matters to a hash join: KeyAt.)
Rebase(operand, left) ==
    IF operand.kind = "col" /\ operand.col > left
    THEN [operand EXCEPT !.col = @ - left] ELSE operand

RebaseOp(op, left) ==
    IF op.type # "cond" THEN op
    ELSE [op EXCEPT !.left = Rebase(@, left), !.right = Rebase(@, left)]

\* Mutant: any single condition will do.
DeduceJoinTypeAny(on, hashJoin) ==
    CASE Len(on) # 1 \/ on[1].op.type # "cond" -> "join"
      [] hashJoin = "off"   -> "join"
      [] hashJoin = "unset" -> "crashed"
      [] OTHER -> "hashjoin"

\* deduceJoinType, with the option: "on", "off" or, where nobody has called
\* initOptions, "unset".
DeduceJoinType(on, hashJoin) ==
    CASE Len(on) # 1 \/ on[1].op.type # "cond" \/ on[1].op.boolOp # "=" -> "join"
      [] hashJoin = "off"   -> "join"
      [] hashJoin = "unset" -> "crashed"
      [] OTHER -> "hashjoin"

\* makeJoinOp: both result descriptions, one behind the other.
MakeJoinOp(left, right, nodes, hashJoin) ==
    LET cols == left.cols \o right.cols
        on   == MakeFilterOps(nodes, cols)
    IN  [op   |-> IF left.op.type # "scan" THEN left.op
                  ELSE IF right.op.type # "scan" THEN right.op
                  ELSE IF Len(cols) > JoinCols THEN GivesUp("failed")
                  ELSE [type |-> DeduceJoinType(on, hashJoin),
                        left |-> left.op.file, right |-> right.op.file,
                        leftCols |-> Len(left.cols),
                        on |-> [n \in DOMAIN on |->
                                    [on[n] EXCEPT !.op = RebaseOp(@, Len(left.cols))]]],
         cols |-> cols]

\* buildFrom.  With JOIN the nodes are table, JOIN, table, ON.
BuildFrom(nodes, catalog, hashJoin) ==
    IF Len(nodes) > 1 /\ nodes[2].type = "JOIN"
    THEN MakeJoinOp(MakeScanOp(nodes[1], catalog), MakeScanOp(nodes[3], catalog),
                    nodes[4].child, hashJoin)
    ELSE MakeScanOp(nodes[1], catalog)
----------------------------------------------------------------------------
\* makeStarProjection: the columns of the child, without their table.
StarProjection(cols) == [c \in DOMAIN cols |-> [cols[c] EXCEPT !.alias = ""]]

MakeProjectOp(nodes, below) ==
    LET cols == StarProjection(below)
        chosen == [n \in DOMAIN nodes |-> First(Found(below, nodes[n]))]
    IN  IF nodes[1].type = "STAR"
        THEN [op |-> [type |-> "project"], cols |-> cols,
              order |-> [c \in DOMAIN cols |-> c - 1]]
        ELSE IF \E n \in DOMAIN nodes : Found(below, nodes[n]) = {}
        THEN [op |-> GivesUp("failed"), cols |-> <<>>, order |-> <<>>]
        ELSE [op |-> [type |-> "project"],
              cols |-> [c \in DOMAIN cols |->
                 [cols[c] EXCEPT !.active = \E n \in DOMAIN nodes : chosen[n] = c - 1]],
              order |-> chosen]

\* makeAggregateOp: the first function, whatever else is selected; its
\* column is looked up by its name alone.
MakeAggregateOp(nodes, below) ==
    LET fun == Head(SelectSeq(nodes, LAMBDA node : node.type = "IDENT_FUN"))
        arg == fun.child[1]
        named == {c \in DOMAIN below : below[c].name = arg.text}
    IN  [op |-> IF \/ fun.text \notin {"COUNT", "AVG", "SUM", "MAX", "MIN"}
                   \/ arg.type # "IDENT_COL"
                   \/ named = {}
                THEN GivesUp("failed")
                ELSE [type |-> "aggregate", fun |-> fun.text, col |-> First(named)],
         cols |-> <<[name |-> arg.text, alias |-> "", type |-> "long", active |-> TRUE]>>,
         order |-> <<0>>]

BuildSelect(nodes, below) ==
    IF \E n \in DOMAIN nodes : nodes[n].type = "IDENT_FUN"
    THEN MakeAggregateOp(nodes, below)
    ELSE MakeProjectOp(nodes, below)

\* planSelect.  The nodes are SELECT, FROM and, whatever it is, WHERE.
PlanSelect(nodes, catalog, hashJoin) ==
    LET source == nodes[2].child
        from == IF source[1].type = "SELECT"
                THEN PlanSelect(source, catalog, hashJoin)
                ELSE LET leaf == BuildFrom(source, catalog, hashJoin)
                     IN  [ops |-> <<leaf.op>>, cols |-> leaf.cols]
        filter == IF Len(nodes) < 3 THEN <<>>
                  ELSE <<[type |-> "filter",
                          list |-> MakeFilterOps(nodes[3].child, from.cols)]>>
        root == BuildSelect(nodes[1].child, from.cols)
    IN  [ops |-> <<root.op>> \o filter \o from.ops,
         cols |-> root.cols, order |-> root.order]

\* makeCreateTable.  INT and LONG are the same.
ColumnType(name) == CASE name = "CHAR" -> "str"
                      [] name \in {"INT", "LONG"} -> "long"
                      [] OTHER -> "unknown"

MakeCreateTable(nodes) ==
    LET column(node) == [name |-> node.text, type |-> ColumnType(node.child[1].text),
                         size |-> IF node.child[1].child = <<>> THEN ""
                                  ELSE node.child[1].child[1].text]
        columns == [c \in DOMAIN nodes[4].child |-> column(nodes[4].child[c])]
    IN  IF \E c \in DOMAIN columns : columns[c].type = "unknown"
        THEN GivesUp("failed")
        ELSE [type |-> "create", table |-> nodes[3].text, columns |-> columns]

\* planQueryAst.
Plan(nodes, catalog, hashJoin) ==
    LET above(op, plan) == [ops |-> <<op>> \o plan.ops, cols |-> <<>>, order |-> <<>>]
    IN  CASE nodes[1].type = "SELECT" -> PlanSelect(nodes, catalog, hashJoin)
          [] nodes[1].type = "CREATE" ->
                [ops |-> <<MakeCreateTable(nodes)>>, cols |-> <<>>, order |-> <<>>]
          [] nodes[1].type = "INSERT" ->
                above([type |-> "insert", table |-> nodes[2].text],
                      Plan(SubSeq(nodes, 3, Len(nodes)), catalog, hashJoin))
          [] nodes[1].type = "EXPLAIN" ->
                above([type |-> "explain"], Plan(Tail(nodes), catalog, hashJoin))
----------------------------------------------------------------------------
\* All that is made for an operator, in the order it is made.
FilterLeaves(list) ==
    FlattenSeq([n \in DOMAIN list |-> IF list[n].op.type = "("
                                      THEN FilterLeaves(list[n].op.child)
                                      ELSE <<list[n].op>>])

Made(op) == CASE op.type = "filter"             -> FilterLeaves(op.list)
              [] op.type \in {"join", "hashjoin"} -> FilterLeaves(op.on)
              [] OTHER                          -> <<op>>

\* How planning ends: operators are made from the scan upwards.
Outcome(ops) ==
    LET made == FlattenSeq([k \in DOMAIN ops |-> Made(ops[Len(ops) + 1 - k])])
        ends == SelectSeq(made, LAMBDA op : op.type \in {"failed", "crashed"})
    IN  IF ends = <<>> THEN "planned" ELSE Head(ends).type
=============================================================================
