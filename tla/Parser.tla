------------------------------- MODULE Parser -------------------------------
(***************************************************************************)
(* The recursive descent of src/parser/parser.c, from the tokens of a      *)
(* statement to the tree of nodes that the planner reads.                  *)
(*                                                                         *)
(* A token is [type, ref, text].  Its type is the keyword or the mark      *)
(* itself, or "name", "function" (a name that touches a parenthesis),      *)
(* "number", "quoted" or "boolop"; ref is the table in front of a name.    *)
(*                                                                         *)
(* A function of the parser is the list of the steps it takes, in order,   *)
(* which depends on the next token (Body).  What is left to do of all the  *)
(* functions that have been called is p.todo, the C stack.                 *)
(***************************************************************************)
EXTENDS Integers, Sequences, SequencesExt

RECURSIVE Run(_), Tree(_, _)

Word(type) == [type |-> type, ref |-> "", text |-> type]

Keywords == {"SELECT", "FROM", "WHERE", "JOIN", "ON", "AND", "OR", "CREATE",
             "TABLE", "INSERT", "EXPLAIN"}
Marks    == {"(", ")", ",", "AS", "INTO"}
Words    == Keywords \cup {"AS", "INTO", "CHAR", "name", "function"}

Identifiers == {"IDENT_TBL", "IDENT_COL", "IDENT_FUN", "DATATYPE"}

\* Nodes that stand for a token, and the token.
Reads == [NUMBER |-> "number", STRING |-> "quoted", FILEPATH |-> "quoted",
          STAR |-> "*", BOOLOP |-> "boolop"]

Upcoming(p) == IF p.rest = <<>> THEN Word("end") ELSE Head(p.rest)
At(p, types) == Upcoming(p).type \in types
Skip(p) == [p EXCEPT !.rest = Tail(@)]

\* addNode: behind currentNode, or below it when nextToChild is set.
AddNode(p, type, token) ==
    LET new == Len(p.nodes) + 1
        node == [type |-> type, ref |-> token.ref, text |-> token.text,
                 alias |-> "", next |-> 0, child |-> 0]
        linked == IF p.toChild THEN [p.nodes EXCEPT ![p.current].child = new]
                               ELSE [p.nodes EXCEPT ![p.current].next = new]
    IN  [p EXCEPT !.nodes = Append(linked, node), !.current = new,
                  !.toChild = FALSE]

\* expectChar, expectWord, keyword, number: another token ends the program.
Expect(p, type) ==
    IF At(p, {type}) THEN Skip(p) ELSE [p EXCEPT !.failed = TRUE]
AddExpected(p, type, tokenType) ==
    AddNode(Expect(p, tokenType), type, Upcoming(p))
----------------------------------------------------------------------------
\* The functions.  "save" and "restore" keep currentNode in a local variable.
Expressions == {"expr", "exprs", "boolOp", "exprlist", "exprlist2",
                "boolexprlist", "connective"}
QueryParts  == {"query", "where", "from", "join", "source", "alias"}

ExpressionBody(function, p) ==
    CASE function = "expr" ->
            CASE At(p, {"("})        -> <<"(", "OPAREN", "save", "child", "exprs",
                                          ")", "CPAREN", "restore">>
              [] At(p, {"function"}) -> <<"IDENT_FUN", "child", "(", "exprlist", ")",
                                          "boolOp">>
              [] At(p, Words)        -> <<"IDENT_COL", "boolOp">>
              [] At(p, {"*"})        -> <<"STAR", "boolOp">>
              [] At(p, {"quoted"})   -> <<"STRING", "boolOp">>
              [] OTHER               -> <<"NUMBER", "boolOp">>
      [] function = "exprs" -> IF At(p, {")"}) THEN <<>> ELSE <<"expr", "exprs">>
      [] function = "boolOp" ->
            IF At(p, {"boolop"}) THEN <<"BOOLOP", "boolexprlist">> ELSE <<>>
      [] function = "exprlist" -> <<"expr", "exprlist2">>
      [] function = "exprlist2" -> IF At(p, {","}) THEN <<",", "exprlist">> ELSE <<>>
      [] function = "boolexprlist" -> <<"expr", "connective">>
      [] function = "connective" ->
            IF At(p, {"AND", "OR"}) THEN <<Upcoming(p).type, "boolexprlist">> ELSE <<>>

QueryBody(function, p) ==
    CASE function = "query" ->
            <<"SELECT", "save", "child", "exprlist", "restore", "FROM", "save",
              "child", "from", "restore", "alias", "where">>
      [] function = "where" ->
            IF At(p, {"WHERE"}) THEN <<"WHERE", "child", "boolexprlist">> ELSE <<>>
      [] function = "from" -> <<"source", "join">>
      [] function = "join" ->
            IF At(p, {"JOIN"}) THEN <<"JOIN", "source", "ON", "child", "boolexprlist">>
                               ELSE <<>>
      [] function = "source" ->
            CASE At(p, {"("})      -> <<"(", "query", ")">>
              [] At(p, {"quoted"}) -> <<"FILEPATH", "alias">>
              [] OTHER             -> <<"IDENT_TBL", "alias">>
      [] function = "alias" -> IF At(p, {"AS"}) THEN <<"AS", "addAlias">> ELSE <<>>

StatementBody(function, p) ==
    CASE function = "statement" ->
            CASE At(p, {"EXPLAIN"}) -> <<"EXPLAIN", "queryOrStmt">>
              [] OTHER -> <<"queryOrStmt">>
      [] function = "queryOrStmt" ->
            CASE At(p, {"CREATE"}) -> <<"CREATE", "TABLE", "IDENT_TBL", "AS", "(",
                    "COLUMNLIST", "child", "columnDefinitions", ")">>
              [] At(p, {"INSERT"}) -> <<"INSERT", "INTO", "IDENT_TBL", "query">>
              [] OTHER -> <<"query">>
      [] function = "columnDefinitions" ->
            <<"IDENT_COL", "child", "save", "getDatatype", "restore", "columns2">>
      [] function = "columns2" ->
            IF At(p, {","}) THEN <<",", "columnDefinitions">> ELSE <<>>
      [] function = "getDatatype" ->
            IF At(p, {"CHAR"}) THEN <<"DATATYPE", "(", "child", "NUMBER", ")">>
                               ELSE <<"DATATYPE">>

Body(function, p) ==
    CASE function \in Expressions -> ExpressionBody(function, p)
      [] function \in QueryParts  -> QueryBody(function, p)
      [] OTHER                    -> StatementBody(function, p)

\* One step.  ident() takes what there is of a name, which may be nothing,
\* and does not know keywords.
Step(p, step) ==
    CASE step = "save"    -> [p EXCEPT !.saved = <<p.current>> \o @]
      [] step = "restore" -> [p EXCEPT !.current = Head(p.saved), !.saved = Tail(@)]
      [] step = "child"   -> [p EXCEPT !.toChild = TRUE]
      [] step = "addAlias" ->
            IF At(p, Words)
            THEN [Skip(p) EXCEPT !.nodes[p.current].alias = Upcoming(p).text] ELSE p
      [] step \in Identifiers ->
            IF At(p, Words) THEN AddNode(Skip(p), step, Upcoming(p))
                            ELSE AddNode(p, step, [Word(step) EXCEPT !.text = ""])
      [] step \in {"OPAREN", "CPAREN", "COLUMNLIST"} -> AddNode(p, step, Word(step))
      [] step \in DOMAIN Reads -> AddExpected(p, step, Reads[step])
      [] step \in Keywords     -> AddExpected(p, step, step)
      [] step \in Marks        -> Expect(p, step)
      [] OTHER                 -> [p EXCEPT !.todo = Body(step, p) \o @]

Run(p) == IF p.failed \/ p.todo = <<>> THEN p
          ELSE Run(Step([p EXCEPT !.todo = Tail(@)], Head(p.todo)))

\* parse().  The root node is the caller's.
Parse(tokens) ==
    Run([nodes |-> <<[type |-> "ROOT", ref |-> "", text |-> "", alias |-> "",
                      next |-> 0, child |-> 0]>>,
         current |-> 1, toChild |-> FALSE, saved |-> <<>>,
         todo |-> <<"statement">>, rest |-> tokens, failed |-> FALSE])

\* The nodes from the n-th on, linked by next, each with the nodes below it.
Tree(nodes, n) ==
    IF n = 0 THEN <<>>
    ELSE <<[nodes[n] EXCEPT !.child = Tree(nodes, @)]>> \o Tree(nodes, nodes[n].next)

Statement(parsed) == Tree(parsed.nodes, parsed.nodes[1].next)
=============================================================================
