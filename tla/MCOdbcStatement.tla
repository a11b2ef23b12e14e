-------------------------- MODULE MCOdbcStatement --------------------------
(***************************************************************************)
(* OdbcStatement with two handles and statements of every fate.            *)
(***************************************************************************)
EXTENDS OdbcStatement

MCNumber == ("3" :> 3) @@ ("5" :> 5) @@ ("x" :> 0) @@ ("y" :> 0) @@ ("" :> 0)
MCRank == ("" :> 0) @@ ("3" :> 1) @@ ("5" :> 2) @@ ("x" :> 3) @@ ("y" :> 4)
MCHeaders == ("f" :> <<"n", "s">>) @@ ("g" :> <<"t">>)
MCTables == ("f" :> <<<<"3", "x">>, <<"5", "y">>>>) @@ ("g" :> <<<<"x">>>>)

Col(ref, name) == [kind |-> "col", ref |-> ref, text |-> name]
Cond(l, op, r) == [type |-> "cond", left |-> l, boolOp |-> op, right |-> r]
Just(term) == <<[after |-> "AND", term |-> term]>>
File(f, alias) == [kind |-> "file", file |-> f, alias |-> alias]
Only(f) == [source |-> File(f, ""), join |-> <<>>]
Joined2(boolOp) ==
    [source |-> File("f", "f"),
     join |-> <<[source |-> File("g", "g"),
                 on |-> Just(Cond(Col("f", "s"), boolOp, Col("g", "t")))]>>]
Select(fun, cols, from, where) ==
    [op |-> "select", fun |-> fun, cols |-> cols, from |-> from, where |-> where]

Big == Just(Cond(Col("", "n"), ">=", [kind |-> "number", ref |-> "", text |-> "3"]))

MCStatements_ == {
    Select("none", <<>>, Only("g"), <<>>),
    Select("none", <<Col("", "n"), Col("", "s")>>, Only("f"), Big),
    Select("COUNT", <<Col("", "s")>>, Only("f"), Big),
    Select("none", <<>>, Joined2("!="), <<>>),
    Select("none", <<>>, Joined2("="), <<>>),
    Select("none", <<>>, Only("missing"), <<>>),
    [op |-> "insert", table |-> "t", query |-> Select("none", <<>>, Only("g"), <<>>)]}

\* The first column is bound, unbound, bound with no place for the length, or
\* as a type that the driver does not know.
FirstAs(type, buffer, indicator) ==
    [column |-> 0, type |-> type, buffer |-> buffer, indicator |-> indicator]
MCBindings == {FirstAs("char", TRUE, TRUE), FirstAs("char", FALSE, TRUE),
               FirstAs("char", TRUE, FALSE), FirstAs("other", TRUE, TRUE)}

HandleSymmetry == Permutations(Handles)
=============================================================================
