----------------------------- MODULE MCPipeline -----------------------------
(***************************************************************************)
(* Pipeline on small files, with a value too far from the others for an    *)
(* int, a negative one and a string, lines that lack a column, are empty   *)
(* or do not fit the line buffer.                                          *)
(***************************************************************************)
EXTENDS PipelineProperties

CONSTANT MaxLines   \* Bound on the lines of a file

\* "9" is 4 further up than ints go from "-".
MCNumber == ("3" :> 3) @@ ("5" :> 5) @@ ("9" :> 9) @@ ("-" :> -2) @@ ("x" :> 0)
            @@ ("" :> 0)
MCRank == ("" :> 0) @@ ("-" :> 1) @@ ("3" :> 2) @@ ("5" :> 3) @@ ("9" :> 4)
          @@ ("x" :> 5)
\* No two values share a bucket: collisions are what HashJoin is about.
MCHashOf == MCRank
MCHeaders == ("f" :> <<"a", "b">>) @@ ("g" :> <<"a", "c">>) @@ ("h" :> <<"k">>)
             @@ ("w" :> <<"a", "b", "c">>)

Col(ref, name) == [kind |-> "col", ref |-> ref, text |-> name]
Num(v) == [kind |-> "number", ref |-> "", text |-> v]
Str(v) == [kind |-> "string", ref |-> "", text |-> v]
Cond(l, op, r) == [type |-> "cond", left |-> l, boolOp |-> op, right |-> r]
After(connective, term) == [after |-> connective, term |-> term]
Just(term) == <<After("AND", term)>>
Paren(clause) == [type |-> "(", clause |-> clause]
AsFile(f, alias) == [kind |-> "file", file |-> f, alias |-> alias]
AsTable(query) == [kind |-> "query", query |-> query]
FromOnly(source) == [source |-> source, join |-> <<>>]
FromJoin(l, r, on) == [source |-> l, join |-> <<[source |-> r, on |-> on]>>]
Select(fun, cols, from, where) ==
    [op |-> "select", fun |-> fun, cols |-> cols, from |-> from, where |-> where]

Case(s, ts) == [args |-> <<SqlArg>>, statement |-> s, tables |-> ts]
----------------------------------------------------------------------------
\* One file.
F == FromOnly(AsFile("f", ""))
a == Col("", "a")
b == Col("", "b")
Three == Num("3")

Lines == {<<"">>, <<"3">>, <<"3", "5">>, <<"5", "3">>, <<"9", "">>, <<"3", "-">>,
          <<"-", "x">>, <<"3", "5", "9">>}

MCFiles == UNION {[1 .. n -> Lines] : n \in 0 .. MaxLines}
           \cup [1 .. 3 -> {<<"3", "5">>, <<"5", "3">>, <<"9", "">>}]

\* Every comparison, with the column on both sides, on either and on none.
Comparisons ==
    {Cond(a, op, Three) : op \in {"=", "!=", "<", ">", ">=", "<="}}
    \cup {Cond(Num("5"), "<=", b), Cond(a, "<", b), Cond(b, "!=", Str("x")),
          Cond(Str("3"), "<", b), Cond(Three, "=", Three)}

Functions == {"COUNT", "SUM", "AVG", "MAX", "MIN"}

\* Every comparison and every function, alone, together and over a subquery.
Simple ==
    {Select("none", <<b, a>>, F, Just(c)) : c \in Comparisons}
    \cup {Select(f, <<c>>, F, w) : f \in Functions, c \in {a, b},
            w \in {<<>>, Just(Cond(b, ">", Three))}}
    \cup {Select("none", <<a>>,
            FromOnly(AsTable(Select("none", <<>>, F, Just(Cond(b, "<", Num("5")))))),
            Just(Cond(a, ">", Three))),
          Select("SUM", <<b>>,
            FromOnly(AsTable(Select("COUNT", <<b>>, F, Just(Cond(a, "=", Three))))),
            Just(Cond(Three, ">=", b)))}

\* Clauses of up to two terms, a term a condition or a clause of conditions
\* in parentheses, and some that go deeper, on a file with all values of two
\* conditions.
ClauseFile == <<<<"3", "5">>, <<"5", "3">>, <<"3", "3">>, <<"5", "5">>>>
A == Cond(a, "=", Three)
B == Cond(b, ">", Three)
Clauses(terms) ==
    {Just(t) : t \in terms}
    \cup {<<After("AND", s), After(c, t)>> : s, t \in terms, c \in {"AND", "OR"}}
Terms == {A, B} \cup {Paren(c) : c \in Clauses({A, B})}
Deep == {<<After("AND", r), After(c, s), After(d, t)>> :
            r, s, t \in {A, B, Paren(<<After("AND", A), After("OR", B)>>)},
            c, d \in {"AND", "OR"}}
        \cup {Just(Paren(Just(Paren(c)))) : c \in Clauses({A, B})}
        \cup {Just(Paren(<<After("AND", Paren(Just(A))), After(c, B)>>))
              : c \in {"AND", "OR"}}

OneFile == {Case(q, [f |-> ls]) : q \in Simple, ls \in MCFiles}
           \cup {Case(Select("none", <<a, b>>, F, w), [f |-> ClauseFile]) :
                    w \in Clauses(Terms) \cup Deep}

\* Conditions on the text of a column.
TextCases == {Case(Select("none", <<a>>, F, Just(Cond(l, op, r))), [f |-> ls]) :
                op \in {"=", "<", ">"}, l \in {a, Str("x")}, r \in {b, Str("-")},
                ls \in MCFiles}
----------------------------------------------------------------------------
\* Two files.
fa == Col("f", "a")
fb == Col("f", "b")
ga == Col("g", "a")
gc == Col("g", "c")
Cols == {fa, fb, ga, gc}

Ons == {Just(Cond(l, op, r)) : l \in {fa, fb}, r \in {ga, gc}, op \in {"=", "<"}}
       \cup {<<After("AND", Cond(fa, "=", ga)), After(c, Cond(fb, "!=", gc))>> :
                c \in {"AND", "OR"}}
       \cup {Just(Paren(Just(Cond(fa, "=", r)))) : r \in {ga, gc}}
       \cup {Just(Cond(fb, "=", Str("x"))), Just(Cond(Three, "=", gc))}

FG(on) == FromJoin(AsFile("f", "f"), AsFile("g", "g"), on)
Sub(q) == FromOnly(AsTable(q))

\* A join alone, and below a clause, an aggregate, both, or other queries.
Joining ==
    {Select("none", <<>>, FG(on), <<>>) : on \in Ons}
    \cup {Select("none", <<gc, fa>>, FG(on), Just(Cond(fb, "=", gc))) : on \in Ons}
    \cup {Select(f, <<Col("", n)>>, FG(on), w) : f \in {"SUM", "COUNT"}, n \in {"b", "c"},
            w \in {<<>>, Just(Cond(fa, "!=", Three))},
            on \in {Just(Cond(fa, "=", ga)), Just(Cond(fb, "<", gc))}}
    \cup {Select("none", cs, Sub(Select("none", ds, FG(Just(Cond(fa, "=", ga))), <<>>)), <<>>) :
            cs \in {<<>>, <<b>>, <<Col("", "c"), b>>}, ds \in {<<fb, gc>>, <<gc, fb>>, <<gc, ga>>}}

\* Repeated keys on both sides, keys without a partner, columns of numbers
\* and of text; then lines that are not plain, and empty files.
Lefts  == {<<<<"3", "3">>>>, <<<<"3", "5">>, <<"5", "x">>>>, <<<<"3", "x">>, <<"3", "3">>>>,
           <<<<"5", "x">>, <<"3", "3">>, <<"3", "5">>>>}
Rights == {<<<<"3", "x">>>>, <<<<"3", "5">>, <<"3", "x">>>>, <<<<"5", "3">>, <<"3", "5">>>>,
           <<<<"3", "5">>, <<"5", "3">>, <<"5", "5">>>>}
Pairs == {[f |-> l, g |-> r] : l \in Lefts, r \in Rights}
         \cup {[f |-> <<<<"3", "5">>, <<"9", "">>>>, g |-> <<<<"3", "5">>, <<"-", "3">>>>],
               [f |-> <<<<"3", "5", "9">>, <<"3">>>>, g |-> <<<<"3">>, <<"3", "5">>>>],
               [f |-> <<<<"3", "5">>, <<"", "3">>>>, g |-> <<<<"", "3">>, <<"3", "5">>>>],
               [f |-> <<>>, g |-> <<<<"3", "5">>>>], [f |-> <<<<"3", "5">>>>, g |-> <<>>]}

\* Tables of one column, whose first column needs no other index, the same
\* table twice, and one that does not fit.
Narrow == [f |-> <<<<"3", "5">>, <<"5", "3">>, <<"3", "3">>>>,
           h |-> <<<<"3">>, <<"5">>, <<"3">>>>, w |-> <<<<"3", "", "">>>>]
FH == FromJoin(AsFile("f", "f"), AsFile("h", "h"), Just(Cond(fa, "=", Col("h", "k"))))
HF(n) == FromJoin(AsFile("h", "h"), AsFile("f", "f"), Just(Cond(Col("h", "k"), "=", Col("f", n))))
NarrowQueries ==
    {Select("none", <<>>, from, w) : from \in {FH, HF("a"), HF("b"),
            FromJoin(AsFile("f", "f"), AsFile("f", "g"), Just(Cond(fa, "=", Col("g", "b")))),
            FromJoin(AsFile("f", "f"), AsFile("w", "w"), Just(Cond(fa, "=", Col("w", "a")))),
            FromJoin(AsFile("f", "f"), AsFile("h", "h"),
                     Just(Paren(Just(Cond(fa, "=", Col("h", "k"))))))},
        w \in {<<>>, Just(Cond(fa, "=", Three))}}

TwoFiles == {Case(q, ts) : q \in Joining, ts \in Pairs}
            \cup {Case(q, Narrow) : q \in NarrowQueries}
----------------------------------------------------------------------------
\* The same conditions with the second table's column on the left.
ReversedCases ==
    {Case(Select("none", <<fb, gc>>, FG(Just(Cond(l, "=", r))), <<>>), ts) :
        l \in {ga, gc}, r \in {fa, fb}, ts \in Pairs}
----------------------------------------------------------------------------
\* What is not accepted, and the other statements.
Small == [f |-> <<<<"3", "5">>, <<"5", "x">>>>, g |-> <<<<"3", "x">>>>]
All(source) == Select("none", <<>>, FromOnly(source), <<>>)
EquiJoin == Just(Cond(fa, "=", ga))

Faulty ==
    {All(AsFile("none", "")), Select("none", <<Col("f", "a")>>, F, <<>>),
     Select("none", <<a>>, FromOnly(AsFile("f", "f")), <<>>),
     Select("none", <<a>>, F, Just(Cond(Col("", "z"), "=", Three))),
     Select("none", <<a>>, F, Just(Cond(a, "=", b))), Select("MEDIAN", <<a>>, F, <<>>),
     Select("SUM", <<Col("", "z")>>, F, <<>>)}
    \cup {Select("none", <<>>, FromJoin(l, r, EquiJoin), <<>>) :
            l, r \in {AsFile("f", "f"), AsFile("g", "g"), AsTable(All(AsFile("f", ""))),
                      AsTable(Select("none", <<>>, F, Just(A)))}}

Column1 == [name |-> "k", type |-> "INT", size |-> ""]
Column2 == [name |-> "s", type |-> "CHAR", size |-> "8"]
Creates == {[op |-> "create", table |-> "t", columns |-> cs] :
                cs \in {<<Column1>>, <<Column2>>, <<Column2, Column1>>,
                        <<Column1, Column2, Column1>>, <<[Column1 EXCEPT !.type = "DATE"]>>}}
Explained == Creates \cup {Select("none", <<>>, FG(on), w) : on \in Ons,
                                w \in {<<>>, Just(Cond(fa, "=", Three))}}
             \cup {Select("none", <<b>>, F, w) : w \in Clauses(Terms)}
             \cup {Select("COUNT", <<Col("", "b")>>, Sub(All(AsFile("f", ""))), Just(B))}
Others == Creates \cup {[op |-> "explain", of |-> s] : s \in Explained}
          \cup {[op |-> "insert", table |-> "t", query |-> q] :
                    q \in {All(AsFile("f", "")), Select("none", <<b>>, F, Just(A))}}

\* Command lines, good and bad.
CommandLines ==
    LET words == {SqlArg, "--help", "--htsize", "--hashjoin", "--parse", "0", "7", "q"}
    IN  UNION {[1 .. n -> words] : n \in 0 .. 3}
        \cup {<<"--htsize", "7", "--hashjoin", "0", SqlArg>>,
              <<"--hashjoin", "0", "--hashjoin", "7", SqlArg>>,
              <<"--hashjoin", "0", "--parse", SqlArg>>}

MCCases ==
    OneFile \cup TwoFiles \cup {Case(s, Small) : s \in Faulty \cup Others}
    \cup {[args |-> as, statement |-> s, tables |-> Small] : as \in CommandLines,
            s \in {Select("none", <<>>, FG(EquiJoin), <<>>),
                   [op |-> "explain", of |-> Select("none", <<fb>>, FG(EquiJoin), <<>>)]}}

=============================================================================
