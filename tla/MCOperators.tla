---------------------------- MODULE MCOperators ----------------------------
(***************************************************************************)
(* Inputs of up to five rows with keys 0 (NULL), 1 and 2, cut into batches *)
(* of at most BatchSize = 2 in every way.                                  *)
(***************************************************************************)
EXTENDS Operators

Parquet == INSTANCE ParquetFiles
Texts == INSTANCE Json
MCReadBack(p) ==
    LET read == CASE p.op = "parquet" -> Parquet!Reading(p.file) [] p.op = "json" -> Texts!Reading(p.call)
    IN  read
MCRecorded(p) ==
    LET says == CASE p.op = "parquet" -> Parquet!Means(p.file) [] p.op = "json" -> Texts!Means(p.call)
    IN  says
MCRootOf(query) == LET bound == Bind(query, <<>>).node IN bound

KeySeqs(n, ks) == UNION {[1..k -> ks] : k \in 0..n}
Rowed(ks) == [i \in DOMAIN ks |-> [key |-> ks[i], id |-> i]]
Sizes(n) == {s \in SeqOf(1..BatchSize, n) : FoldLeft(+, 0, s) = n}
Cuts(rows) ==
    {[i \in DOMAIN s |-> SubSeq(rows, FoldLeft(+, 1, SubSeq(s, 1, i - 1)), FoldLeft(+, 0, SubSeq(s, 1, i)))]
       : s \in Sizes(Len(rows))}
Inputs(keys) == UNION {Cuts(Rowed(s)) : s \in keys}
Empties == {<<>>, <<<<>>>>}
Alone(batches) == [left |-> batches, right |-> <<>>]
Both(l, r) == [left |-> l, right |-> r]

JoinPlans ==
    {[op |-> "join", kind |-> k, keyed |-> e, residual |-> r, input |-> Both(left, right)] :
       k \in {"inner", "left", "right", "full", "semi", "anti"}, e \in BOOLEAN,
       r \in {{}, {<<1, 1>>, <<2, 2>>}},
       left \in Inputs({<<>>, <<1>>, <<0, 1>>, <<1, 1, 2>>}),
       right \in Inputs({<<>>, <<1, 1, 1>>, <<1, 0, 2>>, <<2, 2>>})}
NotInPlans ==
    {[op |-> "join", kind |-> "anti null aware", keyed |-> TRUE, residual |-> {}, input |-> Both(left, right)] :
       left \in Inputs(KeySeqs(2, {0, 1, 2})), right \in Inputs(KeySeqs(2, {0, 1}))}

FiveRows == Inputs({<<>>, <<0>>, <<2, 0, 1>>, <<1, 2, 2, 0>>, <<2, 1, 0, 2, 0>>}) \cup {<<<<>>>>}
StreamPlans ==
    {[op |-> "filter", accepts |-> a, input |-> Alone(b)] : a \in {{}, {1}, {1, 2}}, b \in FiveRows}
    \cup {[op |-> "project", input |-> Alone(b)] : b \in FiveRows}
    \cup {[op |-> "limit", limit |-> n, offset |-> m, input |-> Alone(b)] :
            n \in -1..3, m \in 0..3, b \in FiveRows}
    \cup {[op |-> o, keyed |-> e, input |-> Alone(b)] :
            o \in {"distinct on", "assert max one row"}, e \in BOOLEAN, b \in FiveRows}
    \cup {[op |-> "unnest", elements |-> f, input |-> Alone(b)] :
            f \in {e \in [{0, 1, 2} -> {0, 1, 3}] : e[0] = 0}, b \in FiveRows}
    \cup {[op |-> "series", start |-> s, stop |-> t, step |-> d, inclusive |-> i, ints |-> -4..3,
           input |-> Alone(<<>>)] : s \in {-4, 0, 2, 3}, t \in {-4, 0, 3}, d \in {-3, -1, 1, 2}, i \in BOOLEAN}
    \cup {[op |-> "bernoulli", percent |-> p, input |-> Alone(b)] :
            p \in {0, 50, 100}, b \in Inputs({<<>>, <<1, 2, 1>>})}
    \cup {[op |-> "sample", target |-> n, input |-> Alone(b)] :
            n \in 0..4, b \in Inputs({<<>>, <<1, 2, 1>>})}

ASSUME StreamsAreTyped == \A p \in StreamPlans : IsStream(p)

SortPlans ==
    {[op |-> "sort", desc |-> d, nullsFirst |-> f, limit |-> n, input |-> Alone(b)] :
       d \in BOOLEAN, f \in BOOLEAN, n \in -1..2,
       b \in FiveRows \cup Inputs({<<1, 1, 2, 0, 1>>, <<0, 0, 1>>})}

SetPlans ==
    {[op |-> "set", kind |-> k, all |-> a, input |-> Both(left, right)] :
       k \in {"union", "intersect", "except"}, a \in BOOLEAN,
       left \in Inputs({<<>>, <<1, 1, 1>>, <<0, 1, 0, 2>>}), right \in Inputs({<<>>, <<1, 0>>, <<1, 1, 2>>})}

\* Rows with several columns.
Table(keys, vals, ords) ==
    [i \in DOMAIN keys |-> [key |-> keys[i], part |-> ords[i], val |-> vals[i], ord |-> ords[i], id |-> i]]
Tables(keys, vals, ords) == UNION {Cuts(Table(k, v, o)) : <<k, v, o>> \in keys \X vals \X ords}

AggregatePlans ==
    {[op |-> "aggregate", kind |-> k, grouped |-> g, distinct |-> FALSE, filteredOut |-> f, rejects |-> {},
      input |-> Alone(b)] :
       k \in {"count star", "count", "sum", "count_if", "min", "any_value", "last", "array_agg", "arg_min", "mode"},
       g \in BOOLEAN, f \in {{}, {1}},
       b \in Tables({<<1, 1, 1, 1>>, <<2, 0, 2, 0>>}, {<<1, 2, 2, 1>>, <<0, 2, 0, 1>>}, {<<2, 1, 1, 0>>})
             \cup Empties}
    \cup {[op |-> "aggregate", kind |-> k, grouped |-> TRUE, distinct |-> d, filteredOut |-> {}, rejects |-> r,
           input |-> Alone(b)] :
            k \in {"count", "sum", "array_agg", "mode"}, d \in BOOLEAN, r \in {{<<1>>, <<2>>}, {}},
            b \in Tables({<<1, 0, 2, 1>>, <<1, 1, 0, 1>>}, {<<1, 2, 2, 1>>, <<1, 0, 0, 2>>}, {<<1, 1, 1, 1>>})}

WindowPlans ==
    {[op |-> "window", kind |-> k, partitioned |-> p, ordered |-> o # "no", whole |-> o # "range",
      desc |-> d, nullsFirst |-> d, offset |-> n, nth |-> n, buckets |-> n, default |-> Null,
      input |-> Alone(b)] :
       k \in {"row_number", "rank", "dense_rank", "percent_rank", "cume_dist", "ntile", "lag", "lead",
              "first_value", "last_value", "nth_value", "count", "sum"},
       p \in BOOLEAN, o \in {"no", "range", "whole"}, d \in {FALSE}, n \in {2},
       b \in {c \in Tables({<<2, 1, 2, 0, 1>>}, {<<3, 0, 1, 2, 4>>}, {<<1, 1, 0, 1, 1>>}) : Len(c) = 3}}

RecursivePlans ==
    {[op |-> "recursive", all |-> a, maxIterations |-> m, edges |-> e, input |-> Alone(b)] :
       a \in BOOLEAN, m \in 1..3,
       e \in {[k \in 0..3 |-> CASE k = 1 -> <<2, 3>> [] k = 2 -> <<3>> [] OTHER -> <<>>],
              [k \in 0..3 |-> CASE k = 1 -> <<2, 2>> [] k = 2 -> <<1, 3>> [] OTHER -> <<>>],
              [k \in 0..3 |-> IF k < 3 THEN <<k + 1>> ELSE <<>>]},
       b \in Inputs({<<>>, <<1>>, <<0>>, <<1, 1, 2>>})}

\* Texts of every shape up to four characters, longer ones of lines and parts
\* of lines, and what COPY writes for one or two columns.
Text(t, n, m, s, c) == [op |-> "csv", text |-> t, tsv |-> FALSE, splitBytes |-> n, maxRecord |-> m,
                        sample |-> s, complete |-> c, rows |-> <<>>]
Written(names, rows, n, c) == [Text(CsvText(names, rows), n, 9, 40, c) EXCEPT !.rows = rows]
CsvValues == {NullCell, <<>>, <<"x">>, <<"1">>, <<Delim>>, <<Lf>>, <<Quote, "x">>, <<Cr>>}
CsvPieces == {<<"1">>, <<Lf>>, <<Cr, Lf>>, <<Cr>>, <<Quote, Lf, Quote>>, <<Delim>>}
AnyText == {Text(t, 2, m, 2, c) : t \in KeySeqs(4, {"1", Delim, Lf, Cr, Quote}), m \in {3, 8}, c \in BOOLEAN}
PaddedTexts == {[Text(t, 3, 8, 8, FALSE) EXCEPT !.tsv = v] :
                  t \in KeySeqs(4, {Pad, Quote, "1", Lf}) \cup {<<Bom>> \o s : s \in KeySeqs(2, {Pad, Cr, "1", Lf})},
                  v \in BOOLEAN}
LineTexts == {Text(t, n, m, 3, c) : t \in {<<"x", Lf>> \o a \o b \o d \o e : a, b, d, e \in CsvPieces},
                                    n \in {2, 3}, m \in {3, 8}, c \in BOOLEAN}
WrittenTexts ==
    {Written(<<<<"x">>>>, [i \in DOMAIN vs |-> <<vs[i]>>], n, c) :
       vs \in KeySeqs(2, CsvValues), n \in {1, 3}, c \in BOOLEAN}
    \cup {Written(<<<<"x">>, <<"x", "x">>>>, <<<<v, w>>>>, 3, TRUE) : v, w \in CsvValues}

JsonText(t, n, m, s) == [Text(t, n, m, s, FALSE) EXCEPT !.op = "jsonl"]
JsonPieces == {<<"a", Lf>>, <<"A", "b", Lf>>, <<Cr, Lf>>, <<"n", Lf>>, <<Scalar, Lf>>, <<"a", "x">>}
JsonTexts ==
    {JsonText(t, 2, m, 2) : t \in KeySeqs(4, {"a", "D", "!", Scalar, Lf}), m \in {3, 8}}
    \cup {JsonText(t, n, m, 3) : t \in {<<Bom>> \o a \o b \o d : a, b, d \in JsonPieces \cup {<<"B">>, <<Memberless>>}},
                                n \in {2, 3}, m \in {3, 8}}
WrittenJson ==
    {[JsonText(JsonlText(<<"x", "y">>, rows), n, 9, 40) EXCEPT !.rows = rows] :
       rows \in KeySeqs(2, {<<v, w>> : v \in {NullCell, <<"a">>, <<"A">>, <<"D">>}, w \in {NullCell, <<"b">>}}),
       n \in 1..3}

\* Expressions over two columns, over batches of which all, some or none of the
\* rows reach an operand.
A == [is |-> "col", col |-> 1]
B == [is |-> "col", col |-> 2]
Constant(v) == [is |-> "const", value |-> v]
Of(f, x) == [is |-> f, arg |-> x]
Infix(o, x, y) == [is |-> o, lhs |-> x, rhs |-> y]
First(xs) == [is |-> "coalesce", args |-> xs]
Case(o, ws, els) == [is |-> "case", operand |-> o, whens |-> ws, els |-> els]
FA == Of("function", A)
FB == Of("function", B)

Leaves == {A, B, FA, FB, Of("is null", A), Constant(True), Constant(Unknown)}
Logic == {Infix(o, x, y) : o \in {"and", "or", "eq"}, x, y \in Leaves}
Nested == {Infix(o, x, y) : o \in {"and", "or"}, x \in {A, FB},
                           y \in {Infix("or", B, FA), Infix("and", FA, FB), First(<<A, FB>>),
                                  Case(<<>>, <<<<B, FA>>>>, <<>>), Of("not", Infix("and", B, FA))}}
          \cup {Infix("eq", FA, y) : y \in {First(<<FB, A>>), First(<<FB, FA>>), Case(<<>>, <<<<FB, A>>>>, <<FA>>)}}
Coalesced == {First(xs) : xs \in KeySeqs(3, {A, B, FA, FB}) \ {<<>>}}
Cases == {Case(o, <<<<c, v>>>> \o more, els) :
            o \in {<<>>, <<B>>}, c \in {A, FA}, v \in {B, FB},
            more \in {<<>>} \cup {<<<<d, w>>>> : d \in {A, FB, Constant(True)}, w \in {B, FA}},
            els \in {<<>>, <<FA>>, <<B>>}}
Listed == {[is |-> "in", arg |-> x, list |-> xs, negated |-> n] :
             x \in {A, FA}, xs \in {<<B>>, <<Constant(Unknown), B>>, <<FB, B, A>>}, n \in BOOLEAN}
          \cup {[is |-> "between", arg |-> x, low |-> l, high |-> h] : x \in {A, FA}, l, h \in {B, FB, Constant(Unknown)}}
Rows2 == {<<<<>>>>, <<<<<<True, True>>, <<False, True>>, <<Unknown, False>>>>>>,
          <<<<<<False, False>>, <<True, Unknown>>, <<True, False>>>>>>,
          <<<<<<Unknown, True>>, <<False, Unknown>>>>, <<<<Unknown, Unknown>>>>, <<<<True, False>>>>>>}
Evaluated(es, skip, batches) ==
    [op |-> "evaluate", exprs |-> es, filters |-> FALSE, unselected |-> skip,
     width |-> 100, input |-> Alone(batches)]
Over(exprs) == {Evaluated(<<e>>, s, b) : e \in exprs, s \in {{}, {2}}, b \in Rows2}
Wheres == {[Evaluated(es, {}, b) EXCEPT !.filters = TRUE] :
             es \in KeySeqs(3, {A, FA, FB, Infix("or", A, FB)}) \ {<<>>}, b \in Rows2}
Narrow == {[Evaluated(<<e>>, {}, b) EXCEPT !.width = w] :
             e \in Nested \cup {Case(<<>>, <<<<A, FA>>>>, <<FB>>)}, w \in 0..6, b \in Rows2}
\* Products of DECIMALs that every row reaches, and such that only some do.
Product == Infix("mul", A, B)
Products == {Product, Infix("eq", A, Product), Infix("and", Product, FB), First(<<Product, A>>), Case(<<Product>>, <<<<A, FB>>>>, <<>>)}
GuardedProducts == {Infix(o, x, Product) : o \in {"and", "or"}, x \in {A, B, FA}}
                   \cup {First(<<A, Product>>), Case(<<>>, <<<<A, Product>>>>, <<B>>)}

\* Two statements on a table of two columns; the second may be narrow or NOT NULL.
Insert(cols, values) == [kind |-> "insert", cols |-> cols, values |-> values]
InsertSelect(cols, from, es) == [kind |-> "insert select", cols |-> cols, from |-> from, exprs |-> es]
Update(set, where) == [kind |-> "update", set |-> set, where |-> where]
Delete(where) == [kind |-> "delete", where |-> where]
CreateAs(from, es) == [kind |-> "create as", from |-> from, exprs |-> es]
AddColumnOf(c, d) == [kind |-> "add column", column |-> c, default |-> d]
DropColumnAt(n) == [kind |-> "drop column", column |-> n]
Plain == [nullable |-> TRUE, narrow |-> FALSE]
Writes == {Insert(<<2, 1>>, <<<<<<Constant(True)>>, <<>>>>>>), Insert(<<1, 1>>, <<>>),
           Insert(<<2>>, <<<<<<Constant(False)>>>>, <<<<Constant(Unknown)>>>>>>),
           Insert(<<1>>, <<<<<<Constant(True)>>>>, <<<<Of("function", Constant(False))>>>>>>),
           InsertSelect(<<2, 1>>, "table", <<A, B>>), InsertSelect(<<1, 2>>, "file", <<A, FB>>),
           InsertSelect(<<1>>, "file", <<B>>),
           Update(<<<<1, B>>, <<2, A>>>>, <<>>), Update(<<<<2, FA>>>>, <<A>>), Update(<<<<2, B>>, <<2, A>>>>, <<>>),
           Update(<<<<1, Constant(True)>>>>, <<FB>>),
           Delete(<<>>), Delete(<<B>>), Delete(<<FA>>),
           CreateAs("table", <<B, A>>), CreateAs("file", <<A, B>>),
           AddColumnOf(Plain, <<Constant(True)>>), AddColumnOf([Plain EXCEPT !.nullable = FALSE], <<>>),
           DropColumnAt(2), DropColumnAt(3)}
Tables2 == {[rows |-> r, schema |-> <<Plain, [nullable |-> n, narrow |-> w]>>, defaults |-> <<True, Unknown>>] :
              n, w \in BOOLEAN,
              r \in {<<>>, <<<<True, False>>, <<False, False>>, <<Unknown, False>>>>,
                     <<<<True, False>>, <<Unknown, False>>, <<True, False>>, <<True, False>>>>}}
StatementPlans ==
    {[op |-> "statements", table |-> t, statements |-> <<s, u>>, width |-> 100,
      input |-> Alone(<<<<<<True, False>>, <<False, True>>>>, <<<<Unknown, True>>>>>>)] :
       t \in Tables2, s \in Writes \ {DropColumnAt(2)},
       u \in {Insert(<<2, 1>>, <<<<<<Constant(True)>>, <<>>>>>>), InsertSelect(<<2, 1>>, "table", <<A, B>>),
              Update(<<<<1, B>>, <<2, A>>>>, <<>>), Update(<<<<2, FA>>>>, <<A>>), Delete(<<B>>)}}
DropPlans == {[p EXCEPT !.statements = <<DropColumnAt(n), u>>] :
                p \in StatementPlans, n \in {2}, u \in {Insert(<<2, 1>>, <<<<<<Constant(True)>>, <<>>>>>>), Delete(<<A>>),
                    Insert(<<1>>, <<<<<<Constant(True)>>>>>>), DropColumnAt(1), AddColumnOf(Plain, <<>>)}}

\* Patterns of up to four characters, and longer ones of pieces, over short texts.
Pattern(p, f, t) == [op |-> "regex", pattern |-> p, func |-> f, text |-> t, group |-> 0, repl |-> <<Between>>,
                     maxInsts |-> 40, maxSteps |-> 1000, input |-> Alone(<<>>)]
AnyPattern == {Pattern(p, "extract", <<"b", "a", "{">>) :
                 p \in KeySeqs(3, {"a", "(", ")", "|", "*", "?", "{", "2", "}"})
                       \cup {<<"a", "{">> \o q : q \in KeySeqs(3, {"2", ",", "}", "{", "*"})}
                       \cup {<<"[">> \o q : q \in KeySeqs(4, {"^", "a", "-", "b", "]"})}
                       \cup {<<"(">> \o q \o <<")">> : q \in KeySeqs(2, {"?", ":", "a", "|", Escape})}
                       \cup {<<Escape, "{", "2", "}">>, <<"(", "(", "(", "a", ")", ")", ")">>,
                             <<"(", ")", "(", ")", "(", ")">>}}
Quantifiers == {<<"*">>, <<"+">>, <<"?">>, <<"{", "2", ",", "}">>, <<"{", "0", ",", "2", "}">>}
Branches == {<<>>, <<"a">>, <<"b", "*">>, <<"(", "a", "?", ")">>, <<"a", "b">>, <<"^">>, <<"(", "|", "a", ")", "+">>}
Loops == {<<"(">> \o x \o <<"|">> \o y \o <<")">> \o q \o z :
            x \in Branches \ {<<"^">>, <<"a", "b">>}, y \in Branches, q \in Quantifiers, z \in {<<"b">>}}
ShortTexts == {<<>>, <<"a", "a", "b">>, <<"b", "a", NewLine, "a">>}
LoopPatterns == {[Pattern(p, f, t) EXCEPT !.group = g] :
                   p \in Loops, f \in {"extract", "full match"}, t \in ShortTexts, g \in {1}}
Replacements ==
    {[Pattern(p, f, t) EXCEPT !.repl = r, !.maxSteps = n] :
       p \in {<<"a", "*">>, <<"^", "a">>, <<"(", ".", ")">>, <<"b", "*", "(", "a", "|", "$", ")">>, <<"b", "|">>, <<"a", "$">>},
       f \in {"replace", "replace all"}, t \in ShortTexts \cup {<<"a", "b", "a", "a">>},
       r \in {<<Between>>, <<0, Between, 0>>, <<1>>, <<Malformation>>}, n \in {8, 1000}}
SmallPrograms == {[Pattern(p, "extract", <<"a", "b">>) EXCEPT !.maxInsts = n, !.maxSteps = m, !.group = g] :
                    p \in {<<"a", "{", "2", "}">>, <<"(", "a", "|", "b", ")">>}, n \in 5..9, m \in {5, 12, 20},
                    g \in {0, 1, 2, 9, 10}}

\* Queries over two tables: t has two rows of one k and a k that u has not; u
\* has a NULL and, in w, no NULL.
Name(n) == [is |-> "col", args |-> <<>>, rel |-> "", name |-> n]
Dot(r, n) == [is |-> "col", args |-> <<>>, rel |-> r, name |-> n]
Lit(v) == [is |-> "const", args |-> <<>>, value |-> v]
Fn(f, xs) == [is |-> f, args |-> xs]
Agg(k, xs) == [is |-> "agg", args |-> xs, kind |-> k]
Relation1(r) == [is |-> "table", name |-> r, alias |-> r]
Item(e) == [expr |-> e, alias |-> ""]
As(e, n) == [expr |-> e, alias |-> n]
By(e, d) == [expr |-> e, desc |-> d]
Select(from, where, items) ==
    [is |-> "select", from |-> from, where |-> where, items |-> items, group |-> <<>>, sets |-> <<>>,
     having |-> <<>>, distinct |-> FALSE, on |-> <<>>, order |-> <<>>, limit |-> -1, offset |-> 0]
Scalar1(q) == [is |-> "scalar", args |-> <<>>, query |-> q]
Exists(q, n) == [is |-> "exists", args |-> <<>>, query |-> q, negated |-> n]
InQuery(x, q, n) == [is |-> "in query", args |-> <<x>>, query |-> q, negated |-> n]
Ranked(x, op, q, all) == [is |-> "quantified", args |-> <<x>>, query |-> q, op |-> op, all |-> all]
Columned(n, nullable) == [name |-> n, nullable |-> nullable]
TableT == [columns |-> <<Columned("k", TRUE), Columned("v", TRUE)>>,
           rows |-> <<<<1, 2>>, <<2, Nil>>, <<1, 0>>, <<Nil, 1>>, <<3, 2>>>>]
TablesU == {[columns |-> <<Columned("k", TRUE), Columned("w", FALSE)>>, rows |-> r] :
              r \in {<<>>, <<<<1, 2>>>>, <<<<1, 2>>, <<2, 0>>, <<1, 1>>>>, <<<<2, 1>>, <<Nil, 1>>>>}}
Asked(qs, us) == {[op |-> "query", query |-> q, tables |-> [t |-> TableT, u |-> u], input |-> Alone(<<>>)] :
                    q \in qs, u \in us}

\* What a subquery may look like: of the outer row or not.
Linked == {<<>>, <<Fn("=", <<Dot("u", "k"), Dot("t", "k")>>)>>,
           <<Fn("=", <<Dot("t", "v"), Dot("u", "w")>>), Fn("<", <<Lit(0), Name("w")>>)>>,
           <<Fn("<", <<Dot("u", "k"), Dot("t", "k")>>)>>}
Inner(item) == {Select(Relation1("u"), w, <<Item(item)>>) : w \in Linked}
Limited(q) == [q EXCEPT !.limit = 1, !.order = <<By(Name("w"), FALSE), By(Name("k"), FALSE)>>]
Inners == Inner(Name("k")) \cup Inner(Name("w")) \cup Inner(Agg("count star", <<>>)) \cup Inner(Agg("max", <<Name("w")>>))
          \cup Inner(Fn("coalesce", <<Agg("sum", <<Name("w")>>), Lit(0)>>))
          \cup {[q EXCEPT !.group = <<Name("k")>>] : q \in Inner(Agg("count star", <<>>))}
          \cup {[q EXCEPT !.distinct = TRUE] : q \in Inner(Name("w"))}
          \cup {Limited(q) : q \in Inner(Name("w"))}
Outer(where, items) == Select(Relation1("t"), where, items)
KV == <<Item(Name("k")), Item(Name("v"))>>
Existing == {Outer(<<Exists(q, n)>>, KV) : q \in Inners, n \in BOOLEAN}
Memberships == {Outer(<<InQuery(Name(c), q, n)>>, KV) : c \in {"k", "v"}, q \in Inners, n \in BOOLEAN}
Comparisons == {Outer(<<c>>, KV) :
                  c \in {Ranked(Name("v"), o, q, all) : o \in {"=", "<", ">=", "<>"}, all \in BOOLEAN,
                           q \in {x \in Inners : x.where = <<>>} \cup Inner(Agg("max", <<Name("w")>>)) \cup Inner(Name("k"))}
                        \cup {Fn("not", <<Ranked(Name("k"), o, q, all)>>) : o \in {"<", ">="}, all \in BOOLEAN, q \in Inner(Name("k"))}}
Scalars == {Outer(<<>>, <<Item(Name("k")), Item(Scalar1(q))>>) : q \in Inners}
           \cup {Outer(<<Fn(o, <<Name("v"), Scalar1(q)>>)>>, KV) : o \in {"=", "<"}, q \in Inners}

\* Groups and what is asked of them; names for what is grouped, asked and sorted by.
Countable == {Agg("count star", <<>>), Agg("sum", <<Name("v")>>), Agg("count", <<Dot("t", "v")>>)}
Ofk(item) == Select(Relation1("u"), <<Fn("=", <<Dot("u", "k"), Dot("t", "k")>>)>>, <<Item(item)>>)
Singles == {Select(Relation1("u"), <<>>, <<Item(Agg("max", <<Name("w")>>))>>), Ofk(Agg("count star", <<>>)), Ofk(Name("w"))}
ByCount == <<By(Name("n"), TRUE), By(Name("k"), FALSE)>>
ByK(g) == {[Outer(<<>>, <<Item(Name("k")), As(c, "n")>> \o more) EXCEPT !.group = <<g>>, !.having = h, !.order = o] :
             c \in Countable, o \in {<<>>, ByCount, <<By(Agg("max", <<Name("v")>>), FALSE), By(Lit(1), FALSE)>>},
             more \in IF g = Lit(1) THEN {<<>>} ELSE {<<>>, <<Item(Scalar1(Ofk(Agg("count star", <<>>))))>>},
             h \in {<<>>, <<Fn("<", <<Name("n"), Lit(2)>>)>>}
                   \cup {<<Fn("<=", <<Agg("count star", <<>>), Scalar1(q)>>)>> : q \in IF g = Lit(1) THEN {} ELSE Singles}}
Aliases == {[Outer(w, <<As(Fn("+", <<Name("v"), Lit(1)>>), n), Item(Agg("count star", <<>>))>>) EXCEPT !.group = <<Name(n)>>] :
              n \in {"n", "w"}, w \in {<<>>, <<Fn("<", <<Name("k"), Lit(3)>>)>>, <<Fn("<", <<Name("k"), Lit(0)>>)>>}}
           \cup {Outer(w, <<Item(c), Item(Scalar1(q))>>) :
                   c \in Countable, q \in Singles \ {Ofk(Agg("count star", <<>>)), Ofk(Name("w"))}, w \in {<<>>, <<Fn("<", <<Name("k"), Lit(0)>>)>>}}
Ask(f, xs) == [is |-> f, args |-> xs]
Sets == {[Outer(w, <<Item(Name("k")), Item(Dot("t", "v")), Item(c), Item(Ask("grouping", <<Name("v"), Dot("t", "k")>>))>>) EXCEPT !.sets = s, !.having = h] :
           c \in Countable, w \in {<<>>, <<Fn("<", <<Name("k"), Lit(0)>>)>>},
           s \in {<<<<Name("k"), Name("v")>>, <<Dot("t", "k")>>, <<>>>>, <<<<Name("v")>>, <<Dot("t", "k")>>, <<Name("v")>>>>},
           h \in {<<>>, <<Fn("<", <<Ask("grouping", <<Name("k")>>), Lit(1)>>)>>, <<Fn("is null", <<Name("k")>>)>>}}

\* Joins, and conditions that may or may not be asked before them.
Derived == [is |-> "query", alias |-> "d",
            query |-> [Select(Relation1("u"), <<>>, <<Item(Name("k")), As(Agg("max", <<Name("w")>>), "w")>>) EXCEPT !.group = <<Name("k")>>]]
Joining(kind, r, on) == [is |-> "join", kind |-> kind, left |-> Relation1("t"), right |-> r, on |-> on]
Ons(r) == {<<>>, <<Fn("=", <<Dot(r, "k"), Dot("t", "k")>>)>>, <<Fn("=", <<Dot("t", "k"), Dot(r, "k")>>), Fn("<", <<Name("v"), Name("w")>>)>>,
           <<Fn("=", <<Name("v"), Lit(2)>>), Fn("=", <<Fn("+", <<Name("w"), Lit(1)>>), Dot("t", "k")>>)>>, <<Fn("or", <<Fn("<", <<Name("v"), Name("w")>>), Fn("is null", <<Dot(r, "k")>>)>>)>>}
Joins(r) ==
    {Select(Joining(kind, IF r = "u" THEN Relation1("u") ELSE Derived, on), w, <<[expr |-> [is |-> "star", args |-> <<>>], alias |-> ""]>>) :
            kind \in {"inner", "left", "right", "full"}, on \in Ons(r),
            w \in {<<>>, <<Fn("=", <<Name("v"), Lit(2)>>)>>, <<Fn("is null", <<Name("w")>>)>>,
                   <<Fn("is null", <<Name("v")>>), Fn("<", <<Fn("coalesce", <<Name("w"), Lit(0)>>), Lit(1)>>)>>,
                   <<Exists(Select([Relation1("u") EXCEPT !.alias = "x"], <<Fn("=", <<Dot("x", "k"), Dot("t", "k")>>)>>, <<Item(Dot("x", "w"))>>), TRUE)>>,
                   <<Fn("<", <<Dot("t", "k"), Lit(3)>>), Fn("<", <<Name("w"), Name("v")>>)>>}}

\* What is returned, sorted, told apart and cut.
ByV == {<<By(Name("v"), FALSE)>>, <<By(Name("v"), TRUE), By(Lit(1), FALSE)>>, <<By(Fn("+", <<Name("k"), Name("v")>>), FALSE), By(Name("k"), FALSE)>>,
        <<By(Name("n"), TRUE)>>, <<>>}
Slices == {<<-1, 0>>, <<2, 0>>, <<1, 1>>, <<-1, 2>>, <<0, 0>>}
Arrangements == {[Outer(<<>>, items) EXCEPT !.distinct = one[1], !.on = one[2], !.order = o, !.limit = c[1], !.offset = c[2]] :
                   items \in {<<Item(Name("k")), As(Name("v"), "n")>>, <<As(Name("k"), "n")>>, <<As(Name("v"), "k"), As(Lit(1), "n")>>},
                   one \in {<<FALSE, <<>>>>, <<TRUE, <<>>>>, <<FALSE, <<Name("k")>>>>, <<FALSE, <<Fn("is null", <<Name("v")>>)>>>>}, o \in ByV, c \in Slices}
Inner2 == Select(Relation1("u"), <<>>, <<Item(Name("k"))>>)
Combined == {[is |-> "set", left |-> l, right |-> r, kind |-> kind, all |-> all, order |-> o, limit |-> c[1], offset |-> c[2]] :
               l \in {Outer(<<>>, <<Item(Name("k"))>>)}, r \in {Inner2, [Inner2 EXCEPT !.distinct = TRUE]},
               kind \in {"union", "intersect", "except"}, all \in BOOLEAN,
               o \in {<<>>, <<By(Lit(1), TRUE)>>}, c \in Slices}

\* SELECT * keeps NOT NULL, which decides between two joins.
Everything == Select(Relation1("u"), <<>>, <<Item([is |-> "star", args |-> <<>>])>>)
Stars(x) == {Outer(<<c>>, KV) : c \in {InQuery(x, Everything, n) : n \in BOOLEAN} \cup {Ranked(x, "<>", Everything, TRUE)}}
OneColumn(nullable) == {[columns |-> <<Columned("w", nullable)>>, rows |-> r] :
                          r \in {<<>>, <<<<2>>, <<0>>>>} \cup IF nullable THEN {<<<<Nil>>, <<2>>>>} ELSE {}}
WithoutNulls == Fn("coalesce", <<Name("v"), Lit(3)>>)
StarPlans == {Asked(Stars(Name("v")), OneColumn(FALSE)), Asked(Stars(Name("k")), OneColumn(FALSE))}

Queried == {Asked(qs, TablesU) : qs \in {Existing, Memberships, Comparisons, Scalars, ByK(Name("k")), ByK(Lit(1)), Aliases,
                                         Sets, Joins("u"), Joins("d"), Arrangements, Combined}}
           \cup {Asked(Stars(Name("v")), OneColumn(TRUE)), Asked(Stars(WithoutNulls), OneColumn(FALSE))}
\* The rows of u with the same k have one that no row of t has, or no row of t is asked for.
Unasked == {Asked({Outer(<<>>, <<Item(Name("k")), Item(Scalar1(Ofk(Name("w"))))>>)},
                  {[columns |-> <<Columned("k", TRUE), Columned("w", FALSE)>>, rows |-> <<<<4, 1>>, <<4, 2>>>>]}),
            Asked({Outer(<<Fn("<", <<Name("k"), Lit(0)>>)>>, <<Item(Scalar1(Ofk(Name("w"))))>>)}, TablesU)}
UnreachedPlans == {Over(GuardedProducts)} \cup Unasked

\* Sentences of SQL: read as they are meant, at the limits of the parser, and refused.
Sentence(tree, depth, links) ==
    [op |-> "parse", words |-> Sql!Written(tree), means |-> Sql!Meant(tree), nests |-> Sql!Nesting(tree), links |-> Sql!LinksOf(tree),
     maxDepth |-> depth, maxLinks |-> links, refused |-> "", worth |-> <<>>, input |-> Alone(<<>>)]
Read(trees) == {Sentence(tree, Sql!MaxDepth, Sql!MaxLinks) : tree \in trees}
MeasuredSentences ==
    {Sentence(tree, Sql!Nesting(tree) - m, Sql!LinksOf(tree)) : tree \in Sql!Measured, m \in {0, 1}}
    \cup {Sentence(tree, Sql!MaxDepth, Sql!LinksOf(tree) - 1) : tree \in {t \in Sql!Measured : Sql!LinksOf(t) > 0}}
RefusedSentences ==
    UNION {{[op |-> "parse", words |-> w, means |-> <<>>, nests |-> 0, links |-> 0, maxDepth |-> Sql!MaxDepth, maxLinks |-> Sql!MaxLinks,
             refused |-> code, worth |-> <<>>, input |-> Alone(<<>>)] : w \in Sql!Refused[code]} : code \in DOMAIN Sql!Refused}
SpeltOut == {[Sentence(Sql!InStatement(Sql!Leafed(CHOOSE f \in Sql!ExpressionForms : f.words = [i \in DOMAIN c[1] |->
                        CASE c[1][i] = "a" -> "$1" [] c[1][i] = "b" -> "$2" [] OTHER -> c[1][i]])), Sql!MaxDepth, 0)
              EXCEPT !.worth = [v \in Sql!Truths \X Sql!Truths |-> Sql!Is(v \in c[2])]] : c \in Sql!Conditions}
ParsePlans == {Read(Sql!Expressions), Read(Sql!PairedExpressions), Read(Sql!Queries), Read(Sql!PairedQueries), Read(Sql!Subqueries), Read(Sql!Statements),
               MeasuredSentences, RefusedSentences, SpeltOut}

\* Parquet files.
Filed(files) == {[op |-> "parquet", file |-> f, input |-> Alone(<<>>)] : f \in files}
FilePlans ==
    {Filed(Parquet!EveryKind), Filed(Parquet!WaysPlans), Filed(Parquet!Liberties), Filed(Parquet!LongRuns), Filed(Parquet!Probes),
     Filed(Parquet!HarmedPlans), Filed(Parquet!CopiedTypes), Filed(Parquet!CopiedTexts), Filed(Parquet!CopiedRuns),
     Filed(Parquet!RefusedCopies), Filed(Parquet!UnknownAnywhere), Filed(Parquet!CutShort), Filed(Parquet!DeepPlans),
     Filed(Parquet!ScannedTogether), Filed(Parquet!ScannedWider)}
    \cup {Filed(Parquet!Scanned(kind)) : kind \in Parquet!OrderedKinds}
    \cup {Filed(Parquet!NestedPlans(name)) : name \in DOMAIN Parquet!Shapes}

Called(calls) == {[op |-> "json", call |-> c, input |-> Alone(<<>>)] : c \in calls}
JsonPlans ==
    {Called(Texts!DeepDocuments), Called(Texts!HarmedDocuments), Called(Texts!BareCalls), Called(Texts!PlaceCalls),
     Called(Texts!SliceCalls), Called(Texts!ArrangeCalls), Called(Texts!FindCalls), Called(Texts!OrderCalls),
     Called(Texts!ConcatCalls), Called(Texts!MapCalls)}
    \cup {Called(Texts!PathCalls(way)) : way \in DOMAIN Texts!Ways}

\* The plans of two runs: operators that go on for several steps, and programs,
\* queries, sentences and files, for which there is another way to say what
\* they mean.
MCPlans ==
  LET all == {JoinPlans, NotInPlans, StreamPlans, SortPlans, SetPlans, AggregatePlans, WindowPlans, RecursivePlans,
              AnyText, PaddedTexts, LineTexts, WrittenTexts, JsonTexts, WrittenJson,
              StatementPlans, DropPlans, AnyPattern, LoopPatterns, Replacements, SmallPrograms}
  IN  all
MCTranslations ==
  LET all == {Over(Logic), Over(Nested), Over(Coalesced), Over(Cases), Over(Listed), Over(Products), Wheres, Narrow}
             \cup Queried \cup ParsePlans \cup FilePlans \cup JsonPlans
  IN  all
=============================================================================
