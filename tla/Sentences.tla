------------------------------ MODULE Sentences ------------------------------
(***************************************************************************)
(* What SQL text means, said without a parser: a form has a level on the   *)
(* ladder of binding strengths, words with holes $1, $2, ... and the tree  *)
(* it stands for.  A tree of forms is written by writing each child in its *)
(* hole, in parentheses when the child binds more loosely than the hole    *)
(* asks for.  The parser must read what is written as what is meant.       *)
(***************************************************************************)
EXTENDS Grammar

Holes == "$1" :> 1 @@ "$2" :> 2 @@ "$3" :> 3
HoleWords == {"$1", "$2", "$3"}
H(k) == Word1("$" \o ToString(k))
RECURSIVE Filled(_, _)
Filled(ast, kids) == IF ast.is \in HoleWords THEN kids[Holes[ast.is]]
                     ELSE [ast EXCEPT !.of = [i \in DOMAIN @ |-> Filled(@[i], kids)] \o <<>>]

\* A hole is read where it stands (the left operand of an infix form), by a call of
\* its own, as a query, or as the operand of a set operation.
Hole(kind, level) == [kind |-> kind, level |-> level]
Here(level) == Hole("here", level)
Anew(level) == Hole("anew", level)
AsQuery == Hole("query", 0)
Operand1(level) == Hole("operand", level)
Form(level, words, holes, means) == [level |-> level, words |-> words, holes |-> holes, means |-> means]
Tree(form, kids) == [form |-> form, kids |-> kids]

\* What is written, what is meant, and how many calls of expr_bp and query_stmt are
\* open at once beside the one that reads it.
Bracketed(tree, k) == tree.kids[k].form.level < tree.form.holes[k].level
InParentheses(words) == <<"(">> \o words \o <<")">>
RECURSIVE Written(_), Meant(_), Nesting(_), LinksOf(_)
Child(tree, k) == IF Bracketed(tree, k) THEN InParentheses(Written(tree.kids[k])) ELSE Written(tree.kids[k])
Written(tree) == FlattenSeq([i \in DOMAIN tree.form.words |->
                     LET w == tree.form.words[i] IN IF w \in HoleWords THEN Child(tree, Holes[w]) ELSE <<w>>])
\* The operand of a set operation is the body of the query; one in parentheses with
\* a tail or CTEs of its own is a derived table.
BodyMeant(q) == IF q.of[1].of = <<>> /\ q.of[3] = ListOf(<<>>) /\ q.of[4] = None /\ q.of[5] = None THEN q.of[2]
                ELSE SelectStar(Ast("subquery", <<q, None>>))
Meant(tree) ==
    Filled(tree.form.means, [k \in DOMAIN tree.kids |->
        IF tree.form.holes[k].kind = "operand"
        THEN BodyMeant(Meant(tree.kids[k]))
        ELSE Meant(tree.kids[k])])
Nesting(tree) ==
    Max({0} \cup {Nesting(tree.kids[k]) + (IF tree.form.holes[k].kind \in {"anew", "query"} THEN 1 ELSE 0)
                                        + (IF Bracketed(tree, k) THEN 1 ELSE 0) : k \in DOMAIN tree.kids})
LinksOf(tree) == FoldLeft(LAMBDA n, kid : n + LinksOf(kid),
                          Len(SelectSeq(tree.form.words, LAMBDA w : w \in {"union", "intersect", "except", "join"})), tree.kids)
----------------------------------------------------------------------------
\* Forms of expressions.
Column(n) == Ast("column", <<None, Word1(n)>>)
Name_(n) == Form(13, <<n>>, <<>>, Column(n))
BinaryForm(op, level) == Form(level, <<"$1", op, "$2">>, <<Here(level), Anew(level + 1)>>, Ast(op, <<H(1), H(2)>>))
CallForm(op, level, f) == Form(level, <<"$1", op, "$2">>, <<Here(level), Anew(level + 1)>>, Call(f, <<H(1), H(2)>>))
LikeForm(op, negated, ci) == Form(7, <<"$1", op, "$2">>, <<Here(7), Anew(8)>>, Ast("like", <<H(1), negated, ci, H(2)>>))
BinaryForms ==
    {BinaryForm(p[1], p[2]) : p \in {<<"or", 1>>, <<"and", 2>>, <<"=", 5>>, <<"<>", 5>>, <<"<", 5>>, <<"<=", 5>>, <<">", 5>>, <<">=", 5>>,
        <<"||", 7>>, <<"+", 8>>, <<"-", 8>>, <<"*", 9>>, <<"/", 9>>, <<"//", 9>>, <<"%", 9>>}}
    \cup {CallForm(p[1], p[2], p[3]) : p \in {<<"&", 7, "bit_and">>, <<"|", 7, "bit_or">>, <<"<<", 7, "bit_shift_left">>,
        <<">>", 7, "bit_shift_right">>, <<"^", 10, "pow">>, <<"~", 7, "regexp_full_match">>, <<"^@", 7, "starts_with">>,
        <<"~~~", 7, "glob">>, <<"->", 7, "json_extract">>, <<"->>", 7, "json_extract_string">>}}
    \cup {LikeForm("~~", No, No), LikeForm("!~~", Yes, No), LikeForm("~~*", No, Yes), LikeForm("!~~*", Yes, Yes),
          Form(7, <<"$1", "!~", "$2">>, <<Here(7), Anew(8)>>, Not(Call("regexp_full_match", <<H(1), H(2)>>)))}
PrefixForms ==
    {Form(3, <<"not", "$1">>, <<Anew(3)>>, Not(H(1))),
     Form(12, <<"-", "$1">>, <<Anew(12)>>, Ast("minus", <<H(1)>>)), Form(12, <<"+", "$1">>, <<Anew(12)>>, H(1)),
     Form(7, <<"~", "$1">>, <<Anew(8)>>, Call("bit_not", <<H(1)>>)), Form(7, <<"@", "$1">>, <<Anew(8)>>, Call("abs", <<H(1)>>)),
     Form(12, <<"-", "5">>, <<>>, Ast("negative int", <<Word1("5")>>)),
     Form(12, <<"-", "5", "::", "int">>, <<>>, Ast("minus", <<Ast("cast", <<Ast("int", <<Word1("5")>>), Ast("type", <<Word1("int")>>)>>)>>))}
Postfixed(level, words, means) == Form(level, <<"$1">> \o words, <<Here(level)>>, means)
PostfixForms ==
    {Postfixed(4, w, IsNull(H(1), No)) : w \in {<<"is", "null">>, <<"is", "unknown">>, <<"isnull">>}}
    \cup {Postfixed(4, w, IsNull(H(1), Yes)) : w \in {<<"is", "not", "null">>, <<"is", "not", "unknown">>, <<"notnull">>}}
    \cup {Postfixed(4, <<"is", truth>>, IsTruth(H(1), No, Word1(truth))) : truth \in {"true", "false"}}
    \cup {Postfixed(4, <<"is", "not", truth>>, IsTruth(H(1), Yes, Word1(truth))) : truth \in {"true", "false"}}
    \cup {Postfixed(11, <<"!">>, Call("factorial", <<H(1)>>)),
          Postfixed(11, <<"!", "::", "int">>, Ast("cast", <<Call("factorial", <<H(1)>>), Ast("type", <<Word1("int")>>)>>)),
          Postfixed(13, <<"::", "int">>, Ast("cast", <<H(1), Ast("type", <<Word1("int")>>)>>)),
          Postfixed(13, <<"[", ":", "]">>, Call("list_slice", <<H(1), FirstElement, LastElement>>)),
          Form(13, <<"$1", "[", "$2", "]">>, <<Here(13), Anew(0)>>, Call("list_extract", <<H(1), H(2)>>)),
          Form(13, <<"$1", "[", "$2", ":", "]">>, <<Here(13), Anew(0)>>, Call("list_slice", <<H(1), H(2), LastElement>>)),
          Form(13, <<"$1", "[", ":", "$2", "]">>, <<Here(13), Anew(0)>>, Call("list_slice", <<H(1), FirstElement, H(2)>>)),
          Form(13, <<"$1", "[", "$2", ":", "$3", "]">>, <<Here(13), Anew(0), Anew(0)>>, Call("list_slice", <<H(1), H(2), H(3)>>))}
PredicateForms ==
    {Form(4, <<"$1", "is", "distinct", "from", "$2">>, <<Here(4), Anew(5)>>, DistinctFrom(H(1), No, H(2))),
     Form(4, <<"$1", "is", "not", "distinct", "from", "$2">>, <<Here(4), Anew(5)>>, DistinctFrom(H(1), Yes, H(2))),
     Form(5, <<"$1", "=", "any", "(", "$2", ")">>, <<Here(5), AsQuery>>, Ast("quantified", <<H(1), Word1("="), No, H(2)>>)),
     Form(5, <<"$1", "<", "all", "(", "$2", ")">>, <<Here(5), AsQuery>>, Ast("quantified", <<H(1), Word1("<"), Yes, H(2)>>)),
     Form(6, <<"$1", "glob", "$2">>, <<Here(6), Anew(7)>>, Call("glob", <<H(1), H(2)>>)),
     Form(6, <<"$1", "similar", "to", "$2">>, <<Here(6), Anew(7)>>, Call("regexp_full_match", <<H(1), H(2)>>)),
     Form(6, <<"$1", "not", "similar", "to", "$2">>, <<Here(6), Anew(7)>>, Not(Call("regexp_full_match", <<H(1), H(2)>>))),
     Form(6, <<"$1", "in", "(", "$2", ",", "$3", ")">>, <<Here(6), Anew(0), Anew(0)>>, Ast("in list", <<H(1), No, ListOf(<<H(2), H(3)>>)>>)),
     Form(6, <<"$1", "not", "in", "(", "$2", ")">>, <<Here(6), Anew(0)>>, Ast("in list", <<H(1), Yes, ListOf(<<H(2)>>)>>)),
     Form(6, <<"$1", "not", "in", "(", "$2", ")">>, <<Here(6), AsQuery>>, Ast("in query", <<H(1), Yes, H(2)>>)),
     Form(6, <<"$1", "between", "$2", "and", "$3">>, <<Here(6), Anew(7), Anew(7)>>, Ast("between", <<H(1), No, H(2), H(3)>>)),
     Form(6, <<"$1", "not", "between", "$2", "and", "$3">>, <<Here(6), Anew(7), Anew(7)>>, Ast("between", <<H(1), Yes, H(2), H(3)>>)),
     Form(6, <<"$1", "like", "$2">>, <<Here(6), Anew(7)>>, Ast("like", <<H(1), No, No, H(2)>>)),
     Form(6, <<"$1", "not", "ilike", "$2">>, <<Here(6), Anew(7)>>, Ast("like", <<H(1), Yes, Yes, H(2)>>)),
     Form(6, <<"$1", "like", "$2", "escape", "'$'">>, <<Here(6), Anew(7)>>,
          Call("like_escape", <<H(1), H(2), Ast("string", <<Word1("$")>>)>>)),
     Form(6, <<"$1", "not", "ilike", "$2", "escape", "'$'">>, <<Here(6), Anew(7)>>,
          Not(Call("like_escape", <<Call("lower", <<H(1)>>), Call("lower", <<H(2)>>), Ast("string", <<Word1("$")>>)>>)))}
AtomForms ==
    {Form(13, <<"cast", "(", "$1", "as", "int", ")">>, <<Anew(0)>>, Ast("cast", <<H(1), Ast("type", <<Word1("int")>>)>>)),
     Form(13, <<"try_cast", "(", "$1", "as", "text", ")">>, <<Anew(0)>>, Ast("try", <<Ast("cast", <<H(1), Ast("type", <<Word1("varchar")>>)>>)>>)),
     Form(13, <<"case", "when", "$1", "then", "$2", "else", "$3", "end">>, <<Anew(0), Anew(0), Anew(0)>>,
          Ast("case", <<None, ListOf(<<Ast("when", <<H(1), H(2)>>)>>), H(3)>>)),
     Form(13, <<"case", "$1", "when", "$2", "then", "$3", "end">>, <<Anew(0), Anew(0), Anew(0)>>,
          Ast("case", <<H(1), ListOf(<<Ast("when", <<H(2), H(3)>>)>>), None>>)),
     Form(13, <<"iif", "(", "$1", ",", "$2", ",", "$3", ")">>, <<Anew(0), Anew(0), Anew(0)>>,
          Ast("case", <<None, ListOf(<<Ast("when", <<H(1), H(2)>>)>>), H(3)>>)),
     Form(13, <<"if", "(", "$1", ",", "$2", ",", "b", ")">>, <<Anew(0), Anew(0)>>,
          Ast("case", <<None, ListOf(<<Ast("when", <<H(1), H(2)>>)>>), Column("b")>>)),
     Form(13, <<"exists", "(", "$1", ")">>, <<AsQuery>>, Ast("exists", <<H(1), No>>)),
     Form(12, <<"not", "exists", "(", "$1", ")">>, <<AsQuery>>, Ast("exists", <<H(1), Yes>>)),
     Form(13, <<"(", "$1", ")">>, <<AsQuery>>, Ast("scalar query", <<H(1)>>)),
     Form(13, <<"[", "$1", ",", "$2", "]">>, <<Anew(0), Anew(0)>>, Call("list_value", <<H(1), H(2)>>)),
     Form(13, <<"f", "(", "$1", ",", "$2", ")">>, <<Anew(0), Anew(0)>>, Call("f", <<H(1), H(2)>>)),
     Form(13, <<"sum", "(", "distinct", "$1", ")">>, <<Anew(0)>>, Ast("call", <<Word1("sum"), Yes, ListOf(<<H(1)>>), None>>)),
     Form(13, <<"sum", "(", "$1", ")", "filter", "(", "where", "$2", ")">>, <<Anew(0), Anew(0)>>,
          Ast("call", <<Word1("sum"), No, ListOf(<<H(1)>>), H(2)>>)),
     Form(13, <<"sum", "(", "$1", ")", "over", "(", "partition", "by", "$2", "order", "by", "$3", "desc", ")">>, <<Anew(0), Anew(0), Anew(0)>>,
          Ast("window", <<Word1("sum"), No, ListOf(<<H(1)>>), None,
                          Ast("window definition", <<ListOf(<<H(2)>>), ListOf(<<Ast("order item", <<H(3), Yes, No>>)>>)>>)>>)),
     Form(13, <<"count", "(", "*", ")", "over", "w">>, <<>>, Ast("window", <<Word1("count"), No, Word1("*"), None, Word1("w")>>)),
     Form(13, <<"left", "(", "$1", ",", "$2", ")">>, <<Anew(0), Anew(0)>>, Call("left", <<H(1), H(2)>>)),
     Form(13, <<"replace", "(", "$1", ",", "$2", ")">>, <<Anew(0), Anew(0)>>, Call("replace", <<H(1), H(2)>>)),
     Form(13, <<"unnest", "(", "$1", ")">>, <<Anew(0)>>, Ast("unnest", <<H(1)>>)),
     Form(13, <<"position", "(", "$1", "in", "$2", ")">>, <<Anew(7), Anew(0)>>, Call("strpos", <<H(2), H(1)>>)),
     Form(13, <<"trim", "(", "$1", "from", "$2", ")">>, <<Anew(0), Anew(0)>>, Call("trim", <<H(2), H(1)>>)),
     Form(13, <<"trim", "(", "leading", "$1", "from", "$2", ")">>, <<Anew(0), Anew(0)>>, Call("ltrim", <<H(2), H(1)>>)),
     Form(13, <<"trim", "(", "trailing", "from", "$1", ")">>, <<Anew(0)>>, Call("rtrim", <<H(1)>>)),
     Form(13, <<"substring", "(", "$1", "from", "$2", "for", "$3", ")">>, <<Anew(0), Anew(0), Anew(0)>>, Call("substring", <<H(1), H(2), H(3)>>)),
     Form(13, <<"substr", "(", "$1", "for", "$2", ")">>, <<Anew(0), Anew(0)>>, Call("substr", <<H(1), Ast("int", <<Word1("1")>>), H(2)>>)),
     Form(13, <<"substring", "(", "$1", ",", "$2", ")">>, <<Anew(0), Anew(0)>>, Call("substring", <<H(1), H(2)>>)),
     Form(13, <<"extract", "(", "year", "from", "$1", ")">>, <<Anew(0)>>, Call("date_part", <<Ast("string", <<Word1("year")>>), H(1)>>)),
     Form(13, <<"list_transform", "(", "c", ",", "x", "->", "$1", ")">>, <<Anew(0)>>,
          Call("list_transform", <<Column("c"), Ast("lambda", <<ListOf(<<Word1("x")>>), H(1)>>)>>)),
     Form(13, <<"list_reduce", "(", "c", ",", "(", "x", ",", "v", ")", "->", "$1", ")">>, <<Anew(0)>>,
          Call("list_reduce", <<Column("c"), Ast("lambda", <<ListOf(<<Word1("x"), Word1("v")>>), H(1)>>)>>))}
\* Words that are keywords only where they can be nothing else, and what is no
\* keyword at all.
Atom_(words, means) == Form(13, words, <<>>, means)
Literal(is, v) == Ast(is, <<Word1(v)>>)
WordForms ==
    {Name_(n) : n \in {"over", "filter", "isnull", "unknown", "partition", "recursive", "grouping", "rollup", "interval", "date", "for", "leading",
                       "glob", "similar", "columns", "exclude", "sample"}}
    \cup {Atom_(<<"1.5">>, Literal("float", "1.5")), Atom_(<<"'x'">>, Literal("string", "x")), Atom_(<<"true">>, Literal("bool", "true")),
          Atom_(<<"null">>, Word1("null")), Atom_(<<"?">>, Literal("param", "0")), Atom_(<<"[", "]">>, Word1("empty array")),
          Atom_(<<"interval", "'3'", "day">>, Ast("interval", <<Word1("3"), Word1("day")>>)),
          Atom_(<<"interval", "'3 days'">>, Literal("interval", "3 days")), Atom_(<<"interval", "3", "day">>, Ast("interval", <<Word1("3"), Word1("day")>>)),
          Atom_(<<"date", "'2020-01-01'">>, Ast("temporal", <<Word1("date"), Word1("2020-01-01")>>)),
          Atom_(<<"a", ".", "b", ".", "c">>, Ast("column", <<Word1("a"), Word1("b"), Word1("c")>>)), Atom_(<<"\"over\"">>, Column("over")),
          Atom_(<<"count", "(", "*", ")">>, Ast("call", <<Word1("count"), No, Word1("*"), None>>)), Atom_(<<"f", "(", ")">>, Call("f", <<>>)),
          Atom_(<<"trim", "(", "leading", ")">>, Call("trim", <<Column("leading")>>)),
          Atom_(<<"substring", "(", "for", ",", "2", ")">>, Call("substring", <<Column("for"), Literal("int", "2")>>)),
          Atom_(<<"f", "(", "x", "->", "a", ")">>, Call("f", <<Call("json_extract", <<Column("x"), Column("a")>>)>>)),
          Atom_(<<"position", "(", "a", ",", "b", ")">>, Call("position", <<Column("a"), Column("b")>>)),
          Form(5, <<"a", "is", "null", "=", "b">>, <<>>, Ast("=", <<IsNull(Column("a"), No), Column("b")>>)),
          Form(5, <<"a", "<", "\"a\"">>, <<>>, Ast("<", <<Column("a"), Column("a")>>)),
          Form(5, <<"a", "=", "-", "b", "!">>, <<>>, Ast("=", <<Column("a"), Call("factorial", <<Ast("minus", <<Column("b")>>)>>)>>))}
    \cup {Form(13, <<"a", "::">> \o t[1], <<>>, Ast("cast", <<Column("a"), Ast("type", t[2])>>)) :
            t \in {<<<<"decimal">>, <<Word1("decimal"), Word1("18"), Word1("3")>>>>, <<<<"numeric", "(", "9", ")">>, <<Word1("decimal"), Word1("9"), Word1("0")>>>>,
                   <<<<"decimal", "(", "38", ",", "38", ")">>, <<Word1("decimal"), Word1("38"), Word1("38")>>>>, <<<<"varchar", "(", "9", ")">>, <<Word1("varchar")>>>>,
                   <<<<"float", "(", "24", ")">>, <<Word1("float")>>>>, <<<<"real", "(", "25", ")">>, <<Word1("double")>>>>,
                   <<<<"double", "precision">>, <<Word1("double")>>>>, <<<<"character", "varying", "(", "9", ")">>, <<Word1("varchar")>>>>,
                   <<<<"timestamp", "without", "time", "zone">>, <<Word1("timestamp")>>>>, <<<<"timestamp", "with", "time", "zone">>, <<Word1("timestamptz")>>>>,
                   <<<<"time", "without", "time", "zone">>, <<Word1("time")>>>>, <<<<"interval">>, <<Word1("interval")>>>>}}
----------------------------------------------------------------------------
\* Forms of queries: 0 with CTEs or a tail, 1 UNION and EXCEPT, 2 INTERSECT, 3 SELECT.
Item(e) == Ast("item", <<e, None>>)
From(n) == Ast("table", <<Word1(n), None>>)
Plain == [distinct |-> No, on |-> ListOf(<<>>), items |-> ListOf(<<Item(Column("a"))>>), from |-> From("t"), sample |-> None, where |-> None,
          group |-> None, having |-> None, windows |-> ListOf(<<>>), qualify |-> None, order |-> ListOf(<<>>), limit |-> None, offset |-> None]
SelectOf(s) == Ast("select", <<s.distinct, s.on, s.items, s.from, s.sample, s.where, s.group, s.having, s.windows, s.qualify, s.order, s.limit, s.offset>>)
Whole(body) == Ast("query", <<ListOf(<<>>), body, ListOf(<<>>), None, None>>)
Selects(words, holes, s) == Form(3, <<"select">> \o words, holes, Whole(SelectOf(s)))
Tailed(words, holes, s) == Form(0, <<"select", "a", "from", "t">> \o words, holes, Whole(SelectOf(s)))
FromForm(words, holes, from) == Selects(<<"a", "from">> \o words, holes, [Plain EXCEPT !.from = from])
Sets(sets) == Ast("grouping sets", [i \in DOMAIN sets |-> ListOf(sets[i])])
GroupForm(words, holes, group) == Selects(<<"a", "from", "t", "group", "by">> \o words, holes, [Plain EXCEPT !.group = group])
Join(kind, l, r, on) == Ast("join", <<l, Word1(kind), r, on>>)
ItemForm(words, holes, star) == Selects(words \o <<"from", "t">>, holes, [Plain EXCEPT !.items = ListOf(<<Item(star)>>)])
StarOf(exclude, replace, rename) == Ast("star", <<None, None, ListOf(exclude), ListOf(replace), ListOf(rename)>>)
Ordered(e, desc, first) == Ast("order item", <<e, desc, first>>)
SampleOf(method, n, unit) == Ast("sample", <<Word1(method), Word1(n), Word1(unit), None>>)
Seeded(method, n, unit, seed) == Ast("sample", <<Word1(method), Word1(n), Word1(unit), seed>>)
SimpleSelect == Selects(<<"$1", "from", "t">>, <<Anew(0)>>, [Plain EXCEPT !.items = ListOf(<<Item(H(1))>>)])
SetForm(op, level) == Form(level, <<"$1", op, "$2">>, <<Operand1(level), Operand1(level + 1)>>, Whole(Ast(op, <<H(1), No, H(2)>>)))
SetAllForm(op, level) == Form(level, <<"$1", op, "all", "$2">>, <<Operand1(level), Operand1(level + 1)>>, Whole(Ast(op, <<H(1), Yes, H(2)>>)))
QueryForms ==
    {SimpleSelect, Selects(<<"$1">>, <<Anew(0)>>, [Plain EXCEPT !.items = ListOf(<<Item(H(1))>>), !.from = None]),
     Selects(<<"distinct", "$1", ",", "$2", "from", "t">>, <<Anew(0), Anew(0)>>, [Plain EXCEPT !.distinct = Yes, !.items = ListOf(<<Item(H(1)), Item(H(2))>>)]),
     Selects(<<"distinct", "on", "(", "$1", ",", "$2", ")", "a", "from", "t">>, <<Anew(0), Anew(0)>>, [Plain EXCEPT !.on = ListOf(<<H(1), H(2)>>)]),
     Selects(<<"a", "from", "t", "where", "$1">>, <<Anew(0)>>, [Plain EXCEPT !.where = H(1)]),
     Selects(<<"a", "from", "t", "group", "by", "a", "having", "$1">>, <<Anew(0)>>, [Plain EXCEPT !.group = Ast("group by", <<Column("a")>>), !.having = H(1)]),
     Selects(<<"a", "from", "t", "qualify", "$1">>, <<Anew(0)>>, [Plain EXCEPT !.qualify = H(1)]),
     Selects(<<"a", "from", "t", "window", "w", "as", "(", "order", "by", "$1", ")", ",", "v", "as", "(", "partition", "by", "$2", ",", "$3", ")">>,
             <<Anew(0), Anew(0), Anew(0)>>,
             [Plain EXCEPT !.windows = ListOf(<<
                Ast("window", <<Word1("w"), Ast("window definition", <<ListOf(<<>>), ListOf(<<Ordered(H(1), No, No)>>)>>)>>),
                Ast("window", <<Word1("v"), Ast("window definition", <<ListOf(<<H(2), H(3)>>), ListOf(<<>>)>>)>>)>>)]),
     GroupForm(<<"$1", ",", "$2">>, <<Anew(0), Anew(0)>>, Ast("group by", <<H(1), H(2)>>)),
     GroupForm(<<"all">>, <<>>, Word1("all")),
     GroupForm(<<"rollup", "(", "$1", ",", "$2", ")">>, <<Anew(0), Anew(0)>>, Sets(<<<<H(1), H(2)>>, <<H(1)>>, <<>>>>)),
     GroupForm(<<"cube", "(", "$1", ",", "$2", ")">>, <<Anew(0), Anew(0)>>, Sets(<<<<H(1), H(2)>>, <<H(1)>>, <<H(2)>>, <<>>>>)),
     GroupForm(<<"grouping", "sets", "(", "(", "$1", ",", "$2", ")", ",", "(", ")", ")">>, <<Anew(0), Anew(0)>>, Sets(<<<<H(1), H(2)>>, <<>>>>)),
     GroupForm(<<"$1", ",", "rollup", "(", "$2", ")">>, <<Anew(0), Anew(0)>>, Sets(<<<<H(1), H(2)>>, <<H(1)>>>>)),
     GroupForm(<<"cube", "(", "$1", ")", ",", "rollup", "(", "$2", ")">>, <<Anew(0), Anew(0)>>,
               Sets(<<<<H(1), H(2)>>, <<H(1)>>, <<H(2)>>, <<>>>>)),
     GroupForm(<<"cube", ",", "grouping">>, <<>>, Ast("group by", <<Column("cube"), Column("grouping")>>)),
     Tailed(<<"order", "by", "$1", "desc", "nulls", "first", ",", "$2", "limit", "2", "offset", "3">>, <<Anew(0), Anew(0)>>,
            [Plain EXCEPT !.order = ListOf(<<Ordered(H(1), Yes, Yes), Ordered(H(2), No, No)>>), !.limit = Word1("2"), !.offset = Word1("3")]),
     Tailed(<<"order", "by", "all", "asc", "nulls", "last">>, <<>>, [Plain EXCEPT !.order = Ast("order by all", <<No, No>>)]),
     Tailed(<<"using", "sample", "3", "(", "bernoulli", ",", "-", "1", ")", "limit", "2">>, <<>>,
            [Plain EXCEPT !.sample = Seeded("bernoulli", "3", "rows", Ast("negative int", <<Word1("1")>>)), !.limit = Word1("2")]),
     Tailed(<<"tablesample", "system", "(", "100", "%", ")", "where", "$1", "offset", "2">>, <<Anew(0)>>,
            [Plain EXCEPT !.sample = SampleOf("system", "100", "percent"), !.where = H(1), !.offset = Word1("2")]),
     Form(0, <<"$1", "union", "$2", "order", "by", "$3", "limit", "2">>, <<Operand1(1), Operand1(2), Anew(0)>>,
          Ast("query", <<ListOf(<<>>), Ast("union", <<H(1), No, H(2)>>), ListOf(<<Ordered(H(3), No, No)>>), Word1("2"), None>>)),
     Form(0, <<"with", "q", "as", "(", "$1", ")", ",", "r", "as", "(", "$2", ")", "select", "$3", "from", "t", "offset", "1">>, <<AsQuery, AsQuery, Anew(0)>>,
          Ast("query", <<ListOf(<<Ast("cte", <<No, Word1("q"), ListOf(<<>>), H(1)>>), Ast("cte", <<No, Word1("r"), ListOf(<<>>), H(2)>>)>>),
                         SelectOf([Plain EXCEPT !.items = ListOf(<<Item(H(3))>>), !.offset = Word1("1")]), ListOf(<<>>), None, None>>)),
     Form(0, <<"with", "recursive", "q", "(", "b", ",", "c", ")", "as", "(", "$1", ")", "$2">>, <<AsQuery, Operand1(1)>>,
          Ast("query", <<ListOf(<<Ast("cte", <<Yes, Word1("q"), ListOf(<<Word1("b"), Word1("c")>>), H(1)>>)>>), H(2), ListOf(<<>>), None, None>>)),
     Form(0, <<"with", "recursive", "as", "(", "$1", ")", "select", "a", "from", "recursive">>, <<AsQuery>>,
          Ast("query", <<ListOf(<<Ast("cte", <<No, Word1("recursive"), ListOf(<<>>), H(1)>>)>>),
                         SelectOf([Plain EXCEPT !.from = From("recursive")]), ListOf(<<>>), None, None>>))}
    \cup {SetForm(op, 1) : op \in {"union", "except"}} \cup {SetForm("intersect", 2), SetAllForm("union", 1), SetAllForm("intersect", 2)}
IntOf(n) == Ast("int", <<Word1(n)>>)
Generated(kind, start, stop, step, alias, column) == Ast("series", <<Word1(kind), start, stop, step, alias, column>>)
File(path, format, alias) == Ast("file", <<Word1(path), Word1(format), alias>>)
FromForms ==
    {FromForm(<<"t">> \o c \o <<"u">>, <<>>, Join("cross", From("t"), From("u"), None)) : c \in {<<",">>, <<"cross", "join">>}}
    \cup {FromForm(<<"t">> \o j[1] \o <<"join", "u", "on", "$1">>, <<Anew(0)>>, Join(j[2], From("t"), From("u"), H(1))) :
            j \in {<<<<>>, "inner">>, <<<<"inner">>, "inner">>, <<<<"left">>, "left">>, <<<<"right", "outer">>, "right">>, <<<<"full", "outer">>, "full">>}}
    \cup {FromForm(<<"t", "left", "join", "u", "on", "$1", "join", "v", "on", "$2", ",", "w">>, <<Anew(0), Anew(0)>>,
                   Join("cross", Join("inner", Join("left", From("t"), From("u"), H(1)), From("v"), H(2)), From("w"), None)),
          FromForm(<<"(", "$1", ")", "as", "v">>, <<AsQuery>>, Ast("subquery", <<H(1), Word1("v")>>)),
          FromForm(<<"(", "$1", ")">>, <<AsQuery>>, Ast("subquery", <<H(1), None>>)),
          FromForm(<<"unnest", "(", "$1", ")", "as", "v", "(", "c", ")">>, <<Anew(0)>>, Ast("unnest", <<H(1), Word1("v"), Word1("c")>>)),
          FromForm(<<"unnest">>, <<>>, From("unnest")),
          FromForm(<<"range", "(", "5", ")">>, <<>>, Generated("range", IntOf("0"), IntOf("5"), IntOf("1"), None, None)),
          FromForm(<<"generate_series", "(", "-", "1", ",", "5", ")", "v">>, <<>>,
                   Generated("generate_series", Ast("negative int", <<Word1("1")>>), IntOf("5"), IntOf("1"), Word1("v"), None)),
          FromForm(<<"range", "(", "5", ",", "1", ",", "-", "2", ")", "v", "(", "c", ")">>, <<>>,
                   Generated("range", IntOf("5"), IntOf("1"), Ast("negative int", <<Word1("2")>>), Word1("v"), Word1("c"))),
          FromForm(<<"range">>, <<>>, From("range")),
          FromForm(<<"'f.csv'", "v">>, <<>>, File("f.csv", "csv", Word1("v"))), FromForm(<<"'x'">>, <<>>, File("x", "parquet", None)),
          FromForm(<<"read_parquet", "(", "'f.csv'", ")">>, <<>>, File("f.csv", "parquet", None)),
          FromForm(<<"read_json_auto", "(", "'x'", ")", "as", "left">>, <<>>, File("x", "json", Word1("left")))}
    \* A word is an alias unless something else may begin there.
    \cup {FromForm(<<"t">> \o a[1], <<>>, Ast("table", <<Word1("t"), Word1(a[2])>>)) :
            a \in {<<<<"v">>, "v">>, <<<<"as", "v">>, "v">>, <<<<"as", "order">>, "order">>, <<<<"\"over\"">>, "over">>, <<<<"using">>, "using">>,
                   <<<<"sample">>, "sample">>, <<<<"as", "tablesample">>, "tablesample">>, <<<<"as", "using">>, "using">>, <<<<"rows">>, "rows">>}}
    \cup {Selects(<<"a", "from", "t">> \o w[1], <<>>, [Plain EXCEPT !.sample = w[2]]) :
            w \in {<<<<"tablesample", "3">>, Seeded("reservoir", "3", "rows", None)>>, <<<<"tablesample", "3", "percent">>, Seeded("system", "3", "percent", None)>>,
                   <<<<"tablesample", "1.5", "rows">>, Seeded("reservoir", "1.5", "rows", None)>>,
                   <<<<"tablesample", "(", "3", "%", ")">>, SampleOf("system", "3", "percent")>>,
                   <<<<"tablesample", "bernoulli", "(", "1.5", "%", ")">>, SampleOf("bernoulli", "1.5", "percent")>>,
                   <<<<"using", "sample", "reservoir", "(", "3", ")">>, SampleOf("reservoir", "3", "rows")>>,
                   <<<<"using", "sample", "9", "%", "(", "system", ",", "3", ")">>, Seeded("system", "9", "percent", IntOf("3"))>>}}
ItemForms ==
    {Selects(<<"$1", "as", "v", ",", "$2", "w", ",", "$3", "as", "select", "from", "t">>, <<Anew(0), Anew(0), Anew(0)>>,
             [Plain EXCEPT !.items = ListOf(<<Ast("item", <<H(1), Word1("v")>>), Ast("item", <<H(2), Word1("w")>>), Ast("item", <<H(3), Word1("select")>>)>>)]),
     Selects(<<"?", ",", "$1", ",", "?", "from", "t">>, <<Anew(0)>>,
             [Plain EXCEPT !.items = ListOf(<<Item(Ast("param", <<Word1("0")>>)), Item(H(1)), Item(Ast("param", <<Word1("1")>>))>>)]),
     ItemForm(<<"*">>, <<>>, Star), ItemForm(<<"t", ".", "*">>, <<>>, Ast("star", <<Word1("t"), None, ListOf(<<>>), ListOf(<<>>), ListOf(<<>>)>>)),
     ItemForm(<<"*", "exclude", "a">>, <<>>, StarOf(<<Word1("a")>>, <<>>, <<>>)),
     ItemForm(<<"*", "exclude", "(", "a", ",", "b", ")", "replace", "(", "$1", "as", "c", ",", "$2", "as", "d", ")", "rename", "(", "u", "as", "v", ",", "v", "as", "u", ")">>,
              <<Anew(0), Anew(0)>>,
              StarOf(<<Word1("a"), Word1("b")>>, <<Ast("replacement", <<H(1), Word1("c")>>), Ast("replacement", <<H(2), Word1("d")>>)>>,
                     <<Ast("renaming", <<Word1("u"), Word1("v")>>), Ast("renaming", <<Word1("v"), Word1("u")>>)>>)),
     ItemForm(<<"*", "replace", "$1", "as", "c", "rename", "a", "as", "b">>, <<Anew(0)>>,
              StarOf(<<>>, <<Ast("replacement", <<H(1), Word1("c")>>)>>, <<Ast("renaming", <<Word1("a"), Word1("b")>>)>>)),
     ItemForm(<<"columns", "(", "*", "exclude", "a", ")">>, <<>>, Ast("star", <<None, Word1("all"), ListOf(<<Word1("a")>>), ListOf(<<>>), ListOf(<<>>)>>)),
     ItemForm(<<"columns", "(", "[", "'x'", ",", "'$'", "]", ")">>, <<>>, Ast("star", <<None, ListOf(<<Word1("x"), Word1("$")>>)>>)),
     Selects(<<"columns", "(", "'x'", ")", "as", "'$'">>, <<>>,
             [Plain EXCEPT !.items = ListOf(<<Ast("item", <<Ast("star", <<None, Word1("x")>>), Word1("$")>>)>>), !.from = None])}
\* Forms of statements.
TypeOf(n) == Ast("type", <<Word1(n)>>)
ColumnOf(n, type, options) == Ast("column def", <<Word1(n), type, ListOf(options)>>)
Alter(words, means) == Form(0, <<"alter", "table", "t">> \o words, <<>>, Ast("alter table", <<Word1("t"), means>>))
InsertForm(words, holes, columns, means) == Form(0, <<"insert", "into", "t">> \o words, holes, Ast("insert", <<Word1("t"), ListOf(columns), means>>))
CopyForm(words, holes, q, path, options) ==
    Form(0, <<"copy">> \o words, holes, Ast("copy", <<q, Word1(path), options>>))
PivotOf(from, on, in, using, group, order, limit) == Ast("pivot", <<from, on, in, ListOf(using), ListOf(group), ListOf(order), limit, None>>)
Named(e, name) == Ast("item", <<e, Word1(name)>>)
StatementForms ==
    {Form(0, <<"explain", "$1">>, <<AsQuery>>, Ast("explain", <<H(1)>>)),
     Form(0, <<"describe", "t", "join", "u", "on", "$1", ";">>, <<Anew(0)>>, Ast("describe", <<Join("inner", From("t"), From("u"), H(1))>>)),
     Form(0, <<"show", "tables">>, <<>>, Word1("show tables")),
     Form(0, <<"create", "table", "if", "not", "exists", "t", "(", "a", "int", "not", "null", "default", "$1", ",", "b", "decimal", "(", "9", ",", "2", ")",
               "default", "$2", "null", ")">>, <<Anew(7), Anew(7)>>,
          Ast("create table", <<No, Yes, Word1("t"),
              ListOf(<<ColumnOf("a", TypeOf("int"), <<Word1("not null"), Ast("default", <<H(1)>>)>>),
                       ColumnOf("b", Ast("type", <<Word1("decimal"), Word1("9"), Word1("2")>>), <<Ast("default", <<H(2)>>)>>)>>), None>>)),
     Form(0, <<"create", "or", "replace", "table", "t", "as", "$1">>, <<AsQuery>>,
          Ast("create table", <<Yes, No, Word1("t"), ListOf(<<>>), H(1)>>)),
     Form(0, <<"create", "view", "v", "as", "select", "a", "+", "b", "from", "t", ";">>, <<>>,
          Ast("create", <<No, Ast("create view", <<Word1("v"), Ast("text", <<Word1("select"), Word1("a"), Word1("+"), Word1("b"), Word1("from"), Word1("t")>>)>>)>>)),
     Form(0, <<"drop", "table", "t">>, <<>>, Ast("drop table", <<No, Word1("t")>>)),
     Form(0, <<"drop", "view", "if", "exists", "v">>, <<>>, Ast("drop view", <<Yes, Word1("v")>>)),
     Alter(<<"add", "column", "a", "int", "default", "5">>, Ast("add column", <<ColumnOf("a", TypeOf("int"), <<Ast("default", <<IntOf("5")>>)>>)>>)),
     Alter(<<"drop", "a">>, Ast("drop column", <<Word1("a")>>)), Alter(<<"rename", "to", "u">>, Ast("rename table", <<Word1("u")>>)),
     Alter(<<"rename", "column", "a", "to", "b">>, Ast("rename column", <<Word1("a"), Word1("b")>>)),
     Alter(<<"rename", "a", "to", "b">>, Ast("rename column", <<Word1("a"), Word1("b")>>)),
     InsertForm(<<"(", "a", ",", "b", ")", "values", "(", "$1", ",", "default", ")", ",", "(", "$2", ",", "$3", ")">>, <<Anew(0), Anew(0), Anew(0)>>,
                <<Word1("a"), Word1("b")>>, ListOf(<<ListOf(<<H(1), None>>), ListOf(<<H(2), H(3)>>)>>)),
     InsertForm(<<"$1">>, <<AsQuery>>, <<>>, H(1)), InsertForm(<<"(", "a", ")", "$1">>, <<AsQuery>>, <<Word1("a")>>, H(1)),
     InsertForm(<<"default", "values">>, <<>>, <<>>, Word1("default values")),
     Form(0, <<"update", "t", "set", "a", "=", "$1", ",", "b", "=", "$2", "where", "$3">>, <<Anew(0), Anew(0), Anew(0)>>,
          Ast("update", <<Word1("t"), ListOf(<<Ast("assignment", <<Word1("a"), H(1)>>), Ast("assignment", <<Word1("b"), H(2)>>)>>), H(3)>>)),
     Form(0, <<"delete", "from", "t", "where", "$1">>, <<Anew(0)>>, Ast("delete", <<Word1("t"), H(1)>>)),
     Form(0, <<"delete", "from", "t">>, <<>>, Ast("delete", <<Word1("t"), None>>)),
     CopyForm(<<"(", "$1", ")", "to", "'f.csv'", "(", "format", "csv", ")">>, <<AsQuery>>, H(1), "f.csv", Word1("csv")),
     CopyForm(<<"t", "to", "'f.parquet'">>, <<>>, Whole(SelectOf([Plain EXCEPT !.items = ListOf(<<Item(Star)>>)])), "f.parquet", None),
     Form(0, <<"pivot", "t", "on", "$1", "in", "(", "$2", "as", "v", ",", "$3", ")", "using", "sum", "(", "a", ")", "w", "group", "by", "b", "order", "by", "c", "limit", "2">>,
          <<Anew(7), Anew(0), Anew(0)>>,
          PivotOf(From("t"), H(1), ListOf(<<Named(H(2), "v"), Item(H(3))>>), <<Named(Call("sum", <<Column("a")>>), "w")>>, <<Column("b")>>,
                  <<Ordered(Column("c"), No, No)>>, Word1("2"))),
     Form(0, <<"pivot", "t", "on", "a", "using", "count", "(", "*", ")">>, <<>>,
          PivotOf(From("t"), Column("a"), None, <<Item(Ast("call", <<Word1("count"), No, Word1("*"), None>>))>>, <<>>, <<>>, None)),
     Form(0, <<"unpivot", "t", "on", "$1", ",", "b", "into", "name", "u", "value", "v", "offset", "1">>, <<Anew(0)>>,
          Ast("unpivot", <<From("t"), ListOf(<<H(1), Column("b")>>), Word1("u"), Word1("v"), ListOf(<<>>), None, Word1("1")>>)),
     Form(0, <<"unpivot", "t", "on", "a">>, <<>>,
          Ast("unpivot", <<From("t"), ListOf(<<Column("a")>>), Word1("name"), Word1("value"), ListOf(<<>>), None, None>>))}
\* What the parser refuses, and how.
InSelect(words) == <<"select">> \o words
Refused ==
    "UnsupportedFeature" :>
        ({InSelect(words) : words \in
            {<<"sum", "(", "distinct", "a", ")", "over", "w">>, <<"sum", "(", "a", ")", "filter", "(", "where", "b", ")", "over", "(", ")">>,
             <<"sum", "(", "a", ")", "over", "(", "order", "by", "b", "rows", "5", ")">>, <<"columns", "(", "*", ")", "+", "1">>, <<"columns", "(", "a", ")">>,
             <<"1", "+", "columns", "(", "*", ")">>, <<"t", ".", "columns", "(", "*", ")">>, <<"*", "columns", "(", "*", ")">>, <<"*", "like", "'x'">>,
             <<"a", "similar", "to", "b", "escape", "'x'">>, <<"a", "is", "b">>, <<"a", "is", "not", "in">>,
             <<"a", "from", "f", "(", "a", ")">>, <<"a", "from", "t", "tablesample", "3", "using", "sample", "3">>}}
         \cup {<<"with", "q", "(", "b", ")", "as", "(", "select", "a", ")", "select", "a", "from", "q">>,
               <<"create", "view", "v", "as", "select", "?">>, <<"pivot", "t", "on", "a", "order", "by", "all">>, <<"over">>,
               <<"select", "a", "from", "(", "pivot", "t", "on", "a", ")">>})
    @@ "SyntaxError" :>
        {InSelect(words) : words \in
            {<<"*", "exclude", "(", "a", ",", "b", ",", "a", ")", "from", "t">>, <<"*", "replace", "(", "a", "as", "b", ",", "c", "as", "b", ")", "from", "t">>,
             <<"*", "rename", "(", "a", "as", "b", ",", "a", "as", "c", ")", "from", "t">>, <<"*", "exclude", "a", "replace", "b", "as", "a", "from", "t">>,
             <<"*", "exclude", "a", "rename", "a", "as", "b", "from", "t">>, <<"*", "replace", "a", "as", "b", "rename", "b", "as", "c", "from", "t">>,
             <<"a", "window", "w", "as", "(", ")", ",", "w", "as", "(", ")">>, <<"a", "from", "t", "tablesample", "101", "%">>,
             <<"a", ".", "b", ".", "*">>, <<"interval", "'x'">>, <<"a", "like", "b", "escape", "'$$'">>}}
    @@ "UnexpectedToken" :>
        ({InSelect(words) : words \in
            {<<"a", "not", "is", "null">>, <<"-", "5", "[", "1", "]">>, <<"a", "b", "c">>, <<"case", "a", "end">>, <<"case", "when", "a", "end">>,
             <<"f", "(", "a", ",", ")">>, <<"(", "a">>, <<"a", ")">>, <<"a", "+">>, <<"a", "in", "b">>, <<"a", "between", "b">>, <<"a", "like", "b", "escape", "c">>,
             <<"a", "where", "b", "from", "t">>, <<"a", "limit", "2", "order", "by", "a">>, <<"a", "from", "t", "where", "b", "tablesample", "3">>,
             <<"a", "from", "t", "group", "by", "rollup">> \o <<"(", "a", ",", ")">>, <<"a", "from", "t", "join", "u">>, <<"iif", "(", "a", ",", "b", ")">>,
             <<"a", "union">>, <<"*", "replace", "(", "a", ")">>, <<"a", ";", ";">>}}
         \cup {<<"insert", "into", "t", "(", "a", ")", "default", "values">>, <<"drop", "t">>, <<"explain", "show", "tables">>, <<"unpivot", "t">>,
               <<"select", "a", "order", "by", "all", ",", "b">>})
    @@ "InvalidCast" :>
        {InSelect(<<"a", "::">> \o type) : type \in
            {<<"decimal", "(", "39", ")">>, <<"decimal", "(", "0", ")">>, <<"decimal", "(", "3", ",", "5", ")">>, <<"timestamp", "with", "zone">>,
             <<"time", "without", "time">>, <<"v">>}} \cup {InSelect(<<"date", "'x'">>)}
    @@ "WrongArgCount" :> {InSelect(<<"a", "from", "range", "(", ")">>), InSelect(<<"a", "from", "range", "(", "1", ",", "2", ",", "3", ",", "5", ")">>)}
    @@ "ExpressionTooDeep" :>
        {InSelect(<<"a", "from", "t", "group", "by">> \o group) : group \in
            {<<"cube", "(", "a", ",", "b", ",", "c", ",", "d", ",", "f", ",", "q", ",", "r", ",", "t", ",", "u", ")">>,
             <<"cube", "(", "a", ",", "b", ",", "c", ",", "d", ",", "f", ")", ",", "cube", "(", "a", ",", "b", ",", "c", ")", ",", "rollup", "(", "a", ")">>}}
----------------------------------------------------------------------------
\* Sentences: every form with names in its holes; each of some forms of every level
\* in each hole of another; the loosest form in every hole; every form under an
\* operator that binds tightly.
ExpressionForms == BinaryForms \cup PrefixForms \cup PostfixForms \cup PredicateForms \cup AtomForms \cup WordForms
InQuery(tree) == Tree(Form(0, <<"$1">>, <<AsQuery>>, H(1)), <<tree>>)
InStatement(tree) == InQuery(Tree(SimpleSelect, <<tree>>))
Letters == <<"a", "b", "c">>
Named_(k) == Tree(Name_(Letters[k]), <<>>)
Leafed(form) == Tree(form, [k \in DOMAIN form.holes |->
                    IF form.holes[k].kind \in {"here", "anew"} THEN Named_(k) ELSE Tree(SimpleSelect, <<Named_(k)>>)])
Grafted(form, k, kid) == [Leafed(form) EXCEPT !.kids[k] = kid]
HolesOf(form, kinds) == {k \in DOMAIN form.holes : form.holes[k].kind \in kinds}
ForExpressions == {"here", "anew"}
ForQueries == {"query", "operand"}
AmongForms(spelt) == LET forms == ExpressionForms IN {CHOOSE f \in forms : f.words = words : words \in spelt}
Spelt(words) == CHOOSE f \in AmongForms({words}) : TRUE
Ladder == AmongForms(
    {<<"$1", "or", "$2">>, <<"$1", "and", "$2">>, <<"not", "$1">>, <<"$1", "is", "null">>, <<"$1", "=", "$2">>, <<"$1", "=", "any", "(", "$2", ")">>,
     <<"$1", "between", "$2", "and", "$3">>, <<"$1", "not", "ilike", "$2">>, <<"~", "$1">>, <<"$1", "||", "$2">>, <<"$1", "-", "$2">>, <<"$1", "*", "$2">>,
     <<"$1", "^", "$2">>, <<"$1", "!">>, <<"-", "$1">>, <<"$1", "::", "int">>, <<"$1", "[", "$2", "]">>, <<"exists", "(", "$1", ")">>})
\* NOT before EXISTS is one node whatever follows it.
Misread(form, kid) == form.words[1] = "not" /\ kid.form.words[1] = "exists"
PairsOf(forms) == {g \in UNION {UNION {{Grafted(f, k, kid) : k \in HolesOf(f, ForExpressions)} : f \in forms} : kid \in {Leafed(f) : f \in forms}} :
                     \A k \in DOMAIN g.kids : ~Misread(g.form, g.kids[k])}
Pairs == PairsOf(Ladder)
Loosest == Leafed(Spelt(<<"$1", "or", "$2">>))
Tightly(form, forms) == {Grafted(form, k, Leafed(f)) : f \in forms, k \in 1 .. 2}
Holding(forms, kids, kinds) == UNION {UNION {{Grafted(f, k, kid) : k \in HolesOf(f, kinds)} : f \in forms} : kid \in kids}
Expressions == {InStatement(tree) : tree \in
    LET forms == ExpressionForms
    IN {Leafed(f) : f \in forms} \cup Holding(forms, {Loosest}, ForExpressions) \cup Tightly(Spelt(<<"$1", "*", "$2">>), forms \ Ladder)}
PairedExpressions == {InStatement(tree) : tree \in Pairs}
SelectForms == QueryForms \cup FromForms \cup ItemForms
Queries == {InQuery(tree) : tree \in {Leafed(f) : f \in SelectForms} \cup Holding(SelectForms, {Loosest}, ForExpressions)}
PairedQueries == {InQuery(tree) : tree \in Holding(SelectForms, {Leafed(f) : f \in {g \in QueryForms : g.level < 3}}, ForQueries)}
Subqueries == {InStatement(tree) : tree \in Holding(ExpressionForms, {Leafed(f) : f \in {g \in QueryForms : g.words[1] \in {"select", "with"}}}, ForQueries)}
Statements == {Leafed(f) : f \in StatementForms} \cup Holding(StatementForms, {Loosest}, ForExpressions)
              \cup Holding(StatementForms, {Leafed(f) : f \in {g \in QueryForms : g.level = 0 /\ g.words[1] = "with"}}, ForQueries)
\* Sentences of which it is known how deep they nest and how many links they have.
Deepening == AmongForms(
    {<<"$1", "or", "$2">>, <<"not", "$1">>, <<"$1", "=", "any", "(", "$2", ")">>, <<"$1", "between", "$2", "and", "$3">>, <<"$1", "*", "$2">>,
     <<"-", "$1">>, <<"$1", "[", "$2", "]">>, <<"exists", "(", "$1", ")">>})
Measured == {InStatement(tree) : tree \in PairsOf(Deepening)}
            \cup {InQuery(Leafed(SetForm(op, 1))) : op \in {"union", "except"}}
            \cup {InQuery(Grafted(SetForm("union", 1), k, Leafed(SetForm("intersect", 2)))) : k \in 1 .. 2}
            \cup {InQuery(Grafted(SetForm("intersect", 2), k, Leafed(SetForm("union", 1)))) : k \in 1 .. 2}
            \cup {InQuery(Grafted(SetForm("union", 1), 1, Leafed(f))) : f \in {g \in FromForms : "join" \in Range(g.words) /\ "," \notin Range(g.words) /\ g.holes # <<>>}}
----------------------------------------------------------------------------
\* What a condition is worth, of "true", "false" and "null", where its columns are.
Negated(v) == CASE v = "true" -> "false" [] v = "false" -> "true" [] OTHER -> v
Truths == {"true", "false", "null"}
Is(b) == IF b THEN "true" ELSE "false"
RECURSIVE Worth(_, _)
Worth(e, values) ==
    LET Of(k) == Worth(e.of[k], values)
        Args == [i \in DOMAIN e.of[3].of |-> Worth(e.of[3].of[i], values)]
    IN CASE e.is = "column" -> values[e.of[2].is]
         [] e.is = "bool" -> e.of[1].is
         [] e.is = "cast" -> Of(1)
         [] e.is = "is null" -> Is((Of(1) = "null") # (e.of[2] = Yes))
         [] e.is = "negation" -> Negated(Of(1))
         [] e.is = "and" -> CASE "false" \in {Of(1), Of(2)} -> "false" [] {Of(1), Of(2)} = {"true"} -> "true" [] OTHER -> "null"
         [] e.is = "or" -> CASE "true" \in {Of(1), Of(2)} -> "true" [] {Of(1), Of(2)} = {"false"} -> "false" [] OTHER -> "null"
         [] e.is = "=" -> IF "null" \in {Of(1), Of(2)} THEN "null" ELSE Is(Of(1) = Of(2))
         [] e.is = "call" /\ e.of[1].is = "coalesce" -> IF Args[1] # "null" THEN Args[1] ELSE Args[2]
Selected(query) == query.of[2].of[3].of[1].of[1]
\* The conditions that are spelt out, and which values of a and b make them true.
Conditions ==
    {<<<<"a", "is", "distinct", "from", "b">>, {v \in Truths \X Truths : v[1] # v[2]}>>,
     <<<<"a", "is", "not", "distinct", "from", "b">>, {v \in Truths \X Truths : v[1] = v[2]}>>}
    \cup {<<<<"a", "is", truth>>, {v \in Truths \X Truths : v[1] = truth}>> : truth \in {"true", "false"}}
    \cup {<<<<"a", "is", "not", truth>>, {v \in Truths \X Truths : v[1] # truth}>> : truth \in {"true", "false"}}
=============================================================================
