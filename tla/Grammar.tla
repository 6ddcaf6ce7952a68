------------------------------- MODULE Grammar -------------------------------
(***************************************************************************)
(* The SQL parser (sql/parser.rs, parser/expr.rs, select.rs, ddl.rs,       *)
(* dml.rs, types.rs): the grammar is data, a rule for each function of the *)
(* parser, and Run reads tokens by it.  A token is its spelling; a rule is *)
(* a sequence of steps; a tree is a node [is, of] over nodes.  The state   *)
(* of a parser is where it stands, how deep it is in expr_bp and           *)
(* query_stmt, how many links of JOIN and set operations it has made, how  *)
(* many parameters it has numbered, and the nodes the rule under way has   *)
(* gathered.                                                               *)
(***************************************************************************)
EXTENDS Naturals, SequencesExt

----------------------------------------------------------------------------
\* Tokens.  A word is an identifier unless a table below says otherwise; a quoted
\* identifier and a string keep their quotes in the spelling.
Reserved ==
    {"as", "by", "in", "is", "on", "or", "all", "and", "asc", "end", "not", "case", "cast", "desc", "else", "from",
     "full", "join", "last", "left", "like", "null", "show", "then", "true", "when", "with", "cross", "false", "first",
     "group", "ilike", "inner", "limit", "nulls", "order", "outer", "right", "union", "where", "escape", "except",
     "exists", "having", "offset", "select", "tables", "window", "between", "explain", "qualify", "describe",
     "distinct", "intersect",
     "if", "to", "add", "drop", "view", "alter", "table", "column", "create", "rename", "default", "replace",
     "set", "into", "delete", "insert", "update", "values", "copy"}
Marks == {"(", ")", "[", "]", ",", ".", ";", ":", "::", "?", "*", "+", "-", "/", "//", "%", "^", "=", "<>", "<", "<=", ">", ">=",
          "||", "&", "|", "<<", ">>", "~", "!~", "~~", "!~~", "~~*", "!~~*", "~~~", "^@", "!", "->", "->>", "@"}
Numbers == "0" :> 0 @@ "1" :> 1 @@ "2" :> 2 @@ "3" :> 3 @@ "5" :> 5 @@ "9" :> 9 @@ "24" :> 24 @@ "25" :> 25 @@ "38" :> 38
           @@ "39" :> 39 @@ "100" :> 100 @@ "101" :> 101
Strings == "'x'" :> "x" @@ "'$'" :> "$" @@ "'$$'" :> "$$" @@ "'year'" :> "year" @@ "'3'" :> "3" @@ "'3 days'" :> "3 days"
           @@ "'2020-01-01'" :> "2020-01-01" @@ "'f.csv'" :> "f.csv" @@ "'f.jsonl'" :> "f.jsonl" @@ "'f.parquet'" :> "f.parquet"
QuotedNames == "\"over\"" :> "over" @@ "\"a\"" :> "a" @@ "\"using\"" :> "using" @@ "\"date\"" :> "date"
KindOf(t) == CASE t \in Reserved -> "<kw>"
               [] t \in Marks \cup {"<eof>"} -> t
               [] t \in DOMAIN Numbers -> "<int>"
               [] t = "1.5" -> "<float>"
               [] t \in DOMAIN Strings -> "<string>"
               [] t \in DOMAIN QuotedNames -> "<quoted>"
               [] OTHER -> "<ident>"
\* unquote
Spelling(t) == CASE t \in DOMAIN Strings -> Strings[t]
                 [] t \in DOMAIN QuotedNames -> QuotedNames[t]
                 [] OTHER -> t
Either(names) == names \cup {q \in DOMAIN QuotedNames : QuotedNames[q] \in names}

TypeNames == "int" :> "int" @@ "integer" :> "int" @@ "int4" :> "int" @@ "boolean" :> "boolean" @@ "logical" :> "boolean"
             @@ "bigint" :> "bigint" @@ "long" :> "bigint" @@ "float" :> "float" @@ "real" :> "float" @@ "double" :> "double"
             @@ "float8" :> "double" @@ "decimal" :> "decimal" @@ "numeric" :> "decimal" @@ "varchar" :> "varchar"
             @@ "text" :> "varchar" @@ "character" :> "varchar" @@ "date" :> "date" @@ "time" :> "time"
             @@ "timestamp" :> "timestamp" @@ "datetime" :> "timestamp" @@ "timestamptz" :> "timestamptz"
             @@ "interval" :> "interval" @@ "json" :> "json"
TypesOf(types) == {n \in DOMAIN TypeNames : TypeNames[n] \in types}

\* What a rule may look for besides a spelling.
Classes ==
    "<comparison>" :> {"=", "<>", "<", "<=", ">", ">="}
    @@ "<quantifier>" :> {"all", "any", "some"}
    @@ "<starts query>" :> {"select", "with"}
    @@ "<predicate>" :> {"in", "between", "like", "ilike", "not"}
    @@ "<postfix>" :> {"::", "["}
    @@ "<function keyword>" :> {"left", "right", "first", "last", "replace"}
    @@ "<temporal>" :> {"date", "time", "timestamp", "timestamptz"}
    @@ "<date text>" :> {"'2020-01-01'"}
    @@ "<interval text>" :> {"'3'", "'3 days'"}
    @@ "<number text>" :> {"'3'"}
    @@ "<unit>" :> {"day", "days", "year", "month"}
    @@ "<byte>" :> {"'x'", "'$'", "'3'"}
    @@ "<try_cast>" :> Either({"try_cast"}) @@ "<columns>" :> Either({"columns", "unpack"}) @@ "<unnest>" :> Either({"unnest"})
    @@ "<iif>" :> Either({"iif", "if"}) @@ "<position>" :> Either({"position"}) @@ "<trim>" :> Either({"trim"})
    @@ "<substring>" :> Either({"substring", "substr"}) @@ "<extract>" :> Either({"extract"})
    @@ "<lambda function>" :> Either({"list_transform", "list_filter", "list_reduce"})
    @@ "<frame>" :> {"rows", "range"}
    @@ "<type>" :> DOMAIN TypeNames
    @@ "<decimal type>" :> TypesOf({"decimal"}) @@ "<sized type>" :> TypesOf({"varchar", "float"})
    @@ "<double type>" :> TypesOf({"double"}) @@ "<clock type>" :> TypesOf({"timestamp", "time"})
    @@ "<stamp type>" :> TypesOf({"timestamp"})
    @@ "<union>" :> {"union", "except"}
    @@ "<join>" :> {",", "cross", "join", "inner", "left", "right", "full"}
    @@ "<pivot>" :> {"pivot", "unpivot"}
    @@ "<star filter>" :> {"like", "ilike", "not", "glob", "similar"}
    @@ "<series>" :> {"generate_series", "range"}
    @@ "<file function>" :> {"parquet", "read_parquet", "read_csv", "read_csv_auto", "read_json", "read_json_auto"}
    @@ "<sampling>" :> {"bernoulli", "system", "reservoir"}
    @@ "<percent>" :> {"%", "percent"}
    @@ "<after columns>" :> {"<eof>", ",", ")", ";"}
\* The words of the model, and what each may be taken for.
Identifiers == {"a", "b", "c", "d", "f", "q", "r", "t", "u", "v", "w", "x", "count", "sum", "over", "filter", "using", "sample",
                "isnull", "notnull", "unknown", "partition", "recursive", "grouping", "sets", "rollup", "cube", "exclude",
                "columns", "for", "both", "leading", "trailing", "name", "value", "format", "csv", "precision", "varying", "without",
                "zone", "interval", "tablesample", "lower", "glob", "similar"}
Vocabulary == Reserved \cup Marks \cup DOMAIN Numbers \cup {"1.5", "<eof>"} \cup DOMAIN Strings \cup DOMAIN QuotedNames
              \cup UNION {Classes[look] : look \in DOMAIN Classes} \cup Identifiers
Looks == [t \in Vocabulary |-> {t, KindOf(t)} \cup (IF KindOf(t) \in {"<ident>", "<quoted>"} THEN {"<name>"} ELSE {})
                              \cup {look \in DOMAIN Classes : t \in Classes[look]}]
----------------------------------------------------------------------------
\* Trees.
Ast(is, of) == [is |-> is, of |-> of]
Word1(w) == Ast(w, <<>>)
None == Word1("none")
Yes == Word1("yes")
No == Word1("no")
ListOf(of) == Ast("list", of)
Call(f, args) == Ast("call", <<Word1(f), No, ListOf(args), None>>)
Not(e) == Ast("negation", <<e>>)
IsNull(e, negated) == Ast("is null", <<e, negated>>)
Star == Ast("star", <<None, None, ListOf(<<>>), ListOf(<<>>), ListOf(<<>>)>>)

\* distinct_from and is_true_or_false: spelt out in what the engine has.
NotDistinct(l, r) == Ast("or", <<Ast("and", <<IsNull(l, No), IsNull(r, No)>>),
                                 Ast("and", <<Ast("and", <<IsNull(l, Yes), IsNull(r, Yes)>>), Ast("=", <<l, r>>)>>)>>)
DistinctFrom_Swapped(l, negated, r) == IF negated = Yes THEN Not(NotDistinct(l, r)) ELSE NotDistinct(l, r)
DistinctFrom(l, negated, r) == IF negated = Yes THEN NotDistinct(l, r) ELSE Not(NotDistinct(l, r))
IsTruth(e, negated, truth) ==
    LET cast == Ast("cast", <<e, Ast("type", <<Word1("boolean")>>)>>)
        known == Call("coalesce", <<IF truth.is = "true" THEN cast ELSE Not(cast), Ast("bool", <<Word1("false")>>)>>)
    IN IF negated = Yes THEN Not(known) ELSE known

\* rollup_sets, cube_sets and cross_sets.
MaxCubeColumns == 8
MaxGroupingSets == 256
RollupSets(cols) == [k \in 1 .. Len(cols) + 1 |-> SubSeq(cols, 1, Len(cols) + 1 - k)]
CubeSets(cols) ==
    LET n == Len(cols)
        Bit(mask, i) == (mask \div 2 ^ (n - i)) % 2 = 1
    IN [k \in 1 .. 2 ^ n |-> FoldLeft(LAMBDA set, i : IF Bit(2 ^ n - k, i) THEN Append(set, cols[i]) ELSE set, <<>>, [i \in 1 .. n |-> i])]
CrossSets(acc, elem) == FlattenSeq([a \in DOMAIN acc |-> [e \in DOMAIN elem |-> acc[a] \o elem[e]]])
Constructs == {"rollup", "cube", "grouping sets"}
SetsOf(elem) == CASE elem.is = "rollup" -> RollupSets(elem.of[1].of)
                  [] elem.is = "cube" -> CubeSets(elem.of[1].of)
                  [] elem.is = "grouping sets" -> [i \in DOMAIN elem.of[1].of |-> elem.of[1].of[i].of]
                  [] OTHER -> <<<<elem>>>>
GroupBy(elems) ==
    IF \A i \in DOMAIN elems : elems[i].is \notin Constructs THEN Ast("group by", elems)
    ELSE LET sets == FoldLeft(LAMBDA acc, elem : CrossSets(acc, SetsOf(elem)), <<<<>>>>, elems)
         IN Ast("grouping sets", [i \in DOMAIN sets |-> ListOf(sets[i])])

\* The tail of a query belongs to its SELECT if that is all there is (query_body),
\* and a query in parentheses is its body if nothing comes before or after it
\* (paren_body).
Settled(body) == IF body.is = "bare select" THEN Ast("select", body.of \o <<ListOf(<<>>), None, None>>) ELSE body
Query(ctes, body, order, limit, offset) ==
    IF body.is = "bare select" THEN Ast("query", <<ctes, Ast("select", body.of \o <<order, limit, offset>>), ListOf(<<>>), None, None>>)
    ELSE Ast("query", <<ctes, body, order, limit, offset>>)
SelectStar(from) == Ast("select", <<No, ListOf(<<>>), ListOf(<<Ast("item", <<Star, None>>)>>), from, None, None, None, None,
                                    ListOf(<<>>), None, ListOf(<<>>), None, None>>)
ParenBody(q) == IF q.of = <<ListOf(<<>>), q.of[2], ListOf(<<>>), None, None>> THEN q.of[2]
                ELSE SelectStar(Ast("subquery", <<q, None>>))
\* The sample of a SELECT comes after its FROM or at its end.
SelectBody(f) == Ast("bare select", <<f[1], f[2], f[3], f[4], IF f[5] = None THEN f[11] ELSE f[5], f[6], f[7], f[8], f[9], f[10]>>)

\* FormatKind::detect, and the functions that name a format.
FormatOf == "f.csv" :> "csv" @@ "f.jsonl" :> "jsonl" @@ "read_csv" :> "csv" @@ "read_csv_auto" :> "csv"
            @@ "read_json" :> "json" @@ "read_json_auto" :> "json"
FormatNamed(path) == IF path \in DOMAIN FormatOf THEN FormatOf[path] ELSE "parquet"
Series(kind, args, alias, column) ==
    Ast("series", <<kind,
                    IF Len(args) = 1 THEN Ast("int", <<Word1("0")>>) ELSE args[1],
                    IF Len(args) = 1 THEN args[1] ELSE args[2],
                    IF Len(args) < 3 THEN Ast("int", <<Word1("1")>>) ELSE args[3], alias, column>>)
\* type_name: FLOAT(n) is DOUBLE above 24 bits of mantissa.
TypeNamed(of) ==
    LET name == TypeNames[of[1].is]
    IN CASE name = "float" /\ Len(of) > 1 /\ Numbers[of[2].is] > 24 -> Ast("type", <<Word1("double")>>)
         [] name = "decimal" -> Ast("type", <<Word1("decimal"), IF Len(of) > 1 THEN of[2] ELSE Word1("18"),
                                              CASE Len(of) = 1 -> Word1("3") [] Len(of) = 2 -> Word1("0") [] OTHER -> of[3]>>)
         [] name = "timestamp" /\ Len(of) > 1 -> Ast("type", <<Word1("timestamptz")>>)
         [] OTHER -> Ast("type", <<Word1(name)>>)
LikeEscape(arg, negated, ci, pattern, escape) ==
    LET Folded(e) == IF ci = Yes THEN Call("lower", <<e>>) ELSE e
        call == Call("like_escape", <<Folded(arg), Folded(pattern), Ast("string", <<escape>>)>>)
    IN IF negated = Yes THEN Not(call) ELSE call

\* What a rule makes of the nodes f it has gathered.
Built(name, f) ==
    CASE name = "plain call" -> Call(f[1].is, Tail(f))
      [] name = "swapped call" -> Call(f[1].is, Reverse(Tail(f)))
      [] name = "similar" -> IF f[2] = Yes THEN Not(Call("regexp_full_match", <<f[1], f[3]>>)) ELSE Call("regexp_full_match", <<f[1], f[3]>>)
      [] name = "distinct from" -> DistinctFrom(f[1], f[2], f[3])
      [] name = "truth" -> IsTruth(f[1], f[2], f[3])
      [] name = "like escape" -> LikeEscape(f[1], f[2], f[3], f[4], f[5])
      [] name = "like" -> Ast("like", f)
      [] name = "set" -> Ast(f[2].is, <<Settled(f[1]), f[3], Settled(f[4])>>)
      [] name = "settled" -> Settled(f[1])
      [] name = "query" -> Query(f[1], f[2], f[3], f[4], f[5])
      [] name = "parenthesised" -> ParenBody(f[1])
      [] name = "bare select" -> SelectBody(f)
      [] name = "group by" -> GroupBy(f)
      [] name = "file" -> Ast("file", <<f[1], Word1(FormatNamed(f[1].is)), f[2]>>)
      [] name = "file function" -> Ast("file", <<f[2], Word1(FormatNamed(f[1].is)), f[3]>>)
      [] name = "series" -> Series(f[1], f[2].of, f[3], f[4])
      [] name = "type" -> TypeNamed(f)
      [] name = "seeded sample" -> Ast("sample", <<IF f[3] = None THEN Word1(IF f[2].is = "rows" THEN "reservoir" ELSE "system") ELSE f[3],
                                                   f[1], f[2], f[4]>>)
      [] name = "copied table" -> Ast("query", <<ListOf(<<>>), SelectStar(Ast("table", <<f[1], None>>)), ListOf(<<>>), None, None>>)
      [] OTHER -> Ast(name, f)

\* What a rule requires of the nodes it has gathered.
Fresh(names) == \A i \in 1 .. Len(names) - 1 : names[i] # names[Len(names)]
NamesIn(list, k) == {list.of[i].of[k] : i \in DOMAIN list.of}
Holds(name, f) ==
    CASE name = "plain call" -> f[2] = No /\ f[4] = None
      [] name = "fresh" -> Fresh(f)
      [] name = "fresh second" -> Fresh([i \in DOMAIN f |-> f[i].of[2]])
      [] name = "fresh first" -> Fresh([i \in DOMAIN f |-> f[i].of[1]])
      [] name = "replace not excluded" -> NamesIn(f[4], 2) \cap {f[3].of[i] : i \in DOMAIN f[3].of} = {}
      [] name = "rename of the rest" -> NamesIn(f[5], 1) \cap ({f[3].of[i] : i \in DOMAIN f[3].of} \cup NamesIn(f[4], 2)) = {}
      [] name = "one sample" -> f[5] = None \/ f[11] = None
      [] name = "some" -> f # <<>>
      [] name = "one to three" -> Len(f[2].of) \in 1 .. 3
      [] name = "listed order" -> f[Len(f) - 2].is = "list"
      [] name = "no columns" -> f[2].of = <<>>
      [] name = "decimal" -> LET p == Numbers[f[2].is]
                                 s == IF Len(f) = 3 THEN Numbers[f[3].is] ELSE 0
                             IN p \in 1 .. 38 /\ s <= p
      [] name = "percentage" -> f[Len(f)].is \in DOMAIN Numbers => Numbers[f[Len(f)].is] <= 100
      [] name = "cube" -> Len(f[1].of) <= MaxCubeColumns
      [] name = "few sets" -> FoldLeft(LAMBDA acc, elem : acc * Len(SetsOf(elem)), 1, f) <= MaxGroupingSets
----------------------------------------------------------------------------
\* Steps of a rule.
Step(do, on, then, arg) == [do |-> do, on |-> on, then |-> then, arg |-> arg]
Words(on) == Step("words", on, <<>>, "UnexpectedToken")         \* these tokens
Need(on, code) == Step("words", on, <<>>, code)                 \* these, or that error
Take(class) == Step("take", <<class>>, <<>>, "UnexpectedToken")  \* one of a class: a node
Skip(w) == Step("skip", <<w>>, <<>>, "")                        \* this token if it is there
Flag(w) == Step("flag", <<w>>, <<>>, "")                        \* whether it is there: a node
Put(node) == Step("put", <<>>, <<>>, node)
If(on, then) == Step("if", on, then, "")
While(on, then) == Step("while", on, then, "")
Maybe(on, then) == Step("maybe", on, then, "")                  \* a node, or None
Or(on, then) == Step("or", on, then, "")
OrWithin(on, inner, then) == Step("or", on, then, inner)        \* and inner before the matching parenthesis
OneOf(cases) == Step("one of", <<>>, cases, "UnexpectedToken")
The(rule) == Step("the", <<>>, <<>>, rule)
Group(then) == Step("node", <<>>, then, "")                     \* nodes of their own, of which one is left
Node(name, then) == Step("node", <<>>, Append(then, Step("make", <<>>, <<>>, name)), "")
Make(name) == Step("make", <<>>, <<>>, name)
MakeCall(f) == Step("call", <<>>, <<>>, f)
Check(name, code) == Step("check", <<name>>, <<>>, code)
Refuse(on, code) == Step("refuse", on, <<>>, code)
List(then) == Node("list", Append(then, While(<<",">>, <<Words(<<",">>)>> \o then)))
Link == Step("link", <<>>, <<>>, "")
Param == Step("param", <<"?">>, <<>>, "")
Verbatim(then) == Step("verbatim", <<>>, then, "")
Nested(then) == Step("nested", <<>>, then, "")
Expr(level) == Nested(<<The("prefix"), Step("climb", <<>>, <<>>, level)>>)
Operand == Expr(0)
Subquery == <<Words(<<"(">>), The("query"), Words(<<")">>)>>
----------------------------------------------------------------------------
\* The rules, by the function of the parser each one is.
\* prefix: a minus before an integer is part of it, unless a cast follows; NOT
\* EXISTS is one node.
Prefix ==
    <<OneOf(<<
        Or(<<"-", "<int>", "::">>, <<Words(<<"-">>), Node("int", <<Take("<int>")>>), The("casts"), Make("minus")>>),
        Or(<<"-", "<int>">>, <<Words(<<"-">>), Node("negative int", <<Take("<int>")>>)>>),
        Or(<<"-">>, <<Words(<<"-">>), Expr(12), Make("minus")>>),
        Or(<<"+">>, <<Words(<<"+">>), Expr(12)>>),
        Or(<<"not", "exists">>, <<Words(<<"not">>), The("exists"), Put(Yes), Make("exists")>>),
        Or(<<"not">>, <<Words(<<"not">>), Expr(3), Make("negation")>>),
        Or(<<"~">>, <<Words(<<"~">>), Expr(8), MakeCall("bit_not")>>),
        Or(<<"@">>, <<Words(<<"@">>), Expr(8), MakeCall("abs")>>),
        Or(<<>>, <<The("primary")>>)>>)>>
Exists == <<Words(<<"exists">>)>> \o Subquery
\* cast_postfix
Casts == <<While(<<"::">>, <<Words(<<"::">>), The("type"), Make("cast")>>)>>
\* primary: casts and subscripts follow in any order.
Primary ==
    <<The("atom"),
      While(<<"<postfix>">>, <<OneOf(<<
        Or(<<"::">>, <<Words(<<"::">>), The("type"), Make("cast")>>),
        Or(<<>>, <<The("subscript")>>)>>)>>)>>
\* subscript: a bound left out is the first or the last element.
FirstElement == Ast("int", <<Word1("1")>>)
LastElement == Ast("int", <<Word1("last")>>)
Subscript ==
    <<OneOf(<<
        Or(<<"[", ":", "]">>, <<Words(<<"[", ":", "]">>), Put(FirstElement), Put(LastElement), MakeCall("list_slice")>>),
        Or(<<"[", ":">>, <<Words(<<"[", ":">>), Put(FirstElement), Operand, Words(<<"]">>), MakeCall("list_slice")>>),
        Or(<<>>, <<Words(<<"[">>), Operand,
            OneOf(<<
              Or(<<":", "]">>, <<Words(<<":", "]">>), Put(LastElement), MakeCall("list_slice")>>),
              Or(<<":">>, <<Words(<<":">>), Operand, Words(<<"]">>), MakeCall("list_slice")>>),
              Or(<<>>, <<Words(<<"]">>), MakeCall("list_extract")>>)>>)>>)>>)>>
\* primary_atom
Atom ==
    <<OneOf(<<
        Or(<<"<int>">>, <<Node("int", <<Take("<int>")>>)>>),
        Or(<<"<float>">>, <<Node("float", <<Take("<float>")>>)>>),
        Or(<<"<string>">>, <<Node("string", <<Take("<string>")>>)>>),
        Or(<<"true">>, <<Node("bool", <<Take("true")>>)>>),
        Or(<<"false">>, <<Node("bool", <<Take("false")>>)>>),
        Or(<<"null">>, <<Words(<<"null">>), Put(Word1("null"))>>),
        Or(<<"?">>, <<Param>>),
        Or(<<"(", "<starts query>">>, <<Node("scalar query", Subquery)>>),
        Or(<<"(">>, <<Words(<<"(">>), Operand, Words(<<")">>)>>),
        Or(<<"[", "]">>, <<Words(<<"[", "]">>), Put(Word1("empty array"))>>),
        Or(<<"[">>, <<Group(<<Words(<<"[">>), Operand, While(<<",">>, <<Words(<<",">>), Operand>>), Words(<<"]">>), MakeCall("list_value")>>)>>),
        Or(<<"exists">>, <<Node("exists", <<The("exists"), Put(No)>>)>>),
        Or(<<"cast">>, <<Words(<<"cast">>), The("cast body")>>),
        Or(<<"case">>, <<The("case")>>),
        Or(<<"interval">>, <<The("interval")>>),
        Or(<<"<temporal>">>, <<The("temporal")>>),
        Or(<<"<name>">>, <<The("name")>>),
        Or(<<"<function keyword>", "(">>, <<The("call")>>),
        Or(<<"if", "(">>, <<The("call")>>)>>)>>
CastBody == <<Node("cast", <<Words(<<"(">>), Operand, Words(<<"as">>), The("type"), Words(<<")">>)>>)>>
CaseRule ==
    <<Node("case", <<Words(<<"case">>),
        OneOf(<<Or(<<"when">>, <<Put(None)>>), Or(<<>>, <<Operand>>)>>),
        Node("list", <<While(<<"when">>, <<Node("when", <<Words(<<"when">>), Operand, Words(<<"then">>), Operand>>)>>),
                       Check("some", "UnexpectedToken")>>),
        Maybe(<<"else">>, <<Words(<<"else">>), Operand>>), Words(<<"end">>)>>)>>
\* interval_literal_or_ident and temporal_literal_or_ident: without their literal
\* the words are names.
Interval ==
    <<OneOf(<<
        Or(<<"interval", "<number text>", "<unit>">>, <<Words(<<"interval">>), Node("interval", <<Take("<string>"), Take("<unit>")>>)>>),
        Or(<<"interval", "<interval text>">>, <<Words(<<"interval">>), Node("interval", <<Take("<string>")>>)>>),
        Or(<<"interval", "<string>">>, <<Refuse(<<>>, "SyntaxError")>>),
        Or(<<"interval", "<int>", "<unit>">>, <<Words(<<"interval">>), Node("interval", <<Take("<int>"), Take("<unit>")>>)>>),
        Or(<<>>, <<The("name")>>)>>)>>
Temporal ==
    <<OneOf(<<
        Or(<<"<temporal>", "<date text>">>, <<Node("temporal", <<Take("<temporal>"), Take("<string>")>>)>>),
        Or(<<"<temporal>", "<string>">>, <<Refuse(<<>>, "InvalidCast")>>),
        Or(<<>>, <<The("name")>>)>>)>>
\* name_ref: further dots are part of the name.
Name ==
    <<OneOf(<<
        Or(<<"<name>", "(">>, <<The("call")>>),
        Or(<<"<name>", ".", "*">>, <<Node("star", <<Take("<name>"), Words(<<".", "*">>), Put(None), The("star modifiers")>>)>>),
        Or(<<"<name>", ".", "columns", "(">>, <<Refuse(<<>>, "UnsupportedFeature")>>),
        Or(<<"<name>", ".">>, <<Node("column", <<Take("<name>"), Words(<<".">>), Take("<name>"),
            While(<<".">>, <<Words(<<".">>), Refuse(<<"*">>, "SyntaxError"), Take("<name>")>>)>>)>>),
        Or(<<>>, <<Node("column", <<Put(None), Take("<name>")>>)>>)>>)>>
\* call, with the syntax some functions have of their own.
IfCall ==
    <<Node("case", <<Put(None),
        Node("list", <<Node("when", <<Words(<<"<iif>", "(">>), Operand, Words(<<",">>), Operand>>)>>),
        Words(<<",">>), Operand, Words(<<")">>)>>)>>
PositionInCall == <<Group(<<Words(<<"<position>", "(">>), Put(Word1("strpos")), Expr(7), Words(<<"in">>), Operand, Words(<<")">>), Make("swapped call")>>)>>
TrimFromCall ==
    <<Group(<<Words(<<"<trim>", "(">>),
        OneOf(<<Or(<<"both">>, <<Words(<<"both">>), Put(Word1("trim"))>>),
                Or(<<"leading">>, <<Words(<<"leading">>), Put(Word1("ltrim"))>>),
                Or(<<"trailing">>, <<Words(<<"trailing">>), Put(Word1("rtrim"))>>),
                Or(<<>>, <<Put(Word1("trim"))>>)>>),
        OneOf(<<Or(<<"from">>, <<Words(<<"from">>), Operand>>),
                Or(<<>>, <<Operand, Words(<<"from">>), Operand>>)>>),
        Words(<<")">>), Make("swapped call")>>)>>
SubstringCall ==
    <<Group(<<Take("<substring>"), Words(<<"(">>), Operand,
        OneOf(<<Or(<<"from">>, <<Words(<<"from">>), Operand, If(<<"for">>, <<Words(<<"for">>), Operand>>)>>),
                Or(<<"for">>, <<Words(<<"for">>), Put(Ast("int", <<Word1("1")>>)), Operand>>),
                Or(<<>>, <<While(<<",">>, <<Words(<<",">>), Operand>>)>>)>>),
        Words(<<")">>), Make("plain call")>>)>>
\* A lambda is read only in the arguments of a function that takes one
\* (looks_like_lambda_params, for up to two parameters).
Lambda == <<Node("lambda", <<Node("list", <<Take("<ident>")>>), Words(<<"->">>), Operand>>)>>
LambdaInParentheses == <<Node("lambda", <<Words(<<"(">>), List(<<Take("<ident>")>>), Words(<<")", "->">>), Operand>>)>>
Argument ==
    <<OneOf(<<Or(<<"<ident>", "->">>, Lambda), Or(<<"(", "<ident>", ")", "->">>, LambdaInParentheses),
              Or(<<"(", "<ident>", ",", "<ident>", ")", "->">>, LambdaInParentheses), Or(<<>>, <<Operand>>)>>)>>
PlainCall(name, argument) ==
    <<Group(<<Take(name), Words(<<"(">>),
        OneOf(<<Or(<<"*">>, <<Words(<<"*">>), Put(No), Put(Word1("*"))>>),
                Or(<<")">>, <<Put(No), Put(ListOf(<<>>))>>),
                Or(<<>>, <<Flag("distinct"), List(argument)>>)>>),
        Words(<<")">>),
        Maybe(<<"filter", "(">>, <<Words(<<"filter", "(", "where">>), Operand, Words(<<")">>)>>),
        OneOf(<<Or(<<"over", "(">>, <<Check("plain call", "UnsupportedFeature"), Words(<<"over", "(">>), The("window definition"), Make("window")>>),
                Or(<<"over", "<name>">>, <<Check("plain call", "UnsupportedFeature"), Words(<<"over">>), Take("<name>"), Make("window")>>),
                Or(<<>>, <<Make("call")>>)>>)>>)>>
CallRule ==
    <<OneOf(<<
        Or(<<"<try_cast>", "(">>, <<Words(<<"<try_cast>">>), The("cast body"), Make("try")>>),
        Or(<<"<columns>", "(">>, <<Refuse(<<>>, "UnsupportedFeature")>>),
        Or(<<"<unnest>", "(">>, <<Node("unnest", <<Words(<<"<unnest>", "(">>), Operand, Words(<<")">>)>>)>>),
        Or(<<"<iif>", "(">>, IfCall),
        OrWithin(<<"<position>", "(">>, "in", PositionInCall),
        OrWithin(<<"<trim>", "(">>, "from", TrimFromCall),
        Or(<<"<substring>", "(">>, SubstringCall),
        Or(<<"<extract>", "(", "<ident>", "from">>, <<Group(<<Words(<<"<extract>", "(">>), Node("string", <<Take("<ident>")>>), Words(<<"from">>), Operand, Words(<<")">>), MakeCall("date_part")>>)>>),
        Or(<<"<lambda function>", "(">>, PlainCall("<name>", Argument)),
        Or(<<"<function keyword>", "(">>, PlainCall("<function keyword>", <<Operand>>)),
        Or(<<>>, PlainCall("<name>", <<Operand>>))>>)>>
\* window_def_body: an explicit frame is refused.
WindowDefinition ==
    <<Node("window definition", <<
        OneOf(<<Or(<<"partition">>, <<Words(<<"partition", "by">>), List(<<Operand>>)>>), Or(<<>>, <<Put(ListOf(<<>>))>>)>>),
        OneOf(<<Or(<<"order">>, <<Words(<<"order", "by">>), List(<<The("order item")>>)>>), Or(<<>>, <<Put(ListOf(<<>>))>>)>>),
        Refuse(<<"<frame>">>, "UnsupportedFeature"), Words(<<")">>)>>)>>
\* type_name
TypeName ==
    <<Node("type", <<OneOf(<<
        Or(<<"<decimal type>", "(">>, <<Take("<type>"), Words(<<"(">>), Take("<int>"), If(<<",">>, <<Words(<<",">>), Take("<int>")>>),
                                       Words(<<")">>), Check("decimal", "InvalidCast")>>),
        Or(<<"<sized type>", "(">>, <<Take("<type>"), Words(<<"(">>), Take("<int>"), Words(<<")">>)>>),
        Or(<<"<double type>", "precision">>, <<Take("<type>"), Words(<<"precision">>)>>),
        Or(<<"character", "varying">>, <<Take("<type>"), Words(<<"varying">>), If(<<"(">>, <<Words(<<"(", "<int>", ")">>)>>)>>),
        Or(<<"<clock type>", "without">>, <<Take("<type>"), Words(<<"without">>), Need(<<"time">>, "InvalidCast"), Need(<<"zone">>, "InvalidCast")>>),
        Or(<<"<stamp type>", "with">>, <<Take("<type>"), Words(<<"with">>), Put(Yes), Need(<<"time">>, "InvalidCast"), Need(<<"zone">>, "InvalidCast")>>),
        Or(<<"<type>">>, <<Take("<type>")>>),
        Or(<<>>, <<Refuse(<<>>, "InvalidCast")>>)>>)>>)>>
----------------------------------------------------------------------------
\* expr_body: what may follow an operand, how strongly it binds, and what it makes
\* of the operand.  A binary operator groups to the left: its right operand is read
\* one level up.
Infix(on, level, then) == [on |-> on, level |-> level, then |-> then]
Binary_GroupsRight(op, level) == Infix(<<op>>, level, <<Words(<<op>>), Expr(level), Make(op)>>)
Binary(op, level) == Infix(<<op>>, level, <<Words(<<op>>), Expr(level + 1), Make(op)>>)
CallOperator(op, level, f) == Infix(<<op>>, level, <<Words(<<op>>), Expr(level + 1), MakeCall(f)>>)
LikeOperator(op, negated, ci) == Infix(<<op>>, 7, <<Words(<<op>>), Put(negated), Put(ci), Expr(8), Make("like")>>)
Quantified ==
    <<Infix(<<"<comparison>", "<quantifier>", "(">>, 5,
        <<Take("<comparison>"), Flag("all"), Skip("any"), Skip("some")>> \o Subquery \o <<Make("quantified")>>)>>
SoftOperators ==
    <<Infix(<<"glob">>, 6, <<Words(<<"glob">>), Expr(7), MakeCall("glob")>>),
      Infix(<<"similar", "to">>, 6, <<Put(No), The("similar")>>),
      Infix(<<"isnull">>, 4, <<Words(<<"isnull">>), Put(No), Make("is null")>>),
      Infix(<<"notnull">>, 4, <<Words(<<"notnull">>), Put(Yes), Make("is null")>>)>>
BinaryOperators ==
    <<Binary("or", 1), Binary("and", 2), Binary("=", 5), Binary("<>", 5), Binary("<", 5), Binary("<=", 5), Binary(">", 5), Binary(">=", 5),
      Binary("||", 7), Binary("+", 8), Binary("-", 8), Binary("*", 9), Binary("/", 9), Binary("//", 9), Binary("%", 9)>>
CallOperators ==
    <<CallOperator("&", 7, "bit_and"), CallOperator("|", 7, "bit_or"), CallOperator("<<", 7, "bit_shift_left"),
      CallOperator(">>", 7, "bit_shift_right"), CallOperator("^", 10, "pow"), CallOperator("~", 7, "regexp_full_match"),
      Infix(<<"!~">>, 7, <<Words(<<"!~">>), Expr(8), MakeCall("regexp_full_match"), Make("negation")>>)>>
PatternOperators ==
    <<LikeOperator("~~", No, No), LikeOperator("!~~", Yes, No), LikeOperator("~~*", No, Yes), LikeOperator("!~~*", Yes, Yes),
      CallOperator("^@", 7, "starts_with"), CallOperator("~~~", 7, "glob")>>
\* A cast may follow a factorial.
TightOperators ==
    <<Infix(<<"!">>, 11, <<Words(<<"!">>), MakeCall("factorial"), The("casts")>>),
      CallOperator("->", 7, "json_extract"), CallOperator("->>", 7, "json_extract_string")>>
Predicates == <<Infix(<<"is">>, 4, <<The("is")>>), Infix(<<"<predicate>">>, 6, <<The("predicate")>>)>>
InfixRows == Quantified \o SoftOperators \o BinaryOperators \o CallOperators \o PatternOperators \o TightOperators \o Predicates
\* predicate: IS and the family it leads.
IsRule ==
    <<Words(<<"is">>), Flag("not"),
      OneOf(<<Or(<<"distinct", "from">>, <<Words(<<"distinct", "from">>), Expr(5), Make("distinct from")>>),
              Or(<<"true">>, <<Take("true"), Make("truth")>>), Or(<<"false">>, <<Take("false"), Make("truth")>>),
              Or(<<"unknown">>, <<Words(<<"unknown">>), Make("is null")>>), Or(<<"null">>, <<Words(<<"null">>), Make("is null")>>),
              Or(<<>>, <<Refuse(<<>>, "UnsupportedFeature")>>)>>)>>
Like(ci) ==
    <<Put(ci), Expr(7),
      OneOf(<<Or(<<"escape", "<string>">>, <<Words(<<"escape">>), Refuse(<<"'$$'">>, "SyntaxError"), Take("<byte>"), Make("like escape")>>),
              Or(<<"escape">>, <<Words(<<"escape", "<string>">>)>>),
              Or(<<>>, <<Make("like")>>)>>)>>
Predicate ==
    <<Flag("not"),
      OneOf(<<
        Or(<<"similar", "to">>, <<The("similar")>>),
        Or(<<"in", "(", "<starts query>">>, <<Words(<<"in">>)>> \o Subquery \o <<Make("in query")>>),
        Or(<<"in">>, <<Words(<<"in", "(">>), List(<<Operand>>), Words(<<")">>), Make("in list")>>),
        Or(<<"between">>, <<Words(<<"between">>), Expr(7), Words(<<"and">>), Expr(7), Make("between")>>),
        Or(<<"like">>, <<Words(<<"like">>)>> \o Like(No)),
        Or(<<"ilike">>, <<Words(<<"ilike">>)>> \o Like(Yes))>>)>>
\* similar_to: its ESCAPE is refused.
Similar == <<Words(<<"similar", "to">>), Expr(7), Refuse(<<"escape">>, "UnsupportedFeature"), Make("similar")>>
----------------------------------------------------------------------------
\* query_body, cte_list, set_expr, intersect_expr, select_or_paren.
QueryRule == <<Nested(<<Node("query", <<The("ctes"), The("set expression"), The("tail")>>)>>)>>
Cte(recursive) ==
    <<Node("cte", <<Put(recursive), Take("<name>"),
        OneOf(<<Or(<<"(">>, IF recursive = Yes THEN <<Words(<<"(">>), List(<<Take("<name>")>>), Words(<<")">>)>>
                            ELSE <<Refuse(<<>>, "UnsupportedFeature")>>),
                Or(<<>>, <<Put(ListOf(<<>>))>>)>>),
        Words(<<"as">>)>> \o Subquery)>>
Ctes ==
    <<OneOf(<<Or(<<"with", "recursive", "<name>">>, <<Words(<<"with", "recursive">>), List(Cte(Yes))>>),
              Or(<<"with">>, <<Words(<<"with">>), List(Cte(No))>>),
              Or(<<>>, <<Put(ListOf(<<>>))>>)>>)>>
SetOperation_Unlinked(op, operand) == <<Take(op), Flag("all"), The(operand), Make("set")>>
SetOperation(op, operand) == <<Take(op), Flag("all"), Link, The(operand), Make("set")>>
SetExpression == <<Group(<<The("intersection"), While(<<"<union>">>, SetOperation("<union>", "intersection"))>>)>>
Intersection == <<Group(<<The("select or parentheses"), While(<<"intersect">>, SetOperation("intersect", "select or parentheses"))>>)>>
SelectOrParentheses == <<OneOf(<<Or(<<"(">>, <<Node("parenthesised", Subquery)>>), Or(<<>>, <<The("select")>>)>>)>>
\* select_body, clause by clause.
DistinctClause ==
    <<OneOf(<<Or(<<"distinct", "on">>, <<Words(<<"distinct", "on", "(">>), Put(No), List(<<Operand>>), Words(<<")">>)>>),
              Or(<<"distinct">>, <<Words(<<"distinct">>), Put(Yes), Put(ListOf(<<>>))>>),
              Or(<<>>, <<Put(No), Put(ListOf(<<>>))>>)>>)>>
FromClause ==
    <<OneOf(<<Or(<<"from">>, <<Words(<<"from">>), The("from item"), Maybe(<<"tablesample">>, <<Words(<<"tablesample">>), The("sample")>>)>>),
              Or(<<>>, <<Put(None), Put(None)>>)>>)>>
GroupByClause ==
    <<OneOf(<<Or(<<"group", "by", "all">>, <<Words(<<"group", "by">>), Take("all")>>),
              Or(<<"group">>, <<Words(<<"group", "by">>),
                 Node("group by", <<The("grouping element"), Check("few sets", "ExpressionTooDeep"), While(<<",">>, <<Words(<<",">>), The("grouping element"), Check("few sets", "ExpressionTooDeep")>>)>>)>>),
              Or(<<>>, <<Put(None)>>)>>)>>
\* grouping_construct and paren_expr_list
Columns == Node("list", <<Words(<<"(">>), OneOf(<<Or(<<")">>, <<>>), Or(<<>>, <<Operand, While(<<",">>, <<Words(<<",">>), Operand>>)>>)>>), Words(<<")">>)>>)
GroupingElement ==
    <<OneOf(<<Or(<<"grouping", "sets">>, <<Words(<<"grouping", "sets", "(">>), Node("grouping sets", <<List(<<Columns>>)>>), Words(<<")">>)>>),
              Or(<<"rollup", "(">>, <<Words(<<"rollup">>), Node("rollup", <<Columns>>)>>),
              Or(<<"cube", "(">>, <<Words(<<"cube">>), Node("cube", <<Columns, Check("cube", "ExpressionTooDeep")>>)>>),
              Or(<<>>, <<Operand>>)>>)>>
WindowClause ==
    <<OneOf(<<Or(<<"window">>, <<Words(<<"window">>),
                List(<<Node("window", <<Take("<name>"), Words(<<"as", "(">>), The("window definition")>>), Check("fresh first", "SyntaxError")>>)>>),
              Or(<<>>, <<Put(ListOf(<<>>))>>)>>)>>
Clause(word) == Maybe(<<word>>, <<Words(<<word>>), Operand>>)
SelectRule ==
    <<Refuse(<<"<pivot>">>, "UnsupportedFeature"),
      Node("bare select", <<Words(<<"select">>)>> \o DistinctClause \o <<List(<<The("select item")>>)>> \o FromClause
          \o <<Clause("where")>> \o GroupByClause \o <<Clause("having")>> \o WindowClause \o <<Clause("qualify")>>
          \o <<Maybe(<<"using", "sample">>, <<Words(<<"using", "sample">>), The("sample")>>), Check("one sample", "UnsupportedFeature")>>)>>
\* star_modifiers: EXCLUDE, REPLACE, RENAME, in that order, and no name in two.
OneOrMore(word, one, fresh) ==
    OneOf(<<Or(<<word, "(">>, <<Words(<<word, "(">>), List(<<one, Check(fresh, "SyntaxError")>>), Words(<<")">>)>>),
            Or(<<word>>, <<Words(<<word>>), Node("list", <<one>>)>>),
            Or(<<>>, <<Put(ListOf(<<>>))>>)>>)
StarModifiers ==
    <<OneOrMore("exclude", Take("<name>"), "fresh"),
      OneOrMore("replace", Node("replacement", <<Operand, Words(<<"as">>), Take("<name>")>>), "fresh second"),
      Check("replace not excluded", "SyntaxError"),
      OneOrMore("rename", Node("renaming", <<Take("<name>"), Words(<<"as">>), Take("<name>")>>), "fresh first"),
      Check("rename of the rest", "SyntaxError")>>
\* columns_item: nothing but an alias may follow COLUMNS(...).
ColumnsItem ==
    <<Node("item", <<Words(<<"columns", "(">>),
        Node("star", <<Put(None),
            OneOf(<<Or(<<"*">>, <<Words(<<"*">>), Put(Word1("all")), The("star modifiers")>>),
                    Or(<<"[">>, <<Words(<<"[">>), List(<<Take("<string>")>>), Words(<<"]">>)>>),
                    Or(<<"<string>">>, <<Take("<string>")>>),
                    Or(<<>>, <<Refuse(<<>>, "UnsupportedFeature")>>)>>)>>),
        Words(<<")">>),
        OneOf(<<Or(<<"as", "<string>">>, <<Words(<<"as">>), Take("<string>")>>),
                Or(<<"<kw>">>, <<The("alias")>>), Or(<<"<name>">>, <<The("alias")>>),
                Or(<<"<after columns>">>, <<Put(None)>>),
                Or(<<>>, <<Refuse(<<>>, "UnsupportedFeature")>>)>>)>>)>>
SelectItem ==
    <<OneOf(<<Or(<<"columns", "(">>, ColumnsItem),
              Or(<<"*">>, <<Words(<<"*">>), Refuse(<<"columns", "(">>, "UnsupportedFeature"),
                            Node("item", <<Node("star", <<Put(None), Put(None), The("star modifiers")>>), Put(None)>>),
                            Refuse(<<"<star filter>">>, "UnsupportedFeature")>>),
              Or(<<>>, <<Node("item", <<Operand, The("alias")>>)>>)>>)>>
\* opt_alias: any word after AS; without it no keyword, nor the head of a sample.
Alias ==
    <<OneOf(<<Or(<<"as", "<kw>">>, <<Words(<<"as">>), Take("<kw>")>>),
              Or(<<"as">>, <<Words(<<"as">>), Take("<name>")>>),
              Or(<<"tablesample">>, <<Put(None)>>), Or(<<"using", "sample">>, <<Put(None)>>),
              Or(<<"<name>">>, <<Take("<name>")>>), Or(<<>>, <<Put(None)>>)>>)>>
Direction ==
    <<OneOf(<<Or(<<"desc">>, <<Words(<<"desc">>), Put(Yes)>>), Or(<<>>, <<Skip("asc"), Put(No)>>)>>),
      OneOf(<<Or(<<"nulls", "first">>, <<Words(<<"nulls", "first">>), Put(Yes)>>), Or(<<"nulls">>, <<Words(<<"nulls", "last">>), Put(No)>>),
              Or(<<>>, <<Put(No)>>)>>)>>
OrderItem == <<Node("order item", <<Operand, The("direction")>>)>>
\* order_limit_offset_tail
TailRule ==
    <<OneOf(<<Or(<<"order", "by", "all">>, <<Words(<<"order", "by", "all">>), Node("order by all", <<The("direction")>>)>>),
              Or(<<"order">>, <<Words(<<"order", "by">>), List(<<The("order item")>>)>>),
              Or(<<>>, <<Put(ListOf(<<>>))>>)>>),
      Maybe(<<"limit">>, <<Words(<<"limit">>), Take("<int>")>>), Maybe(<<"offset">>, <<Words(<<"offset">>), Take("<int>")>>)>>
----------------------------------------------------------------------------
\* parse_from_item: joins group to the left, each a link.
FromItem ==
    <<Group(<<The("relation"), While(<<"<join>">>, <<OneOf(<<
        Or(<<",">>, <<Words(<<",">>), Put(Word1("cross")), Link, The("relation"), Put(None), Make("join")>>),
        Or(<<"cross">>, <<Words(<<"cross", "join">>), Put(Word1("cross")), Link, The("relation"), Put(None), Make("join")>>),
        Or(<<>>, <<OneOf(<<Or(<<"join">>, <<Put(Word1("inner"))>>), Or(<<>>, <<Take("<join>"), Skip("outer")>>)>>),
                   Words(<<"join">>), Link, The("relation"), Words(<<"on">>), Operand, Make("join")>>)>>)>>)>>)>>
SignedInt == OneOf(<<Or(<<"-">>, <<Words(<<"-">>), Node("negative int", <<Take("<int>")>>)>>), Or(<<>>, <<Node("int", <<Take("<int>")>>)>>)>>)
ColumnAlias == Maybe(<<"(">>, <<Words(<<"(">>), Take("<name>"), Words(<<")">>)>>)
\* base_rel
Relation ==
    <<OneOf(<<
        Or(<<"(">>, <<Node("subquery", Subquery \o <<The("alias")>>)>>),
        Or(<<"<string>">>, <<Node("file", <<Take("<string>"), The("alias")>>)>>),
        Or(<<"<series>", "(">>, <<Node("series", <<Take("<series>"), Words(<<"(">>),
            Node("list", <<OneOf(<<Or(<<")">>, <<>>), Or(<<>>, <<SignedInt, While(<<",">>, <<Words(<<",">>), SignedInt>>)>>)>>)>>),
            Words(<<")">>), Check("one to three", "WrongArgCount"), The("alias"), ColumnAlias>>)>>),
        Or(<<"unnest", "(">>, <<Node("unnest", <<Words(<<"unnest", "(">>), Operand, Words(<<")">>), The("alias"), ColumnAlias>>)>>),
        Or(<<"<file function>", "(">>, <<Node("file function", <<Take("<file function>"), Words(<<"(">>), Take("<string>"), Words(<<")">>), The("alias")>>)>>),
        Or(<<"<name>", "(">>, <<Refuse(<<>>, "UnsupportedFeature")>>),
        Or(<<>>, <<Node("table", <<Take("<name>"), The("alias")>>)>>)>>)>>
\* sample_body and sample_amount
SampleAmount ==
    <<OneOf(<<Or(<<"<float>">>, <<Take("<float>")>>), Or(<<>>, <<Take("<int>")>>)>>),
      OneOf(<<Or(<<"<percent>">>, <<Words(<<"<percent>">>), Check("percentage", "SyntaxError"), Put(Word1("percent"))>>),
              Or(<<>>, <<Skip("rows"), Put(Word1("rows"))>>)>>)>>
Sample ==
    <<OneOf(<<
        Or(<<"<sampling>", "(">>, <<Node("sample", <<Take("<sampling>"), Words(<<"(">>), The("sample amount"), Words(<<")">>), Put(None)>>)>>),
        Or(<<"(">>, <<Node("sample", <<Put(Word1("system")), Words(<<"(">>), The("sample amount"), Words(<<")">>), Put(None)>>)>>),
        Or(<<>>, <<Node("seeded sample", <<The("sample amount"),
            OneOf(<<Or(<<"(">>, <<Words(<<"(">>), Take("<sampling>"), Words(<<",">>), SignedInt, Words(<<")">>)>>),
                    Or(<<>>, <<Put(None), Put(None)>>)>>)>>)>>)>>)>>
----------------------------------------------------------------------------
\* pivot_stmt, unpivot_stmt
Aliased == Node("item", <<Operand, The("alias")>>)
Pivot ==
    <<Node("pivot", <<Words(<<"pivot">>), The("from item"), Words(<<"on">>), Expr(7),
        Maybe(<<"in">>, <<Words(<<"in", "(">>), List(<<Aliased>>), Words(<<")">>)>>),
        OneOf(<<Or(<<"using">>, <<Words(<<"using">>), List(<<Aliased>>)>>), Or(<<>>, <<Put(ListOf(<<>>))>>)>>),
        OneOf(<<Or(<<"group">>, <<Words(<<"group", "by">>), List(<<Operand>>)>>), Or(<<>>, <<Put(ListOf(<<>>))>>)>>),
        The("tail"), Check("listed order", "UnsupportedFeature")>>)>>
Unpivot ==
    <<Node("unpivot", <<Words(<<"unpivot">>), The("from item"), Words(<<"on">>), List(<<Operand>>),
        OneOf(<<Or(<<"into">>, <<Words(<<"into", "name">>), Take("<name>"), Words(<<"value">>), Take("<name>")>>),
                Or(<<>>, <<Put(Word1("name")), Put(Word1("value"))>>)>>),
        The("tail"), Check("listed order", "UnsupportedFeature")>>)>>
\* create_stmt, create_table_stmt, create_view_stmt: a view keeps its query as text.
Presence(words) == OneOf(<<Or(<<"if">>, <<Words(words), Put(Yes)>>), Or(<<>>, <<Put(No)>>)>>)
IfNotExists == Presence(<<"if", "not", "exists">>)
IfExists == Presence(<<"if", "exists">>)
ColumnDef ==
    <<Node("column def", <<Take("<name>"), The("type"),
        Node("list", <<The("column options")>>)>>)>>
ColumnOptions ==
    <<OneOf(<<Or(<<"not">>, <<Words(<<"not", "null">>), Put(Word1("not null")), The("column options")>>),
              Or(<<"default">>, <<Words(<<"default">>), Node("default", <<Expr(7)>>), The("column options")>>),
              Or(<<"null">>, <<Words(<<"null">>), The("column options")>>),
              Or(<<>>, <<>>)>>)>>
CreateView == <<Node("create view", <<Words(<<"view">>), Take("<name>"), Words(<<"as">>), Verbatim(<<The("query")>>)>>)>>
CreateTable ==
    <<Words(<<"table">>), IfNotExists, Take("<name>"),
      OneOf(<<Or(<<"as">>, <<Words(<<"as">>), Put(ListOf(<<>>)), The("query")>>),
              Or(<<>>, <<Words(<<"(">>), List(<<The("column def")>>), Words(<<")">>), Put(None)>>)>>),
      Make("create table")>>
Create ==
    <<Group(<<Words(<<"create">>), OneOf(<<Or(<<"or">>, <<Words(<<"or", "replace">>), Put(Yes)>>), Or(<<>>, <<Put(No)>>)>>),
        OneOf(<<Or(<<"view">>, <<The("create view"), Make("create")>>), Or(<<>>, CreateTable)>>)>>)>>
Drop ==
    <<OneOf(<<Or(<<"drop", "view">>, <<Node("drop view", <<Words(<<"drop", "view">>), IfExists, Take("<name>")>>)>>),
              Or(<<>>, <<Node("drop table", <<Words(<<"drop", "table">>), IfExists, Take("<name>")>>)>>)>>)>>
AlterTable ==
    <<Node("alter table", <<Words(<<"alter", "table">>), Take("<name>"),
        OneOf(<<Or(<<"add">>, <<Words(<<"add">>), Skip("column"), Node("add column", <<The("column def")>>)>>),
                Or(<<"drop">>, <<Words(<<"drop">>), Skip("column"), Node("drop column", <<Take("<name>")>>)>>),
                Or(<<"rename", "to">>, <<Words(<<"rename", "to">>), Node("rename table", <<Take("<name>")>>)>>),
                Or(<<"rename">>, <<Words(<<"rename">>), Skip("column"), Node("rename column", <<Take("<name>"), Words(<<"to">>), Take("<name>")>>)>>)>>)>>)>>
\* insert_stmt, update_stmt, delete_stmt
DefaultOr == OneOf(<<Or(<<"default">>, <<Words(<<"default">>), Put(None)>>), Or(<<>>, <<Operand>>)>>)
Insert ==
    <<Node("insert", <<Words(<<"insert", "into">>), Take("<name>"),
        OneOf(<<Or(<<"(">>, <<Words(<<"(">>), List(<<Take("<name>")>>), Words(<<")">>)>>), Or(<<>>, <<Put(ListOf(<<>>))>>)>>),
        OneOf(<<Or(<<"default">>, <<Words(<<"default", "values">>), Check("no columns", "UnexpectedToken"), Put(Word1("default values"))>>),
                Or(<<"values">>, <<Words(<<"values">>), List(<<Words(<<"(">>), List(<<DefaultOr>>), Words(<<")">>)>>)>>),
                Or(<<>>, <<The("query")>>)>>)>>)>>
UpdateRule ==
    <<Node("update", <<Words(<<"update">>), Take("<name>"), Words(<<"set">>),
        List(<<Node("assignment", <<Take("<name>"), Words(<<"=">>), Operand>>)>>), Clause("where")>>)>>
DeleteRule == <<Node("delete", <<Words(<<"delete", "from">>), Take("<name>"), Clause("where")>>)>>
\* copy_stmt: a table is copied as SELECT * of it.
Copy ==
    <<Node("copy", <<Words(<<"copy">>),
        OneOf(<<Or(<<"(">>, Subquery), Or(<<>>, <<Node("copied table", <<Take("<name>")>>)>>)>>),
        Words(<<"to">>), Take("<string>"),
        Maybe(<<"(">>, <<Words(<<"(", "format">>), OneOf(<<Or(<<"<string>">>, <<Take("<string>")>>), Or(<<>>, <<Take("<ident>")>>)>>), Words(<<")">>)>>)>>)>>
\* stmt
Statement ==
    <<OneOf(<<
        Or(<<"<starts query>">>, <<The("query")>>), Or(<<"(">>, <<The("query")>>),
        Or(<<"explain">>, <<Words(<<"explain">>), Node("explain", <<The("query")>>)>>),
        Or(<<"describe">>, <<Words(<<"describe">>), Node("describe", <<The("from item")>>)>>),
        Or(<<"show">>, <<Words(<<"show", "tables">>), Put(Word1("show tables"))>>),
        Or(<<"create">>, Create), Or(<<"drop">>, Drop), Or(<<"alter">>, AlterTable),
        Or(<<"insert">>, Insert), Or(<<"update">>, UpdateRule), Or(<<"delete">>, DeleteRule), Or(<<"copy">>, Copy),
        Or(<<"pivot">>, Pivot), Or(<<"unpivot">>, Unpivot),
        Or(<<>>, <<Refuse(<<>>, "UnsupportedFeature")>>)>>),
      Skip(";"), Words(<<"<eof>">>)>>
Rules == "statement" :> Statement @@ "query" :> QueryRule @@ "ctes" :> Ctes @@ "set expression" :> SetExpression
    @@ "intersection" :> Intersection @@ "select or parentheses" :> SelectOrParentheses @@ "select" :> SelectRule
    @@ "select item" :> SelectItem @@ "alias" :> Alias @@ "star modifiers" :> StarModifiers @@ "order item" :> OrderItem
    @@ "direction" :> Direction @@ "tail" :> TailRule @@ "grouping element" :> GroupingElement @@ "window definition" :> WindowDefinition
    @@ "from item" :> FromItem @@ "relation" :> Relation @@ "sample" :> Sample @@ "sample amount" :> SampleAmount
    @@ "column def" :> ColumnDef @@ "column options" :> ColumnOptions @@ "create view" :> CreateView
    @@ "prefix" :> Prefix @@ "primary" :> Primary @@ "atom" :> Atom @@ "subscript" :> Subscript @@ "exists" :> Exists
    @@ "casts" :> Casts @@ "cast body" :> CastBody @@ "case" :> CaseRule @@ "interval" :> Interval @@ "temporal" :> Temporal
    @@ "name" :> Name @@ "call" :> CallRule @@ "type" :> TypeName @@ "is" :> IsRule @@ "predicate" :> Predicate @@ "similar" :> Similar
----------------------------------------------------------------------------
\* The parser.
\* What follows is among what each token may be taken for.
Sees(on, p) == \A i \in DOMAIN on : on[i] \in p.looks[p.at + i - 1]
RowsAt == [t \in Vocabulary |-> {i \in DOMAIN InfixRows : InfixRows[i].on[1] \in Looks[t]}]
\* call_has_top_level: word, before the parenthesis that closes the one passed.
Depth(p, i, j) == Cardinality({k \in i .. j : p.ts[k] \in {"(", "["}}) - Cardinality({k \in i .. j : p.ts[k] \in {")", "]"}})
HasWithin(word, p) ==
    \E j \in p.at + 2 .. Len(p.ts) :
        /\ p.ts[j] = word /\ Depth(p, p.at + 2, j - 1) = 0
        /\ \A k \in p.at + 2 .. j - 1 : Depth(p, p.at + 2, k) >= 0
Opens(case, p) == Sees(case.on, p) /\ (case.arg = "" \/ HasWithin(case.arg, p))

Fail(p, code) == [p EXCEPT !.error = code]
Past(n, p) == [p EXCEPT !.at = @ + n]
Gather(node, p) == [p EXCEPT !.out = Append(@, node)]
Becomes(node, p) == [p EXCEPT !.out = <<node>>]
\* What q gathered, after what p had.
Within(p, q) == IF q.error # "" THEN q ELSE [q EXCEPT !.out = p.out \o @]

RECURSIVE Run(_, _)
Taken(g, p) ==
    LET here == [p EXCEPT !.out = <<>>]
        opening == {i \in DOMAIN g.then : Opens(g.then[i], p)}
        applying == {i \in RowsAt[p.ts[p.at]] : Sees(InfixRows[i].on, p)}
        row == InfixRows[Min(applying)]
    IN CASE g.do = "words" -> IF Sees(g.on, p) THEN Past(Len(g.on), p) ELSE Fail(p, g.arg)
         [] g.do = "take" -> IF Sees(g.on, p) THEN Past(1, Gather(Word1(Spelling(p.ts[p.at])), p)) ELSE Fail(p, g.arg)
         [] g.do = "skip" -> IF Sees(g.on, p) THEN Past(1, p) ELSE p
         [] g.do = "flag" -> IF Sees(g.on, p) THEN Past(1, Gather(Yes, p)) ELSE Gather(No, p)
         [] g.do = "put" -> Gather(g.arg, p)
         [] g.do = "if" -> IF Sees(g.on, p) THEN Run(g.then, p) ELSE p
         [] g.do = "while" -> IF Sees(g.on, p) THEN Run(Append(g.then, g), p) ELSE p
         [] g.do = "maybe" -> IF Sees(g.on, p) THEN Within(p, Run(g.then, here)) ELSE Gather(None, p)
         [] g.do = "one of" -> IF opening = {} THEN Fail(p, g.arg) ELSE Run(g.then[Min(opening)].then, p)
         [] g.do = "the" -> Run(Rules[g.arg], p)
         [] g.do = "node" -> Within(p, Run(g.then, here))
         [] g.do = "make" -> Becomes(Built(g.arg, p.out), p)
         [] g.do = "call" -> Becomes(Call(g.arg, p.out), p)
         [] g.do = "check" -> IF Holds(g.on[1], p.out) THEN p ELSE Fail(p, g.arg)
         [] g.do = "refuse" -> IF Sees(g.on, p) THEN Fail(p, g.arg) ELSE p
         [] g.do = "link" -> IF p.links = p.maxLinks THEN Fail(p, "ExpressionTooDeep") ELSE [p EXCEPT !.links = @ + 1]
         [] g.do = "param" -> [Past(1, Gather(Ast("param", <<Word1(ToString(p.params))>>), p)) EXCEPT !.params = @ + 1]
         [] g.do = "verbatim" ->
              LET q == Run(g.then, here)
              IN CASE q.error # "" -> q
                   [] q.error = "" /\ q.params # p.params -> Fail(q, "UnsupportedFeature")
                   [] OTHER -> [Gather(Ast("text", [i \in 1 .. q.at - p.at |-> Word1(p.ts[p.at + i - 1])]), p) EXCEPT !.at = q.at, !.links = q.links]
         [] g.do = "nested" ->
              IF p.depth = p.maxDepth THEN Fail(p, "ExpressionTooDeep")
              ELSE [Within(p, Run(g.then, [here EXCEPT !.depth = @ + 1])) EXCEPT !.depth = p.depth]
         [] g.do = "climb" -> IF applying = {} THEN p
                              ELSE IF row.level < g.arg THEN p ELSE Run(Append(row.then, g), p)
Run(steps, p) == IF steps = <<>> \/ p.error # "" THEN p ELSE Run(Tail(steps), Taken(Head(steps), p))

MaxDepth == 64
MaxLinks == 64
Parsed(words, maxDepth, maxLinks) ==
    LET ts == words \o <<"<eof>", "<eof>", "<eof>", "<eof>", "<eof>", "<eof>">>
    IN Run(<<The("statement")>>, [ts |-> ts, looks |-> [i \in DOMAIN ts |-> Looks[ts[i]]] \o <<>>, at |-> 1, depth |-> 0, links |-> 0,
                                  params |-> 0, out |-> <<>>, error |-> "", maxDepth |-> maxDepth, maxLinks |-> maxLinks])
=============================================================================
