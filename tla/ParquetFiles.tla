---------------------------- MODULE ParquetFiles ----------------------------
(***************************************************************************)
(* Parquet files to read: every way a writer may lay one out, what may be  *)
(* wrong with one, those the engine writes itself, and the structures of   *)
(* the format as a later version of it may extend them.                    *)
(***************************************************************************)
EXTENDS Shredding

Meaning(sure, val) == [sure |-> sure, val |-> val]

-----------------------------------------------------------------------------
(* A COPY: calls of the sink in the order of steps.  The file is read back *)

Step(call, schema, batch) == [call |-> call, schema |-> schema, batch |-> batch]
Taking(sink, step, groupRows) ==
    CASE step.call = "begin" -> Begin(sink, step.schema)
      [] step.call = "write" -> WriteBatch(sink, step.schema, step.batch, groupRows)
      [] step.call = "finish" -> Finish(sink)
SinkReads(p) ==
    LET end == FoldLeft(LAMBDA s, step : IF s.ok THEN Taking(s.sink, step, p.groupRows) ELSE Refused, Taken(NewSink), p.steps)
    IN  IF end.ok THEN ReadFile(end.sink.out, p.probe) ELSE Broken

\* What is read back: an INTERVAL as its text, a HUGEINT as a DECIMAL of all digits, text
\* that is not UTF-8 as bytes; everything else as it was.
BackTy(ty, column) ==
    CASE ty.is = "HugeInt" -> DecimalTy(MostDigits, 0)
      [] ty.is = "Interval" -> Ty("Varchar")
      [] ty.is = "Varchar" /\ \E i \in DOMAIN column : column[i] # <<>> /\ ~IsUtf8(column[i][1]) -> Ty("Blob")
      [] OTHER -> ty
BackValue(ty, v) == IF ty.is = "Interval" THEN [i \in DOMAIN v |-> IntervalText(v[i])] ELSE v
WrittenOf(p) == SelectSeq(p.steps, LAMBDA step : step.call = "write")
SinkMeans(p) ==
    LET schema == p.steps[1].schema
        column(c) == FlattenSeq([k \in DOMAIN WrittenOf(p) |-> WrittenOf(p)[k].batch[c]])
    IN  IF p.refused THEN Meaning(FALSE, <<>>)
        ELSE Meaning(TRUE, [c \in DOMAIN schema |->
                 [name |-> schema[c].name, ty |-> BackTy(schema[c].ty, column(c)), shape |-> AnyShape,
                  values |-> [i \in DOMAIN column(c) |-> BackValue(schema[c].ty, column(c)[i])]]])

-----------------------------------------------------------------------------
(* A structure: the fields a decoder knows among fields it does not        *)

StructureReads(p) == Decode(p.name, SubSeq(PutStruct(p.fields), 1, p.upTo), 1)

-----------------------------------------------------------------------------
(* Scans of a file for what satisfies a condition.  Whatever is left out,  *)
(* the rows that satisfy it are the same; the condition is looked at again *)
(* above the scan (plan/bind/from.rs).  The types of the table may be      *)
(* wider than those of the file.                                           *)

Cast(v, from, to) == IF IsExact(from) /\ IsExact(to) THEN v * 10^(to.s - from.s)
                     ELSE IF from.is = "Date" /\ to.is # "Date" THEN v * MicrosPerDay
                     ELSE IF to.is \in {"Float", "Double"} THEN AsFloat(v, from, to) ELSE v
Operand(e, row, types) == IF e.is = "column" THEN [v |-> row[e.column], ty |-> types[e.column]] ELSE [v |-> e.v, ty |-> e.ty]
Compares(op, a, b) ==
    LET to == Unify(a.ty, b.ty)[1]
        x == Cast(a.v[1], a.ty, to)
        y == Cast(b.v[1], b.ty, to)
    IN  IF a.v = <<>> \/ b.v = <<>> THEN "unknown"
        ELSE IF CASE op = "=" -> x = y [] op = "<>" -> x # y [] op = "<" -> x < y
                  [] op = "<=" -> x <= y [] op = ">" -> x > y [] op = ">=" -> x >= y
             THEN "true" ELSE "false"
All3(S) == IF "false" \in S THEN "false" ELSE IF "unknown" \in S THEN "unknown" ELSE "true"
Any3(S) == IF "true" \in S THEN "true" ELSE IF "unknown" \in S THEN "unknown" ELSE "false"
RECURSIVE Truth(_, _, _)
Truth(e, row, types) ==
    LET arg(i) == Operand(e.args[i], row, types)
        parts == {Truth(e.args[i], row, types) : i \in DOMAIN e.args}
        equals == {Compares("=", arg(1), arg(i)) : i \in 2..Len(e.args)}
    IN  CASE e.is \in Comparisons -> Compares(e.is, arg(1), arg(2))
          [] e.is = "between" -> All3({Compares(">=", arg(1), arg(2)), Compares("<=", arg(1), arg(3))})
          [] e.is = "in" -> Any3(equals)
          [] e.is = "and" -> All3(parts)
          [] e.is = "or" -> Any3(parts)

RowsOf(columns) == [i \in DOMAIN columns[1] |-> [c \in DOMAIN columns |-> columns[c][i]]]
Satisfying(columns, own, types, predicate) ==
    LET rows == RowsOf(columns)
        cast(row) == [c \in DOMAIN row |-> IF own[c] = types[c] THEN row[c]
                                           ELSE [k \in DOMAIN row[c] |-> Cast(row[c][k], own[c], types[c])]]
        all == [i \in DOMAIN rows |-> cast(rows[i])] \o <<>>
    IN  SelectSeq(all, LAMBDA row : Truth(predicate, row, types) = "true")
Projected(seq, projection) == [i \in DOMAIN projection |-> seq[projection[i]]]
ScanReads(p) ==
    LET file == FileOf(p.nodes, p.contents, p.how)
        open == OpenBytes(file, Len(file))
        own == Projected([c \in DOMAIN open.columns |-> open.columns[c].ty], p.projection)
        types == Projected(p.table, p.projection)
        plans == [q \in p.predicates |-> PlannedScan(file, open, p.projection, p.table, q)] @@ <<>>
        read == [s \in UNION {{<<g, plans[q][g]>> : g \in DOMAIN GroupsOf(open)} : q \in p.predicates} |->
                    ScanSplit(file, open.columns, GroupsOf(open)[s[1]], p.projection, s[2])] @@ <<>>
        rows(q) == [g \in DOMAIN plans[q] |->
                       LET scan == read[<<g, plans[q][g]>>]
                       IN  IF scan.at = 0 THEN <<"failed">>
                           ELSE IF scan.val = <<>> THEN <<>> ELSE Satisfying(scan.val, own, types, q)]
    IN  [q \in p.predicates |-> FlattenSeq(rows(q))]
ScanMeans(p) ==
    LET means == Projected(FileMeans(p.nodes, p.contents), p.projection)
        types == Projected(p.table, p.projection)
    IN  [q \in p.predicates |->
            Satisfying([c \in DOMAIN means |-> means[c].values], [c \in DOMAIN means |-> means[c].ty], types, q)]

-----------------------------------------------------------------------------
(* What a plan of this layer reads, and what that means: sure, if it must  *)
(* be read, and what it reads if it is read.                               *)

Reading(p) ==
    CASE p.task = "file" -> ReadFile(FileOf(p.nodes, p.contents, p.how), p.probe)
      [] p.task = "copy" -> SinkReads(p)
      [] p.task = "structure" -> StructureReads(p)
      [] p.task = "scan" -> Got(1, ScanReads(p))
Means(p) ==
    CASE p.task = "file" -> Meaning(p.how.harm = "none", FileMeans(p.nodes, p.contents))
      [] p.task = "copy" -> SinkMeans(p)
      [] p.task = "structure" -> Meaning(p.means # <<>>, p.means)
      [] p.task = "scan" -> Meaning(TRUE, ScanMeans(p))

-----------------------------------------------------------------------------
(* Files to read *)

FilePlan(nodes, groups, how, probe) ==
    [task |-> "file", nodes |-> nodes, how |-> how, contents |-> groups, probe |-> probe]
A == <<97>>
B == <<98>>
Samples(kind, rep) ==
    [i \in DOMAIN Kinds[kind].samples |-> <<IF rep = Required THEN i ELSE <<i>>>>]
    \o (IF rep = Required THEN <<>> ELSE <<<<<<>>>>, <<<<1>>>>>>)
SamplesOf(kind, rep, how) == FilePlan(<<Of(A, rep, kind)>>, <<Samples(kind, rep), <<>>, Samples(kind, rep)>>, how, 40)

EveryKind == {SamplesOf(kind, rep, [Plainly EXCEPT !.v2 = v2, !.enc = enc, !.codec = IF v2 THEN Codecs.NONE ELSE Codecs.GZIP]) :
                kind \in DOMAIN Kinds, rep \in {Required, Optional}, v2 \in BOOLEAN,
                enc \in {Encodings.PLAIN, Encodings.RLE_DICTIONARY}}

\* Every way to write some kinds in.
EncodingsOf == ("int" :> {Encodings.DELTA, Encodings.PLAIN_DICTIONARY}) @@ ("big" :> {Encodings.DELTA}) @@ ("bool" :> {Encodings.RLE})
               @@ ("varchar" :> {Encodings.DELTA_LENGTH, Encodings.DELTA_STRINGS, Encodings.PLAIN})
Ways(enc) == {[Plainly EXCEPT !.enc = enc, !.v2 = v2, !.codec = c, !.cut = cut, !.levels = l, !.index = l = "both"] :
                v2 \in BOOLEAN, c \in {Codecs.NONE, Codecs.SNAPPY, Codecs.GZIP}, cut \in {1, 2, 20}, l \in {"runs", "groups", "both"}}
WaysPlans ==
    UNION {LET samples == Samples(kind, Optional)
           IN  {FilePlan(<<Of(A, Optional, kind)>>, <<samples, <<>>, samples>>, how, 40) : how \in UNION {Ways(enc) : enc \in EncodingsOf[kind]}} :
             kind \in DOMAIN EncodingsOf}
\* What a reader might take for granted of a chunk and may not.
Liberties == {SamplesOf("int", rep, [Plainly EXCEPT !.v2 = v2, !.squeeze = squeeze, !.bare = TRUE, !.start = start,
                                                    !.enc = Encodings.RLE_DICTIONARY, !.codec = c]) :
                rep \in {Required, Optional}, v2 \in BOOLEAN, squeeze \in BOOLEAN, start \in {"apart", "equal", "zero"},
                c \in {Codecs.NONE, Codecs.GZIP}}
\* More values than a block of differences holds, and differences that wrap around.
Far(n) == [i \in 1..n |-> <<<<((i * i * 7) % 3) + 1>>>>]
LongRuns == {FilePlan(<<Of(A, Optional, kind)>>, <<Far(n)>>, [Plainly EXCEPT !.enc = enc, !.cut = 200, !.levels = l], 16) :
               kind \in {"int"}, enc \in {Encodings.DELTA, Encodings.RLE_DICTIONARY}, n \in {1, 32, 33, 65, 130},
               l \in {"runs", "groups", "both"}}
            \cup {FilePlan(<<Of(A, Optional, "varchar")>>, <<Far(n)>>, [Plainly EXCEPT !.enc = enc, !.cut = 70], 16) :
               enc \in {Encodings.DELTA_LENGTH, Encodings.DELTA_STRINGS}, n \in {33, 66}}

\* Lists, maps, structures: each with what its slots can be.
ListSays == Conv(3)
MapSays == Logic(<<FieldStruct(2, <<>>)>>)
L == <<108>>
E == <<101>>
Leaf1(rep) == Of(E, rep, "int")
ListOf(rep, element) == Group(A, rep, ListSays, TRUE, <<Group(L, Repeated, <<>>, TRUE, <<element>>)>>)
Listed(items) == <<[i \in DOMAIN items |-> <<items[i]>>]>>
Seqs(S, n) == UNION {[1..k -> S] : k \in 0..n}
Shape1(node, slots) == [node |-> node, slots |-> slots]
OptionalLists == {<<>>} \cup {<<Listed(s)>> : s \in Seqs({<<>>, <<2>>}, 2)}
Pair == Group(L, Repeated, <<>>, FALSE, <<Of(A, Required, "int"), Of(B, Optional, "varchar")>>)
Pairs == {<<1, <<>>>>, <<2, <<1>>>>}
Shapes ==
    [list |-> Shape1(ListOf(Optional, Leaf1(Optional)), OptionalLists),
     full |-> Shape1(ListOf(Required, Leaf1(Required)), {Listed(s) : s \in Seqs({1, 2}, 2)}),
     two |-> Shape1(Group(A, Optional, ListSays, TRUE, <<Of(L, Repeated, "big")>>), {<<>>} \cup {<<<<s>>>> : s \in Seqs({1, 2}, 2)}),
     bare |-> Shape1(Of(A, Repeated, "varchar"), Seqs({1, 2, 3}, 2)),
     array |-> Shape1(Group(A, Optional, ListSays, TRUE, <<Group(ArrayName, Repeated, <<>>, FALSE, <<Leaf1(Optional)>>)>>), OptionalLists),
     tuple |-> Shape1(Group(A, Optional, ListSays, TRUE, <<Group(A \o TupleSuffix, Repeated, <<>>, FALSE, <<Leaf1(Optional)>>)>>), OptionalLists),
     pairs |-> Shape1(Group(A, Optional, ListSays, TRUE, <<Pair>>), {<<>>} \cup {<<<<s>>>> : s \in Seqs(Pairs, 2)}),
     map |-> Shape1(Group(A, Optional, MapSays, TRUE, <<[Pair EXCEPT !.kids = <<Of(KeyName, Required, "int"), Of(ValueName, Optional, "varchar")>>]>>),
                    {<<>>} \cup {<<<<s>>>> : s \in Seqs(Pairs, 2)}),
     set |-> Shape1(Group(A, Optional, MapSays, TRUE, <<Group(L, Repeated, <<>>, FALSE, <<Leaf1(Optional)>>)>>), OptionalLists),
     nested |-> Shape1(ListOf(Optional, [ListOf(Optional, Leaf1(Optional)) EXCEPT !.name = E]),
                       {<<>>} \cup {<<Listed(s)>> : s \in Seqs({<<>>, <<Listed(<<>>)>>, <<Listed(<<<<2>>, <<>>>>)>>}, 2)}),
     within |-> Shape1(Group(A, Optional, <<>>, FALSE, <<Of(B, Optional, "varchar"), [ListOf(Optional, Leaf1(Optional)) EXCEPT !.name = E]>>),
                       {<<>>} \cup {<<<<b, l>>>> : b \in {<<>>, <<1>>}, l \in {<<>>, <<Listed(<<>>)>>, <<Listed(<<<<1>>, <<>>>>)>>}}),
     groups |-> Shape1(Group(A, Repeated, <<>>, FALSE, <<Of(B, Optional, "bool"), Of(E, Repeated, "int")>>),
                       Seqs({<<<<>>, <<>>>>, <<<<1>>, <<2, 1>>>>}, 2)),
     leaves |-> Shape1(ListOf(Optional, Of(E, Optional, "json")), {<<>>, <<Listed(<<<<1>>, <<>>, <<3>>>>)>>}),
     flat |-> Shape1(Group(A, Optional, <<>>, FALSE, <<Of(B, Required, "int"), Group(E, Optional, <<>>, FALSE, <<Of(A, Optional, "big")>>)>>),
                     {<<>>, <<<<1, <<>>>>>>, <<<<2, <<<<<<>>>>>>>>>>, <<<<2, <<<<<<2>>>>>>>>>>})]
NestedPlan(shape, slots, how) ==
    FilePlan(<<shape.node, Of(B, Optional, "int")>>, <<[i \in DOMAIN slots |-> <<slots[i], <<1>>>>]>>, how, 60)
NestedHow == {[Plainly EXCEPT !.v2 = h[1], !.codec = h[2], !.enc = h[3], !.cut = h[4], !.levels = h[5]] :
                h \in {<<FALSE, 0, 0, 1, "runs">>, <<FALSE, 2, 8, 2, "groups">>, <<TRUE, 0, 8, 20, "both">>, <<TRUE, 2, 0, 1, "groups">>}}
NestedPlans(name) ==
    LET shape == Shapes[name]
        all == FoldSet(LAMBDA s, done : Append(done, s), <<>>, shape.slots)
    IN  {NestedPlan(shape, s, how) : s \in {all, Reverse(all)}, how \in NestedHow}
        \cup {NestedPlan(shape, <<s>>, Plainly) : s \in shape.slots}

\* However much of the end of the file is asked for at first.
Probes == {[SamplesOf("int", Optional, Plainly) EXCEPT !.probe = probe] : probe \in {8, 9, 30, 100, 150, 2000}}

\* What is wrong with a file is found, whatever it is.
Harms == {"rows", "size", "short", "dictionary", "index", "levels", "encrypted", "crypto", "meta", "schema", "tail"}
Harmed == {FilePlan(<<n>>, <<<<<<v>>, <<v>>>>>>, [Plainly EXCEPT !.v2 = v2, !.codec = c, !.enc = Encodings.RLE_DICTIONARY, !.harm = harm], 40) :
             <<n, v>> \in {<<Of(A, Optional, "int"), <<1>>>>, <<ListOf(Optional, Leaf1(Optional)), <<Listed(<<<<1>>>>)>>>>},
             v2 \in BOOLEAN, c \in {0, 1, 2}, harm \in Harms}
HarmedPlans == {p \in Harmed : p.how.harm = "levels" => ~p.how.v2}

-----------------------------------------------------------------------------
(* Files to look for something in: kinds that have an order, with      *)
(* every comparison with what is there, what is not and what is just past  *)
(* it, as a constant of every type that can be compared with it.           *)

Col(c) == [is |-> "column", column |-> c]
Lit(v, ty) == [is |-> "literal", v |-> <<v>>, ty |-> ty]
NullOf(ty) == [is |-> "literal", v |-> <<>>, ty |-> ty]
Cond(is, args) == [is |-> is, args |-> args]
IntLit(v) == Lit(v, Ty(CHOOSE n \in {"Int", "BigInt", "HugeInt"} :
                        CASE n = "Int" -> v \in -128..127 [] n = "BigInt" -> v \notin -128..127 /\ v \in -32768..32767
                          [] n = "HugeInt" -> v \notin -32768..32767))
Day(t) == t \div MicrosPerDay
LiteralsOf(kind, says) ==
    LET ty == Kinds[kind].ty
        near == {v + d : v \in says \ {NaN}, d \in {0, 1}}
        floats == {v \in says : v >= 0 /\ v < 65000}
    IN  CASE IsExact(ty) -> {IntLit(v \div 10^ty.s) : v \in near} \cup {Lit(v, DecimalTy(6, ty.s)) : v \in says}
                            \cup {Lit(v * 10 + 5, DecimalTy(6, ty.s + 1)) : v \in {w \in says : w \in -9999..9999}}
                            \cup {Lit(v \div 10^ty.s, Ty("Double")) : v \in floats}
          [] ty.is \in {"Float", "Double"} ->
                 {IntLit(v) : v \in floats} \cup {Lit(v, Ty("Double")) : v \in {w \in near : w \in 0..64999} \cup {NaN}} \cup {Lit(256, Ty("Float"))}
          [] ty.is = "Time" -> {Lit(v, ty) : v \in near}
          [] ty.is = "Date" -> {Lit(v, ty) : v \in near} \cup {Lit(v * MicrosPerDay + d, Ty("Timestamp")) : v \in says, d \in {0, 1}}
          [] OTHER -> {Lit(v, Ty(n)) : v \in near, n \in {"Timestamp", "Timestamptz"}} \cup {Lit(Day(v), Ty("Date")) : v \in says}

ConditionsOn(c, ops, lits) ==
    {Cond(op, <<Col(c), l>>) : op \in ops, l \in lits} \cup {Cond(op, <<l, Col(c)>>) : op \in ops \ {"<=", ">"}, l \in lits}
SaysIn(kind) == {Says(kind, s) : s \in DOMAIN Kinds[kind].samples}

\* Two row groups, one with less in it than the other.
ScannedRows(kind) ==
    LET n == Len(Kinds[kind].samples)
        row(i) == <<<<i>>, <<(i % 3) + 1>>>>
    IN  <<<<row(1), row(1), row(1), <<<<>>, <<2>>>>, <<<<>>, <<3>>>>>>,
          [i \in 1..(n + 2) |-> IF i = 2 THEN <<<<>>, <<1>>>> ELSE row(((i - 1) % n) + 1)]>>
Guiding(stats, bloom, guide) == [Plainly EXCEPT !.stats = stats, !.bloom = bloom, !.guide = guide, !.step = 1]
Guided ==
    {<<Guiding("both", "none", FALSE), Comparisons \ {"<>"}>>,
     <<[Guiding("old", "none", TRUE) EXCEPT !.cut = 1, !.v2 = TRUE], {"=", "<", ">="}>>,
     <<[Guiding("half", "sized", TRUE) EXCEPT !.cut = 2, !.enc = Encodings.RLE_DICTIONARY, !.codec = Codecs.GZIP, !.index = TRUE], {"=", ">"}>>,
     <<[Guiding("turned", "short", FALSE) EXCEPT !.codec = Codecs.SNAPPY], {"="}>>,
     <<[Guiding("both", "long", TRUE) EXCEPT !.cut = 1, !.enc = Encodings.RLE_DICTIONARY, !.v2 = TRUE, !.start = "zero"], {"=", "<="}>>}
ScanPlan(nodes, groups, how, projection, table, predicates) ==
    [task |-> "scan", nodes |-> nodes, contents |-> groups, how |-> how, projection |-> projection,
     table |-> table, predicates |-> predicates]
OrderedKinds == {"int", "tiny", "uint", "ubig", "big", "date", "timeMillis", "millis", "nanos", "int96", "float", "double",
                 "decimal", "fixed"}
Scanned(kind) ==
    LET lits == LiteralsOf(kind, SaysIn(kind))
    IN  {ScanPlan(<<Of(A, Optional, kind), Of(B, Optional, "int")>>, ScannedRows(kind), how[1], <<1, 2>>,
                  <<Kinds[kind].ty, Ty("Int")>>, ConditionsOn(1, how[2], lits)) : how \in Guided}

\* Conditions on two columns, either beside a column of lists, in any order.
Lists == <<[ListOf(Optional, Leaf1(Optional)) EXCEPT !.name = L], <<>>, <<Listed(<<<<1>>, <<>>>>)>>>>
ThreeColumns == <<Of(A, Optional, "big"), Of(B, Required, "int"), Lists[1]>>
ThreeRows ==
    LET row(i) == <<IF i % 4 = 3 THEN <<>> ELSE <<(i % 2) + 1>>, ((i * i) % 3) + 1, Lists[(i % 2) + 2]>>
    IN  <<[i \in 1..7 |-> row(i)], <<>>, [i \in 1..2 |-> row(4 * i)]>>
Between(a, low, high) == Cond("between", <<a, low, high>>)
Among2(a, list) == Cond("in", <<a>> \o list)
Conditions(a, b) ==
    LET parts == {Cond("=", <<a, IntLit(300)>>), Cond("<", <<a, IntLit(0)>>), Between(b, IntLit(5), IntLit(6)), Cond(">", <<IntLit(5), b>>)}
        lists == {<<IntLit(300), NullOf(Ty("Int"))>>, <<IntLit(-3), IntLit(6)>>, <<NullOf(Ty("Int"))>>, <<IntLit(6), Lit(5, Ty("Double"))>>,
                   <<b, IntLit(300)>>}
    IN  {Cond("and", <<x, y>>) : x \in parts, y \in parts} \cup {Cond("or", <<x, Cond("=", <<a, IntLit(300)>>)>>) : x \in parts}
        \cup {Among2(x, list) : x \in {a, b}, list \in lists}
        \cup {Between(x, low, high) : x \in {a, b}, low \in {IntLit(-3), IntLit(6), NullOf(Ty("Int"))}, high \in {IntLit(5), IntLit(-4)}}
        \cup {Cond("<>", <<a, IntLit(300)>>), Cond("=", <<a, b>>), Cond("<", <<b, a>>), Cond("=", <<b, NullOf(Ty("Int"))>>)}
Columns3 == <<Ty("BigInt"), Ty("Int"), Ty("Json")>>
ScannedTogether ==
    {LET at(c) == Col(CHOOSE i \in DOMAIN projection : projection[i] = c)
     IN  ScanPlan(ThreeColumns, ThreeRows, how[1], projection, Columns3, Conditions(at(1), at(2))) :
        how \in Guided, projection \in {<<1, 2>>, <<3, 2, 1>>}}

\* A file of a table with wider types.
ScannedWider ==
    {ScanPlan(<<Of(A, Optional, w[1]), Of(B, Optional, "int")>>, ScannedRows(w[1]), how[1], <<2, 1>>, <<w[2], Ty("Int")>>,
              ConditionsOn(2, how[2], w[3]) \cup ConditionsOn(1, how[2], {IntLit(5)})) :
        w \in {<<"int", DecimalTy(4, 1), {Lit(50, DecimalTy(4, 1)), Lit(45, DecimalTy(4, 1)), IntLit(5)}>>,
               <<"int", Ty("BigInt"), {IntLit(127), IntLit(300)}>>, <<"date", Ty("Timestamp"), {Lit(250, Ty("Timestamp"))}>>},
        how \in Guided}

-----------------------------------------------------------------------------
(* Files to write: every type, every cutting of the rows into batches and  *)
(* row groups, every pattern of what is null, and calls out of order.      *)

NamedAs(name, ty) == [name |-> name, ty |-> ty]
Present(values) == [i \in DOMAIN values |-> <<values[i]>>]
Written(ty) ==
    CASE ty.is = "Boolean" -> <<TRUE, FALSE, TRUE>>
      [] ty.is = "Decimal" -> <<1 - 10^ty.p, 10^ty.p - 1, 0>>
      [] ty.is = "HugeInt" -> <<1 - 10^MostDigits, 10^MostDigits - 1, -1>>
      [] ty.is \in {"Int", "Date"} -> <<-(2^(IntBits - 1)), 2^(IntBits - 1) - 1, -1>>
      [] ty.is \in {"BigInt", "Time", "Timestamp", "Timestamptz"} -> <<-(2^(2 * IntBits - 1)), 2^(2 * IntBits - 1) - 1, 256>>
      [] ty.is = "TinyInt" -> <<-8, 7, 0>>
      [] ty.is = "SmallInt" -> <<-32, 31, -1>>
      [] ty.is \in {"UTinyInt", "USmallInt"} -> <<15, 0, 3>>
      [] ty.is = "UInt" -> <<2^IntBits - 1, 0, 128>>
      [] ty.is = "UBigInt" -> <<2^(2 * IntBits) - 1, 0, 2^(2 * IntBits - 1)>>
      [] ty.is = "Float" -> <<768, 0, 256>>
      [] ty.is = "Double" -> <<513, 0, 2>>
      [] ty.is = "Uuid" -> <<<<1, 2, 3>>, <<255, 0, 128>>, <<0, 0, 0>>>>
      [] ty.is = "Interval" -> <<<<1, 2, 300>>, <<0, 31, 5>>, <<0, 0, 0>>>>
      [] OTHER -> <<<<97, 98>>, <<>>, <<97>>>>
WrittenTypes ==
    {Ty(n) : n \in {"Boolean", "Int", "BigInt", "TinyInt", "SmallInt", "UTinyInt", "USmallInt", "UInt", "UBigInt", "HugeInt",
                    "Float", "Double", "Varchar", "Blob", "Json", "Date", "Time", "Timestamp", "Timestamptz", "Uuid", "Interval"}}
    \cup {DecimalTy(3, 1), DecimalTy(4, 0), DecimalTy(MostDigits, 2)}

CopyPlan(steps, groupRows, refused) ==
    [task |-> "copy", steps |-> steps, groupRows |-> groupRows, refused |-> refused, probe |-> 40]
Wrote(schema, batches, groupRows) ==
    CopyPlan(<<Step("begin", schema, <<>>)>> \o [b \in DOMAIN batches |-> Step("write", schema, batches[b])]
             \o <<Step("finish", schema, <<>>)>>, groupRows, FALSE)
\* The columns cut after each of the rows in cuts.
CutAfter(columns, cuts) ==
    [b \in 1..(Len(cuts) + 1) |->
        [c \in DOMAIN columns |-> SubSeq(columns[c], IF b = 1 THEN 1 ELSE cuts[b - 1] + 1,
                                         IF b > Len(cuts) THEN Len(columns[c]) ELSE cuts[b])]]

Cuttings == {<<>>, <<0>>, <<1, 1, 3>>, <<2, 4>>}
CopiedTypes ==
    {LET values == Present(Written(ty)) IN Wrote(<<NamedAs(A, ty)>>, CutAfter(<<values \o <<<<>>>> \o values>>, cuts), rows) :
        ty \in WrittenTypes, cuts \in Cuttings, rows \in {1, 3, 100}}
\* Text that is not UTF-8 shows up in the first batch, or in a later row group than the first.
NotText == Present(<<<<97>>, <<>>, <<200, 97>>, <<98>>>>)
CopiedTexts ==
    {Wrote(<<NamedAs(A, Ty(n)), NamedAs(B, Ty("Int"))>>, CutAfter(<<texts, Present(<<1, 2, 3, 4>>)>>, cuts), rows) :
        n \in {"Varchar", "Blob"}, texts \in {NotText, Reverse(NotText)}, cuts \in Cuttings, rows \in {1, 3, 100}}
\* Runs of what is there and what is not, about the eight that make a run.
RunSizes == {0, 1, 7, 8, 9}
Runned(a, b, c) == Repeat(a, <<1>>) \o Repeat(b, <<>>) \o Repeat(c, <<2>>)
CopiedRuns ==
    {Wrote(<<NamedAs(A, Ty("Int"))>>, <<<<Runned(a, b, c)>>>>, 100) : a \in RunSizes, b \in RunSizes, c \in RunSizes}

\* A sink refuses what is not a table of the schema it began with.
Ints(n) == Present([i \in 1..n |-> i])
OneInt == <<NamedAs(A, Ty("Int"))>>
TwoInts == <<NamedAs(A, Ty("Int")), NamedAs(B, Ty("Int"))>>
Narrow == <<NamedAs(A, DecimalTy(3, 1))>>
Begun(schema) == Step("begin", schema, <<>>)
OneBatch(schema, batch) == Step("write", schema, batch)
Ended == Step("finish", OneInt, <<>>)
RefusedCalls ==
    {<<Begun(<<>>), Ended>>, <<OneBatch(OneInt, <<Ints(1)>>)>>, <<Ended>>, <<Begun(OneInt), Begun(OneInt)>>,
     <<Begun(OneInt), OneBatch(TwoInts, <<Ints(2), Ints(2)>>), Ended>>,
     <<Begun(TwoInts), OneBatch(TwoInts, <<Ints(2), Ints(1)>>), Ended>>,
     <<Begun(TwoInts), OneBatch(TwoInts, <<Ints(2)>>), Ended>>,
     <<Begun(Narrow), OneBatch(Narrow, <<Present(<<5, 1000>>)>>), Ended>>,
     <<Begun(Narrow), OneBatch(Narrow, <<Present(<<-1000>>)>>), Ended>>,
     <<Begun(OneInt), Ended, OneBatch(OneInt, <<Ints(1)>>)>>, <<Begun(OneInt), Ended, Ended>>}
RefusedCopies == {CopyPlan(steps, rows, TRUE) : steps \in RefusedCalls, rows \in {1, 100}}

-----------------------------------------------------------------------------
(* Structures a later version of the format may write: fields this engine  *)
(* does not know, of any type and anywhere, are passed over; a structure   *)
(* that ends early is not one, nor one that is nested too deep.            *)

UnknownIds == {9, 40, -3}
Element(type) == CASE type \in {Types.true, Types.false, Types.i8} -> <<2>>
                   [] type = Types.double -> Repeat(8, 200)
                   [] type = Types.binary -> <<2, 0, 44>>
                   [] type = Types.struct -> PutStruct(<<FieldBool(2, TRUE), FieldI32(3, 300)>>)
                   [] type \in {Types.list, Types.set} -> <<ListHeader(Types.true, 2)[1], 1, 2>>
                   [] type = Types.map -> <<1, Types.i8 * 16 + Types.binary, 12, 1, 0>>
                   [] OTHER -> PutZigzag(-300)
AnyType == {Types[t] : t \in DOMAIN Types \ {"stop"}}
Elemental(n, type) == FlattenSeq(Repeat(n, Element(type)))
UnknownOf(id) ==
    {Item(id, type, IF type \in {Types.true, Types.false} THEN <<>> ELSE Element(type)) : type \in AnyType}
    \cup {Item(id, ltype, ListHeader(type, n) \o Elemental(n, type)) :
             ltype \in {Types.list, Types.set}, type \in AnyType, n \in {0, 1, 15}}
    \cup {Item(id, Types.map, <<0>>)}
    \cup {Item(id, Types.map, <<1, key * 16 + type>> \o Element(key) \o Element(type)) :
             key \in {Types.i32, Types.binary, Types.true}, type \in AnyType}

StructurePlan(name, fields, means) ==
    LET n == Len(PutStruct(fields))
    IN  [task |-> "structure", name |-> name, fields |-> fields, upTo |-> n, means |-> means]
Location == <<FieldI64(1, 300), FieldI32(2, 70), FieldI64(3, 2^29)>>
LocationMeans == (1 :> 300 @@ 2 :> 70 @@ 3 :> 2^29)
Among(fields, k, unknown) == SubSeq(fields, 1, k) \o <<unknown>> \o SubSeq(fields, k + 1, Len(fields))
UnknownAnywhere ==
    {StructurePlan("PageLocation", Among(fields, k, unknown), LocationMeans) :
        fields \in {Location, Reverse(Location)}, k \in {0, 2, 3}, unknown \in UNION {UnknownOf(id) : id \in UnknownIds}}

Bounds ==
    [Statistics |-> <<<<FieldBinary(1, <<7>>), FieldI64(3, 2), FieldBinary(5, <<>>), FieldBinary(6, <<1, 2>>),
                        FieldBool(7, FALSE), FieldBool(8, TRUE)>>,
                      (1 :> <<7>> @@ 3 :> 2 @@ 5 :> <<>> @@ 6 :> <<1, 2>> @@ 7 :> FALSE @@ 8 :> TRUE)>>,
     ColumnIndex |-> <<<<FieldList(1, Types.true, <<<<1>>, <<2>>>>), FieldList(2, Types.binary, <<<<1, 7>>, <<0>>>>),
                         FieldList(3, Types.binary, <<<<1, 9>>, <<0>>>>), FieldI32(4, 1),
                         FieldList(5, Types.i64, <<<<0>>, <<6>>>>)>>,
                       (1 :> <<TRUE, FALSE>> @@ 2 :> <<<<7>>, <<>>>> @@ 3 :> <<<<9>>, <<>>>> @@ 4 :> 1 @@ 5 :> <<0, 3>>)>>,
     LogicalType |-> <<TimeMember(8, TRUE), (8 :> (1 :> TRUE @@ 2 :> (2 :> TRUE)))>>]
CutShort == UNION {LET of == Bounds[name]
                  n == Len(PutStruct(of[1]))
              IN  {[StructurePlan(name, of[1], IF k = n THEN of[2] ELSE <<>>) EXCEPT !.upTo = k] : k \in 0..n} :
                name \in DOMAIN Bounds}

\* n structures, or lists, around a number, the only thing in each.
One(type) == FieldHeader(9, 0, type)
Within(n, how) ==
    IF how = "struct"
    THEN Item(9, Types.struct, FlattenSeq(Repeat(n - 1, One(Types.struct))) \o One(Types.i32) \o PutZigzag(1) \o Repeat(n, Types.stop))
    ELSE Item(9, Types.list, FlattenSeq(Repeat(n - 1, ListHeader(Types.list, 1))) \o ListHeader(Types.i32, 1) \o PutZigzag(1))
DeepPlans ==
    {StructurePlan("PageLocation", <<Within(n, how), FieldI64(1, 300)>>, IF n < MaxDepth THEN (1 :> 300) ELSE <<>>) :
        n \in {1, MaxDepth - 1, MaxDepth, MaxDepth + 1}, how \in {"struct", "list"}}
=============================================================================
