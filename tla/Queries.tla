------------------------------- MODULE Queries -------------------------------
(***************************************************************************)
(* What a query says, read without joins, keys or hidden columns: the      *)
(* subquery of a row is asked again for that row; and what the nodes of a  *)
(* plan return (plan/mod.rs, Node).  Binder turns the one into the other.  *)
(*                                                                         *)
(* An expression is [is, args, ...] with the subquery in `query`, a query  *)
(* [from, where, items, group, sets, having, distinct, on, order, limit,   *)
(* offset], its WHERE split at AND.  A value is Nil or a number, a truth   *)
(* value 0, 1 or Nil.  Types are all the same.                             *)
(***************************************************************************)
EXTENDS Operator

Nil == -1
TwoRows == -9                     \* in place of a row: a scalar subquery had two
Failure == <<<<TwoRows>>>>

And3(x, y) == CASE 0 \in {x, y} -> 0 [] Nil \in {x, y} -> Nil [] OTHER -> 1
Not3(x) == IF x = Nil THEN Nil ELSE 1 - x
Truth(b) == IF b THEN 1 ELSE 0
Compares == {"=", "<>", "<", "<=", ">", ">="}
Compared(op, x, y) ==
    IF Nil \in {x, y} THEN Nil
    ELSE Truth(CASE op = "=" -> x = y [] op = "<>" -> x # y [] op = "<" -> x < y
                 [] op = "<=" -> x <= y [] op = ">" -> x > y [] op = ">=" -> x >= y)
Function(op, x) ==
    CASE op \in Compares -> Compared(op, x[1], x[2])
      [] op = "and" -> And3(x[1], x[2])
      [] op = "or" -> Not3(And3(Not3(x[1]), Not3(x[2])))
      [] op = "not" -> Not3(x[1])
      [] op = "is null" -> Truth(x[1] = Nil)
      [] op = "coalesce" -> IF x[1] = Nil THEN x[2] ELSE x[1]
      [] op = "+" -> IF Nil \in Range(x) THEN Nil ELSE x[1] + x[2]
      [] op = "case" -> LET hit == {i \in DOMAIN x : i % 2 = 1 /\ i < Len(x) /\ x[i] = 1}
                        IN IF hit = {} THEN Last(x) ELSE x[Min(hit) + 1]

Distinct(rows) == FoldLeft(LAMBDA acc, r : IF Contains(acc, r) THEN acc ELSE Append(acc, r), <<>>, rows)
Each(f(_), s) == <<>> \o [i \in DOMAIN s |-> f(s[i])]

\* An aggregate of the values of a group's rows.
Aggregated(kind, xs) ==
    LET known == Where(xs, LAMBDA x : x # Nil)
    IN CASE kind = "count star" -> Len(xs)
         [] kind = "count" -> Len(known)
         [] kind # "count" /\ known = <<>> -> Nil
         [] kind = "sum" -> FoldLeft(+, 0, known)
         [] kind = "min" -> Min(Range(known))
         [] kind = "max" -> Max(Range(known))

\* The rows by their keys, NULLs last and first under DESC, equal ones as they came.
SortsBefore(a, b, descending) ==
    LET d == {i \in DOMAIN a : a[i] # b[i]}
        x == a[Min(d)]
        y == b[Min(d)]
    IN /\ d # {}
       /\ IF Nil \in {x, y} THEN (y = Nil) # descending[Min(d)] ELSE (x < y) # descending[Min(d)]
SortedBy(rows, key(_), descending) ==
    FoldLeft(LAMBDA acc, r :
                LET later == {i \in DOMAIN acc : SortsBefore(key(r), key(acc[i]), descending)}
                IN IF later = {} THEN Append(acc, r) ELSE InsertAt(acc, Min(later), r),
             <<>>, rows)
FirstOfEach(rows, key(_)) ==
    FoldLeft(LAMBDA acc, r : IF \E i \in DOMAIN acc : key(acc[i]) = key(r) THEN acc ELSE Append(acc, r), <<>>, rows)
Sliced(rows, limit, offset) ==
    SubSeq(rows, offset + 1, IF limit = -1 THEN Len(rows) ELSE Min({Len(rows), offset + limit}))
----------------------------------------------------------------------------
\* Names.  A scope is a sequence of [rel, name, nullable]; a column reference
\* has rel "" if it is not qualified.
RECURSIVE Nodes(_)
Nodes(e) == <<e>> \o FlattenSeq(Each(Nodes, e.args))
NodesOf(es) == FlattenSeq(Each(Nodes, es))
Subqueries == {"scalar", "exists", "in query", "quantified"}
OfKind(es, kinds) == Distinct(Where(NodesOf(es), LAMBDA e : e.is \in kinds))
Columns(e) == Range(OfKind(<<e>>, {"col"}))
Found(scope, c) == {i \in DOMAIN scope : scope[i].name = c.name /\ c.rel \in {"", scope[i].rel}}

\* The output column of that name: what is AS it, or else just called it; the
\* last of several.  A field has name and aliased.
OutputColumn(c, fields) ==
    LET named == {i \in DOMAIN fields : fields[i].name = c.name}
        explicit == {i \in named : fields[i].aliased}
    IN CASE c.is # "col" \/ c.rel # "" \/ named = {} -> 0
         [] explicit # {} -> Max(explicit)
         [] OTHER -> Max(named)
NameOf(item) == [name |-> CASE item.alias # "" -> item.alias [] item.expr.is = "col" -> item.expr.name [] OTHER -> "",
                 aliased |-> item.alias # ""]

\* The same expression, however its columns are spelled.
RECURSIVE Canonical(_, _)
Canonical(e, scope) ==
    CASE e.is = "col" -> IF Cardinality(Found(scope, e)) = 1
                         THEN [is |-> "slot", args |-> <<>>, column |-> CHOOSE i \in Found(scope, e) : TRUE] ELSE e
      [] OTHER -> [e EXCEPT !.args = Each(LAMBDA a : Canonical(a, scope), @)]
SameIn(scope, e, f) == Canonical(e, scope) = Canonical(f, scope)
HasAlias(item, e) == e.is = "col" /\ e.rel = "" /\ item.alias # "" /\ item.alias = e.name
\* GROUP BY a name: a column of FROM, or else what a select item calls so.
GroupRef(q, scope, e) ==
    LET called == {i \in DOMAIN q.items : HasAlias(q.items[i], e)}
    IN CASE e.is = "const" -> q.items[e.value].expr
         [] e.is = "col" /\ Found(scope, e) = {} /\ called # {} -> q.items[Min(called)].expr
         [] OTHER -> e
----------------------------------------------------------------------------
\* FROM: its columns and, in the reading, its rows.
RECURSIVE ScopeOf(_), FieldsOf(_), Says(_, _)
Padded(scope, pads) == IF pads THEN Each(LAMBDA f : [f EXCEPT !.nullable = TRUE], scope) ELSE scope
ScopeOf(f) ==
    CASE f.is = "table" -> Each(LAMBDA c : [rel |-> f.alias] @@ c, plan.tables[f.name].columns)
      [] f.is = "query" -> Each(LAMBDA c : [rel |-> f.alias, name |-> c.name, nullable |-> c.nullable], FieldsOf(f.query))
      [] f.is = "join" -> Padded(ScopeOf(f.left), f.kind \in {"right", "full"})
                          \o Padded(ScopeOf(f.right), f.kind \in {"left", "full"})
\* The output columns of a query: what is computed may be NULL.
FieldsOf(q) ==
    IF q.is = "set"
    THEN LET l == FieldsOf(q.left)
             r == FieldsOf(q.right)
         IN [i \in DOMAIN l |-> [l[i] EXCEPT !.nullable = @ \/ r[i].nullable]]
    ELSE FlattenSeq(Each(LAMBDA it : IF it.expr.is = "star"
                                     THEN Each(LAMBDA c : [name |-> c.name, nullable |-> c.nullable, aliased |-> FALSE], ScopeOf(q.from))
                                     ELSE <<NameOf(it) @@ [nullable |-> TRUE]>>, q.items))

\* A frame is a row with the names of its columns; the first frame that has the
\* name means it.  Within a group: its rows, the expressions that made it, and
\* which of them count in this grouping set.
NoGroup == [rows |-> <<>>, keys |-> <<>>, set |-> {}, scope |-> <<>>, grouped |-> FALSE]
RECURSIVE Meaning(_, _, _)
Membership(x, op, rows, all) ==
    LET answers == Each(LAMBDA r : Compared(op, x, r[1]), rows)
    IN IF all THEN FoldLeft(And3, 1, answers) ELSE Not3(FoldLeft(And3, 1, Each(Not3, answers)))
Subquery(e, frames, x) ==
    With(Says(e.query, frames), LAMBDA rows :
      CASE rows = Failure \/ TwoRows \in Range(x) -> TwoRows
        [] e.is = "scalar" /\ rows # Failure -> IF rows = <<>> THEN Nil ELSE IF Len(rows) = 1 THEN rows[1][1] ELSE TwoRows
        [] e.is = "exists" -> Truth((rows = <<>>) = e.negated)
        [] e.is = "in query" -> IF e.negated THEN Not3(Membership(x[1], "=", rows, FALSE)) ELSE Membership(x[1], "=", rows, FALSE)
        [] e.is = "quantified" -> Membership(x[1], e.op, rows, e.all))
InGroup(frames, g, r) == [frames EXCEPT ![1].row = r]
KeyIn(g, e) == {i \in DOMAIN g.keys : g.grouped /\ SameIn(g.scope, g.keys[i], e)}
\* Within a group a name that is none of its keys is what a select item calls so.
Aliased(e, g) == {i \in DOMAIN g.items : g.grouped /\ HasAlias(g.items[i], e)}
Meaning(e, frames, g) ==
    LET x == Each(LAMBDA a : Meaning(a, frames, g), e.args)
        at == Min({i \in DOMAIN frames : Found(frames[i].scope, e) # {}})
        bits == Each(LAMBDA a : IF KeyIn(g, a) \cap g.set = {} THEN 1 ELSE 0, e.args)
    IN CASE KeyIn(g, e) # {} -> IF KeyIn(g, e) \cap g.set = {} THEN Nil ELSE Meaning(e, frames, NoGroup)
         [] e.is = "agg" -> Aggregated(e.kind, Each(LAMBDA r : IF e.args = <<>> THEN 1
                                                             ELSE Meaning(e.args[1], InGroup(frames, g, r), NoGroup), g.rows))
         [] e.is = "grouping" -> FoldLeft(LAMBDA acc, b : 2 * acc + b, 0, bits)
         [] e.is = "col" /\ KeyIn(g, e) = {} ->
              IF g.grouped /\ Aliased(e, g) # {} THEN Meaning(g.items[Min(Aliased(e, g))].expr, frames, g)
              ELSE frames[at].row[CHOOSE i \in Found(frames[at].scope, e) : TRUE]
         [] e.is = "const" -> e.value
         [] e.is \in Subqueries -> Subquery(e, frames, x)
         [] OTHER -> IF TwoRows \in Range(x) THEN TwoRows ELSE Function(e.is, x)
----------------------------------------------------------------------------
Nulls(n) == [i \in 1..n |-> Nil]
\* A join, by what two rows are asked; the rows without a match as the kind says.
JoinRows(kind, l, r, lw, rw, Matches(_, _)) ==
    LET with(a) == Where(r, LAMBDA b : Matches(a, b))
        left == FlattenSeq(Each(LAMBDA a : IF with(a) # <<>> THEN Each(LAMBDA b : a \o b, with(a))
                                           ELSE IF kind \in {"left", "full"} THEN <<a \o Nulls(rw)>> ELSE <<>>, l))
        lonely == Where(r, LAMBDA b : \A i \in DOMAIN l : ~Matches(l[i], b))
    IN CASE kind = "semi" -> Where(l, LAMBDA a : with(a) # <<>>)
         [] kind = "anti" -> Where(l, LAMBDA a : with(a) = <<>>)
         [] OTHER -> left \o (IF kind \in {"right", "full"} THEN Each(LAMBDA b : Nulls(lw) \o b, lonely) ELSE <<>>)
SetRows(kind, all, l, r) ==
    LET Held(rows, x, n) == Cardinality({i \in 1..n : rows[i] = x})
        Nth(i) == Held(l, l[i], i)
        kept == IF kind = "intersect" THEN {i \in DOMAIN l : Nth(i) <= Held(r, l[i], Len(r))}
                ELSE {i \in DOMAIN l : Nth(i) > Held(r, l[i], Len(r))}
        picked == Each(LAMBDA i : l[i], Where(Positions(Len(l)), LAMBDA i : i \in kept))
    IN CASE kind = "union" /\ all -> l \o r
         [] kind = "union" /\ ~all -> Distinct(l \o r)
         [] kind # "union" /\ all -> picked
         [] kind = "intersect" /\ ~all -> Distinct(Where(l, LAMBDA x : Contains(r, x)))
         [] OTHER -> Distinct(Where(l, LAMBDA x : ~Contains(r, x)))

RECURSIVE FromRows(_, _)
FromRows(f, frames) ==
    CASE f.is = "table" -> plan.tables[f.name].rows
      [] f.is = "query" -> Says(f.query, <<>>)
      [] f.is = "join" ->
           LET scope == ScopeOf(f)
               Matches(a, b) == \A i \in DOMAIN f.on : Meaning(f.on[i], <<[scope |-> scope, row |-> a \o b]>>, NoGroup) = 1
           IN JoinRows(f.kind, FromRows(f.left, frames), FromRows(f.right, frames),
                       Len(ScopeOf(f.left)), Len(ScopeOf(f.right)), Matches)

Grouped(q) == q.group # <<>> \/ q.sets # <<>> \/
              OfKind(Each(LAMBDA i : i.expr, q.items) \o q.having \o Each(LAMBDA o : o.expr, q.order), {"agg"}) # <<>>

\* The groups a query makes of its rows, for each grouping set in turn; without
\* a key there is one, even of no rows.
GroupsOf(q, rows, frames, scope) ==
    With(IF q.sets = <<>> THEN <<q.group>> ELSE q.sets, LAMBDA sets :
    With(Each(LAMBDA s : Each(LAMBDA e : GroupRef(q, scope, e), s), sets), LAMBDA refs :
    With(FlattenSeq(refs), LAMBDA keys :
    LET KeyOf(s, r) == Each(LAMBDA e : Meaning(e, <<[scope |-> scope, row |-> r]>> \o frames, NoGroup), s)
        One(s, members) == [rows |-> members, keys |-> keys, scope |-> scope, grouped |-> TRUE, items |-> q.items,
                            set |-> {i \in DOMAIN keys : \E j \in DOMAIN s : SameIn(scope, s[j], keys[i])}]
        Groups(s) == IF s = <<>> THEN <<One(s, rows)>>
                     ELSE Each(LAMBDA k : One(s, Where(rows, LAMBDA r : KeyOf(s, r) = k)),
                               Distinct(Each(LAMBDA r : KeyOf(s, r), rows)))
    IN FlattenSeq(Each(Groups, refs)))))

SetSays(q, l, r) ==
    IF Failure \in {l, r} THEN Failure
    ELSE Sliced(SortedBy(SetRows(q.kind, q.all, l, r), LAMBDA x : Each(LAMBDA o : x[o.expr.value], q.order),
                         Each(LAMBDA o : o.desc, q.order)), q.limit, q.offset)

\* What HAVING is asked of: a row, or a group of rows.
UnitRow(u, scope) == IF u.rows = <<>> THEN Nulls(Len(scope)) ELSE u.rows[1]
UnitValue(u, e, frames, scope) == Meaning(e, <<[scope |-> scope, row |-> UnitRow(u, scope)]>> \o frames, u)
\* ORDER BY and DISTINCT ON a name: an output column, or else an expression.
OutputKey(o, e, fields, frames, scope) ==
    CASE e.is = "const" -> o.row[e.value]
      [] e.is # "const" /\ OutputColumn(e, fields) # 0 -> o.row[OutputColumn(e, fields)]
      [] OTHER -> UnitValue(o.unit, e, frames, scope)
SelectSays(q, frames, scope, rows) ==
    With(Each(LAMBDA r : Each(LAMBDA c : Meaning(c, <<[scope |-> scope, row |-> r]>> \o frames, NoGroup), q.where), rows), LAMBDA asked :
    With(Each(LAMBDA i : rows[i], Where(Positions(Len(rows)), LAMBDA i : \A j \in DOMAIN asked[i] : asked[i][j] = 1)), LAMBDA input :
    With(IF Grouped(q) THEN GroupsOf(q, input, frames, scope)
         ELSE Each(LAMBDA r : [NoGroup EXCEPT !.rows = <<r>>], input), LAMBDA units :
    With(Each(LAMBDA u : Each(LAMBDA e : UnitValue(u, e, frames, scope), q.having), units), LAMBDA had :
    LET having == Each(LAMBDA i : units[i], Where(Positions(Len(units)), LAMBDA i : \A j \in DOMAIN had[i] : had[i][j] = 1))
        Output(u) == FlattenSeq(Each(LAMBDA it : IF it.expr.is = "star" THEN UnitRow(u, scope)
                                                 ELSE <<UnitValue(u, it.expr, frames, scope)>>, q.items))
    IN With(Each(LAMBDA u : [row |-> Output(u), unit |-> u], having), LAMBDA outputs :
    LET KeysOf1(o, es) == Each(LAMBDA e : OutputKey(o, e, FieldsOf(q), frames, scope), es)
    IN With(SortedBy(outputs, LAMBDA o : KeysOf1(o, Each(LAMBDA k : k.expr, q.order)), Each(LAMBDA k : k.desc, q.order)), LAMBDA ordered :
    LET one == CASE q.on # <<>> -> FirstOfEach(ordered, LAMBDA o : KeysOf1(o, q.on))
                 [] q.on = <<>> /\ q.distinct -> FirstOfEach(ordered, LAMBDA o : o.row)
                 [] OTHER -> ordered
    IN IF \/ rows = Failure \/ \E i \in DOMAIN asked : Contains(asked[i], TwoRows)
          \/ \E i \in DOMAIN had : Contains(had[i], TwoRows)
          \/ \E i \in DOMAIN outputs : Contains(outputs[i].row, TwoRows)
       THEN Failure ELSE Each(LAMBDA o : o.row, Sliced(one, q.limit, q.offset))))))))

Says(q, frames) ==
    IF q.is = "set" THEN SetSays(q, Says(q.left, frames), Says(q.right, frames))
    ELSE SelectSays(q, frames, ScopeOf(q.from), FromRows(q.from, frames))
----------------------------------------------------------------------------
\* Nodes.  `in` are the inputs, `exprs` all programs of the node, over the
\* columns of its input; `width` is how many columns it returns.
Slot(i) == [is |-> "slot", args |-> <<>>, column |-> i]
Slots(from, to) == [i \in 1..(to - from + 1) |-> Slot(from + i - 1)]
Node(kind, in, exprs, width) == [is |-> kind, in |-> in, exprs |-> exprs, width |-> width]
Scan(t, columns) == [table |-> t, columns |-> columns] @@ Node("scan", <<>>, <<>>, Len(columns))
FilterNode(n, e) == Node("filter", <<n>>, <<e>>, n.width)
ProjectNode(n, es) == Node("project", <<n>>, es, Len(es))
JoinNode(l, r, kind, lk, rk, residual) ==
    [kind |-> kind, left |-> lk, right |-> rk, residual |-> residual]
    @@ Node("join", <<l, r>>, lk \o rk \o residual, IF kind \in {"semi", "anti", "anti null aware"} THEN l.width ELSE l.width + r.width)
\* aggs are [kind, args]
AggregateNode(n, groups, aggs) ==
    [groups |-> groups, aggs |-> aggs]
    @@ Node("aggregate", <<n>>, groups \o FlattenSeq(Each(LAMBDA a : a.args, aggs)), Len(groups) + Len(aggs))
SetNode(l, r, kind, all) == [kind |-> kind, all |-> all] @@ Node("set", <<l, r>>, <<>>, l.width)
LimitNode(n, limit, offset) == [limit |-> limit, offset |-> offset] @@ Node("limit", <<n>>, <<>>, n.width)
AssertNode(n, keys) == Node("assert max one row", <<n>>, keys, n.width)
DistinctOnNode(n, keys) == Node("distinct on", <<n>>, keys, n.width)
SortNode(n, keys, desc, limit) == [desc |-> desc, limit |-> limit] @@ Node("sort", <<n>>, keys, n.width)

RECURSIVE Value(_, _), Returned(_)
Value(e, row) == CASE e.is = "slot" -> row[e.column]
                   [] e.is = "const" -> e.value
                   [] OTHER -> Function(e.is, Each(LAMBDA a : Value(a, row), e.args))
ValuesOf(es, row) == Each(LAMBDA e : Value(e, row), es)

\* exec::join, row by row: NULL keys match nothing; without keys all rows do.
JoinReturns(n, l, r) ==
    LET Matches(a, b) == /\ \A i \in DOMAIN n.left : Compared("=", Value(n.left[i], a), Value(n.right[i], b)) = 1
                         /\ \A i \in DOMAIN n.residual : Value(n.residual[i], a \o b) = 1
        nullOf(keys, row) == Nil \in Range(ValuesOf(keys, row))
        inSet(a) == r # <<>> /\ (nullOf(n.left, a) \/ \E i \in DOMAIN r : Matches(a, r[i]))
    IN IF n.kind = "anti null aware"
       THEN IF \E i \in DOMAIN r : nullOf(n.right, r[i]) THEN <<>> ELSE Where(l, LAMBDA a : ~inSet(a))
       ELSE JoinRows(n.kind, l, r, n.in[1].width, n.in[2].width, Matches)

AggregateReturns(n, rows) ==
    LET members(k) == Where(rows, LAMBDA r : ValuesOf(n.groups, r) = k)
        Row(k, ms) == k \o Each(LAMBDA a : Aggregated(a.kind, Each(LAMBDA r : IF a.args = <<>> THEN 1 ELSE Value(a.args[1], r), ms)), n.aggs)
    IN IF n.groups = <<>> THEN <<Row(<<>>, rows)>>
       ELSE Each(LAMBDA k : Row(k, members(k)), Distinct(Each(LAMBDA r : ValuesOf(n.groups, r), rows)))

Returned(n) ==
    LET ins == IF n.is = "limit" /\ n.limit = 0 THEN <<<<>>>> ELSE Each(Returned, n.in)
        x == ins[1]
        Key(r) == ValuesOf(n.exprs, r)
    IN CASE n.is = "scan" -> Each(LAMBDA r : Each(LAMBDA i : r[i], n.columns), plan.tables[n.table].rows)
         [] n.is # "scan" /\ Failure \in Range(ins) -> Failure
         [] n.is = "filter" -> Where(x, LAMBDA r : Value(n.exprs[1], r) = 1)
         [] n.is = "project" -> Each(LAMBDA r : ValuesOf(n.exprs, r), x)
         [] n.is = "join" -> JoinReturns(n, x, ins[2])
         [] n.is = "aggregate" -> AggregateReturns(n, x)
         [] n.is = "set" -> SetRows(n.kind, n.all, x, ins[2])
         [] n.is = "limit" -> Sliced(x, n.limit, n.offset)
         [] n.is = "distinct on" -> FirstOfEach(x, Key)
         [] n.is = "assert max one row" -> IF Len(FirstOfEach(x, Key)) < Len(x) THEN Failure ELSE x
         [] n.is = "sort" -> Sliced(SortedBy(x, Key, n.desc), n.limit, 0)
=============================================================================
