------------------------------- MODULE Binder -------------------------------
(***************************************************************************)
(* The binder: a query becomes a tree of nodes, its subqueries joins.      *)
(* (plan/bind.rs, bind/select.rs, bind/subquery.rs, bind/from.rs).  What   *)
(* is bound so far is [node, scope, subs], subs saying which column holds  *)
(* an expression already computed.  An expression that cannot be compiled  *)
(* and a shape the binder refuses leave a refused leaf in the plan.        *)
(***************************************************************************)
EXTENDS Queries

\* The root of the plan of a query: Bind's node, seen through a constant so that
\* TLC does not unfold all of the binder in the action.
CONSTANT RootOf(_)

Refusal == [is |-> "refused", args |-> <<>>]
RefusedNode == Node("refused", <<>>, <<Refusal>>, 0)
RECURSIVE IsRefused(_)
IsRefused(n) == \/ OfKind(n.exprs, {"refused"}) # <<>>
                \/ \E i \in DOMAIN n.in : IsRefused(n.in[i])

\* compile_with_subs: against the columns of a scope, what was computed before
\* taken from its column.
Sub(e, column, scope) == [expr |-> e, column |-> column, scope |-> scope]
RECURSIVE Compiled(_, _, _)
Compiled(e, scope, subs) ==
    LET hit == {i \in DOMAIN subs : SameIn(subs[i].scope, subs[i].expr, e)}
    IN CASE hit # {} -> Slot(subs[Max(hit)].column)
         [] hit = {} /\ e.is = "col" ->
              IF Cardinality(Found(scope, e)) = 1 THEN Slot(CHOOSE i \in Found(scope, e) : TRUE) ELSE Refusal
         [] hit = {} /\ e.is \in Subqueries \cup {"agg", "grouping", "star"} -> Refusal
         [] OTHER -> [e EXCEPT !.args = Each(LAMBDA a : Compiled(a, scope, subs), @)]
CompiledAll(es, scope, subs) == Each(LAMBDA e : Compiled(e, scope, subs), es)
Binary2(op, x, y) == [is |-> op, args |-> <<x, y>>]
AndOf(es) == FoldLeft(LAMBDA acc, e : Binary2("and", acc, e), Head(es), Tail(es))
Restricted(n, es) == IF es = <<>> THEN n ELSE FilterNode(n, AndOf(es))
----------------------------------------------------------------------------
\* classify_conjunct: of this scope, or an equation of an expression of this
\* scope with one of the outer, or neither.  A name found twice is an error.
ResolvesIn(e, scope) == \A c \in Columns(e) : Found(scope, c) # {}
AmbiguousIn(e, scope) == \E c \in Columns(e) : Cardinality(Found(scope, c)) > 1
OuterOnly(e, local, outer) == ~ResolvesIn(e, local) /\ ResolvesIn(e, outer)
Correlation(c, local, outer) ==
    CASE c.is = "=" /\ ResolvesIn(c.args[1], local) /\ OuterOnly(c.args[2], local, outer) -> <<c.args[1], c.args[2]>>
      [] c.is = "=" /\ ResolvesIn(c.args[2], local) /\ OuterOnly(c.args[1], local, outer) -> <<c.args[2], c.args[1]>>
      [] OTHER -> <<>>
RefersOut(c, local, outer) == \E x \in Columns(c) : Found(local, x) = {} /\ Cardinality(Found(outer, x)) = 1

IsSemijoin(c) == c.is \in {"exists", "in query"} \/ (c.is = "quantified" /\ <<c.op, c.all>> \in {<<"=", FALSE>>, <<"<>", TRUE>>})

AggregatesOf(q) == OfKind(Each(LAMBDA i : i.expr, q.items), {"agg"})
\* always_one_row
AlwaysOneRow(q) ==
    /\ q.is = "select" /\ q.limit = -1 /\ q.offset = 0
    /\ q.group = <<>> /\ q.sets = <<>> /\ q.having = <<>>
    /\ AggregatesOf(q) # <<>>
\* as_bare_aggregate
IsCount(q) == /\ q.is = "select" /\ Len(q.items) = 1 /\ q.items[1].expr.is = "agg"
              /\ q.items[1].expr.kind \in {"count", "count star"}
----------------------------------------------------------------------------
\* Projection pushdown: a table is read for the columns that some expression of
\* the query names, or one of a subquery inside, and for one if there is none; a
\* derived table is read whole.
ItemsOf(q) == Each(LAMBDA i : i.expr, q.items)
OrderOf(q) == Each(LAMBDA o : o.expr, q.order)
RECURSIVE OnsOf(_), TablesOf(_), NamedBy(_), NamedIn(_)
OnsOf(f) == IF f.is = "join" THEN f.on \o OnsOf(f.left) \o OnsOf(f.right) ELSE <<>>
TablesOf(f) == IF f.is = "join" THEN TablesOf(f.left) \cup TablesOf(f.right) ELSE {f}
Clauses(q) == ItemsOf(q) \o q.where \o q.having \o q.group \o FlattenSeq(q.sets) \o OrderOf(q) \o q.on \o OnsOf(q.from)
NamedIn(q) == IF q.is = "set" THEN NamedIn(q.left) \cup NamedIn(q.right)
              ELSE UNION {NamedBy(e) : e \in Range(Clauses(q))}
NamedBy(e) == Columns(e) \cup UNION {NamedIn(s.query) : s \in Range(OfKind(<<e>>, Subqueries))}
QueryReads(needed, column) == <<column.rel, column.name>> \in needed
Narrowed(scope, needed) == Where(scope, LAMBDA c : QueryReads(needed, c))
Needed_OwnOnly(q) ==
    LET scope == ScopeOf(q.from)
        Known(f) == Each(LAMBDA c : <<c.rel, c.name>>, ScopeOf(f))
        named == {<<scope[i].rel, scope[i].name>> :
                    i \in {i \in DOMAIN scope : \E c \in UNION {Columns(e) : e \in Range(Clauses(q))} : Found(scope, c) = {i}}}
        star == OfKind(ItemsOf(q), {"star"}) # <<>>
    IN UNION {IF f.is = "query" \/ star THEN Range(Known(f))
              ELSE IF named \cap Range(Known(f)) = {} THEN {Known(f)[1]} ELSE named \cap Range(Known(f)) : f \in TablesOf(q.from)}
Needed(q) ==
    LET scope == ScopeOf(q.from)
        Known(f) == Each(LAMBDA c : <<c.rel, c.name>>, ScopeOf(f))
        named == {<<scope[i].rel, scope[i].name>> :
                    i \in {i \in DOMAIN scope : \E c \in NamedIn(q) : Found(scope, c) = {i}}}
        star == OfKind(ItemsOf(q), {"star"}) # <<>>
    IN UNION {IF f.is = "query" \/ star THEN Range(Known(f))
              ELSE IF named \cap Range(Known(f)) = {} THEN {Known(f)[1]} ELSE named \cap Range(Known(f)) : f \in TablesOf(q.from)}

\* build_tree: conjuncts of one relation are applied to it, ON is split into
\* keys and the rest.
EquiKey(c, l, r) ==
    LET Of(e, s) == Columns(e) # {} /\ ResolvesIn(e, s)
    IN CASE c.is = "=" /\ ~AmbiguousIn(c, l \o r) /\ Of(c.args[1], l) /\ Of(c.args[2], r) -> <<c.args[1], c.args[2]>>
         [] c.is = "=" /\ ~AmbiguousIn(c, l \o r) /\ Of(c.args[1], r) /\ Of(c.args[2], l) -> <<c.args[2], c.args[1]>>
         [] OTHER -> <<>>
TreeJoin(left, right, f, l, r) ==
    With(Each(LAMBDA c : EquiKey(c, l, r), f.on), LAMBDA keyed :
    LET keys == Where(keyed, LAMBDA k : k # <<>>)
        rest == Where(Positions(Len(keyed)), LAMBDA i : keyed[i] = <<>>)
    IN JoinNode(left, right, f.kind,
                Each(LAMBDA k : Compiled(k[1], l, <<>>), keys), Each(LAMBDA k : Compiled(k[2], r, <<>>), keys),
                IF rest = <<>> THEN <<>> ELSE <<AndOf(CompiledAll(Each(LAMBDA i : f.on[i], rest), l \o r, <<>>))>>))

RECURSIVE HasOuterJoin(_), Tree(_, _, _), Bind(_, _)
HasOuterJoin(f) == f.is = "join" /\ (f.kind \notin {"inner", "cross"} \/ HasOuterJoin(f.left) \/ HasOuterJoin(f.right))
Tree(f, needed, pushed) ==
    IF f.is # "join"
    THEN LET all == ScopeOf(f)
             read == Where(Positions(Len(all)), LAMBDA i : QueryReads(needed, all[i]))
         IN Restricted(IF f.is = "table" THEN Scan(f.name, read) ELSE Bind(f.query, <<>>).node,
                       Each(LAMBDA p : Compiled(p.expr, Narrowed(all, needed), <<>>), Where(pushed, LAMBDA p : p.rel = f.alias)))
    ELSE TreeJoin(Tree(f.left, needed, pushed), Tree(f.right, needed, pushed), f,
                  Narrowed(ScopeOf(f.left), needed), Narrowed(ScopeOf(f.right), needed))

\* The relation a conjunct may be pushed down to: the only one it reads, if
\* nothing is padded with NULLs later.
Owner_Always(c, q, scope) ==
    LET rels == {scope[CHOOSE i \in Found(scope, x) : TRUE].rel : x \in Columns(c)}
    IN IF ResolvesIn(c, scope) /\ ~AmbiguousIn(c, scope) /\ OfKind(<<c>>, Subqueries) = <<>> /\ Cardinality(rels) = 1
       THEN rels ELSE {}
Owner(c, q, scope) ==
    LET rels == {scope[CHOOSE i \in Found(scope, x) : TRUE].rel : x \in Columns(c)}
    IN IF /\ ~HasOuterJoin(q.from) /\ OfKind(<<c>>, Subqueries) = <<>>
          /\ ResolvesIn(c, scope) /\ ~AmbiguousIn(c, scope) /\ Cardinality(rels) = 1
       THEN rels ELSE {}
----------------------------------------------------------------------------
\* Subqueries.  b is the bound subquery: its value first, and at its end a
\* column for each expression of the outer row it is correlated with.
Ensured(cond, node) == IF cond THEN node ELSE RefusedNode
OuterKeys(b, st) == CompiledAll(b.correlated, st.scope, st.subs)
InnerKeys(b) == Slots(b.node.width - Len(b.correlated) + 1, b.node.width)
Helper == [rel |-> "", name |-> "", nullable |-> TRUE]
WithColumn(st, e, node) ==
    [node |-> node, scope |-> Append(st.scope, Helper), subs |-> Append(st.subs, Sub(e, Len(st.scope) + 1, st.scope))]
\* coalesce_count_column: no row to count is a count of 0.
CountFixed(n, column) ==
    ProjectNode(n, [Slots(1, n.width) EXCEPT ![column] = Binary2("coalesce", Slot(column), [is |-> "const", args |-> <<>>, value |-> 0])])

\* attach_correlated_scalar, and the join with the one row of an uncorrelated one.
AttachScalar(st, e, b) ==
    LET w == Len(st.scope)
        joined == ProjectNode(JoinNode(st.node, AssertNode(b.node, InnerKeys(b)), "left", OuterKeys(b, st), InnerKeys(b), <<>>),
                              Slots(1, w + 1))
        one == JoinNode(st.node, AssertNode(LimitNode(b.node, 2, 0), <<>>), "left", <<>>, <<>>, <<>>)
    IN WithColumn(st, e, CASE b.correlated = <<>> -> one
                        [] b.correlated # <<>> /\ IsCount(e.query) -> CountFixed(joined, w + 1)
                        [] OTHER -> joined)

\* build_quantified_comparison: three aggregates decide about x op ANY; ALL is
\* not ANY not.
Negates(op) == CASE op = ">" -> "<=" [] op = "<=" -> ">" [] op = "<" -> ">=" [] op = ">=" -> "<"
AttachQuantified(st, e) ==
    With(Bind(e.query, <<st.scope>>), LAMBDA b :
    With(Len(st.scope), LAMBDA w :
    With(IF e.all THEN Negates(e.op) ELSE e.op, LAMBDA op :
    LET Agg1(kind, args) == [kind |-> kind, args |-> args]
    IN With(AggregateNode(b.node, <<>>, <<Agg1("count star", <<>>), Agg1("count", <<Slot(1)>>),
                                         Agg1(IF op \in {"<", "<="} THEN "max" ELSE "min", <<Slot(1)>>)>>), LAMBDA sums :
    With(ProjectNode(st.node, Append(Slots(1, w), Compiled(e.args[1], st.scope, st.subs))), LAMBDA x :
    With(JoinNode(x, sums, "left", <<>>, <<>>, <<>>), LAMBDA joined :
    LET Konst2(v) == [is |-> "const", args |-> <<>>, value |-> v]
    IN With([is |-> "case", args |->
               <<Binary2("=", Slot(w + 2), Konst2(0)), Konst2(0),
                 [is |-> "is null", args |-> <<Slot(w + 1)>>], Konst2(Nil),
                 Binary2(op, Slot(w + 1), Slot(w + 4)), Konst2(1),
                 Binary2("<", Slot(w + 3), Slot(w + 2)), Konst2(Nil), Konst2(0)>>], LAMBDA any :
    With(IF e.all THEN [is |-> "not", args |-> <<any>>] ELSE any, LAMBDA answer :
      WithColumn(st, e, Ensured(b.correlated = <<>>, ProjectNode(joined, Append(Slots(1, w), answer))))))))))))

\* build_one_row_membership: the one value is fetched and compared with.
OneRowMembership(st, c, b, negated) ==
    LET w == Len(st.scope)
        k == Len(b.correlated)
        x == ProjectNode(st.node, Append(Slots(1, w), Compiled(c.args[1], st.scope, st.subs)))
        joined == JoinNode(x, b.node, "left", OuterKeys(b, st), Slots(2, k + 1), <<>>)
        dropped == IF k = 0 THEN joined ELSE ProjectNode(joined, Slots(1, w + 2))
        fixed == IF k > 0 /\ IsCount(c.query) THEN CountFixed(dropped, w + 2) ELSE dropped
    IN ProjectNode(FilterNode(fixed, Binary2(IF negated THEN "<>" ELSE "=", Slot(w + 1), Slot(w + 2))), Slots(1, w))

\* build_semijoin.
Semijoined(st, c) ==
    With(Bind(c.query, <<st.scope>>), LAMBDA b :
    With(IF c.is = "quantified" THEN c.op = "<>" ELSE c.negated, LAMBDA negated :
    With(CASE ~negated -> "semi"
           [] negated /\ c.is # "exists" /\ FieldsOf(c.query)[1].nullable -> "anti null aware"
           [] OTHER -> "anti", LAMBDA kind :
    With(AlwaysOneRow(c.query), LAMBDA always :
    With(IF c.is = "exists" THEN <<>> ELSE <<Compiled(c.args[1], st.scope, st.subs)>>, LAMBDA x :
    With(JoinNode(st.node, b.node, kind, x \o OuterKeys(b, st),
                  (IF c.is = "exists" THEN <<>> ELSE <<Slot(1)>>) \o InnerKeys(b), <<>>), LAMBDA joined :
      [st EXCEPT !.node =
         CASE IsRefused(b.node) -> RefusedNode
           [] ~IsRefused(b.node) /\ c.is = "exists" /\ always -> IF negated THEN LimitNode(@, 0, 0) ELSE @
           [] c.is # "exists" /\ always -> OneRowMembership(st, c, b, negated)
           [] OTHER -> Ensured(c.is = "exists" \/ ~negated \/ b.correlated = <<>>, joined)]))))))
----------------------------------------------------------------------------
\* bind_select_in, in its order: FROM and WHERE, subqueries, aggregation, what
\* is held back past it, the projection and what sorts it.
WhereParts(q, scope, outer) ==
    LET rest == Where(q.where, LAMBDA c : ~IsSemijoin(c))
        Key(c) == IF outer = <<>> THEN <<>> ELSE Correlation(c, scope, outer[1])
        local == Where(rest, LAMBDA c : Key(c) = <<>>)
        Goes(c) == [expr |-> c, rel |-> CHOOSE r \in Owner(c, q, scope) : TRUE]
    IN [semijoins |-> Where(q.where, IsSemijoin),
        correlated |-> Each(Key, Where(rest, LAMBDA c : Key(c) # <<>>)),
        pushed |-> Each(Goes, Where(local, LAMBDA c : Owner(c, q, scope) # {})),
        leftover |-> Where(local, LAMBDA c : Owner(c, q, scope) = {}),
        legal |-> /\ \A i \in DOMAIN rest : ~AmbiguousIn(rest[i], scope)
                  /\ outer # <<>> => \A i \in DOMAIN local : ~RefersOut(local[i], scope, outer[1])]

\* Scalar subqueries that need not be there before the aggregate: those of no
\* row, and those of a row's grouping columns.
Deferred(q, e, b, scope) ==
    LET early == q.where \o q.group
        grouping(c) == c.is = "col" /\ \E i \in DOMAIN q.group : q.group[i].is = "col" /\ SameIn(scope, q.group[i], c)
    IN /\ Grouped(q) /\ ~Contains(OfKind(early, {"scalar"}), e)
       /\ \/ b.correlated = <<>>
          \/ q.sets = <<>> /\ \A i \in DOMAIN b.correlated : grouping(b.correlated[i])

\* The correlated aggregate: grouped by what it is equated with, so that it is
\* asked once for all rows of the outer query.
CorrelatedAggregate(q, st, keys) ==
    LET agg == AggregatesOf(q)[1]
        n == AggregateNode(st.node, CompiledAll(keys, st.scope, <<>>), <<[kind |-> agg.kind, args |-> CompiledAll(agg.args, st.scope, <<>>)]>>)
    IN ProjectNode(n, <<Slot(Len(keys) + 1)>> \o Slots(1, Len(keys)))

\* The groups: an aggregate for each grouping set, what is not in the set NULL.
Aggregation(q, st) ==
    With(Each(LAMBDA s : Each(LAMBDA e : GroupRef(q, st.scope, e), s), IF q.sets = <<>> THEN <<q.group>> ELSE q.sets), LAMBDA refs :
    With(FoldLeft(LAMBDA acc, e : IF \E i \in DOMAIN acc : SameIn(st.scope, acc[i], e) THEN acc ELSE Append(acc, e),
                  <<>>, FlattenSeq(refs)), LAMBDA keys :
    LET aggs == OfKind(ItemsOf(q) \o q.having \o OrderOf(q), {"agg"})
        calls == OfKind(ItemsOf(q) \o q.having \o OrderOf(q), {"grouping"})
        programs == CompiledAll(keys, st.scope, <<>>)
        sums == Each(LAMBDA a : [kind |-> a.kind, args |-> CompiledAll(a.args, st.scope, <<>>)], aggs)
        InSet(s, e) == \E i \in DOMAIN s : SameIn(st.scope, s[i], e)
        Konst3(v) == [is |-> "const", args |-> <<>>, value |-> v]
        Bits(s) == Each(LAMBDA c : Konst3(FoldLeft(LAMBDA acc, a : 2 * acc + (IF InSet(s, a) THEN 0 ELSE 1), 0, c.args)), calls)
        Grouping(s) ==
            IF s = <<>> /\ keys # <<>>
            THEN ProjectNode(AggregateNode(st.node, <<>>, sums),
                             Each(LAMBDA k : Konst3(Nil), keys) \o Slots(1, Len(aggs)) \o Bits(s))
            ELSE LET n == AggregateNode(st.node, [i \in DOMAIN keys |-> IF InSet(s, keys[i]) THEN programs[i] ELSE Konst3(Nil)], sums)
                 IN IF calls = <<>> THEN n ELSE ProjectNode(n, Slots(1, n.width) \o Bits(s))
    IN With(Each(Grouping, refs), LAMBDA branches :
    LET node == FoldLeft(LAMBDA acc, n : SetNode(acc, n, "union", TRUE), Head(branches), Tail(branches))
        held == keys \o aggs \o calls
        subs == [i \in DOMAIN held |-> Sub(held[i], i, st.scope)]
        legal == \A i \in DOMAIN calls : \A j \in DOMAIN calls[i].args : InSet(keys, calls[i].args[j])
    IN [node |-> Ensured(legal, node), scope |-> [i \in DOMAIN held |-> Helper], subs |-> subs])))

\* add_having_alias_subs: a name that is no grouping column may be an alias of
\* one of the columns there are now.
HavingSubs(q, st) ==
    LET names == Where(NodesOf(q.having), LAMBDA e : /\ e.is = "col" /\ \E i \in DOMAIN q.items : HasAlias(q.items[i], e)
                                                     /\ ~\E i \in DOMAIN st.subs : SameIn(st.subs[i].scope, st.subs[i].expr, e))
        Target(e) == q.items[Min({i \in DOMAIN q.items : HasAlias(q.items[i], e)})].expr
        Aliases(e) == Compiled(Target(e), <<>>, st.subs)
        known == Where(names, LAMBDA e : Aliases(e).is = "slot")
    IN st.subs \o Each(LAMBDA e : Sub(e, Aliases(e).column, <<>>), known)

\* The output and behind it, not to be returned, what it is sorted by.
Projected(q, st, input, fields, correlated) ==
    LET star(i) == q.items[i].expr.is = "star"
        items == FlattenSeq([i \in DOMAIN q.items |-> IF star(i) THEN IF Grouped(q) THEN <<Refusal>> ELSE Slots(1, Len(ScopeOf(q.from)))
                                                      ELSE <<Compiled(q.items[i].expr, st.scope, st.subs)>>])
        visible == items \o CompiledAll(correlated, input.scope, <<>>)
        same(e) == {i \in DOMAIN q.items : q.items[i].expr = e /\ \A j \in DOMAIN q.items : ~star(j)}
        At1(e) == CASE e.is = "const" -> e.value
                    [] e.is # "const" /\ OutputColumn(e, fields) # 0 -> OutputColumn(e, fields)
                    [] e.is # "const" /\ same(e) # {} -> Min(same(e))
                    [] OTHER -> 0
        \* Each key is where the output has it, or becomes a column of its own.
        Keyed(acc, e) == IF At1(e) # 0 THEN [acc EXCEPT !.at = Append(@, At1(e))]
                         ELSE [exprs |-> Append(acc.exprs, Compiled(e, st.scope, st.subs)), at |-> Append(acc.at, Len(acc.exprs) + 1)]
        sorted == FoldLeft(Keyed, [exprs |-> visible, at |-> <<>>], OrderOf(q))
        all == FoldLeft(Keyed, [sorted EXCEPT !.at = <<>>], q.on)
    IN [node |-> ProjectNode(st.node, all.exprs), visible |-> Len(visible), keys |-> sorted.at, on |-> all.at]

\* DISTINCT before the sort, unless the sort needs what DISTINCT would drop;
\* only then, and without DISTINCT ON, may the sort stop at the LIMIT.
Arranged_AlwaysTopN(q, p) ==
    With(q.distinct /\ \E i \in DOMAIN p.keys : p.keys[i] > p.visible, LAMBDA late :
    With(IF q.distinct /\ ~late THEN AggregateNode(p.node, Slots(1, p.visible), <<>>) ELSE p.node, LAMBDA once :
    With(IF p.keys = <<>> THEN once
         ELSE SortNode(once, Each(Slot, p.keys), Each(LAMBDA o : o.desc, q.order),
                       IF q.limit # -1 THEN q.limit + q.offset ELSE -1), LAMBDA sorted :
    With(CASE p.on # <<>> -> DistinctOnNode(sorted, Each(Slot, p.on))
           [] p.on = <<>> /\ late -> DistinctOnNode(sorted, Slots(1, p.visible))
           [] OTHER -> sorted, LAMBDA first :
    With(IF q.limit # -1 \/ q.offset > 0 THEN LimitNode(first, q.limit, q.offset) ELSE first, LAMBDA cut :
      IF p.visible < cut.width THEN ProjectNode(cut, Slots(1, p.visible)) ELSE cut)))))
Arranged(q, p) ==
    With(q.distinct /\ \E i \in DOMAIN p.keys : p.keys[i] > p.visible, LAMBDA late :
    With(IF q.distinct /\ ~late THEN AggregateNode(p.node, Slots(1, p.visible), <<>>) ELSE p.node, LAMBDA once :
    With(IF p.keys = <<>> THEN once
         ELSE SortNode(once, Each(Slot, p.keys), Each(LAMBDA o : o.desc, q.order),
                       IF p.on = <<>> /\ ~late /\ q.limit # -1 THEN q.limit + q.offset ELSE -1), LAMBDA sorted :
    With(CASE p.on # <<>> -> DistinctOnNode(sorted, Each(Slot, p.on))
           [] p.on = <<>> /\ late -> DistinctOnNode(sorted, Slots(1, p.visible))
           [] OTHER -> sorted, LAMBDA first :
    With(IF q.limit # -1 \/ q.offset > 0 THEN LimitNode(first, q.limit, q.offset) ELSE first, LAMBDA cut :
      IF p.visible < cut.width THEN ProjectNode(cut, Slots(1, p.visible)) ELSE cut)))))

SetArranged(q, node) ==
    LET stop == IF q.limit = -1 THEN -1 ELSE q.limit + q.offset
        sorted == IF q.order = <<>> THEN node
                  ELSE SortNode(node, Each(LAMBDA o : Slot(o.expr.value), q.order), Each(LAMBDA o : o.desc, q.order), stop)
    IN IF q.limit # -1 \/ q.offset > 0 THEN LimitNode(sorted, q.limit, q.offset) ELSE sorted

BindSelect(q, outer) ==
    With(Needed(q), LAMBDA needed :
    With(Narrowed(ScopeOf(q.from), needed), LAMBDA from :
    With(WhereParts(q, from, outer), LAMBDA parts :
    With(Each(LAMBDA k : k[1], parts.correlated), LAMBDA inner :
    LET tree == [node |-> Tree(q.from, needed, parts.pushed), scope |-> from, subs |-> <<>>]
        clauses == ItemsOf(q) \o q.where \o q.having \o q.group \o OrderOf(q)
    IN With(Each(LAMBDA e : [expr |-> e, bound |-> Bind(e.query, <<from>>)], OfKind(clauses, {"scalar"})), LAMBDA scalars :
    With(Where(scalars, LAMBDA s : Deferred(q, s.expr, s.bound, from)), LAMBDA late :
    With(Where(scalars, LAMBDA s : ~Deferred(q, s.expr, s.bound, from)), LAMBDA early :
    With(Where(OfKind(clauses, {"quantified"}), LAMBDA e : e.op \notin {"=", "<>"}), LAMBDA ranked :
    LET Attach(st, s) == AttachScalar(st, s.expr, s.bound)
    IN With(FoldLeft(Semijoined, FoldLeft(AttachQuantified, FoldLeft(Attach, tree, early), ranked), parts.semijoins), LAMBDA asked :
    With([asked EXCEPT !.node = Restricted(@, CompiledAll(parts.leftover, asked.scope, asked.subs))], LAMBDA input :
    With(IF Grouped(q) THEN Aggregation(q, input) ELSE input, LAMBDA groups :
    LET single(s) == s.bound.correlated = <<>>
        Held(st) == FoldLeft(Attach, st, Where(late, single) \o Where(late, LAMBDA s : ~single(s)))
        Having(st) == [st EXCEPT !.node = Restricted(@, CompiledAll(q.having, st.scope, HavingSubs(q, st)))]
    IN With(IF OfKind(q.having, {"scalar"}) = <<>> THEN Held(Having(groups)) ELSE Having(Held(groups)), LAMBDA having :
    With(Arranged(q, Projected(q, having, input, FieldsOf(q), inner)), LAMBDA whole :
    \* Cut, sorted or aggregated for all rows of the outer query at once it
    \* would mean something else.
    LET plain == q.limit = -1 /\ q.offset = 0 /\ q.order = <<>> /\ q.on = <<>>
        bare == /\ Len(q.items) = 1 /\ q.items[1].expr.is = "agg" /\ q.group = <<>> /\ q.sets = <<>>
                /\ q.having = <<>> /\ ~q.distinct /\ late = <<>>
        grouped == Grouped(q) \/ q.having # <<>>
    IN [correlated |-> Each(LAMBDA k : k[2], parts.correlated),
        node |-> CASE ~parts.legal \/ (q.having # <<>> /\ ~Grouped(q)) -> RefusedNode
                   [] parts.legal /\ inner # <<>> /\ ~plain -> RefusedNode
                   [] parts.legal /\ inner # <<>> /\ plain /\ grouped ->
                        Ensured(bare, CorrelatedAggregate(q, input, inner))
                   [] OTHER -> whole])))))))))))))

\* bind_query_body, bind_set_expr.  Neither side of a set operation sees the
\* outer query; its ORDER BY has positions only.
Bind(q, outer) ==
    IF q.is = "select" THEN BindSelect(q, outer)
    ELSE [correlated |-> <<>>,
          node |-> SetArranged(q, SetNode(Bind(q.left, <<>>).node, Bind(q.right, <<>>).node, q.kind, q.all))]
----------------------------------------------------------------------------
NewQuery == [phase |-> "binding"]

QueryBind ==
    /\ At("query", "binding") /\ Onwards
    /\ \E root \in {RootOf(plan.query)} :
          IF IsRefused(root) THEN Fails ELSE Becomes([phase |-> "running", root |-> root]) /\ Quiet

QueryRun ==
    /\ At("query", "running") /\ Onwards
    /\ \E rows \in {Returned(self.root)} :
          IF rows = Failure THEN Fails
          ELSE /\ self' = [phase |-> "over"] /\ status' = "done" /\ returned' = <<rows>>

QueryNext == QueryBind \/ QueryRun
----------------------------------------------------------------------------
\* The subqueries of a query, and a query without what links it to the outer one.
RECURSIVE QueriesIn(_)
QueriesIn(q) ==
    IF q.is = "set" THEN QueriesIn(q.left) \o QueriesIn(q.right)
    ELSE LET es == OfKind(ItemsOf(q) \o q.where \o q.having \o OrderOf(q), Subqueries)
         IN es \o FlattenSeq(Each(LAMBDA e : QueriesIn(e.query), es))
Uncorrelated(q) == [q EXCEPT !.where = Where(@, LAMBDA c : ResolvesIn(c, ScopeOf(q.from)))]
\* What the binder may refuse: a membership that is not a conjunct or that no
\* join decides, and a subquery of the outer row that is more than rows, or one
\* aggregate, selected by equations with it.
Equated(q) == \A c \in Range(q.where) : ResolvesIn(c, ScopeOf(q.from)) \/ Correlation(c, ScopeOf(q.from), ScopeOf(plan.query.from)) # <<>>
Straight(q) == /\ q.limit = -1 /\ q.offset = 0 /\ q.order = <<>> /\ q.on = <<>> /\ q.group = <<>> /\ q.having = <<>>
               /\ AggregatesOf(q) # <<>> => ~q.distinct /\ ItemsOf(q) = AggregatesOf(q)
MayBeRefused ==
    \E e \in Range(QueriesIn(plan.query)) :
        \/ /\ e.query.is = "select" /\ Uncorrelated(e.query) # e.query
           /\ \/ ~Equated(e.query) \/ ~Straight(e.query)
              \/ e.is \in {"in query", "quantified"} /\ ~AlwaysOneRow(e.query)
                 /\ ~(IsSemijoin(e) /\ (e.is = "in query" => ~e.negated) /\ (e.is = "quantified" => ~e.all))
              \/ e.is = "quantified" /\ ~IsSemijoin(e)
        \/ e.is = "quantified" /\ <<e.op, e.all>> \in {<<"=", TRUE>>, <<"<>", FALSE>>}
        \/ e.is # "scalar" /\ (IsSemijoin(e) \/ e.is = "exists") /\
             \A q \in {plan.query} \cup {f.query : f \in Range(QueriesIn(plan.query))} :
                 q.is = "select" => ~Contains(q.where, e)
=============================================================================
