------------------------------ MODULE OneInput ------------------------------
(* The operators that read one input or none: streams, sorts, windows.      *)
EXTENDS Operator

-----------------------------------------------------------------------------
(***************************************************************************)
(* The operators that hand rows on as they come (exec/mod.rs, range.rs,    *)
(* unnest.rs, sample.rs) and the sample of N rows, which reads its input   *)
(* first.  Expressions are given by the plan: the keys a predicate accepts *)
(* (never Null: unknown is not true), how many elements the array of a key *)
(* has (none for Null), the integers that i64 can hold.                    *)
(***************************************************************************)

Unlimited == -1
Stateless == [done |-> FALSE]
NewLimit == [seen |-> 0, emitted |-> 0]
NewSeen == [seen |-> {}]
NewUnnest == [todo |-> <<>>]
NewSeries(p) == [cur |-> p.start, done |-> FALSE]
NewBernoulli(p) == [done |-> p.percent = 0]
NewSample(p) == [phase |-> IF p.target = 0 THEN "done" ELSE "buffering",
                 buffer |-> <<>>, out |-> <<>>]

Runs(op) == plan.op = op
Batch == Delivered("left")
Pulls == Ready("left")

\* The rows at some positions, in order.
Kept(rows, chosen) == Rows([i \in DOMAIN rows |-> IF i \in chosen THEN <<rows[i]>> ELSE <<>>])
----------------------------------------------------------------------------
Passing(rows) == {i \in DOMAIN rows : rows[i].key \in plan.accepts}
Filter == Runs("filter") /\ Pulls /\ Becomes(self) /\ HandsSome(Kept(Batch, Passing(Batch)))

Project == Runs("project") /\ Pulls /\ Becomes(self) /\ Hands(Batch)

\* Satisfied limits end without pulling.
LimitReached == plan.limit # Unlimited /\ self.emitted >= plan.limit

Limit ==
    LET skip == Max({0, plan.offset - self.seen})
        take == IF plan.limit = Unlimited THEN Len(Batch) - skip
                ELSE Min({Len(Batch) - skip, plan.limit - self.emitted})
    IN /\ Runs("limit") /\ ~LimitReached /\ Pulls
       /\ IF Len(Batch) <= skip \/ take = 0
          THEN Becomes([self EXCEPT !.seen = @ + Len(Batch)]) /\ Quiet
          ELSE /\ Becomes([seen |-> self.seen + Len(Batch), emitted |-> self.emitted + take])
               /\ Hands(SubSeq(Batch, skip + 1, skip + take))

LimitDone == Runs("limit") /\ LimitReached /\ Onwards /\ Finishes

\* The rows whose key was not seen before, in this batch or earlier.
Firsts(rows) == {i \in DOMAIN rows : \A j \in 1..(i - 1) : rows[j].key # rows[i].key}
Unseen_EarlierBatchesOnly == {i \in DOMAIN Batch : Batch[i].key \notin self.seen}
Unseen == {i \in Firsts(Batch) : Batch[i].key \notin self.seen}

DistinctOn == /\ Runs("distinct on") /\ Pulls
              /\ Becomes([self EXCEPT !.seen = @ \cup Keys(Batch)])
              /\ HandsSome(Kept(Batch, Unseen))

\* Without keys every row has the same, empty one.
KeyOf(row) == IF plan.keyed THEN row.key ELSE Null

AssertMaxOneRow ==
    LET keys == {KeyOf(r) : r \in Range(Batch)}
    IN /\ Runs("assert max one row") /\ Pulls
       /\ IF Cardinality(keys) < Len(Batch) \/ keys \cap self.seen # {}
          THEN Fails
          ELSE Becomes([self EXCEPT !.seen = @ \cup keys]) /\ HandsSome(Batch)
----------------------------------------------------------------------------
Elements(row) == [k \in 1..plan.elements[row.key] |-> <<row.id, k>>]
Expanded(rows) == Rows([i \in DOMAIN rows |-> Elements(rows[i])])

UnnestFetch == /\ Runs("unnest") /\ self.todo = <<>> /\ Pulls
               /\ Becomes([self EXCEPT !.todo = Expanded(Batch)]) /\ Quiet

UnnestElements ==
    /\ Runs("unnest") /\ self.todo # <<>> /\ Onwards
    /\ Becomes([self EXCEPT !.todo = Beyond(@)]) /\ Hands(Taken(self.todo))

InRange(v) ==
    /\ v \in plan.ints                           \* checked_add
    /\ \/ plan.step > 0 /\ (v < plan.stop \/ (plan.inclusive /\ v = plan.stop))
       \/ plan.step <= 0 /\ (v > plan.stop \/ (plan.inclusive /\ v = plan.stop))

\* The n-th value from here.
Ahead(n) == self.cur + (n - 1) * plan.step

GenerateSeries ==
    /\ Runs("series") /\ ~self.done /\ Onwards
    /\ \E n \in 1..BatchSize :
         /\ \A k \in 1..n : InRange(Ahead(k))
         /\ n < BatchSize => ~InRange(Ahead(n + 1))
         /\ Becomes(IF n < BatchSize \/ Ahead(n + 1) \notin plan.ints
                    THEN [self EXCEPT !.done = TRUE] ELSE [self EXCEPT !.cur = Ahead(n + 1)])
         /\ Hands([k \in 1..n |-> Ahead(k)])

SeriesDone ==
    Runs("series") /\ (self.done \/ ~InRange(self.cur)) /\ Onwards /\ Finishes
----------------------------------------------------------------------------
\* Each row is kept by chance, none at 0 and all at 100 per cent.
Bernoulli ==
    /\ Runs("bernoulli") /\ ~self.done /\ Pulls /\ Becomes(self)
    /\ \E chosen \in SUBSET DOMAIN Batch :
         /\ plan.percent = 100 => chosen = DOMAIN Batch
         /\ HandsSome(Kept(Batch, chosen))

BernoulliNone == Runs("bernoulli") /\ self.done /\ Onwards /\ Finishes

SampleAbsorb == /\ At("sample", "buffering") /\ Pulls
                /\ Becomes([self EXCEPT !.buffer = @ \o Batch]) /\ Quiet

\* The chosen rows keep their order.
SampleFinish ==
    /\ At("sample", "buffering") /\ Ended("left") /\ Quiet
    /\ \E chosen \in kSubset(Min({plan.target, Len(self.buffer)}), DOMAIN self.buffer) :
         Becomes([phase |-> IF self.buffer = <<>> THEN "done" ELSE "emitting", buffer |-> <<>>,
                  out |-> Kept(self.buffer, chosen)])

SampleEmit ==
    /\ At("sample", "emitting") /\ Onwards
    /\ Becomes(IF self.out = <<>> THEN [self EXCEPT !.phase = "done"]
               ELSE [self EXCEPT !.out = Beyond(@)])
    /\ HandsSome(Taken(self.out))

SampleDone == At("sample", "done") /\ Onwards /\ Finishes
----------------------------------------------------------------------------
\* The operators that end when their input does.
AtInput == \/ plan.op \in {"filter", "project", "distinct on", "assert max one row"}
           \/ Runs("limit") /\ ~LimitReached
           \/ Runs("unnest") /\ self.todo = <<>>
           \/ Runs("bernoulli") /\ ~self.done

StreamEnded == AtInput /\ Ended("left") /\ Finishes

StreamInterrupted == (AtInput \/ At("sample", "buffering")) /\ Interrupted

StreamsNext ==
    \/ Filter \/ Project \/ Limit \/ LimitDone \/ DistinctOn \/ AssertMaxOneRow
    \/ UnnestFetch \/ UnnestElements \/ GenerateSeries \/ SeriesDone
    \/ Bernoulli \/ BernoulliNone \/ SampleAbsorb \/ SampleFinish \/ SampleEmit \/ SampleDone
    \/ StreamEnded \/ StreamInterrupted
----------------------------------------------------------------------------
\* What each of them should return, said of its whole input.
All == Rows(plan.input["left"])
Output == Rows(returned)
Repeats(i) == \E j \in 1..(i - 1) : All[j].key = All[i].key
Values == {v \in plan.ints : InRange(v) /\ \E k \in 0..Cardinality(plan.ints) : v = plan.start + k * plan.step}

StreamAnswer ==
    CASE Runs("filter") -> Kept(All, Passing(All))
      [] Runs("project") -> All
      [] Runs("limit") -> SubSeq(All, plan.offset + 1, IF plan.limit = Unlimited THEN Len(All)
                                                       ELSE Min({Len(All), plan.offset + plan.limit}))
      [] Runs("distinct on") -> Kept(All, Firsts(All))
      [] Runs("assert max one row") -> All
      [] Runs("unnest") -> Expanded(All)
      [] Runs("series") -> [k \in 1..Cardinality(Values) |-> plan.start + (k - 1) * plan.step]

\* The subquery returned more than one row (of a key).
TooMany == IF plan.keyed THEN \E i \in DOMAIN All : Repeats(i) ELSE Len(All) > 1

SampleSize == IF Runs("sample") THEN Min({plan.target, Len(All)})
              ELSE IF plan.percent = 0 THEN 0 ELSE Len(All)

Samples == {"bernoulli", "sample"}
Streams == {"filter", "project", "limit", "distinct on", "assert max one row", "unnest", "series"} \cup Samples

\* The rows handed out are the answer in its order, no row twice and none left
\* out at a batch boundary or over an interruption; an operator that samples
\* hands out some of its rows in their order, as many as asked for; a scalar
\* subquery fails exactly if it has a second row (exec/mod.rs:451-690,
\* range.rs:45-72, unnest.rs:52-135, sample.rs:80-250).
StreamExact ==
    /\ plan.op \in Streams \ Samples =>
         /\ returned # <<>> => IsPrefix(Output, StreamAnswer)
         /\ status = "done" => Output = StreamAnswer
    /\ plan.op = "assert max one row" =>
         /\ status = "done" => ~TooMany
         /\ status = "failed" => TooMany
    /\ plan.op \in Samples =>
         /\ \E chosen \in SUBSET DOMAIN All : Output = Kept(All, chosen)
         /\ status = "done" /\ (plan.op = "sample" \/ plan.percent \in {0, 100})
              => Len(Output) = SampleSize

\* The plans of these operators, and one of them run on its own.
Row == [key : Nat, id : Nat]
IsStream(p) ==
    /\ p.input \in [Sides -> Seq(Seq(Row))]
    /\ \/ p.op = "filter" /\ p.accepts \subseteq Nat \ {Null}
       \/ p.op = "project"
       \/ p.op = "limit" /\ p.limit \in Nat \cup {Unlimited} /\ p.offset \in Nat
       \/ p.op \in {"distinct on", "assert max one row"} /\ p.keyed \in BOOLEAN
       \/ /\ p.op = "unnest"
          /\ \A row \in Range(Rows(p.input["left"])) : p.elements[row.key] \in Nat
       \/ /\ p.op = "series" /\ p.start \in p.ints /\ p.stop \in Int /\ p.step \in Int \ {0}
          /\ p.inclusive \in BOOLEAN
          /\ p.ints \subseteq Int /\ IsFiniteSet(p.ints) /\ \A u, v \in p.ints : u..v \subseteq p.ints
       \/ p.op = "bernoulli" /\ p.percent \in 0..100
       \/ p.op = "sample" /\ p.target \in Nat

NewStream(p) ==
    CASE p.op \in {"filter", "project"} -> Stateless
      [] p.op = "limit" -> NewLimit
      [] p.op \in {"distinct on", "assert max one row"} -> NewSeen
      [] p.op = "unnest" -> NewUnnest
      [] p.op = "series" -> NewSeries(p)
      [] p.op = "bernoulli" -> NewBernoulli(p)
      [] p.op = "sample" -> NewSample(p)

StreamSpec == /\ IsStream(plan) /\ Start(plan, NewStream(plan))
              /\ [][StreamsNext]_vars

-----------------------------------------------------------------------------
(***************************************************************************)
(* Sorting and top-N (exec/sort.rs).  A plan has desc, nullsFirst and a    *)
(* limit; rows with equal keys keep the order of the input.  With a limit  *)
(* the buffer is cut back to the best rows whenever it has grown to twice  *)
(* as many.                                                                *)
(***************************************************************************)

AllOfThem == -1          \* no limit
NewSort(p) == [phase |-> IF p.limit = 0 THEN "done" ELSE "buffering",
               buffer |-> <<>>, order |-> <<>>]

\* cmp_row on one key: the place of Null is a flag of its own, desc turns
\* the order of values only.
Precedes(p, r, s) ==
    \/ r.key = Null /\ s.key # Null /\ p.nullsFirst
    \/ r.key # Null /\ s.key = Null /\ ~p.nullsFirst
    \/ r.key # Null /\ s.key # Null /\ (IF p.desc THEN r.key > s.key ELSE r.key < s.key)

\* Ties are broken by the row number in the buffer.
Before(p, rows, i, j) == \/ Precedes(p, rows[i], rows[j])
                         \/ ~Precedes(p, rows[j], rows[i]) /\ i < j

Ordered(p, rows) ==
    LET place == [i \in DOMAIN rows |->
                    1 + Cardinality({j \in DOMAIN rows : Before(p, rows, j, i)})]
    IN [k \in DOMAIN rows |-> rows[CHOOSE i \in DOMAIN rows : place[i] = k]]

Cut(rows) == IF plan.limit = AllOfThem \/ Len(rows) <= plan.limit THEN rows
             ELSE SubSeq(rows, 1, plan.limit)

Compact(rows) ==
    IF plan.limit = AllOfThem \/ Len(rows) <= Max({2 * plan.limit, BatchSize}) THEN rows
    ELSE Cut(Ordered(plan, rows))
----------------------------------------------------------------------------
SortAbsorb ==
    /\ At("sort", "buffering") /\ Ready("left")
    /\ Becomes([self EXCEPT !.buffer = Compact(@ \o Delivered("left"))]) /\ Quiet

SortFinish ==
    /\ At("sort", "buffering") /\ Ended("left")
    /\ Becomes([phase |-> "emitting", buffer |-> <<>>, order |-> Cut(Ordered(plan, self.buffer))])
    /\ Quiet

SortEmit ==
    /\ At("sort", "emitting") /\ Onwards
    /\ Becomes(IF self.order = <<>> THEN [self EXCEPT !.phase = "done"]
               ELSE [self EXCEPT !.order = Beyond(@)])
    /\ HandsSome(Taken(self.order))

SortDone == At("sort", "done") /\ Onwards /\ Finishes

SortInterrupted == At("sort", "buffering") /\ Interrupted

SortNext == SortAbsorb \/ SortFinish \/ SortEmit \/ SortDone \/ SortInterrupted
----------------------------------------------------------------------------
\* The whole input in order, said by the number of rows that come before each.
SortAnswer ==
    LET rows == Rows(plan.input["left"])
        Rank(i) == Cardinality({j \in DOMAIN rows : Precedes(plan, rows[j], rows[i])})
                   + Cardinality({j \in 1..(i - 1) : ~Precedes(plan, rows[j], rows[i])
                                                      /\ ~Precedes(plan, rows[i], rows[j])})
        sorted == [k \in DOMAIN rows |-> rows[CHOOSE i \in DOMAIN rows : Rank(i) = k - 1]]
    IN SubSeq(sorted, 1, IF plan.limit = AllOfThem THEN Len(rows) ELSE Min({plan.limit, Len(rows)}))

-----------------------------------------------------------------------------
(***************************************************************************)
(* Window functions (exec/window.rs), one per plan: the kind and its       *)
(* arguments, whether there is a PARTITION BY and an ORDER BY (with desc   *)
(* and nullsFirst) and whether the frame is the whole partition.  A row    *)
(* has part, the key of its partition, key, which orders, and val.         *)
(***************************************************************************)

NewWindow == [phase |-> "buffering", buffer |-> <<>>, out |-> <<>>]

\* The partition of a row in the order it is visited.
Visited(rows, r) ==
    LET part == Where(rows, LAMBDA s : plan.partitioned => s.part = r.part)
    IN IF plan.ordered THEN Ordered(plan, part) ELSE part

\* The peers of place p: a run of rows with equal ORDER BY keys.
Peers(part, p) == {q \in DOMAIN part : plan.ordered => part[q].key = part[p].key}
Frame(part, p) == IF plan.whole \/ ~plan.ordered THEN Len(part) ELSE Max(Peers(part, p))

\* ntile: the first n % b buckets are one row larger.
Bucket(n, p) ==
    LET b == Min({plan.buckets, n})
        base == n \div b
        big == (n % b) * (base + 1)
    IN IF p - 1 < big THEN ((p - 1) \div (base + 1)) + 1
       ELSE (n % b) + ((p - 1 - big) \div base) + 1

\* Acc: the values of a frame folded into one, Null left out.
Accumulated(values) ==
    LET seen == Where(values, LAMBDA v : v # Null)
    IN CASE plan.kind = "count" -> Len(seen)
         [] plan.kind = "sum" -> IF seen = <<>> THEN Null ELSE FoldLeft(LAMBDA a, v : a + v, 0, seen)

\* eval_partition, for the row at place p.
ValueAt(part, p) ==
    LET n == Len(part)
        Shifted(q) == IF q \in 1..n THEN part[q].val ELSE plan.default
    IN CASE plan.kind = "row_number" -> p
         [] plan.kind = "rank" -> Min(Peers(part, p))
         [] plan.kind = "dense_rank" -> Cardinality({Min(Peers(part, q)) : q \in 1..p})
         [] plan.kind = "percent_rank" -> <<Min(Peers(part, p)) - 1, Max({n - 1, 1})>>
         [] plan.kind = "cume_dist" -> <<Max(Peers(part, p)), n>>
         [] plan.kind = "ntile" -> IF plan.buckets < 1 THEN Null ELSE Bucket(n, p)
         [] plan.kind = "lag" -> Shifted(p - plan.offset)
         [] plan.kind = "lead" -> Shifted(p + plan.offset)
         [] plan.kind = "first_value" -> part[1].val
         [] plan.kind = "last_value" -> part[Frame(part, p)].val
         [] plan.kind = "nth_value" ->
              IF plan.nth \in 1..Frame(part, p) THEN part[plan.nth].val ELSE Null
         [] plan.kind \in {"count", "sum"} -> Accumulated([q \in 1..Frame(part, p) |-> part[q].val])

\* compute: the values are found partition by partition and put back in the
\* order of the input.
Computed(rows) ==
    [i \in DOMAIN rows |->
       LET part == Visited(rows, rows[i])
       IN <<rows[i].id, ValueAt(part, CHOOSE p \in DOMAIN part : part[p] = rows[i])>>]
----------------------------------------------------------------------------
WindowAbsorb ==
    /\ At("window", "buffering") /\ Ready("left")
    /\ Becomes([self EXCEPT !.buffer = @ \o Delivered("left")]) /\ Quiet

WindowFinish ==
    /\ At("window", "buffering") /\ Ended("left") /\ Quiet
    /\ Becomes([phase |-> "emitting", buffer |-> <<>>, out |-> Computed(self.buffer)])

WindowEmit ==
    /\ At("window", "emitting") /\ Onwards
    /\ Becomes(IF self.out = <<>> THEN [self EXCEPT !.phase = "done"]
               ELSE [self EXCEPT !.out = Beyond(@)])
    /\ HandsSome(Taken(self.out))

WindowDone == At("window", "done") /\ Onwards /\ Finishes

WindowInterrupted == At("window", "buffering") /\ Interrupted

WindowNext == WindowAbsorb \/ WindowFinish \/ WindowEmit \/ WindowDone \/ WindowInterrupted
----------------------------------------------------------------------------
\* The same for each row from the sets of rows before it and tied with it.
WindowAnswer ==
    LET rows == Rows(plan.input["left"])
        Mine(i) == {j \in DOMAIN rows : plan.partitioned => rows[j].part = rows[i].part}
        Earlier(i, j) == plan.ordered /\ Precedes(plan, rows[i], rows[j])
        Tied(i, j) == ~Earlier(i, j) /\ ~Earlier(j, i)
        place == [i \in DOMAIN rows |->
                    1 + Cardinality({j \in Mine(i) : Earlier(j, i) \/ (Tied(i, j) /\ j < i)})]
        Below(i) == {j \in Mine(i) : Earlier(j, i)}
        Framed(i) == {j \in Mine(i) : plan.whole \/ ~Earlier(i, j)}
        Nth(within, n) == IF \E j \in within : place[j] = n
                             THEN rows[CHOOSE j \in within : place[j] = n].val ELSE plan.default
        known(i) == {j \in Framed(i) : rows[j].val # Null}
        size(i) == Cardinality(Mine(i))
        \* how many rows the first t of the buckets hold
        Holds(i, t) == t * (size(i) \div plan.buckets) + Min({t, size(i) % plan.buckets})
        Answer(i) ==
          CASE plan.kind = "row_number" -> place[i]
            [] plan.kind = "rank" -> 1 + Cardinality(Below(i))
            [] plan.kind = "dense_rank" -> 1 + Cardinality({rows[j].key : j \in Below(i)})
            [] plan.kind = "percent_rank" -> <<Cardinality(Below(i)), Max({size(i) - 1, 1})>>
            [] plan.kind = "cume_dist" -> <<Cardinality({j \in Mine(i) : ~Earlier(i, j)}), size(i)>>
            [] plan.kind = "ntile" ->
                 IF plan.buckets < 1 THEN Null
                 ELSE Min({t \in 1..plan.buckets : place[i] <= Holds(i, t)})
            [] plan.kind = "lag" -> Nth(Mine(i), place[i] - plan.offset)
            [] plan.kind = "lead" -> Nth(Mine(i), place[i] + plan.offset)
            [] plan.kind = "first_value" -> Nth(Mine(i), 1)
            [] plan.kind = "last_value" -> Nth(Framed(i), Cardinality(Framed(i)))
            [] plan.kind = "nth_value" -> Nth(Framed(i), plan.nth)
            [] plan.kind = "count" -> Cardinality(known(i))
            [] plan.kind = "sum" -> IF known(i) = {} THEN Null
                                    ELSE MapThenSumSet(LAMBDA j : rows[j].val, known(i))
    IN [i \in DOMAIN rows |-> <<rows[i].id, Answer(i)>>]
=============================================================================
