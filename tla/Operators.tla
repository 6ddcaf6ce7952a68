----------------------------- MODULE Operators -----------------------------
(***************************************************************************)
(* The physical operators under interruption: whatever a plan runs, it     *)
(* returns what SQL asks for of its whole input, however that comes cut    *)
(* into batches and wherever the scan below has to wait for bytes or a     *)
(* page.  Each module of an operator ends with that answer, said without   *)
(* batches, buffers or phases.                                             *)
(***************************************************************************)
EXTENDS OneInput, TwoInputs, Aggregate, TextFormats, Statements, Regex, Binder

Sql == INSTANCE Sentences

\* What is done at once: what is read of a Parquet file or a JSON text,
\* [at, val], at = 0 if it is refused; and what is to be read there,
\* [sure, val], sure if it must not be refused.
CONSTANTS ReadBack(_), Recorded(_)
AtOnce == {"parquet", "json"}

\* exec::build
New(p) == CASE p.op = "join" -> NewJoin
            [] p.op = "sort" -> NewSort(p)
            [] p.op = "window" -> NewWindow
            [] p.op = "set" -> NewSetOp(p)
            [] p.op = "aggregate" -> NewAggregate
            [] p.op = "recursive" -> NewRecursive
            [] p.op \in Streams -> NewStream(p)
            [] p.op = "csv" -> NewCsv(p)
            [] p.op = "jsonl" -> NewJsonl(p)
            [] p.op = "evaluate" -> NewExpression
            [] p.op = "statements" -> NewStatements(p)
            [] p.op = "regex" -> NewRegex
            [] p.op = "query" -> NewQuery
            [] p.op \in {"parse"} \cup AtOnce -> [error |-> ""]

Init == \E family \in Plans : \E p \in family : Start(p, New(p))

\* parse_statement
ParseStatement ==
    /\ plan.op = "parse" /\ Onwards
    /\ \E p \in {Sql!Parsed(plan.words, plan.maxDepth, plan.maxLinks)} :
         /\ self' = [error |-> p.error]
         /\ IF p.error = "" THEN returned' = <<p.out>> /\ status' = "done"
                            ELSE UNCHANGED returned /\ status' = "failed"

\* read_full_flat_column and read_full_nested_column, for each column of a file;
\* a JSON function
ReadWhole ==
    /\ plan.op \in AtOnce /\ Onwards /\ UNCHANGED self
    /\ \E read \in {ReadBack(plan)} :
         IF read.at # 0 THEN returned' = <<<<read.val>>>> /\ status' = "done"
                        ELSE UNCHANGED returned /\ status' = "failed"

\* A plan that is done or has failed is not run again.
Stopped == status # "running" /\ UNCHANGED vars

Next == \/ JoinNext \/ StreamsNext \/ SortNext \/ WindowNext
        \/ SetOpNext \/ AggregateNext \/ RecursiveNext
        \/ CsvNext \/ JsonlNext \/ ExpressionNext \/ StatementsNext \/ RegexNext
        \/ QueryNext \/ ParseStatement \/ ReadWhole \/ Stopped

\* A host that got an interruption answers it and calls again: what runs goes
\* on.  (That it can go on is deadlock freedom.)
Spec == Init /\ [][Next]_vars /\ ([]<>(status # "running") \/ []<><<Next>>_vars)
----------------------------------------------------------------------------
\* What the operators that read their input before they answer return is the
\* answer for the whole of it.  Sorts, windows, set operations and aggregates
\* return it in its order, no row twice and none left out at a batch boundary or
\* over an interruption.  A join returns each pair of matching rows once, and
\* each row without a match once where its kind asks for it, across the chunks a
\* batch is handed out in and the drain of the build side; WITH RECURSIVE returns
\* a row for each path (UNION ALL) or each row reached (UNION), and gives up
\* exactly if the rounds allowed leave rows to look at (sort.rs:60-262,
\* agg.rs:320-930, window.rs:90-300, setop.rs:120-275, join.rs:190-500,
\* recursive.rs:100-215).
InOrder == {"sort", "window", "set", "aggregate"}
Answer == CASE plan.op = "sort" -> SortAnswer
            [] plan.op = "window" -> WindowAnswer
            [] plan.op = "set" -> SetOpAnswer
            [] plan.op = "aggregate" -> AggregateAnswer

BlockingExact ==
    /\ plan.op \in InOrder =>
         /\ returned # <<>> => IsPrefix(Output, Answer)
         /\ status = "done" => Output = Answer
    /\ plan.op = "join" =>
         /\ IsInjective(Output) /\ Range(Output) \subseteq Joined
         /\ status = "done" => Range(Output) = Joined
    /\ plan.op = "recursive" =>
         LET Times(k) == Len(Where(Output, LAMBDA x : x = k))
         IN /\ \A k \in DOMAIN plan.edges : Times(k) <= Multiplicity(k)
            /\ status = "done" => ~TooManyRounds /\ \A k \in DOMAIN plan.edges : Times(k) = Multiplicity(k)
            /\ status = "failed" => TooManyRounds

\* Whatever the splits, the sample and the line ends, a scan returns each record
\* of the file once and in order, or fails for one of the reasons a reader of
\* splits may have; and what COPY wrote is read back cell for cell, Null apart
\* from the empty text (csv.rs:199-1170, write/csv.rs:60-345).
EachRecordOnce ==
    /\ plan.op = "csv" =>
        IF self.phase = "resolving" THEN status = "failed" => FirstRecordRefused
        ELSE /\ returned # <<>> => IsPrefix(Output, CsvAnswer)
             /\ status = "done" => /\ Output = CsvAnswer /\ ~Malformed
                                   /\ plan.rows # <<>> => Output = CsvWritten
             /\ status = "failed" => plan.rows = <<>> /\ SplitsRefuse
    /\ plan.op = "jsonl" =>
        IF self.phase = "resolving" THEN status = "failed" => NoSchema
        ELSE /\ returned # <<>> => IsPrefix(Output, JsonlAnswer)
             /\ status = "done" => /\ Output = JsonlAnswer /\ ~JsonlMalformed
                                   /\ plan.rows # <<>> => Output = plan.rows
             /\ status = "failed" => plan.rows = <<>> /\ JsonlMayRefuse

\* docs/sql/queries.md:149-151 promises that an error of an operand is raised
\* only for rows that reach it, plan/bind/select.rs:35-39 that a scalar subquery
\* fails only where one outer row has two rows of it: an expression fails only
\* if it does for a row that was asked for, or has more registers than there are
\* numbers, a query that is bound only if what it says fails.
FailsOnlyIfReached ==
    status = "failed" =>
        /\ plan.op = "evaluate" => SomeRowFails \/ self.program.overflow
        /\ plan.op = "query" => IF self.phase = "binding" THEN MayBeRefused
                               ELSE Says(plan.query, <<>>) = Failure

\* An expression means for each selected row what SQL says of that row alone,
\* although it runs over a batch and without branches: no value is that of
\* another row, and what fails for a row that reaches it is not missed
\* (compile.rs:285-1499, vm.rs:40-360).
\* A Parquet file is read as its columns say, whichever way they are written in,
\* or refused as broken, never read as something else (format/parquet/).
\* A query returns what its nested form says; a sentence of SQL is read as the
\* tree it was written from unless it nests deeper or has more links than the
\* parser allows (parser.rs:123-607, parser/).  And nothing fails that need not.
MeansTheSame ==
    /\ FailsOnlyIfReached
    /\ plan.op = "evaluate" =>
        /\ returned # <<>> => IsPrefix(Output, ExpressionAnswer)
        /\ status = "done" => Output = ExpressionAnswer /\ ~SomeRowFails
    /\ plan.op = "query" /\ status = "done" =>
        Says(plan.query, <<>>) \notin {Failure} /\ Output = Says(plan.query, <<>>)
    /\ plan.op = "parse" =>
        LET OverLimit == plan.nests > plan.maxDepth \/ plan.links > plan.maxLinks
        IN /\ status = "done" => /\ plan.refused = "" /\ ~OverLimit /\ Output = <<plan.means>>
                                 /\ \A v \in DOMAIN plan.worth :
                                      Sql!Worth(Sql!Selected(Output[1]), [a |-> v[1], b |-> v[2]]) = plan.worth[v]
           /\ status = "failed" => /\ plan.refused # "" \/ OverLimit
                                   /\ self.error = IF OverLimit THEN "ExpressionTooDeep" ELSE plan.refused
    /\ plan.op \in AtOnce =>
        /\ status = "done" => Output = <<Recorded(plan).val>>
        /\ status = "failed" => ~Recorded(plan).sure

\* docs/sql/queries.md:242 promises of NOT IN what SQL says, for NULLs too: what
\* NULL is not in, or of what is not in NULL, is unknown unless there is nothing
\* to be in (plan/bind/subquery.rs:173-178).
NotInAsDocumented ==
    plan.op = "query" /\ status = "done" => Output = Says(plan.query, <<>>)

\* A statement that writes a table reads it as it was and changes all of it at
\* once or, failing on any row, nothing: at every moment the table is what the
\* statements that have ended left, each row of it the one SQL asks for, with
\* schema, defaults and rows in step (dml.rs:65-305, ddl.rs:28-340).
AllOrNothing ==
    plan.op = "statements" => SoFar = [table |-> self.table, reports |-> returned]

\* A pattern means one thing or is refused, and the function returns what the
\* leftmost match says, of those that start there the one the pattern prefers;
\* every match is replaced once, whatever comes before it.  No text takes more
\* steps than characters times instructions; where that is too many, a match
\* fails, but a replacement goes as far as it got (regex.rs:365-1440).
MatchesLeftmost ==
    plan.op = "regex" =>
        /\ status = "done" => /\ Cardinality(Readings) = 1
                              /\ Output = RegexAnswer \/ (plan.func \in {"replace", "replace all"} /\ ~Affordable)
        /\ status = "failed" => \/ Readings = {}
                                \/ self.phase = "compiling" /\ Len(RegexProgram(Parse.ast)) > plan.maxInsts
                                \/ self.phase = "matching" /\ ~Affordable
                                \/ plan.func = "extract" /\ plan.group \notin 0..9

\* No operator goes on for ever: every plan over an input that ends is done or
\* fails, with interruptions in between (exec/mod.rs:413-690 and the loops of
\* the blocking operators).
Ends == <>(status # "running")
=============================================================================
