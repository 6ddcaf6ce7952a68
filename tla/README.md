# ahirudb in TLA+

ahirudb is a SQL engine for Parquet, CSV and JSON files that runs as a single-threaded
WebAssembly module (`src/crates/ahiru-core`) inside a JavaScript host (`src/js/ahirudb.js`) or
a command line shell (`src/crates/ahiru-cli`). The engine never does I/O. A call that needs
bytes it does not hold returns a request, the host fetches the bytes, hands them over with
`provide`, and makes the same call again. Most of what is hard here follows from that: every
call may be cut short and repeated, statements that interleave share what was fetched,
inflated and parsed, and everything between two calls (registrations, `close()`, a trap, an
eviction, a late answer) lands in the middle of somebody's query. The rest is translation: text to
plans, plans to programs, rows to files and back, where two ways of saying the same thing must agree.

This directory holds a model of both, the TLC configurations that check it on small
instances, and proofs, checked by TLAPS, of what should hold for every size of it.

    tlc -workers 2 -config MCHost.cfg Host        # one run
    tlapm HandlesProofs.tla                       # one module of proofs

`PROJECT.json` lists the components, the runs with their properties, for each definition the
source lines it models, the hazards the properties are aimed at, the theorems, and for each property
mutations of the model (`..._Suffix` operators beside the definition they mutate) that make the
property fail.

## 1. The system

### 1.1 Engine (Rust)

| Component | State | Operations | What makes it correct |
|---|---|---|---|
| bytes of a file, `catalog.rs` `Source` | length, sorted coalesced chunks, inflated pages, remote flag | provide, set_size, provide_decoded, release, clear_decoded, get, missing | A range is served exactly when all its bytes were fetched; what is asked for can be answered; the budget of inflated pages is exact. |
| catalog, `catalog.rs`, `ddl.rs`, `plan/bind/from.rs` | file tables by index, slots of in-memory tables, views | register, CREATE, DROP, ALTER ... RENAME, DML, resolution of a name or path | One owner per name under case folding; reads and writes agree; an index handed out stays with its name; a statement reaches nobody else's table. |
| handles of the ABI, `abi.rs` | slot tables of sessions and queries, generations | session_new/free, query_start/close | A stale handle reaches nothing; a live one is never stranded; a slot is only lost when its generations are used up. |
| statements, `session.rs`, `abi.rs` | the open queries of a session | prepare, step, close, release_if_idle | A statement that interleaves with others returns the rows it would return alone, and ends. |
| table scan, `exec/mod.rs` `Scan` | next split, decoded rows | next, with NEED_IO and NEED_CODEC | Every row of every split the predicate does not exclude, in order, once; nothing fetched that statistics rule out. |
| parquet adapter, `format/parquet.rs` | footers, the page selection of each row group | resolve, prepare, decode | The selection read at decoding is the one this scan computed. |
| COPY and CREATE TABLE AS, `write/mod.rs`, `ddl.rs` | none, restarts from scratch | export_query, run_query_to_rows | Ends although it starts again on each missing byte. |
| allocator of the wasm build, `rt/alloc.rs` | free lists by class, large list, bump region | alloc, dealloc, realloc | No overlap, no loss, no growth while something free fits, an exact counter. |
| DML and DDL on rows, `dml.rs`, `ddl.rs` | rows, schema and defaults of an in-memory table | INSERT, UPDATE, DELETE, ALTER, CREATE AS | All rows or none when an expression fails; a statement reads the table as it was. |
| operators, `exec/*.rs` | hash tables, sort buffers, cursors | next, any number of times after NEED_IO | The result does not depend on where the input was cut or interrupted. |
| readers and sinks of CSV and JSONL, `format/csv.rs`, `write/*.rs` | cursor in a split | resolve, decode; rows to bytes | Each record is read by exactly one split; what is written reads back. |
| parquet decoders and sink, `parquet/*.rs`, `write/parquet.rs` | a buffer | pure | Every layout a writer may choose is read as the same rows, or refused; what is written reads back. |
| pruning, `plan/bind/pruning.rs`, `parquet/bloom.rs` | none | pure | Never leaves out a row the predicate accepts. |
| parser, `sql/*` | none between statements | pure | The tree is the one the text was written from; nothing nests deeper than the limits. |
| binder and planner, `plan/*` | none between statements | pure | A plan returns what the nested query says. |
| expressions, `expr/*` | registers of a batch | pure | A program without branches returns, and fails, as the expression does row by row. |
| regular expressions, `expr/regex.rs` | threads of the machine | pure | The leftmost match, the preferred one of those, in bounded steps. |
| JSON text, `json.rs` | none | pure | Walking the text finds what the tree holds. |
| row keys and hash index; vectors; partitioned files; zstd module | a buffer | pure | Not modelled, see section 5. |

### 1.2 Hosts

| Component | State | Operations | What makes it correct |
|---|---|---|---|
| registrations of the JS host | `#registered`, `#pending`, `#byIndex`, the count of what SQL created | register, SQL paths, flush, replace a trapped instance | A table index means the same file to host and engine; replacing the engine changes nothing a name reads, or the session is given up. |
| run loop of the JS host | runs, the session lock, current and active run, closed, dead, trapped | query, stream, pull, return, close | Never calls a lost engine; a batch is decoded before its buffer is reused; the lock and the slot are handed back once on every way out. |
| byte pump and range cache of the JS host | per file: coverage ever fetched, remembered jobs, resident bytes; the cache; the reads in flight | pump, read, decompress | The right bytes reach the engine and the codec; a query ends; the source is blamed only when it is to blame. |
| command line shell | - | a synchronous driver | Answers every request of a statement before it calls it again. |

### 1.3 How they interact, and what is hard

* Within the engine everything is a synchronous call. Interleaving comes from above: the JS host
  and the shell hold several queries open and step them in any order. They share `Source`s (bytes
  and inflated pages), the parsed footers, and the page selection of each row group, which lives
  in the *format* and not in the query.
* The engine drops bytes when the last open query closes, and drops inflated pages whenever a scan
  moves past a split. Whoever else still needed them must ask again. COPY restarts from scratch
  on each request, so dropping under a COPY could keep it from ever ending.
* In the host everything between two `await`s is atomic, and everything else may land at an
  `await` or a `yield`: a registration, `close()`, a consumer that walks away from a stream, a
  trap in another call, another query's fetches writing the shared cache.
* A trapped engine is replaced by a new instance in which every registration is repeated, unless
  SQL had created something that would be lost.
* The translations keep no state, so nothing interleaves in them. What is hard there is
  agreement: of a flat program with the expression it was compiled from, of a join with the
  subquery it stands for, of a page's statistics with the rows of the page, of a parser written
  as functions with the language it reads.

The hazards this gives rise to are listed, each at its line, under `hazards` in `PROJECT.json`.

## 2. Modules

| Module | Models | State and actions |
|---|---|---|
| `ByteStore` | abstract: a length, a set of fetched offsets, and whether the file can be fetched again | Provide, SetSize, Release |
| `Source`, `SourceProofs` | `catalog.rs` Source and the guards of `Session::provide`, `set_size`, `provide_decoded` | `chunks` is `Source::chunks`; the byte at offset o is o, so one served from the wrong place shows. Implements `ByteStore` with the chunks' offsets as the set. |
| `Handles`, `HandlesProofs` | `abi.rs` slot tables | a Vec of slots is a function and a length; `minted` remembers every handle ever returned |
| `Answers` | abstract: each statement returns its own answer, in order, and ends | Begin, Return, Finish, Fail, Abandon |
| `Engine`, `EngineProofs` | `session.rs`, `abi.rs`, `exec/mod.rs` Scan, `format/parquet.rs`, `write/mod.rs` | one action per way a call of `query_start` or `query_step` can end (rows, done, NEED_IO, NEED_CODEC, failure), with all it changes on the way; `Close`; `Provide`. Implements `Answers`. |
| `Catalog` | `catalog.rs`, `ddl.rs`, `plan/bind/from.rs` | one action per statement that takes effect; a table's contents are an object identity, replaced by a fresh one when a statement rewrites them |
| `Registry`, `RegistryProofs` | `ahirudb.js` registrations, over `Catalog`, which it extends | the host's actions call the catalog's operators, as the ABI does; ReplaceInstance repeats registrations into an empty catalog |
| `Host`, `HostProofs` | `ahirudb.js` `#run`, `#start`, `#pump`/`#decompress` as suspensions, `close`, traps | one action per stretch of code between two suspension points, `pc[r]` is the suspension point |
| `Pump`, `PumpProofs` | `ahirudb.js` `#pump`, `#read`, `#bytesAt`, JobIndex, recordFetched, coalesceRanges | the byte at offset i is i; a read in flight is an entry of `reads`; `Others` is everyone else who writes the shared cache |
| `Alloc`, `AllocProofs` | `rt/alloc.rs` | addresses and sizes in granules of 16 bytes; `AllocImpl` and `DeallocImpl` are functions from heap to heap as in the code; realloc in place or by moving |
| `Operator` | `exec/mod.rs` `Operator`, `Step` | the pull protocol: a step goes from one pull of an input to the next or hands out a batch; `self` is what the operator keeps, what a call of `next` holds in locals does not outlive the step |
| `OneInput`, `StreamProofs` | filter, project, limit, DISTINCT ON, the check of a scalar subquery, unnest, generate_series, both samples; sort and top-N; windows | one action per pull or batch handed out. Each part ends with what the operator should return, said of its whole input without batches, buffers or phases. `StreamSpec` is one of the operators that hand rows on as they come, run on its own. |
| `TwoInputs` | joins of every kind, UNION/INTERSECT/EXCEPT, WITH RECURSIVE | as above |
| `Aggregate` | hash aggregation: FILTER, DISTINCT, HAVING, grouping | as above |
| `TextFormats` | the readers of CSV, TSV and JSONL (sampling, inference, splits, records) and the sinks that write them | one action per split decoded; a text is a sequence of the characters that mean something |
| `Statements` | `dml.rs`, `ddl.rs` on the rows of one table | one action per pull of a statement's input, one per statement that takes effect |
| `Expressions` | `plan/compile.rs`, `expr/vm.rs`, Boolean kernels | compile to a program with sub-programs, then an instruction per step; values are TRUE, FALSE, NULL, and a function that fails |
| `Regex` | `expr/regex.rs` | parse, expand to an NFA, run the machine a character per step; its answer by sets of matches |
| `Queries`, `Binder` | what a query says, row by row and nested; what plan nodes return; the binder of `plan/bind/*` | `Bind` gives the plan; a step binds, a step runs |
| `Grammar`, `Sentences` | `sql/parser*` as data: a rule for each function of the parser; the language: trees, how they are written, what they mean | one step parses |
| `Thrift`, `Pages`, `Nested`, `Sink`, `Shredding`, `Pruning`, `ParquetFiles` | Parquet from bytes to rows: Thrift structures, pages and encodings, schema and levels, the sink and the reading of a whole file, what a record is shredded to, pruning, and files of every kind | one step reads a file, after writing it |
| `Json` | `json.rs` and the JSON functions over text; the same over trees | one step calls a function |
| `Operators` | any one of the above that has a plan | composes `OneInput`, `TwoInputs`, `Aggregate`, `TextFormats`, `Statements`, `Regex`, `Binder` (and through it `Expressions`); its properties compare with the answers those modules end with |
| `MC*` | constants for TLC; `MCOperators` also hands Parquet files, JSON calls and plans to `Operators` through the constants `ReadBack`, `Recorded` and `RootOf`, so that TLC evaluates each once | |

`Host`, `Registry` and `Pump` are three views of the same JavaScript class. They are kept apart
because the product of their states is far too large and because they meet in few places: `Host`
says when a run may call the engine and who holds the lock, which gives `Registry` its
Begin/End/Trap and `Pump` its one query in flight.

The translations are modelled twice over, once as the code does them and once as what they are
for: a batch program and the value of each row, a plan and the nested query, a parser and the
tree a sentence was written from, a decoder and the record the file was made of, a walk of a
JSON text and the tree. The second form never mentions the first, so a mistake in either shows.

## 3. Runs

| Run | Instance | What it shows |
|---|---|---|
| `source` | `U64Max` 7, a page limit of 3 and an inflated-pages budget of 4, two pages | Every order, overlap and repetition of fetches of every file of up to six bytes; the sentinel for "unknown size" is the largest offset, as u64::MAX is. `ServesWhatWasFetched`, `MissingIsAnswerable`, `DecodedBudget`, and that it implements `ByteStore`, in which only what can be fetched again is ever released. |
| `handles` | two slots, two generations per slot (`MaxIndex` 1, `MaxGen` 1) | `HandleNeverAliases`, `QueryRunsInItsSession`, `LiveObjectsReachable`, `CapacityNotLost` until every slot is a tombstone. |
| `engine` | one table of a Parquet file (a row group of two pages with an index, one of one page without; a footer longer than the first read, a size to ask for, compressed pages) and an empty file; a pruning select, a full select and a COPY; a codec hook in process that COPY uses and that may refuse a page | `RowsExact`, `OnlyWantedPagesFetched`, `OpenStatementKeepsBytes`, and `ImplementsAnswers`: the statements implement `Answers`, its liveness included. |
| `registry` | one name in two spellings and another, four objects, a queue of two | The host's `ByIndexAgrees`, `NoSilentLoss`, `ReplacementTransparent`; the catalog's `OneOwnerPerName`, `ReadsWhatIsWritten`, `OthersUndisturbed`, `PathsKeepTheirFile`, `IndexesStable` under the calls of the host. |
| `host` | three runs of up to three suspensions once open | `SessionAliveWhenCalled`, `BatchIntact`, `IdleEngineIsEmpty`, `WaitersProceed`, `CloseEndsEveryCall`. |
| `alloc` | three holders, three size classes, pages of 5 granules in an address space of 30 that starts at 5; layouts of 2, 3, 5, 7 granules and one over-aligned | `NoOverlap`, `NothingLost`, `AllocatedExact`, `GrowsOnlyWhenNothingFits`. |
| `pump` | a file of four bytes, four queries, an index of two jobs, one resident byte | `HandsOverTheFile`, `NeverDisowned`, `BlameIsFair`, `QueryEnds`. |
| `operators` | inputs of up to five rows, NULL among the keys, cut into batches of at most `BatchSize` = 2 in every way; an interruption possible at every pull; every short text of CSV and JSONL; two statements on a table; patterns of up to four characters and longer ones of pieces | `StreamExact` (filter to samples), `BlockingExact` (all other operators), `EachRecordOnce`, `AllOrNothing`, `MatchesLeftmost`, `Ends`. |
| `translations` | families of expressions, queries, sentences, Parquet files and JSON calls, below | `MeansTheSame`. |
| `overtaken` | two names of one spelling, four objects, a queue of two | `NewestServes` fails, see section 6. |
| `unreached` | guarded DECIMAL products; scalar subqueries with two rows for a key that no outer row has | `FailsOnlyIfReached` fails, see section 6. |
| `not_in` | memberships in a subquery that selects a star of a NOT NULL column | `NotInAsDocumented` fails, see section 6. |

Each property is defined at the end of its module, under a comment that states it.

### Bounds, and why they are enough

* **Source.** Merging involves a new chunk and the neighbours it touches on both sides; six bytes
  hold three chunks with gaps between them and a fetch that joins all three. The budget holds one
  large page or two small ones, so refusing, replacing and refilling all occur.
* **Handles.** Two slots are the fewest for which truncation of the tail leaves something, can
  pass over a tombstone and can be stopped by one in use. Two generations give a reuse and an
  exhaustion.
* **Engine.** Two statements of different predicates over one row group with an index are what overwriting a
  selection takes; a row group without an index, a file without row groups, and a third statement that
  is not resumable are the other kinds the code tells apart. Rows are one per page and one per
  batch: a batch boundary inside a page moves only `cur`. Only one of the files has row groups: what a scan does
  from one file to the next is in the proofs, for any number of them, and not in the run.
* **Catalog, Registry.** The code tells spellings apart only by equality and by equality after
  folding; one name of two spellings and an unrelated one give every case of both: an identifier
  beside a path of another spelling, two paths, a declaration that folds onto another. Four objects let all three
  names be bound with one registration queued; objects are interchangeable, so symmetry is sound.
* **Host.** `MaxSuspends` bounds how often an open run suspends; a third suspension adds no new
  combination of flags. Three runs allow one that holds the lock and two that wait, so that
  handing over to the wrong waiter would show.
* **Alloc.** Three live blocks leave a free block with a neighbour on either side, on one side,
  and at the bump pointer. Layouts cover a class filled exactly and not, two large sizes that
  leave a small or a large tail, and an alignment above 16 bytes. The address space ends after
  five pages, so the overflow at its end is reached.
* **Pump.** The ranges start alike (`<<0,1>>`, `<<0,2>>`, `<<0,4>>`), leave a hole (`<<0,2>>`,
  `<<3,1>>`) and join. The index of jobs and the resident bytes hold fewer than the queries make,
  so entries are forgotten. `Spoiled` says whose cache entries others may write, drop or cut.
* **Operators.** Three to five rows are two or three full batches: a group, a partition, a chain of
  build rows, a tie and a compaction of top-N (`max(2 n, BatchSize)` rows) each cross a batch
  boundary, and output spans batches too. One interruption per pull stands for any number, as
  the operator does not see how often its input answered NEED_IO. The integers of `series` are
  -4..3, so overflow at either end occurs. Window functions run over one input of five rows with
  ties, NULLs and two partitions. Texts are read in splits of 1 to 3 characters with records that may
  be longer than a split allows, so that every kind of line end falls on a boundary; tables of
  three and four rows put a failing row in the second batch; patterns nest one group in another
  and repeat what may be empty; the limits on instructions and steps are met and just missed.
* **Translations.** *Expressions*: every connective, COALESCE, CASE, IN and BETWEEN over operands that
  may be NULL and may fail, two levels deep, over batches where all, some or no rows reach an
  operand and some are not selected, and programs too wide for the registers. *Queries*: one
  subquery in each place it may stand, correlated or not, over a table that has a key twice, a
  NULL and a key the other has not; grouping sets, joins with conditions that may or may not be
  pushed below them, DISTINCT, ORDER BY and slices. *Sentences*: every form of the grammar, every pair of
  the 18 forms of expression in every place of each other, statements, sentences at the limits of depth
  and links and just over them, and refusals with their code. *Parquet*: every kind of column in every
  encoding, page version and repetition, what a writer may do differently, what a broken file may hold, files
  the engine writes itself, each file cut short or with unknown fields added, and scans with pruning
  by statistics, Bloom filters and page indexes. Widths are scaled down (an INT32 has 8 bits, 16 bytes are 3) so that
  values at the ends of a type are few. *JSON*: texts with white space, harmed and nested too deep, every
  function over them, paths of one and two steps.

### Fairness

* **Engine.** Both hosts call a statement again only when everything it asked for has been
  answered (`#pump` awaits all its reads; the shell fetches in a loop), which is the guard
  `Waiting`. There is one weak fairness: while a request is open or a statement that was started is not at its
  end, the host answers some request or calls some such statement. It may start, close or abandon any statement
  and choose which to drive. Without the guard, a COPY called again needlessly clears inflated
  pages that a select waits for, over and over; no host does that.
* **Host.** Weak fairness on the resumption of each run: the event loop runs what is ready and
  a source, codec or handler answers or fails in the end. The consumer's pulls are not fair.
  `WaitersProceed` therefore assumes of the stream that holds the lock that its consumer goes on
  or returns.
* **Pump.** Weak fairness on `Runs`: what is ready runs, and the source answers each read, perhaps
  with nothing or a failure. Nothing is assumed of the other users of the cache.
* **Operators.** A plan that runs goes on: the next-state relation is taken again and again until the
  status says otherwise, for a host that got an interruption answers it and calls again. `waiting`
  keeps the input from answering the same pull with an interruption for ever.

## 4. Proofs

TLAPS checks every step; the theorems hold for every value of the constants that satisfies the
assumption named in the module. No property of `Source`, `Handles`, `Catalog`, `Registry`, `Host`, `Alloc` or
`Pump` and no invariant of `Engine` is left to TLC alone, liveness excepted; nor is `StreamExact` of the operators. Most
of these properties are not inductive: what follows says what each invariant adds and why.

**`SourceProofs`**, from `SourceAssumption` (offsets and the two limits are naturals). `IInv`: the
length is an offset; the chunks are sorted, apart from one another and hold the file's bytes at their
offsets (`ListOK`); the inflated pages are finitely many and within the budget. That chunks are
apart, not merely disjoint, is what makes one chunk serve any range whose bytes were all fetched. The list is
rebuilt by a fold over the sorted chunks, which is proved as a recursive function: a property of all prefixes
that fails somewhere fails first somewhere, and the least counterexample refutes itself (the library's
induction theorems take an operator and cannot be used). `ServesFetched`, `AnswerEndsMissing`,
`WithinBudget`, and `Implements`: `Source` implements `ByteStore`, the whole of the refinement.

**`HandlesProofs`**, from `HandlesAssumption` (the two masks are naturals). That a stale handle is
harmless depends on the generation of its slot never going back, in the part of the table that has
been truncated as well. `IInv` adds `SessionsCurrent` and `QueriesCurrent` (a minted handle's
generation is at most its slot's, and at the slot's own generation it belongs to the object in the
slot) and `TailsEmpty` (beyond the length every slot is empty and none is a tombstone). One lemma per
operation, and lemmas for what `MakeHandle`, `NextGeneration`, `FirstFree` and `Truncated` return.
`NoAlias`, `QuerySession`, `LiveReachable`, `CapacityKept`, beside `HandlesInvariant` and `HandlesTypeOK`.

**`RegistryProofs`**, the catalog first, from `CatalogAssumption` (folding is a function from names to names). `IInv` is the
type invariant and `OneOwnerPerName`, which is inductive with it. The lemmas say what a lookup
returns (`FirstFinds`, `LookupFinds`, `MemIndexOfFinds`, ...) and when a name is free (`NotTaken`);
then there is one lemma per operation. Theorems `CatalogInvariant`, `OneOwner`, `ReadsWrites`, and the action
properties `StableIndexes`, `OthersKept` and `PathsKept`: for these, an operation leaves the list of what
stands under every other name as it was, wherever in the vectors it sits afterwards.

Then the host (`RegistrySpec`), from `RegistryAssumption` as well (the length of the queue is a natural). `Registry` extends
`Catalog` and its actions call the catalog's operators, so the lemmas about those serve both. `HostActs` says which of
the catalog's operators a step of the host is, and the catalog's theorems hold under the host (`OneOwnerUnderHost`, `ReadsWritesUnderHost`,
`OthersKeptUnderHost`, `PathsKeptUnderHost`, `StableIndexesUnderHost`). `RegistryInv` adds that records and
tables are in step index by index, a lost catalog included; that no source stands twice among the tables and
the queue; that a run which waits for an engine has none; and that the count a trap goes by is zero only
when nothing is created. `RecordsAgree` (`ByIndexAgrees`) and `NothingCreatedIsLost` (`NoSilentLoss`).
`ReplacementKeepsNames` is `ReplacementTransparent` for every set of names and every folding. The property follows a name as long as no
record has it in another spelling, which `BeforeDue` carries along (`Spelled`). A record is *due*
under such a name when it is the last of that name in the queue, or none is queued and it is the file
of that name. `BeforeDue`: from a replacement to the first statement after it, what is due is what was expected when the engine was
replaced, and nothing SQL created is in the way of declaring it. What is due stays due when the head of the
queue is declared, whatever it folds onto (`DueDeclared`), and when all files move back to the front of the queue (`DueReplaced`).

**`HostProofs`**, from `HostAssumption` (`NoRun` is no run). One run is in flight or none, it is the one in
`#current`, and it is at the head of the lock (`OneInFlight`, theorem `RunsTakeTurns`); who waits is in
the queue and has done nothing; only `close()` finishes a run early; a trapped engine is awaited, not
called; handles and open queries belong to the run in flight. From these `SessionsAlive`, `BatchesIntact`
and `IdleEnginesAreEmpty`. The hard case is `close()` in the middle of a run: the flags then say
that the run is over while its generator is still suspended.

**`AllocProofs`**, from `AllocAssumption` (finitely many holders; sizes, pages and growth positive). `IInv`:
the heap's types, and `Partition`: what `memory.grow` gave is cut into pieces (held, free in a class, free in the
list, bump, wasted, leaked), disjoint and covering. An operation is a regrouping: some pieces are taken
out, others with the same granules put in (`Regrouped`), so each path through `alloc` and `dealloc`
only has to name the pieces. That large blocks never touch (`FreeBlocksApart`) is part of the
partition and gives `GrowsInNeed`: a run of free granules lies in one block. The size of a class
is 2^c, positive because it counts the subsets of a set. The counter is a sum over the holders, changed
at one of them by each call (`CounterExact`); `NoTwoOwners`, `NoGranuleLost`.

**`PumpProofs`**, from `PumpAssumption` (sizes and limits; a page lies in something its query wants).
Whatever others write to the cache is the bytes of the range, a part of them, or nothing; what a read
answers, what is resident and what is handed over are then bytes of the file from their place (`OnlyTheFile`).
Recorded ranges never overlap or touch, since merging takes all that touch a new one, so a page the
engine has scanned lies in one of them (`PagesNotDisowned`). `BlameFair`.

**`EngineProofs`**, from `EngineAssumption` (the splits are a sequence of records, statements are selects or
COPYs). `WantedPagesOnly` says of each statement that its requests are for pages its own statistics keep, whoever
overwrote the selection in the format between its calls; `OpenStatementsKeepBytes` is an action
property. `RowsAreExact` rests on `RInv`: for every statement, what it has returned followed by what it has decoded is
the concatenation of its answer's pieces before the split it stands at (`Served`). The steps use that a
split which statistics rule out contributes nothing, that concatenation up to k is one function of k
(by least counterexample, as above), and that the page selection in the shared format is the
asking scan's own when it decodes: another scan may have overwritten it, and then it is derived
again first. `ActsAlone` is the safety half of `ImplementsAnswers`: every step of the engine is a step of one
statement running alone, or changes nothing of any of them. Its proof first failed on the mapping of
statuses, whose CASE had two true guards for an open statement that has returned everything; TLC
took the first. The mapping is unambiguous now.

**`StreamProofs`**, from `OperatorAssumption` (a batch holds at least one row). `StreamIsExact`: every filter, projection, OFFSET and
LIMIT, DISTINCT ON, scalar subquery check, UNNEST, series and sample, over every input, cut into batches in any way, with any
parameters (`IsStream` says which the binder can produce: counts are naturals, a step is not zero, what i64 holds has no gaps) and interrupted
at any pull, is `StreamExact`. `StreamInv` says of the batches pulled so far what the property says of the
whole input, and that what the operator keeps is a function of them: the number of rows seen and emitted, the keys seen, the
elements still to hand out, the value the series stands at, the rows chosen and not yet handed out. One lemma per action, each by a lemma
that says how the answer for two sequences in a row is made of the answers for each (`KeptOfBoth`, `FirstsOfBoth`,
`WindowOfBoth`, `SingleOfBoth`, `ExpandedOfBoth`). Sequences are flattened by a recursive function, and what such a function
returns is proved as in `SourceProofs`, by the least counterexample; so is induction over sequences (`GrownSequences`), with the set
of good sequences as the parameter in place of a predicate. A series ends with as many values as are in range, which is a
bijection of 1..n onto them (`ValuesCounted`). `Operators` starts these operators by `NewStream` and steps them by `StreamsNext`, as
`StreamSpec` does; it also reaches modules with RECURSIVE operators, which is why the theorem is about `StreamSpec`.

**Model-checked only.**

* Liveness and what rests on fairness or `ENABLED`: the fairness of `ImplementsAnswers`, `WaitersProceed`,
  `CloseEndsEveryCall`, `QueryEnds`, `Ends`.
* The other operators (`BlockingExact`: sort, windows, joins, set operations, aggregation, recursive queries), the readers, the
  statements on rows and the translations: they are folds and recursive operators over data (rows, programs,
  trees, bytes), whose properties need induction over data or a module without RECURSIVE.

## 5. What is not modelled

* **Data.** Vectors, codecs, the hash index and row keys; numbers, dates and their text; the memory caps; wire
  encodings of batches, schemas, parameters and requests. Integers of Parquet files are scaled down, and so are the hash and
  the salts of Bloom filters.
* **Statements.** SET, EXPLAIN and the SHOW family; names of columns, types other than one that a cast may
  fail for; options of COPY; a scan of an in-memory table that stays open over a change of it.
* **Operators.** Expressions are given by the plan. One key, one aggregate or window function at a time; no floating-point
  aggregates, STRING_AGG, PRODUCT, nor the mirror images of MIN, ARG_MIN.
* **Readers.** JSON files and hive partitions; times and numbers in CSV beyond the class of a cell.
* **Parser.** The lexer, widths of literals, texts of intervals, positions of errors.
* **Binder.** Types and casts, windows and QUALIFY, CTEs, UNNEST, SAMPLE, PIVOT, star modifiers, GROUP BY ALL, FILTER and
  DISTINCT inside aggregates, ORDER BY that mixes aliases with expressions over them, subqueries that refer two levels up.
* **Expressions.** Types other than BOOLEAN, lambdas, substitutions, the depth limit of the compiler.
* **Regular expressions.** UTF-8 bytes, POSIX classes and `\d \w \s`, the cache of compiled patterns.
* **Parquet.** FLOAT16, the limits on pages and leaves, columns of one name, saturating arithmetic of times, the escaping of JSON
  text. In pruning, a DOUBLE column against a fractional DECIMAL literal.
* **JSON.** NaN and what is not finite, escapes, `json_type` and the functions that build JSON.
* **Hosts.** The eviction order of the range cache: the model lets any entry be lost at any time, which is
  more than any order does. The shell beyond its driving of statements; the demo; the scripts; the zstd module.

## 6. Findings

Shown by a run:

* **`not_in`**, `plan/bind/subquery.rs:176`. `docs/sql/queries.md:242` says that NOT IN follows the standard for NULLs. Which join is
  used depends on the subquery's column alone: of `x NOT IN (SELECT * FROM s)`, where the column of s is
  declared NOT NULL, the plan is a plain anti join, which keeps a row whose x is NULL though s has rows.
* **`overtaken`**, `js/ahirudb.js:1725`. `js/README.md:84-85` says a later registration of a name replaces the earlier. One made
  during a run is queued and stays queued when the run ends; one made afterwards, while idle, is declared at once; the next
  run flushes the queue, and the older replaces the newer. The trace has the two registrations and the two runs.
* **`unreached`**. `docs/sql/queries.md:149-151` says that an error of an operand is not raised for rows that never reach it,
  and `plan/bind/select.rs:35-39` that a scalar subquery fails where one outer row has two rows of it. A scalar subquery with two rows for a
  key that no outer row has fails all the same (`plan/bind/select.rs:29-65`), which is where the run stops. DECIMAL addition, subtraction
  and multiplication raise an error at 38 digits (`expr/kernels.rs`), while `may_raise` (`expr/mod.rs:351-359`) counts them as safe: they are
  inlined and fail for rows that never reach them. `tlc -continue` lists those plans too. The run `translations`
  has neither family: `FailsOnlyIfReached` is a part of `MeansTheSame`, without exception.

Met while reading and modelling, without a run of their own (where a module covers the code, it does as the code does):

* Registrations. Replacing a trapped engine is called transparent
  (`js/ahirudb.js:1588`, `1958-1966`), but names that differ only in case can coexist (path `'a'`, identifier `A`, then
  identifier `a`, which takes over the path's slot), and declared again from nothing, the second folds onto the first.
  `ReplacementTransparent` says nothing of a name that some record has in another spelling; such names occur in the run.
* Traps. `close()` calls `ahiru_query_close` (`js/ahirudb.js:1833`) with nothing around it: were that call to trap, `close()` would throw,
  `#trapped` stay unset and the lock be held until the run itself is resumed. The module leaves that trap out, as the call only drops a query
  and truncates the slots; every other call of a run may trap, `ahiru_query_close` at the end of a run included.
* Regular expressions. `regexp_replace` goes as far as it got when the limit on steps is reached, where `regexp_matches` fails;
  `(|a)*` takes an empty iteration and stops.
* Parser. `NOT EXISTS (q)` is returned as a prefix at the binding power of NOT, so `NOT EXISTS (q)::int` is a syntax
  error; `-5[1]` is one while `-x[1]` is not; `trim(a, CASE WHEN b IS DISTINCT FROM c ...)` reads the FROM as its own;
  `* REPLACE (SELECT ...) AS c` and `IN ((SELECT ...))` read the parenthesis as a list.
* Parquet. `nullable` of a column is its leaf's own repetition only (`parquet/schema.rs:472`); a version 2 page with 0 bytes of compressed values
  asks nothing of the host and then fails as an unsupported codec; a flat version 2 page may have no definition levels where a nested
  one fails; `check_chunk_supported` is never called.
* JSON. `cmp_json` (`json.rs:891`) is not a total order; `list_distinct` compares bytes while `list_contains` compares values;
  BOOLEAN and BIGINT unify differently across parts and within a document; `format/json.rs:29-30` says that a `.json` file of
  white space contributes no columns to a multi-file table, while `unify_schema` (`catalog.rs:330`) leaves out only
  parts without splits.

## 7. Plan

1. Done: every module of section 2, its runs, and the proofs of section 4.
2. Proofs: of sort and top-N, where cutting the buffer back to the best rows must keep those of the whole input, and of the joins' drain.
3. The hash index of `exec/rowkey.rs` (probing, growth, chains) against a map, and under the operators in place of one.
4. LIKE (`expr/kernels.rs`), the shell's globbing, JSON data sets and hive partitions.
5. Of the binder: CTEs, windows and the depth of plans.
