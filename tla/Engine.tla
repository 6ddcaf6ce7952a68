-------------------------------- MODULE Engine --------------------------------
(***************************************************************************)
(* How the engine runs statements over one host-served table without ever  *)
(* doing I/O itself (DESIGN.md, section 6): query_start resolves the       *)
(* table's parts, query_step pulls batches out of a scan, and whenever     *)
(* bytes or a decompressed page are missing the call returns a request and *)
(* is simply made again later.  Several statements share the parts: the    *)
(* fetched bytes, the decompressed pages, the parsed footers and the       *)
(* format's page selection.                                                *)
(*                                                                         *)
(* Bytes are abstracted to the units that are asked for: the size, tail    *)
(* and footer of a part, the page index and the pages of a split, and the  *)
(* decompressed form of a page.  Splits carry a flat number across parts,  *)
(* as Scan presents them, a page holds one row and a batch one row.        *)
(***************************************************************************)
EXTENDS Integers, Sequences, SequencesExt, FiniteSetsExt

CONSTANTS
    Queries,      \* one element per statement the host runs
    Kind,         \* q |-> "select" or "copy", which runs inside prepare
    Parts,        \* the files of the table
    KnownSize,    \* parts registered with their size
    BigFooter,    \* parts whose footer is larger than the speculative tail read
    Delegated,    \* parts whose pages the host decompresses
    SplitSeq,     \* the splits in order: [part, pages, index], index: has page statistics
    RuledOut,     \* q |-> splits the row group statistics exclude
    Prunes,       \* q |-> whether the statement has pruners
    Keeps,        \* q |-> the <<split, page>> that page statistics do not exclude
    CodecHook     \* whether an in-process decompressor is registered

ASSUME EngineAssumption ==
    /\ SplitSeq \in Seq([part : Parts, pages : Nat, index : BOOLEAN])
    /\ Kind \in [Queries -> {"select", "copy"}]
    /\ Prunes \in [Queries -> BOOLEAN] /\ CodecHook \in BOOLEAN

VARIABLES
    held,         \* what the sources hold: bytes, sizes and decompressed pages
    resolved,     \* parts whose footer is parsed
    plan,         \* part |-> page selection cached in the format, ParquetFormat::page_plan
    phase,        \* q |-> new, preparing, open, done (still in its slot), closed, failed
    pos,          \* q |-> next split of its scan
    cur,          \* q |-> decoded rows not returned yet
    out,          \* q |-> rows returned so far
    inflight      \* <<q, b>>: the host is answering q's request for b

vars == <<held, resolved, plan, phase, pos, cur, out, inflight>>

N == Len(SplitSeq)
Split(n) == SplitSeq[n]
AllPages(n) == 1 .. Split(n).pages
NoPlan == [split |-> 0, pages |-> {}]

Init == /\ held = {"size"} \X KnownSize /\ resolved = {} /\ inflight = {}
        /\ plan = [p \in Parts |-> NoPlan]
        /\ phase = [q \in Queries |-> "new"]
        /\ pos = [q \in Queries |-> 1]
        /\ cur = [q \in Queries |-> <<>>]
        /\ out = [q \in Queries |-> <<>>]
----------------------------------------------------------------------------
\* Catalog::release: everything fetched goes, a reported size stays.
Released(bs) == {b \in bs : b[1] = "size"}

InSlot(q) == phase[q] \in {"open", "done"}

ReleaseIfIdle_Always(q, bs) == Released(bs)

\* release_if_idle, after q gave up its slot or failed to get one: what is left
\* of the bytes bs.
ReleaseIfIdle(q, bs) == IF \E r \in Queries \ {q} : InSlot(r) THEN bs ELSE Released(bs)

\* clear_decoded: one split was read, all decompressed pages of its part go.
ClearedDecoded(n) ==
    {b \in held : b[1] # "inflated" \/ Split(b[2]).part # Split(n).part}

\* Table::resolve looks at every part, and at a part of unknown size asks for
\* the size alone.
Resolvable(p) ==
    /\ <<"size", p>> \in held /\ <<"tail", p>> \in held
    /\ p \in BigFooter => <<"footer", p>> \in held

ResolveNeeds_ReprobesTail(p) ==
    CASE <<"size", p>> \notin held -> {<<"size", p>>}
      [] p \in resolved            -> {}
      [] OTHER                     -> {b \in {<<"tail", p>>} : ~Resolvable(p)}

ResolveNeeds(p) ==
    CASE <<"size", p>> \notin held -> {<<"size", p>>}
      [] p \in resolved            -> {}
      [] <<"tail", p>> \notin held -> {<<"tail", p>>}
      [] OTHER                     -> {b \in {<<"footer", p>>} : ~Resolvable(p)}

TableNeeds == UNION {ResolveNeeds(p) : p \in Parts}
----------------------------------------------------------------------------
\* Scan::next on one split.  Pruned: excluded by statistics, or found empty,
\* without any request.
PageIndexUsed(q, n) == Prunes[q] /\ Split(n).index
IndexMissing(q, n) == PageIndexUsed(q, n) /\ <<"index", n>> \notin held
KeptPages(q, n) ==
    IF PageIndexUsed(q, n) THEN {g \in AllPages(n) : <<n, g>> \in Keeps[q]} ELSE AllPages(n)

Passed_NoStatistics(q, n) == ~IndexMissing(q, n) /\ KeptPages(q, n) = {}

Passed(q, n) ==
    n \in RuledOut[q] \/ (~IndexMissing(q, n) /\ KeptPages(q, n) = {})

\* refine_with_index throws the previous selection away and settles a new one.
Refined_Reused(q, n) ==
    IF plan[Split(n).part].split = n THEN plan[Split(n).part]
    ELSE IF PageIndexUsed(q, n) THEN [split |-> n, pages |-> KeptPages(q, n)] ELSE NoPlan

Refined(q, n) ==
    IF PageIndexUsed(q, n) THEN [split |-> n, pages |-> KeptPages(q, n)] ELSE NoPlan

\* What the selection makes split_ranges, codec_tasks and read_split see.
PagesRead(q, n) == IF Refined(q, n).split = n THEN Refined(q, n).pages ELSE AllPages(n)

MissingBytes(q, n) ==
    IF IndexMissing(q, n) THEN {<<"index", n>>}
    ELSE {<<"page", n, g>> : g \in PagesRead(q, n)} \ held

PendingCodec(q, n) ==
    IF Split(n).part \in Delegated
    THEN {<<"inflated", n, g>> : g \in PagesRead(q, n)} \ held ELSE {}

\* The rows of some pages of a split, in file order.
InOrder(pages) ==
    CHOOSE s \in [1 .. Cardinality(pages) -> pages] : \A i, j \in DOMAIN s : i < j => s[i] < s[j]

Rows(n, pages) == [i \in 1 .. Cardinality(pages) |-> <<n, InOrder(pages)[i]>>]

RowsOf(q, n) == Rows(n, PagesRead(q, n))

\* The split at which a scan standing at n stops, N + 1 at the end.
NextStop(q, n) == Min({m \in n .. N : ~Passed(q, m)} \cup {N + 1})

\* The selections left behind by a scan that went from split n to split m
\* and, if at is TRUE, settled the one of m.
PlanAfter(q, n, m, at) ==
    [p \in Parts |->
        IF at /\ m <= N /\ Split(m).part = p THEN Refined(q, m)
        ELSE IF \E k \in n .. m - 1 : Split(k).part = p /\ k \notin RuledOut[q] THEN NoPlan
        ELSE plan[p]]
----------------------------------------------------------------------------
Ask(q, bs) == inflight' = inflight \cup ({q} \X bs)

\* The host answers everything a call asked for before it makes the call again
\* (#start and #pump of ahirudb.js, and the loop of ahiru-cli's engine.rs).
Waiting(q) == \E r \in inflight : r[1] = q

\* query_start of a text that does not parse.
StartBad(q) ==
    /\ phase[q] = "new"
    /\ phase' = [phase EXCEPT ![q] = "failed"]
    /\ held' = ReleaseIfIdle(q, held)
    /\ UNCHANGED <<resolved, plan, pos, cur, out, inflight>>

\* query_start answers NEED_IO; the host calls it again with the same text.
StartNeedIo(q) ==
    /\ phase[q] \in {"new", "preparing"}
    /\ TableNeeds # {}
    /\ resolved' = resolved \cup {p \in Parts : Resolvable(p)}
    /\ Ask(q, TableNeeds)
    /\ phase' = [phase EXCEPT ![q] = "preparing"]
    /\ UNCHANGED <<held, plan, pos, cur, out>>

StartReady(q) ==
    /\ Kind[q] = "select" /\ phase[q] \in {"new", "preparing"}
    /\ TableNeeds = {}
    /\ resolved' = resolved \cup {p \in Parts : Resolvable(p)}
    /\ phase' = [phase EXCEPT ![q] = "open"]
    /\ UNCHANGED <<held, plan, pos, cur, out, inflight>>

\* A COPY (or CREATE TABLE AS) runs its whole query inside prepare, always
\* from the first split, and gives up at the first one that lacks bytes or
\* that it cannot decompress: CopyStop.
Unreadable(q, n) ==
    ~Passed(q, n) /\ (MissingBytes(q, n) # {} \/ (PendingCodec(q, n) # {} /\ ~CodecHook))

CopyStop(q) == Min({n \in 1 .. N : Unreadable(q, n)} \cup {N + 1})

\* What a scan that got to split n has read, and what it left of the bytes:
\* every split it read took the decompressed pages of its part with it.
CopyRead(q, n) == {m \in 1 .. n - 1 : ~Passed(q, m)}
HeldAfter(q, n) == {b \in held : \A m \in CopyRead(q, n) : b \in ClearedDecoded(m)}

AfterCopyScan(q) ==
    /\ held' = HeldAfter(q, CopyStop(q))
    /\ plan' = PlanAfter(q, 1, CopyStop(q),
                         CopyStop(q) <= N => ~IndexMissing(q, CopyStop(q)))

CopyNeedIo(q) ==
    /\ Kind[q] = "copy" /\ phase[q] \in {"new", "preparing"}
    /\ TableNeeds = {}
    /\ CopyStop(q) <= N /\ MissingBytes(q, CopyStop(q)) # {}
    /\ Ask(q, MissingBytes(q, CopyStop(q)))
    /\ resolved' = resolved \cup {p \in Parts : Resolvable(p)}
    /\ phase' = [phase EXCEPT ![q] = "preparing"]
    /\ AfterCopyScan(q)
    /\ UNCHANGED <<pos, cur, out>>

\* A delegated page is an error, not a request, if there is no hook or the hook
\* refuses it; the pages of the split before it are inflated by then.
CopyFails(q) ==
    /\ Kind[q] = "copy" /\ phase[q] \in {"new", "preparing"}
    /\ TableNeeds = {}
    /\ \E n \in {n \in 1 .. N : n <= CopyStop(q) /\ ~Passed(q, n)} :
          /\ MissingBytes(q, n) = {}
          /\ \E refused \in PendingCodec(q, n) :
                LET inflated == {b \in PendingCodec(q, n) : CodecHook /\ b[3] < refused[3]}
                IN  held' = ReleaseIfIdle(q, HeldAfter(q, n) \cup inflated)
          /\ plan' = PlanAfter(q, 1, n, TRUE)
    /\ phase' = [phase EXCEPT ![q] = "failed"]
    /\ resolved' = resolved \cup {p \in Parts : Resolvable(p)}
    /\ UNCHANGED <<pos, cur, out, inflight>>

CopyCompletes(q) ==
    /\ Kind[q] = "copy" /\ phase[q] \in {"new", "preparing"}
    /\ TableNeeds = {}
    /\ CopyStop(q) = N + 1
    /\ out' = [out EXCEPT ![q] = FlattenSeq([n \in 1 .. N |->
                                    IF n \in CopyRead(q, N + 1) THEN RowsOf(q, n) ELSE <<>>])]
    /\ phase' = [phase EXCEPT ![q] = "done"]
    /\ resolved' = resolved \cup {p \in Parts : Resolvable(p)}
    /\ AfterCopyScan(q)
    /\ UNCHANGED <<pos, cur, inflight>>

Start(q) ==
    /\ ~Waiting(q)
    /\ \/ StartBad(q) \/ StartNeedIo(q) \/ StartReady(q)
       \/ CopyNeedIo(q) \/ CopyFails(q) \/ CopyCompletes(q)
----------------------------------------------------------------------------
\* query_step: rows left of the decoded split come first.
StepRow(q) ==
    /\ phase[q] = "open" /\ cur[q] # <<>>
    /\ out' = [out EXCEPT ![q] = Append(@, Head(cur[q]))]
    /\ cur' = [cur EXCEPT ![q] = Tail(@)]
    /\ UNCHANGED <<held, resolved, plan, phase, pos, inflight>>

Scanning(q) == phase[q] = "open" /\ cur[q] = <<>>
Stop(q) == NextStop(q, pos[q])

StepDone(q) ==
    /\ Scanning(q) /\ Stop(q) = N + 1
    /\ pos' = [pos EXCEPT ![q] = N + 1]
    /\ plan' = PlanAfter(q, pos[q], N + 1, FALSE)
    /\ phase' = [phase EXCEPT ![q] = "done"]
    /\ UNCHANGED <<held, resolved, cur, out, inflight>>

StepNeedIo(q) ==
    /\ Scanning(q) /\ Stop(q) <= N
    /\ MissingBytes(q, Stop(q)) # {}
    /\ Ask(q, MissingBytes(q, Stop(q)))
    /\ pos' = [pos EXCEPT ![q] = Stop(q)]
    /\ plan' = PlanAfter(q, pos[q], Stop(q), ~IndexMissing(q, Stop(q)))
    /\ UNCHANGED <<held, resolved, phase, cur, out>>

StepNeedCodec(q) ==
    /\ Scanning(q) /\ Stop(q) <= N
    /\ MissingBytes(q, Stop(q)) = {} /\ PendingCodec(q, Stop(q)) # {}
    /\ Ask(q, PendingCodec(q, Stop(q)))
    /\ pos' = [pos EXCEPT ![q] = Stop(q)]
    /\ plan' = PlanAfter(q, pos[q], Stop(q), TRUE)
    /\ UNCHANGED <<held, resolved, phase, cur, out>>

\* The split is decoded and its first row returned by the same call.
StepDecode(q) ==
    /\ Scanning(q) /\ Stop(q) <= N
    /\ MissingBytes(q, Stop(q)) = {} /\ PendingCodec(q, Stop(q)) = {}
    /\ out' = [out EXCEPT ![q] = Append(@, Head(RowsOf(q, Stop(q))))]
    /\ cur' = [cur EXCEPT ![q] = Tail(RowsOf(q, Stop(q)))]
    /\ pos' = [pos EXCEPT ![q] = Stop(q) + 1]
    /\ plan' = PlanAfter(q, pos[q], Stop(q), TRUE)
    /\ held' = ClearedDecoded(Stop(q))
    /\ UNCHANGED <<resolved, phase, inflight>>

Step(q) ==
    /\ ~Waiting(q)
    /\ StepRow(q) \/ StepDone(q) \/ StepNeedIo(q) \/ StepNeedCodec(q) \/ StepDecode(q)

\* query_close, at the end or in the middle of a scan.
Close(q) ==
    /\ InSlot(q)
    /\ phase' = [phase EXCEPT ![q] = "closed"]
    /\ cur' = [cur EXCEPT ![q] = <<>>]
    /\ held' = ReleaseIfIdle(q, held)
    /\ UNCHANGED <<resolved, plan, pos, out, inflight>>

\* The host answers one request: provide, set_size or provide_codec.  It may
\* do so after the statement that asked is gone.
Provide(q, b) ==
    /\ <<q, b>> \in inflight
    /\ held' = held \cup {b}
    /\ inflight' = inflight \ {<<q, b>>}
    /\ UNCHANGED <<resolved, plan, phase, pos, cur, out>>

Next == \/ \E q \in Queries : Start(q) \/ Step(q) \/ Close(q)
        \/ \E r \in inflight : Provide(r[1], r[2])

\* While a request or a statement it has started is unfinished, the host answers
\* the one or drives the other. It need not start or close any statement.
Driven(q) == (phase[q] = "preparing" /\ Start(q)) \/ Step(q)

Fairness == WF_vars(\/ \E r \in inflight : Provide(r[1], r[2])
                    \/ \E q \in Queries : Driven(q))

Spec == Init /\ [][Next]_vars /\ Fairness
----------------------------------------------------------------------------
\* Whether the statement's own statistics exclude a page; Answer is what a
\* statement run alone over a file in memory returns.
Wanted(q, n, g) ==
    n \notin RuledOut[q] /\ (PageIndexUsed(q, n) => <<n, g>> \in Keeps[q])

Answer ==
    [q \in Queries |->
        FlattenSeq([n \in 1 .. N |-> Rows(n, {g \in AllPages(n) : Wanted(q, n, g)})])]

\* Whether a statement has to read pages that the host decompresses.
NeedsCodec(q) ==
    \E n \in 1 .. N : Split(n).part \in Delegated /\ \E g \in AllPages(n) : Wanted(q, n, g)

\* Every batch a scan returns, and every COPY, holds exactly the rows the
\* statement's own filters keep: page selection lives in the table, shared by
\* all statements, and a scan must never decode under another one's selection.
RowsExact ==
    \A q \in Queries :
        /\ IsPrefix(out[q], Answer[q])
        /\ phase[q] = "done" => out[q] = Answer[q]

\* Statistics are used before bytes are asked for: no statement ever asks for a
\* data page, or its decompressed form, that its own statistics exclude, whatever
\* selection another statement left in the format between two of its calls.
OnlyWantedPagesFetched ==
    \A r \in inflight :
        r[2][1] \in {"page", "inflated"} => Wanted(r[1], r[2][2], r[2][3])

\* release_if_idle: as long as a statement keeps its slot, no step of any
\* other one takes fetched bytes away under it.
OpenStatementKeepsBytes ==
    [][\A q \in Queries : InSlot(q) /\ InSlot(q)' =>
          {b \in held : b[1] # "inflated"} \subseteq held']_vars

\* Interleaved over shared bytes, shared pages and a shared selection, every
\* statement behaves as if alone, and a statement the host drives ends.
Alone == INSTANCE Answers WITH
    Statements <- Queries,
    Reply <- Answer,
    Streams <- {q \in Queries : Kind[q] = "select"},
    MayFail <- {q \in Queries : Kind[q] = "copy" /\ NeedsCodec(q)},
    returned <- out,
    status <- [q \in Queries |->
        CASE phase[q] = "new" -> "idle"
          [] phase[q] \in {"preparing", "open"} -> "running"
          [] phase[q] \in {"done", "failed"} -> "ended"
          [] phase[q] = "closed" -> IF out[q] = Answer[q] THEN "ended" ELSE "abandoned"]

ImplementsAnswers == Alone!Spec
=============================================================================
