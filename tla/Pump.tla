-------------------------------- MODULE Pump --------------------------------
(***************************************************************************)
(* How the JS host fetches the bytes of one file for a query (ahirudb.js:  *)
(* #pump, #read, #bytesAt): requests are coalesced, read in parallel       *)
(* through a range cache that others share and may spoil, handed to the    *)
(* engine and kept for the codec; a detector ends a query whose rounds     *)
(* make no progress.  The byte at offset i of the file is i; a range is    *)
(* <<offset, length>>.                                                     *)
(***************************************************************************)
EXTENDS Integers, SequencesExt

CONSTANTS
    Size,            \* bytes of the file
    Gap,             \* COALESCE_GAP
    Queries,         \* [wants, pages]: the ranges a query reads, and those it inflates
    Spoiled,         \* ranges whose cache entries others write, drop or cut
    MaxJobs,         \* MAX_REMEMBERED_JOBS
    ResidentLimit    \* #residentLimit

VARIABLES
    phase,      \* idle; engine: it is stepped; pump, codec: a read is awaited
    query,      \* what the query in flight needs, and the pages still to inflate
    held,       \* the engine's bytes of the file
    rec,        \* the registration: [sized, fetched, jobs, maxLen, resident]
    cache,      \* the range cache
    reads,      \* the reads in flight, by range
    asked,      \* the requests they answer, the signature
    lastAsked,  \* lastSignature
    slice,      \* the block last handed to the codec
    error,      \* how the last query failed
    emptied     \* history: the source gave this query an empty body

vars == <<phase, query, held, rec, cache, reads, asked, lastAsked, slice, error, emptied>>

File == 0..(Size - 1)
Ranges == {r \in File \X (1..Size) : r[1] + r[2] <= Size}
Within(r, s) == s[1] <= r[1] /\ r[1] + r[2] <= s[1] + s[2]

ASSUME PumpAssumption ==
    /\ Size \in Nat \ {0} /\ Gap \in Nat /\ MaxJobs \in Nat \ {0} /\ ResidentLimit \in Nat
    /\ Spoiled \subseteq Ranges
    /\ \A q \in Queries : /\ q \in [wants : SUBSET Ranges, pages : SUBSET Ranges]
                          /\ \A p \in q.pages : \E w \in q.wants : Within(p, w)

Absent == -1
Miss == <<Absent>>       \* no entry, or a read not answered yet
NoBytes == <<>>
NoReads == <<>>
SizeRequest == <<Size, 0>>
NoQuery == [wants |-> {}, pages |-> {}]
NoSlice == [of |-> SizeRequest, buf |-> NoBytes]
Nothing == [i \in File |-> Absent]

Covers(r) == r[1]..(r[1] + r[2] - 1)
Body(r) == [k \in 1..r[2] |-> r[1] + k - 1]
Cut(r) == SubSeq(Body(r), 1, r[2] - 1)

\* The bytes of r in a buffer that holds s.
Sliced(buf, s, r) == SubSeq(buf, r[1] - s[1] + 1, r[1] - s[1] + r[2])

Init ==
    /\ phase = "idle" /\ query = NoQuery
    /\ held = Nothing
    /\ rec = [sized |-> FALSE, fetched |-> {}, jobs |-> <<>>, maxLen |-> 0, resident |-> <<>>]
    /\ cache = [r \in Ranges |-> Miss]
    /\ reads = NoReads /\ asked = {} /\ lastAsked = {}
    /\ slice = NoSlice /\ error = "none" /\ emptied = FALSE

-----------------------------------------------------------------------------
(* Reading through the cache. *)

\* Mutant: whatever the cache hands back is the range.
Hit_AnyLength(r) == cache[r] # Miss

\* An entry is a hit only if it is as long as its key says.
Hit(r) == cache[r] # Miss /\ Len(cache[r]) = r[2]

\* The remembered jobs that overlap a range: none starts further before it than
\* the longest is long.
Overlapping(r) ==
    {j \in ToSet(rec.jobs) :
        /\ j[1] >= r[1] - rec.maxLen /\ j[1] < r[1] + r[2]
        /\ j[1] + j[2] > r[1]}

Pieces(r) == {j \in Overlapping(r) : cache[j] # Miss /\ Len(cache[j]) = j[2]}

\* The byte at i of the piece that starts first, or of a new array where none has it.
ByteOf(pieces, i) ==
    LET those == {p \in pieces : i \in Covers(p)}
        first == CHOOSE p \in those : \A q \in those : p[1] <= q[1]
    IN IF those = {} THEN 0 ELSE cache[first][i - first[1] + 1]

Assembled(r) == [k \in 1..r[2] |-> ByteOf(Pieces(r), r[1] + k - 1)]

\* Mutant: pieces that leave a hole between them are put together all the same.
FromCachedJobs_AcrossGaps(r) ==
    IF \E p, q \in Pieces(r) : p[1] <= r[1] /\ q[1] + q[2] >= r[1] + r[2]
    THEN Assembled(r) ELSE Miss

\* A range put together from the coalesced ranges fetched earlier, if the cache
\* still has enough of them.
FromCachedJobs(r) ==
    IF Covers(r) \subseteq UNION {Covers(p) : p \in Pieces(r)} THEN Assembled(r) ELSE Miss

\* #read, until it has to ask the source.
ReadNow(r) == IF Hit(r) THEN cache[r] ELSE FromCachedJobs(r)

-----------------------------------------------------------------------------
(* What is kept of a fetched range. *)

Touched(fetched, r) == {f \in fetched : f[1] <= r[1] + r[2] /\ r[1] <= f[1] + f[2]}

\* Mutant: a range is known by where it starts.
RecordFetched_ByStart(fetched, r) ==
    IF \E f \in fetched : f[1] = r[1] THEN fetched ELSE fetched \cup {r}

\* recordFetched: coverage, the ranges it touches or abuts merged into one.
RecordFetched(fetched, r) ==
    LET all == Touched(fetched, r) \cup {r}
        first == CHOOSE i \in {f[1] : f \in all} : \A f \in all : i <= f[1]
        past == CHOOSE i \in {f[1] + f[2] : f \in all} : \A f \in all : i >= f[1] + f[2]
    IN (fetched \ all) \cup {<<first, past - first>>}

\* JobIndex.add: a job known already becomes the most recent, the oldest is
\* forgotten beyond the limit.
Without(known, r) ==
    IF r \in ToSet(known) THEN RemoveAt(known, CHOOSE k \in DOMAIN known : known[k] = r)
    ELSE known

AddJob(known, r) ==
    LET added == Append(Without(known, r), r)
    IN IF Len(added) > MaxJobs THEN Tail(added) ELSE added

Weight(kept) == FoldLeft(LAMBDA n, c : n + Len(c.buf), 0, kept)

\* Oldest first, but never the last one.
Trimmed(kept) ==
    LET fits == {k \in 1..Len(kept) :
                    k = Len(kept) \/ Weight(SubSeq(kept, k, Len(kept))) <= ResidentLimit}
    IN IF kept = <<>> THEN kept
       ELSE SubSeq(kept, CHOOSE k \in fits : \A l \in fits : k <= l, Len(kept))

Resident(kept, r, buf) ==
    IF \E k \in 1..Len(kept) : Within(r, kept[k].of) THEN kept
    ELSE Trimmed(Append(kept, [of |-> r, buf |-> buf]))

\* What a pump retains of one range it handed over; an empty body is not retained.
Retain(known, r, buf) ==
    LET got == <<r[1], Len(buf)>>
    IN IF buf = NoBytes THEN known
       ELSE [known EXCEPT !.fetched = RecordFetched(@, got),
                          !.jobs = AddJob(@, got),
                          !.maxLen = IF Len(buf) > @ THEN Len(buf) ELSE @,
                          !.resident = Resident(@, got, buf)]

-----------------------------------------------------------------------------
(* A query, as the pump sees it. *)

Missing(w) == \E i \in Covers(w) : held[i] = Absent

Requests ==
    IF ~rec.sized THEN {SizeRequest} ELSE {w \in query.wants : Missing(w)}

\* coalesceRanges: ranges no further apart than the gap become one.
Coalesced(ranges) ==
    LET wanted == UNION {Covers(r) : r \in ranges}
        span == wanted \cup
            {i \in File : \E a, b \in wanted : a < i /\ i < b /\ b - a - 1 <= Gap}
    IN {r \in Ranges : /\ Covers(r) \subseteq span
                       /\ r[1] - 1 \notin span /\ r[1] + r[2] \notin span}

StartQuery(q) ==
    /\ phase = "idle"
    /\ phase' = "engine" /\ query' = q /\ error' = "none" /\ emptied' = FALSE
    /\ UNCHANGED <<held, rec, cache, reads, asked, lastAsked, slice>>

\* The query is closed; the engine is idle and drops the file's bytes.
End(kind) ==
    /\ phase' = "idle" /\ query' = NoQuery /\ held' = Nothing /\ slice' = NoSlice
    /\ reads' = NoReads /\ asked' = {} /\ lastAsked' = {} /\ error' = kind

Pending == {r \in DOMAIN reads : reads[r] = Miss}

PumpStart ==
    /\ phase = "engine" /\ Requests # {}
    /\ phase' = "pump" /\ asked' = Requests
    /\ reads' = IF rec.sized THEN [r \in Coalesced(Requests) |-> ReadNow(r)]
                ELSE [r \in {SizeRequest} |-> Miss]
    /\ UNCHANGED <<query, held, rec, cache, lastAsked, slice, error, emptied>>

Cached(r) == IF r = SizeRequest THEN cache ELSE [cache EXCEPT ![r] = Body(r)]

ReadAnswered(r) ==
    /\ r \in Pending
    /\ reads' = [reads EXCEPT ![r] = Body(r)]
    /\ cache' = Cached(r)
    /\ UNCHANGED <<phase, query, held, rec, asked, lastAsked, slice, error, emptied>>

\* An empty body is handed on, and not cached.
ReadEmpty(r) ==
    /\ r \in Pending \ {SizeRequest}
    /\ reads' = [reads EXCEPT ![r] = NoBytes]
    /\ emptied' = TRUE
    /\ UNCHANGED <<phase, query, held, rec, cache, asked, lastAsked, slice, error>>

\* The source fails, or its body is neither empty nor as long as asked for.  What
\* the reads made with it still write to the cache is a write of Others.
ReadFails(r) ==
    /\ r \in Pending
    /\ End("io")
    /\ UNCHANGED <<rec, cache, emptied>>

\* Source::insert keeps what is there.
Inserted(i) ==
    LET those == {r \in DOMAIN reads : r[1] <= i /\ i < r[1] + Len(reads[r])}
    IN IF held[i] # Absent \/ those = {} THEN held[i]
       ELSE LET r == CHOOSE r \in those : TRUE IN reads[r][i - r[1] + 1]

RetainAt(known, i) ==
    LET those == {r \in DOMAIN reads : r[1] = i}
        r == CHOOSE r \in those : TRUE
    IN IF those = {} THEN known ELSE Retain(known, r, reads[r])

\* What the pump retains, in the order of the offsets.
Retained ==
    LET known[i \in 0..Size] ==
            IF i = 0 THEN [rec EXCEPT !.sized = TRUE] ELSE RetainAt(known[i - 1], i - 1)
    IN known[Size]

Satisfied == {r \in DOMAIN reads : Len(reads[r]) = r[2]}

\* Mutant: the last round is not remembered.
NoProgress_Forgets == Satisfied = {} /\ lastAsked = {}

\* The same requests as in the last round, and none answered in full.
NoProgress == Satisfied = {} /\ asked = lastAsked

PumpEnd ==
    /\ phase = "pump" /\ Pending = {}
    /\ IF NoProgress THEN End("no progress") /\ UNCHANGED rec
       ELSE /\ phase' = "engine" /\ lastAsked' = asked /\ asked' = {} /\ reads' = NoReads
            /\ held' = [i \in File |-> Inserted(i)]
            /\ rec' = Retained
            /\ UNCHANGED <<query, slice, error>>
    /\ UNCHANGED <<cache, emptied>>

-----------------------------------------------------------------------------
(* The blocks of pages the engine leaves to the host's codec. *)

Scanned == phase = "engine" /\ Requests = {}
EverFetched(r) == \E f \in rec.fetched : Within(r, f)
Kept(r) == {k \in 1..Len(rec.resident) : Within(r, rec.resident[k].of)}

\* #bytesAt, until it has to ask the source.
BytesAt(r) ==
    IF Kept(r) # {}
    THEN LET c == rec.resident[CHOOSE k \in Kept(r) : \A l \in Kept(r) : k <= l]
         IN Sliced(c.buf, c.of, r)
    ELSE IF FromCachedJobs(r) # Miss THEN FromCachedJobs(r)
    ELSE IF EverFetched(r) THEN ReadNow(r) ELSE Miss

Inflated(r, buf) ==
    /\ slice' = [of |-> r, buf |-> buf]
    /\ query' = [query EXCEPT !.pages = @ \ {r}]

Decompress(r) ==
    /\ Scanned /\ r \in query.pages /\ BytesAt(r) # Miss
    /\ Inflated(r, BytesAt(r))
    /\ UNCHANGED <<phase, held, rec, cache, reads, asked, lastAsked, error, emptied>>

DecompressReads(r) ==
    /\ Scanned /\ r \in query.pages /\ BytesAt(r) = Miss /\ EverFetched(r)
    /\ phase' = "codec" /\ reads' = [s \in {r} |-> Miss]
    /\ UNCHANGED <<query, held, rec, cache, asked, lastAsked, slice, error, emptied>>

\* "The engine should ask for these via NEED_IO first."
DecompressRefused(r) ==
    /\ Scanned /\ r \in query.pages /\ BytesAt(r) = Miss /\ ~EverFetched(r)
    /\ End("never fetched")
    /\ UNCHANGED <<rec, cache, emptied>>

\* An empty block does not inflate.
DecompressResumes(r) ==
    /\ phase = "codec" /\ r \in DOMAIN reads /\ r \notin Pending
    /\ IF reads[r] = NoBytes THEN End("codec")
       ELSE /\ Inflated(r, reads[r])
            /\ phase' = "engine" /\ reads' = NoReads
            /\ UNCHANGED <<held, asked, lastAsked, error>>
    /\ UNCHANGED <<rec, cache, emptied>>

Done ==
    /\ Scanned /\ query.pages = {}
    /\ End("none")
    /\ UNCHANGED <<rec, cache, emptied>>

\* Another instance, or a read that outlived its query, writes to the cache; a limit
\* drops an entry; a store hands back less than it was given.
Others(r) ==
    /\ cache' \in {[cache EXCEPT ![r] = e] : e \in {Miss, Body(r), Cut(r)}}
    /\ UNCHANGED <<phase, query, held, rec, reads, asked, lastAsked, slice, error, emptied>>

Runs ==
    \/ PumpStart \/ PumpEnd \/ Done
    \/ \E r \in DOMAIN reads : ReadAnswered(r) \/ ReadEmpty(r) \/ ReadFails(r) \/ DecompressResumes(r)
    \/ \E r \in query.pages : Decompress(r) \/ DecompressReads(r) \/ DecompressRefused(r)

Next ==
    \/ Runs
    \/ \E q \in Queries : StartQuery(q)
    \/ \E r \in Spoiled : Others(r)

\* The event loop runs what is ready, and a source answers every read in the end.
Spec == Init /\ [][Next]_vars /\ WF_vars(Runs)

-----------------------------------------------------------------------------
(* Properties. *)

TypeOK ==
    /\ phase \in {"idle", "engine", "pump", "codec"}
    /\ held \in [File -> File \cup {Absent}]
    /\ rec.fetched \subseteq Ranges /\ ToSet(rec.jobs) \subseteq Ranges
    /\ DOMAIN reads \subseteq Ranges \cup {SizeRequest}
    /\ error \in {"none", "io", "codec", "no progress", "never fetched"}

\* The engine holds, and the codec inflates, the file's own bytes, whatever earlier
\* fetch, cached piece or shared entry they came from.
HandsOverTheFile ==
    /\ \A i \in File : held[i] \in {i, Absent}
    /\ slice.buf \in {NoBytes, Body(slice.of)}

\* The codec is never refused bytes the engine was given: what left the retained
\* copy and the cache is fetched again.
NeverDisowned == error # "never fetched"

\* A query is ended for want of progress only when the source itself gave it nothing,
\* and not because the cache holds an entry of the wrong length.
BlameIsFair == error = "no progress" => emptied

\* Every query ends, even over a source that answers with empty bodies for ever.
QueryEnds == phase # "idle" ~> phase = "idle"

=============================================================================
