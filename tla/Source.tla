------------------------------- MODULE Source -------------------------------
(***************************************************************************)
(* One byte source of the catalog (catalog.rs, Source) with the session    *)
(* entry points that guard it: the ranges the host has provided, kept as a *)
(* sorted list of coalesced chunks, and the pages the host decompressed.   *)
(*                                                                         *)
(* The byte at offset o of the file is modelled by o itself, so that a     *)
(* byte served from the wrong place shows.  Lengths and offsets are u64:   *)
(* U64Max stands for u64::MAX, which is also SIZE_UNKNOWN.                 *)
(***************************************************************************)
EXTENDS Integers, Sequences, SequencesExt, FiniteSetsExt

CONSTANTS U64Max,          \* u64::MAX and the SIZE_UNKNOWN sentinel
          Pages,           \* compressed page bodies, (offset, len) keys
          PageCap,         \* MAX_DECOMPRESSED_PAGE_BYTES
          DecodedCap       \* MAX_DECODED_BYTES

ASSUME SourceAssumption ==
    U64Max \in Nat /\ PageCap \in Nat /\ DecodedCap \in Nat

VARIABLES total,           \* total_len
          chunks,          \* sequence of [off |-> , data |-> ], Source::chunks
          decoded,         \* page |-> decompressed size, Source::decoded
          remote           \* the host can serve the bytes again

vars == <<total, chunks, decoded, remote>>

U64 == 0 .. U64Max
SIZE_UNKNOWN == U64Max
None == <<>>               \* no byte range here is empty, so <<>> is free

FileBytes(off, len) == [i \in 1 .. len |-> off + i - 1]
End(c) == c.off + Len(c.data)

\* Source::remote declares a host-served file, Source::from_bytes holds the
\* only copy of a file in one chunk (an empty one for an empty file).
Init == /\ decoded = [p \in {} |-> 0]
        /\ \/ remote = TRUE /\ total \in U64 /\ chunks = <<>>
           \/ /\ remote = FALSE
              /\ total \in U64 \ {SIZE_UNKNOWN}
              /\ chunks = <<[off |-> 0, data |-> FileBytes(0, total)]>>
----------------------------------------------------------------------------
\* Source::get: the first chunk that covers the whole range serves it.
GetIn(cs, off, len) ==
    LET covering == {i \in DOMAIN cs : cs[i].off <= off /\ off + len <= End(cs[i])}
    IN  IF off + len > U64Max \/ covering = {} THEN None
        ELSE LET c == cs[Min(covering)]
             IN  SubSeq(c.data, off - c.off + 1, off - c.off + len)

Get(off, len) == GetIn(chunks, off, len)

Missing_NoClamp(off, len) == IF len = 0 \/ Get(off, len) # None THEN None ELSE <<off, len>>

\* Source::missing: the range still to be fetched, clamped to the file.
Missing(off, len) ==
    LET rest    == IF off < total THEN total - off ELSE 0
        clamped == IF len < rest THEN len ELSE rest
    IN  IF clamped = 0 \/ Get(off, clamped) # None THEN None
        ELSE <<off, clamped>>

IsComplete == chunks # <<>> /\ chunks[1].off = 0 /\ Len(chunks[1].data) = total
----------------------------------------------------------------------------
\* The stable sort after a push: the list was in order, and the new chunk
\* lands behind the chunks that start at the same offset.
PushSorted(cs, c) ==
    InsertAt(cs, Min({k \in 1 .. Len(cs) + 1 : k \in DOMAIN cs => cs[k].off > c.off}), c)

MergeStep_TouchingKeptApart(merged, c) ==
    IF merged # <<>> /\ c.off < End(Last(merged))
    THEN LET p == Last(merged)
         IN  Front(merged) \o
             <<[p EXCEPT !.data = @ \o SubSeq(c.data, End(p) - c.off + 1, Len(c.data))]>>
    ELSE Append(merged, c)

MergeStep_ReplacesTail(merged, c) ==
    IF merged # <<>> /\ c.off <= End(Last(merged))
    THEN LET p == Last(merged)
         IN  Front(merged) \o
             <<[p EXCEPT !.data = SubSeq(@, 1, c.off - p.off) \o c.data]>>
    ELSE Append(merged, c)

\* The merge loop of insert: a chunk that starts inside the previous one or
\* right at its end gives it the bytes it lacks and disappears.
MergeStep(merged, c) ==
    IF merged # <<>> /\ c.off <= End(Last(merged))
    THEN LET p == Last(merged)
         IN  Front(merged) \o
             <<[p EXCEPT !.data = @ \o SubSeq(c.data, End(p) - c.off + 1, Len(c.data))]>>
    ELSE Append(merged, c)

Merged(cs) ==
    LET merged[k \in 0 .. Len(cs)] ==
            IF k = 0 THEN <<>> ELSE MergeStep(merged[k - 1], cs[k])
    IN  merged[Len(cs)]

Insert(cs, off, data) == Merged(PushSorted(cs, [off |-> off, data |-> data]))

\* Session::provide answers an error, and Source::insert returns, unless the
\* range lies in the declared file; an empty body changes nothing.
Provide(off, len) ==
    /\ off + len <= U64Max
    /\ off <= total /\ off + len <= total
    /\ len > 0
    /\ chunks' = Insert(chunks, off, FileBytes(off, len))
    /\ UNCHANGED <<total, decoded, remote>>

\* Table::set_size: the host reports a length it did not know at registration.
SetSize(n) ==
    /\ n # SIZE_UNKNOWN
    /\ total = SIZE_UNKNOWN \/ total = n
    /\ total' = n
    /\ UNCHANGED <<chunks, decoded, remote>>

Release_Always ==
    /\ chunks' = <<>>
    /\ decoded' = [p \in {} |-> 0]
    /\ UNCHANGED <<total, remote>>

\* Source::release, between queries: only what the host can serve again goes.
Release ==
    /\ remote
    /\ chunks' = <<>>
    /\ decoded' = [p \in {} |-> 0]
    /\ UNCHANGED <<total, remote>>

DecodedBytes == MapThenSumSet(LAMBDA p : decoded[p], DOMAIN decoded)

AcceptsDecoded_ForgetsReplaced(p, n) == n <= PageCap /\ DecodedBytes + n <= DecodedCap

AcceptsDecoded_PerPageOnly(p, n) == n <= PageCap

\* checked_decoded_bytes: the budget is checked against what would be held,
\* with the entry that is being replaced taken off first.
AcceptsDecoded(p, n) ==
    LET replaced == IF p \in DOMAIN decoded THEN decoded[p] ELSE 0
    IN  n <= PageCap /\ DecodedBytes - replaced + n <= DecodedCap

\* Session::provide_decoded into Source::insert_decoded.
InsertDecoded(p, n) ==
    /\ p[1] + p[2] <= total
    /\ AcceptsDecoded(p, n)
    /\ decoded' = [q \in DOMAIN decoded \cup {p} |-> IF q = p THEN n ELSE decoded[q]]
    /\ UNCHANGED <<total, chunks, remote>>

\* Called by the scan once a split has been decoded.
ClearDecoded ==
    /\ decoded # [p \in {} |-> 0]
    /\ decoded' = [p \in {} |-> 0]
    /\ UNCHANGED <<total, chunks, remote>>

Next == \/ \E off, len \in U64 : Provide(off, len)
        \/ \E n \in U64 : SetSize(n)
        \/ Release
        \/ \E p \in Pages, n \in 1 .. PageCap + 1 : InsertDecoded(p, n)
        \/ ClearDecoded

Spec == Init /\ [][Next]_vars
----------------------------------------------------------------------------
Fetched == UNION {c.off .. End(c) - 1 : c \in Range(chunks)}

TypeOK == /\ total \in U64
          /\ remote \in BOOLEAN
          /\ \A i \in DOMAIN chunks : chunks[i].off \in U64
          /\ DOMAIN decoded \subseteq Pages

(* get looks at one chunk at a time, so a fetched range is only served when *)
(* insert has coalesced all of it into one chunk.  A range is served exactly *)
(* when each of its bytes has been fetched, and with the bytes of the file   *)
(* at that place (Source::get, Source::insert).                              *)
ServesWhatWasFetched ==
    \A off \in U64 : \A len \in 1 .. U64Max - off :
        Get(off, len) = IF off .. off + len - 1 \subseteq Fetched
                        THEN FileBytes(off, len) ELSE None

(* What missing reports is a non-empty range of the file, and once the host *)
(* has answered exactly that range it is no longer reported: a scan that    *)
(* asks again after its reads were answered never asks for the same thing   *)
(* (Source::missing, Session::provide).                                     *)
MissingIsAnswerable ==
    \A off \in U64, len \in U64 :
        LET m == Missing(off, len)
        IN  m # None =>
              /\ m[2] > 0 /\ m[1] + m[2] <= total
              /\ GetIn(Insert(chunks, m[1], FileBytes(m[1], m[2])), m[1], m[2]) # None

(* A page delivered again with the size it already has is accepted however  *)
(* full the budget is, and what is held never exceeds the budget: replacing *)
(* a page does not count it twice (insert_decoded, checked_decoded_bytes).  *)
DecodedBudget ==
    /\ DecodedBytes <= DecodedCap
    /\ \A p \in DOMAIN decoded : AcceptsDecoded(p, decoded[p])

\* The chunk list implements the set of fetched offsets of ByteStore: no
\* call loses a byte or makes one up, and only the bytes of a file the host
\* can serve again are ever dropped.
Store == INSTANCE ByteStore WITH fetched <- Fetched
ImplementsByteStore == Store!Spec
=============================================================================
