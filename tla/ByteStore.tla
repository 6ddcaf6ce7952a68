----------------------------- MODULE ByteStore -----------------------------
(***************************************************************************)
(* What a byte source promises, with no representation: the file has a     *)
(* length, which may be unknown at first, and a set of fetched offsets.    *)
(* Providing a range adds exactly its offsets, releasing forgets those of a*)
(* file that can be fetched again, and nothing else changes the set: a file*)
(* handed over whole keeps every byte.  Source.tla implements it with a    *)
(* sorted list of coalesced chunks.                                        *)
(***************************************************************************)
EXTENDS Integers

CONSTANTS U64Max        \* the largest offset; also the "length unknown" sentinel

VARIABLES total,        \* declared length of the file, U64Max when unknown
          fetched,      \* the offsets whose bytes can be served
          remote        \* the file can be fetched again

Offsets == 0 .. U64Max - 1

\* A file is handed over whole, or nothing of it has been fetched yet.
Init == /\ total \in 0 .. U64Max
        /\ remote \in BOOLEAN
        /\ fetched = IF remote THEN {} ELSE 0 .. total - 1

Provide(off, len) ==
    /\ off + len <= total
    /\ fetched' = fetched \cup (off .. off + len - 1)
    /\ UNCHANGED <<total, remote>>

SetSize(n) ==
    /\ total = U64Max
    /\ n \in Offsets
    /\ total' = n
    /\ UNCHANGED <<fetched, remote>>

Release == remote /\ fetched' = {} /\ UNCHANGED <<total, remote>>

Next == \/ \E off, len \in 0 .. U64Max : Provide(off, len)
        \/ \E n \in Offsets : SetSize(n)
        \/ Release

Spec == Init /\ [][Next]_<<total, fetched, remote>>
=============================================================================
