------------------------------- MODULE Handles -------------------------------
(***************************************************************************)
(* The handle tables of the ABI (abi.rs): sessions and queries live in     *)
(* slots that are reused, and a handle packs a slot index with the         *)
(* generation the slot had when the handle was minted.  A slot whose       *)
(* generation is used up becomes a tombstone.                              *)
(*                                                                         *)
(* A Vec of slots is a function on all indices with a length; past the     *)
(* length every slot is empty.  The generation vectors are never truncated *)
(* and read as 0 where they have not grown yet.  Ids stand for the session *)
(* and query objects themselves.                                           *)
(***************************************************************************)
EXTENDS Integers

CONSTANTS MaxIndex,        \* QUERY_IDX_MASK, the largest slot index
          MaxGen           \* QUERY_GEN_MASK, the last generation a handle carries

ASSUME HandlesAssumption == MaxIndex \in Nat /\ MaxGen \in Nat

VARIABLES sessions, slen, sgen,     \* State::sessions, its length, its generations
          queries, qlen, qgen,      \* State::queries, its length, its generations
          born,                     \* number of objects created so far
          minted                    \* every handle ever returned, with its object

vars == <<sessions, slen, sgen, queries, qlen, qgen, born, minted>>

Index == 0 .. MaxIndex
Exhausted == MaxGen + 1             \* QUERY_GEN_EXHAUSTED
Generation == 0 .. Exhausted
Ids == Nat \ {0}
Empty == 0                          \* no session in the slot
NoQuery == [id |-> 0, slot |-> 0]

QuerySlot == [id : Nat, slot : Index]
Handle == [kind : {"session", "query"}, index : Index, gen : 0 .. MaxGen]

\* make_query_handle masks the generation: the tombstone value would come
\* out as 0.
MakeHandle(kind, i, g) ==
    [kind |-> kind, index |-> i, gen |-> IF g = Exhausted THEN 0 ELSE g]

NextGeneration_Wraps(g) == IF g >= MaxGen THEN 0 ELSE g + 1

NextGeneration(g) == IF g >= MaxGen THEN Exhausted ELSE g + 1

Init == /\ sessions = [i \in Index |-> Empty] /\ slen = 0
        /\ sgen = [i \in Index |-> 0]
        /\ queries = [i \in Index |-> NoQuery] /\ qlen = 0
        /\ qgen = [i \in Index |-> 0]
        /\ born = 0
        /\ minted = {}
----------------------------------------------------------------------------
SessionAt(h) ==                     \* session(h): the session a handle reaches
    IF h.kind = "session" /\ sgen[h.index] = h.gen THEN sessions[h.index] ELSE Empty

QueryAt_IgnoresGeneration(h) == IF h.kind = "query" THEN queries[h.index].id ELSE Empty

\* The lookup of query_step, query_close and copy_result.
QueryAt(h) ==
    IF h.kind = "query" /\ qgen[h.index] = h.gen THEN queries[h.index].id ELSE Empty

EmptySessions(s) == {i \in Index : s[i] = Empty}
EmptyQueries(q) == {i \in Index : q[i] = NoQuery}

FirstFree_ReusesTombstones(i, empty, gen, len) ==
    LET reusable == {j \in empty : j < len}
    IN  /\ \A j \in reusable : i <= j
        /\ i \in reusable \/ (reusable = {} /\ i = len)

\* A new object goes to the first empty slot that is not a tombstone, or to
\* the end of the table.
FirstFree(i, empty, gen, len) ==
    LET reusable == {j \in empty : j < len /\ gen[j] <= MaxGen}
    IN  /\ \A j \in reusable : i <= j
        /\ i \in reusable \/ (reusable = {} /\ i = len /\ gen[i] <= MaxGen)

Truncated_PopsTombstones(n, empty, gen, len) ==
    /\ \A j \in Index : n <= j /\ j < len => j \in empty
    /\ n > 0 => n - 1 \notin empty

\* The trailing run of empty slots is dropped, down to the last tombstone.
Truncated(n, empty, gen, len) ==
    LET droppable == {j \in empty : gen[j] < Exhausted}
    IN  /\ \A j \in Index : n <= j /\ j < len => j \in droppable
        /\ n > 0 => n - 1 \notin droppable
----------------------------------------------------------------------------
SessionNew ==
    \E i \in Index :
        /\ FirstFree(i, EmptySessions(sessions), sgen, slen)
        /\ born' = born + 1
        /\ sessions' = [sessions EXCEPT ![i] = born + 1]
        /\ slen' = IF i = slen THEN slen + 1 ELSE slen
        /\ minted' = minted \cup {[h |-> MakeHandle("session", i, sgen[i]),
                                   id |-> born + 1, session |-> born + 1]}
        /\ UNCHANGED <<sgen, queries, qlen, qgen>>

SessionFree_KeepsQueries(h) ==
    /\ SessionAt(h) # Empty
    /\ sessions' = [sessions EXCEPT ![h.index] = Empty]
    /\ sgen' = [sgen EXCEPT ![h.index] = NextGeneration(@)]
    /\ slen' \in 0 .. slen
    /\ Truncated(slen', EmptySessions(sessions'), sgen', slen)
    /\ UNCHANGED <<queries, qlen, qgen, born, minted>>

\* Freeing a session drops the queries it owns and invalidates their handles.
SessionFree(h) ==
    /\ SessionAt(h) # Empty
    /\ sessions' = [sessions EXCEPT ![h.index] = Empty]
    /\ sgen' = [sgen EXCEPT ![h.index] = NextGeneration(@)]
    /\ LET owned == {i \in Index : queries[i] # NoQuery /\ queries[i].slot = h.index}
       IN  /\ queries' = [i \in Index |-> IF i \in owned THEN NoQuery ELSE queries[i]]
           /\ qgen' = [i \in Index |-> IF i \in owned THEN NextGeneration(qgen[i])
                                                       ELSE qgen[i]]
    /\ qlen' \in 0 .. qlen
    /\ Truncated(qlen', EmptyQueries(queries'), qgen', qlen)
    /\ slen' \in 0 .. slen
    /\ Truncated(slen', EmptySessions(sessions'), sgen', slen)
    /\ UNCHANGED <<born, minted>>

\* query_start once its statement is planned; every other outcome returns a
\* negative sentinel and opens no slot.
QueryStart(h) ==
    /\ SessionAt(h) # Empty
    /\ \E i \in Index :
        /\ FirstFree(i, EmptyQueries(queries), qgen, qlen)
        /\ born' = born + 1
        /\ queries' = [queries EXCEPT ![i] = [id |-> born + 1, slot |-> h.index]]
        /\ qlen' = IF i = qlen THEN qlen + 1 ELSE qlen
        /\ minted' = minted \cup {[h |-> MakeHandle("query", i, qgen[i]),
                                   id |-> born + 1, session |-> SessionAt(h)]}
    /\ UNCHANGED <<sessions, slen, sgen, qgen>>

QueryClose(h) ==
    /\ QueryAt(h) # Empty
    /\ queries' = [queries EXCEPT ![h.index] = NoQuery]
    /\ qgen' = [qgen EXCEPT ![h.index] = NextGeneration(@)]
    /\ qlen' \in 0 .. qlen
    /\ Truncated(qlen', EmptyQueries(queries'), qgen', qlen)
    /\ UNCHANGED <<sessions, slen, sgen, born, minted>>

\* The host only ever passes handles it was given, however stale.
Next == \/ SessionNew
        \/ \E m \in minted : SessionFree(m.h)
        \/ \E m \in minted : QueryStart(m.h)
        \/ \E m \in minted : QueryClose(m.h)

Spec == Init /\ [][Next]_vars
----------------------------------------------------------------------------
Minted == [h : Handle, id : Ids, session : Ids]

TypeOK == /\ sessions \in [Index -> Nat] /\ queries \in [Index -> QuerySlot]
          /\ slen \in 0 .. MaxIndex + 1 /\ qlen \in 0 .. MaxIndex + 1
          /\ sgen \in [Index -> Generation] /\ qgen \in [Index -> Generation]
          /\ born \in Nat
          /\ minted \subseteq Minted

(* A handle reaches the object it was minted for or nothing at all, however *)
(* often its slot has been closed, truncated away and reused since: the ABA *)
(* hazard the generations exist for (State::query_generations, split_query_ *)
(* handle, next_query_generation).                                          *)
HandleNeverAliases ==
    \A m \in minted : /\ SessionAt(m.h) \in {Empty, m.id}
                      /\ QueryAt(m.h) \in {Empty, m.id}

(* A query that can be stepped runs in the session that planned it, alive,  *)
(* never in a later session that reuses the slot: query_step finds the      *)
(* session by slot index alone, so session_free must have dropped every     *)
(* query of the slot (ahiru_session_free, ahiru_query_step).                *)
QueryRunsInItsSession ==
    \A m \in minted :
        QueryAt(m.h) # Empty => sessions[queries[m.h.index].slot] = m.session

(* A live object keeps at least one handle that reaches it: freeing or      *)
(* truncating other slots never strands it (ahiru_query_close).             *)
LiveObjectsReachable ==
    \A i \in Index :
        /\ sessions[i] # Empty => \E m \in minted : SessionAt(m.h) = sessions[i]
        /\ queries[i] # NoQuery => \E m \in minted : QueryAt(m.h) = queries[i].id

(* While some slot is neither in use nor a tombstone, a new object finds    *)
(* one: truncation never leaves the end of a table on a tombstone, where    *)
(* every later start would fail with a limit error.                         *)
CapacityNotLost ==
    /\ (\E i \in EmptySessions(sessions) : sgen[i] <= MaxGen)
          => \E i \in Index : FirstFree(i, EmptySessions(sessions), sgen, slen)
    /\ (\E i \in EmptyQueries(queries) : qgen[i] <= MaxGen)
          => \E i \in Index : FirstFree(i, EmptyQueries(queries), qgen, qlen)
=============================================================================
