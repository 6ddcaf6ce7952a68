---------------------------- MODULE HandlesProofs ----------------------------
(* Proofs about the handle tables, for every number of slots and every      *)
(* number of generations.                                                   *)
EXTENDS Handles, WellFoundedInduction, TLAPS

(***************************************************************************)
(* The inductive invariant.  A handle's generation never runs ahead of its *)
(* slot's; while the two are equal the slot still holds the object the     *)
(* handle was minted for, and a query's slot still names the session that  *)
(* planned it.  So a slot that is empty has left every handle minted for   *)
(* it behind, which is what makes reusing it safe.  Past the end of a      *)
(* table every slot is empty and none is a tombstone.                      *)
(***************************************************************************)
SessionsCurrent ==
    \A m \in minted : m.h.kind = "session" =>
        /\ m.h.gen <= sgen[m.h.index]
        /\ sgen[m.h.index] = m.h.gen => sessions[m.h.index] = m.id

QueriesCurrent ==
    \A m \in minted : m.h.kind = "query" =>
        /\ m.h.gen <= qgen[m.h.index]
        /\ qgen[m.h.index] = m.h.gen =>
              /\ queries[m.h.index].id = m.id
              /\ sessions[queries[m.h.index].slot] = m.session

TailsEmpty ==
    /\ \A j \in Index : j >= slen => sessions[j] = Empty /\ sgen[j] <= MaxGen
    /\ \A j \in Index : j >= qlen => queries[j] = NoQuery /\ qgen[j] <= MaxGen

IInv == TypeOK /\ SessionsCurrent /\ QueriesCurrent /\ TailsEmpty

(* A handle is never minted with the generation of a tombstone, so masking  *)
(* the generation loses nothing (make_query_handle).                        *)
LEMMA MakeHandleExact ==
    ASSUME NEW kind \in {"session", "query"}, NEW i \in Index,
           NEW g \in Generation, g <= MaxGen
    PROVE  /\ MakeHandle(kind, i, g) = [kind |-> kind, index |-> i, gen |-> g]
           /\ MakeHandle(kind, i, g) \in Handle
    BY HandlesAssumption DEF MakeHandle, Handle, Generation, Exhausted

(* Closing a slot moves its generation past every handle minted for it.     *)
LEMMA NextGenerationAdvances ==
    ASSUME NEW g \in Generation
    PROVE  /\ NextGeneration(g) \in Generation
           /\ g <= MaxGen => NextGeneration(g) > g
           /\ NextGeneration(g) >= g
    BY HandlesAssumption DEF NextGeneration, Generation, Exhausted

(* The slot a new object goes to is empty, and not a tombstone.             *)
LEMMA FirstFreeUsable ==
    ASSUME NEW i \in Index, NEW empty \in SUBSET Index, NEW len \in 0 .. MaxIndex + 1,
           NEW gen \in [Index -> Generation], FirstFree(i, empty, gen, len),
           \A j \in Index : j >= len => j \in empty
    PROVE  i \in empty /\ gen[i] <= MaxGen /\ i <= len
    BY HandlesAssumption DEF FirstFree, Index, Generation, Exhausted

(* After the trailing slots are dropped, what lies past the end is empty    *)
(* and still usable.                                                        *)
LEMMA TruncatedTail ==
    ASSUME NEW n \in Nat, NEW empty \in SUBSET Index, NEW len \in 0 .. MaxIndex + 1,
           NEW gen \in [Index -> Generation], Truncated(n, empty, gen, len),
           \A j \in Index : j >= len => j \in empty /\ gen[j] <= MaxGen
    PROVE  \A j \in Index : j >= n => j \in empty /\ gen[j] <= MaxGen
    BY HandlesAssumption DEF Truncated, Index, Generation, Exhausted
-----------------------------------------------------------------------------
LEMMA InitIInv == Init => IInv
<1> SUFFICES ASSUME Init PROVE IInv
    OBVIOUS
<1> USE HandlesAssumption DEF Init
<1>1. TypeOK
    BY DEF TypeOK, Index, QuerySlot, Generation, Exhausted, NoQuery, Empty, Minted
<1>2. SessionsCurrent /\ QueriesCurrent
    BY DEF SessionsCurrent, QueriesCurrent
<1>3. TailsEmpty
    BY DEF TailsEmpty
<1> QED BY <1>1, <1>2, <1>3 DEF IInv

LEMMA SessionNewIInv == IInv /\ SessionNew => IInv'
<1> SUFFICES ASSUME IInv, NEW i \in Index,
                    FirstFree(i, EmptySessions(sessions), sgen, slen),
                    born' = born + 1,
                    sessions' = [sessions EXCEPT ![i] = born + 1],
                    slen' = IF i = slen THEN slen + 1 ELSE slen,
                    minted' = minted \cup {[h |-> MakeHandle("session", i, sgen[i]),
                                            id |-> born + 1, session |-> born + 1]},
                    UNCHANGED <<sgen, queries, qlen, qgen>>
             PROVE  IInv'
    BY DEF SessionNew
<1> DEFINE new == [h |-> MakeHandle("session", i, sgen[i]),
                   id |-> born + 1, session |-> born + 1]
<1> USE HandlesAssumption
<1>0. TypeOK /\ SessionsCurrent /\ QueriesCurrent /\ TailsEmpty
    BY DEF IInv
<1>1. sessions[i] = Empty /\ sgen[i] <= MaxGen /\ i <= slen
    <2>1. EmptySessions(sessions) \in SUBSET Index
        BY DEF EmptySessions
    <2>2. \A j \in Index : j >= slen => j \in EmptySessions(sessions)
        BY <1>0 DEF TailsEmpty, EmptySessions
    <2>3. slen \in 0 .. MaxIndex + 1 /\ sgen \in [Index -> Generation]
        BY <1>0 DEF TypeOK
    <2> HIDE DEF EmptySessions
    <2>4. i \in EmptySessions(sessions) /\ sgen[i] <= MaxGen /\ i <= slen
        BY <2>1, <2>2, <2>3, FirstFreeUsable
    <2> QED BY <2>4 DEF EmptySessions
<1>2. new.h = [kind |-> "session", index |-> i, gen |-> sgen[i]] /\ new.h \in Handle
    BY <1>0, <1>1, MakeHandleExact DEF TypeOK
<1>3. TypeOK'
    <2>1. new \in Minted
        BY <1>0, <1>2 DEF TypeOK, Minted, Ids
    <2>2. slen' \in 0 .. MaxIndex + 1
        BY <1>0, <1>1 DEF TypeOK, Index
    <2>3. sessions' \in [Index -> Nat] /\ born' \in Nat
        BY <1>0 DEF TypeOK
    <2> QED BY <1>0, <2>1, <2>2, <2>3 DEF TypeOK
<1>4. SessionsCurrent'
    <2> SUFFICES ASSUME NEW m \in minted', m.h.kind = "session"
                 PROVE  /\ m.h.gen <= sgen[m.h.index]
                        /\ sgen[m.h.index] = m.h.gen => sessions'[m.h.index] = m.id
        BY DEF SessionsCurrent
    <2>1. CASE m = new
        BY <2>1, <1>0, <1>2 DEF TypeOK, Index, Generation, Exhausted
    <2>2. CASE m \in minted
        <3>1. m.id \in Ids /\ m.h.index \in Index
            BY <2>2, <1>0 DEF TypeOK, Minted, Handle
        <3>2. m.h.index # i \/ sgen[i] # m.h.gen
            BY <2>2, <3>1, <1>0, <1>1 DEF SessionsCurrent, Ids, Empty
        <3> QED BY <2>2, <3>1, <3>2, <1>0 DEF SessionsCurrent, TypeOK
    <2> QED BY <2>1, <2>2
<1>5. QueriesCurrent'
    <2> SUFFICES ASSUME NEW m \in minted', m.h.kind = "query"
                 PROVE  /\ m.h.gen <= qgen[m.h.index]
                        /\ qgen[m.h.index] = m.h.gen =>
                              /\ queries[m.h.index].id = m.id
                              /\ sessions'[queries[m.h.index].slot] = m.session
        BY DEF QueriesCurrent
    <2>1. m \in minted
        BY <1>2
    <2>2. m.session \in Ids /\ m.h.index \in Index
        BY <2>1, <1>0 DEF TypeOK, Minted, Handle
    <2>3. queries[m.h.index].slot \in Index
        BY <2>2, <1>0 DEF TypeOK, QuerySlot
    <2>4. CASE qgen[m.h.index] = m.h.gen
        <3>1. sessions[queries[m.h.index].slot] = m.session
            BY <2>1, <2>4, <1>0 DEF QueriesCurrent
        <3>2. queries[m.h.index].slot # i
            BY <3>1, <2>2, <1>1 DEF Ids, Empty
        <3> QED BY <2>1, <2>3, <3>1, <3>2, <1>0 DEF QueriesCurrent, TypeOK
    <2>5. CASE qgen[m.h.index] # m.h.gen
        BY <2>1, <2>5, <1>0 DEF QueriesCurrent
    <2> QED BY <2>4, <2>5
<1>6. TailsEmpty'
    <2>1. \A j \in Index : j >= slen' => j # i /\ j >= slen
        BY <1>0, <1>1 DEF TypeOK, Index
    <2> QED BY <2>1, <1>0 DEF TailsEmpty, TypeOK
<1> QED BY <1>3, <1>4, <1>5, <1>6 DEF IInv

LEMMA SessionFreeIInv ==
    ASSUME IInv, NEW h \in Handle, SessionFree(h)
    PROVE  IInv'
<1> DEFINE owned == {i \in Index : queries[i] # NoQuery /\ queries[i].slot = h.index}
<1> USE HandlesAssumption
<1>0. TypeOK /\ SessionsCurrent /\ QueriesCurrent /\ TailsEmpty
    BY DEF IInv
<1>1. /\ SessionAt(h) # Empty
      /\ sessions' = [sessions EXCEPT ![h.index] = Empty]
      /\ sgen' = [sgen EXCEPT ![h.index] = NextGeneration(@)]
      /\ queries' = [i \in Index |-> IF i \in owned THEN NoQuery ELSE queries[i]]
      /\ qgen' = [i \in Index |-> IF i \in owned THEN NextGeneration(qgen[i]) ELSE qgen[i]]
      /\ qlen' \in 0 .. qlen /\ slen' \in 0 .. slen
      /\ Truncated(qlen', EmptyQueries(queries'), qgen', qlen)
      /\ Truncated(slen', EmptySessions(sessions'), sgen', slen)
      /\ minted' = minted /\ born' = born
    BY DEF SessionFree
<1>2. h.index \in Index
    BY DEF Handle
<1>3. TypeOK'
    <2>1. sgen' \in [Index -> Generation] /\ qgen' \in [Index -> Generation]
        BY <1>0, <1>1, <1>2, NextGenerationAdvances DEF TypeOK
    <2>4. sessions' \in [Index -> Nat]
        BY <1>0, <1>1, <1>2 DEF TypeOK, Empty
    <2>5. NoQuery \in QuerySlot
        BY DEF NoQuery, QuerySlot, Index
    <2>2. queries' \in [Index -> QuerySlot]
        BY <1>0, <1>1, <2>5 DEF TypeOK
    <2>3. slen' \in 0 .. MaxIndex + 1 /\ qlen' \in 0 .. MaxIndex + 1
        BY <1>0, <1>1 DEF TypeOK
    <2> QED BY <1>0, <1>1, <2>1, <2>2, <2>3, <2>4 DEF TypeOK
<1>4. SessionsCurrent'
    <2> SUFFICES ASSUME NEW m \in minted, m.h.kind = "session"
                 PROVE  /\ m.h.gen <= sgen'[m.h.index]
                        /\ sgen'[m.h.index] = m.h.gen => sessions'[m.h.index] = m.id
        BY <1>1 DEF SessionsCurrent
    <2>1. m.h.index \in Index /\ m.h.gen \in 0 .. MaxGen
        BY <1>0 DEF TypeOK, Minted, Handle
    <2>2. sgen[m.h.index] \in Generation
        BY <2>1, <1>0 DEF TypeOK
    <2>3. m.h.gen <= sgen[m.h.index]
        BY <1>0 DEF SessionsCurrent
    <2>4. CASE m.h.index = h.index
        <3>1. sgen'[m.h.index] = NextGeneration(sgen[m.h.index])
            BY <2>4, <1>1, <1>2, <1>0 DEF TypeOK
        <3>2. CASE sgen[m.h.index] <= MaxGen
            BY <3>1, <3>2, <2>1, <2>2, <2>3, NextGenerationAdvances DEF Generation, Exhausted
        <3>3. CASE ~(sgen[m.h.index] <= MaxGen)
            BY <3>1, <3>3, <2>1, <2>2, <2>3, NextGenerationAdvances DEF Generation, Exhausted
        <3> QED BY <3>2, <3>3
    <2>5. CASE m.h.index # h.index
        BY <2>5, <2>1, <1>0, <1>1 DEF SessionsCurrent, TypeOK
    <2> QED BY <2>4, <2>5
<1>5. QueriesCurrent'
    <2> SUFFICES ASSUME NEW m \in minted, m.h.kind = "query"
                 PROVE  /\ m.h.gen <= qgen'[m.h.index]
                        /\ qgen'[m.h.index] = m.h.gen =>
                              /\ queries'[m.h.index].id = m.id
                              /\ sessions'[queries'[m.h.index].slot] = m.session
        BY <1>1 DEF QueriesCurrent
    <2>1. m.h.index \in Index /\ m.h.gen \in 0 .. MaxGen /\ m.id \in Ids
        BY <1>0 DEF TypeOK, Minted, Handle
    <2>2. qgen[m.h.index] \in Generation /\ m.h.gen <= qgen[m.h.index]
        BY <2>1, <1>0 DEF TypeOK, QueriesCurrent
    <2>3. CASE m.h.index \in owned
        <3>1. qgen'[m.h.index] = NextGeneration(qgen[m.h.index])
            BY <2>3, <2>1, <1>1
        <3>2. CASE qgen[m.h.index] <= MaxGen
            BY <3>1, <3>2, <2>1, <2>2, NextGenerationAdvances DEF Generation, Exhausted
        <3>3. CASE ~(qgen[m.h.index] <= MaxGen)
            BY <3>1, <3>3, <2>1, <2>2, NextGenerationAdvances DEF Generation, Exhausted
        <3> QED BY <3>2, <3>3
    <2>4. CASE m.h.index \notin owned
        <3>1. qgen'[m.h.index] = qgen[m.h.index] /\ queries'[m.h.index] = queries[m.h.index]
            BY <2>4, <2>1, <1>1
        <3> SUFFICES ASSUME qgen[m.h.index] = m.h.gen
                     PROVE  /\ queries[m.h.index].id = m.id
                            /\ sessions'[queries[m.h.index].slot] = m.session
            BY <3>1, <2>2
        <3>2. queries[m.h.index].id = m.id /\ sessions[queries[m.h.index].slot] = m.session
            BY <1>0 DEF QueriesCurrent
        <3>3. queries[m.h.index].slot \in Index
            BY <2>1, <1>0 DEF TypeOK, QuerySlot
        <3>4. queries[m.h.index] # NoQuery
            BY <3>2, <2>1 DEF NoQuery, Ids
        <3>5. queries[m.h.index].slot # h.index
            BY <3>4, <2>1, <2>4
        <3> QED BY <3>2, <3>3, <3>5, <1>1, <1>0 DEF TypeOK
    <2> QED BY <2>3, <2>4
<1>6. TailsEmpty'
    <2>1. \A j \in Index : j >= slen => j \in EmptySessions(sessions') /\ sgen'[j] <= MaxGen
        <3> SUFFICES ASSUME NEW j \in Index, j >= slen
                     PROVE  sessions'[j] = Empty /\ sgen'[j] <= MaxGen
            BY DEF EmptySessions
        <3>1. sessions[j] = Empty /\ sgen[j] <= MaxGen
            BY <1>0 DEF TailsEmpty
        <3>2. j # h.index
            BY <1>1, <3>1 DEF SessionAt
        <3> QED BY <3>1, <3>2, <1>0, <1>1 DEF TypeOK
    <2>2. \A j \in Index : j >= qlen => j \in EmptyQueries(queries') /\ qgen'[j] <= MaxGen
        <3> SUFFICES ASSUME NEW j \in Index, j >= qlen
                     PROVE  queries'[j] = NoQuery /\ qgen'[j] <= MaxGen
            BY DEF EmptyQueries
        <3>1. queries[j] = NoQuery /\ qgen[j] <= MaxGen
            BY <1>0 DEF TailsEmpty
        <3> QED BY <3>1, <1>1
    <2>3. \A j \in Index : j >= slen' => j \in EmptySessions(sessions') /\ sgen'[j] <= MaxGen
        <3>1. EmptySessions(sessions') \in SUBSET Index /\ slen' \in Nat
            BY <1>1, <1>0 DEF EmptySessions, TypeOK
        <3>2. slen \in 0 .. MaxIndex + 1 /\ sgen' \in [Index -> Generation]
            BY <1>0, <1>3 DEF TypeOK
        <3>3. Truncated(slen', EmptySessions(sessions'), sgen', slen)
            BY <1>1
        <3> HIDE DEF owned
        <3> QED BY <2>1, <3>1, <3>2, <3>3, TruncatedTail
    <2>4. \A j \in Index : j >= qlen' => j \in EmptyQueries(queries') /\ qgen'[j] <= MaxGen
        <3>1. EmptyQueries(queries') \in SUBSET Index /\ qlen' \in Nat
            BY <1>1, <1>0 DEF EmptyQueries, TypeOK
        <3>2. qlen \in 0 .. MaxIndex + 1 /\ qgen' \in [Index -> Generation]
            BY <1>0, <1>3 DEF TypeOK
        <3>3. Truncated(qlen', EmptyQueries(queries'), qgen', qlen)
            BY <1>1
        <3> HIDE DEF owned
        <3> QED BY <2>2, <3>1, <3>2, <3>3, TruncatedTail
    <2> QED BY <2>3, <2>4 DEF TailsEmpty, EmptySessions, EmptyQueries
<1> QED BY <1>3, <1>4, <1>5, <1>6 DEF IInv

LEMMA QueryStartIInv ==
    ASSUME IInv, NEW h \in Handle, QueryStart(h)
    PROVE  IInv'
<1> USE HandlesAssumption
<1>0. TypeOK /\ SessionsCurrent /\ QueriesCurrent /\ TailsEmpty
    BY DEF IInv
<1> PICK i \in Index :
        /\ FirstFree(i, EmptyQueries(queries), qgen, qlen)
        /\ born' = born + 1
        /\ queries' = [queries EXCEPT ![i] = [id |-> born + 1, slot |-> h.index]]
        /\ qlen' = IF i = qlen THEN qlen + 1 ELSE qlen
        /\ minted' = minted \cup {[h |-> MakeHandle("query", i, qgen[i]),
                                   id |-> born + 1, session |-> SessionAt(h)]}
    BY DEF QueryStart
<1> DEFINE new == [h |-> MakeHandle("query", i, qgen[i]),
                   id |-> born + 1, session |-> SessionAt(h)]
<1>1. /\ SessionAt(h) # Empty /\ SessionAt(h) = sessions[h.index]
      /\ UNCHANGED <<sessions, slen, sgen, qgen>>
    BY DEF QueryStart, SessionAt
<1>2. h.index \in Index
    BY DEF Handle
<1>3. queries[i] = NoQuery /\ qgen[i] <= MaxGen /\ i <= qlen
    <2>1. EmptyQueries(queries) \in SUBSET Index
        BY DEF EmptyQueries
    <2>2. \A j \in Index : j >= qlen => j \in EmptyQueries(queries)
        BY <1>0 DEF TailsEmpty, EmptyQueries
    <2>3. qlen \in 0 .. MaxIndex + 1 /\ qgen \in [Index -> Generation]
        BY <1>0 DEF TypeOK
    <2>4. i \in EmptyQueries(queries) /\ qgen[i] <= MaxGen /\ i <= qlen
        BY <2>1, <2>2, <2>3, FirstFreeUsable
    <2> QED BY <2>4 DEF EmptyQueries
<1>4. new.h = [kind |-> "query", index |-> i, gen |-> qgen[i]] /\ new.h \in Handle
    BY <1>0, <1>3, MakeHandleExact DEF TypeOK
<1>5. TypeOK'
    <2>1. SessionAt(h) \in Ids
        BY <1>0, <1>1, <1>2 DEF TypeOK, Ids, Empty
    <2>2. new \in Minted
        BY <1>0, <1>4, <2>1 DEF TypeOK, Minted, Ids
    <2>3. qlen' \in 0 .. MaxIndex + 1
        BY <1>0, <1>3 DEF TypeOK, Index
    <2>4. queries' \in [Index -> QuerySlot]
        BY <1>0, <1>2 DEF TypeOK, QuerySlot
    <2>5. born' \in Nat
        BY <1>0 DEF TypeOK
    <2> QED BY <1>0, <1>1, <2>2, <2>3, <2>4, <2>5 DEF TypeOK
<1>6. SessionsCurrent'
    <2> SUFFICES ASSUME NEW m \in minted', m.h.kind = "session"
                 PROVE  /\ m.h.gen <= sgen[m.h.index]
                        /\ sgen[m.h.index] = m.h.gen => sessions[m.h.index] = m.id
        BY <1>1 DEF SessionsCurrent
    <2>1. m \in minted
        BY <1>4
    <2> QED BY <2>1, <1>0 DEF SessionsCurrent
<1>7. QueriesCurrent'
    <2> SUFFICES ASSUME NEW m \in minted', m.h.kind = "query"
                 PROVE  /\ m.h.gen <= qgen[m.h.index]
                        /\ qgen[m.h.index] = m.h.gen =>
                              /\ queries'[m.h.index].id = m.id
                              /\ sessions[queries'[m.h.index].slot] = m.session
        BY <1>1 DEF QueriesCurrent
    <2>1. CASE m = new
        BY <2>1, <1>0, <1>1, <1>4 DEF TypeOK, Index, Generation, Exhausted
    <2>2. CASE m \in minted
        <3>1. m.id \in Ids /\ m.h.index \in Index
            BY <2>2, <1>0 DEF TypeOK, Minted, Handle
        <3>2. m.h.index # i \/ qgen[i] # m.h.gen
            BY <2>2, <3>1, <1>0, <1>3 DEF QueriesCurrent, Ids, NoQuery
        <3>3. CASE m.h.index # i
            BY <2>2, <3>1, <3>3, <1>0 DEF QueriesCurrent, TypeOK
        <3>4. CASE m.h.index = i
            BY <2>2, <3>2, <3>4, <1>0 DEF QueriesCurrent
        <3> QED BY <3>3, <3>4
    <2> QED BY <2>1, <2>2
<1>8. TailsEmpty'
    <2>1. \A j \in Index : j >= qlen' => j # i /\ j >= qlen
        BY <1>0, <1>3 DEF TypeOK, Index
    <2> QED BY <2>1, <1>0, <1>1 DEF TailsEmpty, TypeOK
<1> QED BY <1>5, <1>6, <1>7, <1>8 DEF IInv

LEMMA QueryCloseIInv ==
    ASSUME IInv, NEW h \in Handle, QueryClose(h)
    PROVE  IInv'
<1> USE HandlesAssumption
<1>0. TypeOK /\ SessionsCurrent /\ QueriesCurrent /\ TailsEmpty
    BY DEF IInv
<1>1. /\ QueryAt(h) # Empty
      /\ queries' = [queries EXCEPT ![h.index] = NoQuery]
      /\ qgen' = [qgen EXCEPT ![h.index] = NextGeneration(@)]
      /\ qlen' \in 0 .. qlen
      /\ Truncated(qlen', EmptyQueries(queries'), qgen', qlen)
      /\ UNCHANGED <<sessions, slen, sgen, born, minted>>
    BY DEF QueryClose
<1>2. h.index \in Index
    BY DEF Handle
<1>3. TypeOK'
    <2>1. qgen' \in [Index -> Generation]
        BY <1>0, <1>1, <1>2, NextGenerationAdvances DEF TypeOK
    <2>2. NoQuery \in QuerySlot
        BY DEF NoQuery, QuerySlot, Index
    <2>3. queries' \in [Index -> QuerySlot]
        BY <1>0, <1>1, <2>2 DEF TypeOK
    <2>4. qlen' \in 0 .. MaxIndex + 1
        BY <1>0, <1>1 DEF TypeOK
    <2> QED BY <1>0, <1>1, <2>1, <2>3, <2>4 DEF TypeOK
<1>4. SessionsCurrent'
    BY <1>0, <1>1 DEF SessionsCurrent
<1>5. QueriesCurrent'
    <2> SUFFICES ASSUME NEW m \in minted, m.h.kind = "query"
                 PROVE  /\ m.h.gen <= qgen'[m.h.index]
                        /\ qgen'[m.h.index] = m.h.gen =>
                              /\ queries'[m.h.index].id = m.id
                              /\ sessions[queries'[m.h.index].slot] = m.session
        BY <1>1 DEF QueriesCurrent
    <2>1. m.h.index \in Index /\ m.h.gen \in 0 .. MaxGen
        BY <1>0 DEF TypeOK, Minted, Handle
    <2>2. qgen[m.h.index] \in Generation /\ m.h.gen <= qgen[m.h.index]
        BY <2>1, <1>0 DEF TypeOK, QueriesCurrent
    <2>3. CASE m.h.index = h.index
        <3>1. qgen'[m.h.index] = NextGeneration(qgen[m.h.index])
            BY <2>3, <1>0, <1>1, <1>2 DEF TypeOK
        <3>2. CASE qgen[m.h.index] <= MaxGen
            BY <3>1, <3>2, <2>1, <2>2, NextGenerationAdvances DEF Generation, Exhausted
        <3>3. CASE ~(qgen[m.h.index] <= MaxGen)
            BY <3>1, <3>3, <2>1, <2>2, NextGenerationAdvances DEF Generation, Exhausted
        <3> QED BY <3>2, <3>3
    <2>4. CASE m.h.index # h.index
        BY <2>4, <2>1, <1>0, <1>1 DEF QueriesCurrent, TypeOK
    <2> QED BY <2>3, <2>4
<1>6. TailsEmpty'
    <2>1. \A j \in Index : j >= qlen => j \in EmptyQueries(queries') /\ qgen'[j] <= MaxGen
        <3> SUFFICES ASSUME NEW j \in Index, j >= qlen
                     PROVE  queries'[j] = NoQuery /\ qgen'[j] <= MaxGen
            BY DEF EmptyQueries
        <3>1. queries[j] = NoQuery /\ qgen[j] <= MaxGen
            BY <1>0 DEF TailsEmpty
        <3>2. j # h.index
            BY <1>1, <3>1 DEF QueryAt, NoQuery, Empty
        <3> QED BY <3>1, <3>2, <1>0, <1>1 DEF TypeOK
    <2>2. EmptyQueries(queries') \in SUBSET Index /\ qlen' \in Nat
        BY <1>1, <1>0 DEF EmptyQueries, TypeOK
    <2>3. qlen \in 0 .. MaxIndex + 1 /\ qgen' \in [Index -> Generation]
        BY <1>0, <1>3 DEF TypeOK
    <2>5. Truncated(qlen', EmptyQueries(queries'), qgen', qlen)
        BY <1>1
    <2>4. \A j \in Index : j >= qlen' => j \in EmptyQueries(queries') /\ qgen'[j] <= MaxGen
        BY <2>1, <2>2, <2>3, <2>5, TruncatedTail
    <2> QED BY <2>4, <1>0, <1>1 DEF TailsEmpty, EmptyQueries
<1> QED BY <1>3, <1>4, <1>5, <1>6 DEF IInv
-----------------------------------------------------------------------------
LEMMA NextIInv == IInv /\ [Next]_vars => IInv'
<1> SUFFICES ASSUME IInv, [Next]_vars PROVE IInv'
    OBVIOUS
<1>1. \A m \in minted : m.h \in Handle
    BY DEF IInv, TypeOK, Minted
<1>2. CASE SessionNew
    BY <1>2, SessionNewIInv
<1>3. ASSUME NEW m \in minted, SessionFree(m.h) PROVE IInv'
    BY <1>1, <1>3, SessionFreeIInv
<1>4. ASSUME NEW m \in minted, QueryStart(m.h) PROVE IInv'
    BY <1>1, <1>4, QueryStartIInv
<1>5. ASSUME NEW m \in minted, QueryClose(m.h) PROVE IInv'
    BY <1>1, <1>5, QueryCloseIInv
<1>6. CASE UNCHANGED vars
    BY <1>6 DEF vars, IInv, TypeOK, SessionsCurrent, QueriesCurrent, TailsEmpty
<1> QED BY <1>2, <1>3, <1>4, <1>5, <1>6 DEF Next

(* The inductive invariant holds in every state.                            *)
THEOREM HandlesInvariant == Spec => []IInv
BY InitIInv, NextIInv, PTL DEF Spec

(* The types of the tables (abi.rs State).                                  *)
THEOREM HandlesTypeOK == Spec => []TypeOK
<1>1. IInv => TypeOK
    BY DEF IInv
<1> QED BY <1>1, HandlesInvariant, PTL

(* A stale handle never reaches another object, for any number of slots and *)
(* of generations: the tombstones make wrapping around impossible.          *)
THEOREM NoAlias == Spec => []HandleNeverAliases
<1>1. IInv => HandleNeverAliases
    BY DEF IInv, HandleNeverAliases, SessionsCurrent, QueriesCurrent, SessionAt, QueryAt,
           TypeOK, Minted, Handle
<1> QED BY <1>1, HandlesInvariant, PTL

(* A query that can be stepped runs in the session that planned it, so a    *)
(* session slot that is reused never inherits a query.                      *)
THEOREM QuerySession == Spec => []QueryRunsInItsSession
<1>1. IInv => QueryRunsInItsSession
    BY DEF IInv, QueryRunsInItsSession, QueriesCurrent, QueryAt, TypeOK, Minted, Handle
<1> QED BY <1>1, HandlesInvariant, PTL

(***************************************************************************)
(* While a slot is in use, the handle of its object and its generation is  *)
(* among those that were returned.                                         *)
(***************************************************************************)
HandleOf(kind, i, g) ==
    \E m \in minted : m.h.kind = kind /\ m.h.index = i /\ m.h.gen = g

Reached ==
    \A i \in Index : /\ sessions[i] # Empty => HandleOf("session", i, sgen[i])
                     /\ queries[i] # NoQuery => HandleOf("query", i, qgen[i])

LEMMA ReachedInductive == IInv /\ Reached /\ [Next]_vars => Reached'
<1> SUFFICES ASSUME IInv, Reached, [Next]_vars PROVE Reached'
    OBVIOUS
<1> USE HandlesAssumption
<1>0. TypeOK /\ TailsEmpty /\ \A m \in minted : m.h \in Handle
    BY DEF IInv, TypeOK, Minted
<1>1. CASE SessionNew
    <2> PICK i \in Index :
            /\ FirstFree(i, EmptySessions(sessions), sgen, slen)
            /\ sessions' = [sessions EXCEPT ![i] = born + 1]
            /\ minted' = minted \cup {[h |-> MakeHandle("session", i, sgen[i]),
                                       id |-> born + 1, session |-> born + 1]}
            /\ UNCHANGED <<sgen, queries, qgen>>
        BY <1>1 DEF SessionNew
    <2>1. EmptySessions(sessions) \in SUBSET Index
          /\ \A j \in Index : j >= slen => j \in EmptySessions(sessions)
        BY <1>0 DEF EmptySessions, TailsEmpty
    <2>2. slen \in 0 .. MaxIndex + 1 /\ sgen \in [Index -> Generation]
        BY <1>0 DEF TypeOK
    <2>3. sgen[i] <= MaxGen
        BY <2>1, <2>2, FirstFreeUsable
    <2>4. MakeHandle("session", i, sgen[i]) = [kind |-> "session", index |-> i, gen |-> sgen[i]]
        BY <2>2, <2>3, MakeHandleExact
    <2>5. HandleOf("session", i, sgen[i])'
        <3> DEFINE new == [h |-> MakeHandle("session", i, sgen[i]), id |-> born + 1, session |-> born + 1]
        <3>1. new \in minted' /\ sgen' = sgen
            OBVIOUS
        <3>2. new.h.kind = "session" /\ new.h.index = i /\ new.h.gen = sgen[i]
            BY <2>4
        <3> HIDE DEF new
        <3> QED BY <3>1, <3>2 DEF HandleOf
    <2>6. \A k, j, g : HandleOf(k, j, g) => HandleOf(k, j, g)'
        BY DEF HandleOf
    <2> QED BY <1>0, <2>5, <2>6 DEF Reached, TypeOK
<1>2. ASSUME NEW n \in minted, SessionFree(n.h) PROVE Reached'
    <2>1. n.h.index \in Index
        BY <1>0 DEF Handle
    <2>2. \A k, j, g : HandleOf(k, j, g)' <=> HandleOf(k, j, g)
        BY <1>2 DEF SessionFree, HandleOf
    <2>3. \A i \in Index : sessions'[i] # Empty => sessions'[i] = sessions[i] /\ sgen'[i] = sgen[i]
        BY <1>0, <1>2, <2>1 DEF SessionFree, TypeOK
    <2>4. \A i \in Index : queries'[i] # NoQuery => queries'[i] = queries[i] /\ qgen'[i] = qgen[i]
        BY <1>2 DEF SessionFree
    <2> QED BY <2>2, <2>3, <2>4 DEF Reached
<1>3. ASSUME NEW n \in minted, QueryStart(n.h) PROVE Reached'
    <2> PICK i \in Index :
            /\ FirstFree(i, EmptyQueries(queries), qgen, qlen)
            /\ queries' = [queries EXCEPT ![i] = [id |-> born + 1, slot |-> n.h.index]]
            /\ minted' = minted \cup {[h |-> MakeHandle("query", i, qgen[i]),
                                       id |-> born + 1, session |-> SessionAt(n.h)]}
            /\ UNCHANGED <<sessions, sgen, qgen>>
        BY <1>3 DEF QueryStart
    <2>1. EmptyQueries(queries) \in SUBSET Index
          /\ \A j \in Index : j >= qlen => j \in EmptyQueries(queries)
        BY <1>0 DEF EmptyQueries, TailsEmpty
    <2>2. qlen \in 0 .. MaxIndex + 1 /\ qgen \in [Index -> Generation]
        BY <1>0 DEF TypeOK
    <2>3. qgen[i] <= MaxGen
        BY <2>1, <2>2, FirstFreeUsable
    <2>4. MakeHandle("query", i, qgen[i]) = [kind |-> "query", index |-> i, gen |-> qgen[i]]
        BY <2>2, <2>3, MakeHandleExact
    <2>5. HandleOf("query", i, qgen[i])'
        <3> DEFINE new == [h |-> MakeHandle("query", i, qgen[i]), id |-> born + 1, session |-> SessionAt(n.h)]
        <3>1. new \in minted' /\ qgen' = qgen
            OBVIOUS
        <3>2. new.h.kind = "query" /\ new.h.index = i /\ new.h.gen = qgen[i]
            BY <2>4
        <3> HIDE DEF new
        <3> QED BY <3>1, <3>2 DEF HandleOf
    <2>6. \A k, j, g : HandleOf(k, j, g) => HandleOf(k, j, g)'
        BY DEF HandleOf
    <2> QED BY <1>0, <2>5, <2>6 DEF Reached, TypeOK
<1>4. ASSUME NEW n \in minted, QueryClose(n.h) PROVE Reached'
    <2>1. n.h.index \in Index
        BY <1>0 DEF Handle
    <2>2. \A k, j, g : HandleOf(k, j, g)' <=> HandleOf(k, j, g)
        BY <1>4 DEF QueryClose, HandleOf
    <2>3. \A i \in Index : queries'[i] # NoQuery => queries'[i] = queries[i] /\ qgen'[i] = qgen[i]
        BY <1>0, <1>4, <2>1 DEF QueryClose, TypeOK
    <2> QED BY <1>4, <2>2, <2>3 DEF Reached, QueryClose
<1>5. CASE UNCHANGED vars
    BY <1>5 DEF vars, Reached, HandleOf
<1> QED BY <1>1, <1>2, <1>3, <1>4, <1>5 DEF Next

(* Every live session and query has a handle that reaches it: freeing or    *)
(* truncating other slots strands none, for any number of slots.            *)
THEOREM LiveReachable == Spec => []LiveObjectsReachable
<1>1. Init => Reached
    BY DEF Init, Reached, Empty
<1>2. IInv /\ Reached => LiveObjectsReachable
    <2> SUFFICES ASSUME IInv, Reached, NEW i \in Index
                 PROVE  /\ sessions[i] # Empty => \E m \in minted : SessionAt(m.h) = sessions[i]
                        /\ queries[i] # NoQuery => \E m \in minted : QueryAt(m.h) = queries[i].id
        BY DEF LiveObjectsReachable
    <2>1. ASSUME sessions[i] # Empty PROVE \E m \in minted : SessionAt(m.h) = sessions[i]
        BY <2>1 DEF Reached, HandleOf, SessionAt
    <2>2. ASSUME queries[i] # NoQuery PROVE \E m \in minted : QueryAt(m.h) = queries[i].id
        BY <2>2 DEF Reached, HandleOf, QueryAt
    <2> QED BY <2>1, <2>2
<1> QED BY <1>1, <1>2, HandlesInvariant, ReachedInductive, PTL DEF Spec

(* A set of indices has a first one.                                        *)
LEMMA FirstIndex ==
    ASSUME NEW S \in SUBSET Nat, S # {}
    PROVE  \E i \in S : \A j \in S : i <= j
<1>1. PICK i \in S : \A j \in S : ~ (<<j, i>> \in OpToRel(<, Nat))
    BY WFMin, NatLessThanWellFounded, Zenon
<1>2. \A j \in S : ~(j < i)
    BY <1>1 DEF OpToRel
<1> QED BY <1>2

LEMMA FindsRoom ==
    ASSUME NEW empty \in SUBSET Index, NEW len \in 0 .. MaxIndex + 1,
           NEW gen \in [Index -> Generation], NEW i \in empty, gen[i] <= MaxGen,
           \A j \in Index : j >= len => j \in empty /\ gen[j] <= MaxGen
    PROVE  \E j \in Index : FirstFree(j, empty, gen, len)
<1> USE HandlesAssumption
<1> DEFINE reusable == {j \in empty : j < len /\ gen[j] <= MaxGen}
<1>1. CASE reusable = {}
    <2>1. len \in Index /\ gen[len] <= MaxGen
        BY <1>1 DEF Index
    <2>2. FirstFree(len, empty, gen, len)
        BY <1>1, <2>1 DEF FirstFree
    <2> QED BY <2>1, <2>2
<1>2. CASE reusable # {}
    <2>1. PICK f \in reusable : \A j \in reusable : f <= j
        <3>1. \A j \in reusable : j \in Nat
            BY DEF Index
        <3>2. reusable \in SUBSET Nat
            BY <3>1
        <3> HIDE DEF reusable
        <3> QED BY <1>2, <3>2, FirstIndex
    <2>2. f \in Index /\ FirstFree(f, empty, gen, len)
        BY <2>1 DEF FirstFree
    <2> QED BY <2>2
<1> QED BY <1>1, <1>2

(* A table with a slot that is neither in use nor a tombstone always has    *)
(* room: no sequence of closings and truncations leaves its end on a        *)
(* tombstone.                                                               *)
THEOREM CapacityKept == Spec => []CapacityNotLost
<1>1. ASSUME IInv PROVE CapacityNotLost
    <2>1. TypeOK /\ TailsEmpty
        BY <1>1 DEF IInv
    <2>2. ASSUME NEW i \in EmptySessions(sessions), sgen[i] <= MaxGen
          PROVE  \E j \in Index : FirstFree(j, EmptySessions(sessions), sgen, slen)
        <3>1. EmptySessions(sessions) \in SUBSET Index
            BY DEF EmptySessions
        <3>2. slen \in 0 .. MaxIndex + 1 /\ sgen \in [Index -> Generation]
            BY <2>1 DEF TypeOK
        <3>3. \A j \in Index : j >= slen => j \in EmptySessions(sessions) /\ sgen[j] <= MaxGen
            BY <2>1 DEF TailsEmpty, EmptySessions
        <3> QED BY <2>2, <3>1, <3>2, <3>3, FindsRoom
    <2>3. ASSUME NEW i \in EmptyQueries(queries), qgen[i] <= MaxGen
          PROVE  \E j \in Index : FirstFree(j, EmptyQueries(queries), qgen, qlen)
        <3>1. EmptyQueries(queries) \in SUBSET Index
            BY DEF EmptyQueries
        <3>2. qlen \in 0 .. MaxIndex + 1 /\ qgen \in [Index -> Generation]
            BY <2>1 DEF TypeOK
        <3>3. \A j \in Index : j >= qlen => j \in EmptyQueries(queries) /\ qgen[j] <= MaxGen
            BY <2>1 DEF TailsEmpty, EmptyQueries
        <3> QED BY <2>3, <3>1, <3>2, <3>3, FindsRoom
    <2> QED BY <2>2, <2>3 DEF CapacityNotLost
<1> QED BY <1>1, HandlesInvariant, PTL
=============================================================================
