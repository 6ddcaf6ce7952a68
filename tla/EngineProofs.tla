----------------------------- MODULE EngineProofs -----------------------------
(***************************************************************************)
(* What the engine asks its host for and what it keeps, for any number of  *)
(* statements over any table of any number of parts, splits and pages.     *)
(***************************************************************************)
EXTENDS Engine, FiniteSetTheorems, WellFoundedInduction, TLAPS

Phases == {"new", "preparing", "open", "done", "closed", "failed"}

TypeOK == phase \in [Queries -> Phases] /\ pos \in [Queries -> Nat]

IInv == TypeOK /\ OnlyWantedPagesFetched

OfData(b) == b[1] \in {"page", "inflated"}
----------------------------------------------------------------------------
\* Iterating over the splits from one on stops at the first that qualifies.
LEMMA MinFinds ==
    ASSUME NEW S \in SUBSET Nat, S # {}
    PROVE  Min(S) \in S /\ \A j \in S : Min(S) <= j
<1>1. PICK i \in S : \A j \in S : ~ (<<j, i>> \in OpToRel(<, Nat))
  BY WFMin, NatLessThanWellFounded, Zenon
<1>2. \A j \in S : ~(j < i)
  BY <1>1 DEF OpToRel
<1>3. \E k \in S : \A j \in S : k =< j
  BY <1>2
<1>. QED  BY <1>3 DEF Min

LEMMA SplitsCounted == N \in Nat
BY EngineAssumption DEF N

\* A scan stops at a split that it has to read, or at the end.
LEMMA StopsAtARead ==
    ASSUME NEW q \in Queries, NEW n \in Nat
    PROVE  /\ NextStop(q, n) \in Nat
           /\ NextStop(q, n) <= N => ~Passed(q, NextStop(q, n))
<1>. DEFINE S == {m \in n .. N : ~Passed(q, m)} \cup {N + 1}
<1>1. S \in SUBSET Nat /\ S # {}
  BY SplitsCounted
<1>2. NextStop(q, n) = Min(S)
  BY DEF NextStop
<1>3. NextStop(q, n) \in S
  BY <1>1, <1>2, MinFinds
<1>. QED  BY <1>3, SplitsCounted

LEMMA CopyStopsAtARead ==
    ASSUME NEW q \in Queries
    PROVE  CopyStop(q) <= N => ~Passed(q, CopyStop(q))
<1>. DEFINE S == {n \in 1 .. N : Unreadable(q, n)} \cup {N + 1}
<1>1. S \in SUBSET Nat /\ S # {}
  BY SplitsCounted
<1>2. CopyStop(q) \in S
  BY <1>1, MinFinds DEF CopyStop
<1>. QED  BY <1>2, SplitsCounted DEF Unreadable

\* What a scan asks for at a split it has to read: pages of its own selection.
LEMMA AsksForWanted ==
    ASSUME NEW q \in Queries, NEW n, ~Passed(q, n)
    PROVE  \A b \in MissingBytes(q, n) \cup PendingCodec(q, n) :
              OfData(b) => Wanted(q, b[2], b[3])
<1>1. ASSUME NEW g \in PagesRead(q, n), ~IndexMissing(q, n) PROVE Wanted(q, n, g)
  <2>1. n \notin RuledOut[q] /\ KeptPages(q, n) # {}
    BY <1>1 DEF Passed
  <2>2. CASE PageIndexUsed(q, n)
    <3>1. PagesRead(q, n) = KeptPages(q, n)
      BY <2>2 DEF PagesRead, Refined
    <3>. QED  BY <1>1, <2>1, <2>2, <3>1 DEF KeptPages, Wanted
  <2>3. CASE ~PageIndexUsed(q, n)
    BY <2>1, <2>3 DEF Wanted
  <2>. QED  BY <2>2, <2>3
<1>2. ASSUME NEW b \in MissingBytes(q, n), OfData(b) PROVE Wanted(q, b[2], b[3])
  <2>1. ~IndexMissing(q, n)
    BY <1>2 DEF MissingBytes, OfData
  <2>2. PICK g \in PagesRead(q, n) : b = <<"page", n, g>>
    BY <1>2, <2>1 DEF MissingBytes
  <2>. QED  BY <1>1, <2>1, <2>2
<1>3. ASSUME NEW b \in PendingCodec(q, n) PROVE Wanted(q, b[2], b[3])
  <2>1. PICK g \in PagesRead(q, n) : b = <<"inflated", n, g>>
    BY <1>3 DEF PendingCodec
  <2>2. n \notin RuledOut[q]
    BY DEF Passed
  <2>3. CASE IndexMissing(q, n)
    <3>1. PageIndexUsed(q, n)
      BY <2>3 DEF IndexMissing
    <3>2. g \in KeptPages(q, n)
      BY <2>1, <3>1 DEF PagesRead, Refined
    <3>. QED  BY <2>1, <2>2, <3>1, <3>2 DEF KeptPages, Wanted
  <2>. QED  BY <1>1, <2>1, <2>3
<1>. QED  BY <1>2, <1>3
----------------------------------------------------------------------------
\* Enough for a step: what q asks for beyond what was asked, it wants.
LEMMA Fetches ==
    ASSUME IInv, NEW q \in Queries, NEW p \in Phases,
           phase' = [phase EXCEPT ![q] = p] \/ UNCHANGED phase,
           pos' \in [Queries -> Nat],
           \A r \in inflight' : r \in inflight \/ (OfData(r[2]) => Wanted(r[1], r[2][2], r[2][3]))
    PROVE  IInv'
<1>1. TypeOK'
  BY DEF IInv, TypeOK
<1>2. ASSUME NEW r \in inflight', OfData(r[2]) PROVE Wanted(r[1], r[2][2], r[2][3])
  BY <1>2 DEF IInv, OnlyWantedPagesFetched, OfData
<1>. QED  BY <1>1, <1>2 DEF IInv, OnlyWantedPagesFetched, OfData

LEMMA AskAsks ==
    ASSUME NEW q, NEW bs, Ask(q, bs), \A b \in bs : OfData(b) => Wanted(q, b[2], b[3])
    PROVE  \A r \in inflight' : r \in inflight \/ (OfData(r[2]) => Wanted(r[1], r[2][2], r[2][3]))
<1>1. inflight' = inflight \cup ({q} \X bs)
  BY DEF Ask
<1>2. ASSUME NEW r \in {q} \X bs PROVE OfData(r[2]) => Wanted(r[1], r[2][2], r[2][3])
  <2>1. r[1] = q /\ r[2] \in bs
    OBVIOUS
  <2>. QED  BY <2>1
<1>. QED  BY <1>1, <1>2

LEMMA TableNeedsNoData == \A b \in TableNeeds : ~OfData(b)
<1>1. ASSUME NEW p \in Parts, NEW b \in ResolveNeeds(p) PROVE ~OfData(b)
  <2>1. b \in {<<"size", p>>, <<"tail", p>>, <<"footer", p>>}
    BY DEF ResolveNeeds
  <2>. QED  BY <2>1 DEF OfData
<1>. QED  BY <1>1 DEF TableNeeds

LEMMA StartKeeps ==
    ASSUME IInv, NEW q \in Queries, Start(q)
    PROVE  IInv'
<1>1. phase \in [Queries -> Phases] /\ pos' \in [Queries -> Nat]
  BY DEF IInv, TypeOK, Start, StartBad, StartNeedIo, StartReady, CopyNeedIo, CopyFails, CopyCompletes
<1>2. CASE StartBad(q) \/ CopyFails(q)
  <2>1. phase' = [phase EXCEPT ![q] = "failed"] /\ inflight' = inflight /\ "failed" \in Phases
    BY <1>2 DEF StartBad, CopyFails, Phases
  <2>. QED  BY <1>1, <2>1, Fetches
<1>3. CASE StartNeedIo(q)
  BY <1>1, <1>3, AskAsks, TableNeedsNoData, Fetches DEF StartNeedIo, Phases
<1>4. CASE StartReady(q)
  BY <1>1, <1>4, Fetches DEF StartReady, Phases
<1>5. CASE CopyCompletes(q)
  BY <1>1, <1>5, Fetches DEF CopyCompletes, Phases
<1>6. CASE CopyNeedIo(q)
  <2>1. \A b \in MissingBytes(q, CopyStop(q)) : OfData(b) => Wanted(q, b[2], b[3])
    BY <1>6, CopyStopsAtARead, AsksForWanted DEF CopyNeedIo
  <2>. QED  BY <1>1, <1>6, <2>1, AskAsks, Fetches DEF CopyNeedIo, Phases
<1>. QED  BY <1>2, <1>3, <1>4, <1>5, <1>6 DEF Start

LEMMA StepKeeps ==
    ASSUME IInv, NEW q \in Queries, Step(q)
    PROVE  IInv'
<1>1. /\ phase \in [Queries -> Phases] /\ pos \in [Queries -> Nat]
      /\ Stop(q) \in Nat /\ (Stop(q) <= N => ~Passed(q, Stop(q)))
  BY StopsAtARead DEF IInv, TypeOK, Stop
<1>2. pos' \in [Queries -> Nat]
  <2>1. \/ UNCHANGED pos
        \/ \E n \in {N + 1, Stop(q), Stop(q) + 1} : pos' = [pos EXCEPT ![q] = n]
    BY DEF Step, StepRow, StepDone, StepNeedIo, StepNeedCodec, StepDecode
  <2>. QED  BY <1>1, <2>1, SplitsCounted
<1>3. CASE StepRow(q) \/ StepDecode(q)
  BY <1>1, <1>2, <1>3, Fetches DEF StepRow, StepDecode, Phases
<1>4. CASE StepDone(q)
  BY <1>1, <1>2, <1>4, Fetches DEF StepDone, Phases
<1>5. CASE StepNeedIo(q)
  BY <1>1, <1>2, <1>5, Fetches, AskAsks, AsksForWanted DEF StepNeedIo, Phases
<1>6. CASE StepNeedCodec(q)
  BY <1>1, <1>2, <1>6, Fetches, AskAsks, AsksForWanted DEF StepNeedCodec, Phases
<1>. QED  BY <1>3, <1>4, <1>5, <1>6 DEF Step

LEMMA CloseKeeps ==
    ASSUME IInv, NEW q \in Queries, Close(q)
    PROVE  IInv'
<1>1. pos' \in [Queries -> Nat]
  BY DEF IInv, TypeOK, Close
<1>. QED  BY <1>1, Fetches DEF Close, Phases

\* The answer to a request may come when the statement that asked is gone.
LEMMA ProvideKeeps ==
    ASSUME IInv, NEW r \in inflight, Provide(r[1], r[2])
    PROVE  IInv'
BY DEF IInv, TypeOK, Provide, OnlyWantedPagesFetched

LEMMA Inductive == Spec => []IInv
<1>1. Init => IInv
  BY DEF Init, IInv, TypeOK, OnlyWantedPagesFetched, Phases
<1>2. IInv /\ [Next]_vars => IInv'
  <2>1. CASE Next
    BY <2>1, StartKeeps, StepKeeps, CloseKeeps, ProvideKeeps DEF Next
  <2>2. CASE UNCHANGED vars
    BY <2>2 DEF vars, IInv, TypeOK, OnlyWantedPagesFetched
  <2>. QED  BY <2>1, <2>2
<1>. QED  BY <1>1, <1>2, PTL DEF Spec

(* No statement asks for a data page, or its decompressed form, that its    *)
(* own statistics exclude, whatever the table, its statistics and the other *)
(* statements are: the selection is settled again by every call, though     *)
(* other scans settle theirs in the same place.                             *)
THEOREM WantedPagesOnly == Spec => []OnlyWantedPagesFetched
<1>1. IInv => OnlyWantedPagesFetched
  BY DEF IInv
<1>. QED  BY <1>1, Inductive, PTL

(* While a statement keeps its slot, no step of any other takes bytes that  *)
(* were fetched: bytes go only when the last slot is given up.              *)
THEOREM OpenStatementsKeepBytes == Spec => OpenStatementKeepsBytes
<1>. DEFINE Kept == \A q \in Queries : InSlot(q) /\ InSlot(q)' =>
                        {b \in held : b[1] # "inflated"} \subseteq held'
<1>. DEFINE Fetched == {b \in held : b[1] # "inflated"}
<1>1. ASSUME NEW q \in Queries, NEW bs, Fetched \subseteq bs,
             held' = ReleaseIfIdle(q, bs), ~InSlot(q)'
      PROVE  Kept
  BY <1>1 DEF ReleaseIfIdle
<1>2. ASSUME TypeOK, Next PROVE Kept
  <2>1. ASSUME NEW q \in Queries, Start(q) PROVE Kept
    <3>1. CASE StartBad(q)
      <4>1. held' = ReleaseIfIdle(q, held) /\ ~InSlot(q)'
        BY <1>2, <3>1 DEF TypeOK, StartBad, InSlot
      <4>. QED  BY <1>1, <4>1
    <3>2. CASE CopyFails(q)
      <4>1. ~InSlot(q)'
        BY <1>2, <3>2 DEF TypeOK, CopyFails, InSlot
      <4>2. PICK n, inflated : held' = ReleaseIfIdle(q, HeldAfter(q, n) \cup inflated)
        BY <3>2 DEF CopyFails
      <4>3. Fetched \subseteq HeldAfter(q, n) \cup inflated
        BY DEF HeldAfter, ClearedDecoded
      <4>. QED  BY <1>1, <4>1, <4>2, <4>3
    <3>3. CASE StartNeedIo(q) \/ StartReady(q)
      BY <3>3 DEF StartNeedIo, StartReady
    <3>4. CASE CopyNeedIo(q) \/ CopyCompletes(q)
      BY <3>4 DEF CopyNeedIo, CopyCompletes, AfterCopyScan, HeldAfter, ClearedDecoded
    <3>. QED  BY <2>1, <3>1, <3>2, <3>3, <3>4 DEF Start
  <2>2. ASSUME NEW q \in Queries, Step(q) PROVE Kept
    BY <2>2 DEF Step, StepRow, StepDone, StepNeedIo, StepNeedCodec, StepDecode, ClearedDecoded
  <2>3. ASSUME NEW q \in Queries, Close(q) PROVE Kept
    <3>1. held' = ReleaseIfIdle(q, held) /\ ~InSlot(q)'
      BY <1>2, <2>3 DEF TypeOK, Close, InSlot
    <3>. QED  BY <1>1, <3>1
  <2>4. ASSUME NEW r \in inflight, Provide(r[1], r[2]) PROVE Kept
    BY <2>4 DEF Provide
  <2>. QED  BY <1>2, <2>1, <2>2, <2>3, <2>4 DEF Next
<1>3. IInv /\ [Next]_vars => [Kept]_vars
  BY <1>2 DEF IInv
<1>. QED  BY <1>3, Inductive, PTL DEF Spec, OpenStatementKeepsBytes
----------------------------------------------------------------------------
(* Concatenation, piece by piece. *)

LEMMA UpTo ==
    ASSUME NEW n \in Nat, NEW T, 0 \in T, \A i \in 1..n : i - 1 \in T => i \in T
    PROVE  0..n \subseteq T
<1>. DEFINE S == (0..n) \ T
<1>. SUFFICES ASSUME S # {} PROVE FALSE
  OBVIOUS
<1>1. S \in SUBSET Nat
  OBVIOUS
<1>2. PICK i \in S : \A j \in S : i <= j
  <2>. HIDE DEF S
  <2>. QED  BY <1>1, MinFinds
<1>3. i \in 1..n /\ i - 1 \in 0..n
  BY <1>2
<1>. QED  BY <1>2, <1>3

Flat(s, n, f) == f = [i \in 1..n |-> IF i = 1 THEN s[i] ELSE f[i - 1] \o s[i]]

LEMMA FlatExists == ASSUME NEW s PROVE \A n \in Nat : \E f : Flat(s, n, f)
<1>. DEFINE T == {n \in Nat : \E f : Flat(s, n, f)}
<1>1. 0 \in T
  <2>. DEFINE f == [i \in 1..0 |-> s[i]]
  <2>1. Flat(s, 0, f)
    BY DEF Flat
  <2>. QED  BY <2>1
<1>2. ASSUME NEW n \in Nat \ {0}, n - 1 \in T PROVE n \in T
  <2>1. PICK f : Flat(s, n - 1, f)
    BY <1>2
  <2>2. \A i \in 1..(n - 1) : f[i] = IF i = 1 THEN s[i] ELSE f[i - 1] \o s[i]
    BY <2>1 DEF Flat
  <2>. DEFINE g == [i \in 1..n |-> IF i = n THEN IF n = 1 THEN s[n] ELSE f[n - 1] \o s[n] ELSE f[i]]
  <2>3. (\A i \in 1..(n - 1) : g[i] = f[i]) /\ g[n] = IF n = 1 THEN s[n] ELSE f[n - 1] \o s[n]
    <3>1. n \in 1..n /\ \A i \in 1..(n - 1) : i \in 1..n /\ i # n
      OBVIOUS
    <3>. QED  BY <3>1
  <2>4. g = [i \in 1..n |-> g[i]]
    OBVIOUS
  <2>. HIDE DEF g
  <2>5. ASSUME NEW i \in 1..n PROVE g[i] = IF i = 1 THEN s[i] ELSE g[i - 1] \o s[i]
    <3>1. CASE i = n
      <4>1. n # 1 => n - 1 \in 1..(n - 1)
        OBVIOUS
      <4>. QED  BY <2>3, <3>1, <4>1
    <3>2. CASE i # n
      <4>1. i \in 1..(n - 1) /\ (i # 1 => i - 1 \in 1..(n - 1))
        BY <3>2
      <4>. QED  BY <2>2, <2>3, <4>1
    <3>. QED  BY <3>1, <3>2
  <2>6. Flat(s, n, g)
    BY <2>4, <2>5 DEF Flat
  <2>. QED  BY <2>6
<1>3. ASSUME NEW n \in Nat PROVE n \in T
  <2>1. 0..n \subseteq T
    <3>1. \A i \in 1..n : i - 1 \in T => i \in T
      BY <1>2
    <3>. HIDE DEF T
    <3>. QED  BY <1>1, <3>1, UpTo
  <2>. QED  BY <2>1
<1>. QED  BY <1>3

\* What the first k pieces come to.
Upto(s, k) == IF k = 0 THEN <<>> ELSE (CHOOSE f : Flat(s, Len(s), f))[k]

LEMMA UptoIs ==
    ASSUME NEW T, NEW s \in Seq(Seq(T))
    PROVE  /\ Upto(s, 0) = <<>> /\ Upto(s, Len(s)) = FlattenSeq(s)
           /\ \A k \in 1..Len(s) : Upto(s, k) = Upto(s, k - 1) \o s[k]
           /\ \A k \in 0..Len(s) : Upto(s, k) \in Seq(T)
<1>. DEFINE n == Len(s)
            flatten[i \in 1..Len(s)] == IF i = 1 THEN s[i] ELSE flatten[i - 1] \o s[i]
<1>1. n \in Nat /\ \A k \in 1..n : s[k] \in Seq(T)
  OBVIOUS
<1>2. FlattenSeq(s) = IF n = 0 THEN s ELSE flatten[n]
  BY DEF FlattenSeq
<1>3. flatten = CHOOSE f : Flat(s, n, f)
  BY DEF Flat
<1>. HIDE DEF flatten
<1>4. \A k \in 1..n : Upto(s, k) = flatten[k]
  <2>1. \A k \in 1..n : k # 0
    OBVIOUS
  <2>2. \A k : k # 0 => Upto(s, k) = (CHOOSE f : Flat(s, n, f))[k]
    BY DEF Upto
  <2>. QED  BY <1>3, <2>1, <2>2
<1>5. Flat(s, n, flatten)
  BY <1>1, <1>3, FlatExists
<1>6. \A k \in 1..n : flatten[k] = IF k = 1 THEN s[k] ELSE flatten[k - 1] \o s[k]
  BY <1>5 DEF Flat
<1>7. Upto(s, 0) = <<>>
  BY DEF Upto
<1>8. ASSUME NEW k \in 1..n PROVE Upto(s, k) = Upto(s, k - 1) \o s[k]
  <2>1. CASE k = 1
    <3>1. \A x \in Seq(T) : <<>> \o x = x
      OBVIOUS
    <3>2. Upto(s, k) = s[1] /\ Upto(s, k - 1) = <<>> /\ s[k] = s[1]
      BY <1>4, <1>6, <1>7, <2>1
    <3>. QED  BY <1>1, <3>1, <3>2
  <2>2. CASE k # 1
    <3>1. k - 1 \in 1..n
      BY <1>1, <2>2
    <3>. QED  BY <1>4, <1>6, <2>2, <3>1
  <2>. QED  BY <2>1, <2>2
<1>9. \A k \in 0..n : Upto(s, k) \in Seq(T)
  <2>. DEFINE G == {k \in 0..n : Upto(s, k) \in Seq(T)}
  <2>1. 0 \in G
    <3>1. <<>> \in Seq(T) /\ 0 \in 0..n
      BY <1>1
    <3>. QED  BY <1>7, <3>1
  <2>2. ASSUME NEW k \in 1..n, k - 1 \in G PROVE k \in G
    <3>1. \A x, y \in Seq(T) : x \o y \in Seq(T)
      OBVIOUS
    <3>2. Upto(s, k - 1) \in Seq(T) /\ s[k] \in Seq(T)
      BY <1>1, <2>2
    <3>3. Upto(s, k) = Upto(s, k - 1) \o s[k]
      BY <1>8
    <3>4. Upto(s, k - 1) \o s[k] \in Seq(T)
      BY <3>1, <3>2
    <3>5. k \in 0..n
      OBVIOUS
    <3>. QED  BY <3>3, <3>4, <3>5
  <2>3. 0..n \subseteq G
    <3>. HIDE DEF G
    <3>. QED  BY <1>1, <2>1, <2>2, UpTo
  <2>. QED  BY <2>3
<1>10. Upto(s, n) = FlattenSeq(s)
  <2>1. CASE n = 0
    <3>1. s = <<>>
      BY <2>1
    <3>. QED  BY <1>2, <1>7, <2>1, <3>1
  <2>2. CASE n # 0
    BY <1>1, <1>2, <1>4, <2>2
  <2>. QED  BY <2>1, <2>2
<1>. QED  BY <1>7, <1>8, <1>9, <1>10

LEMMA UptoSkips ==
    ASSUME NEW T, NEW s \in Seq(Seq(T)), NEW k \in 0..Len(s), NEW m \in k..Len(s),
           \A j \in (k + 1)..m : s[j] = <<>>
    PROVE  Upto(s, m) = Upto(s, k)
<1>. DEFINE G == {d \in 0..(m - k) : Upto(s, k + d) = Upto(s, k)}
<1>1. 0 \in G /\ m - k \in Nat
  OBVIOUS
<1>2. ASSUME NEW d \in 1..(m - k), d - 1 \in G PROVE d \in G
  <2>. DEFINE j == k + d
  <2>1. j \in 1..Len(s) /\ j \in (k + 1)..m /\ j - 1 = k + (d - 1)
    OBVIOUS
  <2>2. Upto(s, j) = Upto(s, j - 1) \o <<>>
    BY <2>1, UptoIs
  <2>3. Upto(s, j - 1) = Upto(s, k) /\ Upto(s, k) \in Seq(T)
    BY <1>2, <2>1, UptoIs
  <2>4. \A x \in Seq(T) : x \o <<>> = x
    OBVIOUS
  <2>5. Upto(s, j) = Upto(s, k)
    BY <2>2, <2>3, <2>4
  <2>. QED  BY <2>5
<1>3. 0..(m - k) \subseteq G
  <2>. HIDE DEF G
  <2>. QED  BY <1>1, <1>2, UpTo
<1>4. m - k \in G /\ k + (m - k) = m
  BY <1>1, <1>3
<1>. QED  BY <1>4

LEMMA Regroup ==
    ASSUME NEW T, NEW x \in Seq(T), NEW y \in Seq(T), NEW z \in Seq(T)
    PROVE  y \o z \in Seq(T) /\ (x \o y) \o z = x \o (y \o z)
OBVIOUS

LEMMA UptoStarts ==
    ASSUME NEW T, NEW s \in Seq(Seq(T)), NEW k \in 0..Len(s)
    PROVE  \E r \in Seq(T) : Upto(s, Len(s)) = Upto(s, k) \o r
<1>. DEFINE n == Len(s)
            G == {d \in 0..n : \E r \in Seq(T) : Upto(s, n) = Upto(s, n - d) \o r}
<1>0. n \in Nat /\ k \in 0..n /\ \A i \in 1..n : s[i] \in Seq(T)
  OBVIOUS
<1>c. \A x \in Seq(T) : x \o <<>> = x
  OBVIOUS
<1>u. /\ \A i \in 1..n : Upto(s, i) = Upto(s, i - 1) \o s[i]
      /\ \A i \in 0..n : Upto(s, i) \in Seq(T)
  BY UptoIs
<1>. HIDE DEF n
<1>1. 0 \in G
  <2>1. n \in 0..n /\ n - 0 = n /\ 0 \in 0..n /\ <<>> \in Seq(T)
    BY <1>0
  <2>2. Upto(s, n) = Upto(s, n) \o <<>>
    BY <1>c, <1>u, <2>1
  <2>. QED  BY <2>1, <2>2
<1>2. ASSUME NEW d \in 1..n, d - 1 \in G PROVE d \in G
  <2>1. PICK i \in 1..n : i = n - (d - 1)
    BY <1>0
  <2>2. PICK r \in Seq(T) : Upto(s, n) = Upto(s, i) \o r
    BY <1>2, <2>1
  <2>3. i - 1 = n - d /\ i - 1 \in 0..n /\ i \in 0..n /\ d \in 0..n
    BY <1>0, <2>1
  <2>4. Upto(s, n) = Upto(s, i - 1) \o (s[i] \o r) /\ s[i] \o r \in Seq(T)
    <3>1. Upto(s, i) = Upto(s, i - 1) \o s[i] /\ Upto(s, i - 1) \in Seq(T) /\ s[i] \in Seq(T)
      BY <1>0, <1>u, <2>3
    <3>2. (Upto(s, i - 1) \o s[i]) \o r = Upto(s, i - 1) \o (s[i] \o r) /\ s[i] \o r \in Seq(T)
      <4>. DEFINE x == Upto(s, i - 1)  y == s[i]
      <4>1. x \in Seq(T) /\ y \in Seq(T)
        BY <3>1
      <4>. HIDE DEF x, y
      <4>2. y \o r \in Seq(T) /\ (x \o y) \o r = x \o (y \o r)
        BY <4>1, Regroup
      <4>. QED  BY <4>2 DEF x, y
    <3>. QED  BY <2>2, <3>1, <3>2
  <2>. QED  BY <2>3, <2>4
<1>3. 0..n \subseteq G
  <2>. HIDE DEF G
  <2>. QED  BY <1>0, <1>1, <1>2, UpTo
<1>4. n - k \in 0..n /\ n - (n - k) = k
  BY <1>0
<1>5. n - k \in G
  BY <1>3, <1>4
<1>. QED  BY <1>4, <1>5 DEF n
----------------------------------------------------------------------------
(* The rows of a split and the answer, which is their concatenation. *)

RowSet == {Rows(n, S)[i] : n \in Nat, S \in SUBSET Nat, i \in Nat}

LEMMA RowsAre ==
    ASSUME NEW n \in 1..N, NEW S \in SUBSET AllPages(n)
    PROVE  /\ Rows(n, S) \in Seq(RowSet)
           /\ S = {} => Rows(n, S) = <<>>
           /\ S # {} => Rows(n, S) # <<>>
<1>1. n \in Nat /\ S \in SUBSET Nat /\ Split(n).pages \in Nat
  <2>1. n \in Nat /\ n \in 1 .. Len(SplitSeq)
    BY SplitsCounted DEF N
  <2>2. SplitSeq[n] \in [part : Parts, pages : Nat, index : BOOLEAN]
    <3>1. SplitSeq \in Seq([part : Parts, pages : Nat, index : BOOLEAN])
      BY EngineAssumption
    <3>2. \A T : \A s \in Seq(T) : \A i \in 1..Len(s) : s[i] \in T
      OBVIOUS
    <3>. QED  BY <2>1, <3>1, <3>2, Zenon
  <2>3. SplitSeq[n].pages \in Nat
    BY <2>2
  <2>. QED  BY <2>1, <2>3 DEF Split, AllPages
<1>2. IsFiniteSet(AllPages(n)) /\ IsFiniteSet(S)
  <2>1. IsFiniteSet(1 .. Split(n).pages)
    BY <1>1, FS_Interval
  <2>. QED  BY <2>1, FS_Subset DEF AllPages
<1>3. Cardinality(S) \in Nat /\ (Cardinality(S) = 0 <=> S = {})
  BY <1>2, FS_CardinalityType, FS_EmptySet
<1>4. \A i \in 1 .. Cardinality(S) : Rows(n, S)[i] \in RowSet
  <2>1. \A i \in 1 .. Cardinality(S) : i \in Nat
    BY <1>3
  <2>2. \A i \in Nat : Rows(n, S)[i] \in RowSet
    BY <1>1 DEF RowSet
  <2>. QED  BY <2>1, <2>2
<1>5. Rows(n, S) = [i \in 1 .. Cardinality(S) |-> Rows(n, S)[i]]
  BY DEF Rows
<1>6. Rows(n, S) \in Seq(RowSet) /\ Len(Rows(n, S)) = Cardinality(S)
  <2>1. \A t, k : k \in Nat /\ t = [i \in 1..k |-> t[i]] /\ (\A i \in 1..k : t[i] \in RowSet)
                    => t \in Seq(RowSet) /\ Len(t) = k
    OBVIOUS
  <2>. QED  BY <1>3, <1>4, <1>5, <2>1
<1>7. \A t \in Seq(RowSet) : t = <<>> <=> Len(t) = 0
  OBVIOUS
<1>. QED  BY <1>3, <1>6, <1>7

WantedPages(q, n) == {g \in AllPages(n) : Wanted(q, n, g)}
Pieces(q) == [n \in 1..N |-> Rows(n, WantedPages(q, n))]

LEMMA PiecesAre ==
    ASSUME NEW q \in Queries
    PROVE  /\ Pieces(q) \in Seq(Seq(RowSet)) /\ Len(Pieces(q)) = N
           /\ Answer[q] = FlattenSeq(Pieces(q)) /\ Answer[q] \in Seq(RowSet)
           /\ Answer[q] = Upto(Pieces(q), N)
<1>1. \A n \in 1..N : Rows(n, WantedPages(q, n)) \in Seq(RowSet)
  BY RowsAre DEF WantedPages
<1>2. Pieces(q) \in Seq(Seq(RowSet)) /\ Len(Pieces(q)) = N
  BY <1>1, SplitsCounted DEF Pieces
<1>3. Answer[q] = FlattenSeq(Pieces(q))
  BY DEF Answer, Pieces, WantedPages
<1>4. N \in 0..N
  BY SplitsCounted
<1>. QED  BY <1>2, <1>3, <1>4, UptoIs

\* A split that is passed over has no row of the answer; one that is not has
\* some, and they are what is read, whatever selection was cached before.
LEMMA PassedIsEmpty ==
    ASSUME NEW q \in Queries, NEW n \in 1..N, Passed(q, n)
    PROVE  Pieces(q)[n] = <<>>
<1>1. ASSUME n \in RuledOut[q] PROVE WantedPages(q, n) = {}
  BY <1>1 DEF WantedPages, Wanted
<1>2. ASSUME n \notin RuledOut[q] PROVE WantedPages(q, n) = {}
  <2>1. KeptPages(q, n) = {}
    BY <1>2 DEF Passed
  <2>. QED  BY <1>2, <2>1 DEF WantedPages, Wanted, KeptPages
<1>3. WantedPages(q, n) = {} /\ WantedPages(q, n) \in SUBSET AllPages(n)
  BY <1>1, <1>2
<1>. QED  BY <1>3, RowsAre DEF Pieces

LEMMA ReadIsWanted ==
    ASSUME NEW q \in Queries, NEW n \in 1..N, ~Passed(q, n), MissingBytes(q, n) = {}
    PROVE  /\ RowsOf(q, n) = Pieces(q)[n] /\ RowsOf(q, n) \in Seq(RowSet)
           /\ RowsOf(q, n) # <<>>
           /\ \A g \in PagesRead(q, n) : g \in AllPages(n) /\ Wanted(q, n, g)
<1>1. ~IndexMissing(q, n) /\ n \notin RuledOut[q] /\ KeptPages(q, n) # {}
  BY DEF MissingBytes, Passed
<1>2. n # 0
  BY SplitsCounted
<1>3. PagesRead(q, n) = KeptPages(q, n)
  BY <1>2 DEF PagesRead, Refined, NoPlan, KeptPages
<1>4. KeptPages(q, n) = WantedPages(q, n)
  BY <1>1 DEF KeptPages, WantedPages, Wanted
<1>5. WantedPages(q, n) \in SUBSET AllPages(n) /\ WantedPages(q, n) # {}
  BY <1>1, <1>4 DEF WantedPages
<1>6. RowsOf(q, n) = Rows(n, WantedPages(q, n)) /\ Pieces(q)[n] = Rows(n, WantedPages(q, n))
  BY <1>3, <1>4 DEF RowsOf, Pieces
<1>. QED  BY <1>3, <1>4, <1>5, <1>6, RowsAre DEF WantedPages

\* Up to the split where a scan stops nothing is added to its answer.
LEMMA StopSkips ==
    ASSUME NEW q \in Queries, NEW n \in 1 .. N + 1
    PROVE  /\ NextStop(q, n) \in n .. N + 1
           /\ Upto(Pieces(q), NextStop(q, n) - 1) = Upto(Pieces(q), n - 1)
<1>. DEFINE S == {m \in n .. N : ~Passed(q, m)} \cup {N + 1}
            k == NextStop(q, n)
<1>1. S \in SUBSET Nat /\ S # {} /\ k = Min(S) /\ N \in Nat
  BY SplitsCounted DEF NextStop
<1>2. k \in S /\ \A j \in S : k <= j
  <2>. HIDE DEF S
  <2>. QED  BY <1>1, MinFinds
<1>3. k \in n .. N + 1
  BY <1>1, <1>2
<1>. HIDE DEF k
<1>4. ASSUME NEW j \in n .. k - 1 PROVE Pieces(q)[j] = <<>>
  <2>1. j \in 1..N /\ ~(k <= j) /\ j \in n..N
    BY <1>1, <1>3
  <2>2. Passed(q, j)
    BY <1>2, <2>1
  <2>. QED  BY <2>1, <2>2, PassedIsEmpty
<1>5. n - 1 \in 0..N /\ k - 1 \in (n - 1)..N /\ (n - 1) + 1 = n
  BY <1>1, <1>3
<1>6. Upto(Pieces(q), k - 1) = Upto(Pieces(q), n - 1)
  <2>. DEFINE a == n - 1  b == k - 1
  <2>1. a \in 0..Len(Pieces(q)) /\ b \in a..Len(Pieces(q)) /\ \A j \in (a + 1)..b : Pieces(q)[j] = <<>>
    BY <1>4, <1>5, PiecesAre
  <2>. HIDE DEF a, b
  <2>2. Upto(Pieces(q), b) = Upto(Pieces(q), a)
    BY <2>1, PiecesAre, UptoSkips
  <2>. QED  BY <2>2 DEF a, b
<1>. QED  BY <1>3, <1>6 DEF k

\* A COPY that comes to the end has read what it wants of every split.
LEMMA CopiesAnswer ==
    ASSUME NEW q \in Queries, CopyStop(q) = N + 1
    PROVE  FlattenSeq([n \in 1 .. N |-> IF n \in CopyRead(q, N + 1) THEN RowsOf(q, n) ELSE <<>>]) = Answer[q]
<1>. DEFINE S == {n \in 1 .. N : Unreadable(q, n)} \cup {N + 1}
<1>1. S \in SUBSET Nat /\ S # {} /\ CopyStop(q) = Min(S) /\ N \in Nat
  BY SplitsCounted DEF CopyStop
<1>2. \A j \in S : N + 1 <= j
  <2>. HIDE DEF S
  <2>. QED  BY <1>1, MinFinds
<1>3. ASSUME NEW n \in 1..N
      PROVE  (IF n \in CopyRead(q, N + 1) THEN RowsOf(q, n) ELSE <<>>) = Pieces(q)[n]
  <2>1. ~(N + 1 <= n)
    BY <1>1
  <2>2. ~Unreadable(q, n)
    BY <1>2, <2>1
  <2>3. CopyRead(q, N + 1) = {m \in 1..N : ~Passed(q, m)}
    BY SplitsCounted DEF CopyRead
  <2>4. CASE Passed(q, n)
    BY <2>3, <2>4, PassedIsEmpty
  <2>5. CASE ~Passed(q, n)
    <3>1. MissingBytes(q, n) = {}
      BY <2>2, <2>5 DEF Unreadable
    <3>. QED  BY <2>3, <2>5, <3>1, ReadIsWanted
  <2>. QED  BY <2>4, <2>5
<1>4. [n \in 1 .. N |-> IF n \in CopyRead(q, N + 1) THEN RowsOf(q, n) ELSE <<>>] = Pieces(q)
  BY <1>3 DEF Pieces
<1>. QED  BY <1>4, PiecesAre
----------------------------------------------------------------------------
(* Concatenations of rows. *)

LEMMA HeadMoves ==
    ASSUME NEW T, NEW o \in Seq(T), NEW c \in Seq(T), c # <<>>
    PROVE  /\ Head(c) \in T /\ Tail(c) \in Seq(T) /\ Append(o, Head(c)) \in Seq(T)
           /\ Append(o, Head(c)) \o Tail(c) = o \o c
<1>1. Head(c) \in T /\ Tail(c) \in Seq(T) /\ Len(c) \in Nat \ {0} /\ Len(Tail(c)) = Len(c) - 1
      /\ Head(c) = c[1] /\ \A i \in 1..(Len(c) - 1) : Tail(c)[i] = c[i + 1]
  OBVIOUS
<1>. DEFINE a == Append(o, Head(c))
<1>2. a \in Seq(T) /\ Len(a) = Len(o) + 1 /\ Len(o) \in Nat
      /\ (\A i \in 1..Len(o) : a[i] = o[i]) /\ a[Len(o) + 1] = c[1]
  <2>1. \A x \in T : /\ Append(o, x) \in Seq(T) /\ Len(Append(o, x)) = Len(o) + 1 /\ Len(o) \in Nat
                      /\ \A i \in 1..Len(o) : Append(o, x)[i] = o[i]
                      /\ Append(o, x)[Len(o) + 1] = x
    OBVIOUS
  <2>. QED  BY <1>1, <2>1
<1>. HIDE DEF a
<1>3. \A x, y \in Seq(T) : /\ x \o y \in Seq(T) /\ Len(x \o y) = Len(x) + Len(y)
                           /\ \A i \in 1..Len(x) : (x \o y)[i] = x[i]
                           /\ \A i \in 1..Len(y) : (x \o y)[Len(x) + i] = y[i]
  OBVIOUS
<1>. DEFINE l == a \o Tail(c)  r == o \o c
<1>4. l \in Seq(T) /\ r \in Seq(T) /\ Len(l) = Len(o) + Len(c) /\ Len(r) = Len(o) + Len(c)
      /\ (\A i \in 1..(Len(o) + 1) : l[i] = a[i])
      /\ (\A i \in 1..(Len(c) - 1) : l[Len(o) + 1 + i] = c[i + 1])
      /\ (\A i \in 1..Len(o) : r[i] = o[i])
      /\ (\A i \in 1..Len(c) : r[Len(o) + i] = c[i])
  <2>1. /\ l \in Seq(T) /\ Len(l) = Len(a) + Len(Tail(c))
        /\ (\A i \in 1..Len(a) : l[i] = a[i])
        /\ (\A i \in 1..Len(Tail(c)) : l[Len(a) + i] = Tail(c)[i])
    BY <1>1, <1>2, <1>3
  <2>2. /\ r \in Seq(T) /\ Len(r) = Len(o) + Len(c)
        /\ (\A i \in 1..Len(o) : r[i] = o[i])
        /\ (\A i \in 1..Len(c) : r[Len(o) + i] = c[i])
    BY <1>3
  <2>. HIDE DEF l, r
  <2>3. Len(l) = Len(o) + Len(c)
    BY <1>1, <1>2, <2>1
  <2>4. \A i \in 1..(Len(o) + 1) : l[i] = a[i]
    BY <1>2, <2>1
  <2>5. \A i \in 1..(Len(c) - 1) : l[Len(o) + 1 + i] = c[i + 1]
    BY <1>1, <1>2, <2>1
  <2>. QED  BY <2>1, <2>2, <2>3, <2>4, <2>5
<1>. HIDE DEF l, r
<1>5. ASSUME NEW i \in 1..(Len(o) + Len(c)) PROVE l[i] = r[i]
  <2>1. CASE i <= Len(o)
    BY <1>2, <1>4, <2>1
  <2>2. CASE i = Len(o) + 1
    BY <1>1, <1>2, <1>4, <2>2
  <2>3. CASE i > Len(o) + 1
    <3>1. PICK j \in 1..(Len(c) - 1) : i = Len(o) + 1 + j
      <4>1. i - (Len(o) + 1) \in 1..(Len(c) - 1) /\ i = Len(o) + 1 + (i - (Len(o) + 1))
        BY <1>1, <1>2, <2>3
      <4>. QED  BY <4>1
    <3>2. j + 1 \in 1..Len(c) /\ i = Len(o) + (j + 1)
      BY <1>1, <1>2, <3>1
    <3>. QED  BY <1>4, <3>1, <3>2
  <2>. QED  BY <1>2, <2>1, <2>2, <2>3
<1>6. l = r
  BY <1>4, <1>5
<1>. QED  BY <1>1, <1>2, <1>6 DEF a, l, r

LEMMA StartIs ==
    ASSUME NEW T, NEW o \in Seq(T), NEW r \in Seq(T)
    PROVE  Len(o) <= Len(o \o r) /\ SubSeq(o \o r, 1, Len(o)) = o
<1>1. /\ o \o r \in Seq(T) /\ Len(o \o r) = Len(o) + Len(r) /\ Len(o) \in Nat /\ Len(r) \in Nat
      /\ \A i \in 1..Len(o) : (o \o r)[i] = o[i]
  OBVIOUS
<1>2. \A t \in Seq(T) : \A k \in 0..Len(t) :
         /\ SubSeq(t, 1, k) \in Seq(T) /\ Len(SubSeq(t, 1, k)) = k
         /\ \A i \in 1..k : SubSeq(t, 1, k)[i] = t[i]
  OBVIOUS
<1>. DEFINE u == SubSeq(o \o r, 1, Len(o))
<1>3. u \in Seq(T) /\ Len(u) = Len(o) /\ \A i \in 1..Len(o) : u[i] = o[i]
  BY <1>1, <1>2
<1>. HIDE DEF u
<1>4. u = o
  BY <1>3
<1>. QED  BY <1>1, <1>4 DEF u

LEMMA PrefixIs ==
    ASSUME NEW T, NEW o \in Seq(T), NEW r \in Seq(T)
    PROVE  IsPrefix(o, o \o r)
<1>1. SubSeq(o, 1, Len(o)) = o
  OBVIOUS
<1>. QED  BY <1>1, StartIs DEF IsPrefix
----------------------------------------------------------------------------
(* Where a statement stands in its answer. *)

Served(q, ph, po, cu, ou) ==
    /\ ph \in {"new", "preparing"} => po = 1 /\ cu = <<>> /\ ou = <<>>
    /\ ph = "open" => /\ Kind[q] = "select" /\ po \in 1 .. N + 1
                      /\ ou \o cu = Upto(Pieces(q), po - 1)
    /\ ph = "done" => ou = Answer[q]
    /\ ph = "closed" => \E r \in Seq(RowSet) : Answer[q] = ou \o r
    /\ ph = "failed" => ou = <<>>

RInv == /\ TypeOK
        /\ cur \in [Queries -> Seq(RowSet)] /\ out \in [Queries -> Seq(RowSet)]
        /\ \A q \in Queries : Served(q, phase[q], pos[q], cur[q], out[q])

LEMMA RestFollows ==
    ASSUME NEW q \in Queries, NEW po \in 1 .. N + 1,
           NEW cu \in Seq(RowSet), NEW ou \in Seq(RowSet), ou \o cu = Upto(Pieces(q), po - 1)
    PROVE  \E r \in Seq(RowSet) : Answer[q] = ou \o (cu \o r) /\ cu \o r \in Seq(RowSet)
<1>1. po - 1 \in 0 .. Len(Pieces(q))
  BY SplitsCounted, PiecesAre
<1>2. PICK r \in Seq(RowSet) : Upto(Pieces(q), Len(Pieces(q))) = Upto(Pieces(q), po - 1) \o r
  <2>. DEFINE k == po - 1
  <2>1. k \in 0 .. Len(Pieces(q))
    BY <1>1
  <2>. HIDE DEF k
  <2>2. \E r \in Seq(RowSet) : Upto(Pieces(q), Len(Pieces(q))) = Upto(Pieces(q), k) \o r
    BY <2>1, PiecesAre, UptoStarts
  <2>. QED  BY <2>2 DEF k
<1>3. Answer[q] = (ou \o cu) \o r
  BY <1>2, PiecesAre
<1>4. (ou \o cu) \o r = ou \o (cu \o r) /\ cu \o r \in Seq(RowSet)
  <2>1. \A x, y, z \in Seq(RowSet) : (x \o y) \o z = x \o (y \o z) /\ y \o z \in Seq(RowSet)
    OBVIOUS
  <2>. QED  BY <2>1
<1>. QED  BY <1>3, <1>4

LEMMA ServedIsExact == RInv => RowsExact
<1>. SUFFICES ASSUME RInv, NEW q \in Queries
              PROVE  IsPrefix(out[q], Answer[q]) /\ (phase[q] = "done" => out[q] = Answer[q])
  BY DEF RowsExact
<1>1. /\ out[q] \in Seq(RowSet) /\ cur[q] \in Seq(RowSet) /\ phase[q] \in Phases
      /\ Served(q, phase[q], pos[q], cur[q], out[q]) /\ Answer[q] \in Seq(RowSet)
  BY PiecesAre DEF RInv, TypeOK
<1>2. <<>> \in Seq(RowSet) /\ Answer[q] = <<>> \o Answer[q] /\ Answer[q] = Answer[q] \o <<>>
  <2>1. <<>> \in Seq(RowSet) /\ \A x \in Seq(RowSet) : x = <<>> \o x /\ x = x \o <<>>
    OBVIOUS
  <2>. QED  BY <1>1, <2>1
<1>3. phase[q] = "done" => out[q] = Answer[q]
  BY <1>1 DEF Served
<1>4. \E r \in Seq(RowSet) : Answer[q] = out[q] \o r
  <2>1. CASE phase[q] = "open"
    <3>1. pos[q] \in 1 .. N + 1 /\ out[q] \o cur[q] = Upto(Pieces(q), pos[q] - 1)
      BY <1>1, <2>1 DEF Served
    <3>. DEFINE po == pos[q]  cu == cur[q]  ou == out[q]
    <3>2. po \in 1 .. N + 1 /\ cu \in Seq(RowSet) /\ ou \in Seq(RowSet)
          /\ ou \o cu = Upto(Pieces(q), po - 1)
      BY <1>1, <3>1
    <3>. HIDE DEF po, cu, ou
    <3>3. \E r \in Seq(RowSet) : Answer[q] = ou \o (cu \o r) /\ cu \o r \in Seq(RowSet)
      BY <3>2, RestFollows
    <3>4. PICK r \in Seq(RowSet) : Answer[q] = out[q] \o (cur[q] \o r) /\ cur[q] \o r \in Seq(RowSet)
      BY <3>3 DEF cu, ou
    <3>. QED  BY <3>4
  <2>2. CASE phase[q] \in {"new", "preparing", "failed"}
    <3>1. out[q] = <<>>
      BY <1>1, <2>2 DEF Served
    <3>. QED  BY <1>1, <1>2, <3>1
  <2>3. CASE phase[q] = "done"
    BY <1>2, <1>3, <2>3
  <2>4. CASE phase[q] = "closed"
    BY <1>1, <2>4 DEF Served
  <2>. QED  BY <1>1, <2>1, <2>2, <2>3, <2>4 DEF Phases
<1>. QED  BY <1>1, <1>3, <1>4, PrefixIs

\* A step of one statement leaves the others where they are.
LEMMA OneServed ==
    ASSUME RInv, NEW q \in Queries, NEW p \in Phases, NEW m \in Nat,
           NEW c \in Seq(RowSet), NEW o \in Seq(RowSet), Served(q, p, m, c, o),
           phase' = [phase EXCEPT ![q] = p], pos' = [pos EXCEPT ![q] = m],
           cur' = [cur EXCEPT ![q] = c], out' = [out EXCEPT ![q] = o]
    PROVE  RInv'
<1>1. /\ phase \in [Queries -> Phases] /\ pos \in [Queries -> Nat]
      /\ cur \in [Queries -> Seq(RowSet)] /\ out \in [Queries -> Seq(RowSet)]
      /\ \A r \in Queries : Served(r, phase[r], pos[r], cur[r], out[r])
  BY DEF RInv, TypeOK
<1>2. /\ phase' \in [Queries -> Phases] /\ pos' \in [Queries -> Nat]
      /\ cur' \in [Queries -> Seq(RowSet)] /\ out' \in [Queries -> Seq(RowSet)]
  BY <1>1
<1>3. ASSUME NEW r \in Queries PROVE Served(r, phase'[r], pos'[r], cur'[r], out'[r])
  <2>1. CASE r = q
    <3>1. phase'[q] = p /\ pos'[q] = m /\ cur'[q] = c /\ out'[q] = o
      BY <1>1
    <3>. QED  BY <2>1, <3>1
  <2>2. CASE r # q
    <3>1. phase'[r] = phase[r] /\ pos'[r] = pos[r] /\ cur'[r] = cur[r] /\ out'[r] = out[r]
      BY <1>1, <2>2
    <3>. QED  BY <1>1, <3>1
  <2>. QED  BY <2>1, <2>2
<1>. QED  BY <1>2, <1>3 DEF RInv, TypeOK

\* The same for what a step of q leaves alone of q itself.
LEMMA Standing ==
    ASSUME RInv, NEW q \in Queries
    PROVE  /\ phase[q] \in Phases /\ pos[q] \in Nat
           /\ cur[q] \in Seq(RowSet) /\ out[q] \in Seq(RowSet)
           /\ phase = [phase EXCEPT ![q] = phase[q]] /\ pos = [pos EXCEPT ![q] = pos[q]]
           /\ cur = [cur EXCEPT ![q] = cur[q]] /\ out = [out EXCEPT ![q] = out[q]]
           /\ Served(q, phase[q], pos[q], cur[q], out[q])
BY DEF RInv, TypeOK

LEMMA StartServes ==
    ASSUME RInv, NEW q \in Queries, Start(q)
    PROVE  RInv'
<1>. DEFINE po == pos[q]  cu == cur[q]  ou == out[q]
<1>1. /\ po \in Nat /\ cu \in Seq(RowSet) /\ ou \in Seq(RowSet)
      /\ pos = [pos EXCEPT ![q] = po] /\ cur = [cur EXCEPT ![q] = cu] /\ out = [out EXCEPT ![q] = ou]
      /\ Served(q, phase[q], po, cu, ou)
  BY Standing
<1>2. phase[q] \in {"new", "preparing"}
  BY DEF Start, StartBad, StartNeedIo, StartReady, CopyNeedIo, CopyFails, CopyCompletes
<1>3. po = 1 /\ cu = <<>> /\ ou = <<>>
  BY <1>1, <1>2 DEF Served
<1>. HIDE DEF po, cu, ou
<1>4. CASE StartBad(q) \/ CopyFails(q)
  <2>1. phase' = [phase EXCEPT ![q] = "failed"] /\ UNCHANGED <<pos, cur, out>>
    BY <1>4 DEF StartBad, CopyFails
  <2>2. "failed" \in Phases /\ Served(q, "failed", po, cu, ou)
    BY <1>3 DEF Phases, Served
  <2>. QED  BY <1>1, <2>1, <2>2, OneServed
<1>5. CASE StartNeedIo(q) \/ CopyNeedIo(q)
  <2>1. phase' = [phase EXCEPT ![q] = "preparing"] /\ UNCHANGED <<pos, cur, out>>
    BY <1>5 DEF StartNeedIo, CopyNeedIo
  <2>2. "preparing" \in Phases /\ Served(q, "preparing", po, cu, ou)
    BY <1>3 DEF Phases, Served
  <2>. QED  BY <1>1, <2>1, <2>2, OneServed
<1>6. CASE StartReady(q)
  <2>1. phase' = [phase EXCEPT ![q] = "open"] /\ UNCHANGED <<pos, cur, out>> /\ Kind[q] = "select"
    BY <1>6 DEF StartReady
  <2>2. ou \o cu = Upto(Pieces(q), po - 1)
    <3>1. po - 1 = 0 /\ Upto(Pieces(q), 0) = <<>>
      BY <1>3 DEF Upto
    <3>. QED  BY <1>3, <3>1
  <2>3. po \in 1 .. N + 1 /\ "open" \in Phases
    BY <1>3, SplitsCounted DEF Phases
  <2>4. Served(q, "open", po, cu, ou)
    BY <2>1, <2>2, <2>3 DEF Served
  <2>. QED  BY <1>1, <2>1, <2>3, <2>4, OneServed
<1>7. CASE CopyCompletes(q)
  <2>1. /\ phase' = [phase EXCEPT ![q] = "done"] /\ UNCHANGED <<pos, cur>>
        /\ out' = [out EXCEPT ![q] = Answer[q]]
    BY <1>7, CopiesAnswer DEF CopyCompletes
  <2>2. "done" \in Phases /\ Served(q, "done", po, cu, Answer[q]) /\ Answer[q] \in Seq(RowSet)
    BY PiecesAre DEF Phases, Served
  <2>. QED  BY <1>1, <2>1, <2>2, OneServed
<1>. QED  BY <1>4, <1>5, <1>6, <1>7 DEF Start

\* Where a scan stops, the answer so far is what was returned.
LEMMA AtStop ==
    ASSUME RInv, NEW q \in Queries, Scanning(q)
    PROVE  /\ Stop(q) \in 1 .. N + 1 /\ out[q] = Upto(Pieces(q), Stop(q) - 1)
           /\ Kind[q] = "select" /\ cur[q] = <<>> /\ (Stop(q) <= N => ~Passed(q, Stop(q)))
<1>. DEFINE po == pos[q]
<1>1. /\ po \in 1 .. N + 1 /\ Kind[q] = "select" /\ cur[q] = <<>> /\ out[q] \in Seq(RowSet)
      /\ out[q] \o cur[q] = Upto(Pieces(q), po - 1)
  BY Standing DEF Scanning, Served
<1>2. out[q] = Upto(Pieces(q), po - 1)
  <2>1. \A x \in Seq(RowSet) : x \o <<>> = x
    OBVIOUS
  <2>. QED  BY <1>1, <2>1
<1>3. Stop(q) = NextStop(q, po)
  BY DEF Stop
<1>. HIDE DEF po
<1>4. NextStop(q, po) \in po .. N + 1 /\ Upto(Pieces(q), NextStop(q, po) - 1) = Upto(Pieces(q), po - 1)
  BY <1>1, StopSkips
<1>5. po \in Nat /\ NextStop(q, po) \in 1 .. N + 1
  BY <1>1, <1>4, SplitsCounted
<1>6. NextStop(q, po) <= N => ~Passed(q, NextStop(q, po))
  BY <1>5, StopsAtARead
<1>. QED  BY <1>1, <1>2, <1>3, <1>4, <1>5, <1>6

LEMMA StepServes ==
    ASSUME RInv, NEW q \in Queries, Step(q)
    PROVE  RInv'
<1>. DEFINE po == pos[q]  cu == cur[q]  ou == out[q]
<1>1. /\ po \in Nat /\ cu \in Seq(RowSet) /\ ou \in Seq(RowSet)
      /\ phase = [phase EXCEPT ![q] = phase[q]] /\ pos = [pos EXCEPT ![q] = po]
      /\ cur = [cur EXCEPT ![q] = cu] /\ out = [out EXCEPT ![q] = ou]
      /\ Served(q, phase[q], po, cu, ou)
  BY Standing
<1>2. phase[q] = "open" /\ "open" \in Phases /\ "done" \in Phases
  BY DEF Step, StepRow, StepDone, StepNeedIo, StepNeedCodec, StepDecode, Scanning, Phases
<1>3. Kind[q] = "select" /\ po \in 1 .. N + 1 /\ ou \o cu = Upto(Pieces(q), po - 1)
  BY <1>1, <1>2 DEF Served
<1>4. CASE StepRow(q)
  <2>. DEFINE c == Tail(cu)  o == Append(ou, Head(cu))
  <2>1. /\ cu # <<>> /\ UNCHANGED <<phase, pos>>
        /\ cur' = [cur EXCEPT ![q] = c] /\ out' = [out EXCEPT ![q] = o]
    BY <1>4 DEF StepRow
  <2>. HIDE DEF po, cu, ou
  <2>2. c \in Seq(RowSet) /\ o \in Seq(RowSet) /\ o \o c = ou \o cu
    <3>1. cu \in Seq(RowSet) /\ ou \in Seq(RowSet) /\ cu # <<>>
      BY <1>1, <2>1
    <3>. QED  BY <3>1, HeadMoves
  <2>. HIDE DEF c, o
  <2>3. Served(q, "open", po, c, o)
    BY <1>3, <2>2 DEF Served
  <2>4. phase' = [phase EXCEPT ![q] = "open"] /\ pos' = [pos EXCEPT ![q] = po]
    BY <1>1, <1>2, <2>1
  <2>5. po \in Nat
    BY <1>1
  <2>. QED  BY <1>2, <2>1, <2>2, <2>3, <2>4, <2>5, OneServed
<1>5. ASSUME Scanning(q), NEW k, k = Stop(q)
      PROVE  /\ k \in 1 .. N + 1 /\ ou = Upto(Pieces(q), k - 1) /\ cu = <<>>
             /\ (k <= N => ~Passed(q, k))
  BY <1>5, AtStop
<1>6. CASE StepDone(q)
  <2>1. /\ Scanning(q) /\ Stop(q) = N + 1 /\ phase' = [phase EXCEPT ![q] = "done"]
        /\ pos' = [pos EXCEPT ![q] = N + 1] /\ UNCHANGED <<cur, out>>
    BY <1>6 DEF StepDone
  <2>2. ou = Upto(Pieces(q), (N + 1) - 1) /\ (N + 1) - 1 = N /\ N + 1 \in Nat
    BY <1>5, <2>1, SplitsCounted
  <2>. HIDE DEF po, cu, ou
  <2>3. Served(q, "done", N + 1, cu, ou)
    BY <2>2, PiecesAre DEF Served
  <2>. QED  BY <1>1, <1>2, <2>1, <2>2, <2>3, OneServed
<1>7. CASE StepNeedIo(q) \/ StepNeedCodec(q)
  <2>1. PICK k : k = Stop(q)
    OBVIOUS
  <2>2. Scanning(q) /\ pos' = [pos EXCEPT ![q] = k] /\ UNCHANGED <<phase, cur, out>>
    BY <1>7, <2>1 DEF StepNeedIo, StepNeedCodec
  <2>3. k \in 1 .. N + 1 /\ ou = Upto(Pieces(q), k - 1) /\ cu = <<>> /\ k \in Nat
    BY <1>5, <2>1, <2>2, SplitsCounted
  <2>4. ou \o cu = ou
    BY <1>1, <2>3
  <2>. HIDE DEF po, cu, ou
  <2>5. Served(q, "open", k, cu, ou)
    BY <1>3, <2>3, <2>4 DEF Served
  <2>6. k \in Nat /\ phase' = [phase EXCEPT ![q] = "open"] /\ cur' = [cur EXCEPT ![q] = cu]
        /\ out' = [out EXCEPT ![q] = ou]
    BY <1>1, <1>2, <2>2, <2>3
  <2>7. cu \in Seq(RowSet) /\ ou \in Seq(RowSet) /\ "open" \in Phases
        /\ pos' = [pos EXCEPT ![q] = k]
    BY <1>1, <1>2, <2>2
  <2>. QED  BY <2>5, <2>6, <2>7, OneServed
<1>8. CASE StepDecode(q)
  <2>1. PICK k : k = Stop(q)
    OBVIOUS
  <2>. DEFINE rows == RowsOf(q, k)
              c == Tail(rows)
              o == Append(ou, Head(rows))
  <2>2. /\ Scanning(q) /\ k <= N /\ MissingBytes(q, k) = {} /\ UNCHANGED phase
        /\ pos' = [pos EXCEPT ![q] = k + 1]
        /\ cur' = [cur EXCEPT ![q] = c] /\ out' = [out EXCEPT ![q] = o]
    BY <1>8, <2>1 DEF StepDecode
  <2>3. k \in 1 .. N + 1 /\ ou = Upto(Pieces(q), k - 1) /\ ~Passed(q, k)
    BY <1>5, <2>1, <2>2
  <2>4. k \in 1..N /\ k + 1 \in 1 .. N + 1 /\ k + 1 \in Nat /\ (k + 1) - 1 = k
    BY <2>2, <2>3, SplitsCounted
  <2>5. rows = Pieces(q)[k] /\ rows \in Seq(RowSet) /\ rows # <<>>
    BY <2>2, <2>3, <2>4, ReadIsWanted
  <2>. HIDE DEF rows, po, cu, ou
  <2>6. c \in Seq(RowSet) /\ o \in Seq(RowSet) /\ o \o c = ou \o rows
    <3>1. rows \in Seq(RowSet) /\ ou \in Seq(RowSet) /\ rows # <<>>
      BY <1>1, <2>5
    <3>. QED  BY <3>1, HeadMoves
  <2>7. Upto(Pieces(q), k) = Upto(Pieces(q), k - 1) \o Pieces(q)[k]
    BY <2>4, PiecesAre, UptoIs
  <2>. HIDE DEF c, o
  <2>8. Served(q, "open", k + 1, c, o)
    BY <1>3, <2>3, <2>4, <2>5, <2>6, <2>7 DEF Served
  <2>. QED  BY <1>1, <1>2, <2>2, <2>4, <2>6, <2>8, OneServed
<1>. QED  BY <1>4, <1>6, <1>7, <1>8 DEF Step

LEMMA CloseServes ==
    ASSUME RInv, NEW q \in Queries, Close(q)
    PROVE  RInv'
<1>. DEFINE po == pos[q]  cu == cur[q]  ou == out[q]
<1>1. /\ po \in Nat /\ cu \in Seq(RowSet) /\ ou \in Seq(RowSet)
      /\ pos = [pos EXCEPT ![q] = po] /\ out = [out EXCEPT ![q] = ou]
      /\ Served(q, phase[q], po, cu, ou)
  BY Standing
<1>2. phase' = [phase EXCEPT ![q] = "closed"] /\ cur' = [cur EXCEPT ![q] = <<>>]
      /\ UNCHANGED <<pos, out>> /\ phase[q] \in {"open", "done"}
  BY DEF Close, InSlot
<1>. HIDE DEF po, cu, ou
<1>3. <<>> \in Seq(RowSet) /\ \A x \in Seq(RowSet) : x \o <<>> = x
  OBVIOUS
<1>4. \E r \in Seq(RowSet) : Answer[q] = ou \o r
  <2>1. CASE phase[q] = "open"
    <3>1. po \in 1 .. N + 1 /\ ou \o cu = Upto(Pieces(q), po - 1)
      BY <1>1, <2>1 DEF Served
    <3>2. po \in 1 .. N + 1 /\ cu \in Seq(RowSet) /\ ou \in Seq(RowSet)
          /\ ou \o cu = Upto(Pieces(q), po - 1)
      BY <1>1, <3>1
    <3>3. \E r \in Seq(RowSet) : Answer[q] = ou \o (cu \o r) /\ cu \o r \in Seq(RowSet)
      BY <3>2, RestFollows
    <3>. QED  BY <3>3
  <2>2. CASE phase[q] = "done"
    BY <1>1, <1>3, <2>2 DEF Served
  <2>. QED  BY <1>2, <2>1, <2>2
<1>5. Served(q, "closed", po, <<>>, ou) /\ "closed" \in Phases
  BY <1>4 DEF Served, Phases
<1>. QED  BY <1>1, <1>2, <1>3, <1>5, OneServed

LEMMA InitServes == Init => RInv
<1>. SUFFICES ASSUME Init PROVE RInv
  OBVIOUS
<1>1. TypeOK
  BY DEF Init, TypeOK, Phases
<1>2. <<>> \in Seq(RowSet)
  OBVIOUS
<1>3. cur \in [Queries -> Seq(RowSet)] /\ out \in [Queries -> Seq(RowSet)]
  BY <1>2 DEF Init
<1>4. \A q \in Queries : Served(q, phase[q], pos[q], cur[q], out[q])
  BY DEF Init, Served
<1>. QED  BY <1>1, <1>3, <1>4 DEF RInv

LEMMA AllServed == Spec => []RInv
<1>1. RInv /\ [Next]_vars => RInv'
  <2>. SUFFICES ASSUME RInv, [Next]_vars PROVE RInv'
    OBVIOUS
  <2>1. ASSUME UNCHANGED <<phase, pos, cur, out>> PROVE RInv'
    <3>1. TypeOK'
      BY <2>1 DEF RInv, TypeOK
    <3>. QED  BY <2>1, <3>1 DEF RInv
  <2>2. ASSUME NEW r \in inflight, Provide(r[1], r[2]) PROVE RInv'
    BY <2>1, <2>2 DEF Provide
  <2>3. CASE UNCHANGED vars
    BY <2>1, <2>3 DEF vars
  <2>. QED  BY <2>2, <2>3, StartServes, StepServes, CloseServes DEF Next
<1>. QED  BY <1>1, InitServes, PTL DEF Spec

(* Every batch a statement has returned, and every COPY, is the rows its     *)
(* own statistics keep, in file order and each once, whatever the other      *)
(* statements fetch, inflate, settle and drop in between: a scan that is     *)
(* called again after a request never repeats or skips a row, and never      *)
(* decodes under the page selection another one left in the format.          *)
THEOREM RowsAreExact == Spec => []RowsExact
<1>. QED  BY AllServed, ServedIsExact, PTL
----------------------------------------------------------------------------
(* Every step is a step of a statement run alone, or none. *)

St(q, ph, ou) ==
    CASE ph = "new" -> "idle"
      [] ph \in {"preparing", "open"} -> "running"
      [] ph \in {"done", "failed"} -> "ended"
      [] ph = "closed" -> IF ou = Answer[q] THEN "ended" ELSE "abandoned"

LEMMA StIs ==
    \A q, ou :
        /\ St(q, "new", ou) = "idle"
        /\ St(q, "preparing", ou) = "running" /\ St(q, "open", ou) = "running"
        /\ St(q, "done", ou) = "ended" /\ St(q, "failed", ou) = "ended"
        /\ St(q, "closed", ou) = IF ou = Answer[q] THEN "ended" ELSE "abandoned"
BY DEF St

Status == [q \in Queries |-> St(q, phase[q], out[q])]

LEMMA Begins ==
    ASSUME NEW q \in Queries, Status[q] = "idle",
           Status' = [Status EXCEPT ![q] = "running"], out' = out
    PROVE  Alone!Begin(q)
BY Zenon DEF Alone!Begin, Status, St

LEMMA Returns ==
    ASSUME NEW q \in Queries, Kind[q] = "select", Status[q] = "running",
           Len(out[q]) < Len(Answer[q]),
           out' = [out EXCEPT ![q] = SubSeq(Answer[q], 1, Len(out[q]) + 1)], Status' = Status
    PROVE  Alone!Return(q)
<1>1. q \in {r \in Queries : Kind[r] = "select"}
  OBVIOUS
<1>. QED  BY <1>1, Zenon DEF Alone!Return, Status, St

LEMMA Finishes ==
    ASSUME NEW q \in Queries, Status[q] \in {"idle", "running"},
           Kind[q] = "select" => out[q] = Answer[q],
           out' = [out EXCEPT ![q] = Answer[q]], Status' = [Status EXCEPT ![q] = "ended"]
    PROVE  Alone!Finish(q)
<1>1. q \in {r \in Queries : Kind[r] = "select"} => Kind[q] = "select"
  OBVIOUS
<1>. QED  BY <1>1, Zenon DEF Alone!Finish, Status, St

LEMMA Fails ==
    ASSUME NEW q \in Queries, Status[q] \in {"idle", "running"},
           Kind[q] = "copy", NeedsCodec(q),
           Status' = [Status EXCEPT ![q] = "ended"], out' = out
    PROVE  Alone!Fail(q)
<1>1. q \in {r \in Queries : Kind[r] = "copy" /\ NeedsCodec(r)}
  OBVIOUS
<1>. QED  BY <1>1, Zenon DEF Alone!Fail, Status, St

LEMMA Rejects ==
    ASSUME NEW q \in Queries, Status[q] = "idle",
           Status' = [Status EXCEPT ![q] = "ended"], out' = out
    PROVE  Alone!Reject(q)
BY Zenon DEF Alone!Reject, Status, St

LEMMA Abandons ==
    ASSUME NEW q \in Queries, Status[q] = "running", Kind[q] = "select",
           Status' = [Status EXCEPT ![q] = "abandoned"], out' = out
    PROVE  Alone!Abandon(q)
<1>1. q \in {r \in Queries : Kind[r] = "select"}
  OBVIOUS
<1>. QED  BY <1>1, Zenon DEF Alone!Abandon, Status, St

LEMMA AloneSteps ==
    /\ \A q \in Queries : Alone!Begin(q) \/ Alone!Return(q) \/ Alone!Finish(q) \/ Alone!Fail(q)
                             \/ Alone!Reject(q) \/ Alone!Abandon(q) => [Alone!Next]_(Alone!stream)
    /\ Status' = Status /\ out' = out => [Alone!Next]_(Alone!stream)
<1>1. Status' = Status /\ out' = out => UNCHANGED Alone!stream
  BY Zenon DEF Alone!stream, Status, St
<1>. QED  BY <1>1 DEF Alone!Next, Alone!Run

\* A step of one statement changes the status of that one.
LEMMA StatusMoves ==
    ASSUME RInv, NEW q \in Queries, NEW p, NEW o,
           phase' = [phase EXCEPT ![q] = p], out' = [out EXCEPT ![q] = o]
    PROVE  /\ Status[q] = St(q, phase[q], out[q])
           /\ Status' = [Status EXCEPT ![q] = St(q, p, o)]
           /\ St(q, p, o) = Status[q] => Status' = Status
<1>1. phase \in [Queries -> Phases] /\ out \in [Queries -> Seq(RowSet)]
  BY DEF RInv, TypeOK
<1>2. \A r \in Queries : /\ phase'[r] = IF r = q THEN p ELSE phase[r]
                         /\ out'[r] = IF r = q THEN o ELSE out[r]
  BY <1>1
<1>3. Status = [r \in Queries |-> St(r, phase[r], out[r])]
      /\ Status' = [r \in Queries |-> St(r, phase'[r], out'[r])]
  BY DEF Status, St
<1>4. \A r \in Queries : St(r, phase'[r], out'[r]) = IF r = q THEN St(q, p, o) ELSE St(r, phase[r], out[r])
  BY <1>2
<1>5. Status' = [r \in Queries |-> IF r = q THEN St(q, p, o) ELSE St(r, phase[r], out[r])]
  BY <1>3, <1>4
<1>6. Status' = [Status EXCEPT ![q] = St(q, p, o)]
  BY <1>3, <1>5
<1>7. Status[q] = St(q, phase[q], out[q])
  BY <1>3
<1>8. St(q, p, o) = Status[q] => Status' = Status
  BY <1>3, <1>6
<1>. QED  BY <1>6, <1>7, <1>8

\* What is returned of a statement is one more row of its answer.
LEMMA OneMore ==
    ASSUME RInv, RInv', NEW q \in Queries, NEW x \in RowSet,
           phase'[q] = "open", out'[q] = Append(out[q], x)
    PROVE  Len(out[q]) < Len(Answer[q]) /\ out'[q] = SubSeq(Answer[q], 1, Len(out[q]) + 1)
<1>. DEFINE po == pos'[q]  cu == cur'[q]  ou == out'[q]
<1>1. Served(q, phase'[q], po, cu, ou) /\ cu \in Seq(RowSet) /\ ou \in Seq(RowSet)
  BY DEF RInv
<1>2. po \in 1 .. N + 1 /\ ou \o cu = Upto(Pieces(q), po - 1)
  BY <1>1 DEF Served
<1>3. out[q] \in Seq(RowSet)
  BY DEF RInv
<1>4. Len(ou) = Len(out[q]) + 1 /\ Len(out[q]) \in Nat
  BY <1>3
<1>. HIDE DEF po, cu, ou
<1>5. PICK r : Answer[q] = ou \o (cu \o r) /\ cu \o r \in Seq(RowSet)
  BY <1>1, <1>2, RestFollows
<1>6. Len(ou) <= Len(Answer[q]) /\ SubSeq(Answer[q], 1, Len(ou)) = ou
  BY <1>1, <1>5, StartIs
<1>7. Len(Answer[q]) \in Nat
  BY PiecesAre
<1>8. Len(out[q]) < Len(Answer[q])
  BY <1>4, <1>6, <1>7
<1>9. out'[q] = SubSeq(Answer[q], 1, Len(out[q]) + 1)
  BY <1>4, <1>6 DEF ou
<1>. QED  BY <1>8, <1>9

\* A COPY gives up for good only over a page it wants that is delegated.
LEMMA FailsForCause ==
    ASSUME NEW q \in Queries, CopyFails(q)
    PROVE  Kind[q] = "copy" /\ NeedsCodec(q)
<1>1. PICK n \in 1..N : ~Passed(q, n) /\ MissingBytes(q, n) = {} /\ PendingCodec(q, n) # {}
  BY DEF CopyFails
<1>2. Split(n).part \in Delegated /\ PagesRead(q, n) # {}
  BY <1>1 DEF PendingCodec
<1>3. PICK g \in AllPages(n) : Wanted(q, n, g)
  BY <1>1, <1>2, ReadIsWanted
<1>. QED  BY <1>2, <1>3 DEF NeedsCodec, CopyFails

LEMMA StartActsAlone ==
    ASSUME RInv, NEW q \in Queries, Start(q)
    PROVE  [Alone!Next]_(Alone!stream)
<1>1. out = [out EXCEPT ![q] = out[q]] /\ out[q] \in Seq(RowSet)
  BY Standing
<1>2. phase[q] \in {"new", "preparing"}
  BY DEF Start, StartBad, StartNeedIo, StartReady, CopyNeedIo, CopyFails, CopyCompletes
<1>3. ASSUME NEW p, NEW o, phase' = [phase EXCEPT ![q] = p], out' = [out EXCEPT ![q] = o]
      PROVE  /\ Status' = [Status EXCEPT ![q] = St(q, p, o)]
             /\ St(q, p, o) = Status[q] => Status' = Status
             /\ Status[q] = IF phase[q] = "new" THEN "idle" ELSE "running"
  <2>1. Status[q] = St(q, phase[q], out[q])
    BY <1>3, StatusMoves
  <2>2. Status[q] = IF phase[q] = "new" THEN "idle" ELSE "running"
    BY <1>2, <2>1 DEF St
  <2>. QED  BY <1>3, <2>2, StatusMoves
<1>4. CASE StartBad(q) \/ CopyFails(q)
  <2>1. phase' = [phase EXCEPT ![q] = "failed"] /\ out' = out
    BY <1>4 DEF StartBad, CopyFails
  <2>2. /\ Status' = [Status EXCEPT ![q] = St(q, "failed", out[q])]
        /\ Status[q] = IF phase[q] = "new" THEN "idle" ELSE "running"
    BY <1>1, <1>3, <2>1
  <2>3. Status' = [Status EXCEPT ![q] = "ended"]
    <3>1. St(q, "failed", out[q]) = "ended"
      BY StIs
    <3>. QED  BY <2>2, <3>1
  <2>4. CASE StartBad(q)
    BY <2>1, <2>2, <2>3, <2>4, Rejects, AloneSteps DEF StartBad
  <2>5. CASE CopyFails(q)
    BY <2>1, <2>2, <2>3, <2>5, FailsForCause, Fails, AloneSteps
  <2>. QED  BY <1>4, <2>4, <2>5
<1>5. CASE StartNeedIo(q) \/ CopyNeedIo(q) \/ StartReady(q)
  <2>1. PICK p \in {"preparing", "open"} : phase' = [phase EXCEPT ![q] = p] /\ out' = out
    BY <1>5 DEF StartNeedIo, CopyNeedIo, StartReady
  <2>2. St(q, p, out[q]) = "running"
    BY StIs
  <2>3. /\ Status' = [Status EXCEPT ![q] = St(q, p, out[q])]
        /\ St(q, p, out[q]) = Status[q] => Status' = Status
        /\ Status[q] \in {"idle", "running"}
    BY <1>1, <1>3, <2>1
  <2>4. Status' = [Status EXCEPT ![q] = "running"] /\ (Status[q] = "running" => Status' = Status)
        /\ Status[q] \in {"idle", "running"}
    BY <2>2, <2>3
  <2>. QED  BY <2>1, <2>4, Begins, AloneSteps
<1>6. CASE CopyCompletes(q)
  <2>1. /\ phase' = [phase EXCEPT ![q] = "done"] /\ Kind[q] = "copy"
        /\ out' = [out EXCEPT ![q] = Answer[q]]
    BY <1>6, CopiesAnswer DEF CopyCompletes
  <2>2. Status' = [Status EXCEPT ![q] = St(q, "done", Answer[q])] /\ Status[q] \in {"idle", "running"}
    BY <1>3, <2>1
  <2>3. Status' = [Status EXCEPT ![q] = "ended"]
    <3>1. St(q, "done", Answer[q]) = "ended"
      BY StIs
    <3>. QED  BY <2>2, <3>1
  <2>. QED  BY <2>1, <2>2, <2>3, Finishes, AloneSteps
<1>. QED  BY <1>4, <1>5, <1>6 DEF Start

LEMMA StepActsAlone ==
    ASSUME RInv, RInv', NEW q \in Queries, Step(q)
    PROVE  [Alone!Next]_(Alone!stream)
<1>1. /\ out = [out EXCEPT ![q] = out[q]] /\ phase = [phase EXCEPT ![q] = phase[q]]
      /\ out[q] \in Seq(RowSet) /\ cur[q] \in Seq(RowSet)
      /\ phase \in [Queries -> Phases] /\ out \in [Queries -> Seq(RowSet)]
  BY Standing DEF RInv, TypeOK
<1>2. phase[q] = "open" /\ Kind[q] = "select"
  <2>1. phase[q] = "open"
    BY DEF Step, StepRow, StepDone, StepNeedIo, StepNeedCodec, StepDecode, Scanning
  <2>. QED  BY <2>1, Standing DEF Served
<1>3. \A o : St(q, "open", o) = "running"
  BY DEF St
<1>4. ASSUME NEW o, phase' = phase, out' = [out EXCEPT ![q] = o]
      PROVE  Status' = Status /\ Status[q] = "running"
  <2>1. phase' = [phase EXCEPT ![q] = "open"]
    BY <1>1, <1>2, <1>4
  <2>2. Status[q] = St(q, phase[q], out[q]) /\ (St(q, "open", o) = Status[q] => Status' = Status)
    BY <1>4, <2>1, StatusMoves
  <2>. QED  BY <1>2, <1>3, <2>2
<1>5. CASE StepRow(q) \/ StepDecode(q)
  <2>1. PICK x \in RowSet : phase' = phase /\ out' = [out EXCEPT ![q] = Append(out[q], x)]
    <3>1. CASE StepRow(q)
      <4>1. Head(cur[q]) \in RowSet
        BY <1>1, <3>1 DEF StepRow
      <4>. QED  BY <3>1, <4>1 DEF StepRow
    <3>2. CASE StepDecode(q)
      <4>1. Scanning(q) /\ Stop(q) <= N /\ MissingBytes(q, Stop(q)) = {}
        BY <3>2 DEF StepDecode
      <4>2. Stop(q) \in 1 .. N + 1 /\ ~Passed(q, Stop(q))
        BY <4>1, AtStop
      <4>3. Stop(q) \in 1..N
        BY <4>1, <4>2, SplitsCounted
      <4>4. RowsOf(q, Stop(q)) \in Seq(RowSet) /\ RowsOf(q, Stop(q)) # <<>>
        BY <4>1, <4>2, <4>3, ReadIsWanted
      <4>5. Head(RowsOf(q, Stop(q))) \in RowSet
        BY <4>4
      <4>. QED  BY <3>2, <4>5 DEF StepDecode
    <3>. QED  BY <1>5, <3>1, <3>2
  <2>2. phase'[q] = "open" /\ out'[q] = Append(out[q], x)
    BY <1>1, <1>2, <2>1
  <2>3. Len(out[q]) < Len(Answer[q]) /\ out'[q] = SubSeq(Answer[q], 1, Len(out[q]) + 1)
    BY <2>2, OneMore
  <2>4. out' = [out EXCEPT ![q] = SubSeq(Answer[q], 1, Len(out[q]) + 1)]
    BY <2>1, <2>2, <2>3
  <2>5. Status' = Status /\ Status[q] = "running"
    BY <1>4, <2>1
  <2>. QED  BY <1>2, <2>3, <2>4, <2>5, Returns, AloneSteps
<1>6. CASE StepDone(q)
  <2>1. Scanning(q) /\ Stop(q) = N + 1 /\ phase' = [phase EXCEPT ![q] = "done"] /\ out' = out
    BY <1>6 DEF StepDone
  <2>2. out[q] = Upto(Pieces(q), (N + 1) - 1) /\ (N + 1) - 1 = N
    BY <2>1, AtStop, SplitsCounted
  <2>3. out[q] = Answer[q]
    BY <2>2, PiecesAre
  <2>4. out' = [out EXCEPT ![q] = Answer[q]]
    BY <1>1, <2>1, <2>3
  <2>5. /\ Status' = [Status EXCEPT ![q] = St(q, "done", Answer[q])]
        /\ Status[q] = St(q, phase[q], out[q])
    BY <2>1, <2>4, StatusMoves
  <2>6. Status' = [Status EXCEPT ![q] = "ended"]
    <3>1. St(q, "done", Answer[q]) = "ended"
      BY StIs
    <3>. QED  BY <2>5, <3>1
  <2>7. Status[q] \in {"idle", "running"}
    BY <1>2, <1>3, <2>5
  <2>. QED  BY <2>3, <2>4, <2>6, <2>7, Finishes, AloneSteps
<1>7. CASE StepNeedIo(q) \/ StepNeedCodec(q)
  <2>1. phase' = phase /\ out' = [out EXCEPT ![q] = out[q]] /\ out' = out
    BY <1>1, <1>7 DEF StepNeedIo, StepNeedCodec
  <2>. QED  BY <1>4, <2>1, AloneSteps
<1>. QED  BY <1>5, <1>6, <1>7 DEF Step

LEMMA CloseActsAlone ==
    ASSUME RInv, NEW q \in Queries, Close(q)
    PROVE  [Alone!Next]_(Alone!stream)
<1>1. /\ phase' = [phase EXCEPT ![q] = "closed"] /\ out' = out /\ out' = [out EXCEPT ![q] = out[q]]
      /\ phase[q] \in {"open", "done"}
  BY Standing DEF Close, InSlot
<1>2. /\ Status[q] = St(q, phase[q], out[q])
      /\ Status' = [Status EXCEPT ![q] = St(q, "closed", out[q])]
      /\ St(q, "closed", out[q]) = Status[q] => Status' = Status
  BY <1>1, StatusMoves
<1>3. out[q] = Answer[q] => St(q, "closed", out[q]) = "ended"
  BY DEF St
<1>4. CASE phase[q] = "done"
  <2>1. out[q] = Answer[q]
    BY <1>4, Standing DEF Served
  <2>2. Status[q] = "ended"
    BY <1>2, <1>4 DEF St
  <2>. QED  BY <1>1, <1>2, <1>3, <2>1, <2>2, AloneSteps
<1>5. CASE phase[q] = "open"
  <2>1. Status[q] = "running" /\ Kind[q] = "select"
    BY <1>2, <1>5, Standing DEF St, Served
  <2>2. CASE out[q] = Answer[q]
    BY <1>1, <1>2, <1>3, <2>1, <2>2, Finishes, AloneSteps
  <2>3. CASE out[q] # Answer[q]
    <3>1. St(q, "closed", out[q]) = "abandoned"
      BY <2>3 DEF St
    <3>. QED  BY <1>1, <1>2, <2>1, <3>1, Abandons, AloneSteps
  <2>. QED  BY <2>2, <2>3
<1>. QED  BY <1>1, <1>4, <1>5

(* Interleaved over shared bytes, shared inflated pages and a shared page    *)
(* selection, every step of the engine is a step of one statement run alone, *)
(* or no step of any: it begins, returns the next row of its own answer,     *)
(* ends with all of it, fails for a cause of its own, or is abandoned.       *)
THEOREM ActsAlone == Spec => Alone!Init /\ [][Alone!Next]_(Alone!stream)
<1>1. Init => Alone!Init
  BY DEF Init, Alone!Init
<1>2. RInv /\ RInv' /\ [Next]_vars => [Alone!Next]_(Alone!stream)
  <2>. SUFFICES ASSUME RInv, RInv', [Next]_vars PROVE [Alone!Next]_(Alone!stream)
    OBVIOUS
  <2>1. ASSUME phase' = phase, out' = out PROVE [Alone!Next]_(Alone!stream)
    <3>1. Status' = Status
      BY <2>1 DEF Status, St
    <3>. QED  BY <2>1, <3>1, AloneSteps
  <2>2. ASSUME NEW r \in inflight, Provide(r[1], r[2]) PROVE [Alone!Next]_(Alone!stream)
    BY <2>1, <2>2 DEF Provide
  <2>3. CASE UNCHANGED vars
    BY <2>1, <2>3 DEF vars
  <2>. QED  BY <2>2, <2>3, StartActsAlone, StepActsAlone, CloseActsAlone DEF Next
<1>. QED  BY <1>1, <1>2, AllServed, PTL DEF Spec
=============================================================================
