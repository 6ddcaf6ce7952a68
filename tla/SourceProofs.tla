---------------------------- MODULE SourceProofs ----------------------------
(***************************************************************************)
(* The chunk list of a source serves what was fetched and nothing else,    *)
(* for any file and any calls: insert keeps the chunks sorted, apart and   *)
(* equal to the file, and covers exactly one range more.                   *)
(***************************************************************************)
EXTENDS Source, FiniteSetTheorems, WellFoundedInduction, TLAPS

LEMMA Least ==
    ASSUME NEW T \in SUBSET Nat, T # {}
    PROVE  \E i \in T : \A j \in T : i <= j
<1>1. PICK i \in T : \A j \in T : ~ (<<j, i>> \in OpToRel(<, Nat))
  BY WFMin, NatLessThanWellFounded, Zenon
<1>2. \A j \in T : ~(j < i)
  BY <1>1 DEF OpToRel
<1>. QED  BY <1>2

LEMMA UpTo ==
    ASSUME NEW n \in Nat, NEW T, 0 \in T, \A i \in 1..n : i - 1 \in T => i \in T
    PROVE  0..n \subseteq T
<1>. DEFINE S == (0..n) \ T
<1>. SUFFICES ASSUME S # {} PROVE FALSE
  OBVIOUS
<1>1. S \in SUBSET Nat
  OBVIOUS
<1>2. PICK i \in S : \A j \in S : i <= j
  <2>. HIDE DEF S
  <2>. QED  BY <1>1, Least
<1>3. i \in 1..n /\ i - 1 \in 0..n
  BY <1>2
<1>. QED  BY <1>2, <1>3
-----------------------------------------------------------------------------
(* Bytes of the file, from some offset on. *)

Reads(u, s) == s \in Seq(Nat) /\ \A i \in 1..Len(s) : s[i] = u + i - 1

LEMMA FileBytesIs ==
    ASSUME NEW u \in Nat, NEW n \in Nat
    PROVE  Reads(u, FileBytes(u, n)) /\ Len(FileBytes(u, n)) = n
<1>1. \A i \in 1..n : u + i - 1 \in Nat
  OBVIOUS
<1>2. FileBytes(u, n) \in Seq(Nat) /\ Len(FileBytes(u, n)) = n
  BY <1>1 DEF FileBytes
<1>3. \A i \in 1..n : FileBytes(u, n)[i] = u + i - 1
  BY DEF FileBytes
<1>. QED  BY <1>2, <1>3 DEF Reads

LEMMA ReadsIs ==
    ASSUME NEW u \in Nat, NEW s, Reads(u, s)
    PROVE  s \in Seq(Nat) /\ Len(s) \in Nat /\ s = FileBytes(u, Len(s))
BY DEF Reads, FileBytes

LEMMA SameReads ==
    ASSUME NEW u \in Nat, NEW s, NEW t, Reads(u, s), Reads(u, t), Len(s) = Len(t)
    PROVE  s = t
BY ReadsIs

LEMMA PartReads ==
    ASSUME NEW v \in Nat, NEW t, Reads(v, t), NEW a \in 1..Len(t), NEW b \in 1..Len(t), a <= b
    PROVE  Reads(v + a - 1, SubSeq(t, a, b)) /\ Len(SubSeq(t, a, b)) = b - a + 1
<1>1. t \in Seq(Nat) /\ \A i \in 1..Len(t) : t[i] = v + i - 1
  BY DEF Reads
<1>2. /\ SubSeq(t, a, b) \in Seq(Nat) /\ Len(SubSeq(t, a, b)) = b - a + 1
      /\ \A i \in 1..(b - a + 1) : SubSeq(t, a, b)[i] = t[a + i - 1]
  BY <1>1
<1>3. \A i \in 1..(b - a + 1) : a + i - 1 \in 1..Len(t)
  BY <1>1
<1>4. \A i \in 1..(b - a + 1) : SubSeq(t, a, b)[i] = (v + a - 1) + i - 1
  BY <1>1, <1>2, <1>3
<1>. QED  BY <1>2, <1>4 DEF Reads

LEMMA TailReads ==
    ASSUME NEW v \in Nat, NEW t, Reads(v, t), NEW a \in Nat \ {0}
    PROVE  /\ Reads(v + a - 1, SubSeq(t, a, Len(t)))
           /\ a > Len(t) => Len(SubSeq(t, a, Len(t))) = 0
           /\ a <= Len(t) => Len(SubSeq(t, a, Len(t))) = Len(t) - a + 1
<1>1. t \in Seq(Nat) /\ Len(t) \in Nat
  BY DEF Reads
<1>2. CASE a > Len(t)
  <2>1. SubSeq(t, a, Len(t)) = <<>>
    BY <1>1, <1>2
  <2>2. <<>> \in Seq(Nat) /\ Len(<<>>) = 0
    OBVIOUS
  <2>3. Reads(v + a - 1, <<>>)
    BY <2>2 DEF Reads
  <2>4. ~(a <= Len(t))
    BY <1>1, <1>2
  <2>. QED  BY <2>1, <2>2, <2>3, <2>4
<1>3. CASE a <= Len(t)
  <2>1. a \in 1..Len(t) /\ Len(t) \in 1..Len(t) /\ ~(a > Len(t))
    BY <1>1, <1>3
  <2>. QED  BY <1>3, <2>1, PartReads
<1>. QED  BY <1>1, <1>2, <1>3

LEMMA FrontIs ==
    ASSUME NEW S, NEW s \in Seq(S), Len(s) # 0
    PROVE  /\ Front(s) \in Seq(S) /\ Len(Front(s)) = Len(s) - 1
           /\ \A k \in 1..(Len(s) - 1) : Front(s)[k] = s[k]
<1>. DEFINE n == Len(s)
<1>1. n \in Nat \ {0} /\ n = Len(s)
  OBVIOUS
<1>2. \A b \in 0..n : SubSeq(s, 1, b) \in Seq(S) /\ Len(SubSeq(s, 1, b)) = b
                      /\ \A k \in 1..b : SubSeq(s, 1, b)[k] = s[k]
  OBVIOUS
<1>. HIDE DEF n
<1>3. n - 1 \in 0..n
  BY <1>1
<1>. QED  BY <1>1, <1>2, <1>3 DEF Front

LEMMA JoinedIs ==
    ASSUME NEW S, NEW s \in Seq(S), NEW t \in Seq(S)
    PROVE  /\ s \o t \in Seq(S) /\ Len(s \o t) = Len(s) + Len(t)
           /\ \A i \in 1..Len(s) : (s \o t)[i] = s[i]
           /\ \A i \in 1..Len(t) : (s \o t)[Len(s) + i] = t[i]
OBVIOUS

LEMMA JoinedReads ==
    ASSUME NEW u \in Nat, NEW m \in Nat, NEW s, NEW t, Reads(u, s), Len(s) = m, Reads(u + m, t)
    PROVE  Reads(u, s \o t) /\ Len(s \o t) = m + Len(t)
<1>1. s \in Seq(Nat) /\ t \in Seq(Nat) /\ Len(t) \in Nat
  BY DEF Reads
<1>2. /\ s \o t \in Seq(Nat) /\ Len(s \o t) = m + Len(t)
      /\ \A i \in 1..m : (s \o t)[i] = s[i]
      /\ \A i \in 1..Len(t) : (s \o t)[m + i] = t[i]
  <2>1. /\ s \o t \in Seq(Nat) /\ Len(s \o t) = Len(s) + Len(t)
        /\ \A i \in 1..Len(s) : (s \o t)[i] = s[i]
        /\ \A i \in 1..Len(t) : (s \o t)[Len(s) + i] = t[i]
    <3>1. \A x, y \in Seq(Nat) :
             /\ x \o y \in Seq(Nat) /\ Len(x \o y) = Len(x) + Len(y)
             /\ \A i \in 1..Len(x) : (x \o y)[i] = x[i]
             /\ \A i \in 1..Len(y) : (x \o y)[Len(x) + i] = y[i]
      OBVIOUS
    <3>. QED  BY <1>1, <3>1
  <2>. QED  BY <2>1
<1>3. ASSUME NEW i \in 1..(m + Len(t)) PROVE (s \o t)[i] = u + i - 1
  <2>1. CASE i <= m
    <3>1. i \in 1..m
      BY <1>1, <2>1
    <3>. QED  BY <1>2, <3>1 DEF Reads
  <2>2. CASE i > m
    <3>1. PICK j \in 1..Len(t) : i = m + j
      <4>1. i - m \in 1..Len(t) /\ i = m + (i - m)
        BY <1>1, <2>2
      <4>. QED  BY <4>1
    <3>2. t[j] = (u + m) + j - 1
      BY DEF Reads
    <3>3. (s \o t)[i] = t[j]
      BY <1>2, <3>1
    <3>. QED  BY <3>1, <3>2, <3>3
  <2>. QED  BY <1>1, <2>1, <2>2
<1>. QED  BY <1>2, <1>3 DEF Reads
-----------------------------------------------------------------------------
(* Chunks and lists of chunks. *)

ChunkSet == {c \in [off : Nat, data : Seq(Nat)] : Reads(c.off, c.data) /\ End(c) <= U64Max}
Spot(c) == c.off .. End(c) - 1
Covered(cs) == UNION {Spot(c) : c \in Range(cs)}
Apart(cs) == \A i, j \in 1..Len(cs) : i < j => End(cs[i]) < cs[j].off
Sorted(cs) == \A i, j \in 1..Len(cs) : i < j => cs[i].off <= cs[j].off
ListOK(cs) == cs \in Seq(ChunkSet) /\ Apart(cs)

LEMMA ChunkIs ==
    ASSUME NEW c \in ChunkSet
    PROVE  /\ c.off \in Nat /\ Reads(c.off, c.data) /\ Len(c.data) \in Nat
           /\ End(c) = c.off + Len(c.data) /\ End(c) \in Nat /\ End(c) <= U64Max
           /\ c = [off |-> c.off, data |-> c.data]
BY DEF ChunkSet, End

LEMMA IsChunk ==
    ASSUME NEW off \in Nat, NEW data, Reads(off, data), off + Len(data) <= U64Max
    PROVE  [off |-> off, data |-> data] \in ChunkSet
BY ReadsIs DEF ChunkSet, End

LEMMA CoveredIs ==
    ASSUME NEW cs \in Seq(ChunkSet)
    PROVE  \A i : i \in Covered(cs) <=>
                    i \in Int /\ \E k \in 1..Len(cs) : cs[k].off <= i /\ i < End(cs[k])
<1>1. \A k \in 1..Len(cs) : cs[k] \in ChunkSet
  OBVIOUS
<1>2. \A k \in 1..Len(cs) : \A i : i \in Spot(cs[k]) <=> i \in Int /\ cs[k].off <= i /\ i < End(cs[k])
  BY <1>1, ChunkIs DEF Spot
<1>3. \A i : i \in Covered(cs) <=> \E k \in 1..Len(cs) : i \in Spot(cs[k])
  BY DEF Covered, Range
<1>. QED  BY <1>2, <1>3

\* A chunk that overlaps or touches the one before it becomes part of it.
Extended(p, c) == [p EXCEPT !.data = @ \o SubSeq(c.data, End(p) - c.off + 1, Len(c.data))]

LEMMA ExtendedIs ==
    ASSUME NEW p \in ChunkSet, NEW c \in ChunkSet, p.off <= c.off, c.off <= End(p)
    PROVE  /\ Extended(p, c) \in ChunkSet /\ Extended(p, c).off = p.off
           /\ End(c) > End(p) => End(Extended(p, c)) = End(c)
           /\ End(c) <= End(p) => End(Extended(p, c)) = End(p)
<1>. DEFINE tail == SubSeq(c.data, End(p) - c.off + 1, Len(c.data))
            d == p.data \o tail
<1>1. /\ p.off \in Nat /\ Reads(p.off, p.data) /\ Len(p.data) \in Nat /\ End(p) = p.off + Len(p.data)
      /\ c.off \in Nat /\ Reads(c.off, c.data) /\ Len(c.data) \in Nat /\ End(c) = c.off + Len(c.data)
      /\ End(p) <= U64Max /\ End(c) <= U64Max
      /\ p = [off |-> p.off, data |-> p.data]
  BY ChunkIs
<1>2. Extended(p, c) = [off |-> p.off, data |-> d]
  <2>1. \A x : [p EXCEPT !.data = x] = [off |-> p.off, data |-> x]
    BY <1>1
  <2>2. Extended(p, c) = [p EXCEPT !.data = d]
    BY DEF Extended
  <2>. QED  BY <2>1, <2>2
<1>3. PICK a \in Nat \ {0} : a = End(p) - c.off + 1
  BY <1>1
<1>4. /\ Reads(c.off + a - 1, tail)
      /\ a > Len(c.data) => Len(tail) = 0
      /\ a <= Len(c.data) => Len(tail) = Len(c.data) - a + 1
  BY <1>1, <1>3, TailReads
<1>. HIDE DEF tail
<1>5. c.off + a - 1 = p.off + Len(p.data)
  BY <1>1, <1>3
<1>6. Reads(p.off, d) /\ Len(d) = Len(p.data) + Len(tail)
  <2>1. Reads(p.off + Len(p.data), tail)
    BY <1>4, <1>5
  <2>. QED  BY <1>1, <2>1, JoinedReads
<1>. HIDE DEF d
<1>7. /\ End(c) > End(p) => p.off + Len(d) = End(c)
      /\ End(c) <= End(p) => p.off + Len(d) = End(p)
  <2>. DEFINE o == p.off  l == Len(p.data)  v == c.off  k == Len(c.data)  n == Len(tail)  z == Len(d)
  <2>1. /\ o \in Nat /\ l \in Nat /\ v \in Nat /\ k \in Nat
        /\ a = (o + l) - v + 1 /\ z = l + n
        /\ (a > k => n = 0) /\ (a <= k => n = k - a + 1)
        /\ End(p) = o + l /\ End(c) = v + k
    BY <1>1, <1>3, <1>4, <1>6
  <2>. HIDE DEF o, l, v, k, n, z
  <2>2. (v + k > o + l => o + z = v + k) /\ (v + k <= o + l => o + z = o + l)
    BY <2>1
  <2>3. o + z = p.off + Len(d)
    BY DEF o, z
  <2>. QED  BY <2>1, <2>2, <2>3
<1>8. p.off + Len(d) <= U64Max
  BY <1>1, <1>7
<1>9. Extended(p, c) \in ChunkSet
  BY <1>1, <1>2, <1>6, <1>8, IsChunk
<1>10. Extended(p, c).off = p.off /\ End(Extended(p, c)) = p.off + Len(d)
  BY <1>2 DEF End
<1>. QED  BY <1>7, <1>9, <1>10

LEMMA SpotIs ==
    ASSUME NEW c \in ChunkSet
    PROVE  \A i : i \in Spot(c) <=> i \in Int /\ c.off <= i /\ i < End(c)
BY ChunkIs DEF Spot

\* One turn of the merge loop: the list stays apart and covers one chunk more.
LEMMA MergeStepIs ==
    ASSUME NEW cs, ListOK(cs), NEW c \in ChunkSet, cs # <<>> => cs[Len(cs)].off <= c.off
    PROVE  /\ ListOK(MergeStep(cs, c))
           /\ Covered(MergeStep(cs, c)) = Covered(cs) \cup Spot(c)
           /\ MergeStep(cs, c) # <<>> /\ MergeStep(cs, c)[Len(MergeStep(cs, c))].off <= c.off
<1>. DEFINE n == Len(cs)
            next == MergeStep(cs, c)
<1>1. cs \in Seq(ChunkSet) /\ n \in Nat /\ Apart(cs) /\ (cs # <<>> <=> n # 0)
  BY DEF ListOK
<1>2. \A k \in 1..n : cs[k] \in ChunkSet /\ cs[k].off \in Nat /\ End(cs[k]) \in Nat /\ cs[k].off <= End(cs[k])
  <2>1. \A k \in 1..n : cs[k] \in ChunkSet
    BY <1>1
  <2>2. \A d \in ChunkSet : d.off \in Nat /\ End(d) \in Nat /\ d.off <= End(d)
    BY ChunkIs
  <2>. QED  BY <2>1, <2>2
<1>3. c.off \in Nat /\ End(c) \in Nat /\ c.off <= End(c)
  BY ChunkIs
<1>4. CASE n # 0 /\ c.off <= End(cs[n])
  <2>. DEFINE p == cs[n]
              q == Extended(p, c)
  <2>1. n \in 1..n /\ p \in ChunkSet /\ p.off <= c.off
    BY <1>1, <1>2, <1>4
  <2>2. /\ q \in ChunkSet /\ q.off = p.off
        /\ End(c) > End(p) => End(q) = End(c)
        /\ End(c) <= End(p) => End(q) = End(p)
    BY <1>4, <2>1, ExtendedIs
  <2>3. next = [cs EXCEPT ![n] = q]
    <3>1. next = Front(cs) \o <<q>>
      BY <1>1, <1>4 DEF MergeStep, Last, Extended
    <3>. HIDE DEF q
    <3>2. Front(cs) = [k \in 1..(n - 1) |-> cs[k]]
      <4>1. Front(cs) \in Seq(ChunkSet) /\ Len(Front(cs)) = n - 1 /\ \A k \in 1..(n - 1) : Front(cs)[k] = cs[k]
        BY <1>1, <1>4, FrontIs
      <4>. QED  BY <4>1
    <3>3. Front(cs) \in Seq(ChunkSet) /\ Len(Front(cs)) = n - 1
      BY <1>1, <1>2, <1>4, <3>2
    <3>4. Len(<<q>>) = 1 /\ <<q>>[1] = q
      OBVIOUS
    <3>5. next = [k \in 1..n |-> IF k = n THEN q ELSE cs[k]]
      <4>1. /\ next \in Seq(ChunkSet) /\ Len(next) = (n - 1) + 1
            /\ \A k \in 1..(n - 1) : next[k] = Front(cs)[k]
            /\ \A k \in 1..1 : next[(n - 1) + k] = <<q>>[k]
        <5>1. <<q>> \in Seq(ChunkSet)
          BY <2>2
        <5>. HIDE DEF next, n
        <5>. QED  BY <3>1, <3>3, <3>4, <5>1, JoinedIs
      <4>. HIDE DEF next
      <4>2. next = [k \in 1..n |-> next[k]]
        BY <1>1, <4>1
      <4>3. \A k \in 1..n : next[k] = IF k = n THEN q ELSE cs[k]
        <5>1. next[(n - 1) + 1] = q
          BY <3>4, <4>1
        <5>2. \A k \in 1..(n - 1) : next[k] = cs[k]
          BY <3>2, <4>1
        <5>. QED  BY <1>1, <5>1, <5>2
      <4>. QED  BY <4>2, <4>3
    <3>6. cs = [k \in 1..n |-> cs[k]]
      BY <1>1
    <3>. QED  BY <3>5, <3>6
  <2>. HIDE DEF next, q
  <2>4. /\ next \in Seq(ChunkSet) /\ Len(next) = n /\ next[n] = q
        /\ \A k \in 1..n : k # n => next[k] = cs[k]
    BY <1>1, <1>4, <2>2, <2>3
  <2>5. Apart(next)
    <3>. SUFFICES ASSUME NEW i \in 1..n, NEW j \in 1..n, i < j PROVE End(next[i]) < next[j].off
      BY <2>4 DEF Apart
    <3>1. next[i] = cs[i] /\ next[j].off = cs[j].off
      BY <1>1, <2>2, <2>4
    <3>. QED  BY <1>1, <3>1 DEF Apart
  <2>6. ASSUME NEW i \in Int
        PROVE  (i \in Covered(next)) <=> (i \in Covered(cs) \/ i \in Spot(c))
    <3>1. i \in Covered(next) <=> \E k \in 1..n : next[k].off <= i /\ i < End(next[k])
      BY <2>4, CoveredIs
    <3>2. i \in Covered(cs) <=> \E k \in 1..n : cs[k].off <= i /\ i < End(cs[k])
      BY <1>1, CoveredIs
    <3>3. i \in Spot(c) <=> c.off <= i /\ i < End(c)
      BY SpotIs
    <3>4. (q.off <= i /\ i < End(q)) <=> ((p.off <= i /\ i < End(p)) \/ (c.off <= i /\ i < End(c)))
      BY <1>2, <1>3, <1>4, <2>1, <2>2
    <3>5. \A k \in 1..n : k # n => next[k] = cs[k]
      BY <2>4
    <3>. HIDE DEF p
    <3>6. next[n] = q /\ cs[n] = p /\ n \in 1..n
      BY <2>1, <2>4 DEF p
    <3>. HIDE DEF n
    <3>7. (\E k \in 1..n : next[k].off <= i /\ i < End(next[k])) <=>
             \/ q.off <= i /\ i < End(q)
             \/ \E k \in 1..n : k # n /\ cs[k].off <= i /\ i < End(cs[k])
      BY <3>5, <3>6, Zenon
    <3>8. (\E k \in 1..n : cs[k].off <= i /\ i < End(cs[k])) <=>
             \/ p.off <= i /\ i < End(p)
             \/ \E k \in 1..n : k # n /\ cs[k].off <= i /\ i < End(cs[k])
      BY <3>6, Zenon
    <3>. QED  BY <3>1, <3>2, <3>3, <3>4, <3>7, <3>8, Zenon
  <2>7. Covered(next) = Covered(cs) \cup Spot(c)
    <3>1. \A i : i \in Covered(next) => i \in Int
      BY <2>4, CoveredIs
    <3>2. \A i : i \in Covered(cs) => i \in Int
      BY <1>1, CoveredIs
    <3>3. \A i : i \in Spot(c) => i \in Int
      BY SpotIs
    <3>. QED  BY <2>6, <3>1, <3>2, <3>3
  <2>8. next # <<>> /\ next[Len(next)].off <= c.off
    BY <1>4, <2>1, <2>2, <2>4
  <2>. QED  BY <2>4, <2>5, <2>7, <2>8 DEF ListOK, next
<1>5. CASE ~(n # 0 /\ c.off <= End(cs[n]))
  <2>1. next = Append(cs, c)
    BY <1>1, <1>5 DEF MergeStep, Last
  <2>. HIDE DEF next
  <2>2. /\ next \in Seq(ChunkSet) /\ Len(next) = n + 1 /\ next[n + 1] = c
        /\ \A k \in 1..n : next[k] = cs[k]
    BY <1>1, <2>1
  <2>. HIDE DEF n
  <2>3. \A k \in 1..n : End(cs[k]) < c.off
    <3>. SUFFICES ASSUME NEW k \in 1..n PROVE End(cs[k]) < c.off
      OBVIOUS
    <3>1. n \in 1..n /\ End(cs[n]) < c.off
      BY <1>1, <1>2, <1>3, <1>5
    <3>2. k < n => End(cs[k]) < cs[n].off
      BY <1>1, <3>1 DEF Apart, n
    <3>3. k = n \/ k < n
      BY <1>1
    <3>. QED  BY <1>2, <1>3, <3>1, <3>2, <3>3
  <2>4. Apart(next)
    <3>. SUFFICES ASSUME NEW i \in 1..(n + 1), NEW j \in 1..(n + 1), i < j
                  PROVE  End(next[i]) < next[j].off
      BY <2>2 DEF Apart
    <3>1. i \in 1..n /\ (j \in 1..n \/ j = n + 1)
      BY <1>1
    <3>. QED  BY <1>1, <2>2, <2>3, <3>1 DEF Apart, n
  <2>5. ASSUME NEW i \in Int
        PROVE  (i \in Covered(next)) <=> (i \in Covered(cs) \/ i \in Spot(c))
    <3>1. i \in Covered(next) <=> \E k \in 1..(n + 1) : next[k].off <= i /\ i < End(next[k])
      BY <2>2, CoveredIs
    <3>2. i \in Covered(cs) <=> \E k \in 1..n : cs[k].off <= i /\ i < End(cs[k])
      BY <1>1, CoveredIs DEF n
    <3>3. i \in Spot(c) <=> c.off <= i /\ i < End(c)
      BY SpotIs
    <3>4. 1..(n + 1) = (1..n) \cup {n + 1}
      BY <1>1
    <3>. QED  BY <2>2, <3>1, <3>2, <3>3, <3>4, Zenon
  <2>6. Covered(next) = Covered(cs) \cup Spot(c)
    <3>1. \A i : i \in Covered(next) => i \in Int
      BY <2>2, CoveredIs
    <3>2. \A i : i \in Covered(cs) => i \in Int
      BY <1>1, CoveredIs
    <3>3. \A i : i \in Spot(c) => i \in Int
      BY SpotIs
    <3>. QED  BY <2>5, <3>1, <3>2, <3>3
  <2>7. next # <<>> /\ next[Len(next)].off <= c.off
    BY <1>1, <1>3, <2>2
  <2>. QED  BY <2>2, <2>4, <2>6, <2>7 DEF ListOK, next
<1>. QED  BY <1>4, <1>5

LEMMA InsertAtIs ==
    ASSUME NEW s \in Seq(ChunkSet), NEW k \in 1..(Len(s) + 1), NEW e \in ChunkSet
    PROVE  /\ InsertAt(s, k, e) \in Seq(ChunkSet) /\ Len(InsertAt(s, k, e)) = Len(s) + 1
           /\ InsertAt(s, k, e)[k] = e
           /\ \A j \in 1..Len(s) : j < k => InsertAt(s, k, e)[j] = s[j]
           /\ \A j \in 1..Len(s) : k <= j => InsertAt(s, k, e)[j + 1] = s[j]
<1>. DEFINE n == Len(s)
            before == SubSeq(s, 1, k - 1)
            after == SubSeq(s, k, n)
            t == before \o <<e>>
            all == t \o after
<1>1. n \in Nat /\ k \in 1..(n + 1) /\ n = Len(s)
  OBVIOUS
<1>2. all = InsertAt(s, k, e)
  BY DEF InsertAt
<1>3. before \in Seq(ChunkSet) /\ Len(before) = k - 1 /\ \A j \in 1..(k - 1) : before[j] = s[j]
  <2>1. \A b \in 0..n : SubSeq(s, 1, b) \in Seq(ChunkSet) /\ Len(SubSeq(s, 1, b)) = b
                        /\ \A j \in 1..b : SubSeq(s, 1, b)[j] = s[j]
    OBVIOUS
  <2>2. k - 1 \in 0..n
    BY <1>1
  <2>. HIDE DEF n
  <2>. QED  BY <2>1, <2>2
<1>4. /\ after \in Seq(ChunkSet) /\ Len(after) = n - k + 1
      /\ \A j \in 1..(n - k + 1) : after[j] = s[k + j - 1]
  <2>1. CASE k = n + 1
    <3>1. after = <<>> /\ n - k + 1 = 0
      BY <1>1, <2>1
    <3>2. <<>> \in Seq(ChunkSet) /\ Len(<<>>) = 0 /\ 1..0 = {}
      OBVIOUS
    <3>. QED  BY <3>1, <3>2
  <2>2. CASE k # n + 1
    <3>1. k \in 1..n /\ n \in 1..n
      BY <1>1, <2>2
    <3>2. \A a, b \in 1..n : a <= b =>
              /\ SubSeq(s, a, b) \in Seq(ChunkSet) /\ Len(SubSeq(s, a, b)) = b - a + 1
              /\ \A j \in 1..(b - a + 1) : SubSeq(s, a, b)[j] = s[a + j - 1]
      OBVIOUS
    <3>3. k <= n
      BY <3>1
    <3>. HIDE DEF n
    <3>. QED  BY <3>1, <3>2, <3>3
  <2>. QED  BY <2>1, <2>2
<1>. HIDE DEF before, after
<1>5. /\ t \in Seq(ChunkSet) /\ Len(t) = k
      /\ t[k] = e /\ \A j \in 1..(k - 1) : t[j] = s[j]
  <2>1. \A x \in Seq(ChunkSet) : /\ x \o <<e>> \in Seq(ChunkSet) /\ Len(x \o <<e>>) = Len(x) + 1
                                 /\ (x \o <<e>>)[Len(x) + 1] = e
                                 /\ \A j \in 1..Len(x) : (x \o <<e>>)[j] = x[j]
    OBVIOUS
  <2>2. (k - 1) + 1 = k
    BY <1>1
  <2>3. /\ t \in Seq(ChunkSet) /\ Len(t) = (k - 1) + 1 /\ t[(k - 1) + 1] = e
        /\ \A j \in 1..(k - 1) : t[j] = before[j]
    BY <1>3, <2>1
  <2>. HIDE DEF t
  <2>. QED  BY <1>3, <2>2, <2>3
<1>. HIDE DEF t
<1>6. /\ all \in Seq(ChunkSet) /\ Len(all) = k + (n - k + 1)
      /\ \A j \in 1..k : all[j] = t[j]
      /\ \A j \in 1..(n - k + 1) : all[k + j] = after[j]
  <2>1. \A x, y \in Seq(ChunkSet) :
            /\ x \o y \in Seq(ChunkSet) /\ Len(x \o y) = Len(x) + Len(y)
            /\ \A i \in 1..Len(x) : (x \o y)[i] = x[i]
            /\ \A i \in 1..Len(y) : (x \o y)[Len(x) + i] = y[i]
    OBVIOUS
  <2>2. /\ all \in Seq(ChunkSet) /\ Len(all) = Len(t) + Len(after)
        /\ \A i \in 1..Len(t) : all[i] = t[i]
        /\ \A i \in 1..Len(after) : all[Len(t) + i] = after[i]
    BY <1>4, <1>5, <2>1
  <2>. HIDE DEF all
  <2>. QED  BY <1>4, <1>5, <2>2
<1>. HIDE DEF all, n
<1>7. Len(all) = n + 1 /\ all[k] = e
  BY <1>1, <1>5, <1>6
<1>8. ASSUME NEW j \in 1..n, j < k PROVE all[j] = s[j]
  <2>1. j \in 1..(k - 1) /\ j \in 1..k
    BY <1>1, <1>8
  <2>. QED  BY <1>5, <1>6, <2>1
<1>9. ASSUME NEW j \in 1..n, k <= j PROVE all[j + 1] = s[j]
  <2>1. PICK i \in 1..(n - k + 1) : j = k + i - 1 /\ j + 1 = k + i
    <3>1. j - k + 1 \in 1..(n - k + 1) /\ j = k + (j - k + 1) - 1 /\ j + 1 = k + (j - k + 1)
      BY <1>1, <1>9
    <3>. QED  BY <3>1
  <2>2. all[k + i] = after[i] /\ after[i] = s[k + i - 1]
    BY <1>4, <1>6
  <2>. QED  BY <2>1, <2>2
<1>. QED  BY <1>2, <1>6, <1>7, <1>8, <1>9 DEF n

\* The list after the push and the stable sort.
LEMMA PushSortedIs ==
    ASSUME NEW cs, ListOK(cs), NEW c \in ChunkSet
    PROVE  /\ PushSorted(cs, c) \in Seq(ChunkSet) /\ Sorted(PushSorted(cs, c))
           /\ PushSorted(cs, c) # <<>>
           /\ Covered(PushSorted(cs, c)) = Covered(cs) \cup Spot(c)
<1>. DEFINE n == Len(cs)
            later == {k \in 1..(n + 1) : k \in DOMAIN cs => cs[k].off > c.off}
            k == CHOOSE x \in later : \A y \in later : x <= y
            ps == InsertAt(cs, k, c)
<1>1. cs \in Seq(ChunkSet) /\ n \in Nat /\ Apart(cs) /\ DOMAIN cs = 1..n
  BY DEF ListOK
<1>2. \A j \in 1..n : cs[j].off \in Nat /\ End(cs[j]) \in Nat /\ cs[j].off <= End(cs[j])
  <2>1. \A j \in 1..n : cs[j] \in ChunkSet
    BY <1>1
  <2>2. \A d \in ChunkSet : d.off \in Nat /\ End(d) \in Nat /\ d.off <= End(d)
    BY ChunkIs
  <2>. QED  BY <2>1, <2>2
<1>3. c.off \in Nat
  BY ChunkIs
<1>4. PushSorted(cs, c) = ps
  BY DEF PushSorted, Min
<1>5. k \in later /\ \A y \in later : k <= y
  <2>1. n + 1 \in 1..(n + 1) /\ n + 1 \notin 1..n
    BY <1>1
  <2>2. n + 1 \in later /\ later \in SUBSET Nat
    BY <1>1, <2>1
  <2>3. \E x \in later : \A y \in later : x <= y
    <3>. HIDE DEF later
    <3>. QED  BY <2>2, Least
  <2>. HIDE DEF later
  <2>. QED  BY <2>3
<1>. HIDE DEF k
<1>6. k \in 1..(n + 1) /\ (k \in 1..n => cs[k].off > c.off)
  BY <1>1, <1>5
<1>7. \A j \in 1..n : j < k => cs[j].off <= c.off
  <2>. SUFFICES ASSUME NEW j \in 1..n, j < k PROVE cs[j].off <= c.off
    OBVIOUS
  <2>1. j \notin later
    BY <1>5, <1>6
  <2>. QED  BY <1>1, <1>2, <1>3, <2>1
<1>8. /\ ps \in Seq(ChunkSet) /\ Len(ps) = n + 1 /\ ps[k] = c
      /\ \A j \in 1..n : j < k => ps[j] = cs[j]
      /\ \A j \in 1..n : k <= j => ps[j + 1] = cs[j]
  BY <1>1, <1>6, InsertAtIs
<1>. HIDE DEF ps, n
<1>9. \A i, j \in 1..n : i < j => cs[i].off < cs[j].off
  <2>. SUFFICES ASSUME NEW i \in 1..n, NEW j \in 1..n, i < j PROVE cs[i].off < cs[j].off
    OBVIOUS
  <2>1. End(cs[i]) < cs[j].off
    BY <1>1 DEF Apart, n
  <2>. QED  BY <1>2, <2>1
<1>10. \A j \in 1..n : k <= j => cs[j].off > c.off
  <2>. SUFFICES ASSUME NEW j \in 1..n, k <= j PROVE cs[j].off > c.off
    OBVIOUS
  <2>1. k \in 1..n /\ (k = j \/ k < j)
    BY <1>1, <1>6
  <2>. QED  BY <1>2, <1>3, <1>6, <1>9, <2>1
<1>11. ASSUME NEW j \in 1..(n + 1)
       PROVE  \/ j < k /\ j \in 1..n /\ ps[j] = cs[j]
              \/ j = k
              \/ k < j /\ j - 1 \in 1..n /\ k <= j - 1 /\ ps[j] = cs[j - 1]
  <2>1. CASE j < k
    BY <1>1, <1>6, <1>8, <2>1
  <2>2. CASE k < j
    <3>1. PICK i \in 1..n : j = i + 1 /\ k <= i
      <4>1. j - 1 \in 1..n /\ j = (j - 1) + 1 /\ k <= j - 1
        BY <1>1, <1>6, <2>2
      <4>. QED  BY <4>1
    <3>2. j - 1 = i /\ ps[j] = cs[i]
      BY <1>8, <3>1
    <3>. QED  BY <2>2, <3>1, <3>2
  <2>. QED  BY <1>1, <1>6, <2>1, <2>2
<1>12. Sorted(ps)
  <2>. SUFFICES ASSUME NEW i \in 1..(n + 1), NEW j \in 1..(n + 1), i < j PROVE ps[i].off <= ps[j].off
    BY <1>8 DEF Sorted
  <2>1. CASE i < k
    <3>1. i \in 1..n /\ ps[i] = cs[i]
      BY <1>11, <1>6, <1>1, <2>1
    <3>2. CASE j < k
      BY <1>11, <1>6, <1>1, <1>2, <1>9, <3>1, <3>2
    <3>3. CASE j = k
      BY <1>7, <1>8, <2>1, <3>1, <3>3
    <3>4. CASE k < j
      <4>1. j - 1 \in 1..n /\ k <= j - 1 /\ ps[j] = cs[j - 1]
        BY <1>11, <1>6, <1>1, <3>4
      <4>2. i < j - 1
        BY <1>1, <1>6, <2>1, <4>1
      <4>. QED  BY <1>2, <1>9, <3>1, <4>1, <4>2
    <3>. QED  BY <1>1, <1>6, <3>2, <3>3, <3>4
  <2>2. CASE i = k
    <3>1. j - 1 \in 1..n /\ k <= j - 1 /\ ps[j] = cs[j - 1]
      BY <1>11, <1>6, <1>1, <2>2
    <3>. QED  BY <1>2, <1>3, <1>8, <1>10, <2>2, <3>1
  <2>3. CASE k < i
    <3>1. i - 1 \in 1..n /\ ps[i] = cs[i - 1] /\ j - 1 \in 1..n /\ ps[j] = cs[j - 1] /\ i - 1 < j - 1
      BY <1>11, <1>6, <1>1, <2>3
    <3>. QED  BY <1>2, <1>9, <3>1
  <2>. QED  BY <1>1, <1>6, <2>1, <2>2, <2>3
<1>13. ASSUME NEW i \in Int
       PROVE  i \in Covered(ps) <=> (i \in Covered(cs) \/ i \in Spot(c))
  <2>1. i \in Covered(ps) <=> \E j \in 1..(n + 1) : ps[j].off <= i /\ i < End(ps[j])
    BY <1>8, CoveredIs
  <2>2. i \in Covered(cs) <=> \E j \in 1..n : cs[j].off <= i /\ i < End(cs[j])
    BY <1>1, CoveredIs DEF n
  <2>3. i \in Spot(c) <=> c.off <= i /\ i < End(c)
    BY SpotIs
  <2>4. \A j \in 1..n : \E m \in 1..(n + 1) : ps[m] = cs[j]
    <3>. SUFFICES ASSUME NEW j \in 1..n PROVE \E m \in 1..(n + 1) : ps[m] = cs[j]
      OBVIOUS
    <3>1. j \in 1..(n + 1) /\ j + 1 \in 1..(n + 1) /\ (j < k \/ k <= j)
      BY <1>1, <1>6
    <3>. QED  BY <1>8, <3>1
  <2>5. \A m \in 1..(n + 1) : ps[m] = c \/ \E j \in 1..n : ps[m] = cs[j]
    BY <1>8, <1>11
  <2>6. k \in 1..(n + 1) /\ ps[k] = c
    BY <1>6, <1>8
  <2>7. (\E m \in 1..(n + 1) : ps[m].off <= i /\ i < End(ps[m])) <=>
           \/ c.off <= i /\ i < End(c)
           \/ \E j \in 1..n : cs[j].off <= i /\ i < End(cs[j])
    <3>1. ASSUME NEW m \in 1..(n + 1), ps[m].off <= i, i < End(ps[m])
          PROVE  \/ c.off <= i /\ i < End(c)
                 \/ \E j \in 1..n : cs[j].off <= i /\ i < End(cs[j])
      BY <2>5, <3>1, Zenon
    <3>2. ASSUME NEW j \in 1..n, cs[j].off <= i, i < End(cs[j])
          PROVE  \E m \in 1..(n + 1) : ps[m].off <= i /\ i < End(ps[m])
      BY <2>4, <3>2, Zenon
    <3>3. ASSUME c.off <= i, i < End(c)
          PROVE  \E m \in 1..(n + 1) : ps[m].off <= i /\ i < End(ps[m])
      BY <2>6, <3>3, Zenon
    <3>. QED  BY <3>1, <3>2, <3>3, Zenon
  <2>. QED  BY <2>1, <2>2, <2>3, <2>7, Zenon
<1>14. Covered(ps) = Covered(cs) \cup Spot(c)
  <2>1. \A i : i \in Covered(ps) => i \in Int
    BY <1>8, CoveredIs
  <2>2. \A i : i \in Covered(cs) => i \in Int
    BY <1>1, CoveredIs
  <2>3. \A i : i \in Spot(c) => i \in Int
    BY SpotIs
  <2>. QED  BY <1>13, <2>1, <2>2, <2>3
<1>15. ps # <<>>
  <2>1. Len(<<>>) = 0
    OBVIOUS
  <2>. QED  BY <1>1, <1>8, <2>1
<1>. QED  BY <1>4, <1>8, <1>12, <1>14, <1>15
-----------------------------------------------------------------------------
(* The merge loop. *)

Walk(cs, n, g) == g = [k \in 0..n |-> IF k = 0 THEN <<>> ELSE MergeStep(g[k - 1], cs[k])]

LEMMA WalkExists == ASSUME NEW cs PROVE \A n \in Nat : \E g : Walk(cs, n, g)
<1>. DEFINE Bad == {n \in Nat : ~\E g : Walk(cs, n, g)}
<1>. SUFFICES ASSUME Bad # {} PROVE FALSE
  OBVIOUS
<1>1. PICK n \in Bad : \A m \in Bad : n <= m
  <2>1. Bad \in SUBSET Nat
    OBVIOUS
  <2>. HIDE DEF Bad
  <2>. QED  BY <2>1, Least
<1>2. n \in Nat /\ ~\E g : Walk(cs, n, g)
  BY <1>1
<1>3. CASE n = 0
  <2>. DEFINE g == [k \in 0..0 |-> <<>>]
  <2>1. Walk(cs, 0, g)
    BY DEF Walk
  <2>. QED  BY <1>2, <1>3, <2>1
<1>4. CASE n # 0
  <2>1. n - 1 \in Nat /\ n - 1 \notin Bad
    BY <1>1, <1>2, <1>4
  <2>2. PICK f : Walk(cs, n - 1, f)
    BY <2>1
  <2>. DEFINE g == [k \in 0..n |-> IF k = n THEN MergeStep(f[n - 1], cs[n]) ELSE f[k]]
  <2>3. \A k \in 0..n : g[k] = IF k = 0 THEN <<>> ELSE MergeStep(g[k - 1], cs[k])
    <3>1. \A k \in 0..(n - 1) : f[k] = IF k = 0 THEN <<>> ELSE MergeStep(f[k - 1], cs[k])
      BY <2>2 DEF Walk
    <3>2. \A k \in 0..(n - 1) : g[k] = f[k]
      BY <1>2
    <3>3. g[n] = MergeStep(f[n - 1], cs[n])
      BY <1>2
    <3>4. g[n] = MergeStep(g[n - 1], cs[n])
      BY <1>2, <1>4, <3>2, <3>3
    <3>. HIDE DEF g
    <3>5. ASSUME NEW k \in 0..(n - 1) PROVE g[k] = IF k = 0 THEN <<>> ELSE MergeStep(g[k - 1], cs[k])
      <4>1. CASE k = 0
        BY <1>2, <1>4, <3>1, <3>2, <4>1
      <4>2. CASE k # 0
        <5>1. k - 1 \in 0..(n - 1)
          BY <4>2
        <5>2. g[k - 1] = f[k - 1] /\ g[k] = f[k]
          BY <3>2, <5>1
        <5>. QED  BY <3>1, <4>2, <5>2
      <4>. QED  BY <4>1, <4>2
    <3>. QED  BY <1>2, <1>4, <3>4, <3>5
  <2>4. Walk(cs, n, g)
    <3>1. g = [k \in 0..n |-> g[k]]
      OBVIOUS
    <3>. HIDE DEF g
    <3>. QED  BY <2>3, <3>1 DEF Walk
  <2>. QED  BY <1>2, <2>4
<1>. QED  BY <1>3, <1>4

\* After k turns the list covers the first k chunks and ends before the next one.
LEMMA MergedIs ==
    ASSUME NEW ps \in Seq(ChunkSet), Sorted(ps)
    PROVE  ListOK(Merged(ps)) /\ Covered(Merged(ps)) = Covered(ps)
<1>. DEFINE n == Len(ps)
            merged[k \in 0..Len(ps)] == IF k = 0 THEN <<>> ELSE MergeStep(merged[k - 1], ps[k])
            First(k) == UNION {Spot(ps[j]) : j \in 1..k}
            Good(k) == /\ ListOK(merged[k]) /\ Covered(merged[k]) = First(k)
                       /\ merged[k] # <<>> =>
                             k # 0 /\ merged[k][Len(merged[k])].off <= ps[k].off
            T == {k \in 0..n : Good(k)}
<1>1. n \in Nat /\ \A k \in 1..n : ps[k] \in ChunkSet
  OBVIOUS
<1>2. Merged(ps) = merged[n]
  BY DEF Merged
<1>3. merged = CHOOSE g : Walk(ps, n, g)
  BY DEF Walk
<1>. HIDE DEF merged, n
<1>4. Walk(ps, n, merged)
  BY <1>1, <1>3, WalkExists
<1>5. merged[0] = <<>> /\ \A k \in 1..n : merged[k] = MergeStep(merged[k - 1], ps[k])
  <2>1. \A k \in 0..n : merged[k] = IF k = 0 THEN <<>> ELSE MergeStep(merged[k - 1], ps[k])
    BY <1>4 DEF Walk
  <2>. QED  BY <1>1, <2>1
<1>6. Good(0)
  <2>1. <<>> \in Seq(ChunkSet) /\ Len(<<>>) = 0 /\ 1..0 = {} /\ Range(<<>>) = {}
    BY DEF Range
  <2>2. ListOK(<<>>) /\ Covered(<<>>) = {} /\ First(0) = {}
    BY <2>1 DEF ListOK, Apart, Covered
  <2>. QED  BY <1>5, <2>2
<1>7. ASSUME NEW k \in 1..n, Good(k - 1) PROVE Good(k)
  <2>. DEFINE m == merged[k - 1]
              c == ps[k]
  <2>1. merged[k] = MergeStep(m, c) /\ c \in ChunkSet
    BY <1>1, <1>5
  <2>2. ListOK(m) /\ Covered(m) = First(k - 1)
    BY <1>7
  <2>3. m # <<>> => m[Len(m)].off <= c.off
    <3>1. CASE m # <<>>
      <4>1. k - 1 \in 1..n /\ k - 1 < k /\ m[Len(m)].off <= ps[k - 1].off
        BY <1>1, <1>7, <3>1
      <4>2. ps[k - 1].off <= c.off
        BY <4>1 DEF Sorted, n
      <4>3. ps[k - 1].off \in Nat /\ c.off \in Nat
        BY <1>1, <4>1, ChunkIs
      <4>4. m[Len(m)].off \in Nat
        <5>1. m \in Seq(ChunkSet)
          BY <2>2 DEF ListOK
        <5>2. Len(m) \in 1..Len(m)
          <6>. HIDE DEF m
          <6>. QED  BY <3>1, <5>1
        <5>3. m[Len(m)] \in ChunkSet
          <6>. HIDE DEF m
          <6>. QED  BY <5>1, <5>2
        <5>. QED  BY <5>3, ChunkIs
      <4>. HIDE DEF m, c
      <4>. QED  BY <4>1, <4>2, <4>3, <4>4
    <3>. QED  BY <3>1
  <2>. HIDE DEF m, c
  <2>4. /\ ListOK(MergeStep(m, c))
        /\ Covered(MergeStep(m, c)) = First(k - 1) \cup Spot(c)
        /\ MergeStep(m, c) # <<>> /\ MergeStep(m, c)[Len(MergeStep(m, c))].off <= c.off
    BY <2>1, <2>2, <2>3, MergeStepIs
  <2>5. First(k) = First(k - 1) \cup Spot(c)
    <3>1. 1..k = (1..(k - 1)) \cup {k}
      OBVIOUS
    <3>. QED  BY <3>1 DEF c
  <2>6. k # 0
    OBVIOUS
  <2>. HIDE DEF First
  <2>. QED  BY <2>1, <2>4, <2>5, <2>6 DEF c
<1>. HIDE DEF Good
<1>8. 0..n \subseteq T
  <2>1. 0 \in T
    BY <1>1, <1>6
  <2>2. \A k \in 1..n : k - 1 \in T => k \in T
    BY <1>1, <1>7
  <2>. HIDE DEF T
  <2>. QED  BY <1>1, <2>1, <2>2, UpTo
<1>9. ListOK(merged[n]) /\ Covered(merged[n]) = First(n)
  <2>1. n \in T
    <3>. HIDE DEF T
    <3>. QED  BY <1>1, <1>8
  <2>. QED  BY <2>1 DEF Good
<1>10. First(n) = Covered(ps)
  BY DEF Covered, Range, n
<1>. QED  BY <1>2, <1>9, <1>10

\* Inserting a range keeps the list in shape and covers that range more.
LEMMA InsertIs ==
    ASSUME NEW cs, ListOK(cs), NEW off \in Nat, NEW len \in Nat, off + len <= U64Max
    PROVE  /\ ListOK(Insert(cs, off, FileBytes(off, len)))
           /\ Covered(Insert(cs, off, FileBytes(off, len))) = Covered(cs) \cup (off .. off + len - 1)
<1>. DEFINE c == [off |-> off, data |-> FileBytes(off, len)]
            ps == PushSorted(cs, c)
<1>1. Reads(off, FileBytes(off, len)) /\ Len(FileBytes(off, len)) = len
  BY FileBytesIs
<1>2. c \in ChunkSet
  BY <1>1, IsChunk
<1>3. Spot(c) = off .. off + len - 1
  BY <1>1 DEF Spot, End
<1>4. Insert(cs, off, FileBytes(off, len)) = Merged(ps)
  BY DEF Insert
<1>. HIDE DEF c
<1>5. ps \in Seq(ChunkSet) /\ Sorted(ps) /\ Covered(ps) = Covered(cs) \cup Spot(c)
  BY <1>2, PushSortedIs
<1>. HIDE DEF ps
<1>6. ListOK(Merged(ps)) /\ Covered(Merged(ps)) = Covered(ps)
  BY <1>5, MergedIs
<1>. QED  BY <1>3, <1>4, <1>5, <1>6

\* A chunk list serves a range when it covers all of it, and serves the file.
LEMMA GetIs ==
    ASSUME NEW cs, ListOK(cs), NEW off \in Nat, NEW len \in Nat \ {0}, off + len <= U64Max
    PROVE  /\ off .. off + len - 1 \subseteq Covered(cs) => GetIn(cs, off, len) = FileBytes(off, len)
           /\ ~(off .. off + len - 1 \subseteq Covered(cs)) => GetIn(cs, off, len) = None
           /\ FileBytes(off, len) # None
<1>. DEFINE n == Len(cs)
            covering == {i \in DOMAIN cs : cs[i].off <= off /\ off + len <= End(cs[i])}
<1>1. cs \in Seq(ChunkSet) /\ n \in Nat /\ Apart(cs) /\ DOMAIN cs = 1..n
  BY DEF ListOK
<1>2. \A j \in 1..n : cs[j] \in ChunkSet /\ cs[j].off \in Nat /\ End(cs[j]) \in Nat /\ cs[j].off <= End(cs[j])
  <2>1. \A j \in 1..n : cs[j] \in ChunkSet
    BY <1>1
  <2>2. \A d \in ChunkSet : d.off \in Nat /\ End(d) \in Nat /\ d.off <= End(d)
    BY ChunkIs
  <2>. QED  BY <2>1, <2>2
<1>3. \A i \in Int : i \in Covered(cs) <=> \E k \in 1..n : cs[k].off <= i /\ i < End(cs[k])
  BY <1>1, CoveredIs
<1>4. ~(off + len > U64Max)
  <2>1. \A c \in Nat : (c <= U64Max) => ~(c > U64Max)
    BY SourceAssumption
  <2>. QED  BY <2>1
<1>5. ASSUME covering # {} PROVE GetIn(cs, off, len) = FileBytes(off, len)
  <2>. DEFINE k == CHOOSE x \in covering : \A y \in covering : x <= y
              c == cs[k]
  <2>1. k \in covering
    <3>1. covering \in SUBSET Nat
      BY <1>1
    <3>2. \E x \in covering : \A y \in covering : x <= y
      <4>. HIDE DEF covering
      <4>. QED  BY <1>5, <3>1, Least
    <3>. HIDE DEF covering
    <3>. QED  BY <3>2
  <2>. DEFINE v == c.off  d == c.data
  <2>2. GetIn(cs, off, len) = SubSeq(d, off - v + 1, off - v + len)
    BY <1>4, <1>5 DEF GetIn, Min
  <2>. HIDE DEF k
  <2>3. c \in ChunkSet /\ v <= off /\ off + len <= End(c)
    BY <1>1, <1>2, <2>1
  <2>. HIDE DEF c
  <2>4. v \in Nat /\ Reads(v, d) /\ Len(d) \in Nat /\ End(c) = v + Len(d)
    BY <2>3, ChunkIs
  <2>. HIDE DEF v, d
  <2>5. PICK a \in 1..Len(d), b \in 1..Len(d) :
            a = off - v + 1 /\ b = off - v + len /\ a <= b
    <3>1. off - v + 1 \in 1..Len(d) /\ off - v + len \in 1..Len(d)
          /\ off - v + 1 <= off - v + len
      BY <2>3, <2>4
    <3>. QED  BY <3>1
  <2>6. Reads(v + a - 1, SubSeq(d, a, b)) /\ Len(SubSeq(d, a, b)) = b - a + 1
    <3>1. a <= b
      BY <2>5
    <3>. QED  BY <2>4, <3>1, PartReads
  <2>7. v + a - 1 = off /\ b - a + 1 = len
    BY <2>4, <2>5
  <2>8. Reads(off, SubSeq(d, a, b)) /\ Len(SubSeq(d, a, b)) = len
    BY <2>6, <2>7
  <2>9. Reads(off, FileBytes(off, len)) /\ Len(FileBytes(off, len)) = len
    BY FileBytesIs
  <2>10. SubSeq(d, a, b) = FileBytes(off, len)
    BY <2>8, <2>9, SameReads
  <2>. QED  BY <2>2, <2>5, <2>10
<1>6. covering = {} => GetIn(cs, off, len) = None
  BY DEF GetIn
<1>7. ASSUME off .. off + len - 1 \subseteq Covered(cs) PROVE covering # {}
  <2>1. \A i \in 0..(len - 1) : \E k \in 1..n : cs[k].off <= off + i /\ off + i < End(cs[k])
    <3>. SUFFICES ASSUME NEW i \in 0..(len - 1)
                  PROVE  \E k \in 1..n : cs[k].off <= off + i /\ off + i < End(cs[k])
      OBVIOUS
    <3>1. off + i \in Int /\ off + i \in off .. off + len - 1
      OBVIOUS
    <3>2. off + i \in Covered(cs)
      BY <1>7, <3>1
    <3>. QED  BY <1>3, <3>1, <3>2
  <2>. HIDE DEF n
  <2>2. PICK f \in 1..n : cs[f].off <= off + 0 /\ off + 0 < End(cs[f])
    <3>1. 0 \in 0..(len - 1)
      OBVIOUS
    <3>. QED  BY <2>1, <3>1
  <2>. DEFINE T == {i \in 0..(len - 1) : cs[f].off <= off + i /\ off + i < End(cs[f])}
  <2>3. 0..(len - 1) \subseteq T
    <3>1. 0 \in T
      BY <2>2
    <3>2. ASSUME NEW i \in 1..(len - 1), i - 1 \in T PROVE i \in T
      <4>1. PICK g \in 1..n : cs[g].off <= off + i /\ off + i < End(cs[g])
        BY <2>1
      <4>2. cs[f].off <= off + (i - 1) /\ off + (i - 1) < End(cs[f])
        BY <3>2
      <4>3. f < g => End(cs[f]) < cs[g].off
        BY <1>1 DEF Apart, n
      <4>4. g < f => End(cs[g]) < cs[f].off
        BY <1>1 DEF Apart, n
      <4>5. ~(f < g) /\ ~(g < f)
        BY <1>2, <4>1, <4>2, <4>3, <4>4
      <4>6. f = g
        BY <1>1, <4>5
      <4>. QED  BY <4>1, <4>6
    <3>. HIDE DEF T
    <3>. QED  BY <3>1, <3>2, UpTo
  <2>4. cs[f].off <= off /\ off + len <= End(cs[f])
    <3>1. len - 1 \in T /\ 0 \in T
      <4>. HIDE DEF T
      <4>. QED  BY <2>3
    <3>2. off + (len - 1) < End(cs[f]) /\ cs[f].off <= off + 0
      BY <3>1
    <3>. QED  BY <1>2, <3>2
  <2>. QED  BY <1>1, <2>4
<1>8. ASSUME covering # {} PROVE off .. off + len - 1 \subseteq Covered(cs)
  <2>1. PICK k \in 1..n : cs[k].off <= off /\ off + len <= End(cs[k])
    BY <1>1, <1>8
  <2>2. \A i \in off .. off + len - 1 : i \in Int /\ cs[k].off <= i /\ i < End(cs[k])
    BY <1>2, <2>1
  <2>. QED  BY <1>3, <2>2
<1>9. FileBytes(off, len) # None
  <2>1. Len(FileBytes(off, len)) = len
    BY FileBytesIs
  <2>2. Len(<<>>) = 0
    OBVIOUS
  <2>. QED  BY <2>1, <2>2 DEF None
<1>. HIDE DEF covering
<1>. QED  BY <1>5, <1>6, <1>7, <1>8, <1>9
-----------------------------------------------------------------------------
(* The decompressed pages: sums over what is held. *)

Sum(f, S) == MapThenSumSet(LAMBDA p : f[p], S)
Adds(f, s, g) == IF s = {} THEN 0 ELSE f[CHOOSE x \in s : TRUE] + g[s \ {CHOOSE x \in s : TRUE}]
Summing(f, T, g) == g = [s \in SUBSET T |-> Adds(f, s, g)]

LEMMA SumDef == ASSUME NEW f, NEW T PROVE Sum(f, T) = (CHOOSE g : Summing(f, T, g))[T]
BY DEF Sum, MapThenSumSet, MapThenFoldSet, Summing, Adds

\* Induction over the finite sets by their cardinality.
LEMMA Smallest ==
    ASSUME NEW B, B # {}, \A s \in B : IsFiniteSet(s)
    PROVE  \E s \in B : \A t \in B : Cardinality(s) <= Cardinality(t)
<1>. DEFINE C == {Cardinality(s) : s \in B}
<1>1. C \in SUBSET Nat /\ C # {}
  <2>1. \A s \in B : Cardinality(s) \in Nat
    BY FS_CardinalityType
  <2>. QED  BY <2>1
<1>2. PICK i \in C : \A j \in C : i <= j
  <2>. HIDE DEF C
  <2>. QED  BY <1>1, Least
<1>3. PICK s \in B : i = Cardinality(s)
  BY <1>2
<1>. QED  BY <1>2, <1>3

LEMMA Smaller ==
    ASSUME NEW s, IsFiniteSet(s), NEW x \in s
    PROVE  IsFiniteSet(s \ {x}) /\ Cardinality(s \ {x}) = Cardinality(s) - 1
           /\ Cardinality(s) \in Nat \ {0} /\ Cardinality(s \ {x}) \in Nat
<1>1. IsFiniteSet(s \ {x}) /\ Cardinality(s \ {x}) = Cardinality(s) - 1
  BY FS_RemoveElement
<1>2. Cardinality(s) \in Nat /\ Cardinality(s) # 0
  BY FS_CardinalityType, FS_EmptySet
<1>. QED  BY <1>1, <1>2, FS_CardinalityType

LEMMA SummingExists ==
    ASSUME NEW f, NEW T, IsFiniteSet(T)
    PROVE  \E g : Summing(f, T, g)
<1>. DEFINE Of(n) == {s \in SUBSET T : Cardinality(s) <= n}
            Part(n, g) == g = [s \in Of(n) |-> Adds(f, s, g)]
            Bad == {n \in Nat : ~\E g : Part(n, g)}
<1>0. \A s \in SUBSET T : IsFiniteSet(s) /\ Cardinality(s) \in Nat
  BY FS_Subset, FS_CardinalityType
<1>1. ASSUME Bad # {} PROVE FALSE
  <2>1. PICK n \in Bad : \A m \in Bad : n <= m
    <3>1. Bad \in SUBSET Nat
      OBVIOUS
    <3>. HIDE DEF Bad
    <3>. QED  BY <1>1, <3>1, Least
  <2>2. n \in Nat /\ ~\E g : Part(n, g)
    BY <2>1
  <2>3. CASE n = 0
    <3>. DEFINE g == [s \in Of(0) |-> 0]
    <3>1. \A s \in Of(0) : s = {}
      <4>1. \A s \in Of(0) : IsFiniteSet(s) /\ Cardinality(s) = 0
        BY <1>0
      <4>. QED  BY <4>1, FS_EmptySet
    <3>2. \A s \in Of(0) : Adds(f, s, g) = 0
      BY <3>1 DEF Adds
    <3>3. Part(0, g)
      BY <3>2
    <3>. QED  BY <2>2, <2>3, <3>3
  <2>4. CASE n # 0
    <3>1. n - 1 \in Nat /\ n - 1 \notin Bad
      <4>1. n - 1 \in Nat /\ ~(n <= n - 1)
        BY <2>2, <2>4
      <4>. HIDE DEF Bad
      <4>. QED  BY <2>1, <4>1
    <3>2. PICK h : Part(n - 1, h)
      BY <3>1
    <3>. DEFINE g == [s \in Of(n) |-> Adds(f, s, h)]
    <3>3. \A s \in Of(n - 1) : h[s] = Adds(f, s, h) /\ s \in Of(n)
      <4>1. \A s \in SUBSET T : Cardinality(s) <= n - 1 => Cardinality(s) <= n
        BY <1>0, <2>2
      <4>. QED  BY <3>2, <4>1
    <3>4. \A s \in Of(n - 1) : g[s] = h[s]
      BY <3>3
    <3>5. ASSUME NEW s \in Of(n), s # {} PROVE s \ {CHOOSE x \in s : TRUE} \in Of(n - 1)
      <4>. DEFINE x == CHOOSE y \in s : TRUE
      <4>1. x \in s
        BY <3>5
      <4>. HIDE DEF x
      <4>2. Cardinality(s \ {x}) = Cardinality(s) - 1 /\ Cardinality(s) \in Nat /\ Cardinality(s) <= n
        BY <1>0, <4>1, Smaller
      <4>3. Cardinality(s) - 1 <= n - 1
        BY <2>2, <4>2
      <4>4. s \ {x} \in Of(n - 1)
        BY <4>2, <4>3
      <4>. QED  BY <4>4 DEF x
    <3>6. \A s \in Of(n) : Adds(f, s, h) = Adds(f, s, g)
      <4>. HIDE DEF g, Of
      <4>. SUFFICES ASSUME NEW s \in Of(n) PROVE Adds(f, s, h) = Adds(f, s, g)
        OBVIOUS
      <4>. DEFINE x == CHOOSE y \in s : TRUE
      <4>1. CASE s = {}
        BY <4>1 DEF Adds
      <4>2. CASE s # {}
        <5>1. s \ {x} \in Of(n - 1)
          BY <3>5, <4>2
        <5>2. Adds(f, s, h) = f[x] + h[s \ {x}] /\ Adds(f, s, g) = f[x] + g[s \ {x}]
          BY <4>2 DEF Adds
        <5>. HIDE DEF x
        <5>. QED  BY <3>4, <5>1, <5>2
      <4>. QED  BY <4>1, <4>2
    <3>7. Part(n, g)
      <4>1. g = [s \in Of(n) |-> Adds(f, s, h)]
        OBVIOUS
      <4>. HIDE DEF g, Of
      <4>. QED  BY <3>6, <4>1
    <3>. QED  BY <2>2, <3>7
  <2>. QED  BY <2>3, <2>4
<1>2. Cardinality(T) \in Nat
  BY FS_CardinalityType
<1>3. PICK g : Part(Cardinality(T), g)
  BY <1>1, <1>2
<1>4. Of(Cardinality(T)) = SUBSET T
  <2>1. \A s \in SUBSET T : Cardinality(s) <= Cardinality(T)
    BY FS_Subset
  <2>. QED  BY <2>1
<1>5. Summing(f, T, g)
  <2>. HIDE DEF Of
  <2>. QED  BY <1>3, <1>4 DEF Summing
<1>. QED  BY <1>5

\* Two sums over sets with the same elements, counted the same, are equal.
LEMMA SummingAgrees ==
    ASSUME NEW f, NEW T, NEW g, Summing(f, T, g), NEW e, NEW U, NEW h, Summing(e, U, h),
           NEW S, IsFiniteSet(S), S \subseteq T, S \subseteq U, \A x \in S : f[x] = e[x]
    PROVE  g[S] = h[S]
<1>. DEFINE B == {s \in SUBSET S : g[s] # h[s]}
<1>. SUFFICES ASSUME B # {} PROVE FALSE
  OBVIOUS
<1>1. \A s \in SUBSET S : IsFiniteSet(s) /\ Cardinality(s) \in Nat
  BY FS_Subset, FS_CardinalityType
<1>2. PICK s \in B : \A t \in B : Cardinality(s) <= Cardinality(t)
  <2>1. \A t \in B : IsFiniteSet(t)
    BY <1>1
  <2>. HIDE DEF B
  <2>. QED  BY <2>1, Smallest
<1>3. s \in SUBSET S /\ g[s] # h[s] /\ g[s] = Adds(f, s, g) /\ h[s] = Adds(e, s, h)
  BY <1>2 DEF Summing
<1>4. CASE s = {}
  BY <1>3, <1>4 DEF Adds
<1>5. CASE s # {}
  <2>. DEFINE x == CHOOSE y \in s : TRUE
  <2>1. x \in s
    BY <1>5
  <2>2. g[s] = f[x] + g[s \ {x}] /\ h[s] = e[x] + h[s \ {x}]
    BY <1>3, <1>5 DEF Adds
  <2>. HIDE DEF x
  <2>3. s \ {x} \in SUBSET S /\ f[x] = e[x]
    BY <1>3, <2>1
  <2>4. g[s \ {x}] = h[s \ {x}]
    <3>1. Cardinality(s \ {x}) = Cardinality(s) - 1 /\ Cardinality(s) \in Nat
      BY <1>1, <1>3, <2>1, Smaller
    <3>2. ~(Cardinality(s) <= Cardinality(s \ {x}))
      BY <3>1
    <3>3. s \ {x} \notin B
      BY <1>2, <3>2
    <3>. QED  BY <2>3, <3>3
  <2>. QED  BY <1>3, <2>2, <2>3, <2>4
<1>. QED  BY <1>4, <1>5

\* A sum may be taken apart at any of its elements.
LEMMA SummingTakes ==
    ASSUME NEW f, NEW T, NEW g, IsFiniteSet(T), Summing(f, T, g), \A x \in T : f[x] \in Nat
    PROVE  \A s \in SUBSET T : g[s] \in Nat /\ \A x \in s : g[s] = f[x] + g[s \ {x}]
<1>. DEFINE Good(s) == g[s] \in Nat /\ \A x \in s : g[s] = f[x] + g[s \ {x}]
            B == {s \in SUBSET T : ~Good(s)}
<1>. SUFFICES ASSUME B # {} PROVE FALSE
  OBVIOUS
<1>1. \A s \in SUBSET T : IsFiniteSet(s) /\ Cardinality(s) \in Nat
  BY FS_Subset, FS_CardinalityType
<1>2. PICK s \in B : \A t \in B : Cardinality(s) <= Cardinality(t)
  <2>1. \A t \in B : IsFiniteSet(t)
    BY <1>1
  <2>. HIDE DEF B
  <2>. QED  BY <2>1, Smallest
<1>3. s \in SUBSET T /\ ~Good(s)
  BY <1>2
<1>4. \A t \in SUBSET T : g[t] = Adds(f, t, g)
  BY DEF Summing
<1>5. ASSUME NEW t \in SUBSET T, Cardinality(t) < Cardinality(s) PROVE Good(t)
  <2>1. ~(Cardinality(s) <= Cardinality(t))
    BY <1>1, <1>3, <1>5
  <2>. HIDE DEF Good
  <2>. QED  BY <1>2, <2>1
<1>6. CASE s = {}
  <2>1. g[s] = 0
    BY <1>3, <1>4, <1>6 DEF Adds
  <2>. QED  BY <1>3, <1>6, <2>1
<1>7. CASE s # {}
  <2>. DEFINE c == CHOOSE y \in s : TRUE
  <2>1. c \in s
    BY <1>7
  <2>2. g[s] = f[c] + g[s \ {c}]
    BY <1>3, <1>4, <1>7 DEF Adds
  <2>. HIDE DEF c
  <2>3. \A x \in s : s \ {x} \in SUBSET T /\ Cardinality(s \ {x}) < Cardinality(s)
    <3>. SUFFICES ASSUME NEW x \in s PROVE s \ {x} \in SUBSET T /\ Cardinality(s \ {x}) < Cardinality(s)
      OBVIOUS
    <3>1. Cardinality(s \ {x}) = Cardinality(s) - 1 /\ Cardinality(s) \in Nat
      BY <1>1, <1>3, Smaller
    <3>2. Cardinality(s) - 1 < Cardinality(s)
      BY <3>1
    <3>. QED  BY <1>3, <3>1, <3>2
  <2>4. \A x \in s : Good(s \ {x})
    <3>. HIDE DEF Good
    <3>. QED  BY <1>5, <2>3
  <2>5. f[c] \in Nat /\ g[s \ {c}] \in Nat
    BY <1>3, <2>1, <2>4
  <2>6. ASSUME NEW x \in s PROVE g[s] = f[x] + g[s \ {x}]
    <3>1. CASE x = c
      BY <2>2, <3>1
    <3>2. CASE x # c
      <4>. DEFINE rest == (s \ {c}) \ {x}
      <4>1. g[s \ {c}] = f[x] + g[rest]
        BY <2>1, <2>4, <3>2
      <4>2. g[s \ {x}] = f[c] + g[rest]
        <5>1. g[s \ {x}] = f[c] + g[(s \ {x}) \ {c}]
          BY <2>1, <2>4, <3>2
        <5>2. (s \ {x}) \ {c} = rest
          OBVIOUS
        <5>. QED  BY <5>1, <5>2
      <4>3. g[rest] \in Nat /\ f[x] \in Nat
        <5>1. rest \in SUBSET T /\ Cardinality(rest) < Cardinality(s)
          <6>1. IsFiniteSet(s \ {c}) /\ x \in s \ {c}
            BY <1>1, <2>3, <2>1, <3>2
          <6>2. Cardinality(rest) = Cardinality(s \ {c}) - 1 /\ Cardinality(s \ {c}) \in Nat
            BY <6>1, Smaller
          <6>3. Cardinality(s \ {c}) < Cardinality(s) /\ Cardinality(s) \in Nat
            BY <1>1, <1>3, <2>1, <2>3
          <6>4. Cardinality(s \ {c}) - 1 < Cardinality(s)
            BY <6>2, <6>3
          <6>. QED  BY <1>3, <6>2, <6>4
        <5>2. Good(rest)
          <6>. HIDE DEF Good, rest
          <6>. QED  BY <1>5, <5>1
        <5>. QED  BY <1>3, <5>2
      <4>. HIDE DEF rest
      <4>4. \A a, b, d \in Nat : a + (b + d) = b + (a + d)
        OBVIOUS
      <4>. QED  BY <2>2, <2>5, <4>1, <4>2, <4>3, <4>4
    <3>. QED  BY <3>1, <3>2
  <2>7. g[s] \in Nat
    BY <2>2, <2>5
  <2>. QED  BY <1>3, <2>6, <2>7
<1>. QED  BY <1>6, <1>7

LEMMA SumIs ==
    ASSUME NEW f, NEW S, IsFiniteSet(S), \A x \in S : f[x] \in Nat
    PROVE  Sum(f, S) \in Nat /\ \A x \in S : Sum(f, S) = f[x] + Sum(f, S \ {x})
<1>. DEFINE g(T) == CHOOSE h : Summing(f, T, h)
<1>1. Summing(f, S, g(S)) /\ Sum(f, S) = g(S)[S]
  BY SummingExists, SumDef
<1>. HIDE DEF g
<1>2. g(S)[S] \in Nat /\ \A x \in S : g(S)[S] = f[x] + g(S)[S \ {x}]
  BY <1>1, SummingTakes
<1>3. ASSUME NEW x \in S PROVE g(S)[S \ {x}] = Sum(f, S \ {x})
  <2>. DEFINE T == S \ {x}
  <2>1. IsFiniteSet(T) /\ T \subseteq S
    BY FS_RemoveElement
  <2>. HIDE DEF T
  <2>2. Summing(f, T, g(T)) /\ Sum(f, T) = g(T)[T]
    BY <2>1, SummingExists, SumDef DEF g
  <2>3. g(S)[T] = g(T)[T]
    BY <1>1, <2>1, <2>2, SummingAgrees
  <2>. QED  BY <2>2, <2>3 DEF T
<1>. QED  BY <1>1, <1>2, <1>3

LEMMA SameSum ==
    ASSUME NEW f, NEW e, NEW S, IsFiniteSet(S), \A x \in S : f[x] = e[x]
    PROVE  Sum(f, S) = Sum(e, S)
<1>. DEFINE g(d) == CHOOSE h : Summing(d, S, h)
<1>1. \A d : Summing(d, S, g(d)) /\ Sum(d, S) = g(d)[S]
  BY SummingExists, SumDef
<1>. HIDE DEF g
<1>2. Summing(f, S, g(f)) /\ Summing(e, S, g(e))
  BY <1>1
<1>3. g(f)[S] = g(e)[S]
  BY <1>2, SummingAgrees
<1>. QED  BY <1>1, <1>3
-----------------------------------------------------------------------------
(* The specification. *)

PagesOK(held) == /\ IsFiniteSet(DOMAIN held)
                 /\ \A p \in DOMAIN held : held[p] \in Nat /\ held[p] <= PageCap
                 /\ Sum(held, DOMAIN held) <= DecodedCap

IInv == total \in U64 /\ ListOK(chunks) /\ PagesOK(decoded)

LEMMA FetchedIs == Fetched = Covered(chunks)
BY DEF Fetched, Covered, Spot

LEMMA BytesAre == DecodedBytes = Sum(decoded, DOMAIN decoded)
BY DEF DecodedBytes, Sum

LEMMA NothingDecoded == PagesOK([p \in {} |-> 0])
<1>. DEFINE none == [p \in {} |-> 0]
<1>1. DOMAIN none = {} /\ IsFiniteSet({})
  BY FS_EmptySet
<1>. HIDE DEF none
<1>2. Sum(none, {}) = 0
  <2>. DEFINE g == CHOOSE h : Summing(none, {}, h)
  <2>1. Summing(none, {}, g)
    BY <1>1, SummingExists
  <2>2. Sum(none, {}) = g[{}]
    BY SumDef
  <2>. HIDE DEF g
  <2>3. g[{}] = Adds(none, {}, g)
    BY <2>1 DEF Summing
  <2>. QED  BY <2>2, <2>3 DEF Adds
<1>3. PagesOK(none)
  BY <1>1, <1>2, SourceAssumption DEF PagesOK
<1>. QED  BY <1>3 DEF none

LEMMA EmptyList == ListOK(<<>>) /\ Covered(<<>>) = {}
<1>1. <<>> \in Seq(ChunkSet) /\ Len(<<>>) = 0 /\ 1..0 = {} /\ Range(<<>>) = {}
  BY DEF Range
<1>. QED  BY <1>1 DEF ListOK, Apart, Covered

LEMMA WholeFile ==
    ASSUME NEW n \in Nat, n <= U64Max
    PROVE  /\ ListOK(<<[off |-> 0, data |-> FileBytes(0, n)]>>)
           /\ Covered(<<[off |-> 0, data |-> FileBytes(0, n)]>>) = 0 .. n - 1
<1>. DEFINE c == [off |-> 0, data |-> FileBytes(0, n)]
<1>1. Reads(0, FileBytes(0, n)) /\ Len(FileBytes(0, n)) = n
  BY FileBytesIs
<1>2. c \in ChunkSet
  <2>1. 0 + Len(FileBytes(0, n)) <= U64Max
    BY <1>1
  <2>. QED  BY <1>1, <2>1, IsChunk
<1>3. Spot(c) = 0 .. n - 1
  BY <1>1 DEF Spot, End
<1>. HIDE DEF c
<1>4. <<c>> \in Seq(ChunkSet) /\ Len(<<c>>) = 1 /\ <<c>>[1] = c /\ Range(<<c>>) = {c}
  BY <1>2 DEF Range
<1>5. Apart(<<c>>)
  <2>1. \A i, j \in 1..1 : ~(i < j)
    OBVIOUS
  <2>. QED  BY <1>4, <2>1 DEF Apart
<1>. QED  BY <1>3, <1>4, <1>5 DEF ListOK, Covered, c

LEMMA InitOK == Init => IInv
<1>. SUFFICES ASSUME Init PROVE IInv
  OBVIOUS
<1>1. PagesOK(decoded)
  BY NothingDecoded DEF Init
<1>2. total \in U64
  BY DEF Init
<1>3. ListOK(chunks)
  <2>1. CASE chunks = <<>>
    BY <2>1, EmptyList
  <2>2. CASE chunks = <<[off |-> 0, data |-> FileBytes(0, total)]>>
    <3>1. total \in Nat /\ total <= U64Max
      BY <1>2, SourceAssumption DEF U64
    <3>. QED  BY <2>2, <3>1, WholeFile
  <2>. QED  BY <2>1, <2>2 DEF Init
<1>. QED  BY <1>1, <1>2, <1>3 DEF IInv

LEMMA ProvideKeeps ==
    ASSUME IInv, NEW off \in U64, NEW len \in U64, Provide(off, len)
    PROVE  IInv' /\ Covered(chunks') = Covered(chunks) \cup (off .. off + len - 1)
<1>1. off \in Nat /\ len \in Nat /\ off + len <= U64Max
  BY SourceAssumption DEF Provide, U64
<1>2. ListOK(chunks') /\ Covered(chunks') = Covered(chunks) \cup (off .. off + len - 1)
  BY <1>1, InsertIs DEF IInv, Provide
<1>. QED  BY <1>2 DEF IInv, Provide

LEMMA InsertDecodedKeeps ==
    ASSUME IInv, NEW p \in Pages, NEW n \in 1 .. PageCap + 1, InsertDecoded(p, n)
    PROVE  IInv'
<1>. DEFINE D == DOMAIN decoded
            next == [q \in D \cup {p} |-> IF q = p THEN n ELSE decoded[q]]
            rest == D \ {p}
            replaced == IF p \in D THEN decoded[p] ELSE 0
<1>1. /\ decoded' = next /\ n <= PageCap /\ DecodedBytes - replaced + n <= DecodedCap
      /\ UNCHANGED <<total, chunks>>
  BY DEF InsertDecoded, AcceptsDecoded
<1>2. IsFiniteSet(D) /\ (\A q \in D : decoded[q] \in Nat /\ decoded[q] <= PageCap) /\ n \in Nat
  BY SourceAssumption DEF IInv, PagesOK
<1>3. IsFiniteSet(D \cup {p}) /\ IsFiniteSet(rest)
  BY <1>2, FS_AddElement, FS_Subset
<1>4. DOMAIN next = D \cup {p} /\ (D \cup {p}) \ {p} = rest /\ next[p] = n
      /\ \A q \in rest : next[q] = decoded[q]
  OBVIOUS
<1>5. \A q \in D \cup {p} : next[q] \in Nat /\ next[q] <= PageCap
  BY <1>1, <1>2
<1>. HIDE DEF next
<1>6. Sum(next, D \cup {p}) = n + Sum(next, rest)
  <2>1. \A q \in D \cup {p} : Sum(next, D \cup {p}) = next[q] + Sum(next, (D \cup {p}) \ {q})
    BY <1>3, <1>5, SumIs
  <2>. QED  BY <1>4, <2>1
<1>7. Sum(next, rest) = Sum(decoded, rest)
  BY <1>3, <1>4, SameSum
<1>8. Sum(decoded, rest) \in Nat
  BY <1>2, <1>3, SumIs
<1>9. DecodedBytes = replaced + Sum(decoded, rest)
  <2>1. CASE p \in D
    <3>1. \A q \in D : Sum(decoded, D) = decoded[q] + Sum(decoded, D \ {q})
      BY <1>2, SumIs
    <3>. QED  BY <2>1, <3>1, BytesAre
  <2>2. CASE p \notin D
    <3>1. rest = D /\ replaced = 0
      BY <2>2
    <3>. QED  BY <1>8, <3>1, BytesAre
  <2>. QED  BY <2>1, <2>2
<1>10. replaced \in Nat
  BY <1>2
<1>. HIDE DEF replaced, rest
<1>11. n + Sum(decoded, rest) <= DecodedCap
  BY <1>1, <1>2, <1>8, <1>9, <1>10, SourceAssumption
<1>12. PagesOK(next)
  BY <1>3, <1>4, <1>5, <1>6, <1>7, <1>11 DEF PagesOK
<1>. QED  BY <1>1, <1>12 DEF IInv

LEMMA StepOK == IInv /\ [Next]_vars => IInv'
<1>. SUFFICES ASSUME IInv, [Next]_vars PROVE IInv'
  OBVIOUS
<1>1. ASSUME NEW off \in U64, NEW len \in U64, Provide(off, len) PROVE IInv'
  BY <1>1, ProvideKeeps
<1>2. ASSUME NEW n \in U64, SetSize(n) PROVE IInv'
  BY <1>2 DEF SetSize, IInv
<1>3. CASE Release
  BY <1>3, NothingDecoded, EmptyList DEF Release, IInv
<1>4. ASSUME NEW p \in Pages, NEW n \in 1 .. PageCap + 1, InsertDecoded(p, n) PROVE IInv'
  BY <1>4, InsertDecodedKeeps
<1>5. CASE ClearDecoded
  BY <1>5, NothingDecoded DEF ClearDecoded, IInv
<1>6. CASE UNCHANGED vars
  BY <1>6 DEF vars, IInv
<1>. QED  BY <1>1, <1>2, <1>3, <1>4, <1>5, <1>6 DEF Next

LEMMA Inductive == Spec => []IInv
BY InitOK, StepOK, PTL DEF Spec

(* A range is served exactly when each of its bytes was fetched, in however *)
(* many pieces and in whatever order, and with the bytes of the file.       *)
THEOREM ServesFetched == Spec => []ServesWhatWasFetched
<1>1. IInv => ServesWhatWasFetched
  <2>. SUFFICES ASSUME IInv, NEW off \in U64, NEW len \in 1 .. U64Max - off
                PROVE  Get(off, len) = IF off .. off + len - 1 \subseteq Fetched
                                       THEN FileBytes(off, len) ELSE None
    BY DEF ServesWhatWasFetched
  <2>1. off \in Nat /\ len \in Nat \ {0} /\ off + len <= U64Max
    BY SourceAssumption DEF U64
  <2>2. ListOK(chunks)
    BY DEF IInv
  <2>. QED  BY <2>1, <2>2, GetIs, FetchedIs DEF Get
<1>. QED  BY <1>1, Inductive, PTL

(* What is reported missing lies in the file, is not empty, and is there    *)
(* once exactly it has been provided.                                       *)
THEOREM AnswerEndsMissing == Spec => []MissingIsAnswerable
<1>1. IInv => MissingIsAnswerable
  <2>. SUFFICES ASSUME IInv, NEW off \in U64, NEW len \in U64, Missing(off, len) # None
                PROVE  LET m == Missing(off, len)
                       IN  /\ m[2] > 0 /\ m[1] + m[2] <= total
                           /\ GetIn(Insert(chunks, m[1], FileBytes(m[1], m[2])), m[1], m[2]) # None
    BY DEF MissingIsAnswerable
  <2>. DEFINE rest    == IF off < total THEN total - off ELSE 0
              clamped == IF len < rest THEN len ELSE rest
  <2>1. off \in Nat /\ len \in Nat /\ total \in Nat /\ total <= U64Max
    BY SourceAssumption DEF U64, IInv
  <2>2. clamped # 0 /\ Missing(off, len) = <<off, clamped>>
    BY DEF Missing
  <2>3. clamped \in Nat \ {0} /\ off + clamped <= total
    BY <2>1, <2>2
  <2>. HIDE DEF clamped
  <2>4. off + clamped <= U64Max
    BY <2>1, <2>3, SourceAssumption
  <2>. DEFINE cs == Insert(chunks, off, FileBytes(off, clamped))
  <2>5. ListOK(cs) /\ Covered(cs) = Covered(chunks) \cup (off .. off + clamped - 1)
    BY <2>1, <2>3, <2>4, InsertIs DEF IInv
  <2>. HIDE DEF cs
  <2>6. GetIn(cs, off, clamped) # None
    BY <2>1, <2>3, <2>4, <2>5, GetIs
  <2>. QED  BY <2>2, <2>3, <2>6 DEF cs
<1>. QED  BY <1>1, Inductive, PTL

(* What is held stays in the budget, and a page delivered again is accepted *)
(* however full it is, for any pages, sizes and budgets.                    *)
THEOREM WithinBudget == Spec => []DecodedBudget
<1>1. IInv => DecodedBudget
  <2>. SUFFICES ASSUME IInv, NEW p \in DOMAIN decoded PROVE AcceptsDecoded(p, decoded[p])
    BY BytesAre DEF IInv, PagesOK, DecodedBudget
  <2>1. decoded[p] \in Nat /\ decoded[p] <= PageCap /\ DecodedBytes <= DecodedCap
    BY BytesAre DEF IInv, PagesOK
  <2>2. DecodedBytes \in Nat
    BY BytesAre, SumIs DEF IInv, PagesOK
  <2>3. DecodedBytes - decoded[p] + decoded[p] <= DecodedCap
    BY <2>1, <2>2, SourceAssumption
  <2>. QED  BY <2>1, <2>3 DEF AcceptsDecoded
<1>. QED  BY <1>1, Inductive, PTL

(* The chunk list implements the set of fetched offsets: no call loses a    *)
(* byte that was fetched or makes one up.                                   *)
THEOREM Implements == Spec => ImplementsByteStore
<1>1. Init => Store!Init
  <2>. SUFFICES ASSUME Init PROVE Store!Init
    OBVIOUS
  <2>1. total \in 0 .. U64Max
    BY DEF Init, U64
  <2>2. CASE remote = TRUE /\ chunks = <<>>
    BY <2>1, <2>2, EmptyList, FetchedIs DEF Store!Init
  <2>3. CASE remote = FALSE /\ chunks = <<[off |-> 0, data |-> FileBytes(0, total)]>>
    <3>1. total \in Nat /\ total <= U64Max
      BY <2>1, SourceAssumption
    <3>. QED  BY <2>1, <2>3, <3>1, WholeFile, FetchedIs DEF Store!Init
  <2>. QED  BY <2>2, <2>3 DEF Init
<1>2. IInv /\ [Next]_vars => [Store!Next]_<<total, Fetched, remote>>
  <2>. SUFFICES ASSUME IInv, [Next]_vars PROVE [Store!Next]_<<total, Fetched, remote>>
    OBVIOUS
  <2>1. Fetched = Covered(chunks) /\ Fetched' = Covered(chunks')
    BY FetchedIs DEF Fetched, Covered, Spot
  <2>2. ASSUME UNCHANGED <<total, chunks, remote>> PROVE UNCHANGED <<total, Fetched, remote>>
    BY <2>1, <2>2
  <2>3. ASSUME NEW off \in U64, NEW len \in U64, Provide(off, len) PROVE Store!Next
    <3>1. Store!Provide(off, len)
      BY <2>1, <2>3, ProvideKeeps DEF Provide, Store!Provide
    <3>2. off \in 0 .. U64Max /\ len \in 0 .. U64Max
      BY DEF U64
    <3>. QED  BY <3>1, <3>2 DEF Store!Next
  <2>4. ASSUME NEW n \in U64, SetSize(n) PROVE [Store!Next]_<<total, Fetched, remote>>
    <3>1. CASE total = n
      BY <2>2, <2>4, <3>1 DEF SetSize
    <3>2. CASE total # n
      <4>1. n \in 0 .. U64Max - 1
        BY <2>4, SourceAssumption DEF SetSize, U64, SIZE_UNKNOWN
      <4>2. total = U64Max /\ total' = n /\ Fetched' = Fetched /\ remote' = remote
        BY <2>1, <2>4, <3>2 DEF SetSize, SIZE_UNKNOWN
      <4>3. Store!SetSize(n)
        BY <4>1, <4>2 DEF Store!SetSize, Store!Offsets
      <4>. QED  BY <4>1, <4>3 DEF Store!Next, Store!Offsets
    <3>. QED  BY <3>1, <3>2
  <2>5. CASE Release
    <3>1. Store!Release
      BY <2>1, <2>5, EmptyList DEF Release, Store!Release
    <3>. QED  BY <3>1 DEF Store!Next
  <2>6. ASSUME NEW p \in Pages, NEW n \in 1 .. PageCap + 1, InsertDecoded(p, n)
        PROVE  UNCHANGED <<total, Fetched, remote>>
    BY <2>2, <2>6 DEF InsertDecoded
  <2>7. CASE ClearDecoded
    BY <2>2, <2>7 DEF ClearDecoded
  <2>8. CASE UNCHANGED vars
    BY <2>2, <2>8 DEF vars
  <2>. QED  BY <2>3, <2>4, <2>5, <2>6, <2>7, <2>8 DEF Next
<1>. QED  BY <1>1, <1>2, Inductive, PTL DEF Spec, ImplementsByteStore, Store!Spec
=============================================================================
