----------------------------- MODULE PumpProofs -----------------------------
(***************************************************************************)
(* What the host hands to the engine and to the codec is the file, for any *)
(* file size, any coalescing gap, any limits of the caches and any ranges. *)
(***************************************************************************)
EXTENDS Pump, WellFoundedInduction, TLAPS

LEMMA Least ==
    ASSUME NEW T \in SUBSET Nat, T # {}
    PROVE  \E i \in T : \A j \in T : i <= j
<1>1. PICK i \in T : \A j \in T : ~ (<<j, i>> \in OpToRel(<, Nat))
  BY WFMin, NatLessThanWellFounded, Zenon
<1>2. \A j \in T : ~(j < i)
  BY <1>1 DEF OpToRel
<1>. QED  BY <1>2

LEMMA UpTo ==
    ASSUME NEW n \in Nat, NEW T, 0 \in T, \A i \in 1..n : i - 1 \in T => i \in T
    PROVE  0..n \subseteq T
<1>. DEFINE S == (0..n) \ T
<1>. SUFFICES ASSUME S # {} PROVE FALSE
  OBVIOUS
<1>1. S \in SUBSET Nat
  OBVIOUS
<1>2. PICK i \in S : \A j \in S : i <= j
  <2>. HIDE DEF S
  <2>. QED  BY <1>1, Least
<1>3. i \in 1..n /\ i - 1 \in 0..n
  BY <1>2
<1>. QED  BY <1>2, <1>3

LEMMA Greatest ==
    ASSUME NEW n \in Nat, NEW T \in SUBSET (0 .. n), T # {}
    PROVE  \E i \in T : \A j \in T : j <= i
<1>. DEFINE S == {n - i : i \in T}
<1>1. S \in SUBSET Nat /\ S # {}
  <2>1. \A i \in T : n - i \in Nat
    OBVIOUS
  <2>. QED  BY <2>1
<1>2. PICK m \in S : \A k \in S : m <= k
  <2>. HIDE DEF S
  <2>. QED  BY <1>1, Least
<1>3. PICK i \in T : m = n - i
  BY <1>2
<1>4. \A j \in T : n - i <= n - j
  BY <1>2, <1>3
<1>. QED  BY <1>3, <1>4
-----------------------------------------------------------------------------
(* Ranges and their bytes. *)

LEMMA RangeIs ==
    ASSUME NEW r \in Ranges
    PROVE  /\ r[1] \in Nat /\ r[2] \in Nat \ {0} /\ r[1] + r[2] <= Size
           /\ r = <<r[1], r[2]>> /\ r # SizeRequest
BY PumpAssumption DEF Ranges, File, SizeRequest

LEMMA IsRange ==
    ASSUME NEW i \in Nat, NEW n \in Nat \ {0}, i + n <= Size
    PROVE  <<i, n>> \in Ranges
BY PumpAssumption DEF Ranges, File

LEMMA BodyIs ==
    ASSUME NEW r \in Ranges
    PROVE  /\ Body(r) \in Seq(File) /\ Len(Body(r)) = r[2]
           /\ DOMAIN Body(r) = 1..r[2] /\ \A k \in 1..r[2] : Body(r)[k] = r[1] + k - 1
           /\ Body(r) # NoBytes /\ Body(r) # Miss
<1>1. r[1] \in Nat /\ r[2] \in Nat \ {0} /\ r[1] + r[2] <= Size
  BY RangeIs
<1>2. \A k \in 1..r[2] : r[1] + k - 1 \in File
  BY <1>1, PumpAssumption DEF File
<1>3. Body(r) \in Seq(File) /\ Len(Body(r)) = r[2] /\ DOMAIN Body(r) = 1..r[2]
      /\ \A k \in 1..r[2] : Body(r)[k] = r[1] + k - 1
  BY <1>1, <1>2 DEF Body
<1>4. Body(r)[1] = r[1]
  BY <1>1, <1>3
<1>. QED  BY <1>1, <1>3, <1>4 DEF NoBytes, Miss, Absent

LEMMA CutIs ==
    ASSUME NEW r \in Ranges
    PROVE  Len(Cut(r)) # r[2]
<1>1. r[2] \in Nat \ {0} /\ Body(r) \in Seq(File) /\ Len(Body(r)) = r[2]
  BY RangeIs, BodyIs
<1>. HIDE DEF Body
<1>. QED  BY <1>1 DEF Cut

LEMMA NoBody == Body(SizeRequest) = NoBytes /\ NoBytes # Miss
BY DEF Body, SizeRequest, NoBytes, Miss

\* A range cut out of the bytes of one that holds it.
LEMMA SlicedIs ==
    ASSUME NEW r \in Ranges, NEW s \in Ranges, Within(r, s)
    PROVE  Sliced(Body(s), s, r) = Body(r)
<1>1. /\ r[1] \in Nat /\ r[2] \in Nat \ {0} /\ s[1] \in Nat /\ s[2] \in Nat \ {0}
      /\ s[1] <= r[1] /\ r[1] + r[2] <= s[1] + s[2]
  BY RangeIs DEF Within
<1>2. /\ Body(s) \in Seq(File) /\ Len(Body(s)) = s[2]
      /\ \A k \in 1..s[2] : Body(s)[k] = s[1] + k - 1
  BY BodyIs
<1>. DEFINE a == r[1] - s[1] + 1
            b == r[1] - s[1] + r[2]
<1>3. a \in 1..s[2] /\ b \in 1..s[2] /\ b - a + 1 = r[2]
  BY <1>1
<1>4. Sliced(Body(s), s, r) = [k \in 1..r[2] |-> Body(s)[a + k - 1]]
  <2>1. \A t \in Seq(File) : \A i, j \in 1..Len(t) :
            SubSeq(t, i, j) = [k \in 1..(j - i + 1) |-> t[i + k - 1]]
    OBVIOUS
  <2>. HIDE DEF a, b
  <2>2. SubSeq(Body(s), a, b) = [k \in 1..(b - a + 1) |-> Body(s)[a + k - 1]]
    BY <1>2, <1>3, <2>1
  <2>3. Sliced(Body(s), s, r) = SubSeq(Body(s), a, b)
    BY DEF Sliced, a, b
  <2>. QED  BY <1>3, <2>2, <2>3
<1>5. \A k \in 1..r[2] : Body(s)[a + k - 1] = r[1] + k - 1
  <2>1. \A k \in 1..r[2] : a + k - 1 \in 1..s[2]
    BY <1>1
  <2>2. \A k \in 1..r[2] : Body(s)[a + k - 1] = s[1] + (a + k - 1) - 1
    BY <1>2, <2>1
  <2>. QED  BY <1>1, <2>2
<1>. QED  BY <1>4, <1>5 DEF Body
-----------------------------------------------------------------------------
(* The cache. *)

\* Whoever writes an entry writes the range, or lost the end of it.
Spoilt(e, r) == e \in {Miss, Body(r), Cut(r)}
CacheOK == cache \in [Ranges -> Seq(File) \cup {Miss}] /\ \A r \in Ranges : Spoilt(cache[r], r)

LEMMA HitIs ==
    ASSUME NEW r \in Ranges, Spoilt(cache[r], r), cache[r] # Miss, Len(cache[r]) = r[2]
    PROVE  cache[r] = Body(r)
BY CutIs DEF Spoilt

\* Ranges that start first among some.
LEMMA FirstRange ==
    ASSUME NEW T \in SUBSET Ranges, T # {}
    PROVE  \E p \in T : \A q \in T : p[1] <= q[1]
<1>. DEFINE S == {p[1] : p \in T}
<1>1. S \in SUBSET Nat /\ S # {}
  <2>1. \A p \in T : p[1] \in Nat
    BY RangeIs
  <2>. QED  BY <2>1
<1>2. PICK i \in S : \A j \in S : i <= j
  <2>. HIDE DEF S
  <2>. QED  BY <1>1, Least
<1>3. PICK p \in T : i = p[1]
  BY <1>2
<1>. QED  BY <1>2, <1>3

LEMMA AssembledIs ==
    ASSUME NEW r \in Ranges, CacheOK, rec.jobs \in Seq(Ranges),
           Covers(r) \subseteq UNION {Covers(p) : p \in Pieces(r)}
    PROVE  Assembled(r) = Body(r)
<1>1. r[1] \in Nat /\ r[2] \in Nat \ {0}
  BY RangeIs
<1>2. \A p \in Pieces(r) : p \in Ranges /\ cache[p] = Body(p)
  <2>. SUFFICES ASSUME NEW p \in Pieces(r) PROVE p \in Ranges /\ cache[p] = Body(p)
    OBVIOUS
  <2>1. p \in Ranges
    BY DEF Pieces, Overlapping, ToSet
  <2>2. cache[p] # Miss /\ Len(cache[p]) = p[2]
    BY DEF Pieces
  <2>. QED  BY <2>1, <2>2, HitIs DEF CacheOK
<1>3. ASSUME NEW k \in 1..r[2] PROVE ByteOf(Pieces(r), r[1] + k - 1) = r[1] + k - 1
  <2>. DEFINE i == r[1] + k - 1
              those == {p \in Pieces(r) : i \in Covers(p)}
              first == CHOOSE p \in those : \A q \in those : p[1] <= q[1]
  <2>1. i \in Covers(r)
    BY <1>1 DEF Covers
  <2>2. those # {} /\ those \in SUBSET Ranges
    BY <1>2, <2>1
  <2>3. first \in those
    <3>1. \E p \in those : \A q \in those : p[1] <= q[1]
      <4>. HIDE DEF those
      <4>. QED  BY <2>2, FirstRange
    <3>. HIDE DEF those
    <3>. QED  BY <3>1
  <2>. HIDE DEF first
  <2>4. first \in Ranges /\ cache[first] = Body(first) /\ i \in Covers(first)
    BY <1>2, <2>3
  <2>5. /\ first[1] \in Nat /\ first[2] \in Nat \ {0}
        /\ \A j \in 1..first[2] : Body(first)[j] = first[1] + j - 1
    BY <2>4, RangeIs, BodyIs
  <2>6. i - first[1] + 1 \in 1..first[2] /\ i \in Int
    <3>1. i \in Int
      BY <1>1
    <3>. HIDE DEF i
    <3>2. i \in first[1]..(first[1] + first[2] - 1)
      BY <2>4 DEF Covers
    <3>. QED  BY <2>5, <3>1, <3>2
  <2>7. cache[first][i - first[1] + 1] = i
    <3>1. Body(first)[i - first[1] + 1] = first[1] + (i - first[1] + 1) - 1
      <4>. HIDE DEF i
      <4>. QED  BY <2>5, <2>6
    <3>2. first[1] + (i - first[1] + 1) - 1 = i
      <4>. HIDE DEF i
      <4>. QED  BY <2>5, <2>6
    <3>. QED  BY <2>4, <3>1, <3>2
  <2>8. ByteOf(Pieces(r), i) = cache[first][i - first[1] + 1]
    BY <2>2 DEF ByteOf, first
  <2>. QED  BY <2>7, <2>8
<1>. QED  BY <1>3 DEF Assembled, Body

\* What is read without asking the source is the range.
LEMMA ReadNowIs ==
    ASSUME NEW r \in Ranges, CacheOK, rec.jobs \in Seq(Ranges)
    PROVE  ReadNow(r) \in {Miss, Body(r)} /\ FromCachedJobs(r) \in {Miss, Body(r)}
<1>1. FromCachedJobs(r) \in {Miss, Body(r)}
  BY AssembledIs DEF FromCachedJobs
<1>2. Hit(r) => cache[r] = Body(r)
  BY HitIs DEF Hit, CacheOK
<1>. QED  BY <1>1, <1>2 DEF ReadNow
-----------------------------------------------------------------------------
(* The coverage recorded for the file. *)

Touch(f, g) == f[1] <= g[1] + g[2] /\ g[1] <= f[1] + f[2]
Separate(fetched) == \A f, g \in fetched : f = g \/ ~Touch(f, g)

LEMMA RecordFetchedIs ==
    ASSUME NEW fetched \in SUBSET Ranges, Separate(fetched), NEW r \in Ranges
    PROVE  /\ RecordFetched(fetched, r) \in SUBSET Ranges
           /\ Separate(RecordFetched(fetched, r))
           /\ \A f \in fetched \cup {r} : \E g \in RecordFetched(fetched, r) : Within(f, g)
<1>. DEFINE all == Touched(fetched, r) \cup {r}
            starts == {f[1] : f \in all}
            ends == {f[1] + f[2] : f \in all}
            first == CHOOSE i \in starts : \A f \in all : i <= f[1]
            past == CHOOSE i \in ends : \A f \in all : i >= f[1] + f[2]
            g == <<first, past - first>>
<1>1. all \in SUBSET Ranges /\ r \in all
  BY DEF Touched
<1>2. \A f \in all : f[1] \in Nat /\ f[2] \in Nat \ {0} /\ f[1] + f[2] <= Size
  BY <1>1, RangeIs
<1>3. first \in starts /\ \A f \in all : first <= f[1]
  <2>1. PICK p \in all : \A q \in all : p[1] <= q[1]
    <3>. HIDE DEF all
    <3>. QED  BY <1>1, FirstRange
  <2>2. p[1] \in starts /\ \A f \in all : p[1] <= f[1]
    BY <2>1
  <2>. HIDE DEF all, starts
  <2>. QED  BY <2>2
<1>4. past \in ends /\ \A f \in all : past >= f[1] + f[2]
  <2>1. ends \in SUBSET (0 .. Size) /\ ends # {}
    <3>1. \A f \in all : f[1] + f[2] \in 0 .. Size
      BY <1>2, PumpAssumption
    <3>. HIDE DEF all
    <3>. QED  BY <1>1, <3>1
  <2>2. PICK i \in ends : \A j \in ends : j <= i
    <3>. HIDE DEF ends
    <3>. QED  BY <2>1, Greatest, PumpAssumption
  <2>3. \A f \in all : i >= f[1] + f[2]
    BY <1>2, <2>1, <2>2
  <2>. HIDE DEF all, ends
  <2>. QED  BY <2>2, <2>3
<1>5. PICK a \in all : first = a[1]
  BY <1>3
<1>6. PICK b \in all : past = b[1] + b[2]
  BY <1>4
<1>. HIDE DEF first, past
<1>7. first \in Nat /\ past \in Nat /\ past <= Size /\ first < past
  BY <1>1, <1>2, <1>3, <1>5, <1>6
<1>8. g \in Ranges /\ g[1] = first /\ g[1] + g[2] = past
  BY <1>7, IsRange
<1>9. RecordFetched(fetched, r) = (fetched \ all) \cup {g}
  BY DEF RecordFetched, first, past
<1>10. \A f \in all : Within(f, g)
  BY <1>2, <1>3, <1>4, <1>8 DEF Within
<1>11. ASSUME NEW f \in fetched \ all PROVE ~Touch(f, g) /\ ~Touch(g, f)
  <2>1. /\ f \in fetched /\ f[1] \in Nat /\ f[2] \in Nat \ {0}
        /\ ~(f[1] <= r[1] + r[2] /\ r[1] <= f[1] + f[2])
    BY RangeIs DEF Touched
  <2>2. ASSUME NEW h \in all PROVE h = r \/ (h \in fetched /\ h # f /\ Touch(h, r))
    <3>1. h = r \/ h \in Touched(fetched, r)
      OBVIOUS
    <3>2. h \in Touched(fetched, r) => h \in fetched /\ Touch(h, r)
      BY DEF Touched, Touch
    <3>3. f \notin all
      OBVIOUS
    <3>. HIDE DEF all
    <3>. QED  BY <3>1, <3>2, <3>3
  <2>3. ASSUME NEW h \in all PROVE f[1] > h[1] + h[2] \/ h[1] > f[1] + f[2]
    <3>0. h[1] \in Nat /\ h[2] \in Nat
      BY <1>2
    <3>. HIDE DEF all
    <3>1. h = r \/ (h \in fetched /\ h # f)
      BY <2>2
    <3>2. ~Touch(f, h)
      BY <2>1, <3>1 DEF Separate, Touch
    <3>. QED  BY <2>1, <3>0, <3>2 DEF Touch
  <2>4. \A h \in all : h[1] <= r[1] + r[2] /\ r[1] <= h[1] + h[2]
    BY <1>1, <1>2, <2>2 DEF Touch
  <2>5. CASE f[1] > r[1] + r[2]
    <3>1. \A h \in all : f[1] > h[1] + h[2]
      BY <1>1, <1>2, <2>1, <2>3, <2>4, <2>5
    <3>. QED  BY <1>2, <1>6, <1>7, <1>8, <2>1, <3>1 DEF Touch
  <2>6. CASE r[1] > f[1] + f[2]
    <3>1. \A h \in all : h[1] > f[1] + f[2]
      BY <1>1, <1>2, <2>1, <2>3, <2>4, <2>6
    <3>. QED  BY <1>2, <1>5, <1>7, <1>8, <2>1, <3>1 DEF Touch
  <2>. QED  BY <1>1, <1>2, <2>1, <2>5, <2>6
<1>12. Separate((fetched \ all) \cup {g})
  <2>. HIDE DEF all, g
  <2>. QED  BY <1>11 DEF Separate
<1>13. ASSUME NEW f \in fetched \cup {r} PROVE \E h \in (fetched \ all) \cup {g} : Within(f, h)
  <2>1. f \in all \/ f \in fetched \ all
    BY <1>1
  <2>2. CASE f \in all
    BY <1>10, <2>2
  <2>3. CASE f \in fetched \ all
    <3>1. Within(f, f)
      BY <2>3, RangeIs DEF Within
    <3>. QED  BY <2>3, <3>1
  <2>. QED  BY <2>1, <2>2, <2>3
<1>. HIDE DEF all, g
<1>. QED  BY <1>8, <1>9, <1>12, <1>13

LEMMA WithinTrans ==
    ASSUME NEW f \in Ranges, NEW g \in Ranges, NEW h \in Ranges, Within(f, g), Within(g, h)
    PROVE  Within(f, h)
BY RangeIs DEF Within
-----------------------------------------------------------------------------
(* The record of the file. *)

Chunk == [of : Ranges, buf : Seq(File)]
Records == [sized : BOOLEAN, fetched : SUBSET Ranges, jobs : Seq(Ranges), maxLen : Int,
            resident : Seq(Chunk)]

\* The retained copies are copies of the file, and what was fetched is told apart.
RecordOK(known) ==
    /\ known \in Records
    /\ Separate(known.fetched)
    /\ \A k \in 1..Len(known.resident) : known.resident[k].buf = Body(known.resident[k].of)

Whole(known, r) == \E f \in known.fetched : Within(r, f)

LEMMA AddJobIs ==
    ASSUME NEW known \in Seq(Ranges), NEW r \in Ranges
    PROVE  AddJob(known, r) \in Seq(Ranges)
<1>1. Without(known, r) \in Seq(Ranges)
  <2>1. CASE r \in ToSet(known)
    <3>. DEFINE i == CHOOSE k \in DOMAIN known : known[k] = r
    <3>1. i \in 1..Len(known)
      BY <2>1 DEF ToSet
    <3>. HIDE DEF i
    <3>2. SubSeq(known, 1, i - 1) \in Seq(Ranges) /\ SubSeq(known, i + 1, Len(known)) \in Seq(Ranges)
      BY <3>1
    <3>. QED  BY <2>1, <3>2 DEF Without, RemoveAt, i
  <2>2. CASE r \notin ToSet(known)
    BY <2>2 DEF Without
  <2>. QED  BY <2>1, <2>2
<1>. DEFINE added == Append(Without(known, r), r)
<1>2. added \in Seq(Ranges) /\ added # <<>>
  BY <1>1
<1>3. Tail(added) \in Seq(Ranges)
  <2>. HIDE DEF added
  <2>. QED  BY <1>2
<1>. QED  BY <1>2, <1>3 DEF AddJob

LEMMA TrimmedIs ==
    ASSUME NEW kept \in Seq(Chunk), \A k \in 1..Len(kept) : kept[k].buf = Body(kept[k].of)
    PROVE  /\ Trimmed(kept) \in Seq(Chunk)
           /\ \A k \in 1..Len(Trimmed(kept)) : Trimmed(kept)[k].buf = Body(Trimmed(kept)[k].of)
<1>1. CASE kept = <<>>
  BY <1>1 DEF Trimmed
<1>2. CASE kept # <<>>
  <2>. DEFINE fits == {k \in 1..Len(kept) :
                          k = Len(kept) \/ Weight(SubSeq(kept, k, Len(kept))) <= ResidentLimit}
              from == CHOOSE k \in fits : \A l \in fits : k <= l
  <2>1. fits \in SUBSET Nat /\ fits # {}
    <3>1. Len(kept) \in 1..Len(kept)
      BY <1>2
    <3>2. Len(kept) \in fits
      BY <3>1
    <3>. QED  BY <3>2
  <2>2. from \in fits
    <3>. HIDE DEF fits
    <3>1. \E k \in fits : \A l \in fits : k <= l
      BY <2>1, Least
    <3>. QED  BY <3>1
  <2>3. from \in 1..Len(kept)
    BY <2>2
  <2>4. Trimmed(kept) = SubSeq(kept, from, Len(kept))
    BY <1>2 DEF Trimmed
  <2>. HIDE DEF from
  <2>5. /\ SubSeq(kept, from, Len(kept)) \in Seq(Chunk)
        /\ Len(SubSeq(kept, from, Len(kept))) = Len(kept) - from + 1
        /\ \A k \in 1..(Len(kept) - from + 1) :
              SubSeq(kept, from, Len(kept))[k] = kept[from + k - 1]
    BY <2>3
  <2>6. \A k \in 1..(Len(kept) - from + 1) : from + k - 1 \in 1..Len(kept)
    BY <2>3
  <2>. QED  BY <2>4, <2>5, <2>6
<1>. QED  BY <1>1, <1>2

LEMMA RetainIs ==
    ASSUME NEW known, RecordOK(known), NEW r \in Ranges, NEW buf \in {NoBytes, Body(r)}
    PROVE  /\ RecordOK(Retain(known, r, buf))
           /\ \A f \in Ranges : Whole(known, f) => Whole(Retain(known, r, buf), f)
           /\ buf = Body(r) => Whole(Retain(known, r, buf), r)
<1>. DEFINE next == Retain(known, r, buf)
<1>1. CASE buf = NoBytes
  BY <1>1, BodyIs DEF Retain
<1>2. CASE buf = Body(r)
  <2>1. /\ known \in Records /\ known.fetched \in SUBSET Ranges /\ Separate(known.fetched)
        /\ known.jobs \in Seq(Ranges) /\ known.maxLen \in Int /\ known.resident \in Seq(Chunk)
    BY DEF RecordOK, Records
  <2>2. <<r[1], Len(buf)>> = r /\ buf # NoBytes /\ buf \in Seq(File) /\ Len(buf) \in Int
    BY <1>2, RangeIs, BodyIs
  <2>. DEFINE c == [of |-> r, buf |-> buf]
              longest == IF Len(buf) > known.maxLen THEN Len(buf) ELSE known.maxLen
              copies == Resident(known.resident, r, buf)
  <2>3. next = [known EXCEPT !.fetched = RecordFetched(known.fetched, r),
                             !.jobs = AddJob(known.jobs, r),
                             !.maxLen = longest, !.resident = copies]
    BY <2>2 DEF Retain
  <2>4. /\ copies \in Seq(Chunk)
        /\ \A k \in 1..Len(copies) : copies[k].buf = Body(copies[k].of)
    <3>. DEFINE more == Append(known.resident, c)
    <3>1. c \in Chunk /\ c.buf = Body(c.of)
      BY <1>2, <2>2 DEF Chunk
    <3>. HIDE DEF c
    <3>2. more \in Seq(Chunk) /\ \A k \in 1..Len(more) : more[k].buf = Body(more[k].of)
      BY <2>1, <3>1 DEF RecordOK
    <3>3. copies \in {known.resident, Trimmed(more)}
      BY DEF Resident, c
    <3>. HIDE DEF more, copies
    <3>4. /\ Trimmed(more) \in Seq(Chunk)
          /\ \A k \in 1..Len(Trimmed(more)) : Trimmed(more)[k].buf = Body(Trimmed(more)[k].of)
      BY <3>2, TrimmedIs
    <3>. QED  BY <2>1, <3>3, <3>4 DEF RecordOK
  <2>5. longest \in Int
    BY <2>1, <2>2
  <2>6. AddJob(known.jobs, r) \in Seq(Ranges)
    BY <2>1, AddJobIs
  <2>7. /\ RecordFetched(known.fetched, r) \in SUBSET Ranges
        /\ Separate(RecordFetched(known.fetched, r))
        /\ \A f \in known.fetched \cup {r} : \E g \in RecordFetched(known.fetched, r) : Within(f, g)
    BY <2>1, RecordFetchedIs
  <2>. HIDE DEF longest, copies, c
  <2>8. /\ next \in Records /\ next.fetched = RecordFetched(known.fetched, r)
        /\ next.resident = copies
    <3>. HIDE DEF next
    <3>. QED  BY <2>1, <2>3, <2>4, <2>5, <2>6, <2>7 DEF Records
  <2>. HIDE DEF next
  <2>9. RecordOK(next)
    BY <2>4, <2>7, <2>8 DEF RecordOK
  <2>10. ASSUME NEW f \in Ranges, Whole(known, f) PROVE Whole(next, f)
    <3>1. PICK g \in known.fetched : Within(f, g)
      BY <2>10 DEF Whole
    <3>2. PICK h \in next.fetched : Within(g, h)
      BY <2>7, <2>8
    <3>. QED  BY <2>1, <2>7, <2>8, <3>1, <3>2, WithinTrans DEF Whole
  <2>11. Whole(next, r)
    BY <2>7, <2>8 DEF Whole
  <2>. QED  BY <2>9, <2>10, <2>11 DEF next
<1>. QED  BY <1>1, <1>2
-----------------------------------------------------------------------------
(* A whole round of answers is retained. *)

Base == [rec EXCEPT !.sized = TRUE]
Walk(n, g) == g = [i \in 0..n |-> IF i = 0 THEN Base ELSE RetainAt(g[i - 1], i - 1)]

LEMMA WalkExists == \A n \in Nat : \E g : Walk(n, g)
<1>. DEFINE Bad == {n \in Nat : ~\E g : Walk(n, g)}
<1>. SUFFICES ASSUME Bad # {} PROVE FALSE
  OBVIOUS
<1>1. PICK n \in Bad : \A m \in Bad : n <= m
  <2>1. Bad \in SUBSET Nat
    OBVIOUS
  <2>. HIDE DEF Bad
  <2>. QED  BY <2>1, Least
<1>2. n \in Nat /\ ~\E g : Walk(n, g)
  BY <1>1
<1>3. CASE n = 0
  <2>. DEFINE g == [i \in 0..0 |-> Base]
  <2>1. Walk(0, g)
    BY DEF Walk
  <2>. QED  BY <1>2, <1>3, <2>1
<1>4. CASE n # 0
  <2>1. n - 1 \in Nat /\ n - 1 \notin Bad
    BY <1>1, <1>2, <1>4
  <2>2. PICK f : Walk(n - 1, f)
    BY <2>1
  <2>. DEFINE g == [i \in 0..n |-> IF i = n THEN RetainAt(f[n - 1], n - 1) ELSE f[i]]
  <2>3. \A i \in 0..n : g[i] = IF i = 0 THEN Base ELSE RetainAt(g[i - 1], i - 1)
    <3>1. \A i \in 0..(n - 1) : f[i] = IF i = 0 THEN Base ELSE RetainAt(f[i - 1], i - 1)
      BY <2>2 DEF Walk
    <3>2. \A i \in 0..(n - 1) : g[i] = f[i]
      BY <1>2
    <3>3. g[n] = RetainAt(f[n - 1], n - 1)
      BY <1>2
    <3>4. g[n] = RetainAt(g[n - 1], n - 1)
      BY <1>2, <1>4, <3>2, <3>3
    <3>. HIDE DEF g
    <3>5. ASSUME NEW i \in 0..(n - 1) PROVE g[i] = IF i = 0 THEN Base ELSE RetainAt(g[i - 1], i - 1)
      <4>1. CASE i = 0
        BY <1>2, <1>4, <3>1, <3>2, <4>1
      <4>2. CASE i # 0
        <5>1. i - 1 \in 0..(n - 1)
          BY <4>2
        <5>2. g[i - 1] = f[i - 1] /\ g[i] = f[i]
          BY <3>2, <5>1
        <5>. QED  BY <3>1, <4>2, <5>2
      <4>. QED  BY <4>1, <4>2
    <3>. QED  BY <1>2, <1>4, <3>4, <3>5
  <2>4. Walk(n, g)
    <3>1. g = [i \in 0..n |-> g[i]]
      OBVIOUS
    <3>. HIDE DEF g
    <3>. QED  BY <2>3, <3>1 DEF Walk
  <2>. QED  BY <1>2, <2>4
<1>. QED  BY <1>3, <1>4

\* The answers of one round: the range, or an empty body.
Answered ==
    /\ DOMAIN reads \subseteq Ranges \cup {SizeRequest}
    /\ \A r \in DOMAIN reads : reads[r] \in {NoBytes, Body(r)}
    /\ \A r, s \in DOMAIN reads : r[1] = s[1] => r = s

LEMMA RetainAtIs ==
    ASSUME NEW known, RecordOK(known), NEW i \in 0..(Size - 1), Answered
    PROVE  /\ RecordOK(RetainAt(known, i))
           /\ \A f \in Ranges : Whole(known, f) => Whole(RetainAt(known, i), f)
           /\ \A r \in DOMAIN reads :
                 r[1] = i /\ reads[r] = Body(r) => Whole(RetainAt(known, i), r)
<1>. DEFINE those == {r \in DOMAIN reads : r[1] = i}
<1>1. CASE those = {}
  <2>1. RetainAt(known, i) = known
    BY <1>1 DEF RetainAt
  <2>. QED  BY <1>1, <2>1
<1>2. CASE those # {}
  <2>. DEFINE r == CHOOSE s \in those : TRUE
  <2>1. r \in those
    BY <1>2
  <2>2. RetainAt(known, i) = Retain(known, r, reads[r])
    BY <1>2 DEF RetainAt
  <2>. HIDE DEF r
  <2>3. r \in DOMAIN reads /\ r[1] = i
    BY <2>1
  <2>4. r \in Ranges
    BY <2>3, PumpAssumption DEF Answered, SizeRequest
  <2>5. reads[r] \in {NoBytes, Body(r)}
    BY <2>3 DEF Answered
  <2>6. /\ RecordOK(Retain(known, r, reads[r]))
        /\ \A f \in Ranges : Whole(known, f) => Whole(Retain(known, r, reads[r]), f)
        /\ reads[r] = Body(r) => Whole(Retain(known, r, reads[r]), r)
    BY <2>4, <2>5, RetainIs
  <2>7. \A s \in DOMAIN reads : s[1] = i => s = r
    BY <2>3 DEF Answered
  <2>. QED  BY <2>2, <2>6, <2>7
<1>. QED  BY <1>1, <1>2

LEMMA RetainedIs ==
    ASSUME RecordOK(rec), Answered
    PROVE  /\ RecordOK(Retained)
           /\ \A f \in Ranges : Whole(rec, f) => Whole(Retained, f)
           /\ \A r \in DOMAIN reads \cap Ranges : reads[r] = Body(r) => Whole(Retained, r)
<1>. DEFINE known[i \in 0..Size] == IF i = 0 THEN Base ELSE RetainAt(known[i - 1], i - 1)
<1>1. Size \in Nat \ {0}
  BY PumpAssumption
<1>2. Retained = known[Size]
  BY DEF Retained, Base
<1>3. known = CHOOSE g : Walk(Size, g)
  BY DEF Walk
<1>. HIDE DEF known
<1>4. Walk(Size, known)
  BY <1>1, <1>3, WalkExists
<1>5. known[0] = Base /\ \A i \in 1..Size : known[i] = RetainAt(known[i - 1], i - 1)
  <2>1. \A i \in 0..Size : known[i] = IF i = 0 THEN Base ELSE RetainAt(known[i - 1], i - 1)
    BY <1>4 DEF Walk
  <2>. QED  BY <1>1, <2>1
<1>. DEFINE Good(i) ==
                /\ RecordOK(known[i])
                /\ \A f \in Ranges : Whole(rec, f) => Whole(known[i], f)
                /\ \A r \in DOMAIN reads \cap Ranges :
                      r[1] < i /\ reads[r] = Body(r) => Whole(known[i], r)
            T == {i \in 0..Size : Good(i)}
<1>6. Good(0)
  <2>1. RecordOK(Base) /\ \A f : Whole(rec, f) <=> Whole(Base, f)
    BY DEF RecordOK, Records, Base, Whole
  <2>2. \A r \in Ranges : ~(r[1] < 0)
    BY RangeIs
  <2>. QED  BY <1>5, <2>1, <2>2
<1>7. ASSUME NEW i \in 1..Size, Good(i - 1) PROVE Good(i)
  <2>. DEFINE k == known[i - 1]
              next == RetainAt(k, i - 1)
  <2>1. known[i] = next /\ i - 1 \in 0..(Size - 1)
    BY <1>1, <1>5
  <2>2. /\ RecordOK(k)
        /\ \A f \in Ranges : Whole(rec, f) => Whole(k, f)
        /\ \A r \in DOMAIN reads \cap Ranges : r[1] < i - 1 /\ reads[r] = Body(r) => Whole(k, r)
    BY <1>7
  <2>. HIDE DEF k
  <2>3. /\ RecordOK(next)
        /\ \A f \in Ranges : Whole(k, f) => Whole(next, f)
        /\ \A r \in DOMAIN reads : r[1] = i - 1 /\ reads[r] = Body(r) => Whole(next, r)
    BY <2>1, <2>2, RetainAtIs
  <2>. HIDE DEF next
  <2>4. \A r \in Ranges : r[1] < i => r[1] < i - 1 \/ r[1] = i - 1
    BY RangeIs
  <2>5. \A r \in DOMAIN reads \cap Ranges : r[1] < i /\ reads[r] = Body(r) => Whole(next, r)
    <3>. SUFFICES ASSUME NEW r \in DOMAIN reads, r \in Ranges, r[1] < i, reads[r] = Body(r)
                  PROVE  Whole(next, r)
      OBVIOUS
    <3>1. CASE r[1] < i - 1
      BY <2>2, <2>3, <3>1
    <3>2. CASE r[1] = i - 1
      BY <2>3, <3>2
    <3>. QED  BY <2>4, <3>1, <3>2
  <2>6. \A f \in Ranges : Whole(rec, f) => Whole(next, f)
    BY <2>2, <2>3
  <2>7. /\ RecordOK(known[i])
        /\ \A f \in Ranges : Whole(rec, f) => Whole(known[i], f)
    BY <2>1, <2>3, <2>6, Zenon
  <2>8. \A r \in DOMAIN reads \cap Ranges : r[1] < i /\ reads[r] = Body(r) => Whole(known[i], r)
    BY <2>1, <2>5, Zenon
  <2>. QED  BY <2>7, <2>8, Zenon
<1>8. 0..Size \subseteq T
  <2>1. 0 \in T
    BY <1>1, <1>6
  <2>2. \A i \in 1..Size : i - 1 \in T => i \in T
    BY <1>1, <1>7
  <2>. HIDE DEF T
  <2>. QED  BY <1>1, <2>1, <2>2, UpTo
<1>9. Good(Size)
  <2>1. Size \in T
    <3>. HIDE DEF T
    <3>. QED  BY <1>1, <1>8
  <2>. QED  BY <2>1
<1>10. \A r \in Ranges : r[1] < Size
  BY <1>1, RangeIs
<1>11. \A r \in DOMAIN reads \cap Ranges : reads[r] = Body(r) => Whole(known[Size], r)
  BY <1>9, <1>10
<1>12. RecordOK(known[Size]) /\ \A f \in Ranges : Whole(rec, f) => Whole(known[Size], f)
  BY <1>9
<1>. QED  BY <1>2, <1>11, <1>12, Zenon
-----------------------------------------------------------------------------
(* What a pump asks for, and what a page finds. *)

LEMMA CoveredIs ==
    ASSUME NEW r \in Ranges
    PROVE  \A i : i \in Covers(r) <=> i \in Int /\ r[1] <= i /\ i < r[1] + r[2]
BY RangeIs DEF Covers

LEMMA CoalescedIs ==
    ASSUME NEW R \in SUBSET Ranges
    PROVE  /\ Coalesced(R) \in SUBSET Ranges
           /\ \A r, s \in Coalesced(R) : r[1] = s[1] => r = s
           /\ R # {} => Coalesced(R) # {}
<1>. DEFINE wanted == UNION {Covers(r) : r \in R}
            span == wanted \cup
                {i \in File : \E a, b \in wanted : a < i /\ i < b /\ b - a - 1 <= Gap}
<1>1. Coalesced(R) = {r \in Ranges : /\ Covers(r) \subseteq span
                                     /\ r[1] - 1 \notin span /\ r[1] + r[2] \notin span}
  BY DEF Coalesced
<1>2. span \in SUBSET File /\ (R # {} => span # {})
  <2>1. \A r \in R : Covers(r) \subseteq File /\ r[1] \in Covers(r)
    BY CoveredIs, RangeIs, PumpAssumption DEF File
  <2>. QED  BY <2>1
<1>. HIDE DEF span
<1>3. ASSUME NEW r \in Coalesced(R), NEW s \in Coalesced(R), r[1] = s[1] PROVE r = s
  <2>1. r \in Ranges /\ s \in Ranges
    BY <1>1
  <2>2. /\ r[1] \in Nat /\ r[2] \in Nat \ {0} /\ r = <<r[1], r[2]>>
        /\ s[1] \in Nat /\ s[2] \in Nat \ {0} /\ s = <<s[1], s[2]>>
    BY <2>1, RangeIs
  <2>3. r[1] + r[2] \notin Covers(s) /\ s[1] + s[2] \notin Covers(r)
    BY <1>1
  <2>4. ~(r[1] + r[2] < s[1] + s[2]) /\ ~(s[1] + s[2] < r[1] + r[2])
    BY <1>3, <2>1, <2>2, <2>3, CoveredIs
  <2>. QED  BY <1>3, <2>2, <2>4
<1>4. ASSUME R # {} PROVE Coalesced(R) # {}
  <2>1. PICK lo \in span : \A i \in span : lo <= i
    <3>1. span \in SUBSET Nat /\ span # {}
      BY <1>2, <1>4, PumpAssumption DEF File
    <3>. QED  BY <3>1, Least
  <2>2. lo \in Nat /\ lo < Size /\ Size \notin span
    BY <1>2, <2>1, PumpAssumption DEF File
  <2>. DEFINE past == {i \in 0..Size : i > lo /\ i \notin span}
  <2>3. PICK hi \in past : \A i \in past : hi <= i
    <3>1. past \in SUBSET Nat /\ Size \in past
      BY <2>2, PumpAssumption
    <3>. HIDE DEF past
    <3>. QED  BY <3>1, Least
  <2>4. hi \in 0..Size /\ hi > lo /\ hi \notin span
    BY <2>3
  <2>. DEFINE r == <<lo, hi - lo>>
  <2>5. r \in Ranges /\ r[1] = lo /\ r[1] + r[2] = hi
    BY <2>2, <2>4, IsRange, PumpAssumption
  <2>6. \A i \in Covers(r) : i \in span
    <3>. SUFFICES ASSUME NEW i \in Covers(r) PROVE i \in span
      OBVIOUS
    <3>1. i \in Int /\ lo <= i /\ i < hi
      BY <2>5, CoveredIs
    <3>2. i = lo \/ i \notin past
      BY <2>2, <2>3, <2>4, <3>1
    <3>. QED  BY <2>1, <2>2, <2>4, <3>1, <3>2, PumpAssumption
  <2>7. lo - 1 \notin span
    BY <2>1, <2>2
  <2>8. r \in Coalesced(R)
    <3>. HIDE DEF r
    <3>. QED  BY <1>1, <2>4, <2>5, <2>6, <2>7
  <2>. QED  BY <2>8
<1>. QED  BY <1>1, <1>3, <1>4

\* Bytes fetched one by one were fetched as one range, once the ranges that touch
\* are merged.
LEMMA AllFetched ==
    ASSUME RecordOK(rec), NEW r \in Ranges,
           \A i \in Covers(r) : \E f \in rec.fetched : i \in Covers(f)
    PROVE  EverFetched(r)
<1>1. r[1] \in Nat /\ r[2] \in Nat \ {0}
  BY RangeIs
<1>2. rec.fetched \in SUBSET Ranges /\ Separate(rec.fetched)
  BY DEF RecordOK, Records
<1>3. \A f \in rec.fetched : f[1] \in Nat /\ f[2] \in Nat \ {0}
  BY <1>2, RangeIs
<1>4. \A k \in 0..(r[2] - 1) : \E g \in rec.fetched : r[1] + k \in Covers(g)
  <2>1. \A k \in 0..(r[2] - 1) : r[1] + k \in Covers(r)
    BY <1>1, CoveredIs
  <2>. QED  BY <2>1
<1>5. PICK f \in rec.fetched : r[1] + 0 \in Covers(f)
  BY <1>1, <1>4
<1>. DEFINE T == {k \in 0..(r[2] - 1) : r[1] + k \in Covers(f)}
<1>6. 0..(r[2] - 1) \subseteq T
  <2>1. 0 \in T
    BY <1>1, <1>5
  <2>2. ASSUME NEW k \in 1..(r[2] - 1), k - 1 \in T PROVE k \in T
    <3>1. PICK g \in rec.fetched : r[1] + k \in Covers(g)
      BY <1>1, <1>4
    <3>2. g[1] <= r[1] + k /\ r[1] + k < g[1] + g[2]
      BY <1>2, <3>1, CoveredIs
    <3>3. f[1] <= r[1] + (k - 1) /\ r[1] + (k - 1) < f[1] + f[2]
      BY <1>2, <2>2, CoveredIs
    <3>4. Touch(f, g)
      BY <1>1, <1>3, <3>2, <3>3 DEF Touch
    <3>5. f = g
      BY <1>2, <3>4 DEF Separate
    <3>. QED  BY <1>1, <3>1, <3>5
  <2>. HIDE DEF T
  <2>. QED  BY <1>1, <2>1, <2>2, UpTo
<1>7. r[1] + 0 \in Covers(f) /\ r[1] + (r[2] - 1) \in Covers(f)
  <2>1. r[2] - 1 \in T
    <3>. HIDE DEF T
    <3>. QED  BY <1>1, <1>6
  <2>. QED  BY <1>5, <2>1
<1>8. Within(r, f)
  BY <1>1, <1>2, <1>3, <1>7, CoveredIs DEF Within
<1>. QED  BY <1>8 DEF EverFetched

LEMMA BytesAtIs ==
    ASSUME NEW r \in Ranges, CacheOK, RecordOK(rec)
    PROVE  BytesAt(r) \in {Miss, Body(r)}
<1>1. rec.jobs \in Seq(Ranges) /\ rec.resident \in Seq(Chunk)
  BY DEF RecordOK, Records
<1>2. ReadNow(r) \in {Miss, Body(r)} /\ FromCachedJobs(r) \in {Miss, Body(r)}
  BY <1>1, ReadNowIs
<1>3. CASE Kept(r) = {}
  BY <1>2, <1>3 DEF BytesAt
<1>4. CASE Kept(r) # {}
  <2>. DEFINE i == CHOOSE k \in Kept(r) : \A l \in Kept(r) : k <= l
              c == rec.resident[i]
  <2>1. i \in Kept(r)
    <3>1. Kept(r) \in SUBSET Nat
      BY <1>1 DEF Kept
    <3>2. \E k \in Kept(r) : \A l \in Kept(r) : k <= l
      BY <1>4, <3>1, Least
    <3>. QED  BY <3>2
  <2>2. BytesAt(r) = Sliced(c.buf, c.of, r)
    BY <1>4 DEF BytesAt
  <2>. HIDE DEF i
  <2>3. i \in 1..Len(rec.resident) /\ Within(r, c.of)
    BY <2>1 DEF Kept
  <2>4. c \in Chunk
    BY <1>1, <2>3
  <2>5. c.of \in Ranges /\ c.buf = Body(c.of)
    BY <2>3, <2>4 DEF RecordOK, Chunk
  <2>. HIDE DEF c
  <2>6. Sliced(Body(c.of), c.of, r) = Body(r)
    BY <2>3, <2>5, SlicedIs DEF c
  <2>. QED  BY <2>2, <2>5, <2>6
<1>. QED  BY <1>3, <1>4
-----------------------------------------------------------------------------
(***************************************************************************)
(* The inductive invariant.  Every byte held anywhere is the file's: in    *)
(* the engine, in the reads of a round, in the retained copies, in a cache *)
(* entry of full length.  A byte the engine holds was recorded as fetched, *)
(* and the recorded ranges neither overlap nor abut, so a range whose      *)
(* bytes are all held lies in one of them.  A read that came back empty is *)
(* the source's doing.                                                     *)
(***************************************************************************)
QueryOK(q) ==
    /\ q \in [wants : SUBSET Ranges, pages : SUBSET Ranges]
    /\ \A p \in q.pages : \E w \in q.wants : Within(p, w)

HeldOK ==
    /\ held \in [File -> Int]
    /\ \A i \in File : \/ held[i] = Absent
                       \/ held[i] = i /\ \E f \in rec.fetched : i \in Covers(f)

ReadsOK ==
    /\ DOMAIN reads \subseteq Ranges \cup {SizeRequest}
    /\ \A r \in DOMAIN reads : reads[r] \in {Miss, NoBytes, Body(r)}
    /\ \A r, s \in DOMAIN reads : r[1] = s[1] => r = s
    /\ \A r \in DOMAIN reads : r # SizeRequest /\ reads[r] = NoBytes => emptied
    /\ phase \in {"idle", "engine"} => DOMAIN reads = {}
    /\ phase = "pump" => DOMAIN reads # {}

SliceOK == slice.buf \in {NoBytes, Body(slice.of)}

IInv ==
    /\ QueryOK(query) /\ HeldOK /\ RecordOK(rec) /\ CacheOK /\ ReadsOK /\ SliceOK
    /\ error # "never fetched" /\ emptied \in BOOLEAN /\ BlameIsFair

LEMMA NoneReads == DOMAIN NoReads = {}
BY DEF NoReads

LEMMA NothingHeld == Nothing \in [File -> Int] /\ \A i \in File : Nothing[i] = Absent
BY DEF Nothing, Absent

LEMMA InitOK == Init => IInv
<1>. SUFFICES ASSUME Init PROVE IInv
  OBVIOUS
<1>1. QueryOK(query)
  BY DEF Init, QueryOK, NoQuery
<1>2. HeldOK
  BY NothingHeld DEF Init, HeldOK
<1>3. RecordOK(rec)
  BY DEF Init, RecordOK, Records, Separate
<1>4. CacheOK
  BY DEF Init, CacheOK, Spoilt
<1>5. ReadsOK
  BY NoneReads DEF Init, ReadsOK
<1>6. SliceOK
  BY DEF Init, SliceOK, NoSlice
<1>. QED  BY <1>1, <1>2, <1>3, <1>4, <1>5, <1>6 DEF Init, IInv, BlameIsFair

LEMMA EndKeeps ==
    ASSUME IInv, NEW kind, End(kind), kind # "never fetched",
           kind = "no progress" => emptied, UNCHANGED <<rec, cache, emptied>>
    PROVE  IInv'
<1>1. /\ phase' = "idle" /\ query' = NoQuery /\ held' = Nothing /\ slice' = NoSlice
      /\ reads' = NoReads /\ error' = kind
  BY DEF End
<1>2. QueryOK(query')
  BY <1>1 DEF QueryOK, NoQuery
<1>3. HeldOK'
  <2>1. held' = Nothing
    BY <1>1
  <2>. QED  BY <2>1, NothingHeld DEF HeldOK
<1>4. ReadsOK'
  BY <1>1, NoneReads DEF ReadsOK
<1>5. SliceOK'
  BY <1>1 DEF SliceOK, NoSlice
<1>6. CacheOK' /\ RecordOK(rec')
  BY DEF IInv, CacheOK
<1>. QED  BY <1>1, <1>2, <1>3, <1>4, <1>5, <1>6 DEF IInv, BlameIsFair

LEMMA StartKeeps ==
    ASSUME IInv, NEW q \in Queries, StartQuery(q)
    PROVE  IInv'
<1>1. QueryOK(query')
  BY PumpAssumption DEF StartQuery, QueryOK
<1>2. ReadsOK'
  BY DEF IInv, ReadsOK, StartQuery
<1>3. HeldOK' /\ CacheOK' /\ SliceOK' /\ RecordOK(rec')
  BY DEF IInv, HeldOK, CacheOK, SliceOK, StartQuery
<1>. QED  BY <1>1, <1>2, <1>3 DEF IInv, BlameIsFair, StartQuery

LEMMA PumpStartKeeps == ASSUME IInv, PumpStart PROVE IInv'
<1>1. QueryOK(query') /\ HeldOK' /\ CacheOK' /\ SliceOK' /\ RecordOK(rec')
  BY DEF IInv, HeldOK, CacheOK, SliceOK, PumpStart
<1>2. ReadsOK'
  <2>1. CASE rec.sized
    <3>1. reads' = [r \in Coalesced(Requests) |-> ReadNow(r)]
      BY <2>1 DEF PumpStart
    <3>2. Requests \in SUBSET Ranges /\ Requests # {}
      BY <2>1 DEF PumpStart, Requests, IInv, QueryOK
    <3>3. /\ Coalesced(Requests) \in SUBSET Ranges /\ Coalesced(Requests) # {}
          /\ \A r, s \in Coalesced(Requests) : r[1] = s[1] => r = s
      BY <3>2, CoalescedIs
    <3>4. rec.jobs \in Seq(Ranges) /\ CacheOK
      BY DEF IInv, RecordOK, Records
    <3>5. \A r \in DOMAIN reads' : reads'[r] \in {Miss, Body(r)} /\ reads'[r] # NoBytes
      <4>. SUFFICES ASSUME NEW r \in DOMAIN reads'
                    PROVE  reads'[r] \in {Miss, Body(r)} /\ reads'[r] # NoBytes
        OBVIOUS
      <4>1. r \in Ranges /\ reads'[r] = ReadNow(r)
        BY <3>1, <3>3
      <4>2. ReadNow(r) \in {Miss, Body(r)}
        BY <3>4, <4>1, ReadNowIs
      <4>. QED  BY <4>1, <4>2, BodyIs, NoBody
    <3>6. phase' = "pump"
      BY DEF PumpStart
    <3>7. DOMAIN reads' = Coalesced(Requests)
      BY <3>1
    <3>. QED  BY <3>3, <3>5, <3>6, <3>7 DEF ReadsOK
  <2>2. CASE ~rec.sized
    BY <2>2 DEF PumpStart, ReadsOK, Miss, NoBytes
  <2>. QED  BY <2>1, <2>2
<1>. QED  BY <1>1, <1>2 DEF IInv, BlameIsFair, PumpStart

LEMMA ReadAnsweredKeeps ==
    ASSUME IInv, NEW r \in DOMAIN reads, ReadAnswered(r)
    PROVE  IInv'
<1>1. /\ reads' = [reads EXCEPT ![r] = Body(r)] /\ cache' = Cached(r)
      /\ UNCHANGED <<phase, query, held, rec, slice, error, emptied>>
  BY DEF ReadAnswered
<1>2. r \in Ranges \/ r = SizeRequest
  BY DEF IInv, ReadsOK
<1>3. QueryOK(query') /\ HeldOK' /\ SliceOK' /\ RecordOK(rec')
  BY <1>1 DEF IInv, HeldOK, SliceOK
<1>4. CacheOK'
  <2>1. CASE r = SizeRequest
    BY <1>1, <2>1 DEF Cached, IInv, CacheOK
  <2>2. CASE r \in Ranges /\ r # SizeRequest
    <3>1. cache' = [cache EXCEPT ![r] = Body(r)]
      BY <1>1, <2>2 DEF Cached
    <3>2. Body(r) \in Seq(File)
      BY <2>2, BodyIs
    <3>. QED  BY <3>1, <3>2 DEF IInv, CacheOK, Spoilt
  <2>. QED  BY <1>2, <2>1, <2>2
<1>5. ReadsOK'
  <2>1. r # SizeRequest => Body(r) # NoBytes
    BY <1>2, BodyIs
  <2>. QED  BY <1>1, <2>1 DEF IInv, ReadsOK
<1>. QED  BY <1>1, <1>3, <1>4, <1>5 DEF IInv, BlameIsFair

LEMMA ReadEmptyKeeps ==
    ASSUME IInv, NEW r \in DOMAIN reads, ReadEmpty(r)
    PROVE  IInv'
<1>1. /\ reads' = [reads EXCEPT ![r] = NoBytes] /\ emptied' = TRUE
      /\ UNCHANGED <<phase, query, held, rec, cache, slice, error>>
  BY DEF ReadEmpty
<1>2. QueryOK(query') /\ HeldOK' /\ SliceOK' /\ RecordOK(rec') /\ CacheOK'
  BY <1>1 DEF IInv, HeldOK, SliceOK, CacheOK
<1>3. ReadsOK'
  BY <1>1 DEF IInv, ReadsOK
<1>. QED  BY <1>1, <1>2, <1>3 DEF IInv, BlameIsFair

LEMMA OthersKeep ==
    ASSUME IInv, NEW r \in Spoiled, Others(r)
    PROVE  IInv'
<1>1. PICK e \in {Miss, Body(r), Cut(r)} : cache' = [cache EXCEPT ![r] = e]
  BY DEF Others
<1>2. UNCHANGED <<phase, query, held, rec, reads, slice, error, emptied>>
  BY DEF Others
<1>3. r \in Ranges
  BY PumpAssumption
<1>4. CacheOK'
  <2>1. Body(r) \in Seq(File) /\ Cut(r) \in Seq(File)
    <3>1. r[2] \in Nat \ {0} /\ Body(r) \in Seq(File) /\ Len(Body(r)) = r[2]
      BY <1>3, RangeIs, BodyIs
    <3>2. \A t \in Seq(File) : SubSeq(t, 1, Len(t) - 1) \in Seq(File)
      OBVIOUS
    <3>. QED  BY <3>1, <3>2 DEF Cut
  <2>. QED  BY <1>1, <1>3, <2>1 DEF IInv, CacheOK, Spoilt
<1>5. QueryOK(query') /\ HeldOK' /\ SliceOK' /\ RecordOK(rec') /\ ReadsOK'
  BY <1>2 DEF IInv, HeldOK, SliceOK, ReadsOK
<1>. QED  BY <1>2, <1>4, <1>5 DEF IInv, BlameIsFair

LEMMA PumpEndKeeps == ASSUME IInv, PumpEnd PROVE IInv'
<1>1. /\ HeldOK /\ RecordOK(rec) /\ ReadsOK /\ phase = "pump"
      /\ \A r \in DOMAIN reads : reads[r] \in {NoBytes, Body(r)}
  BY DEF IInv, PumpEnd, Pending, ReadsOK
<1>2. Answered
  BY <1>1 DEF Answered, ReadsOK
<1>3. UNCHANGED <<cache, emptied>>
  BY DEF PumpEnd
<1>4. CASE NoProgress
  <2>1. PICK r \in DOMAIN reads : Len(reads[r]) # r[2]
    BY <1>1, <1>4 DEF NoProgress, Satisfied, ReadsOK
  <2>2. r # SizeRequest /\ r \in Ranges
    BY <1>1, <2>1, NoBody DEF ReadsOK, SizeRequest, NoBytes
  <2>3. reads[r] = NoBytes
    BY <1>1, <2>1, <2>2, BodyIs
  <2>4. emptied
    BY <1>1, <2>2, <2>3 DEF ReadsOK
  <2>5. End("no progress") /\ UNCHANGED rec
    BY <1>4 DEF PumpEnd
  <2>. QED  BY <1>3, <2>4, <2>5, EndKeeps
<1>5. CASE ~NoProgress
  <2>1. /\ phase' = "engine" /\ reads' = NoReads /\ held' = [i \in File |-> Inserted(i)]
        /\ rec' = Retained /\ UNCHANGED <<query, slice, error>>
    BY <1>5 DEF PumpEnd
  <2>2. /\ RecordOK(Retained)
        /\ \A f \in Ranges : Whole(rec, f) => Whole(Retained, f)
        /\ \A r \in DOMAIN reads \cap Ranges : reads[r] = Body(r) => Whole(Retained, r)
    BY <1>1, <1>2, RetainedIs
  <2>3. RecordOK(rec') /\ CacheOK' /\ QueryOK(query') /\ SliceOK'
    BY <1>3, <2>1, <2>2 DEF IInv, CacheOK, SliceOK
  <2>4. ReadsOK'
    BY <2>1, NoneReads DEF ReadsOK
  <2>5. rec.fetched \in SUBSET Ranges /\ rec'.fetched \in SUBSET Ranges
    BY <1>1, <2>3 DEF RecordOK, Records
  <2>6. ASSUME NEW i \in File, NEW r \in Ranges, i \in Covers(r), Whole(Retained, r)
        PROVE  \E f \in rec'.fetched : i \in Covers(f)
    <3>1. PICK f \in rec'.fetched : Within(r, f)
      BY <2>1, <2>6 DEF Whole
    <3>2. i \in Covers(f)
      BY <2>5, <2>6, <3>1, CoveredIs, RangeIs DEF Within
    <3>. QED  BY <3>2
  <2>7. ASSUME NEW i \in File
        PROVE  \/ Inserted(i) = Absent
               \/ Inserted(i) = i /\ \E f \in rec'.fetched : i \in Covers(f)
    <3>. DEFINE those == {r \in DOMAIN reads : r[1] <= i /\ i < r[1] + Len(reads[r])}
    <3>1. CASE held[i] # Absent
      <4>1. held[i] = i
        BY <1>1, <3>1 DEF HeldOK
      <4>2. PICK f \in rec.fetched : i \in Covers(f)
        BY <1>1, <3>1 DEF HeldOK
      <4>3. f \in Ranges /\ Within(f, f)
        BY <2>5, RangeIs DEF Within
      <4>4. Whole(Retained, f)
        BY <2>2, <4>3 DEF Whole
      <4>5. Inserted(i) = held[i]
        BY <3>1 DEF Inserted
      <4>. QED  BY <2>6, <4>1, <4>2, <4>3, <4>4, <4>5
    <3>2. CASE held[i] = Absent /\ those = {}
      BY <3>2 DEF Inserted
    <3>3. CASE held[i] = Absent /\ those # {}
      <4>. DEFINE r == CHOOSE s \in those : TRUE
      <4>1. r \in those
        BY <3>3
      <4>2. Inserted(i) = reads[r][i - r[1] + 1]
        BY <3>3 DEF Inserted
      <4>. HIDE DEF r
      <4>3. r \in DOMAIN reads /\ r[1] <= i /\ i < r[1] + Len(reads[r])
        BY <4>1
      <4>4. reads[r] # NoBytes
        <5>1. r \in Ranges \/ r = SizeRequest
          BY <1>1, <4>3 DEF ReadsOK
        <5>2. r[1] \in Nat /\ i \in Nat
          BY <5>1, RangeIs, PumpAssumption DEF SizeRequest, File
        <5>. QED  BY <4>3, <5>2 DEF NoBytes
      <4>5. reads[r] = Body(r) /\ r \in Ranges
        BY <1>1, <4>3, <4>4, NoBody DEF ReadsOK
      <4>6. /\ r[1] \in Nat /\ r[2] \in Nat /\ Len(Body(r)) = r[2] /\ i \in Nat
            /\ \A k \in 1..r[2] : Body(r)[k] = r[1] + k - 1
        BY <4>5, RangeIs, BodyIs, PumpAssumption DEF File
      <4>7. i - r[1] + 1 \in 1..r[2]
        BY <4>3, <4>5, <4>6
      <4>8. Inserted(i) = i /\ i \in Covers(r)
        BY <4>2, <4>3, <4>5, <4>6, <4>7, CoveredIs
      <4>9. Whole(Retained, r)
        BY <2>2, <4>3, <4>5
      <4>. QED  BY <2>6, <4>5, <4>8, <4>9
    <3>. QED  BY <3>1, <3>2, <3>3
  <2>8. HeldOK'
    <3>1. \A i \in File : Inserted(i) \in Int
      BY <2>7, PumpAssumption DEF File, Absent
    <3>. QED  BY <2>1, <2>7, <3>1 DEF HeldOK
  <2>. QED  BY <1>3, <2>1, <2>3, <2>4, <2>8 DEF IInv, BlameIsFair
<1>. QED  BY <1>4, <1>5

LEMMA InflatedKeeps ==
    ASSUME IInv, NEW r \in Ranges, NEW buf \in {NoBytes, Body(r)}, Inflated(r, buf)
    PROVE  QueryOK(query') /\ SliceOK'
<1>1. slice' = [of |-> r, buf |-> buf] /\ query' = [query EXCEPT !.pages = query.pages \ {r}]
  BY DEF Inflated
<1>. QED  BY <1>1 DEF IInv, QueryOK, SliceOK

LEMMA CodecKeeps ==
    ASSUME IInv, NEW r \in Ranges,
           Decompress(r) \/ DecompressReads(r) \/ DecompressResumes(r)
    PROVE  IInv'
<1>1. CASE Decompress(r)
  <2>1. BytesAt(r) \in {NoBytes, Body(r)}
    BY <1>1, BytesAtIs DEF Decompress, IInv
  <2>2. UNCHANGED <<phase, held, rec, cache, reads, error, emptied>>
    BY <1>1 DEF Decompress
  <2>3. QueryOK(query') /\ SliceOK'
    BY <1>1, <2>1, InflatedKeeps DEF Decompress
  <2>4. HeldOK' /\ RecordOK(rec') /\ CacheOK' /\ ReadsOK'
    BY <2>2 DEF IInv, HeldOK, CacheOK, ReadsOK
  <2>. QED  BY <2>2, <2>3, <2>4 DEF IInv, BlameIsFair
<1>2. CASE DecompressReads(r)
  <2>1. /\ phase' = "codec" /\ reads' = [s \in {r} |-> Miss]
        /\ UNCHANGED <<query, held, rec, cache, slice, error, emptied>>
    BY <1>2 DEF DecompressReads
  <2>2. QueryOK(query') /\ HeldOK' /\ RecordOK(rec') /\ CacheOK' /\ SliceOK'
    BY <2>1 DEF IInv, HeldOK, CacheOK, SliceOK
  <2>3. ReadsOK'
    BY <2>1, NoBody DEF ReadsOK
  <2>. QED  BY <2>1, <2>2, <2>3 DEF IInv, BlameIsFair
<1>3. CASE DecompressResumes(r)
  <2>1. r \in DOMAIN reads /\ reads[r] # Miss /\ UNCHANGED <<rec, cache, emptied>>
    BY <1>3 DEF DecompressResumes, Pending
  <2>2. reads[r] \in {NoBytes, Body(r)}
    BY <2>1 DEF IInv, ReadsOK
  <2>3. CASE reads[r] = NoBytes
    <3>1. End("codec")
      BY <1>3, <2>3 DEF DecompressResumes
    <3>. QED  BY <2>1, <3>1, EndKeeps
  <2>4. CASE reads[r] # NoBytes
    <3>1. /\ Inflated(r, reads[r]) /\ phase' = "engine" /\ reads' = NoReads
          /\ UNCHANGED <<held, error>>
      BY <1>3, <2>4 DEF DecompressResumes
    <3>2. QueryOK(query') /\ SliceOK'
      BY <2>2, <3>1, InflatedKeeps
    <3>3. ReadsOK'
      BY <3>1, NoneReads DEF ReadsOK
    <3>4. HeldOK' /\ RecordOK(rec') /\ CacheOK'
      BY <2>1, <3>1 DEF IInv, HeldOK, CacheOK
    <3>. QED  BY <2>1, <3>1, <3>2, <3>3, <3>4 DEF IInv, BlameIsFair
  <2>. QED  BY <2>3, <2>4
<1>. QED  BY <1>1, <1>2, <1>3

\* A page the engine scans to was fetched, so the host has never forgotten it.
LEMMA NeverRefused == ASSUME IInv, NEW r \in query.pages PROVE ~DecompressRefused(r)
<1>. SUFFICES ASSUME DecompressRefused(r) PROVE FALSE
  OBVIOUS
<1>1. Requests = {} /\ ~EverFetched(r)
  BY DEF DecompressRefused, Scanned
<1>2. PICK w \in query.wants : Within(r, w)
  BY DEF IInv, QueryOK
<1>3. r \in Ranges /\ w \in Ranges /\ ~Missing(w)
  BY <1>1 DEF IInv, QueryOK, Requests
<1>4. \A i \in Covers(r) : i \in Covers(w) /\ i \in File
  BY <1>2, <1>3, CoveredIs, RangeIs, PumpAssumption DEF Within, File
<1>5. \A i \in Covers(r) : \E f \in rec.fetched : i \in Covers(f)
  BY <1>3, <1>4 DEF Missing, IInv, HeldOK
<1>. QED  BY <1>1, <1>3, <1>5, AllFetched DEF IInv

LEMMA StepOK == IInv /\ [Next]_vars => IInv'
<1>. SUFFICES ASSUME IInv, [Next]_vars PROVE IInv'
  OBVIOUS
<1>1. CASE PumpStart
  BY <1>1, PumpStartKeeps
<1>2. CASE PumpEnd
  BY <1>2, PumpEndKeeps
<1>3. CASE Done
  BY <1>3, EndKeeps DEF Done
<1>4. ASSUME NEW r \in DOMAIN reads, ReadAnswered(r) PROVE IInv'
  BY <1>4, ReadAnsweredKeeps
<1>5. ASSUME NEW r \in DOMAIN reads, ReadEmpty(r) PROVE IInv'
  BY <1>5, ReadEmptyKeeps
<1>6. ASSUME NEW r \in DOMAIN reads, ReadFails(r) PROVE IInv'
  BY <1>6, EndKeeps DEF ReadFails
<1>7. ASSUME NEW r \in DOMAIN reads, DecompressResumes(r) PROVE IInv'
  <2>1. CASE r \in Ranges
    BY <1>7, <2>1, CodecKeeps
  <2>2. CASE r = SizeRequest
    <3>1. reads[r] = NoBytes
      BY <1>7, <2>2, NoBody DEF IInv, ReadsOK, DecompressResumes, Pending
    <3>2. End("codec") /\ UNCHANGED <<rec, cache, emptied>>
      BY <1>7, <3>1 DEF DecompressResumes
    <3>. QED  BY <3>2, EndKeeps
  <2>. QED  BY <2>1, <2>2 DEF IInv, ReadsOK
<1>8. ASSUME NEW r \in query.pages, Decompress(r) \/ DecompressReads(r) \/ DecompressRefused(r)
      PROVE  IInv'
  <2>1. r \in Ranges
    BY DEF IInv, QueryOK
  <2>. QED  BY <1>8, <2>1, CodecKeeps, NeverRefused
<1>9. ASSUME NEW q \in Queries, StartQuery(q) PROVE IInv'
  BY <1>9, StartKeeps
<1>10. ASSUME NEW r \in Spoiled, Others(r) PROVE IInv'
  BY <1>10, OthersKeep
<1>11. CASE UNCHANGED vars
  BY <1>11 DEF vars, IInv, HeldOK, CacheOK, ReadsOK, SliceOK, BlameIsFair
<1>. QED  BY <1>1, <1>2, <1>3, <1>4, <1>5, <1>6, <1>7, <1>8, <1>9, <1>10, <1>11 DEF Next, Runs

LEMMA Inductive == Spec => []IInv
BY InitOK, StepOK, PTL DEF Spec

(* The engine holds, and the codec inflates, the bytes of the file, for any *)
(* size, gap, ranges and limits, whatever others do to the cache.           *)
THEOREM OnlyTheFile == Spec => []HandsOverTheFile
<1>1. IInv => HandsOverTheFile
  BY DEF IInv, HeldOK, SliceOK, HandsOverTheFile
<1>. QED  BY <1>1, Inductive, PTL

(* The codec is never refused a page: what the engine scanned was recorded  *)
(* as fetched, in one range, however its fetches were coalesced.            *)
THEOREM PagesNotDisowned == Spec => []NeverDisowned
<1>1. IInv => NeverDisowned
  BY DEF IInv, NeverDisowned
<1>. QED  BY <1>1, Inductive, PTL

(* A query that is ended for want of progress was given an empty body by    *)
(* the source: no cache entry of the wrong length brings it about.          *)
THEOREM BlameFair == Spec => []BlameIsFair
<1>1. IInv => BlameIsFair
  BY DEF IInv
<1>. QED  BY <1>1, Inductive, PTL
=============================================================================
