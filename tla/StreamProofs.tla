---------------------------- MODULE StreamProofs ----------------------------
(***************************************************************************)
(* The operators that hand rows on as they come, for any input, however it *)
(* is cut into batches, any batch size and any pull that is interrupted:   *)
(* what has been returned is what should be returned of the rows pulled so *)
(* far.                                                                    *)
(***************************************************************************)
EXTENDS OneInput, SequenceTheorems, FiniteSetTheorems, WellFoundedInduction, TLAPS

\* Induction, over a set of numbers or of sequences.
LEMMA MinFinds ==
    ASSUME NEW S \in SUBSET Nat, S # {}
    PROVE  Min(S) \in S /\ \A j \in S : Min(S) <= j
<1>1. PICK i \in S : \A j \in S : ~ (<<j, i>> \in OpToRel(<, Nat))
  BY WFMin, NatLessThanWellFounded, Zenon
<1>2. \A j \in S : ~(j < i)
  BY <1>1 DEF OpToRel
<1>3. \E k \in S : \A j \in S : k =< j
  BY <1>2
<1>. QED  BY <1>3 DEF Min

LEMMA UpTo ==
    ASSUME NEW n \in Nat, NEW T, 0 \in T, \A i \in 1..n : i - 1 \in T => i \in T
    PROVE  0..n \subseteq T
<1>. DEFINE S == (0..n) \ T
<1>. SUFFICES ASSUME S # {} PROVE FALSE
  OBVIOUS
<1>1. S \in SUBSET Nat
  OBVIOUS
<1>2. PICK i \in S : \A j \in S : i <= j
  <2>. HIDE DEF S
  <2>. QED  BY <1>1, MinFinds
<1>3. i \in 1..n /\ i - 1 \in 0..n
  BY <1>2
<1>. QED  BY <1>2, <1>3

LEMMA GrownSequences ==
    ASSUME NEW T, NEW G, <<>> \in G, \A s \in Seq(T) : \A e \in T : s \in G => Append(s, e) \in G
    PROVE  Seq(T) \subseteq G
<1>. SUFFICES ASSUME NEW s \in Seq(T) PROVE s \in G
  OBVIOUS
<1>. DEFINE N == {k \in 0..Len(s) : SubSeq(s, 1, k) \in G}
<1>1. 0 \in N
  <2>1. SubSeq(s, 1, 0) = <<>> /\ 0 \in 0..Len(s)
    BY SubSeqEmpty, LenProperties
  <2>. QED  BY <2>1
<1>2. ASSUME NEW i \in 1..Len(s), i - 1 \in N PROVE i \in N
  <2>1. SubSeq(s, 1, i - 1) \in G /\ i - 1 \in 0..Len(s)
    BY <1>2
  <2>2. SubSeq(s, 1, i) = SubSeq(s, 1, i - 1) \o <<s[i]>>
    BY LenProperties, SubSeqRecursiveSecond
  <2>3. SubSeq(s, 1, i - 1) \in Seq(T) /\ s[i] \in T
    BY LenProperties, ElementOfSeq, SubSeqProperties
  <2>4. SubSeq(s, 1, i) = Append(SubSeq(s, 1, i - 1), s[i])
    BY <2>2, <2>3, AppendIsConcat
  <2>5. SubSeq(s, 1, i) \in G
    BY <2>1, <2>3, <2>4
  <2>6. i \in 0..Len(s)
    BY LenProperties
  <2>. QED  BY <2>5, <2>6
<1>3. Len(s) \in N
  <2>1. Len(s) \in Nat
    BY LenProperties
  <2>2. 0..Len(s) \subseteq N
    <3>. HIDE DEF N
    <3>. QED  BY <1>1, <1>2, <2>1, UpTo
  <2>3. Len(s) \in 0..Len(s)
    BY <2>1
  <2>. HIDE DEF N
  <2>. QED  BY <2>2, <2>3
<1>4. SubSeq(s, 1, Len(s)) = s
  BY SubSeqFull
<1>5. SubSeq(s, 1, Len(s)) \in G
  BY <1>3
<1>. QED  BY <1>4, <1>5

\* Three sequences one after the other.
Associates(x, y, z) == (x \o y) \o z = x \o (y \o z)

LEMMA Associative ==
    ASSUME NEW T, NEW x \in Seq(T), NEW y \in Seq(T), NEW z \in Seq(T) PROVE Associates(x, y, z)
BY ConcatAssociative DEF Associates
----------------------------------------------------------------------------
\* The rows of a sequence of batches: FlattenSeq is a recursive function, which
\* exists for every number of batches.
Flat(s, n, f) == f = [i \in 1..n |-> IF i = 1 THEN s[i] ELSE f[i - 1] \o s[i]]

LEMMA FlatExists == ASSUME NEW s PROVE \A n \in Nat : \E f : Flat(s, n, f)
<1>. DEFINE T == {n \in Nat : \E f : Flat(s, n, f)}
<1>1. 0 \in T
  <2>. DEFINE f == [i \in 1..0 |-> s[i]]
  <2>1. Flat(s, 0, f)
    BY DEF Flat
  <2>. QED  BY <2>1
<1>2. ASSUME NEW n \in Nat \ {0}, n - 1 \in T PROVE n \in T
  <2>1. PICK f : Flat(s, n - 1, f)
    BY <1>2
  <2>2. \A i \in 1..(n - 1) : f[i] = IF i = 1 THEN s[i] ELSE f[i - 1] \o s[i]
    BY <2>1 DEF Flat
  <2>. DEFINE g == [i \in 1..n |-> IF i = n THEN IF n = 1 THEN s[n] ELSE f[n - 1] \o s[n] ELSE f[i]]
  <2>3. (\A i \in 1..(n - 1) : g[i] = f[i]) /\ g[n] = IF n = 1 THEN s[n] ELSE f[n - 1] \o s[n]
    <3>1. n \in 1..n /\ \A i \in 1..(n - 1) : i \in 1..n /\ i # n
      OBVIOUS
    <3>. QED  BY <3>1
  <2>4. g = [i \in 1..n |-> g[i]]
    OBVIOUS
  <2>. HIDE DEF g
  <2>5. ASSUME NEW i \in 1..n PROVE g[i] = IF i = 1 THEN s[i] ELSE g[i - 1] \o s[i]
    <3>1. CASE i = n
      <4>1. n # 1 => n - 1 \in 1..(n - 1)
        OBVIOUS
      <4>. QED  BY <2>3, <3>1, <4>1
    <3>2. CASE i # n
      <4>1. i \in 1..(n - 1) /\ (i # 1 => i - 1 \in 1..(n - 1))
        BY <3>2
      <4>. QED  BY <2>2, <2>3, <4>1
    <3>. QED  BY <3>1, <3>2
  <2>6. Flat(s, n, g)
    BY <2>4, <2>5 DEF Flat
  <2>. QED  BY <2>6
<1>3. ASSUME NEW n \in Nat PROVE n \in T
  <2>1. 0..n \subseteq T
    <3>1. \A i \in 1..n : i - 1 \in T => i \in T
      BY <1>2
    <3>. HIDE DEF T
    <3>. QED  BY <1>1, <3>1, UpTo
  <2>. QED  BY <2>1
<1>. QED  BY <1>3

\* What the first k batches come to.
Upto(s, k) == IF k = 0 THEN <<>> ELSE (CHOOSE f : Flat(s, Len(s), f))[k]

LEMMA UptoIs ==
    ASSUME NEW T, NEW s \in Seq(Seq(T))
    PROVE  /\ Upto(s, 0) = <<>> /\ Upto(s, Len(s)) = FlattenSeq(s)
           /\ \A k \in 1..Len(s) : Upto(s, k) = Upto(s, k - 1) \o s[k]
           /\ \A k \in 0..Len(s) : Upto(s, k) \in Seq(T)
<1>. DEFINE n == Len(s)
            flatten[i \in 1..Len(s)] == IF i = 1 THEN s[i] ELSE flatten[i - 1] \o s[i]
<1>1. n \in Nat /\ \A k \in 1..n : s[k] \in Seq(T)
  OBVIOUS
<1>2. FlattenSeq(s) = IF n = 0 THEN s ELSE flatten[n]
  BY DEF FlattenSeq
<1>3. flatten = CHOOSE f : Flat(s, n, f)
  BY DEF Flat
<1>. HIDE DEF flatten
<1>4. \A k \in 1..n : Upto(s, k) = flatten[k]
  <2>1. \A k \in 1..n : k # 0
    OBVIOUS
  <2>2. \A k : k # 0 => Upto(s, k) = (CHOOSE f : Flat(s, n, f))[k]
    BY DEF Upto
  <2>. QED  BY <1>3, <2>1, <2>2
<1>5. Flat(s, n, flatten)
  BY <1>1, <1>3, FlatExists
<1>6. \A k \in 1..n : flatten[k] = IF k = 1 THEN s[k] ELSE flatten[k - 1] \o s[k]
  BY <1>5 DEF Flat
<1>7. Upto(s, 0) = <<>>
  BY DEF Upto
<1>8. ASSUME NEW k \in 1..n PROVE Upto(s, k) = Upto(s, k - 1) \o s[k]
  <2>1. CASE k = 1
    <3>1. \A x \in Seq(T) : <<>> \o x = x
      OBVIOUS
    <3>2. Upto(s, k) = s[1] /\ Upto(s, k - 1) = <<>> /\ s[k] = s[1]
      BY <1>4, <1>6, <1>7, <2>1
    <3>. QED  BY <1>1, <3>1, <3>2
  <2>2. CASE k # 1
    <3>1. k - 1 \in 1..n
      BY <1>1, <2>2
    <3>. QED  BY <1>4, <1>6, <2>2, <3>1
  <2>. QED  BY <2>1, <2>2
<1>9. \A k \in 0..n : Upto(s, k) \in Seq(T)
  <2>. DEFINE G == {k \in 0..n : Upto(s, k) \in Seq(T)}
  <2>1. 0 \in G
    <3>1. <<>> \in Seq(T) /\ 0 \in 0..n
      BY <1>1
    <3>. QED  BY <1>7, <3>1
  <2>2. ASSUME NEW k \in 1..n, k - 1 \in G PROVE k \in G
    <3>1. \A x, y \in Seq(T) : x \o y \in Seq(T)
      OBVIOUS
    <3>2. Upto(s, k - 1) \in Seq(T) /\ s[k] \in Seq(T)
      BY <1>1, <2>2
    <3>3. Upto(s, k) = Upto(s, k - 1) \o s[k]
      BY <1>8
    <3>4. Upto(s, k - 1) \o s[k] \in Seq(T)
      BY <3>1, <3>2
    <3>5. k \in 0..n
      OBVIOUS
    <3>. QED  BY <3>3, <3>4, <3>5
  <2>3. 0..n \subseteq G
    <3>. HIDE DEF G
    <3>. QED  BY <1>1, <2>1, <2>2, UpTo
  <2>. QED  BY <2>3
<1>10. Upto(s, n) = FlattenSeq(s)
  <2>1. CASE n = 0
    <3>1. s = <<>>
      BY <2>1
    <3>. QED  BY <1>2, <1>7, <2>1, <3>1
  <2>2. CASE n # 0
    BY <1>1, <1>2, <1>4, <2>2
  <2>. QED  BY <2>1, <2>2
<1>. QED  BY <1>7, <1>8, <1>9, <1>10


LEMMA RowsOfNone == Rows(<<>>) = <<>>
BY EmptySeq DEF Rows, FlattenSeq

\* One batch more adds its rows.
LEMMA RowsOfAppend ==
    ASSUME NEW T, NEW s \in Seq(Seq(T)), NEW b \in Seq(T)
    PROVE  Rows(Append(s, b)) = Rows(s) \o b /\ Rows(s) \in Seq(T)
<1>. DEFINE t == Append(s, b)
            n == Len(s)
            G == {k \in 0..n : Upto(t, k) = Upto(s, k)}
<1>1. /\ t \in Seq(Seq(T)) /\ n \in Nat /\ Len(t) = n + 1 /\ t[n + 1] = b
      /\ \A k \in 1..n : t[k] = s[k]
  BY AppendProperties, LenProperties
<1>. HIDE DEF t
<1>2. 0 \in G
  <2>1. Upto(t, 0) = <<>> /\ Upto(s, 0) = <<>>
    BY DEF Upto
  <2>. QED  BY <1>1, <2>1
<1>3. ASSUME NEW k \in 1..n, k - 1 \in G PROVE k \in G
  <2>1. k \in 1..Len(t) /\ k \in 1..Len(s) /\ k \in 0..n
    BY <1>1
  <2>2. Upto(t, k) = Upto(t, k - 1) \o t[k]
    BY <1>1, <2>1, UptoIs
  <2>3. Upto(s, k) = Upto(s, k - 1) \o s[k]
    BY <2>1, UptoIs
  <2>. QED  BY <1>1, <1>3, <2>1, <2>2, <2>3
<1>4. n \in G
  <2>1. 0..n \subseteq G
    <3>. HIDE DEF G
    <3>. QED  BY <1>1, <1>2, <1>3, UpTo
  <2>2. n \in 0..n
    BY <1>1
  <2>. HIDE DEF G
  <2>. QED  BY <2>1, <2>2
<1>5. Upto(t, n + 1) = Upto(t, n) \o b
  <2>1. n + 1 \in 1..Len(t) /\ (n + 1) - 1 = n
    BY <1>1
  <2>2. Upto(t, n + 1) = Upto(t, (n + 1) - 1) \o t[n + 1]
    <3>1. t \in Seq(Seq(T))
      BY <1>1
    <3>2. \A k \in 1..Len(t) : Upto(t, k) = Upto(t, k - 1) \o t[k]
      BY <3>1, UptoIs
    <3>. QED  BY <2>1, <3>2
  <2>. QED  BY <1>1, <2>1, <2>2
<1>6. Upto(t, n + 1) = FlattenSeq(t) /\ Upto(s, n) = FlattenSeq(s) /\ Upto(s, n) \in Seq(T)
  <2>1. Upto(t, Len(t)) = FlattenSeq(t)
    <3>1. t \in Seq(Seq(T))
      BY <1>1
    <3>. QED  BY <3>1, UptoIs
  <2>2. Upto(s, Len(s)) = FlattenSeq(s) /\ \A k \in 0..Len(s) : Upto(s, k) \in Seq(T)
    BY UptoIs
  <2>3. Len(s) \in 0..Len(s)
    BY <1>1
  <2>. QED  BY <1>1, <2>1, <2>2, <2>3
<1>7. Rows(t) = Upto(t, n + 1) /\ Rows(s) = Upto(s, n)
  BY <1>6 DEF Rows
<1>8. Upto(t, n) = Upto(s, n)
  BY <1>4
<1>9. Rows(t) = Rows(s) \o b /\ Rows(s) \in Seq(T)
  BY <1>5, <1>6, <1>7, <1>8
<1>. QED  BY <1>9 DEF t

LEMMA RowsOfBoth ==
    ASSUME NEW T, NEW s \in Seq(Seq(T)), NEW t \in Seq(Seq(T))
    PROVE  Rows(s \o t) = Rows(s) \o Rows(t)
<1>. DEFINE G == {u \in Seq(Seq(T)) : Rows(s \o u) = Rows(s) \o Rows(u)}
<1>1. <<>> \in G
  <2>1. <<>> \in Seq(Seq(T)) /\ s \o <<>> = s
    BY EmptySeq, ConcatEmptySeq
  <2>2. Rows(s) \in Seq(T)
    BY EmptySeq, RowsOfAppend
  <2>3. Rows(s) \o <<>> = Rows(s)
    BY <2>2, ConcatEmptySeq
  <2>. QED  BY <2>1, <2>3, RowsOfNone
<1>2. ASSUME NEW u \in Seq(Seq(T)), NEW b \in Seq(T), u \in G PROVE Append(u, b) \in G
  <2>1. Append(u, b) \in Seq(Seq(T)) /\ s \o u \in Seq(Seq(T))
    BY AppendProperties, ConcatProperties
  <2>2. s \o Append(u, b) = Append(s \o u, b)
    <3>1. Append(u, b) = u \o <<b>> /\ Append(s \o u, b) = (s \o u) \o <<b>> /\ <<b>> \in Seq(Seq(T))
      BY <2>1, AppendIsConcat
    <3>2. (s \o u) \o <<b>> = s \o (u \o <<b>>)
      <4>. DEFINE one == <<b>>
      <4>1. one \in Seq(Seq(T))
        BY <3>1
      <4>. HIDE DEF one
      <4>2. Associates(s, u, one)
        BY <4>1, Associative
      <4>. QED  BY <4>2 DEF one, Associates
    <3>. QED  BY <3>1, <3>2
  <2>3. /\ Rows(Append(s \o u, b)) = Rows(s \o u) \o b /\ Rows(Append(u, b)) = Rows(u) \o b
        /\ Rows(s) \in Seq(T) /\ Rows(u) \in Seq(T)
    BY <2>1, RowsOfAppend
  <2>4. (Rows(s) \o Rows(u)) \o b = Rows(s) \o (Rows(u) \o b)
    <3>. DEFINE x == Rows(s)
                y == Rows(u)
    <3>1. x \in Seq(T) /\ y \in Seq(T)
      BY <2>3
    <3>. HIDE DEF x, y
    <3>2. Associates(x, y, b)
      BY <3>1, Associative
    <3>. QED  BY <3>2 DEF x, y, Associates
  <2>. QED  BY <1>2, <2>1, <2>2, <2>3, <2>4
<1>3. Seq(Seq(T)) \subseteq G
  <2>. HIDE DEF G
  <2>. QED  BY <1>1, <1>2, GrownSequences
<1>. QED  BY <1>3
----------------------------------------------------------------------------
\* Kept picks rows from each of two sequences as it picks them from both.
Pieces(rows, chosen) == [i \in DOMAIN rows |-> IF i \in chosen THEN <<rows[i]>> ELSE <<>>]

LEMMA PiecesType ==
    ASSUME NEW T, NEW s \in Seq(T), NEW c
    PROVE  Pieces(s, c) \in Seq(Seq(T)) /\ Len(Pieces(s, c)) = Len(s) /\ Kept(s, c) = Rows(Pieces(s, c))
<1>1. Len(s) \in Nat /\ DOMAIN s = 1..Len(s) /\ \A i \in 1..Len(s) : s[i] \in T
  BY LenProperties
<1>2. \A i \in 1..Len(s) : (IF i \in c THEN <<s[i]>> ELSE <<>>) \in Seq(T)
  BY <1>1
<1>3. Pieces(s, c) = [i \in 1..Len(s) |-> IF i \in c THEN <<s[i]>> ELSE <<>>]
  BY <1>1 DEF Pieces
<1>4. Pieces(s, c) \in [1..Len(s) -> Seq(T)]
  BY <1>2, <1>3
<1>5. Pieces(s, c) \in Seq(Seq(T)) /\ Len(Pieces(s, c)) = Len(s)
  BY <1>1, <1>4
<1>. QED  BY <1>5 DEF Kept, Pieces

LEMMA KeptType == ASSUME NEW T, NEW s \in Seq(T), NEW c PROVE Kept(s, c) \in Seq(T)
BY PiecesType, RowsOfAppend, EmptySeq

\* Two choices are the same, up to n or at n positions after the m-th.
Same(n, c, d) == \A i \in 1..n : i \in c <=> i \in d
Shifted(m, n, c, d) == \A i \in 1..n : m + i \in c <=> i \in d

LEMMA KeptOfBoth ==
    ASSUME NEW T, NEW s \in Seq(T), NEW t \in Seq(T), NEW c, NEW d, NEW e,
           Same(Len(s), c, d), Shifted(Len(s), Len(t), c, e)
    PROVE  Kept(s \o t, c) = Kept(s, d) \o Kept(t, e)
<1>0. /\ \A i \in 1..Len(s) : i \in c <=> i \in d
      /\ \A i \in 1..Len(t) : Len(s) + i \in c <=> i \in e
  BY DEF Same, Shifted
<1>. DEFINE p == Pieces(s \o t, c)
            q == Pieces(s, d) \o Pieces(t, e)
<1>1. /\ s \o t \in Seq(T) /\ Len(s \o t) = Len(s) + Len(t)
      /\ \A i \in 1..(Len(s) + Len(t)) : (s \o t)[i] = IF i <= Len(s) THEN s[i] ELSE t[i - Len(s)]
      /\ Len(s) \in Nat /\ Len(t) \in Nat
  BY ConcatProperties, LenProperties
<1>2. p \in Seq(Seq(T)) /\ Len(p) = Len(s) + Len(t) /\ Kept(s \o t, c) = Rows(p)
  BY <1>1, PiecesType
<1>3. /\ Pieces(s, d) \in Seq(Seq(T)) /\ Len(Pieces(s, d)) = Len(s) /\ Kept(s, d) = Rows(Pieces(s, d))
      /\ Pieces(t, e) \in Seq(Seq(T)) /\ Len(Pieces(t, e)) = Len(t) /\ Kept(t, e) = Rows(Pieces(t, e))
  BY PiecesType
<1>4. /\ q \in Seq(Seq(T)) /\ Len(q) = Len(s) + Len(t)
      /\ \A i \in 1..(Len(s) + Len(t)) :
           q[i] = IF i <= Len(s) THEN Pieces(s, d)[i] ELSE Pieces(t, e)[i - Len(s)]
  <2>. DEFINE v == Pieces(s, d)
              w == Pieces(t, e)
  <2>1. v \in Seq(Seq(T)) /\ w \in Seq(Seq(T)) /\ Len(v) = Len(s) /\ Len(w) = Len(t)
    BY <1>3
  <2>. HIDE DEF v, w
  <2>2. /\ v \o w \in Seq(Seq(T)) /\ Len(v \o w) = Len(v) + Len(w)
        /\ \A i \in 1..(Len(v) + Len(w)) : (v \o w)[i] = IF i <= Len(v) THEN v[i] ELSE w[i - Len(v)]
    BY <2>1, ConcatProperties
  <2>3. /\ v \o w \in Seq(Seq(T)) /\ Len(v \o w) = Len(s) + Len(t)
        /\ \A i \in 1..(Len(s) + Len(t)) : (v \o w)[i] = IF i <= Len(s) THEN v[i] ELSE w[i - Len(s)]
    BY <2>1, <2>2
  <2>. QED  BY <2>3 DEF v, w
<1>5. DOMAIN (s \o t) = 1..(Len(s) + Len(t)) /\ DOMAIN s = 1..Len(s) /\ DOMAIN t = 1..Len(t)
  BY <1>1, LenProperties
<1>6. ASSUME NEW i \in 1..(Len(s) + Len(t)) PROVE p[i] = q[i]
  <2>1. p[i] = IF i \in c THEN <<(s \o t)[i]>> ELSE <<>>
    BY <1>5 DEF Pieces
  <2>2. CASE i <= Len(s)
    <3>1. i \in 1..Len(s) /\ (i \in c <=> i \in d)
      BY <1>0, <1>1, <2>2
    <3>2. Pieces(s, d)[i] = IF i \in d THEN <<s[i]>> ELSE <<>>
      BY <1>5, <3>1 DEF Pieces
    <3>3. q[i] = Pieces(s, d)[i] /\ (s \o t)[i] = s[i]
      BY <1>1, <1>4, <2>2
    <3>. HIDE DEF p, q
    <3>. QED  BY <2>1, <3>1, <3>2, <3>3
  <2>3. CASE i > Len(s)
    <3>1. i - Len(s) \in 1..Len(t) /\ Len(s) + (i - Len(s)) = i /\ ~(i <= Len(s))
      BY <1>1, <2>3
    <3>2. Pieces(t, e)[i - Len(s)] = IF i - Len(s) \in e THEN <<t[i - Len(s)]>> ELSE <<>>
      BY <1>5, <3>1 DEF Pieces
    <3>3. q[i] = Pieces(t, e)[i - Len(s)] /\ (s \o t)[i] = t[i - Len(s)]
      BY <1>1, <1>4, <3>1
    <3>4. i \in c <=> i - Len(s) \in e
      BY <1>0, <3>1
    <3>. HIDE DEF p, q
    <3>. QED  BY <2>1, <3>2, <3>3, <3>4
  <2>4. i <= Len(s) \/ i > Len(s)
    BY <1>1
  <2>. HIDE DEF p, q
  <2>. QED  BY <2>2, <2>3, <2>4
<1>7. p = q
  <2>. HIDE DEF p, q
  <2>. QED  BY <1>2, <1>4, <1>6, SeqEqual
<1>8. Rows(q) = Rows(Pieces(s, d)) \o Rows(Pieces(t, e))
  BY <1>3, RowsOfBoth
<1>. QED  BY <1>2, <1>3, <1>7, <1>8

\* A single row is kept or not.
LEMMA KeptOfOne ==
    ASSUME NEW T, NEW e \in T, NEW c
    PROVE  Kept(<<e>>, c) = IF 1 \in c THEN <<e>> ELSE <<>>
<1>. DEFINE b == IF 1 \in c THEN <<e>> ELSE <<>>
<1>1. <<e>> \in Seq(T) /\ Len(<<e>>) = 1 /\ <<e>>[1] = e
  OBVIOUS
<1>2. b \in Seq(T) /\ Append(<<>>, b) \in Seq(Seq(T)) /\ Append(<<>>, b)[1] = b /\ Len(Append(<<>>, b)) = 1
  OBVIOUS
<1>3. Pieces(<<e>>, c) = Append(<<>>, b)
  <2>1. Pieces(<<e>>, c) \in Seq(Seq(T)) /\ Len(Pieces(<<e>>, c)) = 1
    BY <1>1, PiecesType
  <2>2. Pieces(<<e>>, c)[1] = b
    <3>1. DOMAIN <<e>> = 1..1
      BY <1>1, LenProperties
    <3>2. 1 \in DOMAIN <<e>>
      BY <3>1
    <3>. QED  BY <1>1, <3>2 DEF Pieces
  <2>3. \A i \in 1..1 : i = 1
    OBVIOUS
  <2>. QED  BY <1>2, <2>1, <2>2, <2>3, SeqEqual
<1>4. Rows(Append(<<>>, b)) = Rows(<<>>) \o b
  BY <1>2, EmptySeq, RowsOfAppend
<1>5. Rows(<<>>) \o b = b
  BY <1>2, RowsOfNone, ConcatEmptySeq
<1>6. Kept(<<e>>, c) = Rows(Pieces(<<e>>, c))
  BY <1>1, PiecesType
<1>. QED  BY <1>3, <1>4, <1>5, <1>6

LEMMA KeptOfNone == ASSUME NEW c PROVE Kept(<<>>, c) = <<>>
<1>1. <<>> \in Seq({}) /\ Len(<<>>) = 0
  BY EmptySeq
<1>2. Pieces(<<>>, c) \in Seq(Seq({})) /\ Len(Pieces(<<>>, c)) = 0 /\ Kept(<<>>, c) = Rows(Pieces(<<>>, c))
  BY <1>1, PiecesType
<1>3. Pieces(<<>>, c) = <<>>
  BY <1>2, EmptySeq
<1>. QED  BY <1>2, <1>3, RowsOfNone

\* One row more.
LEMMA KeptOfAppend ==
    ASSUME NEW T, NEW s \in Seq(T), NEW e \in T, NEW c
    PROVE  Kept(Append(s, e), c) = IF Len(s) + 1 \in c THEN Append(Kept(s, c), e) ELSE Kept(s, c)
<1>. DEFINE d == {i \in {1} : Len(s) + 1 \in c}
<1>1. Append(s, e) = s \o <<e>> /\ <<e>> \in Seq(T) /\ Len(<<e>>) = 1 /\ Len(s) \in Nat
  BY AppendIsConcat, LenProperties
<1>2. Kept(s \o <<e>>, c) = Kept(s, c) \o Kept(<<e>>, d)
  <2>. DEFINE f == <<e>>
  <2>1. f \in Seq(T) /\ \A i \in 1..Len(f) : Len(s) + i \in c <=> i \in d
    BY <1>1
  <2>. HIDE DEF d, f
  <2>2. Same(Len(s), c, c) /\ Shifted(Len(s), Len(f), c, d)
    BY <2>1 DEF Same, Shifted
  <2>3. Kept(s \o f, c) = Kept(s, c) \o Kept(f, d)
    BY <2>1, <2>2, KeptOfBoth
  <2>. QED  BY <2>3 DEF f
<1>3. Kept(<<e>>, d) = IF Len(s) + 1 \in c THEN <<e>> ELSE <<>>
  BY KeptOfOne
<1>4. Kept(s, c) \in Seq(T)
  BY KeptType
<1>5. Kept(s, c) \o <<>> = Kept(s, c) /\ Kept(s, c) \o <<e>> = Append(Kept(s, c), e)
  BY <1>4, ConcatEmptySeq, AppendIsConcat
<1>. QED  BY <1>1, <1>2, <1>3, <1>5

\* All rows, or none of them.
LEMMA KeptAll ==
    ASSUME NEW T, NEW s \in Seq(T), NEW c, 1..Len(s) \subseteq c PROVE Kept(s, c) = s
<1>. DEFINE G == {u \in Seq(T) : 1..Len(u) \subseteq c => Kept(u, c) = u}
<1>1. <<>> \in G
  BY KeptOfNone
<1>2. ASSUME NEW u \in Seq(T), NEW e \in T, u \in G PROVE Append(u, e) \in G
  <2>1. Append(u, e) \in Seq(T) /\ Len(Append(u, e)) = Len(u) + 1 /\ Len(u) \in Nat
    BY AppendProperties, LenProperties
  <2>2. ASSUME 1..Len(Append(u, e)) \subseteq c PROVE Kept(Append(u, e), c) = Append(u, e)
    <3>1. 1..Len(u) \subseteq c /\ Len(u) + 1 \in c
      BY <2>1, <2>2
    <3>2. Kept(u, c) = u
      BY <1>2, <3>1
    <3>. QED  BY <3>1, <3>2, KeptOfAppend
  <2>. QED  BY <2>1, <2>2
<1>3. Seq(T) \subseteq G
  <2>. HIDE DEF G
  <2>. QED  BY <1>1, <1>2, GrownSequences
<1>. QED  BY <1>3

LEMMA KeptNothing ==
    ASSUME NEW T, NEW s \in Seq(T), NEW c, \A i \in 1..Len(s) : i \notin c PROVE Kept(s, c) = <<>>
<1>. DEFINE G == {u \in Seq(T) : (\A i \in 1..Len(u) : i \notin c) => Kept(u, c) = <<>>}
<1>1. <<>> \in G
  BY KeptOfNone
<1>2. ASSUME NEW u \in Seq(T), NEW e \in T, u \in G PROVE Append(u, e) \in G
  <2>1. Append(u, e) \in Seq(T) /\ Len(Append(u, e)) = Len(u) + 1 /\ Len(u) \in Nat
    BY AppendProperties, LenProperties
  <2>2. ASSUME \A i \in 1..Len(Append(u, e)) : i \notin c PROVE Kept(Append(u, e), c) = <<>>
    <3>1. (\A i \in 1..Len(u) : i \notin c) /\ Len(u) + 1 \notin c
      BY <2>1, <2>2
    <3>2. Kept(u, c) = <<>>
      BY <1>2, <3>1
    <3>. QED  BY <3>1, <3>2, KeptOfAppend
  <2>. QED  BY <2>1, <2>2
<1>3. Seq(T) \subseteq G
  <2>. HIDE DEF G
  <2>. QED  BY <1>1, <1>2, GrownSequences
<1>. QED  BY <1>3

\* As many rows as were chosen.
LEMMA KeptLength ==
    ASSUME NEW T, NEW s \in Seq(T), NEW c \in SUBSET (1..Len(s))
    PROVE  Len(Kept(s, c)) = Cardinality(c) /\ IsFiniteSet(c)
<1>. DEFINE G == {u \in Seq(T) : \A d \in SUBSET (1..Len(u)) :
                                    Len(Kept(u, d)) = Cardinality(d) /\ IsFiniteSet(d)}
<1>1. <<>> \in G
  <2>1. <<>> \in Seq(T) /\ Len(<<>>) = 0
    BY EmptySeq
  <2>2. ASSUME NEW d \in SUBSET (1..Len(<<>>)) PROVE Len(Kept(<<>>, d)) = Cardinality(d) /\ IsFiniteSet(d)
    <3>1. d = {}
      BY <2>1
    <3>. QED  BY <2>1, <3>1, KeptOfNone, FS_EmptySet
  <2>. QED  BY <2>1, <2>2
<1>2. ASSUME NEW u \in Seq(T), NEW e \in T, u \in G PROVE Append(u, e) \in G
  <2>. DEFINE n == Len(u)
  <2>1. Append(u, e) \in Seq(T) /\ Len(Append(u, e)) = n + 1 /\ n \in Nat
    BY AppendProperties, LenProperties
  <2>2. ASSUME NEW d \in SUBSET (1..Len(Append(u, e)))
        PROVE  Len(Kept(Append(u, e), d)) = Cardinality(d) /\ IsFiniteSet(d)
    <3>. DEFINE b == d \ {n + 1}
    <3>1. b \in SUBSET (1..n) /\ n + 1 \notin b /\ (n + 1 \in d => d = b \cup {n + 1}) /\ (n + 1 \notin d => d = b)
      <4>1. d \subseteq 1..(n + 1) /\ n + 1 \notin 1..n /\ \A i \in 1..(n + 1) : i # n + 1 => i \in 1..n
        BY <2>1
      <4>. HIDE DEF n
      <4>. QED  BY <4>1
    <3>2. Len(Kept(u, b)) = Cardinality(b) /\ IsFiniteSet(b)
      BY <1>2, <3>1
    <3>3. Kept(u, b) = Kept(u, d)
      <4>1. Pieces(u, b) = Pieces(u, d)
        <5>1. \A i \in DOMAIN u : i \in b <=> i \in d
          BY <2>1, LenProperties
        <5>. QED  BY <5>1 DEF Pieces
      <4>. QED  BY <4>1, PiecesType
    <3>4. Kept(u, b) \in Seq(T) /\ Len(Append(Kept(u, b), e)) = Len(Kept(u, b)) + 1
      BY KeptType, AppendProperties
    <3>5. CASE n + 1 \in d
      <4>1. Cardinality(d) = Cardinality(b) + 1 /\ IsFiniteSet(d)
        <5>. HIDE DEF b
        <5>. QED  BY <3>1, <3>2, <3>5, FS_AddElement
      <4>2. Kept(Append(u, e), d) = Append(Kept(u, b), e)
        BY <3>3, <3>5, KeptOfAppend
      <4>. QED  BY <3>2, <3>4, <4>1, <4>2
    <3>6. CASE n + 1 \notin d
      <4>1. Kept(Append(u, e), d) = Kept(u, b)
        BY <3>3, <3>6, KeptOfAppend
      <4>. QED  BY <3>1, <3>2, <3>6, <4>1
    <3>. QED  BY <3>5, <3>6
  <2>. QED  BY <2>1, <2>2
<1>3. Seq(T) \subseteq G
  <2>. HIDE DEF G
  <2>. QED  BY <1>1, <1>2, GrownSequences
<1>. QED  BY <1>3

LEMMA ConcatAppend ==
    ASSUME NEW T, NEW x \in Seq(T), NEW z \in Seq(T), NEW f \in T
    PROVE  x \o Append(z, f) = Append(x \o z, f) /\ x \o z \in Seq(T)
<1>1. Append(z, f) = z \o <<f>> /\ <<f>> \in Seq(T) /\ x \o z \in Seq(T)
  BY AppendIsConcat, ConcatProperties
<1>2. Append(x \o z, f) = (x \o z) \o <<f>>
  BY <1>1, AppendIsConcat
<1>. DEFINE one == <<f>>
<1>3. one \in Seq(T)
  BY <1>1
<1>. HIDE DEF one
<1>4. Associates(x, z, one)
  BY <1>3, Associative
<1>. QED  BY <1>1, <1>2, <1>4 DEF one, Associates

\* What comes first of the rows that were kept are rows that were kept.
KeptFirst(s, c, v, w) == v \o w = Kept(s, c)

LEMMA KeptPrefix ==
    ASSUME NEW T, NEW s \in Seq(T), NEW c, NEW v \in Seq(T), NEW w \in Seq(T), KeptFirst(s, c, v, w)
    PROVE  \E d \in SUBSET (1..Len(s)) : v = Kept(s, d)
<1>. DEFINE Starts(u) == \A x, y \in Seq(T) : x \o y = Kept(u, c) => \E d \in SUBSET (1..Len(u)) : x = Kept(u, d)
            G == {u \in Seq(T) : Starts(u)}
<1>1. <<>> \in G
  <2>1. ASSUME NEW x \in Seq(T), NEW y \in Seq(T), x \o y = Kept(<<>>, c)
        PROVE  \E d \in SUBSET (1..Len(<<>>)) : x = Kept(<<>>, d)
    <3>1. x = <<>>
      BY <2>1, KeptOfNone, ConcatEqualIffEmpty
    <3>2. x = Kept(<<>>, {}) /\ {} \in SUBSET (1..Len(<<>>))
      BY <3>1, KeptOfNone
    <3>. QED  BY <3>2
  <2>. QED  BY <2>1, EmptySeq
<1>2. ASSUME NEW u \in Seq(T), NEW e \in T, u \in G PROVE Append(u, e) \in G
  <2>. DEFINE n == Len(u)
  <2>1. Append(u, e) \in Seq(T) /\ Len(Append(u, e)) = n + 1 /\ n \in Nat
    BY AppendProperties, LenProperties
  <2>2. ASSUME NEW d \in SUBSET (1..n) PROVE Kept(Append(u, e), d) = Kept(u, d)
    <3>1. n + 1 \notin d
      BY <2>1
    <3>. QED  BY <3>1, KeptOfAppend
  <2>3. Starts(u)
    BY <1>2
  <2>. HIDE DEF G
  <2>4. ASSUME NEW x \in Seq(T), NEW y \in Seq(T), x \o y = Kept(Append(u, e), c)
        PROVE  \E d \in SUBSET (1..Len(Append(u, e))) : x = Kept(Append(u, e), d)
    <3>1. CASE x \o y = Kept(u, c)
      <4>1. PICK d \in SUBSET (1..n) : x = Kept(u, d)
        BY <2>3, <3>1
      <4>2. d \in SUBSET (1..Len(Append(u, e))) /\ x = Kept(Append(u, e), d)
        BY <2>1, <2>2, <4>1
      <4>. QED  BY <4>2
    <3>2. CASE n + 1 \in c /\ y = <<>>
      <4>. DEFINE d == c \cap 1..(n + 1)
      <4>1. x = Kept(Append(u, e), c)
        BY <2>4, <3>2, ConcatEmptySeq
      <4>2. Pieces(Append(u, e), c) = Pieces(Append(u, e), d)
        <5>1. \A i \in DOMAIN Append(u, e) : i \in c <=> i \in d
          BY <2>1, LenProperties
        <5>. QED  BY <5>1 DEF Pieces
      <4>3. Kept(Append(u, e), c) = Kept(Append(u, e), d)
        <5>. DEFINE a == Append(u, e)
        <5>1. a \in Seq(T) /\ Pieces(a, c) = Pieces(a, d)
          BY <2>1, <4>2
        <5>. HIDE DEF a, d
        <5>2. Kept(a, c) = Rows(Pieces(a, c)) /\ Kept(a, d) = Rows(Pieces(a, d))
          BY <5>1, PiecesType
        <5>. QED  BY <5>1, <5>2 DEF a
      <4>4. d \in SUBSET (1..Len(Append(u, e)))
        BY <2>1
      <4>. QED  BY <4>1, <4>3, <4>4
    <3>3. CASE n + 1 \in c /\ y # <<>>
      <4>1. PICK z \in Seq(T), f \in T : y = Append(z, f)
        BY <3>3, SequenceEmptyOrAppend
      <4>2. x \o Append(z, f) = Append(x \o z, f) /\ x \o z \in Seq(T)
        <5>1. z \in Seq(T) /\ f \in T
          BY <4>1
        <5>. QED  BY <5>1, ConcatAppend
      <4>3. Kept(Append(u, e), c) = Append(Kept(u, c), e) /\ Kept(u, c) \in Seq(T)
        BY <3>3, KeptOfAppend, KeptType
      <4>4. Append(x \o z, f) = Append(Kept(u, c), e)
        BY <2>4, <4>1, <4>2, <4>3
      <4>5. x \o z = Kept(u, c)
        <5>1. \A a, b \in Seq(T) : Append(a, f) = Append(b, e) => a = b
          BY AppendInjective
        <5>. QED  BY <4>2, <4>3, <4>4, <5>1
      <4>6. PICK d \in SUBSET (1..n) : x = Kept(u, d)
        BY <2>3, <4>5
      <4>7. d \in SUBSET (1..Len(Append(u, e))) /\ x = Kept(Append(u, e), d)
        BY <2>1, <2>2, <4>6
      <4>. QED  BY <4>7
    <3>4. n + 1 \notin c => Kept(Append(u, e), c) = Kept(u, c)
      BY KeptOfAppend
    <3>. QED  BY <2>4, <3>1, <3>2, <3>3, <3>4
  <2>5. Starts(Append(u, e))
    BY <2>4
  <2>. QED  BY <2>1, <2>5 DEF G
<1>3. Seq(T) \subseteq G
  <2>. HIDE DEF G
  <2>. QED  BY <1>1, <1>2, GrownSequences
<1>4. Starts(s)
  BY <1>3
<1>. QED  BY <1>4 DEF KeptFirst
----------------------------------------------------------------------------
\* Prefixes, the smaller of two numbers, a part of two sequences in a row.
LEMMA Prefix ==
    ASSUME NEW T, NEW s \in Seq(T), NEW r \in Seq(T) PROVE IsPrefix(s, s \o r)
<1>. DEFINE t == s \o r
<1>1. /\ t \in Seq(T) /\ Len(t) = Len(s) + Len(r) /\ Len(s) \in Nat /\ Len(r) \in Nat
      /\ \A i \in 1..Len(s) : t[i] = s[i] /\ t[i] \in T
  BY ConcatProperties, LenProperties
<1>. HIDE DEF t
<1>2. /\ SubSeq(t, 1, Len(s)) \in Seq(T) /\ Len(SubSeq(t, 1, Len(s))) = Len(s)
      /\ \A i \in 1..Len(s) : SubSeq(t, 1, Len(s))[i] = s[i]
  <2>1. /\ SubSeq(t, 1, Len(s)) \in Seq(T)
        /\ Len(SubSeq(t, 1, Len(s))) = IF 1 <= Len(s) THEN Len(s) - 1 + 1 ELSE 0
        /\ \A i \in 1..(Len(s) - 1 + 1) : SubSeq(t, 1, Len(s))[i] = t[1 + i - 1]
    BY <1>1, SubSeqProperties
  <2>. QED  BY <1>1, <2>1
<1>3. SubSeq(t, 1, Len(s)) = s
  BY <1>2, SeqEqual
<1>4. SubSeq(s, 1, Len(s)) = s
  BY SubSeqFull
<1>5. IsPrefix(s, t)
  BY <1>1, <1>3, <1>4 DEF IsPrefix
<1>. QED  BY <1>5 DEF t

LEMMA MinOfTwo ==
    ASSUME NEW a \in Int, NEW b \in Int PROVE Min({a, b}) = IF a <= b THEN a ELSE b
<1>. DEFINE S == {a, b}
<1>1. \E x \in S : \A y \in S : x <= y
  OBVIOUS
<1>2. Min(S) \in S /\ \A y \in S : Min(S) <= y
  <2>. HIDE DEF S
  <2>. QED  BY <1>1 DEF Min
<1>. QED  BY <1>2

LEMMA MaxOfTwo ==
    ASSUME NEW a \in Int, NEW b \in Int PROVE Max({a, b}) = IF a >= b THEN a ELSE b
<1>. DEFINE S == {a, b}
<1>1. \E x \in S : \A y \in S : x >= y
  OBVIOUS
<1>2. Max(S) \in S /\ \A y \in S : Max(S) >= y
  <2>. HIDE DEF S
  <2>. QED  BY <1>1 DEF Max
<1>. QED  BY <1>2

\* From position a + 1 to b.
LEMMA Part ==
    ASSUME NEW T, NEW s \in Seq(T), NEW a \in Nat, NEW b \in Int, b <= Len(s)
    PROVE  /\ SubSeq(s, a + 1, b) \in Seq(T)
           /\ Len(SubSeq(s, a + 1, b)) = IF a < b THEN b - a ELSE 0
           /\ \A i \in 1..(b - a) : SubSeq(s, a + 1, b)[i] = s[a + i]
<1>1. Len(s) \in Nat /\ \A i \in 1..Len(s) : s[i] \in T
  BY LenProperties, ElementOfSeq
<1>. DEFINE p == SubSeq(s, a + 1, b)
<1>2. \A i \in (a + 1)..b : s[i] \in T
  BY <1>1
<1>3. /\ p \in Seq(T) /\ Len(p) = (IF a + 1 <= b THEN b - (a + 1) + 1 ELSE 0)
      /\ \A i \in 1..(b - (a + 1) + 1) : p[i] = s[(a + 1) + i - 1]
  BY <1>2, SubSeqProperties
<1>. HIDE DEF p
<1>4. ASSUME NEW i \in 1..(b - a) PROVE p[i] = s[a + i]
  <2>1. i \in 1..(b - (a + 1) + 1) /\ (a + 1) + i - 1 = a + i
    OBVIOUS
  <2>2. p[i] = s[(a + 1) + i - 1]
    BY <1>3, <2>1
  <2>. QED  BY <2>1, <2>2
<1>5. Len(p) = IF a < b THEN b - a ELSE 0
  BY <1>3
<1>. QED  BY <1>3, <1>4, <1>5 DEF p

LEMMA PartLengths ==
    ASSUME NEW a \in Nat, NEW b \in Int, NEW c \in Int, NEW d \in Nat, NEW e \in Int, NEW m \in Nat, NEW n \in Nat,
           b <= m + n,
           c = IF b <= m THEN b ELSE m,
           d = IF a <= m THEN 0 ELSE a - m,
           e = b - m
    PROVE  /\ (IF a < b THEN b - a ELSE 0) = (IF a < c THEN c - a ELSE 0) + (IF d < e THEN e - d ELSE 0)
           /\ \A i \in 1..(b - a) :
                 /\ a + i <= m => i \in 1..(c - a) /\ i <= (IF a < c THEN c - a ELSE 0)
                 /\ a + i > m => LET k == i - (IF a < c THEN c - a ELSE 0)
                                IN  k \in 1..(e - d) /\ d + k = a + i - m /\ k > 0
OBVIOUS

\* First of s and then of t.
After(s, a, b) == SubSeq(s, a + 1, b)
Splits(a, b, c, d, e, m, n) ==
    /\ b <= m + n
    /\ c = IF b <= m THEN b ELSE m
    /\ d = IF a <= m THEN 0 ELSE a - m
    /\ e = b - m

LEMMA PartOfBoth ==
    ASSUME NEW T, NEW s \in Seq(T), NEW t \in Seq(T), NEW a \in Nat, NEW b \in Int, NEW c \in Int, NEW d \in Nat, NEW e \in Int
    PROVE  Splits(a, b, c, d, e, Len(s), Len(t)) => After(s \o t, a, b) = After(s, a, c) \o After(t, d, e)
<1>0. SUFFICES ASSUME  /\ b <= Len(s) + Len(t)
                       /\ c = IF b <= Len(s) THEN b ELSE Len(s)
                       /\ d = IF a <= Len(s) THEN 0 ELSE a - Len(s)
                       /\ e = b - Len(s)
             PROVE  SubSeq(s \o t, a + 1, b) = SubSeq(s, a + 1, c) \o SubSeq(t, d + 1, e)
  BY DEF After, Splits
<1>. DEFINE u == s \o t
            p == SubSeq(u, a + 1, b)
            q == SubSeq(s, a + 1, c)
            r == SubSeq(t, d + 1, e)
<1>1. /\ u \in Seq(T) /\ Len(u) = Len(s) + Len(t) /\ Len(s) \in Nat /\ Len(t) \in Nat
      /\ \A i \in 1..(Len(s) + Len(t)) : u[i] = IF i <= Len(s) THEN s[i] ELSE t[i - Len(s)]
  BY ConcatProperties, LenProperties
<1>. HIDE DEF u
<1>2. b <= Len(u) /\ c <= Len(s) /\ e <= Len(t)
  BY <1>0, <1>1
<1>3. /\ p \in Seq(T) /\ Len(p) = (IF a < b THEN b - a ELSE 0)
      /\ \A i \in 1..(b - a) : p[i] = u[a + i]
  BY <1>1, <1>2, Part
<1>4. /\ q \in Seq(T) /\ Len(q) = (IF a < c THEN c - a ELSE 0)
      /\ \A i \in 1..(c - a) : q[i] = s[a + i]
  BY <1>2, Part
<1>5. /\ r \in Seq(T) /\ Len(r) = (IF d < e THEN e - d ELSE 0)
      /\ \A i \in 1..(e - d) : r[i] = t[d + i]
  BY <1>2, Part
<1>. HIDE DEF p, q, r
<1>6. /\ q \o r \in Seq(T) /\ Len(q \o r) = Len(q) + Len(r)
      /\ \A i \in 1..(Len(q) + Len(r)) : (q \o r)[i] = IF i <= Len(q) THEN q[i] ELSE r[i - Len(q)]
  BY <1>4, <1>5, ConcatProperties
<1>. DEFINE w == q \o r
<1>7. /\ w \in Seq(T) /\ Len(w) = Len(q) + Len(r)
      /\ \A i \in 1..(Len(q) + Len(r)) : w[i] = IF i <= Len(q) THEN q[i] ELSE r[i - Len(q)]
  BY <1>6
<1>. HIDE DEF w
<1>. DEFINE m == Len(s)
            n == Len(t)
            k == IF a < c THEN c - a ELSE 0
<1>a. m \in Nat /\ n \in Nat /\ k \in Nat
  BY <1>1
<1>b. /\ (IF a < b THEN b - a ELSE 0) = k + (IF d < e THEN e - d ELSE 0)
      /\ \A i \in 1..(b - a) :
            /\ a + i <= m => i \in 1..(c - a) /\ i <= k
            /\ a + i > m => i - k \in 1..(e - d) /\ d + (i - k) = a + i - m /\ i - k > 0
  <2>. HIDE DEF m, n
  <2>1. /\ b <= m + n
        /\ c = IF b <= m THEN b ELSE m
        /\ d = IF a <= m THEN 0 ELSE a - m
        /\ e = b - m
    BY <1>0 DEF m, n
  <2>. QED  BY <1>a, <2>1, PartLengths
<1>8. Len(p) = Len(w)
  <2>1. Len(p) = (IF a < b THEN b - a ELSE 0) /\ Len(w) = k + (IF d < e THEN e - d ELSE 0)
    BY <1>3, <1>4, <1>5, <1>7
  <2>. QED  BY <1>b, <2>1
<1>9. ASSUME NEW i \in 1..Len(p) PROVE p[i] = w[i]
  <2>1. i \in 1..(b - a) /\ a + i \in 1..(Len(s) + Len(t)) /\ a < b
    BY <1>0, <1>1, <1>3
  <2>2. p[i] = u[a + i] /\ u[a + i] = IF a + i <= Len(s) THEN s[a + i] ELSE t[a + i - Len(s)]
    BY <1>1, <1>3, <2>1
  <2>3. i \in 1..(Len(q) + Len(r)) /\ Len(q) = k
    BY <1>4, <1>7, <1>8
  <2>4. CASE a + i <= Len(s)
    <3>1. i \in 1..(c - a) /\ i <= k
      BY <1>b, <2>1, <2>4
    <3>2. w[i] = q[i] /\ q[i] = s[a + i]
      BY <1>4, <1>7, <2>3, <3>1
    <3>. QED  BY <2>2, <2>4, <3>2
  <2>5. CASE a + i > Len(s)
    <3>1. i - k \in 1..(e - d) /\ d + (i - k) = a + i - Len(s) /\ i - k > 0
      BY <1>b, <2>1, <2>5
    <3>2. ~(i <= k) /\ ~(a + i <= Len(s))
      BY <1>1, <1>a, <2>5, <3>1
    <3>3. w[i] = r[i - k] /\ r[i - k] = t[d + (i - k)]
      BY <1>5, <1>7, <2>3, <3>1, <3>2
    <3>. QED  BY <2>2, <3>1, <3>2, <3>3
  <2>6. a + i <= Len(s) \/ a + i > Len(s)
    BY <1>1
  <2>. QED  BY <2>4, <2>5, <2>6
<1>10. p = w
  BY <1>3, <1>7, <1>8, <1>9, SeqEqual
<1>. QED  BY <1>10 DEF p, q, r, u, w
-----------------------------------------------------------------------------
(***************************************************************************)
(* The inductive invariant.  Every operator has its own part of it, which  *)
(* says of the rows pulled so far what StreamExact says of the whole input *)
(* and how what the operator keeps stands to them.                         *)
(***************************************************************************)
Seen == Upto(plan.input["left"], pulled["left"])
Things == Row \cup (Nat \X Nat) \cup Int

StreamTypeOK ==
    /\ IsStream(plan)
    /\ pulled \in [Sides -> Nat] /\ pulled["left"] <= Len(plan.input["left"])
    /\ returned \in Seq(Seq(Things))
    /\ status \in {"running", "done", "failed"}

\* The operator has pulled everything when it is done.
Whole == status = "done" => Seen = All

FilterInv == Whole /\ Output = Kept(Seen, Passing(Seen))
ProjectInv == Whole /\ Output = Seen

\* The rows of OFFSET and LIMIT.
Cutoff(n) == IF plan.limit = Unlimited THEN n ELSE Min({n, plan.offset + plan.limit})
Window(rows) == SubSeq(rows, plan.offset + 1, Cutoff(Len(rows)))

LimitInv ==
    /\ self = [seen |-> Len(Seen), emitted |-> Len(Output)]
    /\ Output = Window(Seen)
    /\ status = "done" => Output = Window(All)

DistinctInv == /\ Whole /\ self = [seen |-> Keys(Seen)]
               /\ Output = Kept(Seen, Firsts(Seen))

\* The first row of two with the same key is one too many.
KeysOf(rows) == {KeyOf(r) : r \in Range(rows)}
Single(rows) == \A i, j \in DOMAIN rows : i # j => KeyOf(rows[i]) # KeyOf(rows[j])

AssertInv ==
    /\ Whole
    /\ status # "failed" => /\ Output = Seen /\ self = [seen |-> KeysOf(Seen)]
                            /\ Single(Seen)
    /\ status = "failed" => TooMany /\ \E rest \in Seq(Row) : All = Output \o rest

UnnestInv == /\ Whole /\ self \in [todo : Seq(Things)]
             /\ Output \o self.todo = Expanded(Seen)
             /\ status = "done" => self.todo = <<>>

\* The k-th value of the series.
Nth(k) == plan.start + (k - 1) * plan.step

SeriesInv ==
    /\ self \in [cur : Int, done : BOOLEAN]
    /\ \E n \in Nat :
         /\ Output = [k \in 1..n |-> Nth(k)]
         /\ \A k \in 1..n : InRange(Nth(k))
         /\ ~self.done => self.cur = Nth(n + 1)
         /\ self.done \/ status = "done" => ~InRange(Nth(n + 1))

BernoulliInv ==
    /\ self = [done |-> plan.percent = 0]
    /\ \E chosen \in SUBSET DOMAIN Seen : Output = Kept(Seen, chosen)
    /\ plan.percent = 100 => Output = Seen
    /\ plan.percent = 0 => Output = <<>>
    /\ plan.percent # 0 => Whole

SampleInv ==
    /\ self \in [phase : {"buffering", "emitting", "done"}, buffer : Seq(Row), out : Seq(Row)]
    /\ self.phase = "buffering" => Output = <<>> /\ self.buffer = Seen /\ status # "done"
    /\ self.phase # "buffering" =>
         \E chosen \in kSubset(Min({plan.target, Len(All)}), DOMAIN All) :
            Output \o self.out = Kept(All, chosen)
    /\ self.phase = "done" => self.out = <<>>
    /\ status = "done" => self.phase = "done"

StreamInv ==
    /\ StreamTypeOK
    /\ plan.op = "filter" => FilterInv
    /\ plan.op = "project" => ProjectInv
    /\ plan.op = "limit" => LimitInv
    /\ plan.op = "distinct on" => DistinctInv
    /\ plan.op = "assert max one row" => AssertInv
    /\ plan.op = "unnest" => UnnestInv
    /\ plan.op = "series" => SeriesInv
    /\ plan.op = "bernoulli" => BernoulliInv
    /\ plan.op = "sample" => SampleInv
----------------------------------------------------------------------------
\* What the operators do with two sequences of rows, one after the other.
LEMMA Both ==
    ASSUME NEW T, NEW s \in Seq(T), NEW t \in Seq(T)
    PROVE  /\ s \o t \in Seq(T) /\ Len(s \o t) = Len(s) + Len(t)
           /\ Len(s) \in Nat /\ Len(t) \in Nat
           /\ DOMAIN (s \o t) = 1..(Len(s) + Len(t)) /\ DOMAIN s = 1..Len(s) /\ DOMAIN t = 1..Len(t)
           /\ \A i \in 1..Len(s) : i \in 1..(Len(s) + Len(t)) /\ (s \o t)[i] = s[i]
           /\ \A i \in 1..Len(t) : /\ Len(s) + i \in 1..(Len(s) + Len(t))
                                   /\ (s \o t)[Len(s) + i] = t[i]
<1>. DEFINE u == s \o t
            m == Len(s)
            n == Len(t)
<1>1. /\ u \in Seq(T) /\ Len(u) = m + n /\ m \in Nat /\ n \in Nat
      /\ \A i \in 1..(m + n) : u[i] = IF i <= m THEN s[i] ELSE t[i - m]
      /\ DOMAIN s = 1..m /\ DOMAIN t = 1..n
  BY ConcatProperties, LenProperties
<1>. HIDE DEF u, m, n
<1>2. DOMAIN u = 1..(m + n)
  BY <1>1, LenProperties
<1>3. ASSUME NEW i \in 1..m PROVE i \in 1..(m + n) /\ u[i] = s[i]
  <2>1. i \in 1..(m + n) /\ i <= m
    BY <1>1
  <2>. QED  BY <1>1, <2>1
<1>4. ASSUME NEW i \in 1..n PROVE m + i \in 1..(m + n) /\ u[m + i] = t[i]
  <2>1. m + i \in 1..(m + n) /\ ~(m + i <= m) /\ (m + i) - m = i
    BY <1>1
  <2>2. u[m + i] = t[(m + i) - m]
    BY <1>1, <2>1
  <2>. QED  BY <2>1, <2>2
<1>. QED  BY <1>1, <1>2, <1>3, <1>4 DEF u, m, n

\* A position of both is one of the first or of the second.
LEMMA EitherOf ==
    ASSUME NEW m \in Nat, NEW n \in Nat, NEW i \in 1..(m + n)
    PROVE  i \in 1..m \/ \E k \in 1..n : i = m + k
<1>1. CASE i > m
  <2>1. i - m \in 1..n /\ i = m + (i - m)
    BY <1>1
  <2>. QED  BY <2>1
<1>2. CASE i <= m
  BY <1>2
<1>. QED  BY <1>1, <1>2

LEMMA KeysOfBoth ==
    ASSUME NEW T, NEW s \in Seq(T), NEW t \in Seq(T)
    PROVE  Keys(s \o t) = Keys(s) \cup Keys(t)
<1>. DEFINE u == s \o t
            m == Len(s)
            n == Len(t)
<1>1. /\ DOMAIN u = 1..(m + n) /\ DOMAIN s = 1..m /\ DOMAIN t = 1..n /\ m \in Nat /\ n \in Nat
      /\ \A i \in 1..m : i \in 1..(m + n) /\ u[i] = s[i]
      /\ \A i \in 1..n : m + i \in 1..(m + n) /\ u[m + i] = t[i]
  BY Both
<1>. HIDE DEF u, m, n
<1>2. ASSUME NEW k PROVE k \in Keys(u) <=> k \in Keys(s) \cup Keys(t)
  <2>1. ASSUME NEW i \in 1..(m + n) PROVE u[i].key \in Keys(s) \cup Keys(t)
    <3>1. CASE i \in 1..m
      BY <1>1, <3>1 DEF Keys
    <3>2. CASE \E j \in 1..n : i = m + j
      BY <1>1, <3>2 DEF Keys
    <3>. QED  BY <1>1, <3>1, <3>2, EitherOf
  <2>2. \A i \in 1..m : s[i].key \in Keys(u)
    BY <1>1 DEF Keys
  <2>3. \A i \in 1..n : t[i].key \in Keys(u)
    BY <1>1 DEF Keys
  <2>. QED  BY <1>1, <2>1, <2>2, <2>3 DEF Keys
<1>. QED  BY <1>2 DEF u

LEMMA PassingOfBoth ==
    ASSUME NEW T, NEW s \in Seq(T), NEW t \in Seq(T)
    PROVE  Kept(s \o t, Passing(s \o t)) = Kept(s, Passing(s)) \o Kept(t, Passing(t))
<1>. DEFINE u == s \o t
            m == Len(s)
            n == Len(t)
<1>1. /\ DOMAIN u = 1..(m + n) /\ DOMAIN s = 1..m /\ DOMAIN t = 1..n
      /\ \A i \in 1..m : i \in 1..(m + n) /\ u[i] = s[i]
      /\ \A i \in 1..n : m + i \in 1..(m + n) /\ u[m + i] = t[i]
  BY Both
<1>2. (\A i \in 1..m : i \in Passing(u) <=> i \in Passing(s)) /\ \A i \in 1..n : m + i \in Passing(u) <=> i \in Passing(t)
  <2>. HIDE DEF u, m, n
  <2>. QED  BY <1>1 DEF Passing
<1>3. Same(m, Passing(u), Passing(s)) /\ Shifted(m, n, Passing(u), Passing(t))
  BY <1>2 DEF Same, Shifted
<1>. QED  BY <1>3, KeptOfBoth

\* The rows of t that are first of their key after s.
Fresh(s, t) == {i \in Firsts(t) : t[i].key \notin Keys(s)}

LEMMA FirstsOfBoth ==
    ASSUME NEW T, NEW s \in Seq(T), NEW t \in Seq(T)
    PROVE  Kept(s \o t, Firsts(s \o t)) = Kept(s, Firsts(s)) \o Kept(t, Fresh(s, t))
<1>. DEFINE u == s \o t
            m == Len(s)
            n == Len(t)
            d == {i \in Firsts(t) : t[i].key \notin Keys(s)}
<1>1. /\ DOMAIN u = 1..(m + n) /\ DOMAIN s = 1..m /\ DOMAIN t = 1..n /\ m \in Nat /\ n \in Nat
      /\ \A i \in 1..m : i \in 1..(m + n) /\ u[i] = s[i]
      /\ \A i \in 1..n : m + i \in 1..(m + n) /\ u[m + i] = t[i]
  BY Both
<1>2. \A i \in 1..m : i \in Firsts(u) <=> i \in Firsts(s)
  <2>. HIDE DEF u, m, n
  <2>1. ASSUME NEW i \in 1..m PROVE i \in Firsts(u) <=> i \in Firsts(s)
    <3>1. \A j \in 1..(i - 1) : j \in 1..m /\ u[j].key = s[j].key
      BY <1>1
    <3>2. u[i].key = s[i].key /\ i \in DOMAIN u /\ i \in DOMAIN s
      BY <1>1
    <3>. QED  BY <3>1, <3>2 DEF Firsts
  <2>. QED  BY <2>1
<1>3. \A i \in 1..n : m + i \in Firsts(u) <=> i \in d
  <2>. HIDE DEF u, m, n
  <2>1. ASSUME NEW i \in 1..n PROVE m + i \in Firsts(u) <=> i \in d
    <3>1. u[m + i].key = t[i].key /\ m + i \in DOMAIN u /\ i \in DOMAIN t
      BY <1>1
    <3>2. ASSUME NEW j \in 1..((m + i) - 1) PROVE u[j].key \in Keys(s) \/ \E k \in 1..(i - 1) : u[j].key = t[k].key
      <4>1. CASE j \in 1..m
        BY <1>1, <4>1 DEF Keys
      <4>2. CASE j > m
        <5>1. j - m \in 1..(i - 1) /\ j - m \in 1..n /\ m + (j - m) = j
          BY <1>1, <4>2
        <5>2. u[m + (j - m)] = t[j - m]
          BY <1>1, <5>1
        <5>3. u[j].key = t[j - m].key
          BY <5>1, <5>2
        <5>. QED  BY <5>1, <5>3
      <4>. QED  BY <1>1, <4>1, <4>2
    <3>3. \A j \in 1..m : j \in 1..((m + i) - 1) /\ u[j].key = s[j].key
      BY <1>1
    <3>4. ASSUME NEW k \in 1..(i - 1) PROVE m + k \in 1..((m + i) - 1) /\ u[m + k].key = t[k].key
      <4>1. k \in 1..n /\ m + k \in 1..((m + i) - 1)
        BY <1>1
      <4>. QED  BY <1>1, <4>1
    <3>5. Keys(s) = {s[j].key : j \in 1..m}
      BY <1>1 DEF Keys
    <3>6. ASSUME m + i \in Firsts(u) PROVE i \in d
      <4>1. \A j \in 1..((m + i) - 1) : u[j].key # t[i].key
        BY <3>1, <3>6 DEF Firsts
      <4>2. \A k \in 1..(i - 1) : t[k].key # t[i].key
        BY <3>4, <4>1
      <4>3. t[i].key \notin Keys(s)
        BY <3>3, <3>5, <4>1
      <4>. QED  BY <3>1, <4>2, <4>3 DEF Firsts
    <3>7. ASSUME i \in d PROVE m + i \in Firsts(u)
      <4>1. t[i].key \notin Keys(s) /\ \A k \in 1..(i - 1) : t[k].key # t[i].key
        BY <3>7 DEF Firsts
      <4>2. \A j \in 1..((m + i) - 1) : u[j].key # u[m + i].key
        BY <3>1, <3>2, <4>1
      <4>. QED  BY <3>1, <4>2 DEF Firsts
    <3>. QED  BY <3>6, <3>7
  <2>. QED  BY <2>1
<1>4. Same(m, Firsts(u), Firsts(s)) /\ Shifted(m, n, Firsts(u), d)
  BY <1>2, <1>3 DEF Same, Shifted
<1>. HIDE DEF d
<1>5. Kept(u, Firsts(u)) = Kept(s, Firsts(s)) \o Kept(t, d)
  BY <1>4, KeptOfBoth
<1>. QED  BY <1>5 DEF d, Fresh

LEMMA ExpandedOfBoth ==
    ASSUME NEW s \in Seq(Row), NEW t \in Seq(Row),
           \A row \in Range(s \o t) : plan.elements[row.key] \in Nat
    PROVE  /\ Expanded(s) \in Seq(Things) /\ Expanded(t) \in Seq(Things) /\ Expanded(s \o t) \in Seq(Things)
           /\ Expanded(s \o t) = Expanded(s) \o Expanded(t)
<1>. DEFINE u == s \o t
            m == Len(s)
            n == Len(t)
            L(x) == [i \in DOMAIN x |-> Elements(x[i])]
<1>1. /\ DOMAIN u = 1..(m + n) /\ DOMAIN s = 1..m /\ DOMAIN t = 1..n /\ m \in Nat /\ n \in Nat
      /\ \A i \in 1..m : i \in 1..(m + n) /\ u[i] = s[i]
      /\ \A i \in 1..n : m + i \in 1..(m + n) /\ u[m + i] = t[i]
      /\ u \in Seq(Row) /\ \A i \in 1..(m + n) : u[i] \in Row
  BY Both, ElementOfSeq
<1>2. \A i \in 1..(m + n) : u[i] \in Range(u)
  <2>. HIDE DEF u, m, n
  <2>. QED  BY <1>1 DEF Range
<1>3. \A i \in 1..(m + n) : Elements(u[i]) \in Seq(Things)
  <2>1. \A i \in 1..(m + n) : plan.elements[u[i].key] \in Nat /\ u[i].id \in Nat
    <3>1. \A i \in 1..(m + n) : plan.elements[u[i].key] \in Nat
      BY <1>2
    <3>2. \A r \in Row : r.id \in Nat
      BY DEF Row
    <3>. HIDE DEF u, m, n
    <3>. QED  BY <1>1, <3>1, <3>2
  <2>. HIDE DEF u, m, n
  <2>2. ASSUME NEW i \in 1..(m + n) PROVE Elements(u[i]) \in Seq(Things)
    <3>. DEFINE e == plan.elements[u[i].key]
                x == u[i].id
    <3>1. e \in Nat /\ x \in Nat
      BY <2>1
    <3>. HIDE DEF e, x
    <3>2. \A k \in 1..e : <<x, k>> \in Things
      BY <3>1 DEF Things
    <3>3. [k \in 1..e |-> <<x, k>>] \in Seq(Things)
      BY <3>1, <3>2
    <3>. QED  BY <3>3 DEF Elements, e, x
  <2>. QED  BY <2>2
<1>4. /\ L(s) \in Seq(Seq(Things)) /\ Len(L(s)) = m
      /\ L(t) \in Seq(Seq(Things)) /\ Len(L(t)) = n
      /\ L(u) \in Seq(Seq(Things)) /\ Len(L(u)) = m + n
  <2>1. \A i \in 1..m : Elements(s[i]) \in Seq(Things)
    <3>. HIDE DEF u, m, n
    <3>1. ASSUME NEW i \in 1..m PROVE Elements(s[i]) \in Seq(Things)
      <4>1. i \in 1..(m + n) /\ s[i] = u[i]
        BY <1>1
      <4>. QED  BY <1>3, <4>1
    <3>. QED  BY <3>1
  <2>2. \A i \in 1..n : Elements(t[i]) \in Seq(Things)
    <3>. HIDE DEF u, m, n
    <3>1. ASSUME NEW i \in 1..n PROVE Elements(t[i]) \in Seq(Things)
      <4>1. m + i \in 1..(m + n) /\ t[i] = u[m + i]
        BY <1>1
      <4>. QED  BY <1>3, <4>1
    <3>. QED  BY <3>1
  <2>. HIDE DEF u, m, n
  <2>3. /\ L(s) = [i \in 1..m |-> Elements(s[i])] /\ L(t) = [i \in 1..n |-> Elements(t[i])]
        /\ L(u) = [i \in 1..(m + n) |-> Elements(u[i])]
    BY <1>1
  <2>4. /\ L(s) \in [1..m -> Seq(Things)] /\ L(t) \in [1..n -> Seq(Things)]
        /\ L(u) \in [1..(m + n) -> Seq(Things)]
    BY <1>3, <2>1, <2>2, <2>3
  <2>. HIDE DEF L
  <2>. QED  BY <1>1, <2>4
<1>5. L(u) = L(s) \o L(t)
  <2>1. /\ L(s) \o L(t) \in Seq(Seq(Things)) /\ Len(L(s) \o L(t)) = m + n
        /\ \A i \in 1..m : (L(s) \o L(t))[i] = L(s)[i]
        /\ \A i \in 1..n : (L(s) \o L(t))[m + i] = L(t)[i]
    <3>. DEFINE v == L(s)
                w == L(t)
    <3>1. v \in Seq(Seq(Things)) /\ Len(v) = m /\ w \in Seq(Seq(Things)) /\ Len(w) = n
      BY <1>4
    <3>. HIDE DEF v, w, m, n
    <3>. DEFINE X == Seq(Things)
    <3>2. /\ v \o w \in Seq(X) /\ Len(v \o w) = Len(v) + Len(w)
          /\ \A i \in 1..Len(v) : (v \o w)[i] = v[i]
          /\ \A i \in 1..Len(w) : (v \o w)[Len(v) + i] = w[i]
      <4>1. v \in Seq(X) /\ w \in Seq(X)
        BY <3>1
      <4>. HIDE DEF X
      <4>. QED  BY <4>1, Both
    <3>3. /\ v \o w \in Seq(Seq(Things)) /\ Len(v \o w) = m + n
          /\ \A i \in 1..m : (v \o w)[i] = v[i]
          /\ \A i \in 1..n : (v \o w)[m + i] = w[i]
      BY <3>1, <3>2
    <3>. QED  BY <3>3 DEF v, w
  <2>2. ASSUME NEW i \in 1..(m + n) PROVE L(u)[i] = (L(s) \o L(t))[i]
    <3>0. L(u)[i] = Elements(u[i])
      <4>. HIDE DEF u, m, n
      <4>. QED  BY <1>1
    <3>1. CASE i \in 1..m
      <4>1. L(s)[i] = Elements(s[i]) /\ u[i] = s[i]
        <5>. HIDE DEF u, m, n
        <5>. QED  BY <1>1, <3>1
      <4>. HIDE DEF L, u, m, n
      <4>. QED  BY <2>1, <3>0, <3>1, <4>1
    <3>2. ASSUME NEW k \in 1..n, i = m + k PROVE L(u)[i] = (L(s) \o L(t))[i]
      <4>1. L(t)[k] = Elements(t[k]) /\ u[i] = t[k]
        <5>. HIDE DEF u, m, n
        <5>. QED  BY <1>1, <3>2
      <4>. HIDE DEF L, u, m, n
      <4>. QED  BY <2>1, <3>0, <3>2, <4>1
    <3>3. i \in 1..m \/ \E k \in 1..n : i = m + k
      <4>. HIDE DEF m, n
      <4>. QED  BY <1>1, EitherOf
    <3>. QED  BY <3>1, <3>2, <3>3
  <2>. HIDE DEF L, m, n, u
  <2>. QED  BY <1>4, <2>1, <2>2, SeqEqual
<1>6. Expanded(s) = Rows(L(s)) /\ Expanded(t) = Rows(L(t)) /\ Expanded(u) = Rows(L(u))
  BY DEF Expanded
<1>7. Rows(L(s) \o L(t)) = Rows(L(s)) \o Rows(L(t))
  <2>. HIDE DEF L
  <2>. QED  BY <1>4, RowsOfBoth
<1>8. \A x \in Seq(Seq(Things)) : Rows(x) \in Seq(Things)
  BY EmptySeq, RowsOfAppend
<1>. HIDE DEF L
<1>. QED  BY <1>4, <1>5, <1>6, <1>7, <1>8
----------------------------------------------------------------------------
\* What has been pulled is the beginning of the input; a pull adds a batch.
LEMMA UptoStarts ==
    ASSUME NEW T, NEW s \in Seq(Seq(T)), NEW k \in 0..Len(s)
    PROVE  \E rest \in Seq(T) : Rows(s) = Upto(s, k) \o rest
<1>. DEFINE n == Len(s)
            G == {j \in 0..n : \E rest \in Seq(T) : Upto(s, n) = Upto(s, n - j) \o rest}
<1>1. n \in Nat
  BY LenProperties
<1>2. Upto(s, n) = FlattenSeq(s)
  BY UptoIs
<1>3. /\ \A i \in 1..n : Upto(s, i) = Upto(s, i - 1) \o s[i]
      /\ \A i \in 0..n : Upto(s, i) \in Seq(T)
      /\ \A i \in 1..n : s[i] \in Seq(T)
  BY UptoIs, ElementOfSeq
<1>4. k \in 0..n
  OBVIOUS
<1>. HIDE DEF n
<1>5. 0 \in G
  <2>1. Upto(s, n) \in Seq(T)
    BY <1>1, <1>3
  <2>2. Upto(s, n) \o <<>> = Upto(s, n) /\ <<>> \in Seq(T) /\ n - 0 = n
    BY <1>1, <2>1, ConcatEmptySeq, EmptySeq
  <2>3. \E rest \in Seq(T) : Upto(s, n) = Upto(s, n - 0) \o rest
    BY <2>2
  <2>4. 0 \in 0..n
    BY <1>1
  <2>. QED  BY <2>3, <2>4
<1>6. ASSUME NEW j \in 1..n, j - 1 \in G PROVE j \in G
  <2>1. PICK rest \in Seq(T) : Upto(s, n) = Upto(s, n - (j - 1)) \o rest
    BY <1>6
  <2>2. n - (j - 1) \in 1..n /\ (n - (j - 1)) - 1 = n - j /\ n - j \in 0..n /\ j \in 0..n
    BY <1>1
  <2>3. Upto(s, n - (j - 1)) = Upto(s, n - j) \o s[n - (j - 1)]
    BY <1>3, <2>2
  <2>. DEFINE b == s[n - (j - 1)]
              u == Upto(s, n - j)
  <2>4. b \in Seq(T) /\ u \in Seq(T) /\ Upto(s, n) = (u \o b) \o rest
    BY <1>3, <2>1, <2>2, <2>3
  <2>. HIDE DEF b, u, G
  <2>5. (u \o b) \o rest = u \o (b \o rest) /\ b \o rest \in Seq(T)
    <3>1. b \in Seq(T) /\ u \in Seq(T) /\ rest \in Seq(T)
      BY <2>1, <2>4
    <3>2. Associates(u, b, rest)
      BY <3>1, Associative
    <3>3. b \o rest \in Seq(T)
      BY <3>1, ConcatProperties
    <3>. QED  BY <3>2, <3>3 DEF Associates
  <2>6. Upto(s, n) = Upto(s, n - j) \o (b \o rest)
    BY <2>4, <2>5 DEF u
  <2>7. \E r \in Seq(T) : Upto(s, n) = Upto(s, n - j) \o r
    BY <2>5, <2>6
  <2>. QED  BY <2>2, <2>7 DEF G
<1>7. 0..n \subseteq G
  <2>. HIDE DEF G
  <2>. QED  BY <1>1, <1>5, <1>6, UpTo
<1>8. \E rest \in Seq(T) : Upto(s, n) = Upto(s, k) \o rest
  <2>1. n - k \in 0..n /\ n - (n - k) = k
    BY <1>1, <1>4
  <2>2. n - k \in G
    <3>. HIDE DEF G
    <3>. QED  BY <1>7, <2>1
  <2>. QED  BY <2>1, <2>2
<1>. QED  BY <1>2, <1>8 DEF Rows

LEMMA Inputs ==
    ASSUME StreamTypeOK
    PROVE  /\ plan.input["left"] \in Seq(Seq(Row)) /\ pulled["left"] \in 0..Len(plan.input["left"])
           /\ Seen \in Seq(Row) /\ All \in Seq(Row) /\ Output \in Seq(Things)
           /\ \E rest \in Seq(Row) : All = Seen \o rest
           /\ pulled["left"] = Len(plan.input["left"]) => Seen = All
<1>. DEFINE s == plan.input["left"]
            k == pulled["left"]
<1>1. s \in Seq(Seq(Row)) /\ k \in 0..Len(s) /\ Len(s) \in Nat
  <2>1. s \in Seq(Seq(Row)) /\ k \in Nat
    BY DEF StreamTypeOK, IsStream, Sides
  <2>2. k <= Len(s)
    BY DEF StreamTypeOK
  <2>. HIDE DEF s, k
  <2>. QED  BY <2>1, <2>2, LenProperties
<1>. HIDE DEF s, k
<1>2. Seen = Upto(s, k) /\ All = Rows(s)
  BY DEF Seen, All, s, k
<1>3. Upto(s, Len(s)) = FlattenSeq(s) /\ \A i \in 0..Len(s) : Upto(s, i) \in Seq(Row)
  BY <1>1, UptoIs
<1>4. Rows(s) = Upto(s, Len(s)) /\ Rows(s) \in Seq(Row) /\ Seen \in Seq(Row)
  BY <1>1, <1>2, <1>3 DEF Rows
<1>5. \E rest \in Seq(Row) : Rows(s) = Upto(s, k) \o rest
  BY <1>1, UptoStarts
<1>6. Output \in Seq(Things)
  <2>1. returned \in Seq(Seq(Things))
    BY DEF StreamTypeOK
  <2>. QED  BY <2>1, RowsOfAppend, EmptySeq DEF Output
<1>. QED  BY <1>1, <1>2, <1>4, <1>5, <1>6 DEF s, k

LEMMA Pull ==
    ASSUME StreamTypeOK, Ready("left")
    PROVE  /\ Batch \in Seq(Row) /\ Seen' = Seen \o Batch /\ All' = All
           /\ plan' = plan /\ pulled' \in [Sides -> Nat] /\ pulled'["left"] <= Len(plan.input["left"])
           /\ \E rest \in Seq(Row) : All = (Seen \o Batch) \o rest
<1>. DEFINE s == plan.input["left"]
            k == pulled["left"]
<1>1. s \in Seq(Seq(Row)) /\ k \in 0..Len(s)
  BY Inputs
<1>2. k < Len(s) /\ plan' = plan /\ pulled' = [pulled EXCEPT !["left"] = k + 1] /\ pulled \in [Sides -> Nat]
  BY DEF Ready, StreamTypeOK
<1>3. pulled'["left"] = k + 1 /\ pulled' \in [Sides -> Nat]
  BY <1>1, <1>2 DEF Sides
<1>4. Batch = s[k + 1]
  BY DEF Batch, Delivered
<1>5. Seen = Upto(s, k) /\ Seen' = Upto(s, k + 1) /\ All' = All
  BY <1>2, <1>3 DEF Seen, All
<1>. HIDE DEF s, k
<1>6. k + 1 \in 1..Len(s) /\ (k + 1) - 1 = k
  BY <1>1, <1>2, LenProperties
<1>7. Upto(s, k + 1) = Upto(s, k) \o s[k + 1]
  <2>1. \A i \in 1..Len(s) : Upto(s, i) = Upto(s, i - 1) \o s[i]
    BY <1>1, UptoIs
  <2>. QED  BY <1>6, <2>1
<1>8. s[k + 1] \in Seq(Row)
  BY <1>1, <1>6, ElementOfSeq
<1>9. pulled'["left"] <= Len(s)
  BY <1>3, <1>6
<1>10. \E rest \in Seq(Row) : Rows(s) = Upto(s, k + 1) \o rest
  <2>1. k + 1 \in 0..Len(s)
    BY <1>1, <1>6
  <2>. QED  BY <1>1, <2>1, UptoStarts
<1>11. All = Rows(s)
  BY DEF All, s
<1>. QED  BY <1>2, <1>3, <1>4, <1>5, <1>7, <1>8, <1>9, <1>10, <1>11 DEF s

\* What is handed out follows what has been handed out.
LEMMA Handed ==
    ASSUME StreamTypeOK, NEW rows \in Seq(Things), Hands(rows) \/ HandsSome(rows)
    PROVE  returned' \in Seq(Seq(Things)) /\ Output' = Output \o rows
<1>1. returned \in Seq(Seq(Things)) /\ Output \in Seq(Things)
  BY Inputs DEF StreamTypeOK
<1>2. CASE Hands(rows)
  <2>1. returned' = Append(returned, rows)
    BY <1>2 DEF Hands
  <2>2. Append(returned, rows) \in Seq(Seq(Things)) /\ Rows(Append(returned, rows)) = Rows(returned) \o rows
    BY <1>1, AppendProperties, RowsOfAppend
  <2>. QED  BY <2>1, <2>2 DEF Output
<1>3. CASE rows = <<>> /\ Quiet
  <2>1. returned' = returned /\ Output' = Output /\ Output \o <<>> = Output
    BY <1>1, <1>3, ConcatEmptySeq DEF Quiet, Output
  <2>. QED  BY <1>1, <1>3, <2>1
<1>. QED  BY <1>2, <1>3 DEF HandsSome

LEMMA RowsAreThings == Seq(Row) \subseteq Seq(Things)
BY DEF Things
----------------------------------------------------------------------------
\* The invariant is about the plan, the input pulled, the operator's state,
\* what was returned and the status.
LEMMA Steady ==
    ASSUME StreamInv, UNCHANGED <<plan, pulled, self, returned, status>>
    PROVE  StreamInv'
<1>1. Seen' = Seen /\ All' = All /\ Output' = Output
  BY DEF Seen, All, Output
<1>2. StreamTypeOK'
  BY DEF StreamInv, StreamTypeOK
<1>3. (plan.op = "filter" => FilterInv)' /\ (plan.op = "project" => ProjectInv)'
  BY <1>1 DEF StreamInv, FilterInv, ProjectInv, Whole, Passing
<1>4. (plan.op = "limit" => LimitInv)'
  BY <1>1 DEF StreamInv, LimitInv, Window, Cutoff
<1>5. (plan.op = "distinct on" => DistinctInv)'
  BY <1>1 DEF StreamInv, DistinctInv, Whole
<1>6. (plan.op = "assert max one row" => AssertInv)'
  BY <1>1 DEF StreamInv, AssertInv, Whole, KeysOf, KeyOf, Single, TooMany, Repeats
<1>7. (plan.op = "unnest" => UnnestInv)'
  BY <1>1 DEF StreamInv, UnnestInv, Whole, Expanded, Elements
<1>8. (plan.op = "series" => SeriesInv)'
  BY <1>1 DEF StreamInv, SeriesInv, Nth, InRange
<1>9. (plan.op = "bernoulli" => BernoulliInv)'
  BY <1>1 DEF StreamInv, BernoulliInv, Whole
<1>10. (plan.op = "sample" => SampleInv)'
  BY <1>1 DEF StreamInv, SampleInv
<1>. QED  BY <1>2, <1>3, <1>4, <1>5, <1>6, <1>7, <1>8, <1>9, <1>10 DEF StreamInv

\* A step that keeps the plan and is well typed.
LEMMA TypedStep ==
    ASSUME StreamTypeOK, plan' = plan, returned' \in Seq(Seq(Things)),
           pulled' \in [Sides -> Nat], pulled'["left"] <= Len(plan.input["left"]),
           status' \in {"running", "done", "failed"}
    PROVE  StreamTypeOK'
BY DEF StreamTypeOK

LEMMA FilterStep == ASSUME StreamInv, Filter PROVE StreamInv'
<1>. DEFINE rows == Kept(Batch, Passing(Batch))
<1>1. /\ StreamTypeOK /\ FilterInv /\ plan.op = "filter" /\ Ready("left") /\ HandsSome(rows)
      /\ status' = "running"
  BY DEF StreamInv, Filter, Runs, Pulls, Ready, Becomes
<1>2. /\ Batch \in Seq(Row) /\ Seen' = Seen \o Batch /\ plan' = plan
      /\ pulled' \in [Sides -> Nat] /\ pulled'["left"] <= Len(plan.input["left"]) /\ Seen \in Seq(Row)
  BY <1>1, Pull, Inputs
<1>3. rows \in Seq(Things)
  BY <1>2, KeptType, RowsAreThings
<1>. HIDE DEF rows
<1>4. returned' \in Seq(Seq(Things)) /\ Output' = Output \o rows
  BY <1>1, <1>3, Handed
<1>5. Kept(Seen \o Batch, Passing(Seen \o Batch)) = Kept(Seen, Passing(Seen)) \o rows
  BY <1>2, PassingOfBoth DEF rows
<1>6. Passing(Seen)' = Passing(Seen \o Batch)
  BY <1>2 DEF Passing
<1>7. FilterInv'
  <2>1. Output' = Kept(Seen', Passing(Seen)')
    BY <1>1, <1>2, <1>4, <1>5, <1>6 DEF FilterInv
  <2>. QED  BY <1>1, <2>1 DEF FilterInv, Whole
<1>8. StreamTypeOK'
  BY <1>1, <1>2, <1>4, TypedStep
<1>. QED  BY <1>1, <1>2, <1>7, <1>8 DEF StreamInv

LEMMA ProjectStep == ASSUME StreamInv, Project PROVE StreamInv'
<1>1. /\ StreamTypeOK /\ ProjectInv /\ plan.op = "project" /\ Ready("left") /\ Hands(Batch)
      /\ status' = "running"
  BY DEF StreamInv, Project, Runs, Pulls, Ready, Becomes
<1>2. /\ Batch \in Seq(Row) /\ Seen' = Seen \o Batch /\ plan' = plan
      /\ pulled' \in [Sides -> Nat] /\ pulled'["left"] <= Len(plan.input["left"])
  BY <1>1, Pull
<1>3. returned' \in Seq(Seq(Things)) /\ Output' = Output \o Batch
  BY <1>1, <1>2, RowsAreThings, Handed
<1>4. ProjectInv'
  BY <1>1, <1>2, <1>3 DEF ProjectInv, Whole
<1>5. StreamTypeOK'
  BY <1>1, <1>2, <1>3, TypedStep
<1>. QED  BY <1>1, <1>2, <1>4, <1>5 DEF StreamInv

LEMMA DistinctStep == ASSUME StreamInv, DistinctOn PROVE StreamInv'
<1>. DEFINE rows == Kept(Batch, Unseen)
<1>1. /\ StreamTypeOK /\ DistinctInv /\ plan.op = "distinct on" /\ Ready("left") /\ HandsSome(rows)
      /\ status' = "running" /\ self' = [self EXCEPT !.seen = @ \cup Keys(Batch)]
  BY DEF StreamInv, DistinctOn, Runs, Pulls, Ready, Becomes
<1>2. /\ Batch \in Seq(Row) /\ Seen' = Seen \o Batch /\ plan' = plan
      /\ pulled' \in [Sides -> Nat] /\ pulled'["left"] <= Len(plan.input["left"]) /\ Seen \in Seq(Row)
  BY <1>1, Pull, Inputs
<1>3. rows \in Seq(Things)
  BY <1>2, KeptType, RowsAreThings
<1>4. Unseen = Fresh(Seen, Batch)
  <2>1. self.seen = Keys(Seen)
    BY <1>1 DEF DistinctInv
  <2>. QED  BY <2>1 DEF Unseen, Fresh
<1>5. Kept(Seen \o Batch, Firsts(Seen \o Batch)) = Kept(Seen, Firsts(Seen)) \o rows
  BY <1>2, <1>4, FirstsOfBoth
<1>. HIDE DEF rows
<1>6. returned' \in Seq(Seq(Things)) /\ Output' = Output \o rows
  BY <1>1, <1>3, Handed
<1>7. self' = [seen |-> Keys(Seen \o Batch)]
  <2>1. Keys(Seen \o Batch) = Keys(Seen) \cup Keys(Batch)
    BY <1>2, KeysOfBoth
  <2>2. self = [seen |-> Keys(Seen)]
    BY <1>1 DEF DistinctInv
  <2>. QED  BY <1>1, <2>1, <2>2
<1>8. DistinctInv'
  <2>1. Output' = Kept(Seen', Firsts(Seen')) /\ self' = [seen |-> Keys(Seen')]
    BY <1>1, <1>2, <1>5, <1>6, <1>7 DEF DistinctInv
  <2>. QED  BY <1>1, <2>1 DEF DistinctInv, Whole
<1>9. StreamTypeOK'
  BY <1>1, <1>2, <1>6, TypedStep
<1>. QED  BY <1>1, <1>2, <1>8, <1>9 DEF StreamInv
----------------------------------------------------------------------------
\* OFFSET and LIMIT of a sequence that grows: what is skipped of the rows that
\* come after m others.
Skipped(m) == IF plan.offset <= m THEN 0 ELSE plan.offset - m
Later(s, t) == SubSeq(t, Skipped(Len(s)) + 1, Cutoff(Len(s) + Len(t)) - Len(s))

LEMMA CutoffIs ==
    ASSUME NEW n \in Nat, plan.offset \in Nat, plan.limit \in Nat \cup {Unlimited}
    PROVE  /\ Cutoff(n) \in Nat
           /\ Cutoff(n) = IF plan.limit = -1 \/ n <= plan.offset + plan.limit THEN n ELSE plan.offset + plan.limit
<1>1. CASE plan.limit = Unlimited
  BY <1>1 DEF Cutoff, Unlimited
<1>2. CASE plan.limit # Unlimited
  <2>1. plan.limit \in Nat /\ plan.limit # -1 /\ plan.offset + plan.limit \in Nat
    BY <1>2 DEF Unlimited
  <2>2. Min({n, plan.offset + plan.limit}) = IF n <= plan.offset + plan.limit THEN n ELSE plan.offset + plan.limit
    BY <2>1, MinOfTwo
  <2>. QED  BY <1>2, <2>1, <2>2 DEF Cutoff
<1>. QED  BY <1>1, <1>2

LEMMA CutNumbers ==
    ASSUME NEW o \in Nat, NEW l \in Nat \cup {-1}, NEW m \in Nat, NEW n \in Nat,
           NEW b, b = IF l = -1 \/ m + n <= o + l THEN m + n ELSE o + l,
           NEW c, c = IF l = -1 \/ m <= o + l THEN m ELSE o + l
    PROVE  b <= m + n /\ c = (IF b <= m THEN b ELSE m) /\ b - m \in Int /\ b - m <= n /\ c <= m
OBVIOUS

LEMMA WindowOfBoth ==
    ASSUME NEW T, NEW s \in Seq(T), NEW t \in Seq(T), plan.offset \in Nat, plan.limit \in Nat \cup {Unlimited}
    PROVE  /\ Window(s \o t) = Window(s) \o Later(s, t)
           /\ Window(s) \in Seq(T) /\ Later(s, t) \in Seq(T)
           /\ Len(Window(s)) = IF plan.offset < Cutoff(Len(s)) THEN Cutoff(Len(s)) - plan.offset ELSE 0
           /\ Len(Later(s, t)) = LET e == Cutoff(Len(s) + Len(t)) - Len(s)
                                 IN  IF Skipped(Len(s)) < e THEN e - Skipped(Len(s)) ELSE 0
<1>. DEFINE a == plan.offset
            m == Len(s)
            n == Len(t)
            b == Cutoff(m + n)
            c == Cutoff(m)
            d == Skipped(m)
            e == b - m
<1>1. m \in Nat /\ n \in Nat /\ a \in Nat /\ m + n \in Nat /\ Len(s \o t) = m + n
  BY LenProperties, ConcatProperties
<1>2. /\ b = IF plan.limit = -1 \/ m + n <= a + plan.limit THEN m + n ELSE a + plan.limit
      /\ c = IF plan.limit = -1 \/ m <= a + plan.limit THEN m ELSE a + plan.limit
      /\ b \in Nat /\ c \in Nat
  BY <1>1, CutoffIs
<1>3. d \in Nat /\ d = IF a <= m THEN 0 ELSE a - m
  BY <1>1 DEF Skipped
<1>4. /\ b <= m + n
      /\ c = IF b <= m THEN b ELSE m
      /\ e \in Int /\ e <= n /\ c <= m
  <2>. DEFINE l == plan.limit
  <2>1. l \in Nat \cup {-1}
    BY DEF Unlimited
  <2>2. /\ b = IF l = -1 \/ m + n <= a + l THEN m + n ELSE a + l
        /\ c = IF l = -1 \/ m <= a + l THEN m ELSE a + l
    BY <1>2
  <2>. HIDE DEF a, b, c, m, n, l
  <2>. QED  BY <1>1, <2>1, <2>2, CutNumbers
<1>5. SubSeq(s \o t, a + 1, b) = SubSeq(s, a + 1, c) \o SubSeq(t, d + 1, e)
  <2>1. e = b - m
    OBVIOUS
  <2>. HIDE DEF a, b, c, d, e
  <2>2. a \in Nat /\ b \in Int /\ c \in Int /\ d \in Nat /\ e \in Int
    BY <1>1, <1>2, <1>3, <1>4
  <2>3. Splits(a, b, c, d, e, m, n)
    BY <1>3, <1>4, <2>1 DEF Splits
  <2>4. After(s \o t, a, b) = After(s, a, c) \o After(t, d, e)
    <3>1. Splits(a, b, c, d, e, Len(s), Len(t))
      BY <2>3
    <3>. HIDE DEF m, n
    <3>. QED  BY <2>2, <3>1, PartOfBoth, SMTT(20)
  <2>. QED  BY <2>4 DEF After
<1>6. Window(s \o t) = SubSeq(s \o t, a + 1, b) /\ Window(s) = SubSeq(s, a + 1, c) /\ Later(s, t) = SubSeq(t, d + 1, e)
  BY <1>1 DEF Window, Later
<1>7. SubSeq(s, a + 1, c) \in Seq(T) /\ Len(SubSeq(s, a + 1, c)) = IF a < c THEN c - a ELSE 0
  <2>. HIDE DEF a, b, c, d, e
  <2>1. a \in Nat /\ c \in Int /\ c <= Len(s)
    BY <1>1, <1>2, <1>4
  <2>. QED  BY <2>1, Part
<1>8. SubSeq(t, d + 1, e) \in Seq(T) /\ Len(SubSeq(t, d + 1, e)) = IF d < e THEN e - d ELSE 0
  <2>. HIDE DEF a, b, c, d, e
  <2>1. d \in Nat /\ e \in Int /\ e <= Len(t)
    BY <1>3, <1>4
  <2>. QED  BY <2>1, Part
<1>. QED  BY <1>5, <1>6, <1>7, <1>8

\* Where a batch is cut, said as the code computes it from what was seen and
\* emitted.
LEMMA LimitNumbers ==
    ASSUME NEW o \in Nat, NEW l \in Nat \cup {-1}, NEW m \in Nat, NEW n \in Nat,
           NEW b, b = IF l = -1 \/ m + n <= o + l THEN m + n ELSE o + l,
           NEW c, c = IF l = -1 \/ m <= o + l THEN m ELSE o + l,
           NEW d, d = IF o <= m THEN 0 ELSE o - m,
           NEW x, x = IF o < c THEN c - o ELSE 0
    PROVE  /\ b \in Nat /\ c \in Nat /\ d \in Nat /\ x \in Nat
           /\ l # -1 /\ x >= l => b - m <= d
           /\ n <= d => b - m <= d
           /\ ~(l # -1 /\ x >= l) /\ n > d =>
                LET take == IF l = -1 \/ n - d <= l - x THEN n - d ELSE l - x
                IN  take \in Nat \ {0} /\ d + take = b - m
OBVIOUS

LEMMA LimitStep == ASSUME StreamInv, Limit PROVE StreamInv'
<1>. DEFINE o == plan.offset
            l == plan.limit
            m == Len(Seen)
            n == Len(Batch)
            b == Cutoff(m + n)
            c == Cutoff(m)
            d == Skipped(m)
            x == Len(Output)
            skip == Max({0, plan.offset - self.seen})
            take == IF plan.limit = Unlimited THEN Len(Batch) - skip
                    ELSE Min({Len(Batch) - skip, plan.limit - self.emitted})
<1>1. /\ StreamTypeOK /\ LimitInv /\ plan.op = "limit" /\ Ready("left") /\ ~LimitReached
      /\ status' = "running"
      /\ IF Len(Batch) <= skip \/ take = 0
         THEN self' = [self EXCEPT !.seen = @ + Len(Batch)] /\ Quiet
         ELSE /\ self' = [seen |-> self.seen + Len(Batch), emitted |-> self.emitted + take]
              /\ Hands(SubSeq(Batch, skip + 1, skip + take))
  BY DEF StreamInv, Limit, Runs, Pulls, Ready, Becomes
<1>2. /\ Batch \in Seq(Row) /\ Seen' = Seen \o Batch /\ plan' = plan
      /\ pulled' \in [Sides -> Nat] /\ pulled'["left"] <= Len(plan.input["left"]) /\ Seen \in Seq(Row)
      /\ Output \in Seq(Things)
  BY <1>1, Pull, Inputs
<1>3. o \in Nat /\ l \in Nat \cup {Unlimited} /\ m \in Nat /\ n \in Nat
  BY <1>1, <1>2, LenProperties DEF StreamTypeOK, IsStream
<1>4. self = [seen |-> m, emitted |-> x] /\ Output = Window(Seen)
  BY <1>1 DEF LimitInv
<1>5. /\ Window(Seen \o Batch) = Window(Seen) \o Later(Seen, Batch)
      /\ x = (IF o < c THEN c - o ELSE 0)
      /\ Later(Seen, Batch) \in Seq(Row)
      /\ Len(Later(Seen, Batch)) = IF d < b - m THEN b - m - d ELSE 0
  BY <1>2, <1>3, <1>4, WindowOfBoth
<1>6. /\ b = (IF l = -1 \/ m + n <= o + l THEN m + n ELSE o + l)
      /\ c = (IF l = -1 \/ m <= o + l THEN m ELSE o + l)
      /\ d = (IF o <= m THEN 0 ELSE o - m)
  <2>. HIDE DEF m, n
  <2>. QED  BY <1>3, CutoffIs DEF Skipped
<1>7. /\ b \in Nat /\ c \in Nat /\ d \in Nat /\ x \in Nat
      /\ l # -1 /\ x >= l => b - m <= d
      /\ n <= d => b - m <= d
      /\ ~(l # -1 /\ x >= l) /\ n > d =>
            LET cut == IF l = -1 \/ n - d <= l - x THEN n - d ELSE l - x
            IN  cut \in Nat \ {0} /\ d + cut = b - m
  <2>1. l \in Nat \cup {-1} /\ x = (IF o < c THEN c - o ELSE 0)
    BY <1>3, <1>5 DEF Unlimited
  <2>. HIDE DEF o, l, m, n, b, c, d, x
  <2>. QED  BY <1>3, <1>6, <2>1, LimitNumbers
<1>8. ~(l # -1 /\ x >= l)
  BY <1>1, <1>4 DEF LimitReached, Unlimited
<1>9. skip = d
  <2>1. self.seen = m /\ o - m \in Int
    BY <1>3, <1>4
  <2>2. Max({0, o - m}) = IF 0 >= o - m THEN 0 ELSE o - m
    BY <2>1, MaxOfTwo
  <2>. HIDE DEF o, m
  <2>3. d = IF o <= m THEN 0 ELSE o - m
    BY <1>6
  <2>4. (IF 0 >= o - m THEN 0 ELSE o - m) = IF o <= m THEN 0 ELSE o - m
    BY <1>3
  <2>. QED  BY <2>1, <2>2, <2>3, <2>4 DEF o
<1>10. take = IF l = -1 \/ n - d <= l - x THEN n - d ELSE l - x
  <2>1. self.emitted = x
    BY <1>4
  <2>2. l # -1 => Min({n - d, l - x}) = IF n - d <= l - x THEN n - d ELSE l - x
    <3>1. ASSUME l # -1 PROVE n - d \in Int /\ l - x \in Int
      BY <1>3, <1>7, <3>1 DEF Unlimited
    <3>. QED  BY <3>1, MinOfTwo
  <2>. QED  BY <1>9, <2>1, <2>2 DEF Unlimited
<1>. HIDE DEF skip, take
<1>11. CASE n <= d \/ take = 0
  <2>1. n <= d
    <3>. HIDE DEF o, l, m, n, b, c, d, x
    <3>. QED  BY <1>3, <1>7, <1>8, <1>10, <1>11
  <2>2. Len(Later(Seen, Batch)) = 0
    <3>. HIDE DEF o, l, m, n, b, c, d, x
    <3>. QED  BY <1>3, <1>5, <1>7, <2>1
  <2>3. Later(Seen, Batch) = <<>>
    BY <1>5, <2>2, EmptySeq
  <2>4. self' = [self EXCEPT !.seen = @ + n] /\ returned' = returned
    BY <1>1, <1>9, <1>11 DEF Quiet
  <2>5. self' = [seen |-> m + n, emitted |-> x]
    <3>. HIDE DEF m, n, x
    <3>. QED  BY <1>4, <2>4
  <2>6. Output' = Output /\ returned' \in Seq(Seq(Things))
    BY <1>1, <2>4 DEF Output, StreamTypeOK
  <2>7. Output = Window(Seen \o Batch)
    BY <1>2, <1>4, <1>5, <2>3, ConcatEmptySeq
  <2>8. Len(Seen \o Batch) = m + n
    BY <1>2, ConcatProperties
  <2>9. Window(Seen)' = Window(Seen \o Batch)
    BY <1>2 DEF Window, Cutoff
  <2>10. LimitInv'
    <3>1. self' = [seen |-> Len(Seen'), emitted |-> Len(Output')]
      BY <1>2, <2>5, <2>6, <2>8
    <3>. QED  BY <1>1, <2>6, <2>7, <2>9, <3>1 DEF LimitInv
  <2>11. StreamTypeOK'
    BY <1>1, <1>2, <2>6, TypedStep
  <2>. QED  BY <1>1, <1>2, <2>10, <2>11 DEF StreamInv
<1>12. CASE ~(n <= d \/ take = 0)
  <2>1. take \in Nat \ {0} /\ d + take = b - m
    <3>. HIDE DEF o, l, m, n, b, c, d, x
    <3>. QED  BY <1>3, <1>7, <1>8, <1>10, <1>12
  <2>2. SubSeq(Batch, skip + 1, skip + take) = Later(Seen, Batch)
    BY <1>9, <2>1 DEF Later
  <2>3. self' = [seen |-> m + n, emitted |-> x + take] /\ Hands(Later(Seen, Batch))
    BY <1>1, <1>4, <1>9, <1>12, <2>2
  <2>4. Later(Seen, Batch) \in Seq(Things)
    BY <1>5, RowsAreThings
  <2>5. returned' \in Seq(Seq(Things)) /\ Output' = Output \o Later(Seen, Batch)
    BY <1>1, <2>3, <2>4, Handed
  <2>6. Len(Later(Seen, Batch)) = take
    <3>. HIDE DEF o, l, m, n, b, c, d, x
    <3>. QED  BY <1>3, <1>5, <1>7, <2>1
  <2>7. Len(Output') = x + take
    BY <1>2, <2>4, <2>5, <2>6, ConcatProperties
  <2>8. Len(Seen \o Batch) = m + n
    BY <1>2, ConcatProperties
  <2>9. Window(Seen)' = Window(Seen \o Batch)
    BY <1>2 DEF Window, Cutoff
  <2>10. LimitInv'
    <3>1. self' = [seen |-> Len(Seen'), emitted |-> Len(Output')]
      BY <1>2, <2>3, <2>7, <2>8
    <3>. QED  BY <1>1, <1>4, <1>5, <2>5, <2>9, <3>1 DEF LimitInv
  <2>11. StreamTypeOK'
    BY <1>1, <1>2, <2>5, TypedStep
  <2>. QED  BY <1>1, <1>2, <2>10, <2>11 DEF StreamInv
<1>. QED  BY <1>11, <1>12

\* An end: what was returned, the state and the input pulled stay.
LEMMA AtTheEnd ==
    ASSUME StreamTypeOK, UNCHANGED <<plan, pulled, returned>>, status' = "done"
    PROVE  StreamTypeOK' /\ Seen' = Seen /\ All' = All /\ Output' = Output
BY DEF StreamTypeOK, Seen, All, Output

LEMMA LimitDoneStep == ASSUME StreamInv, LimitDone PROVE StreamInv'
<1>1. /\ StreamTypeOK /\ LimitInv /\ plan.op = "limit" /\ LimitReached
      /\ UNCHANGED <<plan, pulled, returned, self>> /\ status' = "done"
  BY DEF StreamInv, LimitDone, Runs, Onwards, Finishes
<1>2. StreamTypeOK' /\ Seen' = Seen /\ All' = All /\ Output' = Output
  BY <1>1, AtTheEnd
<1>3. PICK rest \in Seq(Row) : All = Seen \o rest
  BY <1>1, Inputs
<1>. DEFINE o == plan.offset
            l == plan.limit
            m == Len(Seen)
            n == Len(rest)
            b == Cutoff(m + n)
            c == Cutoff(m)
            d == Skipped(m)
            x == Len(Output)
<1>4. o \in Nat /\ l \in Nat \cup {Unlimited} /\ Seen \in Seq(Row) /\ m \in Nat /\ n \in Nat
  BY <1>1, <1>3, Inputs, LenProperties DEF StreamTypeOK, IsStream
<1>5. Output = Window(Seen) /\ l # -1 /\ x >= l
  BY <1>1 DEF LimitInv, LimitReached, Unlimited
<1>6. /\ Window(Seen \o rest) = Window(Seen) \o Later(Seen, rest)
      /\ x = (IF o < c THEN c - o ELSE 0)
      /\ Later(Seen, rest) \in Seq(Row) /\ Window(Seen) \in Seq(Row)
      /\ Len(Later(Seen, rest)) = IF d < b - m THEN b - m - d ELSE 0
  BY <1>3, <1>4, <1>5, WindowOfBoth
<1>7. /\ b = (IF l = -1 \/ m + n <= o + l THEN m + n ELSE o + l)
      /\ c = (IF l = -1 \/ m <= o + l THEN m ELSE o + l)
      /\ d = (IF o <= m THEN 0 ELSE o - m)
  <2>1. o \in Nat /\ l \in Nat \cup {Unlimited} /\ m \in Nat /\ m + n \in Nat
    <3>. HIDE DEF m, n
    <3>. QED  BY <1>4
  <2>. HIDE DEF m, n
  <2>. QED  BY <2>1, CutoffIs DEF Skipped
<1>8. b - m <= d /\ b \in Nat /\ d \in Nat
  <2>1. l \in Nat \cup {-1} /\ x = (IF o < c THEN c - o ELSE 0)
    BY <1>4, <1>6 DEF Unlimited
  <2>. HIDE DEF o, l, m, n, b, c, d, x
  <2>. QED  BY <1>4, <1>5, <1>7, <2>1, LimitNumbers
<1>9. Len(Later(Seen, rest)) = 0
  <2>. HIDE DEF o, l, m, n, b, c, d, x
  <2>. QED  BY <1>4, <1>6, <1>8
<1>10. Window(All) = Window(Seen)
  BY <1>3, <1>6, <1>9, EmptySeq, ConcatEmptySeq
<1>11. Window(Seen)' = Window(Seen) /\ Window(All)' = Window(All)
  BY <1>1, <1>2 DEF Window, Cutoff
<1>12. LimitInv'
  BY <1>1, <1>2, <1>5, <1>10, <1>11 DEF LimitInv
<1>. QED  BY <1>1, <1>2, <1>12 DEF StreamInv
----------------------------------------------------------------------------
\* A batch has as many keys as rows if no two have the same one.
LEMMA KeysCounted ==
    ASSUME NEW s \in Seq(Row)
    PROVE  /\ ~Single(s) => Cardinality(KeysOf(s)) < Len(s)
           /\ Cardinality(KeysOf(s)) < Len(s) => ~Single(s)
           /\ KeysOf(s) = {KeyOf(s[i]) : i \in 1..Len(s)}
<1>. DEFINE n == Len(s)
            f == [i \in 1..n |-> KeyOf(s[i])]
<1>1. n \in Nat /\ DOMAIN s = 1..n
  BY LenProperties
<1>2. KeysOf(s) = {f[i] : i \in 1..n}
  <2>1. Range(s) = {s[i] : i \in 1..n}
    BY RangeEquality
  <2>. HIDE DEF n
  <2>. QED  BY <1>1, <2>1 DEF KeysOf
<1>3. IsFiniteSet(1..n) /\ Cardinality(1..n) = n
  <2>. HIDE DEF n
  <2>. QED  BY <1>1, FS_Interval
<1>4. f \in Surjection(1..n, KeysOf(s))
  BY <1>2 DEF Surjection
<1>5. /\ IsFiniteSet(KeysOf(s)) /\ Cardinality(KeysOf(s)) <= n /\ Cardinality(KeysOf(s)) \in Nat
      /\ Cardinality(KeysOf(s)) = n <=> f \in Injection(1..n, KeysOf(s))
  <2>. HIDE DEF f, n
  <2>1. /\ IsFiniteSet(KeysOf(s)) /\ Cardinality(KeysOf(s)) <= Cardinality(1..n)
        /\ Cardinality(KeysOf(s)) = Cardinality(1..n) <=> f \in Injection(1..n, KeysOf(s))
    BY <1>3, <1>4, FS_Surjection
  <2>. QED  BY <1>3, <2>1, FS_CardinalityType
<1>6. f \in Injection(1..n, KeysOf(s)) <=> Single(s)
  <2>1. f \in [1..n -> KeysOf(s)]
    BY <1>2
  <2>2. \A i \in 1..n : f[i] = KeyOf(s[i])
    OBVIOUS
  <2>. HIDE DEF f, n
  <2>3. Single(s) <=> \A i, j \in 1..n : i # j => f[i] # f[j]
    BY <1>1, <2>2 DEF Single
  <2>. QED  BY <2>1, <2>3 DEF Injection, IsInjective
<1>7. (~Single(s) => Cardinality(KeysOf(s)) < n) /\ (Cardinality(KeysOf(s)) < n => ~Single(s))
  <2>. HIDE DEF f, n
  <2>. QED  BY <1>1, <1>5, <1>6
<1>. QED  BY <1>2, <1>7

LEMMA SingleOfBoth ==
    ASSUME NEW s \in Seq(Row), NEW t \in Seq(Row)
    PROVE  /\ KeysOf(s \o t) = KeysOf(s) \cup KeysOf(t)
           /\ Single(s \o t) <=> Single(s) /\ Single(t) /\ KeysOf(s) \cap KeysOf(t) = {}
<1>. DEFINE u == s \o t
            m == Len(s)
            n == Len(t)
<1>1. /\ DOMAIN u = 1..(m + n) /\ DOMAIN s = 1..m /\ DOMAIN t = 1..n /\ m \in Nat /\ n \in Nat
      /\ \A i \in 1..m : i \in 1..(m + n) /\ u[i] = s[i]
      /\ \A i \in 1..n : m + i \in 1..(m + n) /\ u[m + i] = t[i]
  BY Both
<1>2. KeysOf(u) = KeysOf(s) \cup KeysOf(t)
  <2>1. Range(u) = Range(s) \cup Range(t)
    BY RangeConcatenation
  <2>. HIDE DEF u
  <2>. QED  BY <2>1 DEF KeysOf
<1>3. KeysOf(s) = {KeyOf(s[i]) : i \in 1..m} /\ KeysOf(t) = {KeyOf(t[i]) : i \in 1..n}
  BY KeysCounted
<1>4. ASSUME Single(u) PROVE Single(s) /\ Single(t) /\ KeysOf(s) \cap KeysOf(t) = {}
  <2>. HIDE DEF u, m, n
  <2>1. \A i, j \in 1..(m + n) : i # j => KeyOf(u[i]) # KeyOf(u[j])
    BY <1>1, <1>4 DEF Single
  <2>2. Single(s)
    BY <1>1, <2>1 DEF Single
  <2>3. Single(t)
    <3>1. ASSUME NEW i \in 1..n, NEW j \in 1..n, i # j PROVE KeyOf(t[i]) # KeyOf(t[j])
      <4>1. m + i # m + j /\ m + i \in 1..(m + n) /\ m + j \in 1..(m + n) /\ u[m + i] = t[i] /\ u[m + j] = t[j]
        BY <1>1, <3>1
      <4>2. KeyOf(u[m + i]) # KeyOf(u[m + j])
        BY <2>1, <4>1
      <4>. QED  BY <4>1, <4>2
    <3>. QED  BY <1>1, <3>1 DEF Single
  <2>4. ASSUME NEW i \in 1..m, NEW j \in 1..n PROVE KeyOf(s[i]) # KeyOf(t[j])
    <3>1. i # m + j /\ i \in 1..(m + n) /\ m + j \in 1..(m + n) /\ u[i] = s[i] /\ u[m + j] = t[j]
      BY <1>1
    <3>2. KeyOf(u[i]) # KeyOf(u[m + j])
      BY <2>1, <3>1
    <3>. QED  BY <3>1, <3>2
  <2>5. KeysOf(s) \cap KeysOf(t) = {}
    BY <1>3, <2>4
  <2>. QED  BY <2>2, <2>3, <2>5
<1>5. ASSUME Single(s), Single(t), KeysOf(s) \cap KeysOf(t) = {} PROVE Single(u)
  <2>. HIDE DEF u, m, n
  <2>1. /\ \A i, j \in 1..m : i # j => KeyOf(s[i]) # KeyOf(s[j])
        /\ \A i, j \in 1..n : i # j => KeyOf(t[i]) # KeyOf(t[j])
    BY <1>1, <1>5 DEF Single
  <2>0. ASSUME NEW i \in 1..m, NEW j \in 1..n PROVE KeyOf(s[i]) # KeyOf(t[j])
    BY <1>3, <1>5
  <2>2. ASSUME NEW i \in 1..(m + n), NEW j \in 1..(m + n), i # j PROVE KeyOf(u[i]) # KeyOf(u[j])
    <3>1. CASE i \in 1..m /\ j \in 1..m
      BY <1>1, <2>1, <2>2, <3>1
    <3>2. ASSUME i \in 1..m, NEW k \in 1..n, j = m + k PROVE KeyOf(u[i]) # KeyOf(u[j])
      BY <1>1, <2>0, <3>2
    <3>3. ASSUME j \in 1..m, NEW k \in 1..n, i = m + k PROVE KeyOf(u[i]) # KeyOf(u[j])
      BY <1>1, <2>0, <3>3
    <3>4. ASSUME NEW k \in 1..n, i = m + k, NEW h \in 1..n, j = m + h PROVE KeyOf(u[i]) # KeyOf(u[j])
      <4>1. k # h
        BY <2>2, <3>4
      <4>2. u[m + k] = t[k] /\ u[m + h] = t[h]
        BY <1>1, <3>4
      <4>3. KeyOf(t[k]) # KeyOf(t[h])
        BY <2>1, <3>4, <4>1
      <4>. QED  BY <3>4, <4>2, <4>3
    <3>5. i \in 1..m \/ \E k \in 1..n : i = m + k
      BY <1>1, EitherOf
    <3>6. j \in 1..m \/ \E k \in 1..n : j = m + k
      BY <1>1, EitherOf
    <3>. QED  BY <3>1, <3>2, <3>3, <3>4, <3>5, <3>6
  <2>. QED  BY <1>1, <2>2 DEF Single
<1>. HIDE DEF u
<1>6. /\ KeysOf(u) = KeysOf(s) \cup KeysOf(t)
      /\ Single(u) <=> Single(s) /\ Single(t) /\ KeysOf(s) \cap KeysOf(t) = {}
  BY <1>2, <1>4, <1>5
<1>. QED  BY <1>6 DEF u

\* Two rows of a key are too many, and only they.
LEMMA TooManyIs ==
    ASSUME All \in Seq(Row), plan.keyed \in BOOLEAN PROVE TooMany <=> ~Single(All)
<1>1. DOMAIN All = 1..Len(All) /\ Len(All) \in Nat
  BY LenProperties
<1>. DEFINE s == All
            n == Len(s)
<1>2. CASE plan.keyed
  <2>1. TooMany <=> \E i \in DOMAIN s : \E j \in 1..(i - 1) : s[j].key = s[i].key
    BY <1>2 DEF TooMany, Repeats
  <2>2. Single(s) <=> \A i, j \in DOMAIN s : i # j => s[i].key # s[j].key
    BY <1>2 DEF Single, KeyOf
  <2>3. DOMAIN s = 1..n /\ n \in Nat
    BY <1>1
  <2>. HIDE DEF s, n
  <2>4. ASSUME NEW i \in DOMAIN s, NEW j \in 1..(i - 1), s[j].key = s[i].key
        PROVE  \E h, k \in DOMAIN s : h # k /\ s[h].key = s[k].key
    BY <2>3, <2>4
  <2>5. ASSUME NEW h \in DOMAIN s, NEW k \in DOMAIN s, h # k, s[h].key = s[k].key
        PROVE  \E i \in DOMAIN s : \E j \in 1..(i - 1) : s[j].key = s[i].key
    <3>1. CASE h < k
      <4>1. h \in 1..(k - 1)
        BY <2>3, <3>1
      <4>. QED  BY <2>5, <4>1
    <3>2. CASE k < h
      <4>1. k \in 1..(h - 1)
        BY <2>3, <3>2
      <4>. QED  BY <2>5, <4>1
    <3>. QED  BY <2>3, <2>5, <3>1, <3>2
  <2>6. (\E i \in DOMAIN s : \E j \in 1..(i - 1) : s[j].key = s[i].key)
        <=> ~ \A i, j \in DOMAIN s : i # j => s[i].key # s[j].key
    BY <2>4, <2>5
  <2>. QED  BY <2>1, <2>2, <2>6 DEF s
<1>3. CASE ~plan.keyed
  <2>1. TooMany <=> n > 1
    BY <1>3 DEF TooMany
  <2>2. Single(s) <=> \A i, j \in 1..n : i = j
    BY <1>1, <1>3 DEF Single, KeyOf
  <2>3. n \in Nat
    BY <1>1
  <2>. HIDE DEF n
  <2>4. n > 1 => 1 \in 1..n /\ 2 \in 1..n
    BY <2>3
  <2>5. ~(n > 1) => \A i, j \in 1..n : i = j
    BY <2>3
  <2>. QED  BY <2>1, <2>2, <2>4, <2>5
<1>. QED  BY <1>2, <1>3

LEMMA AssertStep == ASSUME StreamInv, AssertMaxOneRow PROVE StreamInv'
<1>. DEFINE keys == {KeyOf(r) : r \in Range(Batch)}
            bad == Cardinality(keys) < Len(Batch) \/ keys \cap self.seen # {}
<1>1. /\ StreamTypeOK /\ AssertInv /\ plan.op = "assert max one row" /\ Ready("left") /\ status = "running"
      /\ IF bad THEN Fails
         ELSE self' = [self EXCEPT !.seen = @ \cup keys] /\ status' = status /\ HandsSome(Batch)
  BY DEF StreamInv, AssertMaxOneRow, Runs, Pulls, Ready, Becomes
<1>2. /\ Batch \in Seq(Row) /\ Seen' = Seen \o Batch /\ plan' = plan /\ All' = All
      /\ pulled' \in [Sides -> Nat] /\ pulled'["left"] <= Len(plan.input["left"])
      /\ Seen \in Seq(Row) /\ All \in Seq(Row) /\ plan.keyed \in BOOLEAN
      /\ \E rest \in Seq(Row) : All = (Seen \o Batch) \o rest
      /\ \E rest \in Seq(Row) : All = Seen \o rest
  BY <1>1, Pull, Inputs DEF StreamTypeOK, IsStream
<1>3. Output = Seen /\ self = [seen |-> KeysOf(Seen)] /\ Single(Seen)
  BY <1>1 DEF AssertInv
<1>4. keys = KeysOf(Batch)
  BY DEF KeysOf
<1>. HIDE DEF keys
<1>5. /\ KeysOf(Seen \o Batch) = KeysOf(Seen) \cup keys
      /\ Single(Seen \o Batch) <=> Single(Seen) /\ Single(Batch) /\ KeysOf(Seen) \cap keys = {}
  BY <1>2, <1>4, SingleOfBoth
<1>6. Single(Seen \o Batch) <=> ~bad
  <2>1. Cardinality(keys) < Len(Batch) <=> ~Single(Batch)
    BY <1>2, <1>4, KeysCounted
  <2>2. self.seen = KeysOf(Seen)
    BY <1>3
  <2>. QED  BY <1>3, <1>5, <2>1, <2>2
<1>. HIDE DEF bad
<1>7. CASE bad
  <2>1. status' = "failed" /\ UNCHANGED <<self, returned>>
    BY <1>1, <1>7 DEF Fails
  <2>2. TooMany
    <3>1. PICK rest \in Seq(Row) : All = (Seen \o Batch) \o rest
      BY <1>2
    <3>2. Seen \o Batch \in Seq(Row)
      BY <1>2, ConcatProperties
    <3>3. ~Single(All)
      BY <1>6, <1>7, <3>1, <3>2, SingleOfBoth
    <3>. QED  BY <1>2, <3>3, TooManyIs
  <2>3. TooMany'
    BY <1>2, <2>2 DEF TooMany, Repeats
  <2>4. Output' = Output /\ returned' \in Seq(Seq(Things))
    BY <1>1, <2>1 DEF Output, StreamTypeOK
  <2>5. AssertInv'
    <3>1. \E rest \in Seq(Row) : All' = Output' \o rest
      BY <1>2, <1>3, <2>4
    <3>. QED  BY <2>1, <2>3, <3>1 DEF AssertInv, Whole
  <2>6. StreamTypeOK'
    BY <1>1, <1>2, <2>1, <2>4, TypedStep
  <2>. QED  BY <1>1, <1>2, <2>5, <2>6 DEF StreamInv
<1>8. CASE ~bad
  <2>1. self' = [self EXCEPT !.seen = @ \cup keys] /\ status' = "running" /\ HandsSome(Batch)
    BY <1>1, <1>8
  <2>2. returned' \in Seq(Seq(Things)) /\ Output' = Output \o Batch
    BY <1>1, <1>2, <2>1, RowsAreThings, Handed
  <2>3. self' = [seen |-> KeysOf(Seen \o Batch)]
    BY <1>3, <1>5, <2>1
  <2>4. KeysOf(Seen)' = KeysOf(Seen \o Batch) /\ (Single(Seen)' <=> Single(Seen \o Batch))
    BY <1>2 DEF KeysOf, Single, KeyOf
  <2>5. AssertInv'
    <3>1. Output' = Seen' /\ self' = [seen |-> KeysOf(Seen)'] /\ Single(Seen)'
      BY <1>2, <1>3, <1>6, <1>8, <2>2, <2>3, <2>4
    <3>. QED  BY <2>1, <3>1 DEF AssertInv, Whole
  <2>6. StreamTypeOK'
    BY <1>1, <1>2, <2>1, <2>2, TypedStep
  <2>. QED  BY <1>1, <1>2, <2>5, <2>6 DEF StreamInv
<1>. QED  BY <1>7, <1>8
----------------------------------------------------------------------------
\* The rows taken for a batch and those beyond it.
LEMMA TakenAndBeyond ==
    ASSUME NEW T, NEW rows \in Seq(T)
    PROVE  Taken(rows) \in Seq(T) /\ Beyond(rows) \in Seq(T) /\ Taken(rows) \o Beyond(rows) = rows
<1>. DEFINE n == Len(rows)
            k == IF n < BatchSize THEN n ELSE BatchSize
<1>1. n \in Nat /\ BatchSize \in Nat \ {0} /\ k \in 0..n
  BY LenProperties, OperatorAssumption
<1>2. \A i \in 1..n : rows[i] \in T
  BY ElementOfSeq
<1>3. Taken(rows) = SubSeq(rows, 1, k)
  BY DEF Taken
<1>4. CASE n < BatchSize
  <2>1. Beyond(rows) = <<>>
    <3>. HIDE DEF n
    <3>1. n < BatchSize + 1 /\ BatchSize + 1 \in Int
      BY <1>1, <1>4
    <3>2. SubSeq(rows, BatchSize + 1, n) = <<>>
      BY <1>1, <3>1, SubSeqEmpty
    <3>. QED  BY <3>2 DEF Beyond, n
  <2>2. Taken(rows) = rows
    BY <1>3, <1>4, SubSeqFull
  <2>. QED  BY <2>1, <2>2, ConcatEmptySeq, EmptySeq
<1>5. CASE ~(n < BatchSize)
  <2>1. k = BatchSize
    BY <1>5
  <2>2. Beyond(rows) = SubSeq(rows, k + 1, n)
    BY <2>1 DEF Beyond
  <2>. HIDE DEF k
  <2>3. SubSeq(rows, 1, k) \o SubSeq(rows, k + 1, n) = SubSeq(rows, 1, n)
    <3>1. 1 \in 1..(Len(rows) + 1) /\ k \in (1 - 1)..Len(rows) /\ n \in k..Len(rows)
      BY <1>1
    <3>. QED  BY <3>1, ConcatAdjacentSubSeq
  <2>4. SubSeq(rows, 1, n) = rows
    BY SubSeqFull
  <2>5. SubSeq(rows, 1, k) \in Seq(T) /\ SubSeq(rows, k + 1, n) \in Seq(T)
    <3>. HIDE DEF n
    <3>1. \A i \in 1..k : rows[i] \in T
      BY <1>1, <1>2
    <3>2. \A i \in (k + 1)..n : rows[i] \in T
      BY <1>1, <1>2
    <3>3. k \in Int /\ k + 1 \in Int /\ n \in Int
      BY <1>1
    <3>. QED  BY <3>1, <3>2, <3>3, SubSeqProperties
  <2>. QED  BY <1>3, <2>2, <2>3, <2>4, <2>5
<1>. QED  BY <1>4, <1>5

LEMMA FetchStep == ASSUME StreamInv, UnnestFetch PROVE StreamInv'
<1>1. /\ StreamTypeOK /\ UnnestInv /\ plan.op = "unnest" /\ Ready("left") /\ self.todo = <<>>
      /\ status' = "running" /\ self' = [self EXCEPT !.todo = Expanded(Batch)] /\ returned' = returned
  BY DEF StreamInv, UnnestFetch, Runs, Pulls, Ready, Becomes, Quiet
<1>2. /\ Batch \in Seq(Row) /\ Seen' = Seen \o Batch /\ plan' = plan
      /\ pulled' \in [Sides -> Nat] /\ pulled'["left"] <= Len(plan.input["left"])
      /\ Seen \in Seq(Row) /\ Output \in Seq(Things)
  BY <1>1, Pull, Inputs
<1>3. PICK rest \in Seq(Row) : All = (Seen \o Batch) \o rest
  BY <1>1, Pull
<1>4. \A row \in Range(Seen \o Batch) : plan.elements[row.key] \in Nat
  <2>1. \A row \in Range(All) : plan.elements[row.key] \in Nat
    BY <1>1 DEF StreamTypeOK, IsStream, All
  <2>2. Range(All) = Range(Seen \o Batch) \cup Range(rest)
    <3>. DEFINE front == Seen \o Batch
    <3>1. front \in Seq(Row) /\ rest \in Seq(Row) /\ All = front \o rest
      BY <1>2, <1>3, ConcatProperties
    <3>. HIDE DEF front
    <3>2. Range(front \o rest) = Range(front) \cup Range(rest)
      BY <3>1, RangeConcatenation
    <3>. QED  BY <3>1, <3>2 DEF front
  <2>. QED  BY <2>1, <2>2
<1>5. Expanded(Batch) \in Seq(Things) /\ Expanded(Seen \o Batch) = Expanded(Seen) \o Expanded(Batch)
  BY <1>2, <1>4, ExpandedOfBoth
<1>6. Output = Expanded(Seen)
  BY <1>1, <1>2, ConcatEmptySeq DEF UnnestInv
<1>7. Output' = Output /\ returned' \in Seq(Seq(Things))
  BY <1>1 DEF Output, StreamTypeOK
<1>8. self' \in [todo : Seq(Things)] /\ self'.todo = Expanded(Batch)
  BY <1>1, <1>5 DEF UnnestInv
<1>9. Expanded(Seen)' = Expanded(Seen \o Batch)
  BY <1>2 DEF Expanded, Elements
<1>10. UnnestInv'
  BY <1>1, <1>5, <1>6, <1>7, <1>8, <1>9 DEF UnnestInv, Whole
<1>11. StreamTypeOK'
  BY <1>1, <1>2, <1>7, TypedStep
<1>. QED  BY <1>1, <1>2, <1>10, <1>11 DEF StreamInv

LEMMA ElementsStep == ASSUME StreamInv, UnnestElements PROVE StreamInv'
<1>1. /\ StreamTypeOK /\ UnnestInv /\ plan.op = "unnest" /\ UNCHANGED <<plan, pulled>> /\ status = "running"
      /\ status' = "running" /\ self' = [self EXCEPT !.todo = Beyond(@)] /\ Hands(Taken(self.todo))
  BY DEF StreamInv, UnnestElements, Runs, Onwards, Becomes
<1>2. /\ self \in [todo : Seq(Things)] /\ Output \in Seq(Things) /\ Output \o self.todo = Expanded(Seen)
      /\ pulled \in [Sides -> Nat] /\ pulled["left"] <= Len(plan.input["left"])
  BY <1>1, Inputs DEF UnnestInv, StreamTypeOK
<1>. DEFINE rows == self.todo
<1>3. /\ rows \in Seq(Things) /\ Taken(rows) \in Seq(Things) /\ Beyond(rows) \in Seq(Things)
      /\ Taken(rows) \o Beyond(rows) = rows
  BY <1>2, TakenAndBeyond
<1>4. returned' \in Seq(Seq(Things)) /\ Output' = Output \o Taken(rows)
  BY <1>1, <1>3, Handed
<1>5. (Output \o Taken(rows)) \o Beyond(rows) = Output \o rows
  <2>. DEFINE p == Taken(rows)
              q == Beyond(rows)
  <2>1. p \in Seq(Things) /\ q \in Seq(Things) /\ p \o q = rows /\ Output \in Seq(Things)
    BY <1>2, <1>3
  <2>. HIDE DEF p, q, rows
  <2>2. Associates(Output, p, q)
    <3>1. p \in Seq(Things) /\ q \in Seq(Things) /\ Output \in Seq(Things)
      BY <2>1
    <3>. QED  BY <3>1, Associative
  <2>. QED  BY <2>1, <2>2 DEF p, q, Associates
<1>6. self' \in [todo : Seq(Things)] /\ self'.todo = Beyond(rows)
  BY <1>1, <1>2, <1>3
<1>7. Seen' = Seen /\ Expanded(Seen)' = Expanded(Seen)
  BY <1>1 DEF Seen, Expanded, Elements
<1>8. UnnestInv'
  BY <1>1, <1>2, <1>4, <1>5, <1>6, <1>7 DEF UnnestInv, Whole
<1>9. StreamTypeOK'
  BY <1>1, <1>2, <1>4, TypedStep
<1>. QED  BY <1>1, <1>8, <1>9 DEF StreamInv
----------------------------------------------------------------------------
\* The values of a series.
IsSeries == /\ plan.start \in plan.ints /\ plan.start \in Int /\ plan.stop \in Int /\ plan.step \in Int \ {0}
            /\ plan.inclusive \in BOOLEAN
            /\ plan.ints \subseteq Int /\ IsFiniteSet(plan.ints) /\ \A u, v \in plan.ints : u..v \subseteq plan.ints

LEMMA SeriesPlan == ASSUME StreamTypeOK, plan.op = "series" PROVE IsSeries
<1>1. /\ plan.start \in plan.ints /\ plan.stop \in Int /\ plan.step \in Int \ {0}
      /\ plan.inclusive \in BOOLEAN
      /\ plan.ints \subseteq Int /\ IsFiniteSet(plan.ints) /\ \A u, v \in plan.ints : u..v \subseteq plan.ints
  BY DEF StreamTypeOK, IsStream
<1>. QED  BY <1>1 DEF IsSeries

LEMMA Product == ASSUME NEW a \in Nat, NEW b \in Nat PROVE a * b \in Nat
OBVIOUS

LEMMA TwoParts ==
    ASSUME NEW a \in Int, NEW s \in Int, NEW n \in Int, NEW k \in Int
    PROVE  (a + n * s) + (k - 1) * s = a + ((n + k) - 1) * s
OBVIOUS

LEMMA Steps ==
    ASSUME NEW a \in Int, NEW s \in Int, NEW n \in Nat, NEW k \in Nat, n <= k
    PROVE  /\ s > 0 => a <= a + n * s /\ a + n * s <= a + k * s
           /\ s < 0 => a >= a + n * s /\ a + n * s >= a + k * s
           /\ s # 0 /\ n # k => a + n * s # a + k * s
<1>1. k - n \in Nat
  OBVIOUS
<1>2. CASE s > 0
  <2>1. s \in Nat
    BY <1>2
  <2>2. n * s \in Nat /\ (k - n) * s \in Nat
    BY <1>1, <2>1, Product
  <2>3. k * s = n * s + (k - n) * s
    BY <1>1
  <2>4. n # k => (k - n) * s # 0
    BY <1>1, <1>2
  <2>. QED  BY <1>2, <2>2, <2>3, <2>4
<1>3. CASE s < 0
  <2>1. -s \in Nat
    BY <1>3
  <2>2. n * (-s) \in Nat /\ (k - n) * (-s) \in Nat
    BY <1>1, <2>1, Product
  <2>3. n * s = -(n * (-s)) /\ k * s = n * s - ((k - n) * (-s))
    BY <1>1
  <2>4. n # k => (k - n) * (-s) # 0
    BY <1>1, <1>3
  <2>. QED  BY <1>3, <2>2, <2>3, <2>4
<1>. QED  BY <1>2, <1>3

\* A value before one of the series is in range, too.
LEMMA BeforeInRange ==
    ASSUME IsSeries, NEW n \in Nat, NEW k \in Nat, n <= k, InRange(plan.start + k * plan.step)
    PROVE  InRange(plan.start + n * plan.step)
<1>. DEFINE a == plan.start
            s == plan.step
            u == a + n * s
            w == a + k * s
<1>1. a \in Int /\ s \in Int /\ s # 0 /\ w \in plan.ints /\ a \in plan.ints /\ plan.stop \in Int
  BY DEF IsSeries, InRange
<1>2. u \in Int /\ w \in Int /\ (s > 0 => a <= u /\ u <= w) /\ (s < 0 => a >= u /\ u >= w)
  <2>. HIDE DEF a, s
  <2>1. n * s \in Int /\ k * s \in Int
    BY <1>1
  <2>. QED  BY <1>1, <2>1, Steps
<1>3. \A x, y \in plan.ints : x..y \subseteq plan.ints
  BY DEF IsSeries
<1>. HIDE DEF a, u, w
<1>4. u \in plan.ints
  <2>1. s > 0 \/ s < 0
    BY <1>1
  <2>2. CASE s > 0
    <3>1. u \in a..w
      BY <1>1, <1>2, <2>2
    <3>. QED  BY <1>1, <1>3, <3>1
  <2>3. CASE s < 0
    <3>1. u \in w..a
      BY <1>1, <1>2, <2>3
    <3>. QED  BY <1>1, <1>3, <3>1
  <2>. QED  BY <2>1, <2>2, <2>3
<1>5. InRange(w) /\ plan.inclusive \in BOOLEAN /\ plan.step \in Int \ {0}
  BY DEF a, w, IsSeries
<1>6. InRange(u)
  <2>1. /\ plan.step > 0 => u <= w
        /\ plan.step < 0 => u >= w
    BY <1>2 DEF s
  <2>. HIDE DEF s
  <2>2. CASE plan.step > 0
    <3>1. w < plan.stop \/ (plan.inclusive /\ w = plan.stop)
      BY <1>1, <1>5, <2>2 DEF InRange
    <3>2. u < plan.stop \/ (plan.inclusive /\ u = plan.stop)
      BY <1>1, <1>2, <2>1, <2>2, <3>1
    <3>. QED  BY <1>4, <2>2, <3>2 DEF InRange
  <2>3. CASE plan.step < 0
    <3>1. w > plan.stop \/ (plan.inclusive /\ w = plan.stop)
      BY <1>1, <1>5, <2>3 DEF InRange
    <3>2. u > plan.stop \/ (plan.inclusive /\ u = plan.stop)
      BY <1>1, <1>2, <2>1, <2>3, <3>1
    <3>3. plan.step <= 0
      BY <1>5, <2>3
    <3>. QED  BY <1>4, <3>2, <3>3 DEF InRange
  <2>. QED  BY <1>5, <2>2, <2>3
<1>. QED  BY <1>6 DEF a, u

LEMMA NthIs ==
    ASSUME IsSeries, NEW k \in Int
    PROVE  Nth(k) \in Int /\ Nth(k + 1) = plan.start + k * plan.step /\ Nth(k) = plan.start + (k - 1) * plan.step
<1>1. plan.start \in Int /\ plan.step \in Int
  BY DEF IsSeries
<1>2. (k - 1) * plan.step \in Int /\ (k + 1) - 1 = k
  BY <1>1
<1>. QED  BY <1>1, <1>2 DEF Nth

\* As many values as were in range before the first that is not.
LEMMA ValuesCounted ==
    ASSUME IsSeries, NEW n \in Nat, \A k \in 1..n : InRange(Nth(k))
    PROVE  /\ Cardinality(Values) \in Nat /\ n <= Cardinality(Values)
           /\ ~InRange(Nth(n + 1)) => n = Cardinality(Values)
<1>. DEFINE f == [k \in 1..n |-> Nth(k)]
<1>1. /\ IsFiniteSet(plan.ints) /\ Cardinality(plan.ints) \in Nat
      /\ plan.start \in Int /\ plan.step \in Int /\ plan.step # 0
  BY FS_CardinalityType DEF IsSeries
<1>2. \A k \in 1..n : Nth(k) \in plan.ints
  BY DEF InRange
<1>3. ASSUME NEW i \in 1..n, NEW k \in 1..n, i # k PROVE Nth(i) # Nth(k)
  <2>1. i - 1 \in Nat /\ k - 1 \in Nat /\ i - 1 # k - 1 /\ i \in Int /\ k \in Int
    BY <1>3
  <2>2. Nth(i) = plan.start + (i - 1) * plan.step /\ Nth(k) = plan.start + (k - 1) * plan.step
    BY <2>1, NthIs
  <2>3. CASE i - 1 <= k - 1
    BY <1>1, <2>1, <2>2, <2>3, Steps
  <2>4. CASE k - 1 <= i - 1
    BY <1>1, <2>1, <2>2, <2>4, Steps
  <2>. QED  BY <2>1, <2>3, <2>4
<1>4. IsFiniteSet(1..n) /\ Cardinality(1..n) = n
  BY FS_Interval
<1>5. f \in Injection(1..n, plan.ints)
  <2>1. f \in [1..n -> plan.ints] /\ \A k \in 1..n : f[k] = Nth(k)
    BY <1>2
  <2>. HIDE DEF f
  <2>. QED  BY <1>3, <2>1 DEF Injection, IsInjective
<1>6. n <= Cardinality(plan.ints)
  <2>. HIDE DEF f
  <2>. QED  BY <1>1, <1>4, <1>5, FS_Injection
<1>7. Values \in SUBSET plan.ints
  BY DEF Values
<1>8. IsFiniteSet(Values) /\ Cardinality(Values) \in Nat
  BY <1>1, <1>7, FS_Subset, FS_CardinalityType
<1>9. \A k \in 1..n : Nth(k) \in Values
  <2>1. ASSUME NEW k \in 1..n PROVE Nth(k) \in Values
    <3>1. k - 1 \in 0..Cardinality(plan.ints) /\ k \in Int
      BY <1>1, <1>6
    <3>2. Nth(k) = plan.start + (k - 1) * plan.step
      BY <3>1, NthIs
    <3>3. Nth(k) \in plan.ints /\ InRange(Nth(k))
      BY <1>2
    <3>. QED  BY <3>1, <3>2, <3>3 DEF Values
  <2>. QED  BY <2>1
<1>10. f \in Injection(1..n, Values)
  <2>1. f \in [1..n -> Values] /\ \A k \in 1..n : f[k] = Nth(k)
    BY <1>9
  <2>. HIDE DEF f
  <2>. QED  BY <1>3, <2>1 DEF Injection, IsInjective
<1>11. n <= Cardinality(Values) /\ (n = Cardinality(Values) <=> f \in Surjection(1..n, Values))
  <2>. HIDE DEF f
  <2>. QED  BY <1>4, <1>8, <1>10, FS_Injection
<1>12. ASSUME ~InRange(Nth(n + 1)) PROVE f \in Surjection(1..n, Values)
  <2>1. ASSUME NEW v \in Values PROVE \E k \in 1..n : f[k] = v
    <3>1. PICK k \in 0..Cardinality(plan.ints) : v = plan.start + k * plan.step
      BY DEF Values
    <3>2. k \in Nat /\ InRange(plan.start + k * plan.step)
      BY <1>1, <3>1 DEF Values
    <3>3. k < n
      <4>1. CASE n <= k
        <5>1. InRange(plan.start + n * plan.step)
          BY <3>2, <4>1, BeforeInRange
        <5>2. Nth(n + 1) = plan.start + n * plan.step
          BY NthIs
        <5>. QED  BY <1>12, <5>1, <5>2
      <4>. QED  BY <3>2, <4>1
    <3>4. k + 1 \in 1..n /\ k \in Int
      BY <3>2, <3>3
    <3>5. f[k + 1] = Nth(k + 1) /\ Nth(k + 1) = v
      BY <3>1, <3>4, NthIs
    <3>. QED  BY <3>4, <3>5
  <2>2. f \in [1..n -> Values]
    BY <1>9
  <2>. HIDE DEF f
  <2>. QED  BY <2>1, <2>2 DEF Surjection
<1>. QED  BY <1>8, <1>11, <1>12

LEMMA SeriesStep == ASSUME StreamInv, GenerateSeries PROVE StreamInv'
<1>1. /\ StreamTypeOK /\ SeriesInv /\ plan.op = "series" /\ ~self.done
      /\ UNCHANGED <<plan, pulled>> /\ status = "running"
  BY DEF StreamInv, GenerateSeries, Runs, Onwards
<1>2. PICK j \in 1..BatchSize :
         /\ \A k \in 1..j : InRange(Ahead(k))
         /\ j < BatchSize => ~InRange(Ahead(j + 1))
         /\ Becomes(IF j < BatchSize \/ Ahead(j + 1) \notin plan.ints
                    THEN [self EXCEPT !.done = TRUE] ELSE [self EXCEPT !.cur = Ahead(j + 1)])
         /\ Hands([k \in 1..j |-> Ahead(k)])
  BY DEF GenerateSeries
<1>3. PICK n \in Nat : /\ Output = [k \in 1..n |-> Nth(k)]
                       /\ \A k \in 1..n : InRange(Nth(k))
                       /\ ~self.done => self.cur = Nth(n + 1)
                       /\ self.done \/ status = "done" => ~InRange(Nth(n + 1))
  BY <1>1 DEF SeriesInv
<1>4. self \in [cur : Int, done : BOOLEAN]
  BY <1>1 DEF SeriesInv
<1>5. IsSeries /\ plan.start \in Int /\ plan.step \in Int
  BY <1>1, SeriesPlan DEF IsSeries
<1>6. BatchSize \in Nat \ {0} /\ j \in Nat /\ n + j \in Nat
  BY <1>2, <1>3, OperatorAssumption
<1>7. ASSUME NEW k \in Int PROVE Ahead(k) = Nth(n + k) /\ Ahead(k) \in Int
  <2>1. n + k \in Int /\ n \in Int
    BY <1>3
  <2>2. Nth(n + k) = plan.start + ((n + k) - 1) * plan.step /\ Nth(n + k) \in Int
    BY <1>5, <2>1, NthIs
  <2>3. Nth(n + 1) = plan.start + n * plan.step
    BY <1>5, <2>1, NthIs
  <2>4. Ahead(k) = (plan.start + n * plan.step) + (k - 1) * plan.step
    BY <1>1, <1>3, <2>3 DEF Ahead
  <2>5. (plan.start + n * plan.step) + (k - 1) * plan.step = plan.start + ((n + k) - 1) * plan.step
    <3>. DEFINE a == plan.start
                s == plan.step
    <3>1. a \in Int /\ s \in Int
      BY <1>5
    <3>. HIDE DEF a, s
    <3>2. (a + n * s) + (k - 1) * s = a + ((n + k) - 1) * s
      BY <2>1, <3>1, TwoParts
    <3>. QED  BY <3>2 DEF a, s
  <2>. QED  BY <2>2, <2>4, <2>5
<1>. DEFINE rows == [k \in 1..j |-> Ahead(k)]
<1>8. rows \in Seq(Things) /\ rows \in Seq(Int) /\ Len(rows) = j /\ \A k \in 1..j : rows[k] = Nth(n + k)
  <2>1. \A k \in 1..j : k \in Int /\ Ahead(k) \in Int /\ Ahead(k) \in Things /\ Ahead(k) = Nth(n + k)
    BY <1>6, <1>7 DEF Things
  <2>. QED  BY <1>6, <2>1
<1>9. returned' \in Seq(Seq(Things)) /\ Output' = Output \o rows
  <2>. HIDE DEF rows
  <2>1. Hands(rows)
    BY <1>2 DEF rows
  <2>. QED  BY <1>1, <1>8, <2>1, Handed
<1>. DEFINE after == [k \in 1..(n + j) |-> Nth(k)]
<1>10. Output \o rows = after
  <2>1. /\ Output \in Seq(Int) /\ Len(Output) = n /\ \A k \in 1..n : Output[k] = Nth(k)
    <3>1. \A k \in 1..n : Nth(k) \in Int
      BY <1>5, NthIs
    <3>. QED  BY <1>3, <3>1
  <2>2. after \in Seq(Int) /\ Len(after) = n + j /\ \A k \in 1..(n + j) : after[k] = Nth(k)
    <3>1. \A k \in 1..(n + j) : Nth(k) \in Int
      BY <1>5, <1>6, NthIs
    <3>. QED  BY <1>6, <3>1
  <2>. HIDE DEF rows, after
  <2>. DEFINE both == Output \o rows
  <2>3. /\ both \in Seq(Int) /\ Len(both) = n + j
        /\ \A k \in 1..n : both[k] = Output[k]
        /\ \A k \in 1..j : both[n + k] = rows[k]
    <3>1. rows \in Seq(Int) /\ Output \in Seq(Int)
      BY <1>8, <2>1
    <3>. HIDE DEF both
    <3>2. /\ Output \o rows \in Seq(Int) /\ Len(Output \o rows) = Len(Output) + Len(rows)
          /\ \A k \in 1..Len(Output) : (Output \o rows)[k] = Output[k]
          /\ \A k \in 1..Len(rows) : (Output \o rows)[Len(Output) + k] = rows[k]
      BY <3>1, Both
    <3>3. both = Output \o rows
      BY DEF both
    <3>. QED  BY <1>8, <2>1, <3>2, <3>3
  <2>. HIDE DEF both
  <2>4. ASSUME NEW i \in 1..(n + j) PROVE both[i] = after[i]
    <3>1. CASE i \in 1..n
      BY <2>1, <2>2, <2>3, <3>1
    <3>2. ASSUME NEW k \in 1..j, i = n + k PROVE both[i] = after[i]
      BY <1>8, <2>2, <2>3, <3>2
    <3>3. i \in 1..n \/ \E k \in 1..j : i = n + k
      BY <1>3, <1>6, EitherOf
    <3>. QED  BY <3>1, <3>2, <3>3
  <2>5. both = after
    BY <2>2, <2>3, <2>4, SeqEqual
  <2>. QED  BY <2>5 DEF both
<1>11. \A k \in 1..(n + j) : InRange(Nth(k))
  <2>1. ASSUME NEW i \in 1..(n + j) PROVE InRange(Nth(i))
    <3>1. CASE i \in 1..n
      BY <1>3, <3>1
    <3>2. ASSUME NEW k \in 1..j, i = n + k PROVE InRange(Nth(i))
      <4>1. k \in Int
        BY <1>6
      <4>. QED  BY <1>2, <1>7, <3>2, <4>1
    <3>3. i \in 1..n \/ \E k \in 1..j : i = n + k
      BY <1>3, <1>6, EitherOf
    <3>. QED  BY <3>1, <3>2, <3>3
  <2>. QED  BY <2>1
<1>12. Ahead(j + 1) = Nth((n + j) + 1) /\ Ahead(j + 1) \in Int
  <2>1. j + 1 \in Int /\ n + (j + 1) = (n + j) + 1
    BY <1>3, <1>6
  <2>2. Ahead(j + 1) = Nth(n + (j + 1)) /\ Ahead(j + 1) \in Int
    BY <1>7, <2>1
  <2>. QED  BY <2>1, <2>2
<1>13. /\ status' = "running" /\ self' \in [cur : Int, done : BOOLEAN]
       /\ ~self'.done => self'.cur = Nth((n + j) + 1)
       /\ self'.done => ~InRange(Nth((n + j) + 1))
  <2>1. status' = "running"
    BY <1>1, <1>2 DEF Becomes
  <2>2. CASE j < BatchSize \/ Ahead(j + 1) \notin plan.ints
    <3>1. ~InRange(Ahead(j + 1))
      BY <1>2, <2>2 DEF InRange
    <3>2. self' = [self EXCEPT !.done = TRUE]
      BY <1>2, <2>2 DEF Becomes
    <3>. QED  BY <1>4, <1>12, <2>1, <3>1, <3>2
  <2>3. CASE ~(j < BatchSize \/ Ahead(j + 1) \notin plan.ints)
    <3>1. self' = [self EXCEPT !.cur = Ahead(j + 1)]
      BY <1>2, <2>3 DEF Becomes
    <3>. QED  BY <1>1, <1>4, <1>12, <2>1, <3>1
  <2>. QED  BY <2>2, <2>3
<1>14. \A k : Nth(k)' = Nth(k) /\ (InRange(Nth(k))' <=> InRange(Nth(k)))
  BY <1>1 DEF Nth, InRange
<1>15. SeriesInv'
  <2>. HIDE DEF rows
  <2>1. Output' = [k \in 1..(n + j) |-> Nth(k)']
    BY <1>9, <1>10, <1>14
  <2>. HIDE DEF after
  <2>. QED  BY <1>6, <1>11, <1>13, <1>14, <2>1 DEF SeriesInv
<1>16. StreamTypeOK'
  <2>1. pulled' \in [Sides -> Nat] /\ pulled'["left"] <= Len(plan.input["left"])
    BY <1>1 DEF StreamTypeOK
  <2>. QED  BY <1>1, <1>9, <1>13, <2>1, TypedStep
<1>. QED  BY <1>1, <1>15, <1>16 DEF StreamInv

LEMMA SeriesDoneStep == ASSUME StreamInv, SeriesDone PROVE StreamInv'
<1>1. /\ StreamTypeOK /\ SeriesInv /\ plan.op = "series" /\ (self.done \/ ~InRange(self.cur))
      /\ UNCHANGED <<plan, pulled, returned, self>> /\ status' = "done"
  BY DEF StreamInv, SeriesDone, Runs, Onwards, Finishes
<1>2. StreamTypeOK' /\ Output' = Output
  BY <1>1, AtTheEnd
<1>3. PICK n \in Nat : /\ Output = [k \in 1..n |-> Nth(k)]
                       /\ \A k \in 1..n : InRange(Nth(k))
                       /\ ~self.done => self.cur = Nth(n + 1)
                       /\ self.done \/ status = "done" => ~InRange(Nth(n + 1))
  BY <1>1 DEF SeriesInv
<1>4. ~InRange(Nth(n + 1))
  BY <1>1, <1>3
<1>5. \A k : Nth(k)' = Nth(k) /\ (InRange(Nth(k))' <=> InRange(Nth(k)))
  BY <1>1 DEF Nth, InRange
<1>6. SeriesInv'
  <2>1. self' \in [cur : Int, done : BOOLEAN] /\ self' = self
    BY <1>1 DEF SeriesInv
  <2>2. Output' = [k \in 1..n |-> Nth(k)']
    BY <1>2, <1>3, <1>5
  <2>. QED  BY <1>3, <1>4, <1>5, <2>1, <2>2 DEF SeriesInv
<1>. QED  BY <1>1, <1>2, <1>6 DEF StreamInv
----------------------------------------------------------------------------
\* Samples.  Two choices make one.
Chosen(m, n, c, d) == {i \in 1..(m + n) : i \in c \/ i - m \in d}

Chooses(s, t, c, d) == /\ Chosen(Len(s), Len(t), c, d) \in SUBSET DOMAIN (s \o t)
                       /\ Kept(s \o t, Chosen(Len(s), Len(t), c, d)) = Kept(s, c) \o Kept(t, d)

LEMMA ChosenOfBoth ==
    ASSUME NEW T, NEW s \in Seq(T), NEW t \in Seq(T), NEW c \in SUBSET DOMAIN s, NEW d \in SUBSET DOMAIN t
    PROVE  Chooses(s, t, c, d)
<1>. DEFINE m == Len(s)
            n == Len(t)
            e == {i \in 1..(m + n) : i \in c \/ i - m \in d}
<1>1. /\ DOMAIN (s \o t) = 1..(m + n) /\ DOMAIN s = 1..m /\ DOMAIN t = 1..n /\ m \in Nat /\ n \in Nat
  BY Both
<1>2. ASSUME NEW i \in 1..m PROVE i \in e <=> i \in c
  <2>. HIDE DEF m, n
  <2>1. i \in 1..(m + n) /\ i - m \notin 1..n
    BY <1>1
  <2>2. i - m \notin d
    BY <1>1, <2>1
  <2>. QED  BY <2>1, <2>2
<1>3. ASSUME NEW i \in 1..n PROVE m + i \in e <=> i \in d
  <2>. HIDE DEF m, n
  <2>1. m + i \in 1..(m + n) /\ m + i \notin 1..m /\ (m + i) - m = i
    BY <1>1
  <2>2. m + i \notin c
    BY <1>1, <2>1
  <2>. QED  BY <2>1, <2>2
<1>4. Same(m, e, c) /\ Shifted(m, n, e, d)
  BY <1>2, <1>3 DEF Same, Shifted
<1>5. e \in SUBSET DOMAIN (s \o t)
  BY <1>1
<1>. HIDE DEF e
<1>6. Kept(s \o t, e) = Kept(s, c) \o Kept(t, d)
  BY <1>4, KeptOfBoth
<1>. QED  BY <1>5, <1>6 DEF e, Chosen, Chooses

LEMMA BernoulliStep == ASSUME StreamInv, Bernoulli PROVE StreamInv'
<1>1. /\ StreamTypeOK /\ BernoulliInv /\ plan.op = "bernoulli" /\ Ready("left") /\ ~self.done
      /\ status' = "running" /\ self' = self
  BY DEF StreamInv, Bernoulli, Runs, Pulls, Ready, Becomes
<1>2. PICK chosen \in SUBSET DOMAIN Batch : /\ plan.percent = 100 => chosen = DOMAIN Batch
                                            /\ HandsSome(Kept(Batch, chosen))
  BY DEF Bernoulli
<1>3. PICK before \in SUBSET DOMAIN Seen : Output = Kept(Seen, before)
  BY <1>1 DEF BernoulliInv
<1>4. /\ Batch \in Seq(Row) /\ Seen' = Seen \o Batch /\ plan' = plan
      /\ pulled' \in [Sides -> Nat] /\ pulled'["left"] <= Len(plan.input["left"]) /\ Seen \in Seq(Row)
  BY <1>1, Pull, Inputs
<1>. DEFINE rows == Kept(Batch, chosen)
<1>5. rows \in Seq(Things) /\ HandsSome(rows)
  BY <1>2, <1>4, KeptType, RowsAreThings
<1>6. plan.percent = 100 => rows = Batch
  <2>1. DOMAIN Batch = 1..Len(Batch)
    BY <1>4
  <2>. QED  BY <1>2, <1>4, <2>1, KeptAll
<1>7. \E e \in SUBSET DOMAIN (Seen \o Batch) : Kept(Seen \o Batch, e) = Kept(Seen, before) \o rows
  <2>1. before \in SUBSET DOMAIN Seen /\ chosen \in SUBSET DOMAIN Batch /\ Seen \in Seq(Row) /\ Batch \in Seq(Row)
    BY <1>2, <1>3, <1>4
  <2>2. Chooses(Seen, Batch, before, chosen)
    BY <2>1, ChosenOfBoth
  <2>. QED  BY <2>2 DEF Chooses
<1>. HIDE DEF rows
<1>8. returned' \in Seq(Seq(Things)) /\ Output' = Output \o rows
  BY <1>1, <1>5, Handed
<1>9. plan.percent # 0
  BY <1>1 DEF BernoulliInv
<1>10. \E e \in SUBSET DOMAIN Seen' : Output' = Kept(Seen', e)
  BY <1>3, <1>4, <1>7, <1>8
<1>11. BernoulliInv'
  <2>1. (plan.percent = 100 => Output = Seen)'
    BY <1>1, <1>4, <1>6, <1>8 DEF BernoulliInv
  <2>2. (self = [done |-> plan.percent = 0])'
    BY <1>1, <1>4 DEF BernoulliInv
  <2>. QED  BY <1>1, <1>4, <1>9, <1>10, <2>1, <2>2 DEF BernoulliInv, Whole
<1>12. StreamTypeOK'
  BY <1>1, <1>4, <1>8, TypedStep
<1>. QED  BY <1>1, <1>4, <1>11, <1>12 DEF StreamInv

LEMMA BernoulliNoneStep == ASSUME StreamInv, BernoulliNone PROVE StreamInv'
<1>1. /\ StreamTypeOK /\ BernoulliInv /\ plan.op = "bernoulli" /\ self.done
      /\ UNCHANGED <<plan, pulled, returned, self>> /\ status' = "done"
  BY DEF StreamInv, BernoulliNone, Runs, Onwards, Finishes
<1>2. StreamTypeOK' /\ Seen' = Seen /\ Output' = Output
  BY <1>1, AtTheEnd
<1>3. plan.percent = 0
  BY <1>1 DEF BernoulliInv
<1>4. BernoulliInv'
  BY <1>1, <1>2, <1>3 DEF BernoulliInv
<1>. QED  BY <1>1, <1>2, <1>4 DEF StreamInv

LEMMA SampleAbsorbStep == ASSUME StreamInv, SampleAbsorb PROVE StreamInv'
<1>1. /\ StreamTypeOK /\ SampleInv /\ plan.op = "sample" /\ Ready("left") /\ self.phase = "buffering"
      /\ status' = "running" /\ self' = [self EXCEPT !.buffer = @ \o Batch] /\ returned' = returned
  BY DEF StreamInv, SampleAbsorb, At, Pulls, Ready, Becomes, Quiet
<1>2. /\ Batch \in Seq(Row) /\ Seen' = Seen \o Batch /\ All' = All /\ plan' = plan
      /\ pulled' \in [Sides -> Nat] /\ pulled'["left"] <= Len(plan.input["left"]) /\ Seen \in Seq(Row)
  BY <1>1, Pull, Inputs
<1>3. self \in [phase : {"buffering", "emitting", "done"}, buffer : Seq(Row), out : Seq(Row)]
  BY <1>1 DEF SampleInv
<1>4. Output = <<>> /\ self.buffer = Seen
  BY <1>1 DEF SampleInv
<1>5. Output' = Output /\ returned' \in Seq(Seq(Things))
  BY <1>1 DEF Output, StreamTypeOK
<1>6. Seen \o Batch \in Seq(Row)
  BY <1>2, ConcatProperties
<1>7. /\ self' \in [phase : {"buffering", "emitting", "done"}, buffer : Seq(Row), out : Seq(Row)]
      /\ self'.phase = "buffering" /\ self'.buffer = Seen \o Batch
  BY <1>1, <1>3, <1>4, <1>6
<1>8. SampleInv'
  BY <1>1, <1>2, <1>4, <1>5, <1>7 DEF SampleInv
<1>9. StreamTypeOK'
  BY <1>1, <1>2, <1>5, TypedStep
<1>. QED  BY <1>1, <1>2, <1>8, <1>9 DEF StreamInv

LEMMA SampleFinishStep == ASSUME StreamInv, SampleFinish PROVE StreamInv'
<1>1. /\ StreamTypeOK /\ SampleInv /\ plan.op = "sample" /\ Ended("left") /\ self.phase = "buffering"
      /\ UNCHANGED <<plan, pulled, returned>> /\ status = "running"
  BY DEF StreamInv, SampleFinish, At, Ended, Quiet
<1>2. PICK chosen \in kSubset(Min({plan.target, Len(self.buffer)}), DOMAIN self.buffer) :
         Becomes([phase |-> IF self.buffer = <<>> THEN "done" ELSE "emitting", buffer |-> <<>>,
                  out |-> Kept(self.buffer, chosen)])
  BY DEF SampleFinish
<1>3. Seen = All /\ All \in Seq(Row) /\ self.buffer = All /\ Output = <<>>
  BY <1>1, Inputs DEF SampleInv, Ended
<1>. DEFINE rows == Kept(All, chosen)
<1>4. rows \in Seq(Row) /\ (All = <<>> => rows = <<>>)
  BY <1>3, KeptType, KeptOfNone
<1>5. chosen \in kSubset(Min({plan.target, Len(All)}), DOMAIN All)
  BY <1>2, <1>3
<1>6. self' = [phase |-> IF All = <<>> THEN "done" ELSE "emitting", buffer |-> <<>>, out |-> rows] /\ status' = "running"
  BY <1>1, <1>2, <1>3 DEF Becomes
<1>7. Output' = <<>> /\ Seen' = Seen /\ All' = All /\ returned' \in Seq(Seq(Things))
      /\ pulled' \in [Sides -> Nat] /\ pulled'["left"] <= Len(plan.input["left"])
  BY <1>1, <1>3 DEF Output, Seen, All, StreamTypeOK
<1>8. Output' \o self'.out = Kept(All, chosen)
  <2>1. self'.out = rows
    BY <1>6
  <2>. HIDE DEF rows
  <2>2. <<>> \o rows = rows
    BY <1>4, ConcatEmptySeq
  <2>. QED  BY <1>7, <2>1, <2>2 DEF rows
<1>. HIDE DEF rows
<1>9. /\ self' \in [phase : {"buffering", "emitting", "done"}, buffer : Seq(Row), out : Seq(Row)]
      /\ self'.phase # "buffering" /\ (self'.phase = "done" => self'.out = <<>>)
  BY <1>4, <1>6
<1>10. SampleInv'
  <2>1. (\E c \in kSubset(Min({plan.target, Len(All)}), DOMAIN All) : Output \o self.out = Kept(All, c))'
    BY <1>1, <1>5, <1>7, <1>8
  <2>. QED  BY <1>6, <1>9, <2>1 DEF SampleInv
<1>11. StreamTypeOK'
  BY <1>1, <1>6, <1>7, TypedStep
<1>. QED  BY <1>1, <1>10, <1>11 DEF StreamInv

LEMMA SampleEmitStep == ASSUME StreamInv, SampleEmit PROVE StreamInv'
<1>1. /\ StreamTypeOK /\ SampleInv /\ plan.op = "sample" /\ self.phase = "emitting"
      /\ UNCHANGED <<plan, pulled>> /\ status = "running" /\ status' = "running"
      /\ self' = (IF self.out = <<>> THEN [self EXCEPT !.phase = "done"] ELSE [self EXCEPT !.out = Beyond(@)])
      /\ HandsSome(Taken(self.out))
  BY DEF StreamInv, SampleEmit, At, Onwards, Becomes
<1>2. /\ self \in [phase : {"buffering", "emitting", "done"}, buffer : Seq(Row), out : Seq(Row)]
      /\ Output \in Seq(Things) /\ All' = All
      /\ pulled \in [Sides -> Nat] /\ pulled["left"] <= Len(plan.input["left"])
  BY <1>1, Inputs DEF SampleInv, StreamTypeOK, All
<1>3. PICK chosen \in kSubset(Min({plan.target, Len(All)}), DOMAIN All) : Output \o self.out = Kept(All, chosen)
  BY <1>1 DEF SampleInv
<1>. DEFINE rows == self.out
            p == Taken(rows)
            q == Beyond(rows)
<1>4. /\ rows \in Seq(Row) /\ p \in Seq(Row) /\ q \in Seq(Row) /\ p \o q = rows
      /\ rows \in Seq(Things) /\ p \in Seq(Things) /\ q \in Seq(Things)
  <2>1. rows \in Seq(Row)
    BY <1>2
  <2>2. p \in Seq(Row) /\ q \in Seq(Row) /\ p \o q = rows
    BY <2>1, TakenAndBeyond
  <2>. QED  BY <2>1, <2>2, RowsAreThings
<1>5. returned' \in Seq(Seq(Things)) /\ Output' = Output \o p
  BY <1>1, <1>4, Handed
<1>6. Output' \o q = Output \o rows
  <2>. HIDE DEF p, q, rows
  <2>1. Associates(Output, p, q)
    <3>1. p \in Seq(Things) /\ q \in Seq(Things) /\ Output \in Seq(Things)
      BY <1>2, <1>4
    <3>. QED  BY <3>1, Associative
  <2>. QED  BY <1>4, <1>5, <2>1 DEF Associates
<1>7. /\ self' \in [phase : {"buffering", "emitting", "done"}, buffer : Seq(Row), out : Seq(Row)]
      /\ self'.phase # "buffering" /\ self'.out = q /\ (self'.phase = "done" => self'.out = <<>>)
  <2>1. CASE rows = <<>>
    <3>1. q = <<>>
      BY <1>4, <2>1, ConcatEmptySeq
    <3>. HIDE DEF q
    <3>. QED  BY <1>1, <1>2, <2>1, <3>1
  <2>2. CASE rows # <<>>
    <3>. HIDE DEF q
    <3>1. self' = [self EXCEPT !.out = q]
      BY <1>1, <2>2 DEF q
    <3>. QED  BY <1>1, <1>2, <1>4, <3>1
  <2>. QED  BY <2>1, <2>2
<1>. HIDE DEF p, q
<1>8. SampleInv'
  <2>1. (\E c \in kSubset(Min({plan.target, Len(All)}), DOMAIN All) : Output \o self.out = Kept(All, c))'
    BY <1>1, <1>2, <1>3, <1>6, <1>7
  <2>. QED  BY <1>1, <1>7, <2>1 DEF SampleInv
<1>9. StreamTypeOK'
  BY <1>1, <1>2, <1>5, TypedStep
<1>. QED  BY <1>1, <1>8, <1>9 DEF StreamInv

LEMMA SampleDoneStep == ASSUME StreamInv, SampleDone PROVE StreamInv'
<1>1. /\ StreamTypeOK /\ SampleInv /\ plan.op = "sample" /\ self.phase = "done"
      /\ UNCHANGED <<plan, pulled, returned, self>> /\ status' = "done"
  BY DEF StreamInv, SampleDone, At, Onwards, Finishes
<1>2. StreamTypeOK' /\ All' = All /\ Output' = Output
  BY <1>1, AtTheEnd
<1>3. SampleInv'
  BY <1>1, <1>2 DEF SampleInv
<1>. QED  BY <1>1, <1>2, <1>3 DEF StreamInv
----------------------------------------------------------------------------
\* The end of the input.
LEMMA StreamEndedStep == ASSUME StreamInv, StreamEnded PROVE StreamInv'
<1>1. /\ StreamTypeOK /\ status = "running" /\ AtInput /\ pulled["left"] = Len(plan.input["left"])
      /\ UNCHANGED <<plan, pulled, returned, self>> /\ status' = "done"
  BY DEF StreamInv, StreamEnded, Ended, Finishes
<1>2. StreamTypeOK' /\ Seen' = Seen /\ All' = All /\ Output' = Output
  BY <1>1, AtTheEnd
<1>3. Seen = All /\ Whole'
  <2>1. Seen = All
    BY <1>1, Inputs
  <2>. QED  BY <1>2, <2>1 DEF Whole
<1>4. (plan.op = "filter" => FilterInv)' /\ (plan.op = "project" => ProjectInv)'
  BY <1>1, <1>2, <1>3 DEF StreamInv, FilterInv, ProjectInv, Passing
<1>5. (plan.op = "limit" => LimitInv)'
  BY <1>1, <1>2, <1>3 DEF StreamInv, LimitInv, Window, Cutoff
<1>6. (plan.op = "distinct on" => DistinctInv)'
  BY <1>1, <1>2, <1>3 DEF StreamInv, DistinctInv
<1>7. (plan.op = "assert max one row" => AssertInv)'
  <2>1. KeysOf(Seen)' = KeysOf(Seen) /\ (Single(Seen)' <=> Single(Seen))
    BY <1>1, <1>2 DEF KeysOf, KeyOf, Single
  <2>. QED  BY <1>1, <1>2, <1>3, <2>1 DEF StreamInv, AssertInv
<1>8. (plan.op = "unnest" => UnnestInv)'
  <2>1. plan.op = "unnest" => self.todo = <<>>
    BY <1>1 DEF AtInput, Runs
  <2>. QED  BY <1>1, <1>2, <1>3, <2>1 DEF StreamInv, UnnestInv, Expanded, Elements
<1>9. plan.op # "series" /\ plan.op # "sample"
  BY <1>1 DEF AtInput, Runs
<1>10. (plan.op = "bernoulli" => BernoulliInv)'
  BY <1>1, <1>2, <1>3 DEF StreamInv, BernoulliInv
<1>. QED  BY <1>1, <1>2, <1>4, <1>5, <1>6, <1>7, <1>8, <1>9, <1>10 DEF StreamInv

LEMMA StreamInterruptedStep == ASSUME StreamInv, StreamInterrupted PROVE StreamInv'
BY Steady DEF StreamInterrupted, Interrupted

LEMMA StreamStep == ASSUME StreamInv, [StreamsNext]_vars PROVE StreamInv'
<1>1. CASE UNCHANGED vars
  BY <1>1, Steady DEF vars
<1>2. CASE StreamsNext
  BY <1>2, FilterStep, ProjectStep, LimitStep, LimitDoneStep, DistinctStep, AssertStep, FetchStep, ElementsStep,
     SeriesStep, SeriesDoneStep, BernoulliStep, BernoulliNoneStep, SampleAbsorbStep, SampleFinishStep,
     SampleEmitStep, SampleDoneStep, StreamEndedStep, StreamInterruptedStep DEF StreamsNext
<1>. QED  BY <1>1, <1>2
----------------------------------------------------------------------------
\* The start: nothing is pulled and nothing returned.
LEMMA StreamStart == ASSUME IsStream(plan), Start(plan, NewStream(plan)) PROVE StreamInv
<1>1. /\ self = NewStream(plan) /\ pulled = [side \in Sides |-> 0] /\ returned = <<>> /\ status = "running"
  BY DEF Start
<1>2. plan.input["left"] \in Seq(Seq(Row))
  BY DEF IsStream, Sides
<1>3. StreamTypeOK
  <2>1. pulled \in [Sides -> Nat] /\ pulled["left"] = 0
    BY <1>1 DEF Sides
  <2>2. 0 <= Len(plan.input["left"])
    BY <1>2, LenProperties
  <2>. QED  BY <1>1, <2>1, <2>2 DEF StreamTypeOK
<1>4. Seen = <<>> /\ Output = <<>> /\ All \in Seq(Row)
  <2>1. pulled["left"] = 0
    BY <1>1 DEF Sides
  <2>2. Seen = <<>>
    BY <1>2, <2>1, UptoIs DEF Seen
  <2>. QED  BY <1>1, <1>3, <2>2, RowsOfNone, Inputs DEF Output
<1>5. Whole
  BY <1>1 DEF Whole
<1>6. (plan.op = "filter" => FilterInv) /\ (plan.op = "project" => ProjectInv)
  BY <1>4, <1>5, KeptOfNone DEF FilterInv, ProjectInv
<1>7. ASSUME plan.op = "limit" PROVE LimitInv
  <2>1. plan.offset \in Nat /\ plan.limit \in Nat \cup {Unlimited}
    BY <1>7 DEF IsStream
  <2>2. Cutoff(0) = 0
    BY <2>1, CutoffIs
  <2>3. Window(<<>>) = <<>>
    BY <2>1, <2>2 DEF Window
  <2>4. self = [seen |-> 0, emitted |-> 0]
    BY <1>1, <1>7 DEF NewStream, NewLimit
  <2>. QED  BY <1>1, <1>4, <2>3, <2>4 DEF LimitInv
<1>8. ASSUME plan.op = "distinct on" PROVE DistinctInv
  <2>1. self = [seen |-> {}]
    BY <1>1, <1>8 DEF NewStream, NewSeen
  <2>2. Keys(<<>>) = {}
    BY DEF Keys
  <2>. QED  BY <1>4, <1>5, <2>1, <2>2, KeptOfNone DEF DistinctInv
<1>9. ASSUME plan.op = "assert max one row" PROVE AssertInv
  <2>1. self = [seen |-> {}]
    BY <1>1, <1>9 DEF NewStream, NewSeen
  <2>2. KeysOf(<<>>) = {} /\ Single(<<>>)
    BY DEF KeysOf, Range, Single
  <2>. QED  BY <1>1, <1>4, <1>5, <2>1, <2>2 DEF AssertInv
<1>10. ASSUME plan.op = "unnest" PROVE UnnestInv
  <2>1. self = [todo |-> <<>>]
    BY <1>1, <1>10 DEF NewStream, NewUnnest
  <2>2. Expanded(<<>>) = <<>>
    <3>1. [i \in DOMAIN <<>> |-> Elements(<<>>[i])] = <<>>
      OBVIOUS
    <3>. QED  BY <3>1, RowsOfNone DEF Expanded
  <2>3. self \in [todo : Seq(Things)] /\ Output \o self.todo = <<>>
    BY <1>4, <2>1
  <2>. QED  BY <1>1, <1>4, <1>5, <2>2, <2>3 DEF UnnestInv
<1>11. ASSUME plan.op = "series" PROVE SeriesInv
  <2>1. self = [cur |-> plan.start, done |-> FALSE]
    BY <1>1, <1>11 DEF NewStream, NewSeries
  <2>2. IsSeries /\ plan.start \in Int /\ plan.step \in Int
    BY <1>3, <1>11, SeriesPlan DEF IsSeries
  <2>3. Nth(0 + 1) = plan.start
    BY <2>2 DEF Nth
  <2>4. Output = [k \in 1..0 |-> Nth(k)]
    BY <1>4
  <2>5. self \in [cur : Int, done : BOOLEAN] /\ self.cur = Nth(0 + 1) /\ ~self.done
    BY <2>1, <2>2, <2>3
  <2>. QED  BY <1>1, <2>4, <2>5 DEF SeriesInv
<1>12. ASSUME plan.op = "bernoulli" PROVE BernoulliInv
  <2>1. self = [done |-> plan.percent = 0]
    BY <1>1, <1>12 DEF NewStream, NewBernoulli
  <2>2. {} \in SUBSET DOMAIN Seen /\ Output = Kept(Seen, {})
    BY <1>4, KeptOfNone
  <2>. QED  BY <1>4, <1>5, <2>1, <2>2 DEF BernoulliInv
<1>13. ASSUME plan.op = "sample" PROVE SampleInv
  <2>1. self = [phase |-> IF plan.target = 0 THEN "done" ELSE "buffering", buffer |-> <<>>, out |-> <<>>]
        /\ plan.target \in Nat
    BY <1>1, <1>13 DEF NewStream, NewSample, IsStream
  <2>2. self \in [phase : {"buffering", "emitting", "done"}, buffer : Seq(Row), out : Seq(Row)]
    BY <2>1
  <2>3. ASSUME plan.target = 0 PROVE \E chosen \in kSubset(Min({plan.target, Len(All)}), DOMAIN All) :
                                        Output \o self.out = Kept(All, chosen)
    <3>1. Min({plan.target, Len(All)}) = 0
      BY <1>4, <2>3, MinOfTwo, LenProperties
    <3>2. {} \in kSubset(0, DOMAIN All)
      BY FS_EmptySet DEF kSubset
    <3>3. Output \o self.out = <<>>
      BY <1>4, <2>1
    <3>4. Kept(All, {}) = <<>>
      BY <1>4, KeptNothing
    <3>. QED  BY <3>1, <3>2, <3>3, <3>4
  <2>4. /\ self.phase = "buffering" => self.buffer = Seen
        /\ self.phase # "buffering" => plan.target = 0
        /\ self.phase = "done" => self.out = <<>>
    BY <1>4, <2>1
  <2>. QED  BY <1>1, <1>4, <2>2, <2>3, <2>4 DEF SampleInv
<1>. QED  BY <1>3, <1>6, <1>7, <1>8, <1>9, <1>10, <1>11, <1>12, <1>13 DEF StreamInv

\* The invariant of the operators that read one input, for every plan: every
\* input cut into any batches, every parameter of the operator, every size of
\* the batches it hands out, and an interruption at any pull.
THEOREM StreamInvariant == StreamSpec => []StreamInv
<1>1. IsStream(plan) /\ Start(plan, NewStream(plan)) => StreamInv
  BY StreamStart
<1>2. StreamInv /\ [StreamsNext]_vars => StreamInv'
  BY StreamStep
<1>. QED  BY <1>1, <1>2, PTL DEF StreamSpec
----------------------------------------------------------------------------
\* What was handed out is the beginning of the answer, and all of it at the end.
Begins(answer) == IsPrefix(Output, answer) /\ (status = "done" => Output = answer)

LEMMA BeginsIf ==
    ASSUME NEW answer, NEW rest \in Seq(Things), Output \in Seq(Things), answer = Output \o rest,
           status = "done" => Output = answer
    PROVE  Begins(answer)
BY Prefix DEF Begins

LEMMA FilterExact == ASSUME StreamInv, plan.op = "filter" PROVE Begins(Kept(All, Passing(All)))
<1>1. StreamTypeOK /\ Whole /\ Output = Kept(Seen, Passing(Seen))
  BY DEF StreamInv, FilterInv
<1>2. Seen \in Seq(Row) /\ Output \in Seq(Things)
  BY <1>1, Inputs
<1>3. PICK rest \in Seq(Row) : All = Seen \o rest
  BY <1>1, Inputs
<1>. DEFINE more == Kept(rest, Passing(rest))
<1>4. more \in Seq(Things)
  BY <1>3, KeptType, RowsAreThings
<1>5. Kept(Seen \o rest, Passing(Seen \o rest)) = Kept(Seen, Passing(Seen)) \o more
  BY <1>2, <1>3, PassingOfBoth
<1>. HIDE DEF more
<1>6. Kept(All, Passing(All)) = Output \o more
  BY <1>1, <1>3, <1>5
<1>7. status = "done" => Output = Kept(All, Passing(All))
  BY <1>1 DEF Whole
<1>. QED  BY <1>2, <1>4, <1>6, <1>7, BeginsIf

LEMMA DistinctExact == ASSUME StreamInv, plan.op = "distinct on" PROVE Begins(Kept(All, Firsts(All)))
<1>1. StreamTypeOK /\ Whole /\ Output = Kept(Seen, Firsts(Seen))
  BY DEF StreamInv, DistinctInv
<1>2. Seen \in Seq(Row) /\ Output \in Seq(Things)
  BY <1>1, Inputs
<1>3. PICK rest \in Seq(Row) : All = Seen \o rest
  BY <1>1, Inputs
<1>. DEFINE more == Kept(rest, Fresh(Seen, rest))
<1>4. more \in Seq(Things)
  BY <1>3, KeptType, RowsAreThings
<1>5. Kept(Seen \o rest, Firsts(Seen \o rest)) = Kept(Seen, Firsts(Seen)) \o more
  BY <1>2, <1>3, FirstsOfBoth
<1>. HIDE DEF more
<1>6. Kept(All, Firsts(All)) = Output \o more
  BY <1>1, <1>3, <1>5
<1>7. status = "done" => Output = Kept(All, Firsts(All))
  BY <1>1 DEF Whole
<1>. QED  BY <1>2, <1>4, <1>6, <1>7, BeginsIf

LEMMA ProjectExact == ASSUME StreamInv, plan.op = "project" PROVE Begins(All)
<1>1. StreamTypeOK /\ Whole /\ Output = Seen
  BY DEF StreamInv, ProjectInv
<1>2. PICK rest \in Seq(Row) : All = Seen \o rest
  BY <1>1, Inputs
<1>3. rest \in Seq(Things) /\ Output \in Seq(Things) /\ All = Output \o rest
  BY <1>1, <1>2, Inputs, RowsAreThings
<1>4. status = "done" => Output = All
  BY <1>1 DEF Whole
<1>. QED  BY <1>3, <1>4, BeginsIf

LEMMA LimitExact == ASSUME StreamInv, plan.op = "limit" PROVE Begins(Window(All))
<1>1. StreamTypeOK /\ Output = Window(Seen) /\ (status = "done" => Output = Window(All))
  BY DEF StreamInv, LimitInv
<1>2. /\ Seen \in Seq(Row) /\ Output \in Seq(Things)
      /\ plan.offset \in Nat /\ plan.limit \in Nat \cup {Unlimited}
  BY <1>1, Inputs DEF StreamTypeOK, IsStream
<1>3. PICK rest \in Seq(Row) : All = Seen \o rest
  BY <1>1, Inputs
<1>. DEFINE more == Later(Seen, rest)
<1>4. more \in Seq(Row) /\ Window(Seen \o rest) = Window(Seen) \o more
  BY <1>2, <1>3, WindowOfBoth
<1>. HIDE DEF more
<1>5. more \in Seq(Things) /\ Window(All) = Output \o more
  BY <1>1, <1>3, <1>4, RowsAreThings
<1>. QED  BY <1>1, <1>2, <1>5, BeginsIf

LEMMA AssertExact ==
    ASSUME StreamInv, plan.op = "assert max one row"
    PROVE  Begins(All) /\ (status = "done" => ~TooMany) /\ (status = "failed" => TooMany)
<1>1. StreamTypeOK /\ Whole /\ plan.keyed \in BOOLEAN
  BY DEF StreamInv, AssertInv, StreamTypeOK, IsStream
<1>2. All \in Seq(Row) /\ Output \in Seq(Things)
  BY <1>1, Inputs
<1>3. status = "failed" => TooMany
  BY DEF StreamInv, AssertInv
<1>4. \E rest \in Seq(Row) : All = Output \o rest
  <2>1. CASE status = "failed"
    BY <2>1 DEF StreamInv, AssertInv
  <2>2. CASE status # "failed"
    <3>1. Output = Seen
      BY <2>2 DEF StreamInv, AssertInv
    <3>. QED  BY <1>1, <3>1, Inputs
  <2>. QED  BY <2>1, <2>2
<1>5. PICK rest \in Seq(Row) : All = Output \o rest
  BY <1>4
<1>6. ASSUME status = "done" PROVE Output = All /\ ~TooMany
  <2>1. Output = Seen /\ Single(Seen)
    BY <1>6 DEF StreamInv, AssertInv
  <2>2. Seen = All
    BY <1>1, <1>6 DEF Whole
  <2>. QED  BY <1>1, <1>2, <2>1, <2>2, TooManyIs
<1>7. Begins(All)
  <2>1. rest \in Seq(Things)
    BY <1>5, RowsAreThings
  <2>. QED  BY <1>2, <1>5, <1>6, <2>1, BeginsIf
<1>. QED  BY <1>3, <1>6, <1>7

LEMMA UnnestExact == ASSUME StreamInv, plan.op = "unnest" PROVE Begins(Expanded(All))
<1>1. /\ StreamTypeOK /\ Whole /\ self \in [todo : Seq(Things)]
      /\ Output \o self.todo = Expanded(Seen) /\ (status = "done" => self.todo = <<>>)
  BY DEF StreamInv, UnnestInv
<1>2. Seen \in Seq(Row) /\ Output \in Seq(Things)
  BY <1>1, Inputs
<1>3. PICK rest \in Seq(Row) : All = Seen \o rest
  BY <1>1, Inputs
<1>4. \A row \in Range(Seen \o rest) : plan.elements[row.key] \in Nat
  BY <1>1, <1>3 DEF StreamTypeOK, IsStream, All
<1>5. Expanded(rest) \in Seq(Things) /\ Expanded(Seen \o rest) = Expanded(Seen) \o Expanded(rest)
  BY <1>2, <1>3, <1>4, ExpandedOfBoth
<1>. DEFINE p == self.todo
            q == Expanded(rest)
<1>6. p \in Seq(Things) /\ q \in Seq(Things) /\ Expanded(All) = (Output \o p) \o q
  <2>1. p \in Seq(Things) /\ q \in Seq(Things)
    BY <1>1, <1>5
  <2>. QED  BY <1>1, <1>3, <1>5, <2>1
<1>. HIDE DEF p, q
<1>7. (Output \o p) \o q = Output \o (p \o q) /\ p \o q \in Seq(Things)
  <2>1. p \in Seq(Things) /\ q \in Seq(Things) /\ Output \in Seq(Things)
    BY <1>2, <1>6
  <2>2. p \o q \in Seq(Things)
    BY <2>1, ConcatProperties
  <2>3. Associates(Output, p, q)
    BY <2>1, Associative
  <2>. QED  BY <2>2, <2>3 DEF Associates
<1>8. status = "done" => Output = Expanded(All)
  <2>1. ASSUME status = "done" PROVE Output = Expanded(All)
    <3>1. self.todo = <<>> /\ Seen = All
      BY <1>1, <2>1 DEF Whole
    <3>2. Output \o <<>> = Output
      BY <1>2, ConcatEmptySeq
    <3>. QED  BY <1>1, <3>1, <3>2
  <2>. QED  BY <2>1
<1>. DEFINE more == p \o q
<1>9. more \in Seq(Things) /\ Expanded(All) = Output \o more
  BY <1>6, <1>7
<1>. DEFINE answer == Expanded(All)
<1>10. answer = Output \o more /\ (status = "done" => Output = answer)
  BY <1>8, <1>9
<1>. HIDE DEF more, answer
<1>11. Begins(answer)
  BY <1>2, <1>9, <1>10, BeginsIf
<1>. QED  BY <1>11 DEF answer
LEMMA SeriesExact ==
    ASSUME StreamInv, plan.op = "series" PROVE Begins([k \in 1..Cardinality(Values) |-> Nth(k)])
<1>1. StreamTypeOK /\ SeriesInv /\ IsSeries
  BY SeriesPlan DEF StreamInv
<1>2. PICK n \in Nat : /\ Output = [k \in 1..n |-> Nth(k)]
                       /\ \A k \in 1..n : InRange(Nth(k))
                       /\ ~self.done => self.cur = Nth(n + 1)
                       /\ self.done \/ status = "done" => ~InRange(Nth(n + 1))
  BY <1>1 DEF SeriesInv
<1>. DEFINE m == Cardinality(Values)
            answer == [k \in 1..m |-> Nth(k)]
            more == [k \in 1..(m - n) |-> Nth(n + k)]
<1>3. m \in Nat /\ n <= m /\ (status = "done" => n = m)
  BY <1>1, <1>2, ValuesCounted
<1>4. \A k \in Int : Nth(k) \in Int
  BY <1>1, NthIs
<1>. HIDE DEF m
<1>5. answer \in Seq(Int) /\ Len(answer) = m /\ \A k \in 1..m : answer[k] = Nth(k)
  BY <1>3, <1>4
<1>6. Output \in Seq(Int) /\ Len(Output) = n /\ \A k \in 1..n : Output[k] = Nth(k)
  BY <1>2, <1>4
<1>7. more \in Seq(Int) /\ Len(more) = m - n /\ \A k \in 1..(m - n) : more[k] = Nth(n + k)
  <2>1. \A k \in 1..(m - n) : n + k \in Int /\ Nth(n + k) \in Int
    BY <1>2, <1>3, <1>4
  <2>2. m - n \in Nat
    BY <1>2, <1>3
  <2>. QED  BY <2>1, <2>2
<1>8. status = "done" => Output = answer
  BY <1>2, <1>3
<1>. HIDE DEF answer, more
<1>9. answer = Output \o more
  <2>. DEFINE both == Output \o more
  <2>1. both \in Seq(Int) /\ Len(both) = m /\ (\A k \in 1..n : both[k] = Nth(k))
        /\ \A k \in 1..(m - n) : both[n + k] = Nth(n + k)
    <3>1. Output \in Seq(Int) /\ more \in Seq(Int)
      BY <1>6, <1>7
    <3>. HIDE DEF both
    <3>2. /\ Output \o more \in Seq(Int) /\ Len(Output \o more) = Len(Output) + Len(more)
          /\ \A k \in 1..Len(Output) : (Output \o more)[k] = Output[k]
          /\ \A k \in 1..Len(more) : (Output \o more)[Len(Output) + k] = more[k]
      BY <3>1, Both
    <3>3. n + (m - n) = m
      BY <1>2, <1>3
    <3>4. both = Output \o more
      BY DEF both
    <3>. QED  BY <1>6, <1>7, <3>2, <3>3, <3>4
  <2>. HIDE DEF both
  <2>2. ASSUME NEW i \in 1..m PROVE both[i] = answer[i]
    <3>1. CASE i \in 1..n
      BY <1>5, <2>1, <3>1
    <3>2. ASSUME NEW k \in 1..(m - n), i = n + k PROVE both[i] = answer[i]
      BY <1>5, <2>1, <3>2
    <3>3. i \in 1..n \/ \E k \in 1..(m - n) : i = n + k
      <4>1. m - n \in Nat /\ n + (m - n) = m
        BY <1>2, <1>3
      <4>. QED  BY <1>2, <4>1, EitherOf
    <3>. QED  BY <3>1, <3>2, <3>3
  <2>3. both = answer
    BY <1>5, <2>1, <2>2, SeqEqual
  <2>. QED  BY <2>3 DEF both
<1>10. more \in Seq(Things) /\ Output \in Seq(Things)
  BY <1>6, <1>7 DEF Things
<1>11. Begins(answer)
  BY <1>8, <1>9, <1>10, BeginsIf
<1>. QED  BY <1>11 DEF answer, m

\* Some rows of the input, as many as asked for.
Some == \E chosen \in SUBSET DOMAIN All : Output = Kept(All, chosen)

\* Rows kept of the beginning are rows kept of the whole.
LEMMA KeptBefore ==
    ASSUME NEW T, NEW s \in Seq(T), NEW t \in Seq(T), NEW c \in SUBSET DOMAIN s
    PROVE  c \in SUBSET DOMAIN (s \o t) /\ Kept(s \o t, c) = Kept(s, c)
<1>. DEFINE m == Len(s)
            n == Len(t)
            none == {}
<1>1. /\ DOMAIN (s \o t) = 1..(m + n) /\ DOMAIN s = 1..m /\ m \in Nat /\ n \in Nat
      /\ \A i \in 1..m : i \in 1..(m + n)
  BY Both
<1>2. ASSUME NEW i \in 1..n PROVE m + i \notin c
  <2>1. m + i \notin 1..m
    BY <1>1
  <2>. QED  BY <1>1, <2>1
<1>3. Same(m, c, c) /\ Shifted(m, n, c, none)
  BY <1>2 DEF Same, Shifted
<1>4. Kept(t, none) = <<>> /\ Kept(s, c) \o <<>> = Kept(s, c)
  BY KeptNothing, KeptType, ConcatEmptySeq
<1>. HIDE DEF none
<1>5. Kept(s \o t, c) = Kept(s, c) \o Kept(t, none)
  BY <1>3, KeptOfBoth
<1>. QED  BY <1>1, <1>4, <1>5

LEMMA BernoulliExact ==
    ASSUME StreamInv, plan.op = "bernoulli"
    PROVE  Some /\ (status = "done" /\ plan.percent \in {0, 100} => Len(Output) = SampleSize)
<1>1. StreamTypeOK /\ BernoulliInv
  BY DEF StreamInv
<1>2. Seen \in Seq(Row) /\ All \in Seq(Row)
  BY <1>1, Inputs
<1>3. PICK rest \in Seq(Row) : All = Seen \o rest
  BY <1>1, Inputs
<1>4. PICK chosen \in SUBSET DOMAIN Seen : Output = Kept(Seen, chosen)
  BY <1>1 DEF BernoulliInv
<1>5. chosen \in SUBSET DOMAIN (Seen \o rest) /\ Kept(Seen \o rest, chosen) = Kept(Seen, chosen)
  <2>1. chosen \in SUBSET DOMAIN Seen /\ Seen \in Seq(Row) /\ rest \in Seq(Row)
    BY <1>2, <1>3, <1>4
  <2>. QED  BY <2>1, KeptBefore
<1>6. Some
  BY <1>3, <1>4, <1>5 DEF Some
<1>7. ASSUME status = "done", plan.percent \in {0, 100} PROVE Len(Output) = SampleSize
  <2>1. CASE plan.percent = 0
    <3>1. Output = <<>> /\ SampleSize = 0
      BY <1>1, <2>1 DEF BernoulliInv, SampleSize, Runs
    <3>. QED  BY <3>1
  <2>2. CASE plan.percent = 100
    <3>1. Output = Seen /\ SampleSize = Len(All) /\ Seen = All
      BY <1>1, <1>7, <2>2 DEF BernoulliInv, SampleSize, Runs, Whole
    <3>. QED  BY <3>1
  <2>. QED  BY <1>7, <2>1, <2>2
<1>. QED  BY <1>6, <1>7

LEMMA SampleExact ==
    ASSUME StreamInv, plan.op = "sample"
    PROVE  Some /\ (status = "done" => Len(Output) = SampleSize)
<1>1. StreamTypeOK /\ SampleInv
  BY DEF StreamInv
<1>2. All \in Seq(Row) /\ Output \in Seq(Things) /\ DOMAIN All = 1..Len(All)
  BY <1>1, Inputs, LenProperties
<1>3. CASE self.phase = "buffering"
  <2>1. Output = <<>> /\ status # "done"
    BY <1>1, <1>3 DEF SampleInv
  <2>2. {} \in SUBSET DOMAIN All /\ Kept(All, {}) = <<>>
    BY <1>2, KeptNothing
  <2>. QED  BY <2>1, <2>2 DEF Some
<1>4. CASE self.phase # "buffering"
  <2>1. PICK chosen \in kSubset(Min({plan.target, Len(All)}), DOMAIN All) : Output \o self.out = Kept(All, chosen)
    BY <1>1, <1>4 DEF SampleInv
  <2>2. self.out \in Seq(Things) /\ All \in Seq(Things)
    <3>1. self.out \in Seq(Row)
      BY <1>1 DEF SampleInv
    <3>. QED  BY <1>2, <3>1, RowsAreThings
  <2>3. \E d \in SUBSET (1..Len(All)) : Output = Kept(All, d)
    <3>. DEFINE out == self.out
    <3>1. out \in Seq(Things) /\ Output \in Seq(Things) /\ All \in Seq(Things) /\ Output \o out = Kept(All, chosen)
      BY <1>2, <2>1, <2>2
    <3>. HIDE DEF out
    <3>2. KeptFirst(All, chosen, Output, out)
      BY <3>1 DEF KeptFirst
    <3>. QED  BY <3>1, <3>2, KeptPrefix
  <2>4. ASSUME status = "done" PROVE Len(Output) = SampleSize
    <3>1. self.out = <<>>
      BY <1>1, <2>4 DEF SampleInv
    <3>2. Output = Kept(All, chosen)
      BY <1>2, <2>1, <3>1, ConcatEmptySeq
    <3>3. chosen \in SUBSET (1..Len(All)) /\ Cardinality(chosen) = Min({plan.target, Len(All)})
      BY <1>2, <2>1 DEF kSubset
    <3>4. Len(Kept(All, chosen)) = Cardinality(chosen)
      BY <1>2, <3>3, KeptLength
    <3>. QED  BY <3>2, <3>3, <3>4 DEF SampleSize, Runs
  <2>. QED  BY <1>2, <2>3, <2>4 DEF Some
<1>. QED  BY <1>3, <1>4

LEMMA AnswerIs ==
    /\ plan.op = "filter" => StreamAnswer = Kept(All, Passing(All))
    /\ plan.op = "project" => StreamAnswer = All
    /\ plan.op = "limit" => StreamAnswer = Window(All)
    /\ plan.op = "distinct on" => StreamAnswer = Kept(All, Firsts(All))
    /\ plan.op = "assert max one row" => StreamAnswer = All
    /\ plan.op = "unnest" => StreamAnswer = Expanded(All)
    /\ plan.op = "series" => StreamAnswer = [k \in 1..Cardinality(Values) |-> Nth(k)]
<1>1. /\ plan.op = "filter" => StreamAnswer = Kept(All, Passing(All))
      /\ plan.op = "project" => StreamAnswer = All
      /\ plan.op = "distinct on" => StreamAnswer = Kept(All, Firsts(All))
      /\ plan.op = "assert max one row" => StreamAnswer = All
      /\ plan.op = "unnest" => StreamAnswer = Expanded(All)
  BY DEF StreamAnswer, Runs
<1>2. plan.op = "limit" => StreamAnswer = Window(All)
  BY DEF StreamAnswer, Runs, Window, Cutoff
<1>3. plan.op = "series" => StreamAnswer = [k \in 1..Cardinality(Values) |-> Nth(k)]
  BY DEF StreamAnswer, Runs, Nth
<1>. QED  BY <1>1, <1>2, <1>3

LEMMA ExactFromInv == ASSUME StreamInv PROVE StreamExact
<1>1. plan.op \in Streams \ Samples => Begins(StreamAnswer)
  BY FilterExact, ProjectExact, LimitExact, DistinctExact, AssertExact, UnnestExact, SeriesExact, AnswerIs
     DEF Streams, Samples
<1>2. plan.op = "assert max one row" => (status = "done" => ~TooMany) /\ (status = "failed" => TooMany)
  BY AssertExact
<1>3. plan.op \in Samples =>
        /\ \E chosen \in SUBSET DOMAIN All : Output = Kept(All, chosen)
        /\ status = "done" /\ (plan.op = "sample" \/ plan.percent \in {0, 100}) => Len(Output) = SampleSize
  BY BernoulliExact, SampleExact DEF Some, Samples
<1>. QED  BY <1>1, <1>2, <1>3 DEF StreamExact, Begins

\* A filter, a projection, OFFSET and LIMIT, DISTINCT ON, UNNEST and a series
\* hand out the rows of their answer in its order, never a row twice and none
\* left out: not where one batch of the input ends and the next begins, not at
\* the size of a batch handed out, and not over an answer that bytes are
\* missing.  A scalar subquery fails if and only if it has a second row, and a
\* sample is of the rows of the input, as many as it should have.  This holds
\* of every input, of every way to cut it into batches and of every parameter.
THEOREM StreamIsExact == StreamSpec => []StreamExact
<1>1. StreamInv => StreamExact
  BY ExactFromInv
<1>. QED  BY <1>1, StreamInvariant, PTL
=============================================================================
