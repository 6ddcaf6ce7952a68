------------------------------ MODULE AllocProofs ------------------------------
(***************************************************************************)
(* No two owners share memory, none of it is lost, linear memory grows     *)
(* only for a block that fits nowhere and the counter of what is allocated *)
(* is exact, for any number of size classes, any page and growth size, any *)
(* sizes and alignments and any address space.                             *)
(*                                                                         *)
(* The heap is a partition of what memory.grow gave it.  Every call swaps  *)
(* a few pieces of the partition for others of the same granules, adds the *)
(* granules of a new region, or sets some aside as waste: Regrouped says   *)
(* once when that leaves a partition.  The counter is a sum over the       *)
(* holders, which a call changes at one of them.                           *)
(***************************************************************************)
EXTENDS Alloc, SequenceTheorems, FiniteSetTheorems, WellFoundedInduction, TLAPS

\* What a block that is held looks like.
HeldBlock == [n : Nat \ {0}, align : Nat \ {0}, at : Nat, from : Nat]
Heap == [small : [Classes -> Seq(Nat)], large : SUBSET [at : Nat, n : Nat \ {0}],
         bump : Nat, end : Nat, allocated : Int]

Apart(x, y) == x.at + x.n <= y.at \/ y.at + y.n <= x.at
Cover(S) == UNION {Of(x) : x \in S}
Sized(S) == \A x \in S : x.at \in Nat /\ x.n \in Nat

\* The pieces S and the waste W part the granules O.
Parts(S, W, O) ==
    /\ Sized(S) /\ W \subseteq Nat
    /\ \A x, y \in S : x = y \/ Apart(x, y)
    /\ Cover(S) \cap W = {}
    /\ O = W \cup Cover(S)
-----------------------------------------------------------------------------
(* The granules of pieces.                                                  *)

LEMMA CoverOf ==
    /\ \A S, g : g \in Cover(S) <=> \E x \in S : g \in Of(x)
    /\ \A x : x.at \in Nat /\ x.n \in Nat =>
          \A g : g \in Of(x) <=> g \in Nat /\ x.at <= g /\ g < x.at + x.n
<1>1. \A S, g : g \in Cover(S) <=> \E x \in S : g \in Of(x)
  BY DEF Cover
<1>2. ASSUME NEW x, x.at \in Nat, x.n \in Nat
      PROVE  \A g : g \in Of(x) <=> g \in Nat /\ x.at <= g /\ g < x.at + x.n
  BY <1>2 DEF Of, Granules
<1>. QED  BY <1>1, <1>2

LEMMA Regrouped ==
    ASSUME NEW S, NEW W, NEW O, NEW Gone, NEW New, NEW Waste, NEW Fresh,
           Parts(S, W, O), Gone \subseteq S, Sized(New), Waste \subseteq Nat, W \subseteq Waste,
           Fresh \cap O = {}, Cover(New) \cap Waste = {},
           Cover(New) \cup Waste = Cover(Gone) \cup W \cup Fresh,
           \A x, y \in New : x = y \/ Apart(x, y),
           \A x \in New, z \in S \ Gone : x.n = 0 \/ z.n = 0 => Apart(x, z)
    PROVE  Parts((S \ Gone) \cup New, Waste, O \cup Fresh)
<1>. DEFINE Kept == S \ Gone
<1>1. Sized(S) /\ Sized(Kept)
  BY DEF Parts, Sized
<1>2. Cover(Kept) \cap (Cover(Gone) \cup W \cup Fresh) = {}
  <2>. SUFFICES ASSUME NEW g \in Cover(Kept), g \in Cover(Gone) \cup W \cup Fresh
                PROVE  FALSE
    OBVIOUS
  <2>1. PICK x \in Kept : g \in Of(x)
    BY CoverOf
  <2>2. g \in Cover(S) /\ g \in O
    BY <2>1, CoverOf DEF Parts
  <2>3. PICK y \in Gone : g \in Of(y)
    BY <2>2, CoverOf DEF Parts
  <2>4. x.at <= g /\ g < x.at + x.n /\ y.at <= g /\ g < y.at + y.n /\ g \in Nat
    BY <1>1, <2>1, <2>3, CoverOf DEF Sized
  <2>5. Apart(x, y)
    BY <2>1, <2>3 DEF Parts
  <2>. QED  BY <1>1, <2>1, <2>3, <2>4, <2>5 DEF Apart, Sized
<1>3. Cover(New) \cap Cover(Kept) = {}
  BY <1>2
<1>4. ASSUME NEW x \in New, NEW z \in Kept
      PROVE  Apart(x, z) /\ Apart(z, x)
  <2>1. x.at \in Nat /\ x.n \in Nat /\ z.at \in Nat /\ z.n \in Nat
    BY <1>1 DEF Sized
  <2>2. CASE x.n # 0 /\ z.n # 0
    <3>. SUFFICES ASSUME ~Apart(x, z) PROVE FALSE
      BY <2>1 DEF Apart
    <3>1. PICK g \in {x.at, z.at} : x.at <= g /\ z.at <= g
      BY <2>1
    <3>2. g \in Of(x) /\ g \in Of(z)
      BY <2>1, <2>2, <3>1, CoverOf DEF Apart
    <3>. QED  BY <1>3, <3>2, CoverOf
  <2>3. CASE x.n = 0 \/ z.n = 0
    BY <2>1, <2>3 DEF Apart
  <2>. QED  BY <2>2, <2>3
<1>5. Cover(Kept \cup New) = Cover(Kept) \cup Cover(New)
  BY DEF Cover
<1>6. Cover(S) = Cover(Kept) \cup Cover(Gone)
  BY DEF Cover
<1>7. Sized(Kept \cup New)
  BY <1>1 DEF Sized
<1>8. \A x, y \in Kept \cup New : x = y \/ Apart(x, y)
  BY <1>4 DEF Parts
<1>9. Cover(Kept \cup New) \cap Waste = {}
  BY <1>2, <1>5
<1>10. O \cup Fresh = Waste \cup Cover(Kept \cup New)
  BY <1>5, <1>6 DEF Parts
<1>. QED  BY <1>7, <1>8, <1>9, <1>10 DEF Parts
-----------------------------------------------------------------------------
(* Size classes.                                                            *)

LEMMA SizePositive == ASSUME NEW c \in Nat PROVE 2 ^ c \in Nat \ {0}
<1>1. IsFiniteSet(1 .. c) /\ Cardinality(1 .. c) = c
  BY FS_Interval
<1>2. IsFiniteSet(SUBSET (1 .. c)) /\ Cardinality(SUBSET (1 .. c)) = 2 ^ c
  BY <1>1, FS_SUBSET
<1>3. SUBSET (1 .. c) # {}
  OBVIOUS
<1>. QED  BY <1>2, <1>3, FS_EmptySet, FS_CardinalityType

LEMMA Least ==
    ASSUME NEW T \in SUBSET Nat, T # {}
    PROVE  \E i \in T : \A j \in T : i <= j
<1>1. PICK i \in T : \A j \in T : ~ (<<j, i>> \in OpToRel(<, Nat))
  BY WFMin, NatLessThanWellFounded, Zenon
<1>2. \A j \in T : ~(j < i)
  BY <1>1 DEF OpToRel
<1>. QED  BY <1>2

LEMMA ClassFits ==
    ASSUME NEW n \in Nat, n <= MaxSmall
    PROVE  /\ ClassOf(n) \in Classes /\ ClassSize(ClassOf(n)) >= n
           /\ ClassSize(ClassOf(n)) \in Nat
<1>. DEFINE T == {c \in Classes : ClassSize(c) >= n}
<1>1. NumClasses - 1 \in T
  BY AllocAssumption DEF Classes, ClassSize, MaxSmall
<1>2. T \in SUBSET Nat
  BY AllocAssumption DEF Classes
<1>3. PICK c \in T : \A d \in T : c <= d
  BY <1>1, <1>2, Least
<1>4. \E e \in Classes : ClassSize(e) >= n /\ \A d \in Classes : ClassSize(d) >= n => e <= d
  BY <1>3
<1>5. ClassOf(n) \in Classes /\ ClassSize(ClassOf(n)) >= n
  BY <1>4 DEF ClassOf
<1>. QED  BY <1>5, SizePositive, AllocAssumption DEF Classes, ClassSize

\* What a request takes covers it.
LEMMA HeldCovers ==
    ASSUME NEW n \in Nat \ {0}, NEW align \in Nat \ {0}
    PROVE  Held(n, align) \in Nat /\ Held(n, align) >= n
<1>1. CASE align > 1
  BY <1>1 DEF Held, IsSmall
<1>2. CASE IsSmall(n, align)
  BY <1>2, ClassFits DEF Held, IsSmall
<1>3. CASE align = 1 /\ ~IsSmall(n, align)
  BY <1>3 DEF Held
<1>. QED  BY <1>1, <1>2, <1>3

LEMMA DivProps ==
    ASSUME NEW a \in Nat, NEW b \in Nat \ {0}
    PROVE  a \div b \in Nat /\ b * (a \div b) <= a /\ a < b * (a \div b) + b
OBVIOUS

\* One memory.grow is enough for the call that makes it.
LEMMA GrowthCovers ==
    ASSUME NEW n \in Nat \ {0}
    PROVE  Growth(n) \in Nat /\ Growth(n) >= n
<1>. DEFINE pages == (n + Page - 1) \div Page
<1>1. pages \in Nat /\ Page * pages >= n
  BY AllocAssumption, DivProps
<1>2. ASSUME NEW k \in Nat, k >= pages PROVE Page * k \in Nat /\ Page * k >= n
  BY <1>1, <1>2, AllocAssumption
<1>. QED  BY <1>1, <1>2, AllocAssumption DEF Growth

LEMMA AlignedAddress ==
    ASSUME NEW at \in Nat, NEW align \in Nat \ {0}
    PROVE  AlignUp(at, align) \in Nat
<1>1. (at + align - 1) \div align \in Nat
  BY DivProps
<1>. QED  BY <1>1 DEF AlignUp
-----------------------------------------------------------------------------
(* The free pieces of a heap, by their kind.                                *)

Kind(x) == x.of[1]
SmallsOf(h) == UNION {SmallPieces(h, c) : c \in Classes}
Top(h, c) == SmallPiece(h, c, Len(h.small[c]))

LEMMA FreeKinds ==
    ASSUME NEW h \in Heap, h.bump <= h.end
    PROVE  /\ FreePieces(h) = SmallsOf(h) \cup LargePieces(h) \cup {BumpPiece(h)}
           /\ Sized(FreePieces(h))
           /\ \A x \in SmallsOf(h) : Kind(x) = "small" /\ x.n > 0
           /\ \A x \in LargePieces(h) : Kind(x) = "large" /\ x.n > 0
           /\ Kind(BumpPiece(h)) = "bump"
<1>1. FreePieces(h) = SmallsOf(h) \cup LargePieces(h) \cup {BumpPiece(h)}
  BY DEF FreePieces, SmallsOf
<1>2. ASSUME NEW x \in SmallsOf(h)
      PROVE  Kind(x) = "small" /\ x.n > 0 /\ x.at \in Nat /\ x.n \in Nat
  <2>1. PICK c \in Classes : \E k \in 1 .. Len(h.small[c]) : x = SmallPiece(h, c, k)
    BY DEF SmallsOf, SmallPieces
  <2>0. PICK k \in 1 .. Len(h.small[c]) : x = SmallPiece(h, c, k)
    BY <2>1
  <2>2. h.small[c] \in Seq(Nat)
    BY DEF Heap
  <2>3. Len(h.small[c]) + 1 - k \in DOMAIN h.small[c]
    BY <2>2, LenProperties
  <2>4. x.at = h.small[c][Len(h.small[c]) + 1 - k] /\ x.n = ClassSize(c) /\ Kind(x) = "small"
    BY <2>0 DEF SmallPiece, Kind
  <2>5. x.at \in Nat
    BY <2>2, <2>3, <2>4, ElementOfSeq
  <2>6. x.n \in Nat \ {0}
    BY <2>4, SizePositive, AllocAssumption DEF ClassSize, Classes
  <2>. QED  BY <2>4, <2>5, <2>6
<1>3. \A x \in LargePieces(h) : Kind(x) = "large" /\ x.n > 0 /\ x.at \in Nat /\ x.n \in Nat
  BY DEF Heap, LargePieces, LargePiece, Kind
<1>4. Kind(BumpPiece(h)) = "bump" /\ BumpPiece(h).at \in Nat /\ BumpPiece(h).n \in Nat
  BY DEF Heap, BumpPiece, Kind
<1>5. Sized(FreePieces(h))
  BY <1>1, <1>2, <1>3, <1>4 DEF Sized
<1>. QED  BY <1>1, <1>2, <1>3, <1>4, <1>5

LEMMA SmallsPopped ==
    ASSUME NEW h \in Heap, NEW c \in Classes, h.small[c] # <<>>, NEW g,
           g.small = [h.small EXCEPT ![c] = Tail(@)]
    PROVE  /\ SmallsOf(g) = SmallsOf(h) \ {Top(h, c)}
           /\ Top(h, c) \in SmallsOf(h)
           /\ Top(h, c) = [of |-> <<"small", c, Len(h.small[c])>>, at |-> Head(h.small[c]),
                           n |-> ClassSize(c)]
<1>1. h.small \in [Classes -> Seq(Nat)] /\ h.small[c] \in Seq(Nat)
  BY DEF Heap
<1>2. /\ Len(h.small[c]) \in Nat \ {0} /\ Len(g.small[c]) = Len(h.small[c]) - 1
      /\ \A i \in 1 .. Len(g.small[c]) : g.small[c][i] = h.small[c][i + 1]
      /\ h.small[c][1] = Head(h.small[c])
      /\ \A d \in Classes : d # c => g.small[d] = h.small[d]
  BY <1>1, HeadTailProperties, EmptySeq, LenProperties
<1>3. ASSUME NEW k \in 1 .. Len(g.small[c]) PROVE SmallPiece(g, c, k) = SmallPiece(h, c, k)
  <2>1. /\ Len(g.small[c]) + 1 - k \in 1 .. Len(g.small[c])
        /\ Len(h.small[c]) + 1 - k = (Len(g.small[c]) + 1 - k) + 1
    BY <1>2
  <2>2. g.small[c][Len(g.small[c]) + 1 - k] = h.small[c][Len(h.small[c]) + 1 - k]
    BY <1>2, <2>1
  <2>. QED  BY <2>2 DEF SmallPiece
<1>4. \A d \in Classes : d # c => SmallPieces(g, d) = SmallPieces(h, d)
  BY <1>2 DEF SmallPieces, SmallPiece
<1>5. SmallPieces(g, c) = {SmallPiece(h, c, k) : k \in 1 .. Len(h.small[c]) - 1}
  BY <1>2, <1>3 DEF SmallPieces
<1>6. \A x \in SmallPieces(g, c) : x # Top(h, c)
  BY <1>2, <1>5 DEF SmallPiece, Top
<1>7. SmallPieces(h, c) = SmallPieces(g, c) \cup {Top(h, c)}
  <2>1. 1 .. Len(h.small[c]) = (1 .. Len(h.small[c]) - 1) \cup {Len(h.small[c])}
    BY <1>2
  <2>. QED  BY <1>5, <2>1 DEF SmallPieces, Top
<1>8. \A d \in Classes : d # c => Top(h, c) \notin SmallPieces(h, d)
  BY DEF SmallPieces, SmallPiece, Top
<1>9. SmallsOf(g) = SmallsOf(h) \ {Top(h, c)}
  BY <1>4, <1>6, <1>7, <1>8 DEF SmallsOf
<1>10. Top(h, c) \in SmallsOf(h)
  BY <1>7 DEF SmallsOf
<1>. QED  BY <1>2, <1>9, <1>10 DEF Top, SmallPiece

LEMMA SmallsPushed ==
    ASSUME NEW h \in Heap, NEW c \in Classes, NEW at \in Nat, NEW g,
           g.small = [h.small EXCEPT ![c] = <<at>> \o @]
    PROVE  SmallsOf(g) = SmallsOf(h) \cup {[of |-> <<"small", c, Len(h.small[c]) + 1>>, at |-> at,
                                            n |-> ClassSize(c)]}
<1>1. h.small \in [Classes -> Seq(Nat)] /\ h.small[c] \in Seq(Nat) /\ <<at>> \in Seq(Nat)
  BY DEF Heap
<1>2. /\ Len(h.small[c]) \in Nat /\ Len(g.small[c]) = Len(h.small[c]) + 1
      /\ g.small[c][1] = at
      /\ \A i \in 2 .. Len(g.small[c]) : g.small[c][i] = h.small[c][i - 1]
      /\ \A d \in Classes : d # c => g.small[d] = h.small[d]
  BY <1>1, ConcatProperties, LenProperties
<1>3. ASSUME NEW k \in 1 .. Len(h.small[c]) PROVE SmallPiece(g, c, k) = SmallPiece(h, c, k)
  <2>1. /\ Len(g.small[c]) + 1 - k \in 2 .. Len(g.small[c])
        /\ Len(h.small[c]) + 1 - k = (Len(g.small[c]) + 1 - k) - 1
    BY <1>2
  <2>2. g.small[c][Len(g.small[c]) + 1 - k] = h.small[c][Len(h.small[c]) + 1 - k]
    BY <1>2, <2>1
  <2>. QED  BY <2>2 DEF SmallPiece
<1>4. \A d \in Classes : d # c => SmallPieces(g, d) = SmallPieces(h, d)
  BY <1>2 DEF SmallPieces, SmallPiece
<1>5. SmallPieces(g, c) = SmallPieces(h, c) \cup {Top(g, c)}
  <2>1. 1 .. Len(g.small[c]) = (1 .. Len(h.small[c])) \cup {Len(g.small[c])}
    BY <1>2
  <2>2. SmallPieces(g, c) = {SmallPiece(g, c, k) : k \in 1 .. Len(h.small[c])} \cup {Top(g, c)}
    BY <2>1 DEF SmallPieces, Top
  <2>. QED  BY <1>3, <2>2 DEF SmallPieces
<1>6. SmallsOf(g) = SmallsOf(h) \cup {Top(g, c)}
  BY <1>4, <1>5 DEF SmallsOf
<1>. QED  BY <1>2, <1>6 DEF Top, SmallPiece

LEMMA SmallsSame == ASSUME NEW h, NEW g, g.small = h.small PROVE SmallsOf(g) = SmallsOf(h)
BY DEF SmallsOf, SmallPieces, SmallPiece

LEMMA LargeTags ==
    ASSUME NEW h \in Heap, NEW b \in h.large, NEW c \in h.large, LargePiece(b) = LargePiece(c)
    PROVE  b = c
<1>1. b.at = c.at /\ b.n = c.n
  BY DEF LargePiece
<1>. QED  BY <1>1 DEF Heap

LEMMA LargeSwapped ==
    ASSUME NEW h \in Heap, NEW g, NEW L \in SUBSET h.large, NEW M,
           g.large = (h.large \ L) \cup M
    PROVE  LargePieces(g) = (LargePieces(h) \ {LargePiece(b) : b \in L}) \cup {LargePiece(b) : b \in M}
BY LargeTags DEF LargePieces

LEMMA LargeTaken ==
    ASSUME NEW h \in Heap, NEW g, NEW b \in h.large, NEW M,
           g.large = (h.large \ {b}) \cup M
    PROVE  LargePieces(g) = (LargePieces(h) \ {LargePiece(b)}) \cup {LargePiece(c) : c \in M}
BY LargeTags DEF LargePieces
-----------------------------------------------------------------------------
(* A heap, the blocks H that are held, the waste W and the granules O that  *)
(* memory.grow gave: what every call keeps.                                 *)

Coalesces(h) ==
    \A b \in h.large : b.at + b.n # h.bump /\ \A c \in h.large : b.at + b.n # c.at

Partition(H, h, W, O) ==
    /\ h \in Heap /\ h.bump <= h.end
    /\ \A x \in H : Kind(x) = "held" /\ x.n > 0
    /\ Parts(H \cup FreePieces(h), W, O)
    /\ O \subseteq 1 .. (h.end - 1)
    /\ Coalesces(h)

\* The bump region alone may be empty; all else ends before the region does.
LEMMA Ends ==
    ASSUME NEW H, NEW h, NEW W, NEW O, Partition(H, h, W, O),
           NEW z \in H \cup FreePieces(h)
    PROVE  /\ z.at \in Nat /\ z.n \in Nat
           /\ z.n = 0 => z = BumpPiece(h) /\ z.at = h.end
           /\ z.n # 0 => z.at > 0 /\ z.at + z.n <= h.end
           /\ Of(z) \subseteq O
<1>1. h \in Heap /\ h.bump <= h.end
  BY DEF Partition
<1>2. z.at \in Nat /\ z.n \in Nat
  BY DEF Partition, Parts, Sized
<1>3. ASSUME z.n = 0 PROVE z = BumpPiece(h) /\ z.at = h.end
  <2>1. z = BumpPiece(h)
    BY <1>1, <1>3, FreeKinds DEF Partition
  <2>. QED  BY <1>1, <1>3, <2>1 DEF BumpPiece, Heap
<1>4. Of(z) \subseteq O
  BY CoverOf DEF Partition, Parts
<1>5. ASSUME z.n # 0 PROVE z.at > 0 /\ z.at + z.n <= h.end
  <2>1. z.at \in Of(z) /\ z.at + z.n - 1 \in Of(z)
    BY <1>2, <1>5, CoverOf
  <2>. QED  BY <1>1, <1>2, <1>4, <2>1 DEF Partition, Heap
<1>. QED  BY <1>2, <1>3, <1>4, <1>5

LEMMA Separate ==
    ASSUME NEW H, NEW h, NEW W, NEW O, Partition(H, h, W, O)
    PROVE  /\ H \cap FreePieces(h) = {}
           /\ SmallsOf(h) \cap (LargePieces(h) \cup {BumpPiece(h)}) = {}
           /\ LargePieces(h) \cap {BumpPiece(h)} = {}
<1>1. h \in Heap /\ h.bump <= h.end
  BY DEF Partition
<1>2. /\ \A x \in H : Kind(x) = "held"
      /\ \A x \in SmallsOf(h) : Kind(x) = "small"
      /\ \A x \in LargePieces(h) : Kind(x) = "large"
      /\ Kind(BumpPiece(h)) = "bump"
      /\ FreePieces(h) = SmallsOf(h) \cup LargePieces(h) \cup {BumpPiece(h)}
  BY <1>1, FreeKinds DEF Partition
<1>. QED  BY <1>2

LEMMA CoverSmall ==
    /\ \A x : Cover({x}) = Of(x)
    /\ \A x, y : Cover({x, y}) = Of(x) \cup Of(y)
BY DEF Cover

\* One piece takes another's place: a pop, a push, a new holder.
LEMMA Replaced ==
    ASSUME NEW H, NEW h, NEW W, NEW O, Partition(H, h, W, O),
           NEW y \in H \cup FreePieces(h), y.n > 0, NEW x, x.at = y.at, x.n = y.n
    PROVE  Parts(((H \cup FreePieces(h)) \ {y}) \cup {x}, W, O)
<1>. DEFINE S == H \cup FreePieces(h)
<1>1. Parts(S, W, O) /\ W \subseteq Nat
  BY DEF Partition, Parts
<1>2. Sized({x}) /\ Cover({x}) = Cover({y})
  BY <1>1, CoverSmall DEF Sized, Of, Parts
<1>3. \A z \in S \ {y} : x.n = 0 \/ z.n = 0 => Apart(x, z)
  BY <1>1, Ends DEF Apart, Parts
<1>4. Cover({y}) \cap W = {}
  BY <1>1, CoverOf, CoverSmall DEF Parts
<1>5. \A a, b \in {x} : a = b \/ Apart(a, b)
  OBVIOUS
<1>6. Parts((S \ {y}) \cup {x}, W, O \cup {})
  <2>. HIDE DEF S
  <2>. QED  BY <1>1, <1>2, <1>3, <1>4, <1>5, Regrouped DEF S
<1>. QED  BY <1>6

Popped(h, c) == [h.small EXCEPT ![c] = Tail(@)]

LEMMA TakesTop ==
    ASSUME NEW H, NEW h, NEW W, NEW O, Partition(H, h, W, O),
           NEW c \in Classes, h.small[c] # <<>>,
           NEW g \in Heap, g.small = Popped(h, c),
           g.large = h.large, g.bump = h.bump, g.end = h.end,
           NEW x, Kind(x) = "held", x.at = Head(h.small[c]), x.n = ClassSize(c)
    PROVE  Partition(H \cup {x}, g, W, O) /\ x.at > 0
<1>. DEFINE y == Top(h, c)
<1>1. h \in Heap /\ h.bump <= h.end /\ g.bump <= g.end
  BY DEF Partition
<1>2. y \in SmallsOf(h) /\ y.at = x.at /\ y.n = x.n /\ SmallsOf(g) = SmallsOf(h) \ {y}
  BY <1>1, SmallsPopped DEF Popped
<1>3. LargePieces(g) = LargePieces(h) /\ BumpPiece(g) = BumpPiece(h)
  BY DEF LargePieces, BumpPiece
<1>4. y \in FreePieces(h) /\ FreePieces(g) = FreePieces(h) \ {y} /\ y \notin H /\ y.n > 0
  BY <1>1, <1>2, <1>3, FreeKinds, Separate
<1>5. Parts(((H \cup FreePieces(h)) \ {y}) \cup {x}, W, O)
  BY <1>2, <1>4, Replaced
<1>6. ((H \cup FreePieces(h)) \ {y}) \cup {x} = (H \cup {x}) \cup FreePieces(g)
  BY <1>4
<1>7. x.at > 0
  BY <1>2, <1>4, Ends
<1>. QED  BY <1>1, <1>2, <1>4, <1>5, <1>6, <1>7 DEF Partition, Coalesces

LEMMA PushesTop ==
    ASSUME NEW H, NEW h, NEW W, NEW O, NEW x, x \notin H, Partition(H \cup {x}, h, W, O),
           NEW c \in Classes, x.n = ClassSize(c),
           NEW g \in Heap, g.small = [h.small EXCEPT ![c] = <<x.at>> \o @],
           g.large = h.large, g.bump = h.bump, g.end = h.end
    PROVE  Partition(H, g, W, O)
<1>. DEFINE y == [of |-> <<"small", c, Len(h.small[c]) + 1>>, at |-> x.at, n |-> ClassSize(c)]
<1>1. h \in Heap /\ h.bump <= h.end /\ g.bump <= g.end /\ x.n > 0
  BY DEF Partition
<1>2. x.at \in Nat
  BY Ends
<1>3. SmallsOf(g) = SmallsOf(h) \cup {y}
  BY <1>1, <1>2, SmallsPushed
<1>4. LargePieces(g) = LargePieces(h) /\ BumpPiece(g) = BumpPiece(h)
  BY DEF LargePieces, BumpPiece
<1>5. FreePieces(g) = FreePieces(h) \cup {y}
  BY <1>1, <1>3, <1>4, FreeKinds
<1>6. Parts((((H \cup {x}) \cup FreePieces(h)) \ {x}) \cup {y}, W, O)
  BY <1>1, Replaced
<1>7. (((H \cup {x}) \cup FreePieces(h)) \ {x}) \cup {y} = H \cup FreePieces(g)
  BY <1>5, Separate
<1>. QED  BY <1>1, <1>6, <1>7 DEF Partition, Coalesces

LEMMA NewHolder ==
    ASSUME NEW H, NEW h, NEW W, NEW O, NEW x, x \notin H, Partition(H \cup {x}, h, W, O),
           NEW y, Kind(y) = "held", y.at = x.at, y.n = x.n
    PROVE  Partition(H \cup {y}, h, W, O)
<1>1. x.n > 0
  BY DEF Partition
<1>2. Parts((((H \cup {x}) \cup FreePieces(h)) \ {x}) \cup {y}, W, O)
  BY <1>1, Replaced
<1>3. (((H \cup {x}) \cup FreePieces(h)) \ {x}) \cup {y} = (H \cup {y}) \cup FreePieces(h)
  BY Separate
<1>. QED  BY <1>1, <1>2, <1>3 DEF Partition

\* An over-aligned block is not given back.
LEMMA Leaked ==
    ASSUME NEW H, NEW h, NEW W, NEW O, NEW x, x \notin H, Partition(H \cup {x}, h, W, O)
    PROVE  Partition(H, h, W \cup Of(x), O)
<1>. DEFINE S == (H \cup {x}) \cup FreePieces(h)
<1>1. Parts(S, W, O) /\ W \subseteq Nat /\ x \in S
  BY DEF Partition, Parts
<1>2. Of(x) \subseteq Nat
  BY <1>1, CoverOf DEF Parts, Sized
<1>3. Cover({}) = {} /\ Cover({x}) = Of(x)
  BY CoverSmall DEF Cover
<1>4. Parts((S \ {x}) \cup {}, W \cup Of(x), O \cup {})
  <2>. HIDE DEF S
  <2>1. Sized({})
    BY DEF Sized
  <2>2. /\ {x} \subseteq S /\ W \cup Of(x) \subseteq Nat /\ W \subseteq W \cup Of(x)
        /\ Cover({}) \cap (W \cup Of(x)) = {}
        /\ Cover({}) \cup (W \cup Of(x)) = Cover({x}) \cup W \cup {}
    BY <1>1, <1>2, <1>3
  <2>3. \A u, v \in {} : u = v \/ Apart(u, v)
    OBVIOUS
  <2>4. \A u \in {}, v \in S \ {x} : u.n = 0 \/ v.n = 0 => Apart(u, v)
    OBVIOUS
  <2>. QED  BY <1>1, <2>1, <2>2, <2>3, <2>4, Regrouped
<1>5. (S \ {x}) \cup {} = H \cup FreePieces(h) /\ O \cup {} = O
  BY Separate
<1>. QED  BY <1>4, <1>5 DEF Partition
-----------------------------------------------------------------------------
(* The bump region and the large list.                                      *)

LEMMA Split ==
    ASSUME NEW H, NEW h, NEW W, NEW O, Partition(H, h, W, O),
           NEW y \in H \cup FreePieces(h),
           NEW x, NEW r, x.n \in Nat \ {0}, r.n \in Nat, x.n + r.n = y.n,
           x.at = y.at, r.at = y.at + x.n, r.n > 0 \/ y = BumpPiece(h)
    PROVE  Parts(((H \cup FreePieces(h)) \ {y}) \cup {x, r}, W, O)
<1>. DEFINE S == H \cup FreePieces(h)
<1>0. Parts(S, W, O) /\ h \in Heap /\ y.at \in Nat /\ y.n \in Nat
  <2>1. y.at \in Nat /\ y.n \in Nat
    BY Ends
  <2>. QED  BY <2>1 DEF Partition
<1>1. Parts(S, W, O) /\ W \subseteq Nat /\ y.at \in Nat /\ y.n \in Nat /\ h \in Heap
  BY <1>0 DEF Parts
<1>2. x.at \in Nat /\ r.at \in Nat
  BY <1>1
<1>3. Of(x) \cup Of(r) = Of(y)
  BY <1>1, <1>2 DEF Of, Granules
<1>4. Cover({x, r}) = Cover({y}) /\ Cover({y}) \cap W = {}
  BY <1>1, <1>3, CoverOf, CoverSmall DEF Parts
<1>5. \A a, b \in {x, r} : a = b \/ Apart(a, b)
  BY <1>1, <1>2 DEF Apart
<1>6. \A a \in {x, r}, z \in S \ {y} : a.n = 0 \/ z.n = 0 => Apart(a, z)
  <2>. SUFFICES ASSUME NEW a \in {x, r}, NEW z \in S \ {y}, a.n = 0 \/ z.n = 0
                PROVE  Apart(a, z)
    OBVIOUS
  <2>1. z.at \in Nat /\ z.n \in Nat /\ y.n # 0 /\ y.at + y.n <= h.end /\ h.end \in Nat
    BY <1>1, Ends DEF Heap
  <2>2. CASE z.n = 0
    <3>1. z.at = h.end
      BY <2>2, Ends
    <3>. QED  BY <1>1, <1>2, <2>1, <3>1 DEF Apart
  <2>3. CASE z.n # 0
    <3>1. a = r /\ y = BumpPiece(h) /\ y.at + y.n = h.end
      BY <1>1, <2>3 DEF BumpPiece, Heap
    <3>2. z.at + z.n <= h.end
      BY <2>3, Ends
    <3>. QED  BY <1>1, <1>2, <2>1, <2>3, <3>1, <3>2 DEF Apart
  <2>. QED  BY <2>2, <2>3
<1>7. Sized({x, r})
  BY <1>2 DEF Sized
<1>8. Parts((S \ {y}) \cup {x, r}, W, O \cup {})
  <2>. HIDE DEF S
  <2>1. {y} \subseteq S /\ W \subseteq W /\ {} \cap O = {} /\ Cover({x, r}) \cap W = {}
        /\ Cover({x, r}) \cup W = Cover({y}) \cup W \cup {}
    BY <1>4 DEF S
  <2>. QED  BY <1>1, <1>5, <1>6, <1>7, <2>1, Regrouped
<1>. QED  BY <1>8

LEMMA Carves ==
    ASSUME NEW H, NEW h, NEW W, NEW O, Partition(H, h, W, O),
           NEW n \in Nat \ {0}, h.bump + n <= h.end,
           NEW g \in Heap, g.small = h.small, g.large = h.large,
           g.bump = h.bump + n, g.end = h.end,
           NEW x, Kind(x) = "held", x.at = h.bump, x.n = n
    PROVE  Partition(H \cup {x}, g, W, O) /\ x.at > 0
<1>. DEFINE y == BumpPiece(h)
            r == BumpPiece(g)
<1>1. h \in Heap /\ h.bump <= h.end /\ g.bump <= g.end
  BY DEF Partition
<1>2. /\ y.at = x.at /\ y.n \in Nat /\ y.n # 0 /\ r.n \in Nat /\ x.n + r.n = y.n
      /\ r.at = y.at + x.n
  BY <1>1 DEF BumpPiece, Heap
<1>3. y \in FreePieces(h) /\ y \notin H /\ FreePieces(g) = (FreePieces(h) \ {y}) \cup {r}
  <2>1. LargePieces(g) = LargePieces(h) /\ SmallsOf(g) = SmallsOf(h)
    BY SmallsSame DEF LargePieces
  <2>. QED  BY <1>1, <2>1, FreeKinds, Separate
<1>4. Parts(((H \cup FreePieces(h)) \ {y}) \cup {x, r}, W, O)
  <2>. HIDE DEF y, r
  <2>. QED  BY <1>2, <1>3, Split DEF y
<1>5. ((H \cup FreePieces(h)) \ {y}) \cup {x, r} = (H \cup {x}) \cup FreePieces(g)
  BY <1>3
<1>6. x.at > 0
  BY <1>2, <1>3, Ends
<1>7. Coalesces(g)
  <2>. SUFFICES ASSUME NEW b \in h.large PROVE b.at + b.n # h.bump + n
    BY DEF Coalesces, Partition
  <2>1. LargePiece(b) \in LargePieces(h) /\ LargePiece(b).at = b.at /\ LargePiece(b).n = b.n
    BY DEF LargePieces, LargePiece
  <2>2. LargePiece(b) \in FreePieces(h) /\ LargePiece(b) # y
    BY <1>1, <2>1, FreeKinds, Separate
  <2>3. Apart(LargePiece(b), y)
    BY <1>3, <2>2 DEF Partition, Parts
  <2>4. b.at \in Nat /\ b.n \in Nat /\ b.n # 0
    BY DEF Heap
  <2>5. y.at = h.bump /\ y.n = h.end - h.bump /\ b.at + b.n <= h.end
    BY <2>1, <2>2, <2>4, Ends DEF BumpPiece
  <2>. QED  BY <1>1, <2>1, <2>3, <2>4, <2>5 DEF Apart, Heap
<1>8. (\A z \in H \cup {x} : Kind(z) = "held" /\ z.n > 0) /\ O \subseteq 1 .. (g.end - 1)
  BY DEF Partition
<1>9. Parts((H \cup {x}) \cup FreePieces(g), W, O)
  BY <1>4, <1>5
<1>. QED  BY <1>1, <1>6, <1>7, <1>8, <1>9 DEF Partition

\* What a new region adds, and what the last one loses if it does not follow it.
LEMMA Grows ==
    ASSUME NEW H, NEW h, NEW W, NEW O, Partition(H, h, W, O),
           NEW m \in Nat \ {0}, memory \in Nat \ {0}, h.end <= memory,
           NEW g \in Heap, g.small = h.small, g.large = h.large,
           g.bump = IF memory = h.end THEN h.bump ELSE memory, g.end = memory + m
    PROVE  Partition(H, g, W \cup (IF memory # h.end THEN h.bump .. (h.end - 1) ELSE {}),
                     O \cup (memory .. (g.end - 1)))
<1>. DEFINE y == BumpPiece(h)
            r == BumpPiece(g)
            Lost == IF memory # h.end THEN h.bump .. (h.end - 1) ELSE {}
            Fresh == memory .. (g.end - 1)
            S == H \cup FreePieces(h)
<1>1. h \in Heap /\ h.bump <= h.end /\ g.bump <= g.end /\ h.bump \in Nat /\ h.end \in Nat
  BY DEF Partition, Heap
<1>2. Parts(S, W, O) /\ W \subseteq Nat /\ O \subseteq 1 .. (h.end - 1)
  BY DEF Partition, Parts
<1>3. y \in FreePieces(h) /\ y \notin H /\ FreePieces(g) = (FreePieces(h) \ {y}) \cup {r}
  <2>1. LargePieces(g) = LargePieces(h) /\ SmallsOf(g) = SmallsOf(h)
    BY SmallsSame DEF LargePieces
  <2>. QED  BY <1>1, <2>1, FreeKinds, Separate
<1>4. /\ y.at = h.bump /\ y.n = h.end - h.bump /\ r.at = g.bump /\ r.n = g.end - g.bump
      /\ r.at \in Nat /\ r.n \in Nat /\ r.n # 0
  BY <1>1 DEF BumpPiece, Heap
<1>5. /\ Of(y) = h.bump .. (h.end - 1)
      /\ Of(r) = g.bump .. (g.end - 1)
  BY <1>1, <1>4 DEF Of, Granules, Heap
<1>6. Of(y) \subseteq O /\ W \subseteq O /\ Of(y) \cap W = {}
  <2>1. y \in S
    BY <1>3
  <2>. QED  BY <1>2, <2>1, CoverOf DEF Parts
<1>7. /\ Cover({r}) \cap (W \cup Lost) = {} /\ Lost \subseteq Nat
      /\ Cover({r}) \cup (W \cup Lost) = Cover({y}) \cup W \cup Fresh
      /\ Fresh \cap O = {}
  <2>1. Cover({r}) = Of(r) /\ Cover({y}) = Of(y)
    BY CoverSmall
  <2>2. Fresh \cap O = {} /\ Lost \subseteq Nat
    BY <1>1, <1>2
  <2>3. CASE memory = h.end
    <3>1. Of(r) = Of(y) \cup Fresh /\ Lost = {}
      BY <1>1, <1>5, <2>3
    <3>. QED  BY <1>6, <2>1, <2>2, <3>1
  <2>4. CASE memory # h.end
    <3>1. Of(r) = Fresh /\ Lost = Of(y)
      BY <1>1, <1>5, <2>4
    <3>. QED  BY <1>6, <2>1, <2>2, <3>1
  <2>. QED  BY <2>3, <2>4
<1>8. \A z \in S \ {y} : z.n # 0
  BY Ends
<1>9. Parts((S \ {y}) \cup {r}, W \cup Lost, O \cup Fresh)
  <2>1. {y} \subseteq S
    BY <1>3
  <2>2. \A x \in {r}, z \in S \ {y} : x.n = 0 \/ z.n = 0 => Apart(x, z)
    BY <1>4, <1>8
  <2>3. (\A x, z \in {r} : x = z \/ Apart(x, z)) /\ Sized({r})
    BY <1>4 DEF Sized
  <2>4. W \cup Lost \subseteq Nat /\ W \subseteq W \cup Lost
    BY <1>2, <1>7
  <2>. HIDE DEF S, y, r, Lost, Fresh
  <2>. QED  BY <1>2, <1>7, <2>1, <2>2, <2>3, <2>4, Regrouped
<1>10. (S \ {y}) \cup {r} = H \cup FreePieces(g)
  BY <1>3
<1>11. O \cup Fresh \subseteq 1 .. (g.end - 1)
  BY <1>1, <1>2
<1>12. Coalesces(g)
  <2>. SUFFICES ASSUME NEW b \in h.large, memory # h.end PROVE b.at + b.n # memory
    BY DEF Coalesces, Partition
  <2>1. LargePiece(b) \in FreePieces(h) /\ LargePiece(b).at = b.at /\ LargePiece(b).n = b.n
    BY <1>1, FreeKinds DEF LargePieces, LargePiece
  <2>2. b.at \in Nat /\ b.n \in Nat /\ b.n # 0
    BY <1>1 DEF Heap
  <2>3. b.at + b.n <= h.end
    BY <2>1, <2>2, Ends
  <2>. QED  BY <1>1, <2>2, <2>3
<1>. QED  BY <1>1, <1>9, <1>10, <1>11, <1>12 DEF Partition
LEMMA BestFitFits ==
    ASSUME NEW h \in Heap, NEW need \in Nat, Fits(h, need) # {}
    PROVE  BestFit(h, need) \in Fits(h, need)
<1>. DEFINE F == Fits(h, need)
            Sizes == {b.n : b \in F}
<1>1. \A b \in F : b \in h.large /\ b.n \in Nat /\ b.at \in Nat
  BY DEF Fits, Heap
<1>2. Sizes # {} /\ Sizes \in SUBSET Nat
  BY <1>1
<1>3. PICK n \in Sizes : \A k \in Sizes : n <= k
  BY <1>2, Least
<1>. DEFINE Spots == {b.at : b \in {c \in F : c.n = n}}
<1>4. Spots # {} /\ Spots \in SUBSET Nat
  BY <1>1
<1>5. PICK at \in Spots : \A k \in Spots : at <= k
  BY <1>4, Least
<1>6. PICK b \in F : b.n = n /\ b.at = at
  BY <1>5
<1>7. \A c \in F : b.n < c.n \/ (b.n = c.n /\ b.at <= c.at)
  BY <1>1, <1>3, <1>5, <1>6
<1>. QED  BY <1>6, <1>7 DEF BestFit

LEMMA TakesLarge ==
    ASSUME NEW H, NEW h, NEW W, NEW O, Partition(H, h, W, O),
           NEW need \in Nat \ {0}, Fits(h, need) # {},
           NEW g \in Heap, g.small = h.small, g.large = TakeLarge(h, need).large,
           g.bump = h.bump, g.end = h.end,
           NEW x, Kind(x) = "held", x.at = BestFit(h, need).at, x.n = need
    PROVE  Partition(H \cup {x}, g, W, O) /\ x.at > 0
<1>. DEFINE b == BestFit(h, need)
            e == [at |-> b.at + need, n |-> b.n - need]
            y == LargePiece(b)
            r == LargePiece(e)
<1>1. h \in Heap /\ h.bump <= h.end /\ g.bump <= g.end
  BY DEF Partition
<1>2. b \in h.large /\ b.n >= need /\ b.at \in Nat /\ b.n \in Nat
  BY <1>1, BestFitFits DEF Fits, Heap
<1>3. y.at = b.at /\ y.n = b.n /\ r.at = e.at /\ r.n = e.n /\ e.at = b.at + need /\ e.n = b.n - need
  BY DEF LargePiece
<1>4. y \in LargePieces(h) /\ y \in FreePieces(h) /\ y \notin H
  BY <1>1, <1>2, FreeKinds, Separate DEF LargePieces
<1>5. SmallsOf(g) = SmallsOf(h) /\ BumpPiece(g) = BumpPiece(h)
  BY SmallsSame DEF BumpPiece
<1>6. x.at > 0
  BY <1>2, <1>3, <1>4, Ends
<1>7. (\A z \in H \cup {x} : Kind(z) = "held" /\ z.n > 0) /\ O \subseteq 1 .. (g.end - 1)
  BY DEF Partition
<1>10. ASSUME NEW M, g.large = (h.large \ {b}) \cup M
       PROVE  LargePieces(g) = (LargePieces(h) \ {y}) \cup {LargePiece(c) : c \in M}
  BY <1>1, <1>2, <1>10, LargeTaken
<1>8. CASE b.n = need
  <2>1. g.large = h.large \ {b}
    BY <1>1, <1>2, <1>8 DEF TakeLarge, Heap
  <2>2. LargePieces(g) = LargePieces(h) \ {y}
    <3>1. g.large = (h.large \ {b}) \cup {}
      BY <2>1
    <3>2. LargePieces(g) = (LargePieces(h) \ {y}) \cup {LargePiece(c) : c \in {}}
      BY <3>1, <1>10
    <3>. QED  BY <3>2
  <2>3. FreePieces(g) = FreePieces(h) \ {y}
    BY <1>1, <1>4, <1>5, <2>2, FreeKinds, Separate
  <2>4. Parts(((H \cup FreePieces(h)) \ {y}) \cup {x}, W, O)
    BY <1>3, <1>4, <1>8, Replaced
  <2>5. ((H \cup FreePieces(h)) \ {y}) \cup {x} = (H \cup {x}) \cup FreePieces(g)
    BY <1>4, <2>3
  <2>6. Coalesces(g)
    BY <2>1 DEF Partition, Coalesces
  <2>. QED  BY <1>1, <1>6, <1>7, <2>4, <2>5, <2>6 DEF Partition
<1>9. CASE b.n # need
  <2>1. g.large = (h.large \ {b}) \cup {e}
    BY <1>1, <1>2, <1>9 DEF TakeLarge, Heap
  <2>2. LargePieces(g) = (LargePieces(h) \ {y}) \cup {r}
    <3>1. LargePieces(g) = (LargePieces(h) \ {y}) \cup {LargePiece(c) : c \in {e}}
      BY <2>1, <1>10
    <3>. QED  BY <3>1
  <2>3. FreePieces(g) = (FreePieces(h) \ {y}) \cup {r}
    BY <1>1, <1>4, <1>5, <2>2, FreeKinds, Separate
  <2>4. Parts(((H \cup FreePieces(h)) \ {y}) \cup {x, r}, W, O)
    <3>1. /\ x.n \in Nat \ {0} /\ r.n \in Nat /\ x.n + r.n = y.n /\ r.n > 0
          /\ x.at = y.at /\ r.at = y.at + x.n
      BY <1>2, <1>3, <1>9
    <3>. HIDE DEF y, r
    <3>. QED  BY <1>4, <3>1, Split
  <2>5. ((H \cup FreePieces(h)) \ {y}) \cup {x, r} = (H \cup {x}) \cup FreePieces(g)
    BY <1>4, <2>3
  <2>6. Coalesces(g)
    <3>1. /\ \A c \in h.large : c.at + c.n # h.bump /\ c.at \in Nat /\ c.n \in Nat \ {0}
          /\ \A c, d \in h.large : c.at + c.n # d.at
      BY <1>1 DEF Partition, Coalesces, Heap
    <3>2. e.at + e.n = b.at + b.n /\ e.at > b.at /\ e.n > 0 /\ e.at \in Nat
      BY <1>2, <1>3, <1>9
    <3>3. ASSUME NEW c \in h.large, c # b PROVE c.at + c.n # e.at
      <4>1. LargePiece(c) # y /\ LargePiece(c) \in FreePieces(h)
        <5>1. LargePiece(c).at = c.at /\ LargePiece(c).n = c.n
          BY DEF LargePiece
        <5>2. c.at # b.at \/ c.n # b.n
          BY <1>1, <1>2, <3>3 DEF Heap
        <5>. QED  BY <1>1, <1>3, <5>1, <5>2, FreeKinds DEF LargePieces
      <4>2. Apart(LargePiece(c), y)
        BY <1>4, <4>1 DEF Partition, Parts
      <4>3. c.at + c.n <= b.at \/ b.at + b.n <= c.at
        BY <4>2 DEF Apart, LargePiece
      <4>. QED  BY <1>2, <1>3, <1>9, <3>1, <3>2, <4>3
    <3>4. \A c \in g.large : c = e \/ (c \in h.large /\ c # b)
      BY <2>1
    <3>5. e.at + e.n # h.bump /\ e.at + e.n # e.at /\ \A d \in h.large : e.at + e.n # d.at
      BY <1>2, <3>1, <3>2
    <3>. HIDE DEF e
    <3>. QED  BY <3>1, <3>3, <3>4, <3>5 DEF Coalesces
  <2>. QED  BY <1>1, <1>6, <1>7, <2>4, <2>5, <2>6 DEF Partition
<1>. QED  BY <1>8, <1>9

\* A freed block with the free blocks before and after it, and no other free block
\* touches the two of them.
LEMMA MergedIs ==
    ASSUME NEW H, NEW h, NEW W, NEW O, NEW x \in H, Partition(H, h, W, O),
           NEW T, T = Touching(h, x.at, x.n), NEW m, m = Merged(h, x.at, x.n)
    PROVE  /\ m \in [at : Nat, n : Nat \ {0}] /\ m.at + m.n <= h.end
           /\ T \subseteq h.large
           /\ \A g \in Nat : m.at <= g /\ g < m.at + m.n <=>
                  \/ x.at <= g /\ g < x.at + x.n
                  \/ \E b \in T : b.at <= g /\ g < b.at + b.n
           /\ \A c \in h.large \ T : c.at + c.n # m.at /\ m.at + m.n # c.at
<1>. DEFINE before == {b \in h.large : b.at + b.n = x.at}
            after == {b \in h.large : x.at + x.n = b.at}
            first == IF before = {} THEN x.at ELSE (CHOOSE b \in before : TRUE).at
            past == IF after = {} THEN x.at + x.n
                    ELSE LET b == CHOOSE b \in after : TRUE IN b.at + b.n
<1>1. m = [at |-> first, n |-> past - first]
  BY DEF Merged
<1>2. T = before \cup after
  BY DEF Touching
<1>3. /\ h \in Heap /\ h.bump <= h.end /\ x.n # 0 /\ h.end \in Nat
      /\ \A b, c \in h.large : b.at + b.n # c.at
  BY DEF Partition, Coalesces, Heap
<1>4. x.at \in Nat /\ x.n \in Nat /\ x.at + x.n <= h.end
  BY <1>3, Ends
<1>5. \A b \in h.large : b.at \in Nat /\ b.n \in Nat \ {0} /\ b = [at |-> b.at, n |-> b.n]
  BY <1>3 DEF Heap
<1>6. \A b \in h.large : b.at + b.n <= h.end
  <2>. SUFFICES ASSUME NEW b \in h.large PROVE b.at + b.n <= h.end
    OBVIOUS
  <2>1. LargePiece(b) \in FreePieces(h) /\ LargePiece(b).at = b.at /\ LargePiece(b).n = b.n
    BY <1>3, FreeKinds DEF LargePieces, LargePiece
  <2>. QED  BY <1>5, <2>1, Ends
<1>7. ASSUME NEW b \in h.large, NEW c \in h.large
      PROVE  b = c \/ b.at + b.n <= c.at \/ c.at + c.n <= b.at
  <2>1. LargePiece(b) \in FreePieces(h) /\ LargePiece(c) \in FreePieces(h)
    BY <1>3, FreeKinds DEF LargePieces
  <2>2. LargePiece(b) = LargePiece(c) \/ Apart(LargePiece(b), LargePiece(c))
    BY <2>1 DEF Partition, Parts
  <2>. QED  BY <1>5, <2>2 DEF Apart, LargePiece
<1>8. \A b, c \in before : b = c
  BY <1>5, <1>7
<1>9. \A b, c \in after : b = c
  BY <1>5, <1>7
<1>10. /\ before = {} => first = x.at
       /\ \A b \in before : first = b.at /\ b.at + b.n = x.at
  BY <1>8
<1>11. /\ after = {} => past = x.at + x.n
       /\ \A b \in after : past = b.at + b.n /\ b.at = x.at + x.n
  BY <1>9
<1>12. first \in Nat /\ first <= x.at /\ past \in Nat /\ x.at + x.n <= past /\ past <= h.end
  BY <1>4, <1>5, <1>6, <1>10, <1>11
<1>13. ASSUME NEW g \in Nat
       PROVE  first <= g /\ g < past <=> \/ x.at <= g /\ g < x.at + x.n
                                         \/ \E b \in T : b.at <= g /\ g < b.at + b.n
  <2>. HIDE DEF first, past
  <2>1. ASSUME first <= g, g < x.at PROVE \E b \in T : b.at <= g /\ g < b.at + b.n
    BY <1>2, <1>4, <1>10, <2>1
  <2>2. ASSUME x.at + x.n <= g, g < past PROVE \E b \in T : b.at <= g /\ g < b.at + b.n
    BY <1>2, <1>4, <1>11, <2>2
  <2>3. ASSUME NEW b \in T, b.at <= g, g < b.at + b.n PROVE first <= g /\ g < past
    BY <1>2, <1>4, <1>5, <1>10, <1>11, <1>12, <2>3
  <2>. QED  BY <1>4, <1>12, <2>1, <2>2, <2>3
<1>14. ASSUME NEW c \in h.large \ T PROVE c.at + c.n # first /\ past # c.at
  <2>. HIDE DEF first, past
  <2>1. c.at + c.n # x.at /\ x.at + x.n # c.at
    BY <1>2
  <2>. QED  BY <1>3, <1>10, <1>11, <2>1
<1>15. m.at = first /\ m.at + m.n = past /\ m \in [at : Nat, n : Nat \ {0}]
  BY <1>1, <1>3, <1>4, <1>12
<1>16. T \subseteq h.large
  BY <1>2
<1>. HIDE DEF first, past
<1>. QED  BY <1>12, <1>13, <1>14, <1>15, <1>16
\* A freed block and what it touches become one free block, or go back to the bump
\* region.
LEMMA PutsLarge ==
    ASSUME NEW H, NEW h, NEW W, NEW O, NEW x, x \notin H, Partition(H \cup {x}, h, W, O),
           NEW T, T = Touching(h, x.at, x.n), NEW m, m = Merged(h, x.at, x.n),
           NEW g \in Heap, g.small = h.small, g.end = h.end,
           IF m.at + m.n = h.bump THEN g.large = h.large \ T /\ g.bump = m.at
                                  ELSE g.large = (h.large \ T) \cup {m} /\ g.bump = h.bump
    PROVE  Partition(H, g, W, O)
<1>. DEFINE S == (H \cup {x}) \cup FreePieces(h)
            LT == {LargePiece(b) : b \in T}
<1>1. /\ m.at \in Nat /\ m.n \in Nat \ {0} /\ m.at + m.n <= h.end /\ T \subseteq h.large
      /\ \A e \in Nat : m.at <= e /\ e < m.at + m.n <=>
             \/ x.at <= e /\ e < x.at + x.n
             \/ \E b \in T : b.at <= e /\ e < b.at + b.n
      /\ \A c \in h.large \ T : c.at + c.n # m.at /\ m.at + m.n # c.at
  BY MergedIs
<1>2. /\ h \in Heap /\ h.bump <= h.end /\ h.bump \in Nat /\ h.end \in Nat /\ x.n # 0
      /\ Parts(S, W, O) /\ O \subseteq 1 .. (h.end - 1)
  BY DEF Partition, Heap
<1>3. W \subseteq Nat /\ Cover(S) \cap W = {}
  BY <1>2 DEF Parts
<1>4. x.at \in Nat /\ x.n \in Nat
  BY Ends
<1>5. \A b \in h.large : b.at \in Nat /\ b.n \in Nat \ {0}
  BY <1>2 DEF Heap
<1>6. /\ FreePieces(h) = SmallsOf(h) \cup LargePieces(h) \cup {BumpPiece(h)}
      /\ LT \subseteq LargePieces(h)
  BY <1>1, <1>2, FreeKinds DEF LargePieces
<1>7. \A e : e \in Cover({x} \cup LT) <=> e \in Nat /\ m.at <= e /\ e < m.at + m.n
  <2>1. ASSUME NEW b \in T
        PROVE  \A e : e \in Of(LargePiece(b)) <=> e \in Nat /\ b.at <= e /\ e < b.at + b.n
    <3>1. LargePiece(b).at = b.at /\ LargePiece(b).n = b.n /\ b.at \in Nat /\ b.n \in Nat
      BY <1>1, <1>5 DEF LargePiece
    <3>. QED  BY <3>1, CoverOf
  <2>2. \A e : e \in Of(x) <=> e \in Nat /\ x.at <= e /\ e < x.at + x.n
    BY <1>4, CoverOf
  <2>3. \A e : e \in Cover({x} \cup LT) <=> e \in Of(x) \/ \E b \in T : e \in Of(LargePiece(b))
    BY CoverOf
  <2>. QED  BY <1>1, <2>1, <2>2, <2>3
<1>8. SmallsOf(g) = SmallsOf(h) /\ g.bump <= g.end
  BY <1>1, <1>2, SmallsSame
<1>9. FreePieces(g) = SmallsOf(h) \cup LargePieces(g) \cup {BumpPiece(g)}
  BY <1>8, FreeKinds
<1>10. /\ (H \cup {x}) \cap FreePieces(h) = {}
       /\ SmallsOf(h) \cap (LargePieces(h) \cup {BumpPiece(h)}) = {}
       /\ LargePieces(h) \cap {BumpPiece(h)} = {}
  BY Separate
<1>11. (\A z \in H : Kind(z) = "held" /\ z.n > 0) /\ O \subseteq 1 .. (g.end - 1)
  BY DEF Partition
<1>12. \A c \in h.large : c.at + c.n # h.bump /\ \A d \in h.large : c.at + c.n # d.at
  BY DEF Partition, Coalesces
<1>13. CASE m.at + m.n = h.bump
  <2>. DEFINE y == BumpPiece(h)
              r == BumpPiece(g)
              Gone == {x} \cup LT \cup {y}
  <2>1. /\ y.at = h.bump /\ y.n = h.end - h.bump /\ r.at = m.at /\ r.n = h.end - m.at
        /\ r.at \in Nat /\ r.n \in Nat /\ r.n # 0
    BY <1>1, <1>2, <1>13 DEF BumpPiece
  <2>2. Cover({r}) = Cover(Gone)
    <3>1. \A e : e \in Of(r) <=> e \in Nat /\ m.at <= e /\ e < h.end
      BY <1>2, <2>1, CoverOf
    <3>2. \A e : e \in Of(y) <=> e \in Nat /\ h.bump <= e /\ e < h.end
      BY <1>2, <2>1, CoverOf
    <3>3. Cover(Gone) = Cover({x} \cup LT) \cup Of(y) /\ Cover({r}) = Of(r)
      BY CoverSmall DEF Cover
    <3>4. Of(r) \subseteq Cover({x} \cup LT) \cup Of(y)
      BY <1>1, <1>2, <1>7, <1>13, <3>1, <3>2
    <3>5. Cover({x} \cup LT) \cup Of(y) \subseteq Of(r)
      BY <1>1, <1>2, <1>7, <1>13, <3>1, <3>2
    <3>. QED  BY <3>3, <3>4, <3>5
  <2>3. Gone \subseteq S
    BY <1>6
  <2>4. Cover({r}) \cap W = {}
    BY <1>3, <2>2, <2>3, CoverOf
  <2>5. \A a \in {r}, z \in S \ Gone : a.n = 0 \/ z.n = 0 => Apart(a, z)
    BY <2>1, Ends
  <2>6. (\A a, b \in {r} : a = b \/ Apart(a, b)) /\ Sized({r})
    BY <2>1 DEF Sized
  <2>7. Parts((S \ Gone) \cup {r}, W, O \cup {})
    <3>. HIDE DEF S, Gone, r
    <3>. QED  BY <1>2, <1>3, <2>2, <2>3, <2>4, <2>5, <2>6, Regrouped
  <2>8. LargePieces(g) = LargePieces(h) \ LT
    BY <1>1, <1>2, <1>13, LargeTags DEF LargePieces
  <2>9. (S \ Gone) \cup {r} = H \cup FreePieces(g)
    BY <1>6, <1>9, <1>10, <2>8
  <2>10. Coalesces(g)
    BY <1>1, <1>12, <1>13 DEF Coalesces
  <2>. QED  BY <1>8, <1>11, <2>7, <2>9, <2>10 DEF Partition
<1>14. CASE m.at + m.n # h.bump
  <2>. DEFINE r == LargePiece(m)
              Gone == {x} \cup LT
  <2>1. r.at = m.at /\ r.n = m.n
    BY DEF LargePiece
  <2>2. Cover({r}) = Cover(Gone)
    <3>1. \A e : e \in Of(r) <=> e \in Nat /\ m.at <= e /\ e < m.at + m.n
      BY <1>1, <2>1, CoverOf
    <3>. QED  BY <1>7, <3>1, CoverSmall
  <2>3. Gone \subseteq S
    BY <1>6
  <2>4. Cover({r}) \cap W = {}
    BY <1>3, <2>2, <2>3, CoverOf
  <2>5. \A a \in {r}, z \in S \ Gone : a.n = 0 \/ z.n = 0 => Apart(a, z)
    <3>. SUFFICES ASSUME NEW z \in S \ Gone, z.n = 0 PROVE Apart(r, z)
      BY <1>1, <2>1
    <3>1. z.at = h.end
      BY Ends
    <3>. QED  BY <1>1, <2>1, <3>1 DEF Apart
  <2>6. (\A a, b \in {r} : a = b \/ Apart(a, b)) /\ Sized({r})
    BY <1>1, <2>1 DEF Sized
  <2>7. Parts((S \ Gone) \cup {r}, W, O \cup {})
    <3>. HIDE DEF S, Gone, r
    <3>. QED  BY <1>2, <1>3, <2>2, <2>3, <2>4, <2>5, <2>6, Regrouped
  <2>8. LargePieces(g) = (LargePieces(h) \ LT) \cup {r} /\ BumpPiece(g) = BumpPiece(h)
    <3>1. BumpPiece(g) = BumpPiece(h)
      BY <1>14 DEF BumpPiece
    <3>. QED  BY <1>1, <1>2, <1>14, <3>1, LargeTags DEF LargePieces
  <2>9. (S \ Gone) \cup {r} = H \cup FreePieces(g)
    BY <1>6, <1>9, <1>10, <2>8
  <2>10. Coalesces(g)
    <3>1. m.at + m.n # m.at
      BY <1>1
    <3>. QED  BY <1>1, <1>12, <1>14, <3>1 DEF Coalesces
  <2>. QED  BY <1>8, <1>11, <2>7, <2>9, <2>10 DEF Partition
<1>. QED  BY <1>13, <1>14
-----------------------------------------------------------------------------
(* alloc_impl and dealloc_impl.                                             *)

LEMMA HeapFields ==
    ASSUME NEW h \in Heap
    PROVE  /\ h.small \in [Classes -> Seq(Nat)] /\ h.large \in SUBSET [at : Nat, n : Nat \ {0}]
           /\ h.bump \in Nat /\ h.end \in Nat /\ h.allocated \in Int
           /\ h = [small |-> h.small, large |-> h.large, bump |-> h.bump, end |-> h.end,
                   allocated |-> h.allocated]
BY DEF Heap

LEMMA BumpedIs ==
    ASSUME NEW h \in Heap, NEW n \in Nat
    PROVE  /\ Bumped(h, n) \in Heap /\ Bumped(h, n).small = h.small /\ Bumped(h, n).large = h.large
           /\ Bumped(h, n).bump = h.bump + n /\ Bumped(h, n).end = h.end
<1>1. Bumped(h, n) = [small |-> h.small, large |-> h.large, bump |-> h.bump + n, end |-> h.end,
                      allocated |-> h.allocated]
  BY HeapFields DEF Bumped
<1>2. h.bump + n \in Nat
  BY HeapFields
<1>. QED  BY <1>1, <1>2, HeapFields DEF Heap

LEMMA GrowIs ==
    ASSUME NEW h \in Heap, NEW n \in Nat, memory \in Nat, Growth(n) \in Nat
    PROVE  /\ Grow(h, n) \in Heap /\ Grow(h, n).small = h.small /\ Grow(h, n).large = h.large
           /\ Grow(h, n).bump = (IF memory = h.end THEN h.bump ELSE memory)
           /\ Grow(h, n).end = memory + Growth(n)
<1>. DEFINE b == IF memory = h.end THEN h.bump ELSE memory
            e == memory + Growth(n)
<1>1. Grow(h, n) = [small |-> h.small, large |-> h.large, bump |-> b, end |-> e,
                    allocated |-> h.allocated]
  <2>1. Grow(h, n) = [h EXCEPT !.bump = b, !.end = e]
    BY DEF Grow
  <2>. HIDE DEF b, e
  <2>. QED  BY <2>1, HeapFields
<1>2. b \in Nat /\ e \in Nat
  BY HeapFields
<1>. HIDE DEF b, e
<1>3. /\ Grow(h, n) \in Heap /\ Grow(h, n).small = h.small /\ Grow(h, n).large = h.large
      /\ Grow(h, n).bump = b /\ Grow(h, n).end = e
  BY <1>1, <1>2, HeapFields DEF Heap
<1>. QED  BY <1>3 DEF b, e

LEMMA CountedIs ==
    ASSUME NEW h \in Heap, NEW mem, NEW at, NEW k \in Int, NEW o, o = Counted(Outcome(h, mem, at), k)
    PROVE  /\ o.at = at /\ o.memory = mem /\ o.heap \in Heap
           /\ o.heap.small = h.small /\ o.heap.large = h.large
           /\ o.heap.bump = h.bump /\ o.heap.end = h.end
           /\ at = Null => o.heap = h
<1>1. CASE at = Null
  BY <1>1 DEF Counted, Outcome
<1>2. CASE at # Null
  <2>1. o.at = at /\ o.memory = mem /\ o.heap = [h EXCEPT !.allocated = @ + k]
    BY <1>2 DEF Counted, Outcome
  <2>2. o.heap = [small |-> h.small, large |-> h.large, bump |-> h.bump, end |-> h.end,
                  allocated |-> h.allocated + k]
    BY <2>1, HeapFields
  <2>3. h.allocated + k \in Int
    BY HeapFields
  <2>4. /\ o.heap \in Heap /\ o.heap.small = h.small /\ o.heap.large = h.large
        /\ o.heap.bump = h.bump /\ o.heap.end = h.end
    BY <2>2, <2>3, HeapFields DEF Heap
  <2>. QED  BY <1>2, <2>1, <2>4
<1>. QED  BY <1>1, <1>2

\* A call that finds room turns it into a held block; one that finds none changes
\* nothing.
AllocKept(h, o, x, H, W, O) ==
    /\ o.heap \in Heap /\ o.memory \in Nat /\ o.at \in Nat
    /\ o.heap.end <= o.memory /\ memory <= o.memory
    /\ o.at = Null => o.heap = h
    /\ o.at # Null => Partition(H \cup {x}, o.heap, W \cup Dropped(h, o), O \cup Gained(h, o))

LEMMA CarveKeeps ==
    ASSUME NEW H, NEW h, NEW W, NEW O, Partition(H, h, W, O), h.end <= memory, memory \in Nat \ {0},
           NEW n \in Nat \ {0}, NEW o, o = Counted(Carve(h, n), n),
           NEW x, Kind(x) = "held", x.at = o.at, x.n = n
    PROVE  AllocKept(h, o, x, H, W, O)
<1>1. h \in Heap /\ h.bump <= h.end /\ h.bump \in Nat /\ h.end \in Nat /\ Growth(n) \in Nat /\ Growth(n) >= n
  BY GrowthCovers DEF Partition, Heap
<1>2. CASE h.bump + n <= h.end
  <2>1. Bumped(h, n) \in Heap /\ Bumped(h, n).small = h.small /\ Bumped(h, n).large = h.large
        /\ Bumped(h, n).bump = h.bump + n /\ Bumped(h, n).end = h.end
    BY <1>1, BumpedIs
  <2>2. o = Counted(Outcome(Bumped(h, n), memory, h.bump), n)
    BY <1>2 DEF Carve
  <2>3. /\ o.at = h.bump /\ o.memory = memory /\ o.heap \in Heap
        /\ o.heap.small = h.small /\ o.heap.large = h.large
        /\ o.heap.bump = h.bump + n /\ o.heap.end = h.end
    BY <2>1, <2>2, CountedIs
  <2>4. Partition(H \cup {x}, o.heap, W, O) /\ x.at > 0
    BY <1>2, <2>3, Carves
  <2>5. Dropped(h, o) = {} /\ Gained(h, o) = {}
    BY <2>3 DEF Dropped, Gained
  <2>. QED  BY <1>1, <2>3, <2>4, <2>5 DEF AllocKept, Null
<1>3. CASE ~(h.bump + n <= h.end) /\ memory + Growth(n) >= Space
  <2>1. \E mem \in {memory, Space} : mem \in Nat /\ memory <= mem
                                    /\ o = Counted(Outcome(h, mem, Null), n)
    BY <1>1, <1>3, AllocAssumption DEF Carve
  <2>2. o.at = Null /\ o.memory \in Nat /\ memory <= o.memory /\ o.heap = h
    BY <1>1, <2>1, CountedIs
  <2>. QED  BY <1>1, <2>2 DEF AllocKept, Null
<1>4. CASE ~(h.bump + n <= h.end) /\ memory + Growth(n) < Space
  <2>. DEFINE g == Grow(h, n)
              Lost == IF memory # h.end THEN h.bump .. (h.end - 1) ELSE {}
  <2>1. /\ g \in Heap /\ g.small = h.small /\ g.large = h.large
        /\ g.bump = (IF memory = h.end THEN h.bump ELSE memory) /\ g.end = memory + Growth(n)
    BY <1>1, GrowIs
  <2>2. Partition(H, g, W \cup Lost, O \cup (memory .. (g.end - 1)))
    <3>. HIDE DEF g
    <3>. QED  BY <1>1, <2>1, Grows
  <2>3. g.bump + n <= g.end /\ g.bump \in Nat /\ g.end \in Nat
    BY <1>1, <2>1
  <2>4. Bumped(g, n) \in Heap /\ Bumped(g, n).small = g.small /\ Bumped(g, n).large = g.large
        /\ Bumped(g, n).bump = g.bump + n /\ Bumped(g, n).end = g.end
    <3>. HIDE DEF g
    <3>. QED  BY <2>1, BumpedIs
  <2>5. o = Counted(Outcome(Bumped(g, n), memory + Growth(n), g.bump), n)
    BY <1>1, <1>4, AllocAssumption DEF Carve
  <2>. HIDE DEF g
  <2>6. /\ o.at = g.bump /\ o.memory = memory + Growth(n) /\ o.heap \in Heap
        /\ o.heap.small = g.small /\ o.heap.large = g.large
        /\ o.heap.bump = g.bump + n /\ o.heap.end = g.end
    BY <2>4, <2>5, CountedIs
  <2>7. Partition(H \cup {x}, o.heap, W \cup Lost, O \cup (memory .. (g.end - 1)))
    <3>. HIDE DEF Lost
    <3>. QED  BY <2>2, <2>3, <2>6, Carves
  <2>8. Dropped(h, o) = Lost /\ Gained(h, o) = memory .. (g.end - 1)
    BY <1>1, <2>1, <2>6 DEF Dropped, Gained
  <2>9. /\ o.memory \in Nat /\ o.at \in Nat
        /\ o.heap.end <= o.memory /\ memory <= o.memory /\ o.at # Null
    <3>1. o.at # 0
      <4>1. CASE memory = h.end
        <5>1. o.at = h.bump /\ Partition(H, h, W, O)
          BY <2>1, <2>6, <4>1
        <5>2. ASSUME h.bump = 0 PROVE FALSE
          <6>1. Of(BumpPiece(h)) \subseteq O /\ O \subseteq 1 .. (h.end - 1) /\ 0 \in Of(BumpPiece(h))
            <7>1. BumpPiece(h).at = 0 /\ BumpPiece(h).n = h.end /\ h.end > 0
              BY <1>1, <4>1, <5>2 DEF BumpPiece
            <7>2. BumpPiece(h) \in FreePieces(h)
              BY <1>1, FreeKinds
            <7>3. Of(BumpPiece(h)) \subseteq O
              BY <7>2, Ends
            <7>4. 0 \in Of(BumpPiece(h))
              BY <1>1, <7>1, CoverOf
            <7>5. O \subseteq 1 .. (h.end - 1)
              BY DEF Partition
            <7>. QED  BY <7>3, <7>4, <7>5
          <6>. QED  BY <6>1
        <5>. QED  BY <1>1, <5>1, <5>2
      <4>2. CASE memory # h.end
        BY <2>1, <2>6, <4>2
      <4>. QED  BY <4>1, <4>2
    <3>. QED  BY <1>1, <2>1, <2>3, <2>6, <3>1 DEF Null
  <2>. QED  BY <2>6, <2>7, <2>8, <2>9 DEF AllocKept
<1>. QED  BY <1>1, <1>2, <1>3, <1>4, AllocAssumption

LEMMA AllocKeeps ==
    ASSUME NEW H, NEW h, NEW W, NEW O, Partition(H, h, W, O), h.end <= memory, memory \in Nat \ {0},
           NEW n \in Nat \ {0}, NEW align \in Nat \ {0}, NEW o, o = AllocImpl(h, n, align),
           NEW x, Kind(x) = "held", x.at = o.at, x.n = Held(n, align)
    PROVE  AllocKept(h, o, x, H, W, O)
<1>. DEFINE held == Held(n, align)
            c == ClassOf(n)
<1>1. h \in Heap /\ h.bump <= h.end /\ held \in Nat \ {0}
  BY HeldCovers DEF Partition
<1>2. CASE IsSmall(n, align) /\ h.small[c] # <<>>
  <2>. DEFINE g == [h EXCEPT !.small[c] = Tail(@)]
  <2>1. c \in Classes /\ held = ClassSize(c)
    BY <1>2, ClassFits DEF IsSmall, Held
  <2>2. /\ Head(h.small[c]) \in Nat /\ g \in Heap /\ g.small = [h.small EXCEPT ![c] = Tail(@)]
        /\ g.large = h.large /\ g.bump = h.bump /\ g.end = h.end
    <3>1. h.small[c] \in Seq(Nat)
      BY <1>1, <2>1 DEF Heap
    <3>2. Head(h.small[c]) \in Nat /\ Tail(h.small[c]) \in Seq(Nat)
      BY <1>2, <3>1, HeadTailProperties
    <3>. QED  BY <1>1, <2>1, <3>2 DEF Heap
  <2>3. o = Counted(Outcome(g, memory, Head(h.small[c])), held)
    BY <1>2 DEF AllocImpl
  <2>. HIDE DEF g, c, held
  <2>4. /\ o.at = Head(h.small[c]) /\ o.memory = memory /\ o.heap \in Heap
        /\ o.heap.small = [h.small EXCEPT ![c] = Tail(@)] /\ o.heap.large = h.large
        /\ o.heap.bump = h.bump /\ o.heap.end = h.end
    BY <1>1, <2>2, <2>3, CountedIs
  <2>5. Partition(H \cup {x}, o.heap, W, O) /\ x.at > 0
    <3>1. ASSUME NEW d \in Classes, d = c, NEW k \in Heap, k = o.heap
          PROVE  Partition(H \cup {x}, k, W, O) /\ x.at > 0
      <4>1. h.small[d] # <<>> /\ x.at = Head(h.small[d]) /\ x.n = ClassSize(d)
        BY <1>2, <2>1, <2>4, <3>1 DEF held
      <4>2. k.small = Popped(h, d)
        BY <2>4, <3>1 DEF Popped
      <4>3. k.large = h.large /\ k.bump = h.bump /\ k.end = h.end
        BY <2>4, <3>1
      <4>. QED  BY <4>1, <4>2, <4>3, TakesTop
    <3>. QED  BY <2>1, <2>4, <3>1
  <2>6. Dropped(h, o) = {} /\ Gained(h, o) = {}
    BY <2>4 DEF Dropped, Gained
  <2>. QED  BY <2>2, <2>4, <2>5, <2>6 DEF AllocKept, Null
<1>3. CASE ~(IsSmall(n, align) /\ h.small[c] # <<>>)
           /\ align = 1 /\ ~IsSmall(n, align) /\ Fits(h, held) # {}
  <2>. DEFINE g == TakeLarge(h, held)
  <2>1. BestFit(h, held) \in h.large /\ BestFit(h, held).n >= held
        /\ BestFit(h, held).at \in Nat /\ BestFit(h, held).n \in Nat
    BY <1>1, <1>3, BestFitFits DEF Fits, Heap
  <2>2. g \in Heap /\ g.small = h.small /\ g.bump = h.bump /\ g.end = h.end
    <3>. DEFINE e == [at |-> BestFit(h, held).at + held, n |-> BestFit(h, held).n - held]
                rest == IF BestFit(h, held).n > held THEN {e} ELSE {}
    <3>1. rest \subseteq [at : Nat, n : Nat \ {0}]
      BY <1>1, <2>1
    <3>2. g = [h EXCEPT !.large = (@ \ {BestFit(h, held)}) \cup rest]
      BY DEF TakeLarge
    <3>. HIDE DEF g, rest
    <3>. QED  BY <1>1, <3>1, <3>2 DEF Heap
  <2>3. o = Counted(Outcome(g, memory, BestFit(h, held).at), held)
    BY <1>3 DEF AllocImpl
  <2>. HIDE DEF g, held
  <2>4. /\ o.at = BestFit(h, held).at /\ o.memory = memory /\ o.heap \in Heap
        /\ o.heap.small = h.small /\ o.heap.large = g.large
        /\ o.heap.bump = h.bump /\ o.heap.end = h.end
    BY <1>1, <2>2, <2>3, CountedIs
  <2>5. Partition(H \cup {x}, o.heap, W, O) /\ x.at > 0
    BY <1>1, <1>3, <2>4, TakesLarge DEF held, g
  <2>6. Dropped(h, o) = {} /\ Gained(h, o) = {}
    BY <2>4 DEF Dropped, Gained
  <2>. QED  BY <2>1, <2>4, <2>5, <2>6 DEF AllocKept, Null
<1>4. CASE /\ ~(IsSmall(n, align) /\ h.small[c] # <<>>)
           /\ ~(align = 1 /\ ~IsSmall(n, align) /\ Fits(h, held) # {})
  <2>1. o = Counted(Carve(h, held), held)
    BY <1>4 DEF AllocImpl
  <2>. HIDE DEF held
  <2>. QED  BY <1>1, <2>1, CarveKeeps DEF held
<1>. QED  BY <1>2, <1>3, <1>4

LEMMA DeallocKeeps ==
    ASSUME NEW H, NEW h, NEW W, NEW O, NEW x, x \notin H, Partition(H \cup {x}, h, W, O),
           NEW b \in HeldBlock, b.align = 1 => b.at = b.from,
           x.at = b.from, x.n = Held(b.n, b.align), NEW g, g = DeallocImpl(h, b)
    PROVE  Partition(H, g, W \cup Leaks(b), O) /\ g.end = h.end
<1>. DEFINE held == Held(b.n, b.align)
            c == ClassOf(b.n)
<1>1. /\ h \in Heap /\ h.bump <= h.end /\ held \in Nat \ {0}
      /\ b.n \in Nat \ {0} /\ b.align \in Nat \ {0} /\ b.at \in Nat
  BY HeldCovers DEF Partition, HeldBlock
<1>2. CASE IsSmall(b.n, b.align)
  <2>1. c \in Classes /\ held = ClassSize(c) /\ x.at = b.at /\ b.align = 1
    BY <1>1, <1>2, ClassFits DEF IsSmall, Held
  <2>2. g = [h EXCEPT !.small[c] = <<b.at>> \o @, !.allocated = @ - held]
    BY <1>2 DEF DeallocImpl
  <2>3. Leaks(b) = {}
    BY <2>1 DEF Leaks
  <2>. HIDE DEF c, held
  <2>4. /\ g \in Heap /\ g.small = [h.small EXCEPT ![c] = <<x.at>> \o @]
        /\ g.large = h.large /\ g.bump = h.bump /\ g.end = h.end
    <3>1. h.small[c] \in Seq(Nat) /\ <<b.at>> \in Seq(Nat)
      BY <1>1, <2>1 DEF Heap
    <3>2. <<b.at>> \o h.small[c] \in Seq(Nat)
      BY <3>1, ConcatProperties
    <3>3. [h.small EXCEPT ![c] = <<b.at>> \o @] \in [Classes -> Seq(Nat)] /\ h.allocated - held \in Int
      BY <1>1, <2>1, <3>2, HeapFields
    <3>4. g = [small |-> [h.small EXCEPT ![c] = <<b.at>> \o @], large |-> h.large, bump |-> h.bump,
               end |-> h.end, allocated |-> h.allocated - held]
      BY <1>1, <2>2, HeapFields
    <3>. QED  BY <1>1, <2>1, <3>3, <3>4, HeapFields DEF Heap
  <2>5. Partition(H, g, W, O)
    BY <2>1, <2>4, PushesTop DEF held
  <2>. QED  BY <2>3, <2>4, <2>5
<1>3. CASE b.align > 1
  <2>1. g = h /\ Leaks(b) = Of(x)
    BY <1>1, <1>3 DEF DeallocImpl, IsSmall, Leaks, Of
  <2>. QED  BY <2>1, Leaked
<1>4. CASE ~IsSmall(b.n, b.align) /\ ~(b.align > 1)
  <2>. DEFINE m == Merged(h, x.at, x.n)
              T == Touching(h, x.at, x.n)
              q == PutLarge(h, x.at, x.n)
  <2>1. b.align = 1 /\ x.at = b.at /\ Leaks(b) = {}
    BY <1>1, <1>4 DEF Leaks
  <2>2. g = [q EXCEPT !.allocated = @ - held]
    BY <1>4, <2>1 DEF DeallocImpl
  <2>3. m \in [at : Nat, n : Nat \ {0}] /\ T \subseteq h.large
    BY MergedIs
  <2>4. q = IF m.at + m.n = h.bump THEN [h EXCEPT !.large = @ \ T, !.bump = m.at]
            ELSE [h EXCEPT !.large = (@ \ T) \cup {m}]
    BY DEF PutLarge
  <2>. HIDE DEF m, T, q, held
  <2>5. /\ q \in Heap /\ q.small = h.small /\ q.end = h.end
        /\ IF m.at + m.n = h.bump THEN q.large = h.large \ T /\ q.bump = m.at
                                  ELSE q.large = (h.large \ T) \cup {m} /\ q.bump = h.bump
    BY <1>1, <2>3, <2>4 DEF Heap
  <2>6. g \in Heap /\ g.small = q.small /\ g.end = q.end /\ g.large = q.large /\ g.bump = q.bump
    <3>1. g = [small |-> q.small, large |-> q.large, bump |-> q.bump, end |-> q.end,
               allocated |-> q.allocated - held]
      BY <2>2, <2>5, HeapFields
    <3>2. q.allocated - held \in Int
      BY <1>1, <2>5, HeapFields DEF held
    <3>. QED  BY <2>5, <3>1, <3>2, HeapFields DEF Heap
  <2>7. Partition(H, g, W, O)
    <3>1. T = Touching(h, x.at, x.n) /\ m = Merged(h, x.at, x.n)
      BY DEF T, m
    <3>. QED  BY <2>5, <2>6, <3>1, PutsLarge
  <2>. QED  BY <2>1, <2>5, <2>6, <2>7
<1>. QED  BY <1>2, <1>3, <1>4
-----------------------------------------------------------------------------
(* The inductive invariant: what the heap got is parted among the holders,  *)
(* the free lists, the bump region and the waste, and no two free pieces    *)
(* touch.                                                                   *)

Typed ==
    /\ live \in [Holders -> HeldBlock \cup {Nothing}]
    /\ \A p \in Holders : live[p].align = 1 => live[p].at = live[p].from
    /\ memory \in Nat \ {0} /\ heap.end <= memory

IInv == Typed /\ Partition(HeldPieces, heap, Wasted, owned)

HeldPiece(p, b) == [of |-> <<"held", p>>, at |-> b.from, n |-> Held(b.n, b.align)]

LEMMA HolderIs ==
    ASSUME Typed, NEW p \in Holders, live[p] # Nothing
    PROVE  /\ live[p] \in HeldBlock
           /\ HeldPiece(p, live[p]) \in HeldPieces
           /\ Kind(HeldPiece(p, live[p])) = "held"
BY DEF Typed, HeldPieces, HeldPiece, Holding, HeldBy, Kind

LEMMA HoldersApart ==
    ASSUME NEW p, NEW q, NEW b, NEW c, HeldPiece(p, b) = HeldPiece(q, c)
    PROVE  p = q
BY DEF HeldPiece

\* What the holders hold after one of them is handed or gives up a block.
LEMMA HoldersAfter ==
    ASSUME Typed, NEW p \in Holders, NEW b \in HeldBlock \cup {Nothing},
           live' = [live EXCEPT ![p] = b]
    PROVE  HeldPieces' = (HeldPieces \ {HeldPiece(p, live[p])})
                            \cup (IF b = Nothing THEN {} ELSE {HeldPiece(p, b)})
<1>1. live \in [Holders -> HeldBlock \cup {Nothing}]
  BY DEF Typed
<1>2. Holding' = (Holding \ {p}) \cup (IF b = Nothing THEN {} ELSE {p})
  BY <1>1 DEF Holding
<1>3. \A q \in Holders \ {p} : live'[q] = live[q]
  BY <1>1
<1>4. live'[p] = b
  BY <1>1
<1>5. HeldPieces = {HeldPiece(q, live[q]) : q \in Holding}
  BY DEF HeldPieces, HeldPiece, HeldBy
<1>6. HeldPieces' = {HeldPiece(q, live'[q]) : q \in Holding'}
  BY DEF HeldPieces, HeldPiece, HeldBy
<1>7. {HeldPiece(q, live[q]) : q \in Holding \ {p}} = HeldPieces \ {HeldPiece(p, live[p])}
  BY <1>5, HoldersApart
<1>8. {HeldPiece(q, live'[q]) : q \in Holding \ {p}} = {HeldPiece(q, live[q]) : q \in Holding \ {p}}
  BY <1>3 DEF Holding
<1>9. HeldPieces' = {HeldPiece(q, live'[q]) : q \in Holding \ {p}}
                       \cup (IF b = Nothing THEN {} ELSE {HeldPiece(p, b)})
  BY <1>2, <1>4, <1>6
<1>. QED  BY <1>7, <1>8, <1>9

LEMMA BlockIs ==
    ASSUME NEW n \in Nat \ {0}, NEW align \in Nat \ {0}, NEW at \in Nat
    PROVE  /\ Block(n, align, at) \in HeldBlock /\ Block(n, align, at) # Nothing
           /\ Block(n, align, at).align = align
           /\ align = 1 => Block(n, align, at).at = Block(n, align, at).from
           /\ \A p : HeldPiece(p, Block(n, align, at)).at = at
                     /\ HeldPiece(p, Block(n, align, at)).n = Held(n, align)
<1>1. AlignUp(at, align) \in Nat
  BY AlignedAddress
<1>2. Block(n, align, at).at = IF align > 1 THEN AlignUp(at, align) ELSE at
  BY DEF Block
<1>. QED  BY <1>1, <1>2 DEF Block, HeldBlock, Nothing, HeldPiece

LEMMA AhiruAllocKeeps ==
    ASSUME IInv, NEW p \in Holders, NEW n \in Nat \ {0}, NEW align \in Nat \ {0},
           AhiruAlloc(p, n, align)
    PROVE  IInv'
<1>. DEFINE o == AllocImpl(heap, n, align)
            b == Block(n, align, o.at)
            x == HeldPiece(p, b)
<1>1. /\ live[p] = Nothing /\ heap' = o.heap /\ memory' = o.memory
      /\ live' = IF o.at = Null THEN live ELSE [live EXCEPT ![p] = b]
      /\ owned' = owned \cup Gained(heap, o) /\ discarded' = discarded \cup Dropped(heap, o)
      /\ leaked' = leaked
  BY DEF AhiruAlloc, Account
<1>2. Typed /\ Partition(HeldPieces, heap, Wasted, owned) /\ memory \in Nat \ {0} /\ heap.end <= memory
  BY DEF IInv, Typed
<1>3. ASSUME NEW y, Kind(y) = "held", y.at = o.at, y.n = Held(n, align)
      PROVE  AllocKept(heap, o, y, HeldPieces, Wasted, owned)
  <2>. HIDE DEF o
  <2>. QED  BY <1>2, <1>3, AllocKeeps DEF o
<1>4. o.heap.end <= o.memory /\ o.memory \in Nat /\ memory <= o.memory /\ o.at \in Nat
  <2>. DEFINE y == [of |-> <<"held">>, at |-> o.at, n |-> Held(n, align)]
  <2>1. Kind(y) = "held" /\ y.at = o.at /\ y.n = Held(n, align)
    BY DEF Kind
  <2>2. AllocKept(heap, o, y, HeldPieces, Wasted, owned)
    <3>. HIDE DEF y, o
    <3>. QED  BY <1>3, <2>1
  <2>. QED  BY <2>2 DEF AllocKept
<1>. HIDE DEF o
<1>5. /\ b \in HeldBlock /\ b # Nothing /\ b.align = align /\ (align = 1 => b.at = b.from)
      /\ x.at = o.at /\ x.n = Held(n, align) /\ Kind(x) = "held"
  <2>1. Kind(x) = "held"
    BY DEF Kind, HeldPiece
  <2>. QED  BY <1>4, <2>1, BlockIs
<1>6. AllocKept(heap, o, x, HeldPieces, Wasted, owned)
  <2>. HIDE DEF x
  <2>. QED  BY <1>3, <1>5
<1>. HIDE DEF b
<1>7. Wasted' = Wasted \cup Dropped(heap, o)
  BY <1>1 DEF Wasted
<1>8. CASE o.at = Null
  <2>1. heap' = heap /\ live' = live /\ Gained(heap, o) = {} /\ Dropped(heap, o) = {}
    BY <1>1, <1>6, <1>8 DEF AllocKept, Gained, Dropped
  <2>2. HeldPieces' = HeldPieces /\ Wasted' = Wasted /\ owned' = owned
    BY <1>1, <1>7, <2>1 DEF HeldPieces, Holding, HeldBy
  <2>3. Typed'
    BY <1>1, <1>2, <1>4, <2>1 DEF Typed
  <2>. QED  BY <1>2, <2>1, <2>2, <2>3 DEF IInv
<1>9. CASE o.at # Null
  <2>1. HeldPieces' = HeldPieces \cup {x}
    <3>1. HeldPiece(p, Nothing) \notin HeldPieces
      BY <1>1, HoldersApart DEF HeldPieces, Holding, HeldBy, HeldPiece
    <3>2. live' = [live EXCEPT ![p] = b] /\ b \in HeldBlock \cup {Nothing}
      BY <1>1, <1>5, <1>9
    <3>3. HeldPieces' = (HeldPieces \ {HeldPiece(p, live[p])})
                            \cup (IF b = Nothing THEN {} ELSE {HeldPiece(p, b)})
      BY <1>2, <3>2, HoldersAfter
    <3>. QED  BY <1>1, <1>5, <3>1, <3>3
  <2>2. Partition(HeldPieces \cup {x}, o.heap, Wasted \cup Dropped(heap, o), owned \cup Gained(heap, o))
    BY <1>6, <1>9 DEF AllocKept
  <2>3. Partition(HeldPieces', heap', Wasted', owned')
    <3>. HIDE DEF x
    <3>. QED  BY <1>1, <1>7, <2>1, <2>2
  <2>4. Typed'
    BY <1>1, <1>2, <1>4, <1>5, <1>9 DEF Typed
  <2>. QED  BY <2>3, <2>4 DEF IInv
<1>. QED  BY <1>8, <1>9

LEMMA DeallocStep ==
    ASSUME IInv, NEW p \in Holders, Dealloc(p)
    PROVE  IInv'
<1>. DEFINE b == live[p]
            x == HeldPiece(p, b)
            H == HeldPieces \ {x}
            g == DeallocImpl(heap, b)
<1>1. /\ b # Nothing /\ heap' = g /\ live' = [live EXCEPT ![p] = Nothing]
      /\ leaked' = leaked \cup Leaks(b) /\ UNCHANGED <<memory, owned, discarded>>
  BY DEF Dealloc
<1>2. Typed /\ Partition(HeldPieces, heap, Wasted, owned)
  BY DEF IInv
<1>3. /\ b \in HeldBlock /\ (b.align = 1 => b.at = b.from) /\ x \in HeldPieces
      /\ x.at = b.from /\ x.n = Held(b.n, b.align)
  BY <1>1, <1>2, HolderIs DEF Typed, HeldPiece
<1>4. HeldPieces' = H
  BY <1>1, <1>2, HoldersAfter
<1>5. Wasted' = Wasted \cup Leaks(b)
  BY <1>1 DEF Wasted
<1>6. x \notin H /\ H \cup {x} = HeldPieces
  BY <1>3
<1>7. Partition(H, g, Wasted \cup Leaks(b), owned) /\ g.end = heap.end
  <2>. HIDE DEF H, x, b
  <2>1. Partition(H \cup {x}, heap, Wasted, owned)
    BY <1>2, <1>6
  <2>. QED  BY <1>3, <1>6, <2>1, DeallocKeeps
<1>8. Typed'
  BY <1>1, <1>2, <1>7 DEF Typed, Nothing
<1>9. Partition(HeldPieces', heap', Wasted', owned')
  <2>. HIDE DEF H, g, b
  <2>. QED  BY <1>1, <1>4, <1>5, <1>7
<1>. QED  BY <1>8, <1>9 DEF IInv

LEMMA ReallocInPlaceKeeps ==
    ASSUME IInv, NEW p \in Holders, NEW n \in Nat \ {0}, ReallocInPlace(p, n)
    PROVE  IInv'
<1>. DEFINE b == live[p]
            c == [b EXCEPT !.n = n]
<1>1. /\ b # Nothing /\ SameClass(b, n) /\ live' = [live EXCEPT ![p] = c]
      /\ UNCHANGED <<heap, memory, owned, discarded, leaked>>
  BY DEF ReallocInPlace
<1>2. Typed /\ b \in HeldBlock /\ (b.align = 1 => b.at = b.from)
  BY <1>1, HolderIs DEF IInv, Typed
<1>3. /\ c \in HeldBlock /\ c.n = n /\ c.align = b.align /\ c.at = b.at /\ c.from = b.from
      /\ c # Nothing
  BY <1>2 DEF HeldBlock, Nothing
<1>4. Held(c.n, c.align) = Held(b.n, b.align)
  BY <1>1, <1>2, <1>3 DEF SameClass, Held, IsSmall
<1>. HIDE DEF c
<1>5. HeldPieces' = HeldPieces
  <2>1. HeldPiece(p, c) = HeldPiece(p, b) /\ HeldPiece(p, b) \in HeldPieces
    BY <1>1, <1>2, <1>3, <1>4, HolderIs DEF HeldPiece
  <2>2. HeldPieces' = (HeldPieces \ {HeldPiece(p, live[p])})
                          \cup (IF c = Nothing THEN {} ELSE {HeldPiece(p, c)})
    BY <1>1, <1>2, <1>3, HoldersAfter
  <2>. QED  BY <1>3, <2>1, <2>2
<1>6. Wasted' = Wasted
  BY <1>1 DEF Wasted
<1>7. Typed'
  BY <1>1, <1>2, <1>3 DEF Typed
<1>. QED  BY <1>1, <1>5, <1>6, <1>7 DEF IInv

LEMMA ReallocMovesKeeps ==
    ASSUME IInv, NEW p \in Holders, NEW n \in Nat \ {0}, ReallocMoves(p, n)
    PROVE  IInv'
<1>. DEFINE b == live[p]
            o == AllocImpl(heap, n, b.align)
            d == Block(n, b.align, o.at)
            \* the old block, the new one while both are there, and then
            x == HeldPiece(p, b)
            y == [of |-> <<"held", p, "new">>, at |-> o.at, n |-> Held(n, b.align)]
            z == HeldPiece(p, d)
            g == DeallocImpl(o.heap, b)
            W == Wasted \cup Dropped(heap, o)
            O == owned \cup Gained(heap, o)
            Rest == HeldPieces \ {x}
<1>1. /\ b # Nothing /\ memory' = o.memory
      /\ owned' = O /\ discarded' = discarded \cup Dropped(heap, o)
      /\ IF o.at = Null THEN heap' = o.heap /\ UNCHANGED <<live, leaked>>
         ELSE /\ heap' = g /\ live' = [live EXCEPT ![p] = d]
              /\ leaked' = leaked \cup Leaks(b)
  BY DEF ReallocMoves, Account
<1>2. Typed /\ Partition(HeldPieces, heap, Wasted, owned) /\ memory \in Nat \ {0} /\ heap.end <= memory
  BY DEF IInv, Typed
<1>3. /\ b \in HeldBlock /\ (b.align = 1 => b.at = b.from) /\ x \in HeldPieces
      /\ x.at = b.from /\ x.n = Held(b.n, b.align) /\ b.align \in Nat \ {0}
  BY <1>1, <1>2, HolderIs DEF Typed, HeldPiece, HeldBlock
<1>4. /\ Kind(y) = "held" /\ y.at = o.at /\ y.n = Held(n, b.align)
      /\ y \notin HeldPieces
  BY DEF Kind, HeldPieces
<1>5. AllocKept(heap, o, y, HeldPieces, Wasted, owned)
  <2>. HIDE DEF y, o, b
  <2>. QED  BY <1>2, <1>3, <1>4, AllocKeeps DEF o
<1>6. /\ o.heap.end <= o.memory /\ o.memory \in Nat /\ memory <= o.memory /\ o.at \in Nat
      /\ o.at = Null => o.heap = heap
      /\ o.at # Null => Partition(HeldPieces \cup {y}, o.heap, W, O)
  <2>. HIDE DEF y, o
  <2>. QED  BY <1>5 DEF AllocKept
<1>7. CASE o.at = Null
  <2>. HIDE DEF o
  <2>1. heap' = heap /\ live' = live /\ leaked' = leaked
    BY <1>1, <1>6, <1>7
  <2>2. Gained(heap, o) = {} /\ Dropped(heap, o) = {}
    BY <1>6, <1>7 DEF Gained, Dropped
  <2>3. HeldPieces' = HeldPieces /\ Wasted' = Wasted /\ owned' = owned
    BY <1>1, <2>1, <2>2 DEF HeldPieces, Holding, HeldBy, Wasted
  <2>4. Typed'
    <3>1. heap'.end <= memory' /\ memory' \in Nat \ {0}
      BY <1>1, <1>2, <1>6, <1>7
    <3>. QED  BY <1>2, <2>1, <3>1 DEF Typed
  <2>. QED  BY <1>2, <2>1, <2>3, <2>4 DEF IInv
<1>8. CASE o.at # Null
  <2>1. /\ d \in HeldBlock /\ d # Nothing /\ d.align = b.align /\ (d.align = 1 => d.at = d.from)
        /\ z.at = o.at /\ z.n = Held(n, b.align)
    <3>. HIDE DEF o, b
    <3>. QED  BY <1>3, <1>6, BlockIs
  <2>2. Kind(z) = "held"
    BY DEF Kind, HeldPiece
  <2>3. HeldPieces' = Rest \cup {z}
    <3>. HIDE DEF d, o
    <3>. QED  BY <1>1, <1>2, <1>8, <2>1, HoldersAfter
  <2>4. Wasted' = W \cup Leaks(b)
    BY <1>1, <1>8 DEF Wasted
  <2>. HIDE DEF o, b, d, x, y, z, g, W, O
  <2>5. /\ x \notin Rest \cup {y} /\ (Rest \cup {y}) \cup {x} = HeldPieces \cup {y}
        /\ y \notin Rest
    BY <1>3, <1>4
  <2>6. Partition((Rest \cup {y}) \cup {x}, o.heap, W, O)
    BY <1>6, <1>8, <2>5
  <2>7. Partition(Rest \cup {y}, g, W \cup Leaks(b), O) /\ g.end = o.heap.end
    <3>1. g = DeallocImpl(o.heap, b)
      BY DEF g
    <3>. HIDE DEF Rest
    <3>2. ASSUME NEW R, R = Rest \cup {y}
          PROVE  Partition(R, g, W \cup Leaks(b), O) /\ g.end = o.heap.end
      <4>1. x \notin R /\ Partition(R \cup {x}, o.heap, W, O)
        BY <2>5, <2>6, <3>2
      <4>2. b \in HeldBlock /\ (b.align = 1 => b.at = b.from) /\ x.at = b.from /\ x.n = Held(b.n, b.align)
        BY <1>3
      <4>. QED  BY <3>1, <4>1, <4>2, DeallocKeeps
    <3>. QED  BY <3>2
  <2>8. Partition(Rest \cup {z}, g, W \cup Leaks(b), O)
    BY <1>4, <2>1, <2>2, <2>5, <2>7, NewHolder
  <2>9. Partition(HeldPieces', heap', Wasted', owned')
    BY <1>1, <1>8, <2>3, <2>4, <2>8
  <2>10. Typed'
    BY <1>1, <1>2, <1>6, <1>8, <2>1, <2>7 DEF Typed
  <2>. QED  BY <2>9, <2>10 DEF IInv
<1>. QED  BY <1>7, <1>8

LEMMA InitOK == Init => IInv
<1>. SUFFICES ASSUME Init PROVE IInv
  OBVIOUS
<1>1. /\ heap = EmptyHeap /\ memory = Base /\ owned = {} /\ discarded = {} /\ leaked = {}
      /\ live = [p \in Holders |-> Nothing]
  BY DEF Init
<1>2. /\ heap \in Heap /\ heap.bump = 0 /\ heap.end = 0 /\ heap.large = {}
      /\ \A c \in Classes : heap.small[c] = <<>>
  <2>1. <<>> \in Seq(Nat)
    BY EmptySeq
  <2>. QED  BY <1>1, <2>1 DEF EmptyHeap, Heap
<1>3. HeldPieces = {} /\ Wasted = {}
  BY <1>1 DEF HeldPieces, Holding, Wasted
<1>4. FreePieces(heap) = {BumpPiece(heap)}
  <2>1. \A c \in Classes : SmallPieces(heap, c) = {}
    BY <1>2, EmptySeq DEF SmallPieces
  <2>2. SmallsOf(heap) = {} /\ LargePieces(heap) = {}
    BY <1>2, <2>1 DEF SmallsOf, LargePieces
  <2>. QED  BY <1>2, <2>2, FreeKinds
<1>5. BumpPiece(heap).at = 0 /\ BumpPiece(heap).n = 0
  BY <1>2 DEF BumpPiece
<1>6. Parts(HeldPieces \cup FreePieces(heap), Wasted, owned)
  <2>1. Of(BumpPiece(heap)) = {}
    BY <1>5 DEF Of, Granules
  <2>2. Cover({BumpPiece(heap)}) = {}
    BY <2>1, CoverSmall
  <2>3. HeldPieces \cup FreePieces(heap) = {BumpPiece(heap)}
    BY <1>3, <1>4
  <2>4. Sized({BumpPiece(heap)})
    BY <1>5 DEF Sized
  <2>. QED  BY <1>1, <1>3, <2>2, <2>3, <2>4 DEF Parts
<1>7. Coalesces(heap)
  BY <1>2 DEF Coalesces
<1>8. Partition(HeldPieces, heap, Wasted, owned)
  BY <1>1, <1>2, <1>3, <1>6, <1>7 DEF Partition
<1>9. Typed
  BY <1>1, <1>2, AllocAssumption DEF Typed, Nothing, Null
<1>. QED  BY <1>8, <1>9 DEF IInv

LEMMA Inductive == Spec => []IInv
<1>1. IInv /\ [Next]_vars => IInv'
  <2>. SUFFICES ASSUME IInv, [Next]_vars PROVE IInv'
    OBVIOUS
  <2>1. \A l \in Layouts : l[1] \in Nat \ {0} /\ l[2] \in Nat \ {0}
    BY AllocAssumption
  <2>2. CASE ForeignGrow
    <3>1. /\ memory' = memory + Page /\ UNCHANGED <<heap, live, owned, discarded, leaked>>
      BY <2>2 DEF ForeignGrow
    <3>2. HeldPieces' = HeldPieces /\ Wasted' = Wasted
      BY <3>1 DEF HeldPieces, Holding, HeldBy, Wasted
    <3>3. Typed' /\ Partition(HeldPieces, heap, Wasted, owned)
      <4>1. heap.end \in Nat
        BY DEF IInv, Partition, Heap
      <4>. QED  BY <3>1, <4>1, AllocAssumption DEF IInv, Typed
    <3>. QED  BY <3>1, <3>2, <3>3 DEF IInv
  <2>3. CASE UNCHANGED vars
    <3>1. UNCHANGED <<heap, memory, live, owned, discarded, leaked>>
      BY <2>3 DEF vars
    <3>2. HeldPieces' = HeldPieces /\ Wasted' = Wasted
      BY <3>1 DEF HeldPieces, Holding, HeldBy, Wasted
    <3>. QED  BY <3>1, <3>2 DEF IInv, Typed
  <2>. QED  BY <2>1, <2>2, <2>3, AhiruAllocKeeps, DeallocStep, ReallocInPlaceKeeps,
               ReallocMovesKeeps DEF Next
<1>. QED  BY <1>1, InitOK, PTL DEF Spec
-----------------------------------------------------------------------------
(* No two owners: the blocks that are held, the blocks on the free lists    *)
(* and the region still to be carved share no granule, and none of what was *)
(* set aside is handed out again.                                           *)
THEOREM NoTwoOwners == Spec => []NoOverlap
<1>1. ASSUME IInv PROVE NoOverlap
  <2>1. Parts(Pieces, Wasted, owned)
    BY <1>1 DEF IInv, Partition, Pieces
  <2>2. \A x, y \in Pieces : x = y \/ x.at + x.n <= y.at \/ y.at + y.n <= x.at
    BY <2>1 DEF Parts, Apart
  <2>3. ASSUME NEW x \in Pieces, NEW g \in Wasted PROVE g < x.at \/ g >= x.at + x.n
    <3>1. x.at \in Nat /\ x.n \in Nat /\ g \in Nat
      BY <2>1 DEF Parts, Sized
    <3>2. g \notin Of(x)
      BY <2>1, CoverOf DEF Parts
    <3>. QED  BY <3>1, <3>2, CoverOf
  <2>. QED  BY <2>2, <2>3 DEF NoOverlap
<1>. QED  BY <1>1, Inductive, PTL

(* Every granule memory.grow gave is held, free, to be carved, or one of    *)
(* the two kinds of waste, through any sequence of splits, merges, moves    *)
(* and calls that find no memory.                                           *)
THEOREM NoGranuleLost == Spec => []NothingLost
<1>1. IInv => NothingLost
  BY DEF IInv, Partition, Parts, Pieces, Cover, NothingLost
<1>. QED  BY <1>1, Inductive, PTL

(* No two blocks of the large list touch, and none the bump region.         *)
THEOREM FreeBlocksApart == Spec => []Coalesced
<1>1. IInv => Coalesced
  BY DEF IInv, Partition, Coalesces, Coalesced
<1>. QED  BY <1>1, Inductive, PTL

\* A call that grows memory for a large block has tried the large list and the bump
\* region.
LEMMA GrewInNeed ==
    ASSUME NEW h \in Heap, NEW n \in Nat, n > MaxSmall,
           AllocImpl(h, n, 1).heap.end # h.end
    PROVE  Fits(h, n) = {} /\ ~(h.bump + n <= h.end)
<1>1. MaxSmall \in Nat
  BY SizePositive, AllocAssumption DEF MaxSmall
<1>2. ~IsSmall(n, 1) /\ Held(n, 1) = n
  BY <1>1 DEF IsSmall, Held
<1>3. CASE Fits(h, n) # {}
  <2>1. AllocImpl(h, n, 1) = Counted(Outcome(TakeLarge(h, n), memory, BestFit(h, n).at), n)
    BY <1>2, <1>3 DEF AllocImpl
  <2>2. TakeLarge(h, n).end = h.end
    BY HeapFields DEF TakeLarge
  <2>3. \A q, mem, at : Counted(Outcome(q, mem, at), n).heap.end = q.end
    BY DEF Counted, Outcome
  <2>. QED  BY <2>1, <2>2, <2>3
<1>4. CASE Fits(h, n) = {} /\ h.bump + n <= h.end
  <2>1. AllocImpl(h, n, 1) = Counted(Outcome(Bumped(h, n), memory, h.bump), n)
    BY <1>2, <1>4 DEF AllocImpl, Carve
  <2>2. Bumped(h, n).end = h.end /\ Bumped(h, n) \in Heap
    BY BumpedIs
  <2>. QED  BY <2>1, <2>2, CountedIs
<1>. QED  BY <1>3, <1>4

LEMMA DeallocEnds ==
    ASSUME NEW h \in Heap, NEW b
    PROVE  DeallocImpl(h, b).end = h.end
BY HeapFields DEF DeallocImpl, PutLarge

\* Free pieces that do not touch hold no run longer than the longest of them.
LEMMA NoLongRun ==
    ASSUME NEW H, NEW h, NEW W, NEW O, Partition(H, h, W, O), NEW n \in Nat \ {0},
           Fits(h, n) = {}, ~(h.bump + n <= h.end),
           NEW free, free = Unused(h), NEW at \in free, Granules(at, n) \subseteq free
    PROVE  FALSE
<1>1. h \in Heap /\ h.bump <= h.end /\ h.bump \in Nat /\ h.end \in Nat
  BY HeapFields DEF Partition
<1>2. /\ \A g : g \in Of(BumpPiece(h)) <=> g \in Nat /\ h.bump <= g /\ g < h.end
      /\ \A b \in h.large : /\ b.at \in Nat /\ b.n \in Nat \ {0}
                            /\ \A g : g \in Of(LargePiece(b)) <=> g \in Nat /\ b.at <= g /\ g < b.at + b.n
  <2>1. \A b \in h.large : b.at \in Nat /\ b.n \in Nat \ {0}
    BY <1>1 DEF Heap
  <2>2. BumpPiece(h).at = h.bump /\ BumpPiece(h).n = h.end - h.bump
    BY DEF BumpPiece
  <2>3. \A b : LargePiece(b).at = b.at /\ LargePiece(b).n = b.n
    BY DEF LargePiece
  <2>4. \A g : g \in Of(BumpPiece(h)) <=> g \in Nat /\ h.bump <= g /\ g < h.end
    BY <1>1, <2>2, CoverOf
  <2>. QED  BY <2>1, <2>3, <2>4, CoverOf
<1>3. \A g : g \in free <=> \/ g \in Of(BumpPiece(h))
                            \/ \E b \in h.large : g \in Of(LargePiece(b))
  BY DEF LargePieces, Unused
<1>4. \A b \in h.large : b.at + b.n <= h.end /\ (b.at + b.n <= h.bump \/ h.end <= b.at)
  <2>. SUFFICES ASSUME NEW b \in h.large
                PROVE  b.at + b.n <= h.end /\ (b.at + b.n <= h.bump \/ h.end <= b.at)
    OBVIOUS
  <2>1. /\ LargePiece(b) \in LargePieces(h) /\ LargePiece(b) \in FreePieces(h)
        /\ BumpPiece(h) \in FreePieces(h)
    BY <1>1, FreeKinds DEF LargePieces
  <2>2. LargePiece(b).at = b.at /\ LargePiece(b).n = b.n
        /\ BumpPiece(h).at = h.bump /\ BumpPiece(h).n = h.end - h.bump
    BY DEF LargePiece, BumpPiece
  <2>3. LargePiece(b) # BumpPiece(h)
    BY <2>1, Separate
  <2>4. Apart(LargePiece(b), BumpPiece(h))
    BY <2>1, <2>3 DEF Partition, Parts
  <2>5. b.at + b.n <= h.end
    BY <1>2, <2>1, <2>2, Ends
  <2>. QED  BY <1>1, <1>2, <2>2, <2>4, <2>5 DEF Apart
<1>5. \A b, c \in h.large : b = c \/ b.at + b.n <= c.at \/ c.at + c.n <= b.at
  <2>. SUFFICES ASSUME NEW b \in h.large, NEW c \in h.large
                PROVE  b = c \/ b.at + b.n <= c.at \/ c.at + c.n <= b.at
    OBVIOUS
  <2>1. LargePiece(b) \in FreePieces(h) /\ LargePiece(c) \in FreePieces(h)
    BY <1>1, FreeKinds DEF LargePieces
  <2>2. LargePiece(b) = LargePiece(c) \/ Apart(LargePiece(b), LargePiece(c))
    BY <2>1 DEF Partition, Parts
  <2>. QED  BY <1>1, <2>2, LargeTags DEF Apart, LargePiece
<1>6. at \in Nat /\ \A g \in Nat : at <= g /\ g < at + n => g \in free
  BY <1>2, <1>3 DEF Granules
<1>7. CASE at \in Of(BumpPiece(h))
  <2>1. at <= h.end /\ h.end < at + n
    BY <1>1, <1>2, <1>7
  <2>2. h.end \in free
    BY <1>1, <1>6, <2>1
  <2>3. PICK b \in h.large : b.at <= h.end /\ h.end < b.at + b.n
    BY <1>1, <1>2, <1>3, <2>2
  <2>. QED  BY <1>1, <1>2, <1>4, <2>3
<1>8. ASSUME NEW b \in h.large, at \in Of(LargePiece(b)) PROVE FALSE
  <2>. DEFINE e == b.at + b.n
  <2>1. b.at <= at /\ at < e /\ e \in Nat /\ b.n < n
    BY <1>1, <1>2, <1>8 DEF Fits, Heap
  <2>2. e \in free
    BY <1>2, <1>6, <2>1
  <2>3. e # h.bump /\ \A c \in h.large : e # c.at
    BY DEF Partition, Coalesces
  <2>4. e \notin Of(BumpPiece(h))
    BY <1>1, <1>2, <1>4, <2>1, <2>3
  <2>5. ASSUME NEW c \in h.large, e \in Of(LargePiece(c)) PROVE FALSE
    <3>1. c.at <= e /\ e < c.at + c.n /\ c.at \in Nat /\ c.n \in Nat
      BY <1>2, <2>5
    <3>2. b # c
      BY <3>1
    <3>. QED  BY <1>2, <1>5, <2>1, <2>3, <3>1, <3>2
  <2>. QED  BY <1>3, <2>2, <2>4, <2>5
<1>. QED  BY <1>3, <1>7, <1>8

LEMMA OutcomeHeap ==
    ASSUME IInv, NEW p \in Holders, NEW n \in Nat \ {0}, NEW align \in Nat \ {0}
    PROVE  AllocImpl(heap, n, align).heap \in Heap
<1>. DEFINE o == AllocImpl(heap, n, align)
            y == [of |-> <<"held", p, "new">>, at |-> o.at, n |-> Held(n, align)]
<1>1. Partition(HeldPieces, heap, Wasted, owned) /\ memory \in Nat \ {0} /\ heap.end <= memory
  BY DEF IInv, Typed
<1>2. Kind(y) = "held" /\ y.at = o.at /\ y.n = Held(n, align)
  BY DEF Kind
<1>. HIDE DEF y, o
<1>3. AllocKept(heap, o, y, HeldPieces, Wasted, owned)
  BY <1>1, <1>2, AllocKeeps DEF o
<1>. QED  BY <1>1, <1>3 DEF AllocKept, Partition, o

(* Linear memory grows for a large block only when no run of free granules  *)
(* is as long as it: best fit finds a block whenever there is a run at all, *)
(* since every free run is one block.                                       *)
THEOREM GrowsInNeed == Spec => GrowsOnlyWhenNothingFits
<1>. DEFINE Full(n) == ~\E at \in Unused(heap) : Granules(at, n) \subseteq Unused(heap)
            Justified == \A p \in Holders :
                heap'.end # heap.end /\ live'[p] # live[p] /\ live'[p].align = 1
                    /\ live'[p].n > MaxSmall => Full(live'[p].n)
<1>1. ASSUME IInv, NEW q \in Holders, NEW n \in Nat \ {0}, NEW align \in Nat \ {0},
             NEW o, o = AllocImpl(heap, n, align), heap'.end # heap.end => o.heap.end # heap.end,
             live' = live \/ live' = [live EXCEPT ![q] = Block(n, align, o.at)]
      PROVE  Justified
  <2>. SUFFICES ASSUME NEW p \in Holders, heap'.end # heap.end, live'[p] # live[p],
                       live'[p].align = 1, live'[p].n > MaxSmall
                PROVE  Full(live'[p].n)
    OBVIOUS
  <2>1. p = q /\ live'[p] = Block(n, align, o.at)
    BY <1>1 DEF IInv, Typed
  <2>2. live'[p].n = n /\ align = 1
    BY <2>1 DEF Block
  <2>3. heap \in Heap /\ Partition(HeldPieces, heap, Wasted, owned)
    BY <1>1 DEF IInv, Partition
  <2>4. Fits(heap, n) = {} /\ ~(heap.bump + n <= heap.end)
    BY <1>1, <2>2, <2>3, GrewInNeed
  <2>5. ASSUME NEW f, f = Unused(heap), NEW at \in f, Granules(at, n) \subseteq f
        PROVE  FALSE
    BY <2>3, <2>4, <2>5, NoLongRun
  <2>. QED  BY <2>2, <2>5
<1>2. ASSUME IInv, Next PROVE Justified
  <2>1. \A l \in Layouts : l[1] \in Nat \ {0} /\ l[2] \in Nat \ {0}
    BY AllocAssumption
  <2>2. ASSUME NEW p \in Holders, NEW n \in Nat \ {0}, NEW align \in Nat \ {0}, AhiruAlloc(p, n, align)
        PROVE  Justified
    BY <1>1, <1>2, <2>2 DEF AhiruAlloc
  <2>3. ASSUME NEW p \in Holders, Dealloc(p) PROVE Justified
    <3>1. heap'.end = heap.end
      BY <1>2, <2>3, DeallocEnds DEF Dealloc, IInv, Partition
    <3>. QED  BY <3>1
  <2>4. ASSUME NEW p \in Holders, NEW n, ReallocInPlace(p, n) PROVE Justified
    BY <2>4 DEF ReallocInPlace
  <2>5. ASSUME NEW p \in Holders, NEW n \in Nat \ {0}, ReallocMoves(p, n) PROVE Justified
    <3>. DEFINE o == AllocImpl(heap, n, live[p].align)
    <3>1. live[p] \in HeldBlock
      BY <1>2, <2>5, HolderIs DEF IInv, ReallocMoves
    <3>2. live[p].align \in Nat \ {0}
      BY <3>1 DEF HeldBlock
    <3>3. \/ live' = live /\ heap' = o.heap
          \/ /\ live' = [live EXCEPT ![p] = Block(n, live[p].align, o.at)]
             /\ heap' = DeallocImpl(o.heap, live[p])
      BY <2>5 DEF ReallocMoves
    <3>4. heap'.end = o.heap.end
      <4>1. DeallocImpl(o.heap, live[p]).end = o.heap.end
        <5>1. o.heap \in Heap
          BY <1>2, <2>5, <3>2, OutcomeHeap
        <5>. QED  BY <5>1, DeallocEnds
      <4>. QED  BY <3>3, <4>1
    <3>. HIDE DEF o
    <3>. QED  BY <1>1, <1>2, <3>2, <3>3, <3>4 DEF o
  <2>6. CASE ForeignGrow
    BY <2>6 DEF ForeignGrow
  <2>. QED  BY <1>2, <2>1, <2>2, <2>3, <2>4, <2>5, <2>6 DEF Next
<1>3. IInv /\ [Next]_vars => [Justified]_vars
  BY <1>2
<1>. QED  BY <1>3, Inductive, PTL DEF Spec, GrowsOnlyWhenNothingFits
-----------------------------------------------------------------------------
(* Sums over the blocks that are held.                                     *)

\* What the holder p is counted for, when the holders hold f.
Weight(f, p) == Held(f[p].n, f[p].align)

Sum(f, S) == MapThenSumSet(LAMBDA p : Weight(f, p), S)
Adds(f, s, g) ==
    IF s = {} THEN 0
    ELSE Weight(f, CHOOSE x \in s : TRUE) + g[s \ {CHOOSE x \in s : TRUE}]
Summing(f, T, g) == g = [s \in SUBSET T |-> Adds(f, s, g)]

LEMMA SumDef == ASSUME NEW f, NEW T PROVE Sum(f, T) = (CHOOSE g : Summing(f, T, g))[T]
BY DEF Sum, MapThenSumSet, MapThenFoldSet, Summing, Adds

\* Induction over the finite sets by their cardinality.
LEMMA Smallest ==
    ASSUME NEW B, B # {}, \A s \in B : IsFiniteSet(s)
    PROVE  \E s \in B : \A t \in B : Cardinality(s) <= Cardinality(t)
<1>. DEFINE C == {Cardinality(s) : s \in B}
<1>1. C \in SUBSET Nat /\ C # {}
  <2>1. \A s \in B : Cardinality(s) \in Nat
    BY FS_CardinalityType
  <2>. QED  BY <2>1
<1>2. PICK i \in C : \A j \in C : i <= j
  <2>. HIDE DEF C
  <2>. QED  BY <1>1, Least
<1>3. PICK s \in B : i = Cardinality(s)
  BY <1>2
<1>. QED  BY <1>2, <1>3

LEMMA Smaller ==
    ASSUME NEW s, IsFiniteSet(s), NEW x \in s
    PROVE  IsFiniteSet(s \ {x}) /\ Cardinality(s \ {x}) = Cardinality(s) - 1
           /\ Cardinality(s) \in Nat \ {0} /\ Cardinality(s \ {x}) \in Nat
<1>1. IsFiniteSet(s \ {x}) /\ Cardinality(s \ {x}) = Cardinality(s) - 1
  BY FS_RemoveElement
<1>2. Cardinality(s) \in Nat /\ Cardinality(s) # 0
  BY FS_CardinalityType, FS_EmptySet
<1>. QED  BY <1>1, <1>2, FS_CardinalityType

LEMMA SummingExists ==
    ASSUME NEW f, NEW T, IsFiniteSet(T)
    PROVE  \E g : Summing(f, T, g)
<1>. DEFINE Upto(n) == {s \in SUBSET T : Cardinality(s) <= n}
            Part(n, g) == g = [s \in Upto(n) |-> Adds(f, s, g)]
            Bad == {n \in Nat : ~\E g : Part(n, g)}
<1>0. \A s \in SUBSET T : IsFiniteSet(s) /\ Cardinality(s) \in Nat
  BY FS_Subset, FS_CardinalityType
<1>1. ASSUME Bad # {} PROVE FALSE
  <2>1. PICK n \in Bad : \A m \in Bad : n <= m
    <3>1. Bad \in SUBSET Nat
      OBVIOUS
    <3>. HIDE DEF Bad
    <3>. QED  BY <1>1, <3>1, Least
  <2>2. n \in Nat /\ ~\E g : Part(n, g)
    BY <2>1
  <2>3. CASE n = 0
    <3>. DEFINE g == [s \in Upto(0) |-> 0]
    <3>1. \A s \in Upto(0) : s = {}
      <4>1. \A s \in Upto(0) : IsFiniteSet(s) /\ Cardinality(s) = 0
        BY <1>0
      <4>. QED  BY <4>1, FS_EmptySet
    <3>2. \A s \in Upto(0) : Adds(f, s, g) = 0
      BY <3>1 DEF Adds
    <3>3. Part(0, g)
      BY <3>2
    <3>. QED  BY <2>2, <2>3, <3>3
  <2>4. CASE n # 0
    <3>1. n - 1 \in Nat /\ n - 1 \notin Bad
      <4>1. n - 1 \in Nat /\ ~(n <= n - 1)
        BY <2>2, <2>4
      <4>. HIDE DEF Bad
      <4>. QED  BY <2>1, <4>1
    <3>2. PICK h : Part(n - 1, h)
      BY <3>1
    <3>. DEFINE g == [s \in Upto(n) |-> Adds(f, s, h)]
    <3>3. \A s \in Upto(n - 1) : h[s] = Adds(f, s, h) /\ s \in Upto(n)
      <4>1. \A s \in SUBSET T : Cardinality(s) <= n - 1 => Cardinality(s) <= n
        BY <1>0, <2>2
      <4>. QED  BY <3>2, <4>1
    <3>4. \A s \in Upto(n - 1) : g[s] = h[s]
      BY <3>3
    <3>5. ASSUME NEW s \in Upto(n), s # {} PROVE s \ {CHOOSE x \in s : TRUE} \in Upto(n - 1)
      <4>. DEFINE x == CHOOSE y \in s : TRUE
      <4>1. x \in s
        BY <3>5
      <4>. HIDE DEF x
      <4>2. Cardinality(s \ {x}) = Cardinality(s) - 1 /\ Cardinality(s) \in Nat /\ Cardinality(s) <= n
        BY <1>0, <4>1, Smaller
      <4>3. Cardinality(s) - 1 <= n - 1
        BY <2>2, <4>2
      <4>4. s \ {x} \in Upto(n - 1)
        BY <4>2, <4>3
      <4>. QED  BY <4>4 DEF x
    <3>6. \A s \in Upto(n) : Adds(f, s, h) = Adds(f, s, g)
      <4>. HIDE DEF g, Upto
      <4>. SUFFICES ASSUME NEW s \in Upto(n) PROVE Adds(f, s, h) = Adds(f, s, g)
        OBVIOUS
      <4>. DEFINE x == CHOOSE y \in s : TRUE
      <4>1. CASE s = {}
        BY <4>1 DEF Adds
      <4>2. CASE s # {}
        <5>1. s \ {x} \in Upto(n - 1)
          BY <3>5, <4>2
        <5>2. Adds(f, s, h) = Weight(f, x) + h[s \ {x}] /\ Adds(f, s, g) = Weight(f, x) + g[s \ {x}]
          BY <4>2 DEF Adds
        <5>. HIDE DEF x
        <5>. QED  BY <3>4, <5>1, <5>2
      <4>. QED  BY <4>1, <4>2
    <3>7. Part(n, g)
      <4>1. g = [s \in Upto(n) |-> Adds(f, s, h)]
        OBVIOUS
      <4>. HIDE DEF g, Upto
      <4>. QED  BY <3>6, <4>1
    <3>. QED  BY <2>2, <3>7
  <2>. QED  BY <2>3, <2>4
<1>2. Cardinality(T) \in Nat
  BY FS_CardinalityType
<1>3. PICK g : Part(Cardinality(T), g)
  BY <1>1, <1>2
<1>4. Upto(Cardinality(T)) = SUBSET T
  <2>1. \A s \in SUBSET T : Cardinality(s) <= Cardinality(T)
    BY FS_Subset
  <2>. QED  BY <2>1
<1>5. Summing(f, T, g)
  <2>. HIDE DEF Upto
  <2>. QED  BY <1>3, <1>4 DEF Summing
<1>. QED  BY <1>5

\* Two sums over sets with the same elements, counted the same, are equal.
LEMMA SummingAgrees ==
    ASSUME NEW f, NEW T, NEW g, Summing(f, T, g), NEW e, NEW U, NEW h, Summing(e, U, h),
           NEW S, IsFiniteSet(S), S \subseteq T, S \subseteq U, \A x \in S : Weight(f, x) = Weight(e, x)
    PROVE  g[S] = h[S]
<1>. DEFINE B == {s \in SUBSET S : g[s] # h[s]}
<1>. SUFFICES ASSUME B # {} PROVE FALSE
  OBVIOUS
<1>1. \A s \in SUBSET S : IsFiniteSet(s) /\ Cardinality(s) \in Nat
  BY FS_Subset, FS_CardinalityType
<1>2. PICK s \in B : \A t \in B : Cardinality(s) <= Cardinality(t)
  <2>1. \A t \in B : IsFiniteSet(t)
    BY <1>1
  <2>. HIDE DEF B
  <2>. QED  BY <2>1, Smallest
<1>3. s \in SUBSET S /\ g[s] # h[s] /\ g[s] = Adds(f, s, g) /\ h[s] = Adds(e, s, h)
  BY <1>2 DEF Summing
<1>4. CASE s = {}
  BY <1>3, <1>4 DEF Adds
<1>5. CASE s # {}
  <2>. DEFINE x == CHOOSE y \in s : TRUE
  <2>1. x \in s
    BY <1>5
  <2>2. g[s] = Weight(f, x) + g[s \ {x}] /\ h[s] = Weight(e, x) + h[s \ {x}]
    BY <1>3, <1>5 DEF Adds
  <2>. HIDE DEF x
  <2>3. s \ {x} \in SUBSET S /\ Weight(f, x) = Weight(e, x)
    BY <1>3, <2>1
  <2>4. g[s \ {x}] = h[s \ {x}]
    <3>1. Cardinality(s \ {x}) = Cardinality(s) - 1 /\ Cardinality(s) \in Nat
      BY <1>1, <1>3, <2>1, Smaller
    <3>2. ~(Cardinality(s) <= Cardinality(s \ {x}))
      BY <3>1
    <3>3. s \ {x} \notin B
      BY <1>2, <3>2
    <3>. QED  BY <2>3, <3>3
  <2>. QED  BY <1>3, <2>2, <2>3, <2>4
<1>. QED  BY <1>4, <1>5

\* A sum may be taken apart at any of its elements.
LEMMA SummingTakes ==
    ASSUME NEW f, NEW T, NEW g, IsFiniteSet(T), Summing(f, T, g), \A x \in T : Weight(f, x) \in Nat
    PROVE  \A s \in SUBSET T : g[s] \in Nat /\ \A x \in s : g[s] = Weight(f, x) + g[s \ {x}]
<1>. DEFINE Good(s) == g[s] \in Nat /\ \A x \in s : g[s] = Weight(f, x) + g[s \ {x}]
            B == {s \in SUBSET T : ~Good(s)}
<1>. SUFFICES ASSUME B # {} PROVE FALSE
  OBVIOUS
<1>1. \A s \in SUBSET T : IsFiniteSet(s) /\ Cardinality(s) \in Nat
  BY FS_Subset, FS_CardinalityType
<1>2. PICK s \in B : \A t \in B : Cardinality(s) <= Cardinality(t)
  <2>1. \A t \in B : IsFiniteSet(t)
    BY <1>1
  <2>. HIDE DEF B
  <2>. QED  BY <2>1, Smallest
<1>3. s \in SUBSET T /\ ~Good(s)
  BY <1>2
<1>4. \A t \in SUBSET T : g[t] = Adds(f, t, g)
  BY DEF Summing
<1>5. ASSUME NEW t \in SUBSET T, Cardinality(t) < Cardinality(s) PROVE Good(t)
  <2>1. ~(Cardinality(s) <= Cardinality(t))
    BY <1>1, <1>3, <1>5
  <2>. HIDE DEF Good
  <2>. QED  BY <1>2, <2>1
<1>6. CASE s = {}
  <2>1. g[s] = 0
    BY <1>3, <1>4, <1>6 DEF Adds
  <2>. QED  BY <1>3, <1>6, <2>1
<1>7. CASE s # {}
  <2>. DEFINE c == CHOOSE y \in s : TRUE
  <2>1. c \in s
    BY <1>7
  <2>2. g[s] = Weight(f, c) + g[s \ {c}]
    BY <1>3, <1>4, <1>7 DEF Adds
  <2>. HIDE DEF c
  <2>3. \A x \in s : s \ {x} \in SUBSET T /\ Cardinality(s \ {x}) < Cardinality(s)
    <3>. SUFFICES ASSUME NEW x \in s PROVE s \ {x} \in SUBSET T /\ Cardinality(s \ {x}) < Cardinality(s)
      OBVIOUS
    <3>1. Cardinality(s \ {x}) = Cardinality(s) - 1 /\ Cardinality(s) \in Nat
      BY <1>1, <1>3, Smaller
    <3>2. Cardinality(s) - 1 < Cardinality(s)
      BY <3>1
    <3>. QED  BY <1>3, <3>1, <3>2
  <2>4. \A x \in s : Good(s \ {x})
    <3>. HIDE DEF Good
    <3>. QED  BY <1>5, <2>3
  <2>5. Weight(f, c) \in Nat /\ g[s \ {c}] \in Nat
    BY <1>3, <2>1, <2>4
  <2>6. ASSUME NEW x \in s PROVE g[s] = Weight(f, x) + g[s \ {x}]
    <3>1. CASE x = c
      BY <2>2, <3>1
    <3>2. CASE x # c
      <4>. DEFINE rest == (s \ {c}) \ {x}
      <4>1. g[s \ {c}] = Weight(f, x) + g[rest]
        BY <2>1, <2>4, <3>2
      <4>2. g[s \ {x}] = Weight(f, c) + g[rest]
        <5>1. g[s \ {x}] = Weight(f, c) + g[(s \ {x}) \ {c}]
          BY <2>1, <2>4, <3>2
        <5>2. (s \ {x}) \ {c} = rest
          OBVIOUS
        <5>. QED  BY <5>1, <5>2
      <4>3. g[rest] \in Nat /\ Weight(f, x) \in Nat
        <5>1. rest \in SUBSET T /\ Cardinality(rest) < Cardinality(s)
          <6>1. IsFiniteSet(s \ {c}) /\ x \in s \ {c}
            BY <1>1, <2>3, <2>1, <3>2
          <6>2. Cardinality(rest) = Cardinality(s \ {c}) - 1 /\ Cardinality(s \ {c}) \in Nat
            BY <6>1, Smaller
          <6>3. Cardinality(s \ {c}) < Cardinality(s) /\ Cardinality(s) \in Nat
            BY <1>1, <1>3, <2>1, <2>3
          <6>4. Cardinality(s \ {c}) - 1 < Cardinality(s)
            BY <6>2, <6>3
          <6>. QED  BY <1>3, <6>2, <6>4
        <5>2. Good(rest)
          <6>. HIDE DEF Good, rest
          <6>. QED  BY <1>5, <5>1
        <5>. QED  BY <1>3, <5>2
      <4>. HIDE DEF rest
      <4>4. \A a, b, d \in Nat : a + (b + d) = b + (a + d)
        OBVIOUS
      <4>. QED  BY <2>2, <2>5, <4>1, <4>2, <4>3, <4>4
    <3>. QED  BY <3>1, <3>2
  <2>7. g[s] \in Nat
    BY <2>2, <2>5
  <2>. QED  BY <1>3, <2>6, <2>7
<1>. QED  BY <1>6, <1>7

LEMMA SumIs ==
    ASSUME NEW f, NEW S, IsFiniteSet(S), \A x \in S : Weight(f, x) \in Nat
    PROVE  Sum(f, S) \in Nat /\ \A x \in S : Sum(f, S) = Weight(f, x) + Sum(f, S \ {x})
<1>. DEFINE g(T) == CHOOSE h : Summing(f, T, h)
<1>1. Summing(f, S, g(S)) /\ Sum(f, S) = g(S)[S]
  BY SummingExists, SumDef
<1>. HIDE DEF g
<1>2. g(S)[S] \in Nat /\ \A x \in S : g(S)[S] = Weight(f, x) + g(S)[S \ {x}]
  BY <1>1, SummingTakes
<1>3. ASSUME NEW x \in S PROVE g(S)[S \ {x}] = Sum(f, S \ {x})
  <2>. DEFINE T == S \ {x}
  <2>1. IsFiniteSet(T) /\ T \subseteq S
    BY FS_RemoveElement
  <2>. HIDE DEF T
  <2>2. Summing(f, T, g(T)) /\ Sum(f, T) = g(T)[T]
    BY <2>1, SummingExists, SumDef DEF g
  <2>3. g(S)[T] = g(T)[T]
    BY <1>1, <2>1, <2>2, SummingAgrees
  <2>. QED  BY <2>2, <2>3 DEF T
<1>. QED  BY <1>1, <1>2, <1>3

LEMMA SumTakes ==
    ASSUME NEW f, NEW S, IsFiniteSet(S), \A x \in S : Weight(f, x) \in Nat,
           NEW y \in S, NEW T, T = S \ {y}
    PROVE  Sum(f, S) = Weight(f, y) + Sum(f, T)
BY SumIs

LEMMA SameSum ==
    ASSUME NEW f, NEW e, NEW S, IsFiniteSet(S), \A x \in S : Weight(f, x) = Weight(e, x)
    PROVE  Sum(f, S) = Sum(e, S)
<1>. DEFINE g(d) == CHOOSE h : Summing(d, S, h)
<1>1. \A d : Summing(d, S, g(d)) /\ Sum(d, S) = g(d)[S]
  BY SummingExists, SumDef
<1>. HIDE DEF g
<1>2. Summing(f, S, g(f)) /\ Summing(e, S, g(e))
  BY <1>1
<1>3. g(f)[S] = g(e)[S]
  BY <1>2, SummingAgrees
<1>. QED  BY <1>1, <1>3
-----------------------------------------------------------------------------
(* The counter of what is allocated.                                        *)

\* What all the holders are counted for when they hold l.
Taken(l) == Sum(l, {p \in Holders : l[p] # Nothing})

HoldsBlocks(l) == l \in [Holders -> HeldBlock \cup {Nothing}]

LEMMA TakenIs == MapThenSumSet(HeldBy, Holding) = Taken(live)
BY DEF MapThenSumSet, MapThenFoldSet, Sum, Taken, Holding, HeldBy, Weight

LEMMA WeightIs ==
    ASSUME NEW l, HoldsBlocks(l), NEW p \in Holders, l[p] # Nothing
    PROVE  Weight(l, p) = Held(l[p].n, l[p].align) /\ Weight(l, p) \in Nat
<1>1. l[p] \in HeldBlock
  BY DEF HoldsBlocks
<1>2. l[p].n \in Nat \ {0} /\ l[p].align \in Nat \ {0}
  BY <1>1 DEF HeldBlock
<1>. QED  BY <1>2, HeldCovers DEF Weight

\* A holder that held nothing is handed a block; read from right to left, one that
\* held a block gives it up.
LEMMA TakenAdds ==
    ASSUME NEW l, HoldsBlocks(l), NEW p \in Holders, l[p] = Nothing,
           NEW b \in HeldBlock, b # Nothing, NEW m, m = [l EXCEPT ![p] = b]
    PROVE  HoldsBlocks(m) /\ Taken(l) \in Nat /\ Taken(m) = Taken(l) + Held(b.n, b.align)
<1>. DEFINE S == {q \in Holders : l[q] # Nothing}
            T == {q \in Holders : m[q] # Nothing}
<1>1. HoldsBlocks(m) /\ m[p] = b /\ \A q \in Holders \ {p} : m[q] = l[q]
  BY DEF HoldsBlocks
<1>2. p \in T /\ T \ {p} = S
  BY <1>1
<1>3. IsFiniteSet(S) /\ IsFiniteSet(T)
  BY AllocAssumption, FS_Subset
<1>4. \A q \in S : Weight(l, q) \in Nat
  BY WeightIs
<1>5. \A q \in T : Weight(m, q) \in Nat
  BY <1>1, WeightIs
<1>6. Weight(m, p) = Held(b.n, b.align)
  BY <1>1, WeightIs
<1>7. \A q \in S : Weight(m, q) = Weight(l, q)
  BY <1>1 DEF Weight
<1>8. Taken(l) = Sum(l, S) /\ Taken(m) = Sum(m, T)
  BY DEF Taken
<1>. HIDE DEF S, T
<1>9. Sum(l, S) \in Nat
  BY <1>3, <1>4, SumIs
<1>10. Sum(m, T) = Weight(m, p) + Sum(m, S)
  BY <1>2, <1>3, <1>5, SumTakes
<1>11. Sum(m, S) = Sum(l, S)
  BY <1>3, <1>7, SameSum
<1>12. Weight(m, p) \in Nat
  BY <1>2, <1>5
<1>13. Taken(m) = Taken(l) + Weight(m, p) /\ Taken(l) \in Nat
  BY <1>8, <1>9, <1>10, <1>11, <1>12
<1>. QED  BY <1>1, <1>6, <1>13

\* The counter follows what a call returns: a call that finds no memory leaves it.
LEMMA CountsUp ==
    ASSUME NEW g, g \in Heap, NEW mem, NEW at, NEW k \in Int, NEW o, o = Counted(Outcome(g, mem, at), k)
    PROVE  o.heap.allocated = g.allocated + (IF o.at = Null THEN 0 ELSE k)
<1>1. CASE at = Null
  BY <1>1, HeapFields DEF Counted, Outcome
<1>2. CASE at # Null
  <2>1. o.at = at /\ o.heap = [g EXCEPT !.allocated = @ + k]
    BY <1>2 DEF Counted, Outcome
  <2>2. o.heap.allocated = g.allocated + k
    BY <2>1, HeapFields
  <2>. QED  BY <1>2, <2>1, <2>2
<1>. QED  BY <1>1, <1>2

LEMMA AllocCounts ==
    ASSUME NEW h \in Heap, memory \in Nat, NEW n \in Nat \ {0}, NEW align \in Nat \ {0},
           NEW o, o = AllocImpl(h, n, align)
    PROVE  o.heap.allocated = h.allocated + (IF o.at = Null THEN 0 ELSE Held(n, align))
<1>. DEFINE held == Held(n, align)
            c == ClassOf(n)
<1>1. held \in Nat \ {0} /\ held \in Int
  BY HeldCovers
<1>2. ASSUME NEW g, g \in Heap, g.allocated = h.allocated, NEW mem, NEW at, o = Counted(Outcome(g, mem, at), held)
      PROVE  o.heap.allocated = h.allocated + (IF o.at = Null THEN 0 ELSE held)
  <2>. HIDE DEF held
  <2>1. o.heap.allocated = g.allocated + (IF o.at = Null THEN 0 ELSE held)
    BY <1>1, <1>2, CountsUp
  <2>. QED  BY <1>2, <2>1
<1>3. CASE IsSmall(n, align) /\ h.small[c] # <<>>
  <2>. DEFINE g == [h EXCEPT !.small[c] = Tail(@)]
  <2>1. c \in Classes
    BY <1>3, ClassFits DEF IsSmall
  <2>2. Tail(h.small[c]) \in Seq(Nat)
    <3>1. h.small[c] \in Seq(Nat)
      BY <2>1 DEF Heap
    <3>. QED  BY <1>3, <3>1, HeadTailProperties
  <2>3. g \in Heap /\ g.allocated = h.allocated
    BY <2>1, <2>2 DEF Heap
  <2>4. o = Counted(Outcome(g, memory, Head(h.small[c])), held)
    BY <1>3 DEF AllocImpl
  <2>. HIDE DEF g, held, c
  <2>. QED  BY <1>2, <2>3, <2>4 DEF held
<1>4. CASE ~(IsSmall(n, align) /\ h.small[c] # <<>>)
           /\ align = 1 /\ ~IsSmall(n, align) /\ Fits(h, held) # {}
  <2>. DEFINE g == TakeLarge(h, held)
              at == BestFit(h, held).at
  <2>1. BestFit(h, held) \in h.large /\ BestFit(h, held).at \in Nat /\ BestFit(h, held).n \in Nat
    BY <1>1, <1>4, BestFitFits DEF Fits, Heap
  <2>2. g \in Heap /\ g.allocated = h.allocated
    <3>. DEFINE e == [at |-> BestFit(h, held).at + held, n |-> BestFit(h, held).n - held]
                rest == IF BestFit(h, held).n > held THEN {e} ELSE {}
    <3>1. rest \subseteq [at : Nat, n : Nat \ {0}]
      BY <1>1, <2>1
    <3>2. g = [h EXCEPT !.large = (@ \ {BestFit(h, held)}) \cup rest]
      BY DEF TakeLarge
    <3>. HIDE DEF g, rest
    <3>. QED  BY <3>1, <3>2 DEF Heap
  <2>3. o = Counted(Outcome(g, memory, at), held)
    BY <1>4 DEF AllocImpl
  <2>. HIDE DEF g, held, at
  <2>. QED  BY <1>2, <2>2, <2>3 DEF held
<1>5. CASE /\ ~(IsSmall(n, align) /\ h.small[c] # <<>>)
           /\ ~(align = 1 /\ ~IsSmall(n, align) /\ Fits(h, held) # {})
  <2>1. o = Counted(Carve(h, held), held)
    BY <1>5 DEF AllocImpl
  <2>2. ASSUME NEW g \in Heap, NEW k \in Nat
        PROVE  Bumped(g, k) \in Heap /\ Bumped(g, k).allocated = g.allocated
    <3>1. Bumped(g, k) \in Heap
      BY BumpedIs
    <3>. QED  BY <3>1, HeapFields DEF Bumped
  <2>3. Growth(held) \in Nat
    <3>. HIDE DEF held
    <3>. QED  BY <1>1, GrowthCovers
  <2>4. Grow(h, held) \in Heap /\ Grow(h, held).allocated = h.allocated
    <3>1. Grow(h, held) \in Heap
      <4>. HIDE DEF held
      <4>. QED  BY <1>1, <2>3, GrowIs
    <3>2. Grow(h, held).allocated = h.allocated
      BY HeapFields DEF Grow
    <3>. QED  BY <3>1, <3>2
  <2>. HIDE DEF held
  <2>5. PICK g, mem, at : g \in Heap /\ g.allocated = h.allocated /\ Carve(h, held) = Outcome(g, mem, at)
    <3>1. CASE h.bump + held <= h.end
      <4>1. Carve(h, held) = Outcome(Bumped(h, held), memory, h.bump)
        BY <3>1 DEF Carve
      <4>. QED  BY <1>1, <2>2, <4>1
    <3>2. CASE ~(h.bump + held <= h.end) /\ memory + Growth(held) > Space
      <4>1. Carve(h, held) = Outcome(h, memory, Null)
        BY <3>2 DEF Carve
      <4>. QED  BY <4>1
    <3>3. CASE /\ ~(h.bump + held <= h.end) /\ ~(memory + Growth(held) > Space)
               /\ memory + Growth(held) = Space
      <4>1. Carve(h, held) = Outcome(h, Space, Null)
        BY <3>3 DEF Carve
      <4>. QED  BY <4>1
    <3>4. CASE /\ ~(h.bump + held <= h.end) /\ ~(memory + Growth(held) > Space)
               /\ memory + Growth(held) # Space
      <4>1. Carve(h, held) = Outcome(Bumped(Grow(h, held), held), memory + Growth(held),
                                     Grow(h, held).bump)
        BY <3>4 DEF Carve
      <4>2. Bumped(Grow(h, held), held) \in Heap /\ Bumped(Grow(h, held), held).allocated = h.allocated
        BY <1>1, <2>2, <2>4
      <4>. QED  BY <4>1, <4>2
    <3>. QED  BY <3>1, <3>2, <3>3, <3>4
  <2>6. o = Counted(Outcome(g, mem, at), held)
    BY <2>1, <2>5
  <2>. QED  BY <1>2, <2>5, <2>6 DEF held
<1>. QED  BY <1>3, <1>4, <1>5

LEMMA DeallocCounts ==
    ASSUME NEW h \in Heap, NEW b \in HeldBlock, NEW g, g = DeallocImpl(h, b)
    PROVE  g.allocated = h.allocated - (IF b.align > 1 THEN 0 ELSE Held(b.n, b.align))
<1>1. b.align \in Nat \ {0} /\ h.allocated \in Int
  BY DEF HeldBlock, Heap
<1>2. CASE IsSmall(b.n, b.align)
  <2>1. g = [h EXCEPT !.small[ClassOf(b.n)] = <<b.at>> \o @, !.allocated = @ - Held(b.n, b.align)]
    BY <1>2 DEF DeallocImpl
  <2>2. g.allocated = h.allocated - Held(b.n, b.align)
    BY <2>1, HeapFields
  <2>. QED  BY <1>2, <2>2 DEF IsSmall
<1>3. CASE b.align > 1
  BY <1>1, <1>3 DEF DeallocImpl, IsSmall
<1>4. CASE ~IsSmall(b.n, b.align) /\ ~(b.align > 1)
  <2>. DEFINE q == PutLarge(h, b.at, Held(b.n, b.align))
  <2>1. g = [q EXCEPT !.allocated = @ - Held(b.n, b.align)]
    BY <1>4 DEF DeallocImpl
  <2>2. \E L, p : q = [small |-> h.small, large |-> L, bump |-> p, end |-> h.end, allocated |-> h.allocated]
    <3>. DEFINE x == Merged(h, b.at, Held(b.n, b.align))
                L == h.large \ Touching(h, b.at, Held(b.n, b.align))
    <3>1. q = IF x.at + x.n = h.bump THEN [h EXCEPT !.large = L, !.bump = x.at]
              ELSE [h EXCEPT !.large = L \cup {x}]
      BY DEF PutLarge
    <3>. HIDE DEF q, x, L
    <3>2. CASE x.at + x.n = h.bump
      <4>1. q = [small |-> h.small, large |-> L, bump |-> x.at, end |-> h.end, allocated |-> h.allocated]
        <5>1. q = [h EXCEPT !.large = L, !.bump = x.at]
          BY <3>1, <3>2
        <5>. QED  BY <5>1 DEF Heap
      <4>. QED  BY <4>1, Zenon
    <3>3. CASE x.at + x.n # h.bump
      <4>1. q = [small |-> h.small, large |-> L \cup {x}, bump |-> h.bump, end |-> h.end,
                 allocated |-> h.allocated]
        <5>1. q = [h EXCEPT !.large = L \cup {x}]
          BY <3>1, <3>3
        <5>. QED  BY <5>1 DEF Heap
      <4>. QED  BY <4>1, Zenon
    <3>. QED  BY <3>2, <3>3
  <2>. HIDE DEF q
  <2>3. g.allocated = h.allocated - Held(b.n, b.align)
    BY <2>1, <2>2
  <2>. QED  BY <1>4, <2>3
<1>. QED  BY <1>2, <1>3, <1>4

\* What is leaked by a block has not leaked before.
LEMMA LeakCounts ==
    ASSUME IInv, IsFiniteSet(leaked), NEW p \in Holders, live[p] # Nothing
    PROVE  /\ IsFiniteSet(leaked \cup Leaks(live[p])) /\ Cardinality(leaked) \in Nat
           /\ Cardinality(leaked \cup Leaks(live[p])) = Cardinality(leaked)
                 + (IF live[p].align > 1 THEN Held(live[p].n, live[p].align) ELSE 0)
<1>. DEFINE b == live[p]
            x == HeldPiece(p, b)
            k == Held(b.n, b.align)
<1>1. Typed /\ b \in HeldBlock /\ x \in HeldPieces /\ x.at = b.from /\ x.n = k
  BY HolderIs DEF IInv, HeldPiece
<1>2. b.from \in Nat /\ k \in Nat
  BY <1>1, HeldCovers DEF HeldBlock
<1>3. Cardinality(leaked) \in Nat
  BY FS_CardinalityType
<1>4. CASE ~(b.align > 1)
  <2>1. Leaks(b) = {}
    BY <1>4 DEF Leaks
  <2>2. leaked \cup Leaks(b) = leaked
    BY <2>1
  <2>3. (IF b.align > 1 THEN k ELSE 0) = 0
    BY <1>4
  <2>4. Cardinality(leaked) = Cardinality(leaked) + 0
    BY <1>3
  <2>. QED  BY <1>3, <2>2, <2>3, <2>4
<1>5. CASE b.align > 1
  <2>1. Leaks(b) = b.from .. (b.from + k - 1) /\ Leaks(b) = Of(x)
    BY <1>1, <1>5 DEF Leaks, Granules, Of
  <2>2. leaked \cap Of(x) = {}
    <3>1. Cover(HeldPieces \cup FreePieces(heap)) \cap Wasted = {}
      BY DEF IInv, Partition, Parts
    <3>2. Of(x) \subseteq Cover(HeldPieces \cup FreePieces(heap))
      BY <1>1 DEF Cover
    <3>. QED  BY <3>1, <3>2 DEF Wasted
  <2>. HIDE DEF b, x, k
  <2>3. IsFiniteSet(Leaks(b)) /\ Cardinality(Leaks(b)) = k
    <3>2. b.from \in Int /\ b.from + k - 1 \in Int
      BY <1>2
    <3>3. ASSUME NEW i \in Nat, NEW j \in Int, j = i + k - 1
          PROVE  IsFiniteSet(i .. j) /\ Cardinality(i .. j) = k
      <4>1. IsFiniteSet(i .. j) /\ Cardinality(i .. j) = IF i > j THEN 0 ELSE j - i + 1
        BY FS_Interval
      <4>2. (IF i > j THEN 0 ELSE j - i + 1) = k
        BY <1>2, <3>3
      <4>. QED  BY <4>1, <4>2
    <3>. QED  BY <1>2, <2>1, <3>2, <3>3
  <2>4. leaked \cap Leaks(b) = {}
    BY <2>1, <2>2
  <2>5. /\ IsFiniteSet(leaked \cup Leaks(b))
        /\ Cardinality(leaked \cup Leaks(b)) = Cardinality(leaked) + Cardinality(Leaks(b))
                                                 - Cardinality(leaked \cap Leaks(b))
    BY <2>3, FS_Union
  <2>6. Cardinality(leaked \cap Leaks(b)) = 0
    BY <2>4, FS_EmptySet
  <2>7. Cardinality(leaked \cup Leaks(b)) = Cardinality(leaked) + k
    BY <1>2, <1>3, <2>3, <2>5, <2>6
  <2>. QED  BY <1>3, <1>5, <2>5, <2>7 DEF b, k
<1>. QED  BY <1>4, <1>5

Counts == IsFiniteSet(leaked) /\ heap.allocated = Taken(live) + Cardinality(leaked)

LEMMA TakenTyped ==
    ASSUME Typed
    PROVE  HoldsBlocks(live) /\ Taken(live) \in Nat
<1>. DEFINE S == {p \in Holders : live[p] # Nothing}
<1>1. HoldsBlocks(live)
  BY DEF Typed, HoldsBlocks
<1>2. IsFiniteSet(S)
  BY AllocAssumption, FS_Subset
<1>3. \A q \in S : Weight(live, q) \in Nat
  BY <1>1, WeightIs
<1>. HIDE DEF S
<1>4. Sum(live, S) \in Nat
  BY <1>2, <1>3, SumIs
<1>. QED  BY <1>1, <1>4 DEF Taken, S

LEMMA AhiruAllocCounts ==
    ASSUME IInv, Counts, NEW p \in Holders, NEW n \in Nat \ {0}, NEW align \in Nat \ {0},
           AhiruAlloc(p, n, align)
    PROVE  Counts'
<1>. DEFINE o == AllocImpl(heap, n, align)
            b == Block(n, align, o.at)
<1>1. /\ live[p] = Nothing /\ heap' = o.heap /\ leaked' = leaked
      /\ live' = IF o.at = Null THEN live ELSE [live EXCEPT ![p] = b]
  BY DEF AhiruAlloc
<1>2. Typed /\ heap \in Heap /\ memory \in Nat /\ Partition(HeldPieces, heap, Wasted, owned)
      /\ memory \in Nat \ {0} /\ heap.end <= memory
  BY DEF IInv, Typed, Partition
<1>3. o.heap.allocated = heap.allocated + (IF o.at = Null THEN 0 ELSE Held(n, align))
  <2>. HIDE DEF o
  <2>. QED  BY <1>2, AllocCounts DEF o
<1>4. o.at \in Nat
  <2>. DEFINE y == [of |-> <<"held">>, at |-> o.at, n |-> Held(n, align)]
  <2>1. Kind(y) = "held" /\ y.at = o.at /\ y.n = Held(n, align)
    BY DEF Kind
  <2>2. AllocKept(heap, o, y, HeldPieces, Wasted, owned)
    <3>. HIDE DEF y, o
    <3>. QED  BY <1>2, <2>1, AllocKeeps DEF o
  <2>. QED  BY <2>2 DEF AllocKept
<1>. HIDE DEF o
<1>5. b \in HeldBlock /\ b # Nothing /\ b.n = n /\ b.align = align
  BY <1>4, BlockIs DEF Block
<1>. HIDE DEF b
<1>6. HoldsBlocks(live) /\ Taken(live) \in Nat
  BY <1>2, TakenTyped
<1>7. Cardinality(leaked) \in Nat /\ Held(n, align) \in Nat
  BY FS_CardinalityType, HeldCovers DEF Counts
<1>8. CASE o.at = Null
  <2>1. live' = live /\ heap'.allocated = heap.allocated
    BY <1>1, <1>3, <1>6, <1>7, <1>8 DEF Counts
  <2>2. Taken(live') = Taken(live)
    BY <2>1
  <2>. QED  BY <1>1, <2>1, <2>2 DEF Counts
<1>9. CASE o.at # Null
  <2>1. Taken(live') = Taken(live) + Held(n, align)
    <3>1. live' = [live EXCEPT ![p] = b] /\ live[p] = Nothing
      BY <1>1, <1>9
    <3>2. ASSUME NEW m, m = [live EXCEPT ![p] = b] PROVE Taken(m) = Taken(live) + Held(b.n, b.align)
      <4>1. live[p] = Nothing /\ b \in HeldBlock /\ b # Nothing /\ HoldsBlocks(live)
        BY <1>5, <1>6, <3>1
      <4>. QED  BY <3>2, <4>1, TakenAdds
    <3>. QED  BY <1>5, <3>1, <3>2
  <2>2. heap'.allocated = Taken(live') + Cardinality(leaked)
    BY <1>1, <1>3, <1>6, <1>7, <1>9, <2>1 DEF Counts
  <2>. QED  BY <1>1, <2>2 DEF Counts
<1>. QED  BY <1>8, <1>9

\* What a holder that gives up its block was counted for.
LEMMA TakenLoses ==
    ASSUME Typed, NEW p \in Holders, live[p] # Nothing,
           NEW m, m = [live EXCEPT ![p] = Nothing]
    PROVE  /\ HoldsBlocks(m) /\ m[p] = Nothing /\ Taken(m) \in Nat
           /\ Taken(live) = Taken(m) + Held(live[p].n, live[p].align)
<1>1. HoldsBlocks(live) /\ live \in [Holders -> HeldBlock \cup {Nothing}] /\ live[p] \in HeldBlock
  BY DEF Typed, HoldsBlocks
<1>2. HoldsBlocks(m) /\ m[p] = Nothing /\ live = [m EXCEPT ![p] = live[p]]
  BY <1>1 DEF HoldsBlocks
<1>3. ASSUME NEW b, b = live[p], NEW l, l = live
      PROVE  Taken(m) \in Nat /\ Taken(l) = Taken(m) + Held(b.n, b.align)
  BY <1>1, <1>2, <1>3, TakenAdds
<1>. QED  BY <1>2, <1>3

LEMMA DeallocStepCounts ==
    ASSUME IInv, Counts, NEW p \in Holders, Dealloc(p)
    PROVE  Counts'
<1>. DEFINE b == live[p]
            k == Held(b.n, b.align)
<1>1. /\ b # Nothing /\ heap' = DeallocImpl(heap, b) /\ live' = [live EXCEPT ![p] = Nothing]
      /\ leaked' = leaked \cup Leaks(b)
  BY DEF Dealloc
<1>2. Typed /\ heap \in Heap /\ b \in HeldBlock
  BY <1>1, HolderIs DEF IInv, Partition
<1>3. heap'.allocated = heap.allocated - (IF b.align > 1 THEN 0 ELSE k)
  BY <1>1, <1>2, DeallocCounts
<1>4. /\ IsFiniteSet(leaked') /\ Cardinality(leaked) \in Nat
      /\ Cardinality(leaked') = Cardinality(leaked) + (IF b.align > 1 THEN k ELSE 0)
  BY <1>1, LeakCounts DEF Counts
<1>5. Taken(live') \in Nat /\ Taken(live) = Taken(live') + k
  BY <1>1, <1>2, TakenLoses
<1>6. k \in Nat
  BY <1>2, HeldCovers DEF HeldBlock
<1>7. heap.allocated = Taken(live) + Cardinality(leaked)
  BY DEF Counts
<1>. HIDE DEF b, k
<1>8. heap'.allocated = Taken(live') + Cardinality(leaked')
  BY <1>3, <1>4, <1>5, <1>6, <1>7
<1>. QED  BY <1>4, <1>8 DEF Counts

LEMMA ReallocInPlaceCounts ==
    ASSUME IInv, Counts, NEW p \in Holders, NEW n \in Nat \ {0}, ReallocInPlace(p, n)
    PROVE  Counts'
<1>. DEFINE b == live[p]
            c == [b EXCEPT !.n = n]
            S == {q \in Holders : live[q] # Nothing}
<1>1. /\ b # Nothing /\ SameClass(b, n) /\ live' = [live EXCEPT ![p] = c]
      /\ heap' = heap /\ leaked' = leaked
  BY DEF ReallocInPlace
<1>2. b \in HeldBlock /\ live \in [Holders -> HeldBlock \cup {Nothing}]
  BY <1>1, HolderIs DEF IInv, Typed
<1>3. c.n = n /\ c.align = b.align /\ c # Nothing
  BY <1>2 DEF HeldBlock, Nothing
<1>4. Held(c.n, c.align) = Held(b.n, b.align)
  BY <1>1, <1>2, <1>3 DEF SameClass, Held, IsSmall
<1>. HIDE DEF c
<1>5. \A q \in Holders : live'[q] = IF q = p THEN c ELSE live[q]
  BY <1>1, <1>2
<1>6. \A q \in S : Weight(live', q) = Weight(live, q)
  BY <1>4, <1>5 DEF Weight
<1>7. {q \in Holders : live'[q] # Nothing} = S
  BY <1>1, <1>3, <1>5
<1>8. IsFiniteSet(S)
  BY AllocAssumption, FS_Subset
<1>9. Taken(live') = Sum(live', S) /\ Taken(live) = Sum(live, S)
  BY <1>7 DEF Taken
<1>. HIDE DEF S
<1>10. Sum(live', S) = Sum(live, S)
  <2>1. ASSUME NEW m, m = live', NEW l, l = live PROVE Sum(m, S) = Sum(l, S)
    BY <1>6, <1>8, <2>1, SameSum
  <2>. QED  BY <2>1
<1>. QED  BY <1>1, <1>9, <1>10 DEF Counts

LEMMA ReallocMovesCounts ==
    ASSUME IInv, Counts, NEW p \in Holders, NEW n \in Nat \ {0}, ReallocMoves(p, n)
    PROVE  Counts'
<1>. DEFINE b == live[p]
            o == AllocImpl(heap, n, b.align)
            d == Block(n, b.align, o.at)
            mid == [live EXCEPT ![p] = Nothing]
            k == Held(b.n, b.align)
            j == Held(n, b.align)
<1>1. /\ b # Nothing
      /\ IF o.at = Null THEN heap' = o.heap /\ UNCHANGED <<live, leaked>>
         ELSE /\ heap' = DeallocImpl(o.heap, b) /\ live' = [live EXCEPT ![p] = d]
              /\ leaked' = leaked \cup Leaks(b)
  BY DEF ReallocMoves
<1>2. /\ Typed /\ heap \in Heap /\ memory \in Nat /\ Partition(HeldPieces, heap, Wasted, owned)
      /\ memory \in Nat \ {0} /\ heap.end <= memory
  BY DEF IInv, Typed, Partition
<1>3. b \in HeldBlock /\ b.align \in Nat \ {0}
  BY <1>1, <1>2, HolderIs DEF HeldBlock
<1>4. o.heap.allocated = heap.allocated + (IF o.at = Null THEN 0 ELSE j)
  <2>. HIDE DEF o, b
  <2>. QED  BY <1>2, <1>3, AllocCounts DEF o
<1>5. o.at \in Nat /\ o.heap \in Heap
  <2>. DEFINE y == [of |-> <<"held">>, at |-> o.at, n |-> Held(n, b.align)]
  <2>1. Kind(y) = "held" /\ y.at = o.at /\ y.n = Held(n, b.align)
    BY DEF Kind
  <2>2. AllocKept(heap, o, y, HeldPieces, Wasted, owned)
    <3>. HIDE DEF y, o, b
    <3>. QED  BY <1>2, <1>3, <2>1, AllocKeeps DEF o
  <2>. QED  BY <2>2 DEF AllocKept
<1>6. HoldsBlocks(mid) /\ mid[p] = Nothing /\ Taken(mid) \in Nat /\ Taken(live) = Taken(mid) + k
  <2>. HIDE DEF mid
  <2>. QED  BY <1>1, <1>2, TakenLoses DEF mid
<1>7. k \in Nat /\ j \in Nat /\ heap.allocated = Taken(live) + Cardinality(leaked)
  BY <1>3, HeldCovers DEF HeldBlock, Counts
<1>8. /\ IsFiniteSet(leaked \cup Leaks(b)) /\ Cardinality(leaked) \in Nat
      /\ Cardinality(leaked \cup Leaks(b)) = Cardinality(leaked) + (IF b.align > 1 THEN k ELSE 0)
  BY <1>1, LeakCounts DEF Counts
<1>9. CASE o.at = Null
  <2>. HIDE DEF o
  <2>1. live' = live /\ leaked' = leaked /\ heap'.allocated = heap.allocated
    BY <1>1, <1>2, <1>4, <1>9, HeapFields
  <2>2. Taken(live') = Taken(live)
    BY <2>1
  <2>. QED  BY <2>1, <2>2 DEF Counts
<1>10. CASE o.at # Null
  <2>. HIDE DEF o
  <2>1. d \in HeldBlock /\ d # Nothing /\ d.n = n /\ d.align = b.align
    <3>. HIDE DEF b
    <3>. QED  BY <1>3, <1>5, BlockIs DEF Block
  <2>. HIDE DEF d
  <2>2. live' = [live EXCEPT ![p] = d] /\ heap' = DeallocImpl(o.heap, b)
        /\ leaked' = leaked \cup Leaks(b)
    BY <1>1, <1>10
  <2>3. live' = [mid EXCEPT ![p] = d]
    <3>1. live \in [Holders -> HeldBlock \cup {Nothing}]
      BY <1>2 DEF Typed
    <3>. QED  BY <2>2, <3>1
  <2>4. heap'.allocated = o.heap.allocated - (IF b.align > 1 THEN 0 ELSE k)
    <3>. HIDE DEF b
    <3>. QED  BY <1>3, <1>5, <2>2, DeallocCounts
  <2>. HIDE DEF mid
  <2>5. Taken(live') = Taken(mid) + j
    <3>1. ASSUME NEW l, HoldsBlocks(l), l[p] = Nothing, NEW m, m = [l EXCEPT ![p] = d]
          PROVE  Taken(m) = Taken(l) + Held(d.n, d.align)
      BY <2>1, <3>1, TakenAdds
    <3>2. Taken(live') = Taken(mid) + Held(d.n, d.align)
      BY <1>6, <2>3, <3>1
    <3>. QED  BY <2>1, <3>2
  <2>. HIDE DEF b, k, j
  <2>6. heap'.allocated = Taken(live') + Cardinality(leaked')
    BY <1>4, <1>6, <1>7, <1>8, <1>10, <2>2, <2>4, <2>5
  <2>. QED  BY <1>8, <2>2, <2>6 DEF Counts
<1>. QED  BY <1>9, <1>10

LEMMA InitCounts == Init => Counts
<1>. SUFFICES ASSUME Init PROVE Counts
  OBVIOUS
<1>1. heap.allocated = 0 /\ leaked = {} /\ live = [p \in Holders |-> Nothing]
  BY DEF Init, EmptyHeap
<1>2. Taken(live) = Sum(live, {})
  <2>1. {p \in Holders : live[p] # Nothing} = {}
    BY <1>1
  <2>. QED  BY <2>1 DEF Taken
<1>3. Sum(live, {}) = 0
  <2>. DEFINE g == CHOOSE h : Summing(live, {}, h)
  <2>1. Summing(live, {}, g)
    BY FS_EmptySet, SummingExists
  <2>2. Sum(live, {}) = g[{}]
    BY SumDef
  <2>. HIDE DEF g
  <2>3. g[{}] = Adds(live, {}, g)
    BY <2>1 DEF Summing
  <2>. QED  BY <2>2, <2>3 DEF Adds
<1>4. IsFiniteSet({}) /\ Cardinality({}) = 0
  BY FS_EmptySet
<1>. QED  BY <1>1, <1>2, <1>3, <1>4 DEF Counts

(* The counter the memory limit is checked against is exact after any       *)
(* sequence of calls that find a block, find none, move it or free it.      *)
THEOREM CounterExact == Spec => []AllocatedExact
<1>1. IInv /\ Counts /\ [Next]_vars => Counts'
  <2>. SUFFICES ASSUME IInv, Counts, [Next]_vars PROVE Counts'
    OBVIOUS
  <2>1. \A l \in Layouts : l[1] \in Nat \ {0} /\ l[2] \in Nat \ {0}
    BY AllocAssumption
  <2>2. CASE ForeignGrow \/ UNCHANGED vars
    <3>1. heap' = heap /\ live' = live /\ leaked' = leaked
      BY <2>2 DEF ForeignGrow, vars
    <3>2. Taken(live') = Taken(live)
      BY <3>1
    <3>. QED  BY <3>1, <3>2 DEF Counts
  <2>. QED  BY <2>1, <2>2, AhiruAllocCounts, DeallocStepCounts, ReallocInPlaceCounts,
               ReallocMovesCounts DEF Next
<1>2. IInv /\ Counts => AllocatedExact
  BY TakenIs DEF Counts, AllocatedExact
<1>. QED  BY <1>1, <1>2, InitCounts, Inductive, PTL DEF Spec
================================================================================
