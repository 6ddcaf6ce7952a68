------------------------------- MODULE Alloc -------------------------------
(***************************************************************************)
(* The global allocator of the WebAssembly build (rt/alloc.rs): size       *)
(* classes with a free list each, a best-fit list of larger blocks in      *)
(* address order that is coalesced on every free, and a bump region grown  *)
(* with memory.grow.  Addresses and sizes count granules of 16 bytes, so   *)
(* round16 is the identity and class c holds 2^c granules.                 *)
(***************************************************************************)
EXTENDS Integers, Sequences, FiniteSetsExt

CONSTANTS
    Holders,      \* the places in the program that hold a block
    NumClasses,   \* size classes; the largest holds 2^(NumClasses - 1)
    Page,         \* granules of a page of linear memory
    GrowPages,    \* pages reserved by one memory.grow, at least
    Space,        \* granules of the address space
    Base,         \* the size of linear memory before the heap's first page
    Layouts       \* the sizes and alignments callers ask for, <<n, align>>; an
                  \* alignment of 1 stands for those of 16 bytes and less

ASSUME AllocAssumption ==
    /\ IsFiniteSet(Holders)
    /\ NumClasses \in Nat \ {0} /\ Page \in Nat \ {0} /\ GrowPages \in Nat \ {0}
    /\ Space \in Nat /\ Base \in 1..Space
    /\ Layouts \subseteq (Nat \ {0}) \X (Nat \ {0})

VARIABLES
    heap,       \* struct Heap: [small, large, bump, end, allocated]
    memory,     \* the size of linear memory
    live,       \* what each holder holds: its Layout, its address, and where
                \* the granules taken for it start
    owned,      \* history: the granules memory.grow gave the heap
    discarded,  \* history: those of them a region that did not follow the last left
    leaked      \* history: those freed with an alignment above 16 bytes

vars == <<heap, memory, live, owned, discarded, leaked>>

Classes == 0..(NumClasses - 1)
MaxSmall == 2 ^ (NumClasses - 1)
Null == 0
Nothing == [n |-> 0, align |-> 1, at |-> Null, from |-> Null]

EmptyHeap ==
    [small |-> [c \in Classes |-> <<>>], large |-> {}, bump |-> 0, end |-> 0, allocated |-> 0]

Init ==
    /\ heap = EmptyHeap
    /\ memory = Base
    /\ live = [p \in Holders |-> Nothing]
    /\ owned = {}
    /\ discarded = {}
    /\ leaked = {}

ClassSize(c) == 2 ^ c
ClassOf(n) == CHOOSE c \in Classes : ClassSize(c) >= n /\ \A d \in Classes : ClassSize(d) >= n => c <= d
IsSmall(n, align) == align = 1 /\ n <= MaxSmall

\* The granules taken for a Layout; dealloc works them out again from it.
Held(n, align) ==
    CASE align > 1 -> n + align
      [] IsSmall(n, align) -> ClassSize(ClassOf(n))
      [] OTHER -> n

Granules(at, n) == at..(at + n - 1)

-----------------------------------------------------------------------------
(* The bump region.  An outcome is the heap and the memory after a call,   *)
(* and the address it returns.                                             *)

Outcome(h, mem, at) == [heap |-> h, memory |-> mem, at |-> at]

\* What one memory.grow asks for.
Growth(n) ==
    LET pages == (n + Page - 1) \div Page
    IN Page * (IF pages > GrowPages THEN pages ELSE GrowPages)

\* A region that does not follow the last one replaces it.
Grow(h, n) ==
    [h EXCEPT !.bump = IF memory = h.end THEN @ ELSE memory, !.end = memory + Growth(n)]

Bumped(h, n) == [h EXCEPT !.bump = @ + n]

\* memory.grow fails past the address space (and a refusal any earlier is a call
\* that changes nothing); a region that ends where the address space does is added
\* to it but never used, since its end overflows.
Carve(h, n) ==
    IF h.bump + n <= h.end THEN Outcome(Bumped(h, n), memory, h.bump)
    ELSE IF memory + Growth(n) > Space THEN Outcome(h, memory, Null)
    ELSE IF memory + Growth(n) = Space THEN Outcome(h, Space, Null)
    ELSE Outcome(Bumped(Grow(h, n), n), memory + Growth(n), Grow(h, n).bump)

-----------------------------------------------------------------------------
(* The large free list: a set, since its order is that of the addresses.   *)

Fits(h, need) == {b \in h.large : b.n >= need}

\* The smallest block that fits, and of those the lowest.
BestFit(h, need) ==
    CHOOSE b \in Fits(h, need) :
        \A c \in Fits(h, need) : b.n < c.n \/ (b.n = c.n /\ b.at <= c.at)

\* Mutant: a tail no request can use is dropped.
TakeLarge_DropsSmallTail(h, need) ==
    LET b == BestFit(h, need)
        rest == IF b.n > need + MaxSmall THEN {[at |-> b.at + need, n |-> b.n - need]} ELSE {}
    IN [h EXCEPT !.large = (@ \ {b}) \cup rest]

\* take_large: the tail of the block keeps its place in the list.
TakeLarge(h, need) ==
    LET b == BestFit(h, need)
        rest == IF b.n > need THEN {[at |-> b.at + need, n |-> b.n - need]} ELSE {}
    IN [h EXCEPT !.large = (@ \ {b}) \cup rest]

Touching(h, at, n) == {b \in h.large : b.at + b.n = at \/ at + n = b.at}

\* A freed block with the free blocks it touches.
Merged(h, at, n) ==
    LET before == {b \in h.large : b.at + b.n = at}
        after == {b \in h.large : at + n = b.at}
        first == IF before = {} THEN at ELSE (CHOOSE b \in before : TRUE).at
        past == IF after = {} THEN at + n ELSE LET b == CHOOSE b \in after : TRUE IN b.at + b.n
    IN [at |-> first, n |-> past - first]

\* Mutant: a freed block is only merged with the block after it.
PutLarge_ForwardOnly(h, at, n) ==
    LET after == {b \in h.large : at + n = b.at}
        past == IF after = {} THEN at + n ELSE LET b == CHOOSE b \in after : TRUE IN b.at + b.n
        b == [at |-> at, n |-> past - at]
        others == h.large \ after
    IN IF past = h.bump
       THEN [h EXCEPT !.large = others, !.bump = at]
       ELSE [h EXCEPT !.large = others \cup {b}]

\* put_large: what reaches the bump pointer goes back to the bump region.
PutLarge(h, at, n) ==
    LET b == Merged(h, at, n)
        others == h.large \ Touching(h, at, n)
    IN IF b.at + b.n = h.bump
       THEN [h EXCEPT !.large = others, !.bump = b.at]
       ELSE [h EXCEPT !.large = others \cup {b}]

-----------------------------------------------------------------------------
(* alloc_impl and dealloc_impl. *)

\* Mutant: a call that found no memory is counted too.
Counted_Failed(o, n) == [o EXCEPT !.heap.allocated = @ + n]

Counted(o, n) ==
    IF o.at = Null THEN o ELSE [o EXCEPT !.heap.allocated = @ + n]

\* The first multiple of an alignment from an address on.
AlignUp(at, align) == align * ((at + align - 1) \div align)

AllocImpl(h, n, align) ==
    LET held == Held(n, align)
        c == ClassOf(n)
    IN IF IsSmall(n, align) /\ h.small[c] # <<>>
       THEN Counted(Outcome([h EXCEPT !.small[c] = Tail(@)], memory, Head(h.small[c])), held)
       ELSE IF align = 1 /\ ~IsSmall(n, align) /\ Fits(h, held) # {}
       THEN Counted(Outcome(TakeLarge(h, held), memory, BestFit(h, held).at), held)
       ELSE Counted(Carve(h, held), held)

DeallocImpl(h, b) ==
    LET held == Held(b.n, b.align)
        c == ClassOf(b.n)
    IN IF IsSmall(b.n, b.align)
       THEN [h EXCEPT !.small[c] = <<b.at>> \o @, !.allocated = @ - held]
       ELSE IF b.align > 1 THEN h
       ELSE [PutLarge(h, b.at, held) EXCEPT !.allocated = @ - held]

Block(n, align, from) ==
    [n |-> n, align |-> align, from |-> from,
     at |-> IF align > 1 THEN AlignUp(from, align) ELSE from]

\* What memory.grow gave the heap, and what its old region loses by it.
Gained(h, o) == IF o.heap.end = h.end THEN {} ELSE memory..(o.heap.end - 1)
Dropped(h, o) ==
    IF o.heap.end # h.end /\ memory # h.end THEN h.bump..(h.end - 1) ELSE {}

Account(h, o) ==
    /\ owned' = owned \cup Gained(h, o)
    /\ discarded' = discarded \cup Dropped(h, o)

-----------------------------------------------------------------------------
(* The calls. *)

AhiruAlloc(p, n, align) ==
    /\ live[p] = Nothing
    /\ LET o == AllocImpl(heap, n, align)
       IN /\ heap' = o.heap /\ memory' = o.memory
          /\ live' = IF o.at = Null THEN live
                     ELSE [live EXCEPT ![p] = Block(n, align, o.at)]
          /\ Account(heap, o)
    /\ UNCHANGED leaked

\* The granules a freed block takes with it.
Leaks(b) == IF b.align > 1 THEN Granules(b.from, Held(b.n, b.align)) ELSE {}

Dealloc(p) ==
    /\ live[p] # Nothing
    /\ heap' = DeallocImpl(heap, live[p])
    /\ live' = [live EXCEPT ![p] = Nothing]
    /\ leaked' = leaked \cup Leaks(live[p])
    /\ UNCHANGED <<memory, owned, discarded>>

\* Mutant: any two small sizes are alike.
SameClass_AnySmall(b, n) ==
    IsSmall(b.n, b.align) /\ IsSmall(n, b.align)

\* Whether a block need not move to hold a new size.
SameClass(b, n) ==
    IsSmall(b.n, b.align) /\ IsSmall(n, b.align) /\ ClassOf(b.n) = ClassOf(n)

\* In place within a size class; otherwise a new block, and the old one freed
\* only if there was one to be had.
ReallocInPlace(p, n) ==
    /\ live[p] # Nothing
    /\ SameClass(live[p], n)
    /\ live' = [live EXCEPT ![p].n = n]
    /\ UNCHANGED <<heap, memory, owned, discarded, leaked>>

ReallocMoves(p, n) ==
    LET b == live[p] IN
    /\ b # Nothing
    /\ ~SameClass(b, n)
    /\ LET o == AllocImpl(heap, n, b.align)
       IN /\ memory' = o.memory
          /\ Account(heap, o)
          /\ IF o.at = Null
             THEN heap' = o.heap /\ UNCHANGED <<live, leaked>>
             ELSE /\ heap' = DeallocImpl(o.heap, b)
                  /\ live' = [live EXCEPT ![p] = Block(n, b.align, o.at)]
                  /\ leaked' = leaked \cup Leaks(b)

\* Something other than the heap adds a page to linear memory.
ForeignGrow ==
    /\ memory + Page < Space
    /\ memory' = memory + Page
    /\ UNCHANGED <<heap, live, owned, discarded, leaked>>

Next ==
    \/ \E p \in Holders :
         \/ \E l \in Layouts : AhiruAlloc(p, l[1], l[2])
         \/ Dealloc(p)
         \/ \E l \in Layouts : l[2] = live[p].align /\ ReallocInPlace(p, l[1])
         \/ \E l \in Layouts : l[2] = live[p].align /\ ReallocMoves(p, l[1])
    \/ ForeignGrow

Spec == Init /\ [][Next]_vars

-----------------------------------------------------------------------------
(* Properties. *)

TypeOK ==
    /\ heap.small \in [Classes -> Seq(Nat)]
    /\ heap.large \subseteq [at : Nat, n : Nat]
    /\ heap.bump \in Nat /\ heap.end \in Nat /\ heap.allocated \in Nat
    /\ memory \in Nat
    /\ live \in [Holders -> [n : Nat, align : Nat, at : Nat, from : Nat]]

Holding == {p \in Holders : live[p] # Nothing}
HeldBy(p) == Held(live[p].n, live[p].align)

\* Where the heap's memory is: with its holder, on a free list, or not yet carved.
\* A class's list is a stack, whose k-th block counts from the bottom.
HeldPieces == {[of |-> <<"held", p>>, at |-> live[p].from, n |-> HeldBy(p)] : p \in Holding}
SmallPiece(h, c, k) ==
    [of |-> <<"small", c, k>>, at |-> h.small[c][Len(h.small[c]) + 1 - k], n |-> ClassSize(c)]
SmallPieces(h, c) == {SmallPiece(h, c, k) : k \in 1..Len(h.small[c])}
LargePiece(b) == [of |-> <<"large", b.at>>, at |-> b.at, n |-> b.n]
LargePieces(h) == {LargePiece(b) : b \in h.large}
BumpPiece(h) == [of |-> <<"bump">>, at |-> h.bump, n |-> h.end - h.bump]
FreePieces(h) == (UNION {SmallPieces(h, c) : c \in Classes}) \cup LargePieces(h) \cup {BumpPiece(h)}
Pieces == HeldPieces \cup FreePieces(heap)

Of(piece) == Granules(piece.at, piece.n)
Wasted == discarded \cup leaked

\* No granule has two uses: it is in one held block, or on one free list once, or
\* still to be carved.  A free list that keeps a block which was handed out, or a
\* merge or a split that is off by one, lets two owners write to the same memory.
NoOverlap ==
    /\ \A x, y \in Pieces : x = y \/ x.at + x.n <= y.at \/ y.at + y.n <= x.at
    /\ \A x \in Pieces : \A g \in Wasted : g < x.at \/ g >= x.at + x.n

\* Every granule memory.grow gave the heap is held, free, still to be carved, or in
\* one of the two kinds of waste the code accepts: a split's remainder, a class's
\* rounding or a merge never drops one.
NothingLost == owned = Wasted \cup UNION {Of(x) : x \in Pieces}

\* No two free blocks touch, and none reaches the bump region: freeing coalesces.
Coalesced ==
    \A b \in heap.large :
        /\ b.at + b.n # heap.bump
        /\ \A c \in heap.large : b.at + b.n # c.at

\* The counter the memory limit is checked against is the size of what is held,
\* with what over-aligned blocks leaked, after any sequence of calls that fail,
\* move or reuse blocks.
AllocatedExact == heap.allocated = MapThenSumSet(HeldBy, Holding) + Cardinality(leaked)

\* What the large list and the bump region have left, granule by granule.
Unused(h) == Of(BumpPiece(h)) \cup UNION {Of(l) : l \in LargePieces(h)}

\* Linear memory grows for a large block only when no run of free granules, of the
\* large list or the bump region, is as long as it: without coalescing on every
\* free a repeated workload grows it without bound.
GrowsOnlyWhenNothingFits ==
    [][\A p \in Holders :
         LET b == live'[p]
         IN heap'.end # heap.end /\ b # live[p] /\ b.align = 1 /\ b.n > MaxSmall
              => ~\E at \in Unused(heap) : Granules(at, b.n) \subseteq Unused(heap)]_vars

=============================================================================
