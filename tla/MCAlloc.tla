------------------------------ MODULE MCAlloc ------------------------------
(* A heap of a few pages for TLC, the places that hold blocks alike: two   *)
(* small classes, two large sizes, one over-aligned request.               *)
EXTENDS Alloc, TLC

MCLayouts == {<<2, 1>>, <<3, 1>>, <<5, 1>>, <<7, 1>>, <<5, 3>>}

Symmetry == Permutations(Holders)

=============================================================================
