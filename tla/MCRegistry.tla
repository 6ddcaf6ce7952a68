----------------------------- MODULE MCRegistry -----------------------------
(* One name with two spellings beside an unrelated one; Plain names have    *)
(* one spelling each.                                                       *)
EXTENDS Registry
CONSTANTS a, A, b
MCNames == {a, A, b}
MCFold == a :> a @@ A :> a @@ b :> b
PlainNames == {a, b}
PlainFold == a :> a @@ b :> b
Symmetric == Permutations(Objects)
=============================================================================
