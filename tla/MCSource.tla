------------------------------ MODULE MCSource ------------------------------
(* A file of up to six bytes, every length and every offset in it; two      *)
(* compressed pages and a decoded budget that holds one large page or two   *)
(* small ones.                                                              *)
EXTENDS Source
MCPages == {<<0, 2>>, <<2, 3>>}
=============================================================================
