------------------------------- MODULE MCPump -------------------------------
(* Four bytes, and queries whose ranges start alike, leave a hole, or join. *)
EXTENDS Pump

MCQueries ==
    {[wants |-> {<<0, 1>>}, pages |-> {}],
     [wants |-> {<<0, 2>>, <<3, 1>>}, pages |-> {<<1, 1>>}],
     [wants |-> {<<2, 1>>}, pages |-> {}],
     [wants |-> {<<0, 4>>}, pages |-> {}]}

MCSpoiled == {<<0, 2>>, <<3, 1>>}

=============================================================================
