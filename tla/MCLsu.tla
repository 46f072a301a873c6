---------------------------------- MODULE MCLsu ----------------------------------
(***************************************************************************)
(* An instance of Lsu for TLC: every load and store of one word, with      *)
(* loads and stores of its neighbour.  The bytes of the data are           *)
(* different, and some are negative.                                       *)
(***************************************************************************)
EXTENDS Lsu

A == <<129, 2, 131, 4>>
B == <<5, 134, 7, 136>>

MCBoth ==
  {i \in Loads : i.addr < 4 \/ i.op \in {"h", "w"}}
    \union {i \in [kind : {"store"}, op : {"b", "h", "w"}, addr : Addr, data : {A, B}] :
             IF i.data = A THEN i.addr < 4 ELSE i.addr \in {2, 4, 6} /\ i.op \in {"h", "w"}}
=============================================================================
