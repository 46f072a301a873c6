-------------------------------- MODULE MCTraces --------------------------------
(***************************************************************************)
(* An instance of TracePseudo for TLC: addresses of six bits.  Programs    *)
(* are the sequences of two instructions out of Basics or of three out of  *)
(* a few of them, those that write one register each, and those of a       *)
(* pseudo instruction each.                                                *)
(***************************************************************************)
EXTENDS TracePseudo

U(bank, k, v) == <<[rd |-> <<bank, k>>, val |-> v]>>
Op(kind, op, args, upd) == I(0, kind, op, args, upd)
Jal(r, k, off) == Op("plain", "jal", <<Reg(r), Imm(off)>>, U("x", k, 4))

Few == {Op("plain", "w", << >>, U("x", 5, 0)), Op("plain", "w", << >>, U("x", 5, 1)),
        Op("plain", "w", << >>, U("f", 5, 1)), Op("bare", "fence.i", << >>, << >>)}
Basics == Few \cup
  {Op("plain", "w", << >>, U("x", 0, 1)), Op("plain", "store", << >>, << >>),
   Op("wfi", "wfi", << >>, << >>), Op("illegal", "w", << >>, << >>),
   Jal("ra", 1, 8), Jal("ra", 1, -8), Jal("zero", 0, 12)}

PseudoOps ==
  {[Op("plain", op, Operands(op, by), << >>) EXCEPT !.digit = d] :
     op \in Pseudos, by \in {8, -8}, d \in {2, 7}}

MCPrograms ==
  UNION {[1..k -> Basics] : k \in 0..2} \cup [1..3 -> Few]
  \cup {<<Op("plain", "w", << >>, U(bank, k, 1))>> : bank \in {"x", "f"}, k \in 0..31}
  \cup {<<i>> : i \in PseudoOps}
MCFaults == {<< >>, U("x", 5, 1), U("x", 6, 0), U("f", 5, 1)}
MCRegs == {GprToAbi(<<bank, k>>) : bank \in {"x", "f"}, k \in 0..31}

MCInts == {-32, -31, -8, -4, -1, 0, 1, 4, 31}
MCWords == {{}, 0..31, {0, 5, 9, 31}} \cup {{k} : k \in 0..31}
=============================================================================
