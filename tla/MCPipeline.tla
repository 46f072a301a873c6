----------------------------- MODULE MCPipeline -----------------------------
(***************************************************************************)
(* Instances of Pipeline for TLC: one register besides x0, one-bit words,  *)
(* and instruction mixes chosen so that every pair of a producer and a     *)
(* consumer meets at every distance.                                       *)
(***************************************************************************)
EXTENDS PipelineInv, Naturals

CONSTANTS MCX0, R1

I(op, rd, rs1, rs2) == [op |-> op, rd |-> rd, rs1 |-> rs1, rs2 |-> rs2]

MCReg == {MCX0, R1}

(* A result that tells every operand apart from its complement.            *)
MCResult(i, a, b, fa, fb) ==
  IF Junk \in {a, b, fa, fb} THEN Junk ELSE (a + b + fa + fb + 1) % 2

(* Integer instructions: ALU chains, x0 as destination, load to use and to *)
(* store data, multiply to use, divisions, jumps and returns.              *)
IntMix == {I("alu", R1, R1, MCX0), I("imm", MCX0, R1, R1), I("load", R1, R1, R1), I("mul", R1, R1, R1),
           I("jump", R1, R1, MCX0), I("store", MCX0, MCX0, R1), I("mret", MCX0, MCX0, MCX0), I("div", R1, R1, R1)}

(* Floating point among all that stalls, and f2i between consumers.        *)
AllFpMix == {I("fp", R1, R1, R1), I("f2i", R1, R1, MCX0), I("i2f", R1, R1, MCX0), I("load", R1, MCX0, MCX0),
             I("mul", R1, R1, R1), I("div", R1, R1, R1), I("branch", MCX0, R1, R1)}

(* What one run needs to show a disagreement.                              *)
StoreF2IMix == {I("f2i", R1, R1, MCX0), I("store", MCX0, MCX0, R1)}
=============================================================================
