--------------------------------- MODULE MulDiv ---------------------------------
(***************************************************************************)
(* The multiplier and the divider around EX/MEM: a division waits in MEM   *)
(* and its busy signal holds EX, the multiplier's register and the stage   *)
(* register alike; a trap or a halt flushes the divider and the stage, but *)
(* not the multiplier.  One step is one clock cycle; what EX holds is free. *)
(***************************************************************************)
EXTENDS Divider

CONSTANT Half

ASSUME HalfAssumption == Half \in Nat /\ Half % 2 = 0 /\ Half * Half = M

VARIABLES funct3, product, inmem

Mul == INSTANCE Multiplier

allvars == <<vars, funct3, product, inmem>>
-----------------------------------------------------------------------------
MDInit == Init /\ Mul!Init

(* A division's operands go through the multiplier too, where its funct3   *)
(* falls into the unsigned default.                                        *)
IssueDiv ==
  /\ ~Busy
  /\ \E op \in Ops : Cycle(op, FALSE) /\ Mul!Cycle([op EXCEPT !.funct3 = "mulhu"], None, FALSE)

IssueMul == ~Busy /\ Work /\ \E o \in Mul!Op : Mul!Cycle(o, o, FALSE)

(* Another instruction leaves EX, or what is in EX is cleared by a branch. *)
(* It goes through the multiplier as well, as a few products.              *)
Others == {o \in Mul!Op : o.funct3 = "mulhu" /\ o.rs1 = o.rs2}
IssueOther == ~Busy /\ Work /\ \E o \in Others : Mul!Cycle(o, None, FALSE)

(* MEM waits, for the divider or, with a load or store in it, for memory.  *)
Stall == Busy \/ (pending = None /\ inmem = None)
Wait  == Stall /\ Work /\ Mul!Hold(FALSE)

(* A trap, or a halted core, with EX held or not.                          *)
Squash ==
  /\ Flush
  /\ Mul!Hold(TRUE) \/ (~Busy /\ \E o \in Others : Mul!Cycle(o, None, TRUE))

MDNext == IssueDiv \/ IssueMul \/ IssueOther \/ Wait \/ Squash

(* The clock runs while MEM waits.                                         *)
MDSpec == MDInit /\ [][MDNext]_allvars /\ WF_allvars(Wait)
-----------------------------------------------------------------------------
(* A multiplication in MEM has the half of the exact product it asks for,  *)
(* whatever was in EX, stalled or was flushed before it.                   *)
ProductRight == Mul!HalfRight

(* FMUL finds the whole product of its mantissas.                          *)
FullRight == Mul!WholeRight

(* No multiplication enters MEM while a division waits there for its       *)
(* answer: the divider's busy signal leaves no cycle out.                  *)
NotPassed == pending # None => inmem = None
=============================================================================
