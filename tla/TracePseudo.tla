------------------------------- MODULE TracePseudo -------------------------------
(***************************************************************************)
(* TraceFlow with the meaning of the instructions: what a CSV names must   *)
(* be what ran.  Addresses have the width of PseudoIsa's integers.         *)
(***************************************************************************)
EXTENDS TraceFlow, PseudoIsa

CONSTANTS
  Ints,          (* register values, for arithmetic and branches              *)
  Words          (* register values, for logic and CSRs, as sets of bits      *)

(* A pseudo instruction: jal and jalr are ones if they name no register.   *)
(* Those that jump have an offset, their last operand.                     *)
IsPseudo(i, ops) == i.op \in ops /\ (i.op \in {"jal", "jalr"} => Len(i.args) = 1)
Target(i) ==
  IF i.op \in {"j", "jal"} \cup Branches \cup TwoBranches THEN i.args[Len(i.args)].v ELSE 0

ASSUME TracePseudoAssumption ==
  /\ Word = 2^W /\ Ints \subseteq -(2^(W - 1))..(2^(W - 1) - 1)
  /\ Words \subseteq SUBSET (0..31)
  /\ \A p \in Programs : \A k \in 1..Len(p) : IsPseudo(p[k], Pseudos) =>
       p[k].args = Operands(p[k].op, Target(p[k])) /\ Target(p[k]) \in Int

(* The states of the hart that a pseudo instruction is tried in.           *)
Harts(i) ==
  LET high == IF i.op = "zext.w" THEN {w \cup {b} : w \in Words, b \in {32, 63}} ELSE Words
  IN IF i.op \in BitPseudos
     THEN [rs : high, rt : {{}}, csr : {{}, {0, 1}}, ra : {{}}, zero : {{}},
           xlen : {IF i.op = "zext.w" THEN 64 ELSE 32}, off : {0}]
     ELSE [rs : Ints, rt : Ints, csr : {0}, ra : {0}, zero : {0}, xlen : {32}, off : {Target(i)}]

Same(i, e) ==
  \A h \in Harts(i) : Regular(Instr(e.op, e.operand), h) = Meaning(i.op, h)

(* The instruction that a full CSV names for a pseudo instruction does to  *)
(* the registers, the CSR and the pc what the pseudo instruction does,     *)
(* whatever they hold: in Spike's CSV all but csrr, which becomes a csrrw  *)
(* that clears the CSR; in OVPsim's also not the branches whose target is  *)
(* left absolute.                                                          *)
SameMeaning ==
  LET all == Pseudos \ {"csrr"}
  IN /\ full => \A k \in DOMAIN spike.csv :
          IsPseudo(ran[k].i, all) => Same(ran[k].i, spike.csv[k])
     /\ \A k \in DOMAIN ovp.csv :
          IsPseudo(ran[k].i, all \ TwoBranches) => Same(ran[k].i, ovp.csv[k])
=============================================================================
