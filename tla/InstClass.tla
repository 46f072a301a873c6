------------------------------ MODULE InstClass ------------------------------
(***************************************************************************)
(* The classes of instructions the register pipeline tells apart, and the  *)
(* control bits the decoder raises for each of them.                       *)
(*                                                                         *)
(*   alu     R-type: ALU and crypto operations on rs1 and rs2              *)
(*   imm     I-type ALU operations, and the CSR instructions               *)
(*   lui     LUI and AUIPC: no register source                             *)
(*   jump    JALR (JAL is the same without the use of rs1)                 *)
(*   load, store, branch, mul, div                                         *)
(*   fp      f-register to f-register: FADD, FSUB, FMUL, FSGNJx, FMIN/MAX  *)
(*   f2i     f-register to GPR: FCVT.W.S, FCVT.WU.S, FMV.X.W               *)
(*   i2f     GPR to f-register: FCVT.S.W, FCVT.S.WU, FMV.W.X               *)
(*   mret    MRET                                                          *)
(*   sys     everything that raises illegal_inst (ECALL and EBREAK do)      *)
(*   nop     a cleared pipeline register: the all-zero instruction         *)
(***************************************************************************)

Classes == {"alu", "imm", "lui", "jump", "load", "store", "branch", "mul",
            "div", "fp", "f2i", "i2f", "mret", "sys"}

(* The decoder's outputs for each class (decode_control).                  *)
RegWrite(op)   == op \in {"alu", "imm", "lui", "jump", "load", "mul", "div", "f2i"}
FpRegWrite(op) == op \in {"fp", "i2f"}
FpWbToInt(op)  == op = "f2i"
FpUsesRs1(op)  == op \in {"fp", "f2i"}
FpUsesRs2(op)  == op = "fp"
RType(op)      == op \in {"alu", "mul", "div"}
IsFp(op)       == op \in {"fp", "f2i", "i2f"}

(* The sources the hazard controller is told that EX will use.             *)
ExeUseRs1(op) == op # "lui"
ExeUseRs2(op) == RType(op) \/ op = "branch"

(* The sources the instruction really has in the ISA: GPRs, f-registers.   *)
ReadsX1(op) == op \in {"alu", "imm", "jump", "load", "store", "branch", "mul",
                       "div", "i2f"}
ReadsX2(op) == RType(op) \/ op \in {"branch", "store"}
=============================================================================
