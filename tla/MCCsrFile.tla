------------------------------- MODULE MCCsrFile -------------------------------
(***************************************************************************)
(* Instances of CsrFile for TLC: few words, with the bits that matter.     *)
(***************************************************************************)
EXTENDS CsrFile

O(cmd, addr, data) == [cmd |-> cmd, addr |-> addr, data |-> data]

(* Interrupts on and off, a register a trap writes too, and the two         *)
(* floating-point CSRs under their common address.                         *)
MixOps == {O("set", "mstatus", {3}), O("set", "mie", {7, 11}), O("write", "mepc", {0, 2}),
           O("write", "fcsr", {0, 5, 7})}

(* The floating-point CSRs alone.                                          *)
FpOps == {O("write", "fcsr", {0, 5, 7}), O("set", "frm", {0, 1}), O("write", "frm", {0, 5}),
          O("set", "fflags", {1, 5}), O("clear", "fcsr", {0, 1, 5})}

MCPc == {{2}}
=============================================================================
