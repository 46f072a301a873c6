-------------------------------- MODULE CsrIsa --------------------------------
(***************************************************************************)
(* The abstract specification of the CSR file: CSR instructions, traps and *)
(* returns, each atomic.                                                   *)
(***************************************************************************)
EXTENDS CsrMap

CONSTANTS Ops, Pcs, Causes, Tvals
VARIABLE csr

Init == csr = [c \in Csr |-> {}]

Exec(o) == csr' = [c \in Csr |-> Written(o, c, csr[c])]

Enter(pc, cause, tval) ==
  csr' = [csr EXCEPT !["mstatus"] = OnTrap(@), !["mepc"] = pc,
                     !["mcause"] = cause, !["mtval"] = tval]

Return == csr' = [csr EXCEPT !["mstatus"] = OnReturn(@)]

Next == \/ \E o \in Ops : Exec(o)
        \/ \E pc \in Pcs, cause \in Causes, tval \in Tvals : Enter(pc, cause, tval)
        \/ Return

Spec == Init /\ [][Next]_csr
=============================================================================
