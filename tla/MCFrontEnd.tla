------------------------------ MODULE MCFrontEnd ------------------------------
(***************************************************************************)
(* Instances of FrontEnd for TLC: four words of program.                   *)
(***************************************************************************)
EXTENDS FrontEndInv

(* Layouts of compressed and 32-bit instructions: one kind only, 32-bit in *)
(* words, across words, mixed, across the end of memory, and programs that *)
(* a jump reads from the second half of an instruction.                    *)
MCSome == {{}, {0, 2, 4, 6}, {1, 3, 5, 7}, {0, 3, 5}, {7}, {2, 3, 6}}

(* The debugger lets the core run, and steps it with interrupts or         *)
(* without.  (After reset dcsr is zero.)                                   *)
Dcsr(step, stepie) == [step |-> step, stepie |-> stepie]
MCDcsrs == {Dcsr(FALSE, FALSE), Dcsr(TRUE, TRUE), Dcsr(TRUE, FALSE)}
=============================================================================
