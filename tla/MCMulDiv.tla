-------------------------------- MODULE MCMulDiv --------------------------------
(***************************************************************************)
(* An instance of MulDiv for TLC: words of six bits, three steps.          *)
(***************************************************************************)
EXTENDS MulDiv

MCScale == [i \in 0..Steps |-> 4 ^ i]

(* The ends and the middle of the range, and what divides unevenly.        *)
MCSix == {0, 3, 32, 63}
=============================================================================
