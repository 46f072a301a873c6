------------------------------ MODULE MCRegression ------------------------------
(***************************************************************************)
(* Instances of Regression for TLC: short traces over two registers.       *)
(***************************************************************************)
EXTENDS Regression

CONSTANTS ra, rb

W(r, v) == [rd |-> r, val |-> v]
MCEntries == {NoGpr, W(ra, 0), W(ra, 1), W(rb, 1)}
Upto(n) == UNION {[1..k -> MCEntries] : k \in 0..n}

MCRegs == {ra, rb}

(* References of up to two entries, with one of three for the other        *)
(* iteration, and every trace of up to three.                              *)
MCRefs ==
  LET short == {t \in Upto(2) : t # << >> /\ t[1] # NoGpr}
  IN {<<t, <<W(ra, 1), NoGpr, W(ra, 0)>>>> : t \in short \cup {<<NoGpr, W(ra, 1)>>}}
MCTraces == Upto(3)

(* One iteration.                                                          *)
MCOneRef == {<<t>> : t \in Upto(3) \ {<< >>}}
=============================================================================
