------------------------------ MODULE FrontEndInv ------------------------------
(***************************************************************************)
(* The inductive invariant of FrontEnd, for MretHazard, SkewedRefill and   *)
(* HaltAnytime off: what is in the pipeline is a piece of the program's    *)
(* path without a gap, from where the program is to what is fetched next.  *)
(***************************************************************************)
EXTENDS FrontEnd

Orderly == ~MretHazard /\ ~SkewedRefill /\ ~HaltAnytime

Succ(a) == Plus(a, Length(a))

(* The next address that each stage will take, if all before it are empty: *)
(* from iadu, from ID, from EX; and the oldest instruction on its way.     *)
FromIadu == IF pc2 = None THEN pc1 ELSE CorrectedPc2
FromId   == IF id.inst = <<>> THEN FromIadu ELSE id.pc
FromEx   == IF ex = None THEN FromId ELSE ex
Oldest   == IF mem.pc = None THEN FromEx ELSE mem.pc

(* The word in IF2 is the one its PC names, and the PC of the fetch stage  *)
(* follows: the same word once more in HOLD, or the next one.              *)
WordRight ==
  /\ clrff => pc2 = None
  /\ pc2 # None => /\ InstIf2 = WordOf(pc2)
                   /\ pc1 = IF state = "HOLD" THEN pc2 ELSE Plus(pc2, 2)
  /\ pc2 = None => clrff \/ InstIf2 = None

(* What iadu remembers of the last word is the beginning of the next       *)
(* instruction, and ID holds the one before it unless a jump went to the   *)
(* second half of a word.                                                  *)
IaduRight ==
  /\ pc2 = None => state = "NORMAL"
  /\ state # "NORMAL" => prev # None /\ High(prev) = CorrectedPc2
  /\ state = "HOLD" => pc2 % 2 = 0 /\ High(prev) \notin wide /\ id.inst # <<>>
  /\ state = "FETCH_UPPER" => High(prev) \in wide /\ (id.inst = <<>> => Misaligned)

(* A clear leaves nothing behind it, and a core that has not run is empty. *)
EmptyRight ==
  /\ id.pc = None <=> id.inst = <<>>
  /\ mem.pc = None => mem.kind = "plain"
  /\ clrff \/ ~runff => pc2 = None /\ id.inst = <<>> /\ ex = None /\ mem.pc = None
  /\ ~runff => ~wb

(* Once iadu has handed on an instruction it hands one on in every cycle,  *)
(* so that ID is not empty behind one until the stages are cleared.        *)
DenseRight ==
  /\ id.inst # <<>> => pc2 # None /\ (state = "NORMAL" => ~Misaligned)
  /\ ex # None \/ mem.pc # None \/ (wb /\ ~clrff) => id.inst # <<>>

(* A step is made by what left MEM for WB in it.                           *)
RanRight == running /\ dcsr.step => ran = IF wb THEN 1 ELSE 0

InputsRight ==
  /\ stall => mem.kind \in {"slow", "exc"}
  /\ hazard => id.inst # <<>>
  /\ irq \/ haltreq => running
  /\ ~(hazard /\ TrapRet) /\ ~(Refilling /\ (irq \/ haltreq)) /\ ~(haltreq /\ (Trap \/ DbgRet))

(* The path: each stage's instruction is followed by the next stage's, and *)
(* the oldest is where the program is.                                     *)
Chain ==
  IF running /\ runff
    THEN /\ id.inst # <<>> => id.npc = FromIadu
         /\ ex # None => Succ(ex) = FromId
         /\ mem.pc # None => Succ(mem.pc) = FromEx
         /\ Oldest = expect
    ELSE dpc = expect

FrontInv ==
  /\ TypeOK /\ Assembled
  /\ WordRight /\ IaduRight /\ EmptyRight /\ DenseRight /\ RanRight
  /\ InputsRight /\ Chain
=============================================================================
