--------------------------------- MODULE Isa ---------------------------------
(***************************************************************************)
(* The abstract specification of the core: a sequential machine.  What it  *)
(* is given is executed one instruction at a time, in the order it came;   *)
(* nothing of it is lost, but by a redirection, a fault or an interrupt,   *)
(* and then all of it.  An instruction reads its sources from the          *)
(* registers as all the earlier instructions left them, and writes its one *)
(* destination.  What it computes is the operator Result; a load brings in *)
(* any word.  A debugger may write a GPR.                                  *)
(***************************************************************************)
EXTENDS InstClass, Sequences

CONSTANTS
  Reg,                    (* register numbers, shared by GPRs and f-registers *)
  X0,                     (* the GPR that is hardwired to zero                *)
  Word,                   (* what a register can hold                         *)
  Zero,                   (* the word 0                                       *)
  Insts,                  (* the instructions a program may contain           *)
  Result(_, _, _, _, _),  (* the result of an instruction on its operands     *)
  DbgWords,               (* the words a debugger may write                   *)
  Faulting,               (* the classes whose instructions may fault         *)
  Interrupts              (* whether interrupts or halts come                 *)

VARIABLES
  gpr,                    (* the integer registers                            *)
  fpr,                    (* the floating-point registers                     *)
  todo                    (* what was fetched and not yet executed, in order  *)

Init ==
  /\ todo = <<>>
  /\ gpr = [r \in Reg |-> Zero]
  /\ fpr = [r \in Reg |-> Zero]

WriteGpr(r, w) == gpr' = IF r = X0 THEN gpr ELSE [gpr EXCEPT ![r] = w]

(* One instruction, from its sources to its destination.                   *)
Execute(i) ==
  \E w \in Word :
    /\ i.op # "load" => w = Result(i, IF ReadsX1(i.op)   THEN gpr[i.rs1] ELSE Zero,
                                      IF ReadsX2(i.op)   THEN gpr[i.rs2] ELSE Zero,
                                      IF FpUsesRs1(i.op) THEN fpr[i.rs1] ELSE Zero,
                                      IF FpUsesRs2(i.op) THEN fpr[i.rs2] ELSE Zero)
    /\ IF RegWrite(i.op) THEN WriteGpr(i.rd, w) ELSE UNCHANGED gpr
    /\ fpr' = IF FpRegWrite(i.op) THEN [fpr EXCEPT ![i.rd] = w] ELSE fpr

(* The debugger writes a GPR through an abstract register access.          *)
DebugWrite(r, w) == WriteGpr(r, w) /\ UNCHANGED fpr
-----------------------------------------------------------------------------
(* At most one more instruction is fetched in a step.                      *)
Fetched == {<<>>} \union {<<i>> : i \in Insts}

Wait(f) == todo' = todo \o f /\ UNCHANGED <<gpr, fpr>>

(* The oldest instruction is executed; those behind it stay.               *)
Advance(f) ==
  /\ todo # <<>> /\ Head(todo).op \notin {"jump", "mret", "sys"}
  /\ Execute(Head(todo))
  /\ todo' = Tail(todo) \o f

(* A jump or a taken branch is executed, and what came behind it is not.   *)
Redirect ==
  /\ todo # <<>> /\ Head(todo).op \in {"jump", "branch"}
  /\ Execute(Head(todo))
  /\ todo' = <<>>

(* An MRET, a fault of the oldest instruction, an interrupt or a halt:     *)
(* none of what was fetched has an effect on the registers.                *)
Abandon ==
  /\ Interrupts \/ (todo # <<>> /\ Head(todo).op \in Faulting \union {"mret"})
  /\ todo' = <<>> /\ UNCHANGED <<gpr, fpr>>

Access ==
  /\ Interrupts /\ todo = <<>> /\ UNCHANGED todo
  /\ \E r \in Reg, w \in DbgWords : DebugWrite(r, w)

Next == \/ \E f \in Fetched : Wait(f) \/ Advance(f)
        \/ Redirect \/ Abandon \/ Access

Spec == Init /\ [][Next]_<<gpr, fpr, todo>>
=============================================================================
