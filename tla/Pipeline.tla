------------------------------- MODULE Pipeline -------------------------------
(***************************************************************************)
(* The register pipeline of the core: decode (ID), execute (EX), memory    *)
(* (MEM), write-back (WB) and the WB+1 tail of the 4-stage FPU, with the   *)
(* hazard controller, the forwarding unit, the pipeline controller, the    *)
(* two register files, the handshake of the divider and the run/halt state *)
(* of the debug FSM.  One step is one clock cycle.                         *)
(*                                                                         *)
(* Fetch is free: any instruction of Insts, or a bubble, may come next.    *)
(* Data is abstract: an instruction's true result (field val) travels with *)
(* it, and a wire that does not carry it yet carries Junk.  What           *)
(* the code computes on the wires is named by the same names here.         *)
(***************************************************************************)
EXTENDS InstClass, Sequences

CONSTANTS
  Reg, X0, Word, Zero, Insts, Result(_, _, _, _, _), DbgWords,
  Junk,       (* the word on a wire that does not carry the result yet       *)
  Faults,     (* whether a load or a store may be misaligned                 *)
  Irq,        (* whether an interrupt line is connected                      *)
  Debug,      (* whether the debug interface is connected                    *)
  DivIrq      (* whether an interrupt may meet a division in MEM             *)

Any == Word \union {Junk}

Inst == [op : Classes, rd : Reg, rs1 : Reg, rs2 : Reg]

ASSUME RegAssumption  == X0 \in Reg
ASSUME WordAssumption == Zero \in Word /\ Junk \notin Word /\ DbgWords \subseteq Word
ASSUME InstAssumption == Insts \subseteq Inst
ASSUME EnvAssumption  == {Faults, Irq, Debug, DivIrq} \subseteq BOOLEAN
ASSUME ResultAssumption ==
  \A i \in Insts :
    /\ \A a, b, fa, fb \in Any  : Result(i, a, b, fa, fb) \in Any
    /\ \A a, b, fa, fb \in Word : Result(i, a, b, fa, fb) \in Word

VARIABLES
  id,         (* IF2/ID register: the instruction in decode                   *)
  ex,         (* ID/EX register: the instruction and its captured operands    *)
  mem,        (* EX/MEM register                                              *)
  wb,         (* MEM/WB register                                              *)
  wb1,        (* WB+1 tail register, together with the FPU's output flop      *)
  gprs,       (* reg_file                                                     *)
  fprs,       (* fp_reg_file                                                  *)
  div,        (* div_unit: start_ff, busy_q, div_busy_ff, rd_q, the quotient  *)
  enff,       (* mem_wb_reg_en_ff                                             *)
  stff,       (* mem_wdata_frw_mem_tmp_ff                                     *)
  pstate,     (* core_dbg_fsm: RUNNING, HALTED or RESUME                      *)
  irq,        (* input: an enabled interrupt is pending                       *)
  haltreq,    (* input: dbg_haltreq                                           *)
  ack         (* input: mem_ack                                               *)

vars == <<id, ex, mem, wb, wb1, gprs, fprs, div, enff, stff, pstate, irq, haltreq, ack>>

Nop    == [op |-> "nop", rd |-> X0, rs1 |-> X0, rs2 |-> X0]
NopEx  == [i |-> Nop, a |-> Zero, b |-> Zero, fa |-> Zero, fb |-> Zero]
NopMem == [i |-> Nop, a |-> Zero, b |-> Zero, val |-> Zero, fault |-> FALSE, taken |-> FALSE]
NopWb  == [op |-> "nop", rd |-> X0, val |-> Zero]
NoDiv  == [start |-> FALSE, busy |-> FALSE, busyff |-> FALSE, rd |-> X0, val |-> Zero]
-----------------------------------------------------------------------------
(* Wires of the cycle: control.                                            *)

Running == pstate = "RUNNING"
(* Variants named ..._Bug are what a plausible slip in the code would make *)
(* of the definition that follows them; no specification uses them.        *)

DivBusy_Bug == div.busy \/ div.start \/ div.busyff   \* div_busy_ff stalls too
DivBusy  == div.busy \/ div.start
DivReady == div.busyff /\ ~div.busy

StallPipl   == mem.i.op \in {"load", "store"} /\ ~ack
CommonStall == DivBusy \/ StallPipl
RegEn       == Running /\ ~CommonStall        \* id_exe, exe_mem and mem_wb _reg_en

(* An exception of the instruction in MEM, or an interrupt.  The cycle of  *)
(* a halt request with an instruction in WB does not trap.                 *)
DontTrap == ~Running \/ (haltreq /\ wb.op # "nop")
Trap     == (mem.fault \/ irq) /\ ~DontTrap

CriticalClear == Trap \/ mem.i.op = "mret" \/ ~Running
BranchHazard  == mem.taken
ExeMemClr     == CriticalClear \/ BranchHazard

(* The destination registers in MEM and WB as the hazard and forwarding    *)
(* units see them: a finishing division drives rd_mem and reg_write_mem.   *)
RdMem       == IF DivReady THEN div.rd ELSE mem.i.rd
RegWriteMem == RegWrite(mem.i.op) \/ DivReady
RegWriteWb  == RegWrite(wb.op)

UsesX(i, r) == (r = i.rs1 /\ ExeUseRs1(i.op)) \/ (r = i.rs2 /\ ExeUseRs2(i.op))
UsesF(i, r) == (r = i.rs1 /\ FpUsesRs1(i.op)) \/ (r = i.rs2 /\ FpUsesRs2(i.op))

LoadHazard == ex.i.op = "load" /\ ex.i.rd # X0 /\ UsesX(id, ex.i.rd)
MulHazard  == ex.i.op = "mul"  /\ ex.i.rd # X0 /\ UsesX(id, ex.i.rd)
FpHazardOn(op, rd) ==
  /\ IsFp(op)
  /\ \/ FpRegWrite(op) /\ UsesF(id, rd)
     \/ FpWbToInt(op) /\ rd # X0 /\ UsesX(id, rd)
FpHazard == \/ FpHazardOn(ex.i.op, ex.i.rd)
            \/ FpHazardOn(mem.i.op, RdMem)
            \/ FpHazardOn(wb.op, wb.rd)
DataHazard == LoadHazard \/ MulHazard \/ FpHazard

IdExeClr_Bug == ExeMemClr                             \* no bubble: EX runs it twice
IdExeClr == ExeMemClr \/ (RegEn /\ DataHazard)
-----------------------------------------------------------------------------
(* Wires of the cycle: data.                                               *)

(* The value WB offers: an FP to integer result is not there yet.          *)
RegWdataWb == IF FpWbToInt(wb.op) THEN Junk ELSE wb.val

(* The value MEM offers: loads, multiplications and FP results come later. *)
ResultMem == IF DivReady THEN div.val
             ELSE IF mem.i.op \in {"alu", "imm", "lui", "jump"} THEN mem.val
             ELSE Junk

(* Read ports of the register files, with write-before-read bypass.        *)
RegFileRead(r) ==
  IF r = X0 THEN Zero
  ELSE IF RegWriteWb /\ ~FpWbToInt(wb.op) /\ wb.rd = r THEN RegWdataWb
  ELSE IF FpWbToInt(wb1.op) /\ wb1.rd = r THEN wb1.val
  ELSE gprs[r]
FpRegFileRead(r) == IF FpRegWrite(wb1.op) /\ wb1.rd = r THEN wb1.val ELSE fprs[r]

(* Forwarding to ID (from WB), to EX (from MEM, else WB), to MEM (from WB). *)
WbHits(r)    == RegWriteWb /\ wb.rd = r /\ r # X0
ForwardId(r) == IF WbHits(r) THEN RegWdataWb ELSE RegFileRead(r)
ForwardEx_Bug(r, captured) ==                         \* the older result wins
  IF WbHits(r) THEN RegWdataWb
  ELSE IF RegWriteMem /\ RdMem = r /\ r # X0 THEN ResultMem ELSE captured
ForwardEx(r, captured) ==
  IF RegWriteMem /\ RdMem = r /\ r # X0 THEN ResultMem
  ELSE IF WbHits(r) THEN RegWdataWb ELSE captured

RdataA == IF ReadsX1(ex.i.op) THEN ForwardEx(ex.i.rs1, ex.a) ELSE Zero
RdataB == IF ReadsX2(ex.i.op) THEN ForwardEx(ex.i.rs2, ex.b) ELSE Zero

(* The data a store sends to memory: forwarded from WB, and held from the  *)
(* first cycle of a stall to the cycle that ends it.                       *)
MemWdataTmp == IF WbHits(mem.i.rs2) THEN RegWdataWb ELSE mem.b
MemWdata    == IF ~enff /\ RegEn THEN stff ELSE MemWdataTmp
-----------------------------------------------------------------------------
(* The registers at the next clock edge.  A clear wins over an enable.     *)

NextId_Bug(fetched) ==                                \* a held instruction is lost
  id' = IF ExeMemClr THEN Nop ELSE IF RegEn THEN fetched ELSE id
NextId(fetched) ==
  id' = IF ExeMemClr THEN Nop
        ELSE IF RegEn /\ ~DataHazard THEN fetched
        ELSE id

NextEx ==
  ex' = IF IdExeClr THEN NopEx
        ELSE IF RegEn THEN
          [i  |-> id,
           a  |-> IF ReadsX1(id.op)   THEN ForwardId(id.rs1)     ELSE Zero,
           b  |-> IF ReadsX2(id.op)   THEN ForwardId(id.rs2)     ELSE Zero,
           fa |-> IF FpUsesRs1(id.op) THEN FpRegFileRead(id.rs1) ELSE Zero,
           fb |-> IF FpUsesRs2(id.op) THEN FpRegFileRead(id.rs2) ELSE Zero]
        ELSE ex

(* The result the functional unit will deliver for the instruction in EX.  *)
ExResult == Result(ex.i, RdataA, RdataB, ex.fa, ex.fb)

NextMem(loaded, malign, taken) ==
  mem' = IF ExeMemClr THEN NopMem
         ELSE IF RegEn THEN
           [i     |-> ex.i,
            a     |-> RdataA,
            b     |-> RdataB,
            val   |-> IF ex.i.op = "load" THEN loaded
                      ELSE IF RegWrite(ex.i.op) \/ FpRegWrite(ex.i.op) THEN ExResult
                      ELSE Zero,
            fault |-> \/ ex.i.op = "sys"
                      \/ ex.i.op \in {"load", "store"} /\ malign,
            taken |-> \/ ex.i.op = "jump"
                      \/ ex.i.op = "branch" /\ taken]
         ELSE mem

NextWb_Bug ==                                         \* a trap does not clear MEM/WB
  wb' = IF ~Running THEN NopWb
        ELSE IF RegEn THEN [op |-> mem.i.op, rd |-> RdMem, val |-> mem.val]
        ELSE wb
NextWb ==
  wb' = IF CriticalClear THEN NopWb
        ELSE IF RegEn THEN [op  |-> IF DivReady THEN "div" ELSE mem.i.op,
                            rd  |-> RdMem,
                            val |-> IF DivReady THEN div.val ELSE mem.val]
        ELSE wb

(* The tail register has the enable of MEM/WB but not its clear.           *)
NextWb1 ==
  wb1' = IF RegEn THEN (IF IsFp(wb.op) THEN wb ELSE NopWb) ELSE wb1

(* div_unit: the operands are latched when a division leaves EX; the       *)
(* divider is busy for any number of cycles (none for 0/b and a/0) and a   *)
(* flush empties it, but not div_busy_ff.                                  *)
DivStart == ex.i.op = "div" /\ ~ExeMemClr /\ RegEn
FlushDiv == Trap \/ ~Running
NextDiv(more) ==
  div' = [start  |-> DivStart /\ ~DivBusy,
          busy   |-> ~FlushDiv /\ DivBusy /\ more,
          busyff |-> DivBusy,
          rd     |-> IF DivStart THEN ex.i.rd ELSE div.rd,
          val    |-> IF FlushDiv THEN Junk ELSE IF DivStart THEN ExResult ELSE div.val]

(* Port 1 of reg_file belongs to the debugger while the core is halted;    *)
(* port 2 belongs to the FPU; port 1 wins on the same register.            *)
Port1(dbg) == IF ~Running THEN dbg
              ELSE IF RegWriteWb /\ ~FpWbToInt(wb.op) THEN wb
              ELSE NopWb
NextGprs_Bug(dbg) ==                                  \* port 2 wins
  gprs' = [r \in Reg |->
             IF r = X0 THEN gprs[r]
             ELSE IF FpWbToInt(wb1.op) /\ wb1.rd = r THEN wb1.val
             ELSE IF Port1(dbg).op # "nop" /\ Port1(dbg).rd = r THEN Port1(dbg).val
             ELSE gprs[r]]
NextGprs(dbg) ==
  gprs' = [r \in Reg |->
             IF r = X0 THEN gprs[r]
             ELSE IF Port1(dbg).op # "nop" /\ Port1(dbg).rd = r THEN Port1(dbg).val
             ELSE IF FpWbToInt(wb1.op) /\ wb1.rd = r THEN wb1.val
             ELSE gprs[r]]
NextFprs ==
  fprs' = [r \in Reg |-> IF FpRegWrite(wb1.op) /\ wb1.rd = r THEN wb1.val ELSE fprs[r]]

NextStore_Bug ==                                      \* held before forwarding
  enff' = RegEn /\ stff' = IF enff /\ ~RegEn THEN mem.b ELSE stff
NextStore ==
  /\ enff' = RegEn
  /\ stff' = IF enff /\ ~RegEn THEN MemWdataTmp ELSE stff

NextPstate(resumereq) ==
  pstate' = IF Running THEN (IF haltreq THEN "HALTED" ELSE "RUNNING")
            ELSE IF resumereq THEN "RESUME"
            ELSE IF pstate = "HALTED" THEN "HALTED" ELSE "RUNNING"

(* The inputs are free, where the code looks at them: interrupts and halt  *)
(* requests while it runs, an answer of the memory to a load or a store.   *)
(* With DivIrq off no interrupt comes while a division is in MEM.          *)
Either(cond) == IF cond THEN BOOLEAN ELSE {FALSE}
NextInputs ==
  /\ irq' \in Either(Irq /\ pstate' = "RUNNING" /\ (DivIrq \/ mem'.i.op # "div"))
  /\ haltreq' \in Either(Debug /\ pstate' = "RUNNING")
  /\ ack' \in Either(mem'.i.op \in {"load", "store"})
-----------------------------------------------------------------------------
Init ==
  /\ id = Nop /\ ex = NopEx /\ mem = NopMem /\ wb = NopWb /\ wb1 = NopWb
  /\ gprs = [r \in Reg |-> Zero] /\ fprs = [r \in Reg |-> Zero]
  /\ div = NoDiv
  /\ enff = FALSE /\ stff = Zero
  /\ pstate = "RUNNING"
  /\ irq = FALSE /\ haltreq = FALSE /\ ack = FALSE

(* The registers that do not depend on the debugger.                       *)
Datapath ==
  /\ \E fetched \in (IF RegEn /\ ~DataHazard THEN Insts \union {Nop} ELSE {Nop}) : NextId(fetched)
  /\ NextEx
  /\ \E loaded \in (IF ex.i.op = "load" THEN Word ELSE {Zero}),
        malign \in Either(Faults /\ ex.i.op \in {"load", "store"}),
        taken  \in Either(ex.i.op = "branch") : NextMem(loaded, malign, taken)
  /\ NextWb /\ NextWb1
  /\ \E more \in Either(DivBusy) : NextDiv(more)
  /\ NextFprs /\ NextStore

RunCycle ==
  /\ Running
  /\ Datapath
  /\ NextGprs(NopWb)
  /\ NextPstate(FALSE)
  /\ NextInputs

(* The abstract register access of the debugger.                           *)
DbgWrites == [op : {"dbg"}, rd : Reg, val : DbgWords]

HaltedCycle ==
  /\ ~Running
  /\ Datapath
  /\ \E dbg \in {NopWb} \union DbgWrites : NextGprs(dbg)
  /\ \E resumereq \in BOOLEAN : NextPstate(resumereq)
  /\ NextInputs

Next == RunCycle \/ HaltedCycle

Spec == Init /\ [][Next]_vars
-----------------------------------------------------------------------------
(* Fairness: the clock runs, the memory answers an access some day, and    *)
(* the divider's count runs out.                                           *)
FairSpec == /\ Spec
            /\ WF_vars(RunCycle)
            /\ WF_vars(RunCycle /\ ack')
            /\ WF_vars(RunCycle /\ ~div'.busy)
-----------------------------------------------------------------------------
(* The registers an instruction in MEM must see: the register files with   *)
(* the results of the older instructions that are still in WB and WB+1.    *)
(* An instruction that reaches WB as the core halts is executed again.     *)
ArchGpr ==
  [r \in Reg |->
     IF r = X0 THEN Zero
     ELSE IF Running /\ RegWriteWb /\ wb.rd = r THEN wb.val
     ELSE IF FpWbToInt(wb1.op) /\ wb1.rd = r THEN wb1.val
     ELSE gprs[r]]

ArchFpr ==
  [r \in Reg |->
     IF Running /\ FpRegWrite(wb.op) /\ wb.rd = r THEN wb.val
     ELSE IF FpRegWrite(wb1.op) /\ wb1.rd = r THEN wb1.val
     ELSE fprs[r]]

(* What was fetched and did not retire yet, the oldest first.              *)
Cell(i)  == IF i = Nop THEN <<>> ELSE <<i>>
InFlight == IF Running THEN Cell(mem.i) \o Cell(ex.i) \o Cell(id) ELSE <<>>

ISA == INSTANCE Isa WITH
         gpr <- ArchGpr, fpr <- ArchFpr, todo <- InFlight,
         Faulting <- {"sys"} \union (IF Faults THEN {"load", "store"} ELSE {}),
         Interrupts <- Irq \/ Debug
-----------------------------------------------------------------------------
(* Type invariant: what each pipeline register can hold.                   *)
Slot   == Insts \union {Nop}
TypeOK ==
  /\ id \in Slot
  /\ ex \in [i : Slot, a : Any, b : Any, fa : Any, fb : Any]
  /\ mem \in [i : Slot, a : Any, b : Any, val : Any, fault : BOOLEAN, taken : BOOLEAN]
  /\ wb \in [op : Classes \union {"nop"}, rd : Reg, val : Any]
  /\ wb1 \in [op : {"fp", "f2i", "i2f", "nop"}, rd : Reg, val : Any]
  /\ gprs \in [Reg -> Any] /\ gprs[X0] = Zero
  /\ fprs \in [Reg -> Any]
  /\ div \in [start : BOOLEAN, busy : BOOLEAN, busyff : BOOLEAN, rd : Reg, val : Any]
  /\ pstate \in {"RUNNING", "HALTED", "RESUME"}
  /\ enff \in BOOLEAN /\ stff \in Any
  /\ irq \in BOOLEAN /\ haltreq \in BOOLEAN /\ ack \in BOOLEAN

(* Forwarding, load, multiply and FP hazards together: whatever instruction *)
(* reaches MEM got, in EX, the values its sources have in program order,   *)
(* through any stall, bubble, flush or halt.                               *)
MemOperandsRight ==
  Running =>
    /\ ReadsX1(mem.i.op) => mem.a = ArchGpr[mem.i.rs1]
    /\ ReadsX2(mem.i.op) /\ mem.i.op # "store" => mem.b = ArchGpr[mem.i.rs2]

(* In every cycle a store drives the memory port, the data it drives is    *)
(* the program-order value of rs2, though no hazard ever holds a store for *)
(* rs2: forwarding to MEM and the data held across the stall must make up  *)
(* for it.                                                                 *)
StoreDataRight ==
  Running /\ mem.i.op = "store" => MemWdata = ArchGpr[mem.i.rs2]

(* The instruction in MEM leaves the pipeline's control: it is executed.   *)
Retires == mem.i # Nop /\ RegEn /\ ~CriticalClear /\ pstate' = "RUNNING"

(* Registers change by retiring the instruction in MEM, with the result it *)
(* has on the registers as they are, or by a debugger's write; by nothing  *)
(* else.  No write is lost, repeated, or done for a squashed instruction,  *)
(* whatever flushes, stalls and halts come between EX and WB+1.  That a    *)
(* debugger's write stays is not said: an FP to integer move that WB+1     *)
(* holds through the halt is written over it.                              *)
ExactlyOnce ==
  [][IF Retires THEN ISA!Execute(mem.i)
     ELSE \/ UNCHANGED <<ArchGpr, ArchFpr>>
          \/ ~Running /\ \E r \in Reg, w \in DbgWords : ISA!DebugWrite(r, w)]_vars

(* The pipeline implements the sequential machine: what decode is given is *)
(* executed once and in that order, with what is behind a jump, a fault,   *)
(* an interrupt or a halt given up and nothing else, wherever bubbles,     *)
(* stalls and clears strike.                                               *)
Sequential == ISA!Spec

(* No hazard waits for an instruction that waits itself: decode hands on   *)
(* instructions for ever, whatever stalls.                                 *)
KeepsMoving == []<>(RegEn /\ ~DataHazard)
=============================================================================
