----------------------------- MODULE PipelineInv -----------------------------
(***************************************************************************)
(* The inductive invariant behind the correctness of Pipeline, and the     *)
(* conditions under which the core keeps its promise.                      *)
(***************************************************************************)
EXTENDS Pipeline

Has(ops) == \E i \in Insts : i.op \in ops

(* The three conditions.  Without the first a store writes the wrong data, *)
(* as the run store_f2i shows, without the second a result in WB is lost,  *)
(* and without the third an interrupted division writes a register.        *)
NoStoreOfFpResult ==     \* a store does not follow an FP to integer move of rs2
  \A i, j \in Insts : i.op = "f2i" /\ j.op = "store" => i.rd = X0 \/ i.rd # j.rs2
NoFlushWhileStalled ==   \* nothing flushes a stalled pipeline that holds FP results
  Has({"fp", "f2i", "i2f"}) /\ Has({"load", "store", "div"}) => ~Irq /\ ~Debug /\ ~Faults
NoInterruptedDivision == \* no interrupt comes while a division is in MEM
  Has({"div"}) => ~DivIrq

SafeMix == /\ NoStoreOfFpResult
           /\ NoFlushWhileStalled
           /\ NoInterruptedDivision
-----------------------------------------------------------------------------
(* Whence the pipeline registers and inputs come.                          *)
Provenance ==
  /\ \E i \in Slot : wb.op = i.op /\ wb.rd = i.rd
  /\ \E i \in Slot : wb1.op = i.op /\ wb1.rd = i.rd
  /\ irq => Irq /\ (DivIrq \/ mem.i.op # "div")
  /\ haltreq => Debug
  /\ pstate # "RUNNING" => Debug
  /\ mem.fault => mem.i.op = "sys" \/ (mem.i.op \in {"load", "store"} /\ Faults)
  /\ mem.i.op = "sys" => mem.fault
  /\ mem.taken => mem.i.op \in {"jump", "branch"}
  /\ mem.i.op = "jump" => mem.taken

(* A core about to resume is empty.                                        *)
ResumesEmpty ==
  pstate = "RESUME" =>
    /\ id = Nop /\ ex = NopEx /\ mem = NopMem /\ wb = NopWb
    /\ ~div.start /\ ~div.busy

(* The divider works exactly while the division waits in MEM.              *)
DivInMem ==
  Running =>
    /\ mem.i.op = "div" <=> DivBusy \/ DivReady
    /\ mem.i.op = "div" => div.rd = mem.i.rd /\ div.val = mem.val
    /\ div.start => ~div.busy /\ ~div.busyff
    /\ div.busy => div.busyff

(* EX holds no instruction whose source is still being computed in MEM or  *)
(* WB; what it captured in ID is right unless MEM or WB will forward.      *)
Available(r) ==
  \/ r = X0
  \/ /\ ~(mem.i.op \in {"load", "mul", "f2i"} /\ mem.i.rd = r)
     /\ ~(wb.op = "f2i" /\ wb.rd = r)
Captured(v, r) ==
  \/ r # X0 /\ RegWrite(mem.i.op) /\ mem.i.rd = r
  \/ r # X0 /\ RegWrite(wb.op) /\ wb.rd = r
  \/ v = ArchGpr[r]
FpCaptured(v, r) ==
  /\ ~(FpRegWrite(mem.i.op) /\ mem.i.rd = r)
  /\ ~(FpRegWrite(wb.op) /\ wb.rd = r)
  /\ v = ArchFpr[r]
ExRight ==
  Running =>
    /\ ReadsX1(ex.i.op) => Available(ex.i.rs1) /\ Captured(ex.a, ex.i.rs1)
    /\ ReadsX2(ex.i.op) => Captured(ex.b, ex.i.rs2)
    /\ ReadsX2(ex.i.op) /\ ex.i.op # "store" => Available(ex.i.rs2)
    /\ IF FpUsesRs1(ex.i.op) THEN FpCaptured(ex.fa, ex.i.rs1) ELSE ex.fa = Zero
    /\ IF FpUsesRs2(ex.i.op) THEN FpCaptured(ex.fb, ex.i.rs2) ELSE ex.fb = Zero

(* The result carried by MEM is the result on the registers of the ISA.    *)
IsaResult(i) == Result(i, IF ReadsX1(i.op)   THEN ArchGpr[i.rs1] ELSE Zero,
                          IF ReadsX2(i.op)   THEN ArchGpr[i.rs2] ELSE Zero,
                          IF FpUsesRs1(i.op) THEN ArchFpr[i.rs1] ELSE Zero,
                          IF FpUsesRs2(i.op) THEN ArchFpr[i.rs2] ELSE Zero)
MemRight ==
  Running =>
    /\ MemOperandsRight
    /\ mem.i.op = "load" => mem.val \in Word
    /\ (RegWrite(mem.i.op) \/ FpRegWrite(mem.i.op)) /\ mem.i.op # "load" => mem.val = IsaResult(mem.i)
    /\ mem.i.op = "store" => MemWdataTmp = ArchGpr[mem.i.rs2] /\ (~enff => stff = MemWdataTmp)

ArchTyped == ArchGpr \in [Reg -> Word] /\ ArchFpr \in [Reg -> Word]

PipeInv == TypeOK /\ Provenance /\ ResumesEmpty /\ DivInMem /\ ExRight /\ MemRight /\ ArchTyped
=============================================================================
