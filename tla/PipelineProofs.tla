---------------------------- MODULE PipelineProofs ----------------------------
(***************************************************************************)
(* The pipeline keeps its promise for every register count, word size and  *)
(* instruction mix that satisfies SafeMix: type correctness, the inductive *)
(* invariant, right operands in MEM, right store data, and the refinement  *)
(* of the sequential machine Isa.                                          *)
(***************************************************************************)
EXTENDS PipelineInv, SequenceTheorems, TLAPS

USE DEF Classes

(* What a cleared register holds, and the fields of any slot.              *)
LEMMA NopFacts ==
  /\ Nop \in Slot /\ Nop.op = "nop" /\ NopWb.op = "nop" /\ NopWb.rd \in Reg
  /\ NopEx.i = Nop /\ NopMem.i = Nop
  /\ ~NopMem.fault /\ ~NopMem.taken
  /\ \A i \in Slot : i.op \in Classes \union {"nop"} /\ i.rd \in Reg /\ i.rs1 \in Reg /\ i.rs2 \in Reg
  /\ Zero \in Any
BY RegAssumption, InstAssumption, WordAssumption
   DEF Nop, NopWb, NopEx, NopMem, Slot, Inst, Any

(* The invariant holds after reset.                                        *)
LEMMA InitPipeInv == Init => PipeInv
<1> SUFFICES ASSUME Init PROVE PipeInv
  OBVIOUS
<1> USE NopFacts, RegAssumption, WordAssumption, EnvAssumption DEF Init
<1>1. TypeOK
  BY DEF TypeOK, NopEx, NopMem, NopWb, NoDiv, Nop
<1>2. Provenance
  BY DEF Provenance, NopWb, Nop
<1>3. ArchGpr = [r \in Reg |-> Zero] /\ ArchFpr = [r \in Reg |-> Zero]
  BY DEF ArchGpr, ArchFpr, RegWriteWb, RegWrite, FpRegWrite, FpWbToInt
<1>4. ResumesEmpty /\ DivInMem
  BY DEF ResumesEmpty, DivInMem, DivBusy, DivReady, NoDiv, Nop
<1>5. ExRight /\ MemRight
  BY DEF ExRight, MemRight, MemOperandsRight, ReadsX1, ReadsX2, RType, FpUsesRs1, FpUsesRs2,
         RegWrite, FpRegWrite, NopEx
<1>6. ArchTyped
  BY <1>3 DEF ArchTyped
<1> QED
  BY <1>1, <1>2, <1>4, <1>5, <1>6 DEF PipeInv
-----------------------------------------------------------------------------
(* One clock edge, with the choices of the environment named.              *)
Edge(fetched, loaded, malign, taken, more, dbg, resumereq) ==
  /\ NextId(fetched) /\ NextEx /\ NextMem(loaded, malign, taken) /\ NextWb /\ NextWb1
  /\ NextDiv(more) /\ NextGprs(dbg) /\ NextFprs /\ NextStore
  /\ NextPstate(resumereq) /\ NextInputs

Choices(fetched, loaded, malign, taken, more, dbg, resumereq) ==
  /\ fetched \in Slot
  /\ loaded \in Word
  /\ malign \in BOOLEAN /\ taken \in BOOLEAN /\ more \in BOOLEAN /\ resumereq \in BOOLEAN
  /\ malign => Faults
  /\ dbg \in {NopWb} \union DbgWrites
  /\ Running => dbg = NopWb

SomeEdge == \E fetched, loaded, malign, taken, more, dbg, resumereq :
              /\ Choices(fetched, loaded, malign, taken, more, dbg, resumereq)
              /\ Edge(fetched, loaded, malign, taken, more, dbg, resumereq)

(* Every step of the specification is one such edge.                       *)
LEMMA NextIsEdge == Next => SomeEdge
<1> SUFFICES ASSUME Next PROVE SomeEdge
  OBVIOUS
<1>1. PICK dbg, resumereq :
        /\ dbg \in {NopWb} \union DbgWrites /\ resumereq \in BOOLEAN /\ (Running => dbg = NopWb)
        /\ Datapath /\ NextGprs(dbg) /\ NextPstate(resumereq) /\ NextInputs
  BY DEF Next, RunCycle, HaltedCycle
<1>2. PICK fetched \in Slot : NextId(fetched)
  BY <1>1, NopFacts DEF Datapath, Slot
<1>3. PICK loaded \in Word, malign \in Either(Faults), taken \in BOOLEAN :
        NextMem(loaded, malign, taken)
  BY <1>1, WordAssumption DEF Datapath, Either
<1>4. PICK more \in BOOLEAN : NextDiv(more)
  BY <1>1 DEF Datapath, Either
<1>5. malign \in BOOLEAN /\ (malign => Faults)
  BY <1>3 DEF Either
<1> QED
  BY <1>1, <1>2, <1>3, <1>4, <1>5 DEF SomeEdge, Choices, Edge, Datapath
-----------------------------------------------------------------------------
(* An edge keeps the types.                                                *)
LEMMA EdgeType ==
  ASSUME PipeInv, SomeEdge
  PROVE  TypeOK'
<1>1. PICK fetched, loaded, malign, taken, more, dbg, resumereq :
        /\ Choices(fetched, loaded, malign, taken, more, dbg, resumereq)
        /\ Edge(fetched, loaded, malign, taken, more, dbg, resumereq)
  BY DEF SomeEdge
<1>2. TypeOK
  BY DEF PipeInv
<1> USE <1>1, <1>2, NopFacts, RegAssumption, WordAssumption, EnvAssumption
<1>3. id' \in Slot
  BY DEF Edge, Choices, NextId, TypeOK
<1>4. ex' \in [i : Slot, a : Any, b : Any, fa : Any, fb : Any]
  <2>1. \A r \in Reg : RegFileRead(r) \in Any /\ FpRegFileRead(r) \in Any /\ RegWdataWb \in Any
    BY DEF RegFileRead, FpRegFileRead, RegWdataWb, TypeOK, Any
  <2>2. \A r \in Reg : ForwardId(r) \in Any /\ FpRegFileRead(r) \in Any
    BY <2>1 DEF ForwardId
  <2>3. NopEx \in [i : Slot, a : Any, b : Any, fa : Any, fb : Any]
    BY DEF NopEx
  <2>4. id.rs1 \in Reg /\ id.rs2 \in Reg
    BY DEF TypeOK
  <2> QED
    BY <2>2, <2>3, <2>4 DEF Edge, NextEx, TypeOK
<1>5. ResultMem \in Any /\ RdMem \in Reg /\ RegWdataWb \in Any /\ MemWdataTmp \in Any
  BY DEF ResultMem, RdMem, RegWdataWb, MemWdataTmp, TypeOK, Any
<1>6. RdataA \in Any /\ RdataB \in Any
  BY <1>5 DEF RdataA, RdataB, ForwardEx, TypeOK
<1>7. ex.i.op # "nop" => ex.i \in Insts /\ ExResult \in Any
  BY <1>6, ResultAssumption DEF ExResult, TypeOK, Slot
<1>8. mem' \in [i : Slot, a : Any, b : Any, val : Any, fault : BOOLEAN, taken : BOOLEAN]
  <2>1. NopMem \in [i : Slot, a : Any, b : Any, val : Any, fault : BOOLEAN, taken : BOOLEAN]
    BY DEF NopMem
  <2>2. loaded \in Any /\ malign \in BOOLEAN /\ taken \in BOOLEAN
    BY DEF Choices, Any
  <2>3. (RegWrite(ex.i.op) \/ FpRegWrite(ex.i.op)) => ExResult \in Any
    BY <1>7 DEF RegWrite, FpRegWrite
  <2> QED
    BY <1>6, <2>1, <2>2, <2>3 DEF Edge, NextMem, TypeOK
<1>9. wb' \in [op : Classes \union {"nop"}, rd : Reg, val : Any]
  BY <1>5 DEF Edge, NextWb, TypeOK, NopWb
<1>10. wb1' \in [op : {"fp", "f2i", "i2f", "nop"}, rd : Reg, val : Any]
  BY DEF Edge, NextWb1, TypeOK, NopWb, IsFp
<1>11. div' \in [start : BOOLEAN, busy : BOOLEAN, busyff : BOOLEAN, rd : Reg, val : Any]
  <2>1. DivBusy \in BOOLEAN /\ more \in BOOLEAN /\ FlushDiv \in BOOLEAN /\ DivStart \in BOOLEAN
    BY DEF DivBusy, TypeOK, Choices, FlushDiv, DivStart
  <2>2. DivStart => ExResult \in Any
    BY <1>7 DEF DivStart
  <2> QED
    BY <2>1, <2>2 DEF Edge, NextDiv, TypeOK, Any
<1>12. gprs' \in [Reg -> Any] /\ gprs'[X0] = Zero /\ fprs' \in [Reg -> Any]
  <2>1. Port1(dbg).val \in Any
    BY DEF Port1, Choices, TypeOK, NopWb, DbgWrites, Any
  <2> QED
    BY <2>1 DEF Edge, NextGprs, NextFprs, TypeOK
<1>13. pstate' \in {"RUNNING", "HALTED", "RESUME"}
  BY DEF Edge, NextPstate, TypeOK, Running
<1>14. enff' \in BOOLEAN /\ stff' \in Any
  BY <1>5 DEF Edge, NextStore, RegEn, Running, CommonStall, TypeOK
<1>15. irq' \in BOOLEAN /\ haltreq' \in BOOLEAN /\ ack' \in BOOLEAN
  BY DEF Edge, NextInputs, Either
<1> QED
  BY <1>3, <1>4, <1>8, <1>9, <1>10, <1>11, <1>12, <1>13, <1>14, <1>15 DEF TypeOK
-----------------------------------------------------------------------------
(* What a stall is, and what can flush during one.                         *)
LEMMA StallFacts ==
  ASSUME PipeInv, Running, ~RegEn
  PROVE  /\ mem.i.op \in {"load", "store", "div"} /\ mem.i \in Insts
         /\ mem.i.op = "div" => DivBusy
         /\ ~mem.taken /\ mem.i.op # "mret"
<1>1. DivBusy => mem.i.op = "div"
  BY DEF PipeInv, DivInMem
<1>2. mem.i.op \in {"load", "store", "div"} /\ (mem.i.op = "div" => DivBusy)
  BY <1>1 DEF RegEn, CommonStall, StallPipl
<1>3. mem.i \in Insts
  BY <1>2, NopFacts DEF PipeInv, TypeOK, Slot
<1>4. ~mem.taken
  BY <1>2 DEF PipeInv, Provenance
<1> QED
  BY <1>2, <1>3, <1>4

(* An FP instruction in WB or WB+1 is one of the program's.                *)
LEMMA FpInFlight ==
  ASSUME PipeInv, IsFp(wb.op) \/ IsFp(wb1.op)
  PROVE  Has({"fp", "f2i", "i2f"})
BY NopFacts DEF PipeInv, Provenance, IsFp, Has, Slot

(* Nothing that flushes or halts a stalled core finds FP results or a      *)
(* division in flight.                                                     *)
LEMMA TrapWhileStalled ==
  ASSUME PipeInv, SafeMix, Running, ~RegEn, Trap \/ haltreq
  PROVE  /\ ~IsFp(wb.op) /\ ~IsFp(wb1.op)
         /\ Trap => mem.i.op # "div"
<1>1. Irq \/ Debug \/ Faults
  BY StallFacts, EnvAssumption DEF Trap, PipeInv, Provenance
<1>2. Has({"load", "store", "div"})
  BY StallFacts DEF Has
<1>3. ~Has({"fp", "f2i", "i2f"})
  BY <1>1, <1>2 DEF SafeMix, NoFlushWhileStalled
<1>4. Trap => mem.i.op # "div"
  BY StallFacts DEF Trap, PipeInv, Provenance, SafeMix, NoInterruptedDivision, Has
<1> QED
  BY <1>3, <1>4, FpInFlight
-----------------------------------------------------------------------------
(* What an edge does to the registers of the ISA: nothing but what the     *)
(* instruction that enters WB adds.                                        *)
LEMMA ArchAt ==
  ASSUME NEW r \in Reg
  PROVE  /\ ArchGpr[r] = IF r = X0 THEN Zero
                         ELSE IF Running /\ RegWriteWb /\ wb.rd = r THEN wb.val
                         ELSE IF FpWbToInt(wb1.op) /\ wb1.rd = r THEN wb1.val
                         ELSE gprs[r]
         /\ ArchFpr[r] = IF Running /\ FpRegWrite(wb.op) /\ wb.rd = r THEN wb.val
                         ELSE IF FpRegWrite(wb1.op) /\ wb1.rd = r THEN wb1.val
                         ELSE fprs[r]
BY DEF ArchGpr, ArchFpr

(* The same after the edge.                                                *)
LEMMA ArchAtNext ==
  ASSUME NEW r \in Reg
  PROVE  /\ ArchGpr'[r] = IF r = X0 THEN Zero
                         ELSE IF Running' /\ RegWrite(wb'.op) /\ wb'.rd = r THEN wb'.val
                         ELSE IF FpWbToInt(wb1'.op) /\ wb1'.rd = r THEN wb1'.val
                         ELSE gprs'[r]
         /\ ArchFpr'[r] = IF Running' /\ FpRegWrite(wb'.op) /\ wb'.rd = r THEN wb'.val
                         ELSE IF FpRegWrite(wb1'.op) /\ wb1'.rd = r THEN wb1'.val
                         ELSE fprs'[r]
BY DEF ArchGpr, ArchFpr, RegWriteWb, RegWrite, FpWbToInt, FpRegWrite

(* When the pipeline moves, what enters WB is added.                       *)
LEMMA ArchOnEnable ==
  ASSUME PipeInv, SomeEdge, RegEn, NEW r \in Reg
  PROVE  /\ ArchGpr'[r] = IF r # X0 /\ Running' /\ RegWrite(wb'.op) /\ wb'.rd = r
                          THEN wb'.val ELSE ArchGpr[r]
         /\ ArchFpr'[r] = IF Running' /\ FpRegWrite(wb'.op) /\ wb'.rd = r
                          THEN wb'.val ELSE ArchFpr[r]
<1>1. Running
  BY DEF RegEn
<1>2. /\ NextWb1 /\ NextGprs(NopWb) /\ NextFprs
  BY <1>1 DEF SomeEdge, Choices, Edge
<1>3. gprs'[r] = IF r = X0 THEN gprs[r]
                 ELSE IF RegWriteWb /\ ~FpWbToInt(wb.op) /\ wb.rd = r THEN wb.val
                 ELSE IF FpWbToInt(wb1.op) /\ wb1.rd = r THEN wb1.val
                 ELSE gprs[r]
  BY <1>1, <1>2, NopFacts DEF NextGprs, Port1, RegWriteWb, RegWrite
<1>4. fprs'[r] = IF FpRegWrite(wb1.op) /\ wb1.rd = r THEN wb1.val ELSE fprs[r]
  BY <1>2 DEF NextFprs
<1>5. wb1' = IF IsFp(wb.op) THEN wb ELSE NopWb
  BY <1>2 DEF NextWb1
<1> QED
  BY <1>1, <1>3, <1>4, <1>5, ArchAt, ArchAtNext, NopFacts
     DEF RegWriteWb, RegWrite, IsFp, FpWbToInt, FpRegWrite

(* When it stalls nothing changes.                                         *)
LEMMA ArchOnStall ==
  ASSUME PipeInv, SafeMix, SomeEdge, Running, ~RegEn, NEW r \in Reg
  PROVE  ArchGpr'[r] = ArchGpr[r] /\ ArchFpr'[r] = ArchFpr[r]
<1>1. /\ NextWb1 /\ NextWb /\ NextGprs(NopWb) /\ NextFprs /\ \E q : NextPstate(q)
  BY DEF SomeEdge, Choices, Edge
<1>2. gprs'[r] = IF r = X0 THEN gprs[r]
                 ELSE IF RegWriteWb /\ ~FpWbToInt(wb.op) /\ wb.rd = r THEN wb.val
                 ELSE IF FpWbToInt(wb1.op) /\ wb1.rd = r THEN wb1.val
                 ELSE gprs[r]
  BY <1>1, NopFacts DEF NextGprs, Port1, RegWriteWb, RegWrite
<1>3. fprs'[r] = IF FpRegWrite(wb1.op) /\ wb1.rd = r THEN wb1.val ELSE fprs[r]
  BY <1>1 DEF NextFprs
<1>4. wb1' = wb1 /\ (wb' = wb \/ (wb' = NopWb /\ Trap))
  BY <1>1, StallFacts DEF NextWb1, NextWb, CriticalClear
<1>5. Running' \/ haltreq
  BY <1>1 DEF NextPstate, Running
<1>6. CASE wb' = wb /\ Running'
  BY <1>2, <1>3, <1>4, <1>6, ArchAt, ArchAtNext DEF RegWriteWb
<1>7. CASE ~(wb' = wb /\ Running')
  <2>1. ~IsFp(wb.op) /\ ~IsFp(wb1.op)
    BY <1>4, <1>5, <1>7, TrapWhileStalled
  <2>2. wb' = wb \/ wb' = NopWb
    BY <1>4
  <2> QED
    BY <1>2, <1>3, <1>4, <1>7, <2>1, <2>2, ArchAt, ArchAtNext, NopFacts
       DEF RegWriteWb, RegWrite, IsFp, FpWbToInt, FpRegWrite
<1> QED
  BY <1>6, <1>7

(* While the core is halted only the debugger writes.                      *)
LEMMA ArchOnHalt ==
  ASSUME PipeInv, SafeMix, SomeEdge, ~Running
  PROVE  \/ \A r \in Reg : ArchGpr'[r] = ArchGpr[r] /\ ArchFpr'[r] = ArchFpr[r]
         \/ \E d \in Reg, w \in DbgWords : \A r \in Reg :
              /\ ArchGpr'[r] = IF r = d /\ r # X0 THEN w ELSE ArchGpr[r]
              /\ ArchFpr'[r] = ArchFpr[r]
<1>1. PICK dbg \in {NopWb} \union DbgWrites :
        NextWb1 /\ NextWb /\ NextGprs(dbg) /\ NextFprs
  BY DEF SomeEdge, Choices, Edge
<1>2. wb1' = wb1 /\ wb' = NopWb
  BY <1>1 DEF NextWb1, NextWb, RegEn, CriticalClear
<1>3. \A r \in Reg : /\ fprs'[r] = IF FpRegWrite(wb1.op) /\ wb1.rd = r THEN wb1.val ELSE fprs[r]
                     /\ ArchFpr'[r] = ArchFpr[r]
  BY <1>1, <1>2, ArchAt, ArchAtNext, NopFacts DEF NextFprs, FpRegWrite
<1>4. \A r \in Reg : gprs'[r] = IF r = X0 THEN gprs[r]
                 ELSE IF dbg.op # "nop" /\ dbg.rd = r THEN dbg.val
                 ELSE IF FpWbToInt(wb1.op) /\ wb1.rd = r THEN wb1.val
                 ELSE gprs[r]
  BY <1>1 DEF NextGprs, Port1
<1>5. CASE dbg = NopWb
  BY <1>2, <1>3, <1>4, <1>5, ArchAt, ArchAtNext, NopFacts DEF RegWriteWb, RegWrite
<1>6. CASE dbg \in DbgWrites
  <2>1. dbg.op = "dbg" /\ dbg.rd \in Reg /\ dbg.val \in DbgWords
    BY <1>6 DEF DbgWrites
  <2>2. CASE FpWbToInt(wb1.op) /\ wb1.rd = dbg.rd   \* it is written over again
    <3>1. \A r \in Reg : ArchGpr'[r] = ArchGpr[r]
      BY <1>2, <1>4, <2>1, <2>2, ArchAt, ArchAtNext, NopFacts DEF RegWriteWb, RegWrite
    <3> QED
      BY <1>3, <3>1
  <2>3. CASE ~(FpWbToInt(wb1.op) /\ wb1.rd = dbg.rd)
    <3>1. \A r \in Reg : ArchGpr'[r] = IF r = dbg.rd /\ r # X0 THEN dbg.val ELSE ArchGpr[r]
      BY <1>2, <1>4, <2>1, <2>3, ArchAt, ArchAtNext, NopFacts DEF RegWriteWb, RegWrite
    <3> QED
      BY <1>3, <2>1, <3>1
  <2> QED
    BY <2>2, <2>3
<1> QED
  BY <1>5, <1>6
-----------------------------------------------------------------------------
(* What is in flight keeps coming from the program.                        *)
LEMMA EdgeProvenance ==
  ASSUME PipeInv, SomeEdge
  PROVE  Provenance'
<1>1. PICK fetched, loaded, malign, taken, more, dbg, resumereq :
        /\ Choices(fetched, loaded, malign, taken, more, dbg, resumereq)
        /\ Edge(fetched, loaded, malign, taken, more, dbg, resumereq)
  BY DEF SomeEdge
<1> USE <1>1, NopFacts
<1>2. \E i \in Slot : wb'.op = i.op /\ wb'.rd = i.rd
  <2>1. CASE CriticalClear
    <3>1. wb' = NopWb
      BY <2>1 DEF Edge, NextWb
    <3> QED
      BY <3>1 DEF NopWb, Nop
  <2>2. CASE ~CriticalClear /\ ~RegEn
    <3>1. wb' = wb
      BY <2>2 DEF Edge, NextWb
    <3> QED
      BY <3>1 DEF PipeInv, Provenance
  <2>3. CASE ~CriticalClear /\ RegEn
    <3>1. DivReady => mem.i.op = "div" /\ div.rd = mem.i.rd
      BY <2>3 DEF PipeInv, DivInMem, RegEn
    <3>2. wb'.op = mem.i.op /\ wb'.rd = mem.i.rd
      BY <2>3, <3>1 DEF Edge, NextWb, RdMem
    <3> QED
      BY <3>2 DEF PipeInv, TypeOK
  <2> QED
    BY <2>1, <2>2, <2>3
<1>3. \E i \in Slot : wb1'.op = i.op /\ wb1'.rd = i.rd
  <2>1. wb1' = wb1 \/ wb1' = wb \/ wb1' = NopWb
    BY DEF Edge, NextWb1
  <2> QED
    BY <2>1 DEF PipeInv, Provenance, NopWb, Nop
<1>4. (irq' => Irq /\ (DivIrq \/ mem'.i.op # "div")) /\ (haltreq' => Debug)
  BY EnvAssumption DEF Edge, NextInputs, Either
<1>5. pstate' # "RUNNING" => Debug
  BY DEF Edge, NextPstate, PipeInv, Provenance, Running
<1>6. /\ mem'.fault => mem'.i.op = "sys" \/ (mem'.i.op \in {"load", "store"} /\ Faults)
      /\ mem'.i.op = "sys" => mem'.fault
      /\ mem'.taken => mem'.i.op \in {"jump", "branch"}
      /\ mem'.i.op = "jump" => mem'.taken
  <2>1. CASE mem' = NopMem \/ mem' = mem
    BY <2>1 DEF PipeInv, Provenance
  <2>2. CASE ~(mem' = NopMem \/ mem' = mem)
    <3>1. /\ mem'.i = ex.i
          /\ mem'.fault <=> (ex.i.op = "sys" \/ (ex.i.op \in {"load", "store"} /\ malign))
          /\ mem'.taken <=> (ex.i.op = "jump" \/ (ex.i.op = "branch" /\ taken))
      BY <2>2 DEF Edge, NextMem
    <3> QED
      BY <3>1 DEF Choices
  <2> QED
    BY <2>1, <2>2
<1> QED
  BY <1>2, <1>3, <1>4, <1>5, <1>6 DEF Provenance
-----------------------------------------------------------------------------
(* How the instructions move at an edge.                                   *)
LEMMA Moves ==
  ASSUME PipeInv, SafeMix, SomeEdge, Running'
  PROVE  /\ \/ ~Running /\ id' = Nop /\ ex' = NopEx /\ mem' = NopMem /\ ~div.start /\ ~div.busy
            \/ Running
         /\ Running /\ ~RegEn =>
              \/ ex' = NopEx /\ mem' = NopMem /\ Trap
              \/ ex' = ex /\ mem' = mem /\ wb' = wb /\ ~Trap
         /\ RegEn /\ ~CriticalClear =>
              wb'.op = mem.i.op /\ wb'.rd = mem.i.rd /\ wb'.val = mem.val
<1>1. PICK fetched, loaded, malign, taken, more, dbg, resumereq :
        Edge(fetched, loaded, malign, taken, more, dbg, resumereq)
  BY DEF SomeEdge
<1>2. ~Running => pstate = "RESUME" /\ ExeMemClr /\ IdExeClr
  BY <1>1 DEF Edge, NextPstate, Running, ExeMemClr, IdExeClr, CriticalClear, PipeInv, TypeOK
<1>3. ~Running => id' = Nop /\ ex' = NopEx /\ mem' = NopMem /\ ~div.start /\ ~div.busy
  BY <1>1, <1>2 DEF Edge, NextId, NextEx, NextMem, PipeInv, ResumesEmpty
<1>4. ASSUME Running, ~RegEn
      PROVE  \/ ex' = NopEx /\ mem' = NopMem /\ Trap
             \/ ex' = ex /\ mem' = mem /\ wb' = wb /\ ~Trap
  <2>1. ~mem.taken /\ mem.i.op # "mret"
    BY <1>4, StallFacts
  <2> QED
    BY <1>1, <1>4, <2>1
       DEF Edge, NextEx, NextMem, NextWb, IdExeClr, ExeMemClr, CriticalClear, BranchHazard
<1>5. ASSUME RegEn, ~CriticalClear
      PROVE  wb'.op = mem.i.op /\ wb'.rd = mem.i.rd /\ wb'.val = mem.val
  <2>1. DivReady => mem.i.op = "div" /\ div.rd = mem.i.rd /\ div.val = mem.val
    BY <1>5 DEF PipeInv, DivInMem, RegEn
  <2>2. wb' = [op  |-> IF DivReady THEN "div" ELSE mem.i.op,
               rd  |-> RdMem,
               val |-> IF DivReady THEN div.val ELSE mem.val]
    BY <1>1, <1>5 DEF Edge, NextWb
  <2> QED
    BY <2>1, <2>2 DEF RdMem
<1> QED
  BY <1>3, <1>4, <1>5

(* A halted core is drained before it resumes.                             *)
LEMMA EdgeResumes ==
  ASSUME PipeInv, SomeEdge
  PROVE  ResumesEmpty'
<1>1. PICK fetched, loaded, malign, taken, more, dbg, resumereq :
        Edge(fetched, loaded, malign, taken, more, dbg, resumereq)
  BY DEF SomeEdge
<1>2. pstate' = "RESUME" => ~Running
  BY <1>1 DEF Edge, NextPstate, Running
<1>3. ~Running => /\ id' = Nop /\ ex' = NopEx /\ mem' = NopMem /\ wb' = NopWb
                  /\ ~div'.start /\ ~div'.busy
  BY <1>1 DEF Edge, NextId, NextEx, NextMem, NextWb, NextDiv, DivStart, FlushDiv, RegEn,
              IdExeClr, ExeMemClr, CriticalClear
<1> QED
  BY <1>2, <1>3 DEF ResumesEmpty

(* The divider's state stays that of the division in MEM.                  *)
LEMMA EdgeDiv ==
  ASSUME PipeInv, SafeMix, SomeEdge
  PROVE  DivInMem'
<1> SUFFICES ASSUME Running'
             PROVE  /\ mem'.i.op = "div" <=> div'.busy \/ div'.start \/ div'.busyff
                    /\ mem'.i.op = "div" => div'.rd = mem'.i.rd /\ div'.val = mem'.val
                    /\ div'.start => ~div'.busy /\ ~div'.busyff
                    /\ div'.busy => div'.busyff
  BY DEF DivInMem, DivBusy, DivReady
<1>1. PICK fetched, loaded, malign, taken, more, dbg, resumereq :
        /\ Choices(fetched, loaded, malign, taken, more, dbg, resumereq)
        /\ Edge(fetched, loaded, malign, taken, more, dbg, resumereq)
  BY DEF SomeEdge
<1>2. div' = [start  |-> DivStart /\ ~DivBusy,
              busy   |-> ~FlushDiv /\ DivBusy /\ more,
              busyff |-> DivBusy,
              rd     |-> IF DivStart THEN ex.i.rd ELSE div.rd,
              val    |-> IF FlushDiv THEN Junk ELSE IF DivStart THEN ExResult ELSE div.val]
  BY <1>1 DEF Edge, NextDiv
<1>3. CASE ~Running
  <2>1. mem' = NopMem /\ ~DivBusy /\ ~DivStart
    BY <1>3, Moves DEF DivBusy, DivStart, RegEn
  <2> QED
    BY <1>2, <2>1, NopFacts
<1>4. CASE RegEn
  <2>1. ~DivBusy /\ Running
    BY <1>4 DEF RegEn, CommonStall
  <2>2. CASE ExeMemClr
    <3>1. mem' = NopMem /\ ~DivStart
      BY <1>1, <2>2 DEF Edge, NextMem, DivStart
    <3> QED
      BY <1>2, <2>1, <3>1, NopFacts
  <2>3. CASE ~ExeMemClr
    <3>1. ~FlushDiv
      BY <2>3 DEF FlushDiv, ExeMemClr, CriticalClear
    <3>2. mem'.i = ex.i /\ (ex.i.op = "div" => mem'.val = ExResult)
      BY <1>1, <1>4, <2>3 DEF Edge, NextMem, RegWrite
    <3>3. DivStart <=> ex.i.op = "div"
      BY <1>4, <2>3 DEF DivStart
    <3> QED
      BY <1>2, <2>1, <3>1, <3>2, <3>3
  <2> QED
    BY <2>2, <2>3
<1>5. CASE Running /\ ~RegEn
  <2>1. mem.i.op = "div" <=> DivBusy
    BY <1>5, StallFacts DEF PipeInv, DivInMem
  <2>2. ~DivStart
    BY <1>5 DEF DivStart
  <2>3. CASE Trap
    <3>1. mem' = NopMem /\ mem.i.op # "div" /\ FlushDiv
      BY <1>5, <2>3, Moves, TrapWhileStalled DEF FlushDiv
    <3> QED
      BY <1>2, <2>1, <2>2, <3>1, NopFacts
  <2>4. CASE ~Trap
    <3>1. mem' = mem /\ ~FlushDiv
      BY <1>5, <2>4, Moves DEF FlushDiv
    <3>2. mem.i.op = "div" => div.rd = mem.i.rd /\ div.val = mem.val
      BY <1>5 DEF PipeInv, DivInMem
    <3> QED
      BY <1>2, <2>1, <2>2, <3>1, <3>2
  <2> QED
    BY <2>3, <2>4
<1> QED
  BY <1>3, <1>4, <1>5
-----------------------------------------------------------------------------
(* What the wires carry: a read in ID, a forwarded operand in EX.          *)
LEMMA IdReads ==
  ASSUME PipeInv, Running, NEW r \in Reg, r = X0 \/ ~(wb.op = "f2i" /\ wb.rd = r)
  PROVE  ForwardId(r) = ArchGpr[r]
BY ArchAt DEF ForwardId, WbHits, RegFileRead, RegWdataWb, RegWriteWb, FpWbToInt, RegWrite

(* A read of an f-register in ID.                                          *)
LEMMA FpIdReads ==
  ASSUME PipeInv, Running, NEW r \in Reg, ~(FpRegWrite(wb.op) /\ wb.rd = r)
  PROVE  FpRegFileRead(r) = ArchFpr[r]
BY ArchAt DEF FpRegFileRead

(* Forwarding in EX gives the value of program order.                      *)
LEMMA ForwardRight ==
  ASSUME PipeInv, SafeMix, SomeEdge, Running', RegEn, ~CriticalClear,
         NEW r \in Reg, NEW v, Captured(v, r),
         \/ Available(r)
         \/ ~(FpWbToInt(wb.op) /\ wb.rd = r) /\ ~(RegWrite(mem.i.op) /\ mem.i.rd = r)
  PROVE  ForwardEx(r, v) = ArchGpr'[r]
<1>1. Running /\ ~DivBusy
  BY DEF RegEn, CommonStall
<1>2. /\ DivReady <=> mem.i.op = "div"
      /\ DivReady => div.rd = mem.i.rd /\ div.val = mem.val
  BY <1>1 DEF PipeInv, DivInMem
<1>3. wb'.op = mem.i.op /\ wb'.rd = mem.i.rd /\ wb'.val = mem.val
  BY Moves
<1>4. ArchGpr'[r] = IF r # X0 /\ RegWrite(mem.i.op) /\ mem.i.rd = r THEN mem.val ELSE ArchGpr[r]
  BY <1>3, ArchOnEnable
<1>5. RegWriteMem <=> RegWrite(mem.i.op)
  BY <1>2 DEF RegWriteMem, RegWrite
<1>6. RdMem = mem.i.rd
  BY <1>2 DEF RdMem
<1>7. CASE r # X0 /\ RegWrite(mem.i.op) /\ mem.i.rd = r
  <2>1. ~(mem.i.op \in {"load", "mul", "f2i"})
    BY <1>7 DEF Available
  <2>2. ResultMem = mem.val
    BY <1>2, <1>7, <2>1 DEF ResultMem, RegWrite
  <2> QED
    BY <1>4, <1>5, <1>6, <1>7, <2>2 DEF ForwardEx
<1>8. CASE ~(r # X0 /\ RegWrite(mem.i.op) /\ mem.i.rd = r)
  <2>1. ForwardEx(r, v) = IF WbHits(r) THEN RegWdataWb ELSE v
    BY <1>5, <1>6, <1>8 DEF ForwardEx
  <2>2. WbHits(r) => RegWdataWb = ArchGpr[r]
    BY <1>1, ArchAt DEF WbHits, RegWdataWb, Available, FpWbToInt
  <2>3. ~WbHits(r) => v = ArchGpr[r]
    BY <1>8 DEF Captured, WbHits, RegWriteWb
  <2> QED
    BY <1>4, <1>8, <2>1, <2>2, <2>3
<1> QED
  BY <1>7, <1>8
-----------------------------------------------------------------------------
(* No hazard: what the instruction in ID reads is not still in flight.     *)
LEMMA NoHazard ==
  ASSUME PipeInv, RegEn, ~DataHazard, NEW r \in Reg
  PROVE  /\ r # X0 /\ UsesX(id, r) =>
              /\ ~(ex.i.op \in {"load", "mul", "f2i"} /\ ex.i.rd = r)
              /\ ~(mem.i.op = "f2i" /\ mem.i.rd = r)
              /\ ~(wb.op = "f2i" /\ wb.rd = r)
         /\ UsesF(id, r) =>
              /\ ~(FpRegWrite(ex.i.op) /\ ex.i.rd = r)
              /\ ~(FpRegWrite(mem.i.op) /\ mem.i.rd = r)
              /\ ~(FpRegWrite(wb.op) /\ wb.rd = r)
<1>1. IsFp(mem.i.op) => RdMem = mem.i.rd
  BY DEF PipeInv, DivInMem, RdMem, RegEn, IsFp
<1> QED
  BY <1>1 DEF DataHazard, LoadHazard, MulHazard, FpHazard, FpHazardOn, IsFp, FpRegWrite, FpWbToInt

(* In a safe mix the data of a store is not an FP to integer result.       *)
LEMMA StoreNotAfterMove ==
  ASSUME PipeInv, SafeMix, NEW i \in Slot, i.op = "store", i.rs2 # X0
  PROVE  /\ ~(FpWbToInt(wb.op) /\ wb.rd = i.rs2)
         /\ ~(FpWbToInt(mem.i.op) /\ mem.i.rd = i.rs2)
<1>1. i \in Insts
  BY NopFacts DEF Slot
<1>2. \A j \in Slot : FpWbToInt(j.op) => j.rd # i.rs2
  BY <1>1, NopFacts DEF Slot, SafeMix, NoStoreOfFpResult, FpWbToInt
<1> QED
  BY <1>2 DEF PipeInv, Provenance, TypeOK

(* What ID captures, or what is held in EX, stays right.                   *)
LEMMA EdgeEx ==
  ASSUME PipeInv, SafeMix, SomeEdge
  PROVE  ExRight'
<1> SUFFICES ASSUME Running' PROVE ExRight'
  BY DEF ExRight
<1>1. CASE ex' = NopEx
  BY <1>1, NopFacts DEF ExRight, ReadsX1, ReadsX2, RType, FpUsesRs1, FpUsesRs2, NopEx
<1>2. CASE Running /\ ~RegEn /\ ex' # NopEx
  <2>1. ex' = ex /\ mem' = mem /\ wb' = wb
    BY <1>2, Moves
  <2>2. \A r \in Reg : ArchGpr'[r] = ArchGpr[r] /\ ArchFpr'[r] = ArchFpr[r]
    BY <1>2, ArchOnStall
  <2>3. ex.i.rs1 \in Reg /\ ex.i.rs2 \in Reg
    BY NopFacts DEF PipeInv, TypeOK
  <2>4. ExRight
    BY DEF PipeInv
  <2> QED
    BY <1>2, <2>1, <2>2, <2>3, <2>4 DEF ExRight, Available, Captured, FpCaptured
<1>3. CASE RegEn /\ ex' # NopEx
  <2>1. PICK fetched, loaded, malign, taken, more, dbg, resumereq :
          Edge(fetched, loaded, malign, taken, more, dbg, resumereq)
    BY DEF SomeEdge
  <2>2. ~IdExeClr /\ ~ExeMemClr /\ ~CriticalClear /\ ~DataHazard /\ Running
    BY <1>3, <2>1 DEF Edge, NextEx, IdExeClr, ExeMemClr, RegEn
  <2>3. ex' = [i  |-> id,
           a  |-> IF ReadsX1(id.op)   THEN ForwardId(id.rs1)     ELSE Zero,
           b  |-> IF ReadsX2(id.op)   THEN ForwardId(id.rs2)     ELSE Zero,
           fa |-> IF FpUsesRs1(id.op) THEN FpRegFileRead(id.rs1) ELSE Zero,
           fb |-> IF FpUsesRs2(id.op) THEN FpRegFileRead(id.rs2) ELSE Zero]
    BY <1>3, <2>1, <2>2 DEF Edge, NextEx
  <2>4. mem'.i = ex.i
    BY <1>3, <2>1, <2>2 DEF Edge, NextMem
  <2>5. wb'.op = mem.i.op /\ wb'.rd = mem.i.rd /\ wb'.val = mem.val
    BY <1>3, <2>2, Moves
  <2>6. id \in Slot /\ id.rs1 \in Reg /\ id.rs2 \in Reg
    BY NopFacts DEF PipeInv, TypeOK
  <2>7. ASSUME NEW r \in Reg, r = X0 \/ ~(wb.op = "f2i" /\ wb.rd = r)
        PROVE  \/ r # X0 /\ RegWrite(wb'.op) /\ wb'.rd = r
               \/ ForwardId(r) = ArchGpr'[r]
    BY <1>3, <2>2, <2>7, IdReads, ArchOnEnable
  <2>8. ASSUME NEW r \in Reg, r = X0 \/ UsesX(id, r)
        PROVE  /\ \/ r = X0
                  \/ /\ ~(mem'.i.op \in {"load", "mul", "f2i"} /\ mem'.i.rd = r)
                     /\ ~(wb'.op = "f2i" /\ wb'.rd = r)
               /\ r = X0 \/ ~(wb.op = "f2i" /\ wb.rd = r)
    BY <1>3, <2>2, <2>4, <2>5, <2>8, NoHazard
  <2>9. ReadsX1(id.op) => UsesX(id, id.rs1)
    BY DEF ReadsX1, RType, UsesX, ExeUseRs1
  <2>10. ReadsX2(id.op) /\ id.op # "store" => UsesX(id, id.rs2)
    BY DEF ReadsX2, UsesX, ExeUseRs2
  <2>11. id.op = "store" => id.rs2 = X0 \/ ~(wb.op = "f2i" /\ wb.rd = id.rs2)
    BY <2>6, StoreNotAfterMove DEF FpWbToInt
  <2>12. ReadsX1(id.op) => Available(ex.i.rs1)' /\ Captured(ex.a, ex.i.rs1)'
    BY <2>3, <2>6, <2>7, <2>8, <2>9 DEF Available, Captured
  <2>13. ReadsX2(id.op) => Captured(ex.b, ex.i.rs2)'
    BY <2>3, <2>6, <2>7, <2>8, <2>10, <2>11 DEF Captured
  <2>14. ReadsX2(id.op) /\ id.op # "store" => Available(ex.i.rs2)'
    BY <2>3, <2>6, <2>8, <2>10 DEF Available
  <2>15. ASSUME NEW r \in Reg, UsesF(id, r)
         PROVE  /\ ~(FpRegWrite(mem'.i.op) /\ mem'.i.rd = r)
                /\ ~(FpRegWrite(wb'.op) /\ wb'.rd = r)
                /\ FpRegFileRead(r) = ArchFpr'[r]
    BY <1>3, <2>2, <2>4, <2>5, <2>15, NoHazard, FpIdReads, ArchOnEnable
  <2>16. FpUsesRs1(id.op) => FpCaptured(ex.fa, ex.i.rs1)'
    BY <2>3, <2>6, <2>15 DEF FpCaptured, UsesF
  <2>17. FpUsesRs2(id.op) => FpCaptured(ex.fb, ex.i.rs2)'
    BY <2>3, <2>6, <2>15 DEF FpCaptured, UsesF
  <2> QED
    BY <2>3, <2>12, <2>13, <2>14, <2>16, <2>17 DEF ExRight
<1>4. CASE ~Running
  BY <1>1, <1>4, Moves
<1> QED
  BY <1>1, <1>2, <1>3, <1>4 DEF RegEn

(* What EX hands to MEM is right, and stays right while it waits there.    *)
LEMMA EdgeMem ==
  ASSUME PipeInv, SafeMix, SomeEdge
  PROVE  MemRight'
<1> SUFFICES ASSUME Running' PROVE MemRight'
  BY DEF MemRight
<1>1. CASE mem' = NopMem
  BY <1>1, NopFacts DEF MemRight, MemOperandsRight, ReadsX1, ReadsX2, RType, RegWrite, FpRegWrite
<1>2. CASE Running /\ ~RegEn /\ mem' # NopMem
  <2>1. mem' = mem /\ wb' = wb
    BY <1>2, Moves
  <2>2. \A r \in Reg : ArchGpr'[r] = ArchGpr[r] /\ ArchFpr'[r] = ArchFpr[r]
    BY <1>2, ArchOnStall
  <2>3. mem.i.rs1 \in Reg /\ mem.i.rs2 \in Reg
    BY NopFacts DEF PipeInv, TypeOK
  <2>4. IsaResult(mem.i)' = IsaResult(mem.i)
    BY <2>1, <2>2, <2>3 DEF IsaResult
  <2>5. MemWdataTmp' = MemWdataTmp
    BY <2>1 DEF MemWdataTmp, WbHits, RegWriteWb, RegWdataWb
  <2>6. stff' = IF enff THEN MemWdataTmp ELSE stff
    BY <1>2 DEF SomeEdge, Edge, NextStore
  <2>7. MemRight
    BY DEF PipeInv
  <2> QED
    BY <1>2, <2>1, <2>2, <2>3, <2>4, <2>5, <2>6, <2>7 DEF MemRight, MemOperandsRight
<1>3. CASE RegEn /\ mem' # NopMem
  <2>1. PICK fetched, loaded, malign, taken, more, dbg, resumereq :
          /\ Choices(fetched, loaded, malign, taken, more, dbg, resumereq)
          /\ Edge(fetched, loaded, malign, taken, more, dbg, resumereq)
    BY DEF SomeEdge
  <2>2. ~ExeMemClr /\ ~CriticalClear /\ Running
    BY <1>3, <2>1 DEF Edge, NextMem, ExeMemClr, RegEn
  <2>3. /\ mem'.i = ex.i /\ mem'.a = RdataA /\ mem'.b = RdataB
        /\ mem'.val = IF ex.i.op = "load" THEN loaded
                      ELSE IF RegWrite(ex.i.op) \/ FpRegWrite(ex.i.op) THEN ExResult
                      ELSE Zero
    BY <1>3, <2>1, <2>2 DEF Edge, NextMem
  <2>4. wb'.op = mem.i.op /\ wb'.rd = mem.i.rd /\ wb'.val = mem.val
    BY <1>3, <2>2, Moves
  <2>5. ex.i \in Slot /\ ex.i.rs1 \in Reg /\ ex.i.rs2 \in Reg
    BY NopFacts DEF PipeInv, TypeOK
  <2>6. ExRight
    BY DEF PipeInv
  <2>7. ReadsX1(ex.i.op) => RdataA = ArchGpr'[ex.i.rs1]
    BY <1>3, <2>2, <2>5, <2>6, ForwardRight DEF ExRight, RdataA
  <2>8. ReadsX2(ex.i.op) /\ ex.i.op # "store" => RdataB = ArchGpr'[ex.i.rs2]
    BY <1>3, <2>2, <2>5, <2>6, ForwardRight DEF ExRight, RdataB
  <2>9. /\ FpUsesRs1(ex.i.op) => ex.fa = ArchFpr'[ex.i.rs1]
        /\ FpUsesRs2(ex.i.op) => ex.fb = ArchFpr'[ex.i.rs2]
    BY <1>3, <2>2, <2>4, <2>5, <2>6, ArchOnEnable DEF ExRight, FpCaptured
  <2>10. (RegWrite(ex.i.op) \/ FpRegWrite(ex.i.op)) => ExResult = IsaResult(mem.i)'
    <3>1. (RegWrite(ex.i.op) \/ FpRegWrite(ex.i.op)) => ex.i.op # "store"
      BY DEF RegWrite, FpRegWrite
    <3>2. /\ ~ReadsX1(ex.i.op) => RdataA = Zero
          /\ ~ReadsX2(ex.i.op) => RdataB = Zero
          /\ ~FpUsesRs1(ex.i.op) => ex.fa = Zero
          /\ ~FpUsesRs2(ex.i.op) => ex.fb = Zero
      BY <2>2, <2>6 DEF RdataA, RdataB, ExRight
    <3> QED
      BY <2>3, <2>7, <2>8, <2>9, <3>1, <3>2 DEF ExResult, IsaResult
  <2>11. mem'.i.op = "store" => MemWdataTmp' = ArchGpr'[mem'.i.rs2]
    <3> SUFFICES ASSUME ex.i.op = "store", NEW r \in Reg, r = ex.i.rs2
                 PROVE  MemWdataTmp' = ArchGpr'[r]
      BY <2>3, <2>5
    <3>1. MemWdataTmp' = IF r # X0 /\ RegWrite(mem.i.op) /\ mem.i.rd = r
                         THEN (IF FpWbToInt(mem.i.op) THEN Junk ELSE mem.val) ELSE RdataB
      BY <2>3, <2>4 DEF MemWdataTmp, WbHits, RegWriteWb, RegWdataWb
    <3>2. r # X0 => ~(FpWbToInt(wb.op) /\ wb.rd = r) /\ ~(FpWbToInt(mem.i.op) /\ mem.i.rd = r)
      BY <2>5, StoreNotAfterMove
    <3>3. RdataB = ForwardEx(r, ex.b) /\ Captured(ex.b, r)
      BY <2>2, <2>6 DEF RdataB, ExRight, ReadsX2
    <3>4. CASE r # X0 /\ RegWrite(mem.i.op) /\ mem.i.rd = r
      BY <1>3, <2>4, <3>1, <3>2, <3>4, ArchOnEnable
    <3>5. CASE ~(r # X0 /\ RegWrite(mem.i.op) /\ mem.i.rd = r)
      <4>1. \/ Available(r)
            \/ ~(FpWbToInt(wb.op) /\ wb.rd = r) /\ ~(RegWrite(mem.i.op) /\ mem.i.rd = r)
        BY <3>2, <3>5 DEF Available
      <4>2. ForwardEx(r, ex.b) = ArchGpr'[r]
        BY <1>3, <2>2, <3>3, <4>1, ForwardRight
      <4> QED
        BY <3>1, <3>3, <3>5, <4>2
    <3> QED
      BY <3>4, <3>5
  <2>12. enff'
    BY <1>3, <2>1 DEF Edge, NextStore
  <2>13. loaded \in Word
    BY <2>1 DEF Choices
  <2> QED
    BY <2>3, <2>7, <2>8, <2>10, <2>11, <2>12, <2>13 DEF MemRight, MemOperandsRight
<1>4. CASE ~Running
  BY <1>1, <1>4, Moves
<1> QED
  BY <1>1, <1>2, <1>3, <1>4 DEF RegEn

(* The registers of the ISA hold words, never a wire's junk.               *)
LEMMA EdgeArchTyped ==
  ASSUME PipeInv, SafeMix, SomeEdge
  PROVE  ArchTyped'
<1>1. \A r \in Reg : ArchGpr[r] \in Word /\ ArchFpr[r] \in Word
  BY DEF PipeInv, ArchTyped
<1>2. SUFFICES \A r \in Reg : ArchGpr'[r] \in Word /\ ArchFpr'[r] \in Word
  <2>1. ArchGpr' = [r \in Reg |-> ArchGpr'[r]] /\ ArchFpr' = [r \in Reg |-> ArchFpr'[r]]
    BY DEF ArchGpr, ArchFpr
  <2> QED
    BY <2>1 DEF ArchTyped
<1>3. CASE ~Running
  BY <1>1, <1>3, ArchOnHalt, WordAssumption
<1>4. CASE Running /\ ~RegEn
  BY <1>1, <1>4, ArchOnStall
<1>5. CASE RegEn
  <2>1. SUFFICES ASSUME Running', RegWrite(wb'.op) \/ FpRegWrite(wb'.op) PROVE wb'.val \in Word
    BY <1>1, <1>5, ArchOnEnable
  <2>2. ~CriticalClear
    BY <2>1, NopFacts DEF SomeEdge, Edge, NextWb, RegWrite, FpRegWrite
  <2>3. Running /\ wb'.op = mem.i.op /\ wb'.val = mem.val
    BY <1>5, <2>1, <2>2, Moves DEF RegEn
  <2>4. mem.i \in Insts /\ mem.i.rs1 \in Reg /\ mem.i.rs2 \in Reg
    BY <2>1, <2>3, NopFacts DEF PipeInv, TypeOK, Slot, RegWrite, FpRegWrite
  <2>5. IsaResult(mem.i) \in Word
    BY <1>1, <2>4, ResultAssumption, WordAssumption DEF IsaResult
  <2> QED
    BY <2>1, <2>3, <2>5 DEF PipeInv, MemRight
<1> QED
  BY <1>3, <1>4, <1>5 DEF RegEn
-----------------------------------------------------------------------------
(* Every clock edge keeps the inductive invariant.                         *)
LEMMA Inductive ==
  ASSUME PipeInv, SafeMix, [Next]_vars
  PROVE  PipeInv'
<1>1. CASE Next
  <2>1. SomeEdge
    BY <1>1, NextIsEdge
  <2> QED
    BY <2>1, EdgeType, EdgeProvenance, EdgeResumes, EdgeDiv, EdgeEx, EdgeMem, EdgeArchTyped
       DEF PipeInv
<1>2. CASE UNCHANGED vars
  <2>1. ArchGpr' = ArchGpr /\ ArchFpr' = ArchFpr
    BY <1>2 DEF vars, ArchGpr, ArchFpr, Running, RegWriteWb
  <2>2. TypeOK' /\ Provenance' /\ ResumesEmpty' /\ DivInMem'
    BY <1>2 DEF vars, PipeInv, TypeOK, Provenance, ResumesEmpty, DivInMem, Running, DivBusy, DivReady
  <2>3. ExRight'
    BY <1>2, <2>1 DEF vars, PipeInv, ExRight, Running, Available, Captured, FpCaptured
  <2>4. MemRight'
    BY <1>2, <2>1 DEF vars, PipeInv, MemRight, MemOperandsRight, Running, IsaResult, MemWdataTmp,
                      WbHits, RegWriteWb, RegWdataWb
  <2>5. ArchTyped'
    BY <2>1 DEF PipeInv, ArchTyped
  <2> QED
    BY <2>2, <2>3, <2>4, <2>5 DEF PipeInv
<1> QED
  BY <1>1, <1>2

(* The inductive invariant, and with it the type invariant, holds of every *)
(* core and every program of a safe mix, in every cycle.                   *)
THEOREM Invariance == ASSUME SafeMix PROVE Spec => []PipeInv
<1>1. PipeInv /\ [Next]_vars => PipeInv'
  BY Inductive
<1> QED
  BY InitPipeInv, <1>1, PTL DEF Spec

(* The pipeline registers hold what their type says.                       *)
THEOREM TypeCorrect == ASSUME SafeMix PROVE Spec => []TypeOK
<1>1. PipeInv => TypeOK
  BY DEF PipeInv
<1> QED
  BY Invariance, <1>1, PTL

(* Hazards and forwarding deliver the operands of program order.           *)
THEOREM OperandsRight == ASSUME SafeMix PROVE Spec => []MemOperandsRight
<1>1. PipeInv => MemOperandsRight
  BY DEF PipeInv, MemRight, MemOperandsRight
<1> QED
  BY Invariance, <1>1, PTL

(* A store drives the program-order value of rs2 in every cycle it is in   *)
(* MEM, the last one of a stall, with the held data, included.             *)
THEOREM StoresRight == ASSUME SafeMix PROVE Spec => []StoreDataRight
<1>1. PipeInv => StoreDataRight
  BY DEF PipeInv, MemRight, StoreDataRight, MemWdata
<1> QED
  BY Invariance, <1>1, PTL
-----------------------------------------------------------------------------
(* Pointwise facts about the registers make facts about the whole files.   *)
LEMMA ArchFunctions ==
  /\ ArchGpr = [r \in Reg |-> ArchGpr[r]] /\ ArchGpr' = [r \in Reg |-> ArchGpr'[r]]
  /\ ArchFpr = [r \in Reg |-> ArchFpr[r]] /\ ArchFpr' = [r \in Reg |-> ArchFpr'[r]]
BY DEF ArchGpr, ArchFpr

(* An instruction that retires carries its result.                         *)
LEMMA RetiresInWord ==
  ASSUME PipeInv, Running, mem.i # Nop
  PROVE  /\ mem.i \in Insts
         /\ IsaResult(mem.i) \in Word
         /\ RegWrite(mem.i.op) \/ FpRegWrite(mem.i.op) =>
              mem.val \in Word /\ (mem.i.op # "load" => mem.val = IsaResult(mem.i))
<1>1. mem.i \in Insts /\ mem.i.rs1 \in Reg /\ mem.i.rs2 \in Reg
  BY NopFacts DEF PipeInv, TypeOK, Slot
<1>2. IsaResult(mem.i) \in Word
  BY <1>1, ResultAssumption, WordAssumption DEF PipeInv, ArchTyped, IsaResult
<1> QED
  BY <1>1, <1>2 DEF PipeInv, MemRight

(* A retirement is a step of the sequential machine.                       *)
LEMMA RetiringExecutes ==
  ASSUME PipeInv, SafeMix, SomeEdge, Retires
  PROVE  ISA!Execute(mem.i)
<1>1. Running /\ Running' /\ mem.i # Nop
  BY DEF Retires, RegEn, Running
<1>2. wb'.op = mem.i.op /\ wb'.rd = mem.i.rd /\ wb'.val = mem.val
  BY <1>1, Moves DEF Retires
<1>3. \A r \in Reg :
        /\ ArchGpr'[r] = IF r # X0 /\ RegWrite(mem.i.op) /\ mem.i.rd = r
                         THEN mem.val ELSE ArchGpr[r]
        /\ ArchFpr'[r] = IF FpRegWrite(mem.i.op) /\ mem.i.rd = r THEN mem.val ELSE ArchFpr[r]
  BY <1>1, <1>2, ArchOnEnable DEF Retires
<1> DEFINE w == IF RegWrite(mem.i.op) \/ FpRegWrite(mem.i.op) THEN mem.val ELSE IsaResult(mem.i)
<1>4. w \in Word /\ (mem.i.op # "load" => w = IsaResult(mem.i))
  BY <1>1, RetiresInWord
<1>5. mem.i.rd \in Reg
  BY <1>1, RetiresInWord, NopFacts DEF Slot
<1>6. IF RegWrite(mem.i.op) THEN ISA!WriteGpr(mem.i.rd, w) ELSE UNCHANGED ArchGpr
  BY <1>3, <1>5, ArchFunctions DEF ISA!WriteGpr
<1>7. ArchFpr' = IF FpRegWrite(mem.i.op) THEN [ArchFpr EXCEPT ![mem.i.rd] = w] ELSE ArchFpr
  BY <1>3, <1>5, ArchFunctions
<1>8. \A op : /\ ISA!ReadsX1(op) = ReadsX1(op) /\ ISA!ReadsX2(op) = ReadsX2(op)
              /\ ISA!FpUsesRs1(op) = FpUsesRs1(op) /\ ISA!FpUsesRs2(op) = FpUsesRs2(op)
              /\ ISA!RegWrite(op) = RegWrite(op) /\ ISA!FpRegWrite(op) = FpRegWrite(op)
  BY DEF ISA!ReadsX1, ISA!ReadsX2, ISA!FpUsesRs1, ISA!FpUsesRs2, ISA!RegWrite, ISA!FpRegWrite,
         ReadsX1, ReadsX2, FpUsesRs1, FpUsesRs2, RegWrite, FpRegWrite, RType, ISA!RType
<1> HIDE DEF w
<1> QED
  BY <1>4, <1>6, <1>7, <1>8 DEF ISA!Execute, IsaResult

(* Any other edge is a stutter, or the debugger's write.                   *)
LEMMA OthersChangeNothing ==
  ASSUME PipeInv, SafeMix, SomeEdge, ~Retires
  PROVE  \/ UNCHANGED <<ArchGpr, ArchFpr>>
         \/ ~Running /\ \E r \in Reg, w \in DbgWords : ISA!DebugWrite(r, w)
<1>1. CASE \A r \in Reg : ArchGpr'[r] = ArchGpr[r] /\ ArchFpr'[r] = ArchFpr[r]
  BY <1>1, ArchFunctions
<1>2. CASE ~Running
  <2>1. SUFFICES ASSUME NEW d \in Reg, NEW w \in DbgWords,
                        \A r \in Reg :
                          /\ ArchGpr'[r] = IF r = d /\ r # X0 THEN w ELSE ArchGpr[r]
                          /\ ArchFpr'[r] = ArchFpr[r]
                 PROVE  ISA!DebugWrite(d, w)
    BY <1>1, <1>2, ArchOnHalt
  <2> QED
    BY <2>1, ArchFunctions DEF ISA!DebugWrite, ISA!WriteGpr
<1>3. CASE Running /\ ~RegEn
  BY <1>1, <1>3, ArchOnStall
<1>4. CASE RegEn
  <2>1. CASE CriticalClear
    <3>1. wb' = NopWb
      BY <2>1 DEF SomeEdge, Edge, NextWb
    <3> QED
      BY <1>1, <1>4, <3>1, ArchOnEnable, NopFacts DEF RegWrite, FpRegWrite
  <2>2. CASE ~Running'
    BY <1>1, <1>4, <2>2, ArchOnEnable
  <2>3. CASE ~CriticalClear /\ Running'
    <3>1. mem.i = Nop
      BY <1>4, <2>3 DEF Retires, Running
    <3>2. wb'.op = "nop"
      BY <1>4, <2>3, <3>1, Moves, NopFacts
    <3> QED
      BY <1>1, <1>4, <3>2, ArchOnEnable DEF RegWrite, FpRegWrite
  <2> QED
    BY <2>1, <2>2, <2>3
<1> QED
  BY <1>2, <1>3, <1>4 DEF RegEn

(* Every instruction that leaves MEM writes its one result exactly once,   *)
(* and nothing but that and the debugger changes a register.               *)
THEOREM WritesExactlyOnce == ASSUME SafeMix PROVE Spec => ExactlyOnce
<1>1. PipeInv /\ [Next]_vars =>
        [IF Retires THEN ISA!Execute(mem.i)
         ELSE \/ UNCHANGED <<ArchGpr, ArchFpr>>
              \/ ~Running /\ \E r \in Reg, w \in DbgWords : ISA!DebugWrite(r, w)]_vars
  <2> SUFFICES ASSUME PipeInv, Next
               PROVE  IF Retires THEN ISA!Execute(mem.i)
                      ELSE \/ UNCHANGED <<ArchGpr, ArchFpr>>
                           \/ ~Running /\ \E r \in Reg, w \in DbgWords : ISA!DebugWrite(r, w)
    OBVIOUS
  <2> QED
    BY NextIsEdge, RetiringExecutes, OthersChangeNothing
<1> QED
  BY Invariance, <1>1, PTL DEF Spec, ExactlyOnce

-----------------------------------------------------------------------------
(* The instructions in flight as a queue: a bubble takes no place in it.   *)
LEMMA Bubbles ==
  /\ \A i \in Slot : Cell(i) \in Seq(Slot)
  /\ \A s \in Seq(Slot) : s \o Cell(Nop) = s
<1>1. Cell(Nop) = <<>>
  BY DEF Cell
<1>2. \A i \in Slot : Cell(i) \in Seq(Slot)
  BY DEF Cell
<1> QED BY <1>1, <1>2, ConcatEmptySeq

(* Its head is what MEM holds, or else what EX and ID do.                  *)
LEMMA Queues ==
  ASSUME NEW m \in Slot, NEW e \in Slot, NEW d \in Slot
  PROVE  /\ m = Nop => Cell(m) \o Cell(e) \o Cell(d) = Cell(e) \o Cell(d)
         /\ m # Nop => /\ Cell(m) \o Cell(e) \o Cell(d) # <<>>
                       /\ Head(Cell(m) \o Cell(e) \o Cell(d)) = m
                       /\ Tail(Cell(m) \o Cell(e) \o Cell(d)) = Cell(e) \o Cell(d)
<1>1. \A i \in Slot : Cell(i) \in Seq(Slot)
  BY DEF Cell
<1> DEFINE q == Cell(e) \o Cell(d)
<1>2. q \in Seq(Slot) /\ Cell(m) \o Cell(e) \in Seq(Slot)
  BY <1>1, ConcatProperties
<1>3. Cell(m) \o Cell(e) \o Cell(d) = Cell(m) \o q
  <2>1. \A s, t, u \in Seq(Slot) : (s \o t) \o u = s \o (t \o u)
    BY ConcatAssociative
  <2> QED BY <1>1, <2>1
<1>4. m = Nop => Cell(m) \o q = q
  BY <1>2, ConcatEmptySeq DEF Cell
<1> HIDE DEF q
<1>7. ASSUME m # Nop
      PROVE  Cell(m) \o q # <<>> /\ Head(Cell(m) \o q) = m /\ Tail(Cell(m) \o q) = q
  <2>1. Cell(m) = <<m>> /\ <<m>> \in Seq(Slot) /\ Len(<<m>>) = 1
    BY <1>7 DEF Cell
  <2>2. /\ <<m>> \o q \in Seq(Slot)
        /\ Len(<<m>> \o q) = 1 + Len(q)
        /\ \A i \in 1..(1 + Len(q)) : (<<m>> \o q)[i] = IF i <= 1 THEN <<m>>[i] ELSE q[i - 1]
    BY <1>2, <2>1, ConcatProperties
  <2>3. Len(q) \in Nat
    BY <1>2
  <2>4. <<m>> \o q # <<>> /\ Head(<<m>> \o q) = m
    BY <2>2, <2>3
  <2>5. /\ Tail(<<m>> \o q) \in Seq(Slot) /\ Len(Tail(<<m>> \o q)) = Len(q)
        /\ \A i \in 1..Len(q) : Tail(<<m>> \o q)[i] = (<<m>> \o q)[i + 1]
    BY <2>2, <2>3, <2>4, HeadTailProperties
  <2>6. \A i \in 1..Len(q) : Tail(<<m>> \o q)[i] = q[i]
    BY <2>2, <2>3, <2>5
  <2>7. Tail(<<m>> \o q) = q
    BY <1>2, <2>5, <2>6, SeqEqual
  <2> QED BY <2>1, <2>4, <2>7
<1> QED BY <1>3, <1>4, <1>7 DEF q

(* How the queue moves at an edge.                                         *)
LEMMA QueueMoves ==
  ASSUME PipeInv, SafeMix, SomeEdge
  PROVE  /\ ~Running \/ ~Running' \/ ExeMemClr => InFlight' = <<>>
         /\ Running /\ Running' /\ ~ExeMemClr /\ ~RegEn => InFlight' = InFlight
         /\ RegEn /\ Running' /\ ~ExeMemClr =>
              \E f \in ISA!Fetched : InFlight' = (Cell(ex.i) \o Cell(id)) \o f
<1>1. PICK fetched, loaded, malign, taken, more, dbg, resumereq :
        /\ Choices(fetched, loaded, malign, taken, more, dbg, resumereq)
        /\ Edge(fetched, loaded, malign, taken, more, dbg, resumereq)
  BY DEF SomeEdge
<1>2. id \in Slot /\ ex.i \in Slot /\ fetched \in Slot /\ Nop \in Slot
  BY <1>1, NopFacts DEF PipeInv, TypeOK, Choices
<1>3. ~Running => ExeMemClr
  BY DEF ExeMemClr, CriticalClear
<1>4. ASSUME ExeMemClr PROVE InFlight' = <<>>
  <2>1. id' = Nop /\ ex'.i = Nop /\ mem'.i = Nop
    BY <1>1, <1>4, NopFacts DEF Edge, NextId, NextEx, NextMem, IdExeClr
  <2>2. Cell(Nop) \o Cell(Nop) \o Cell(Nop) = <<>>
    <3>1. Cell(Nop) = <<>> /\ <<>> \in Seq(Slot)
      BY DEF Cell
    <3>2. <<>> \o <<>> = <<>>
      BY <3>1, ConcatEmptySeq
    <3> QED BY <3>1, <3>2
  <2>3. InFlight' = IF Running' THEN Cell(mem'.i) \o Cell(ex'.i) \o Cell(id') ELSE <<>>
    BY DEF InFlight, Cell, Nop
  <2> QED BY <2>1, <2>2, <2>3
<1>5. ~Running' => InFlight' = <<>>
  BY DEF InFlight
<1>6. ASSUME Running, Running', ~ExeMemClr, ~RegEn PROVE InFlight' = InFlight
  <2>1. id' = id /\ ex' = ex /\ mem' = mem
    BY <1>1, <1>6 DEF Edge, NextId, NextEx, NextMem, IdExeClr
  <2> QED BY <1>6, <2>1 DEF InFlight, Cell, Nop
<1>7. ASSUME RegEn, Running', ~ExeMemClr
      PROVE  \E f \in ISA!Fetched : InFlight' = (Cell(ex.i) \o Cell(id)) \o f
  <2>1. mem'.i = ex.i
    BY <1>1, <1>7 DEF Edge, NextMem
  <2>2. InFlight' = Cell(mem'.i) \o Cell(ex'.i) \o Cell(id')
    BY <1>7 DEF InFlight, Cell, Nop
  <2>3. CASE DataHazard
    <3>1. ex'.i = Nop /\ id' = id
      BY <1>1, <1>7, <2>3, NopFacts DEF Edge, NextId, NextEx, IdExeClr
    <3>2. Cell(ex.i) \in Seq(Slot) /\ Cell(id) \in Seq(Slot)
      BY <1>2, Bubbles
    <3>3. Cell(ex.i) \o Cell(Nop) = Cell(ex.i)
      BY <3>2, Bubbles
    <3>4. Cell(ex.i) \o Cell(id) \in Seq(Slot)
      BY <3>2, ConcatProperties
    <3>5. (Cell(ex.i) \o Cell(id)) \o <<>> = Cell(ex.i) \o Cell(id)
      BY <3>4, ConcatEmptySeq
    <3>6. InFlight' = (Cell(ex.i) \o Cell(id)) \o <<>>
      BY <2>1, <2>2, <3>1, <3>3, <3>5
    <3> QED BY <3>6 DEF ISA!Fetched
  <2>4. CASE ~DataHazard
    <3>1. ex'.i = id /\ id' = fetched
      BY <1>1, <1>7, <2>4 DEF Edge, NextId, NextEx, IdExeClr
    <3>2. Cell(fetched) \in ISA!Fetched
      BY <1>2 DEF Cell, ISA!Fetched, Slot
    <3> QED BY <2>1, <2>2, <3>1, <3>2
  <2> QED BY <2>3, <2>4
<1> QED BY <1>3, <1>4, <1>5, <1>6, <1>7

(* The pipelined core implements the sequential machine: it executes what  *)
(* it is given once, in that order, on the registers as they are then.     *)
THEOREM Refinement == ASSUME SafeMix PROVE Spec => Sequential
<1>1. Init => ISA!Init
  <2>1. \A S : Cell(Nop) = <<>> /\ <<>> \in Seq(S)
    BY DEF Cell
  <2>2. Init => InFlight = <<>>
    BY <2>1, NopFacts, ConcatEmptySeq DEF Init, InFlight
  <2> QED BY <2>2, NopFacts
          DEF Init, ISA!Init, ArchGpr, ArchFpr, RegWriteWb, RegWrite, FpRegWrite, FpWbToInt
<1>2. PipeInv /\ [Next]_vars => [ISA!Next]_<<ArchGpr, ArchFpr, InFlight>>
  <2> SUFFICES ASSUME PipeInv, [Next]_vars
               PROVE  ISA!Next \/ UNCHANGED <<ArchGpr, ArchFpr, InFlight>>
    OBVIOUS
  <2>1. CASE UNCHANGED vars
    BY <2>1 DEF vars, ArchGpr, ArchFpr, InFlight, Cell, Nop, Running, RegWriteWb
  <2>2. CASE Next
    <3>1. SomeEdge
      BY <2>2, NextIsEdge
    <3>2. /\ mem.i \in Slot /\ ex.i \in Slot /\ id \in Slot
          /\ Running => InFlight = Cell(mem.i) \o Cell(ex.i) \o Cell(id)
          /\ ~Running => InFlight = <<>>
      BY DEF PipeInv, TypeOK, InFlight
    <3>3. Running /\ mem.i # Nop => /\ InFlight # <<>> /\ Head(InFlight) = mem.i
                                    /\ Tail(InFlight) = Cell(ex.i) \o Cell(id)
      <4>1. mem.i # Nop =>
              /\ Cell(mem.i) \o Cell(ex.i) \o Cell(id) # <<>>
              /\ Head(Cell(mem.i) \o Cell(ex.i) \o Cell(id)) = mem.i
              /\ Tail(Cell(mem.i) \o Cell(ex.i) \o Cell(id)) = Cell(ex.i) \o Cell(id)
        BY <3>2, Queues, Zenon
      <4> HIDE DEF InFlight, Cell
      <4> QED BY <3>2, <4>1, Zenon
    <3>4. CASE Retires
      <4>1. /\ Running /\ Running' /\ mem.i # Nop /\ RegEn /\ ~CriticalClear
            /\ ISA!Execute(mem.i)
        BY <3>1, <3>4, RetiringExecutes DEF Retires, RegEn, Running
      <4>2. CASE mem.taken
        <5>1. mem.i.op \in {"jump", "branch"} /\ InFlight' = <<>>
          BY <3>1, <4>2, QueueMoves DEF PipeInv, Provenance, ExeMemClr, BranchHazard
        <5>2. ISA!Redirect
          BY <3>3, <4>1, <5>1 DEF ISA!Redirect
        <5> QED BY <5>2 DEF ISA!Next
      <4>3. CASE ~mem.taken
        <5>1. PICK f \in ISA!Fetched : InFlight' = (Cell(ex.i) \o Cell(id)) \o f
          BY <3>1, <4>1, <4>3, QueueMoves DEF ExeMemClr, BranchHazard
        <5>2. ~haltreq
          BY <3>1, <4>1 DEF SomeEdge, Edge, NextPstate, Running
        <5>3. ~mem.fault /\ mem.i.op # "mret"
          BY <4>1, <5>2 DEF CriticalClear, Trap, DontTrap
        <5>4. mem.i.op \notin {"jump", "mret", "sys"}
          BY <4>3, <5>3 DEF PipeInv, Provenance
        <5>5. ISA!Advance(f)
          BY <3>3, <4>1, <5>1, <5>4 DEF ISA!Advance
        <5> QED BY <5>5 DEF ISA!Next
      <4> QED BY <4>2, <4>3
    <3>5. CASE ~Retires /\ ~Running
      <4>1. Debug /\ InFlight = <<>> /\ InFlight' = <<>>
        BY <3>1, <3>2, <3>5, QueueMoves DEF PipeInv, Provenance, Running
      <4>2. CASE UNCHANGED <<ArchGpr, ArchFpr>>
        BY <4>1, <4>2
      <4>3. CASE \E r \in Reg, w \in DbgWords : ISA!DebugWrite(r, w)
        <5>1. ISA!Access
          BY <4>1, <4>3 DEF ISA!Access
        <5> QED BY <5>1 DEF ISA!Next
      <4> QED BY <3>1, <3>5, <4>2, <4>3, OthersChangeNothing
    <3>6. CASE ~Retires /\ Running
      <4>1. UNCHANGED <<ArchGpr, ArchFpr>>
        BY <3>1, <3>6, OthersChangeNothing
      <4>2. CASE ~Running'
        <5>1. Debug /\ InFlight' = <<>>
          BY <3>1, <3>6, <4>2, QueueMoves
             DEF SomeEdge, Edge, NextPstate, Running, PipeInv, Provenance
        <5>2. ISA!Abandon
          BY <4>1, <5>1 DEF ISA!Abandon
        <5> QED BY <5>2 DEF ISA!Next
      <4>3. CASE Running' /\ CriticalClear
        <5>1. InFlight' = <<>>
          BY <3>1, <4>3, QueueMoves DEF ExeMemClr
        <5>2. \/ Irq
              \/ mem.i.op \in {"sys", "mret"}
              \/ Faults /\ mem.i.op \in {"load", "store"}
          BY <3>6, <4>3 DEF CriticalClear, Trap, PipeInv, Provenance
        <5>3. mem.i.op # "nop" => mem.i # Nop
          BY NopFacts
        <5>4. ISA!Abandon
          BY <3>3, <3>6, <4>1, <5>1, <5>2, <5>3 DEF ISA!Abandon
        <5> QED BY <5>4 DEF ISA!Next
      <4>4. CASE Running' /\ ~CriticalClear
        <5>1. CASE RegEn
          <6>1. mem.i = Nop
            BY <3>6, <4>4, <5>1 DEF Retires, Running
          <6>2. ~ExeMemClr
            BY <4>4, <6>1, NopFacts DEF ExeMemClr, BranchHazard, PipeInv, Provenance
          <6>3. InFlight = Cell(ex.i) \o Cell(id)
            BY <3>2, <3>6, <6>1, Queues
          <6>4. PICK f \in ISA!Fetched : InFlight' = (Cell(ex.i) \o Cell(id)) \o f
            BY <3>1, <4>4, <5>1, <6>2, QueueMoves
          <6>5. ISA!Wait(f)
            BY <4>1, <6>3, <6>4 DEF ISA!Wait
          <6> QED BY <6>5 DEF ISA!Next
        <5>2. CASE ~RegEn
          <6>1. ~ExeMemClr
            BY <3>6, <4>4, <5>2, StallFacts DEF ExeMemClr, BranchHazard
          <6>2. InFlight' = InFlight
            BY <3>1, <3>6, <4>4, <5>2, <6>1, QueueMoves
          <6> QED BY <4>1, <6>2
        <5> QED BY <5>1, <5>2
      <4> QED BY <4>2, <4>3, <4>4
    <3> QED BY <3>4, <3>5, <3>6
  <2> QED BY <2>1, <2>2
<1> QED
  BY Invariance, <1>1, <1>2, PTL DEF Spec, Sequential, ISA!Spec
=============================================================================
