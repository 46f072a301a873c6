-------------------------------- MODULE CsrFile --------------------------------
(***************************************************************************)
(* csr_file in the MEM stage: reads happen in MEM, a write is staged for   *)
(* one cycle and commits in the next, traps and MRET write at once.  One   *)
(* step is one clock cycle.  What passes through MEM is free: any CSR      *)
(* instruction of Ops, MRET, an instruction that raises an exception,      *)
(* another one, or a bubble; the stalls, branches, interrupts and halts    *)
(* around it are free too.                                                 *)
(***************************************************************************)
EXTENDS CsrMap

CONSTANTS
  Ops,       (* the CSR instructions that write; csrr and csrrs/c of 0 do not *)
  Pcs,       (* the PCs a trap may save (cinst_pc)                            *)
  ExcCodes,  (* the exception codes, as words                                 *)
  Addrs,     (* the values of mtval on an exception                           *)
  Irqs,      (* the connected interrupt lines, of {7, 11}                     *)
  Debug,     (* whether a debugger is connected                               *)
  Quiet      (* CSRs whose staged write no trap or MRET meets                 *)

TimerCause    == {31, 0, 1, 2}        \* 0x80000007
ExternalCause == {31, 0, 1, 3}        \* 0x8000000B

ASSUME OpsAssumption   == Ops \subseteq Op
ASSUME WordsAssumption == Pcs \subseteq Word /\ ExcCodes \subseteq Word /\ Addrs \subseteq Word
ASSUME RangeAssumption == /\ \A pc \in Pcs : 0 \notin pc
                          /\ \A code \in ExcCodes : \A b \in code : b <= 5
ASSUME EnvAssumption   == Irqs \subseteq {7, 11} /\ Debug \in BOOLEAN /\ Quiet \subseteq Addr

VARIABLES
  regs,      (* the CSRs                                                      *)
  pend,      (* csr_valid_d, csr_cmd_d, csr_addr_d, csr_wdata_d               *)
  mip,       (* external_irq_ff and timer_irq_ff, as bits of mip              *)
  mem,       (* what is in MEM: its kind, its CSR write, its exception code   *)
  running,   (* core_running                                                  *)
  runff,     (* core_running_o_ff                                             *)
  stall,     (* input: common_stall                                           *)
  haltreq,   (* input: dbg_haltreq                                            *)
  wbvalid,   (* input: inst_valid_wb                                          *)
  dbg        (* input: the CSR write a debugger asks for                      *)

vars == <<regs, pend, mip, mem, running, runff, stall, haltreq, wbvalid, dbg>>

NoOp   == [cmd |-> "write", addr |-> "other", data |-> {}]
NoPend == [valid |-> FALSE, op |-> NoOp]
Kinds  == {"bubble", "csr", "mret", "exc", "jump", "other"}
Empty  == [kind |-> "bubble", op |-> NoOp, code |-> {}]
-----------------------------------------------------------------------------
(* Wires of the cycle.                                                     *)
RegEn    == running /\ ~stall
DbgRet   == running /\ ~runff
DontTrap == ~running \/ DbgRet \/ (haltreq /\ wbvalid)

Exception == mem.kind = "exc"
Interrupt == 3 \in regs["mstatus"] /\ regs["mie"] \intersect mip # {}
Trap      == (Interrupt \/ Exception) /\ ~DontTrap
TrapRet   == mem.kind = "mret" /\ ~DontTrap
TrapCause_Bug == IF Exception THEN mem.code           \* the timer goes first
                 ELSE IF 7 \in mip THEN TimerCause ELSE ExternalCause
TrapCause == IF Exception THEN mem.code
             ELSE IF 11 \in mip THEN ExternalCause ELSE TimerCause

ExeMemClr == Trap \/ mem.kind \in {"mret", "jump"} \/ ~running

(* The staged write, as the register it hits will be after this cycle.     *)
Committed(c) == IF pend.valid THEN Written(pend.op, c, regs[c]) ELSE regs[c]

(* What a CSR instruction reads: the register, bypassed by a staged write  *)
(* to the same address.                                                    *)
Hit(a) == pend.valid /\ pend.op.addr = a
Rdata_Bug(a) ==                                       \* frm misses writes of fcsr
  CASE a \in Csr   -> IF Hit(a) THEN Committed(a) ELSE regs[a]
    [] a = "fcsr"  -> Fcsr(Committed("frm"), Committed("fflags"))
    [] a = "mip"   -> mip
    [] a = "misa"  -> {30, 12, 8, 2, 0}
    [] a = "other" -> {}
Rdata(a) ==
  CASE a \in {"frm", "fflags"}         -> Committed(a)       \* hit by frm, fflags or fcsr
    [] a \in Csr \ {"frm", "fflags"}   -> IF Hit(a) THEN Committed(a) ELSE regs[a]
    [] a = "fcsr"  -> IF Hit("fcsr") THEN Fcsr(Committed("frm"), Committed("fflags"))
                      ELSE Fcsr(Committed("frm"), regs["fflags"])
    [] a = "mip"   -> mip
    [] a = "misa"  -> {30, 12, 8, 2, 0}
    [] a = "other" -> {}

(* frm_o, the rounding mode of an FP instruction in EX with rm = DYN.      *)
FrmLive == Rdata("frm")
-----------------------------------------------------------------------------
(* The registers at the next clock edge.                                   *)
(* A halted core takes the debugger's write.                               *)
CsrIn == IF running THEN [valid |-> mem.kind = "csr", op |-> mem.op]
              ELSE [valid |-> dbg # NoOp, op |-> dbg]
NextPend_Bug ==                                  \* a squashed write is staged
  pend' = IF RegEn THEN CsrIn ELSE NoPend
NextPend ==
  pend' = IF ExeMemClr THEN NoPend ELSE IF RegEn THEN CsrIn ELSE pend

(* A trap, then MRET, then the staged write.                               *)
NextRegs_Bug(pc, tval) ==                             \* a trap drops every staged write
  regs' = [c \in Csr |->
    IF Trap THEN CASE c = "mstatus" -> OnTrap(regs[c])
                   [] c = "mepc"    -> pc
                   [] c = "mcause"  -> TrapCause
                   [] c = "mtval"   -> IF Exception THEN tval ELSE {}
                   [] OTHER         -> regs[c]
    ELSE IF TrapRet /\ c = "mstatus" THEN OnReturn(regs[c])
    ELSE Committed(c)]
NextRegs(pc, tval) ==
  regs' = [c \in Csr |->
    IF Trap /\ c \in {"mstatus", "mepc", "mcause", "mtval"} THEN
      CASE c = "mstatus" -> OnTrap(regs[c])
        [] c = "mepc"    -> pc
        [] c = "mcause"  -> TrapCause
        [] c = "mtval"   -> IF Exception THEN tval ELSE {}
    ELSE IF TrapRet /\ c = "mstatus" THEN OnReturn(regs[c])
    ELSE Committed(c)]

(* csr_cmd is a plain write when the core is halted.                       *)
DbgOps == {NoOp} \union {o \in Ops : o.cmd = "write"}

(* What EX hands to MEM.                                                   *)
Arrivals ==
  [kind : Kinds \ {"csr", "exc"}, op : {NoOp}, code : {{}}]
    \union [kind : {"csr"}, op : Ops, code : {{}}]
    \union [kind : {"exc"}, op : {NoOp}, code : ExcCodes]

NextMem(arrival) ==
  mem' = IF ExeMemClr THEN Empty ELSE IF RegEn THEN arrival ELSE mem

(* A division, a load or a store may stall; MEM/WB is cleared by a flush.  *)
NextInputs ==
  /\ stall' \in (IF mem'.kind \in {"exc", "other"} THEN BOOLEAN ELSE {FALSE})
  /\ haltreq' \in (IF Debug /\ running' THEN BOOLEAN ELSE {FALSE})
  /\ wbvalid' = IF Trap \/ mem.kind = "mret" \/ ~running THEN FALSE
                ELSE IF RegEn THEN mem.kind # "bubble" ELSE wbvalid
  /\ mip' \in SUBSET Irqs
  /\ dbg' \in (IF running' THEN {NoOp} ELSE DbgOps)

(* The environment leaves a quiet cycle after a write to a CSR of Quiet.   *)
QuietKept == pend'.valid /\ pend'.op.addr \in Quiet => ~Trap' /\ ~TrapRet'
-----------------------------------------------------------------------------
Init ==
  /\ regs = [c \in Csr |-> {}]
  /\ pend = NoPend
  /\ mip = {}
  /\ mem = Empty
  /\ running = TRUE /\ runff = TRUE
  /\ stall = FALSE /\ haltreq = FALSE /\ wbvalid = FALSE /\ dbg = NoOp

Cycle(resume) ==
  /\ \E pc \in Pcs, tval \in (IF Exception THEN Addrs ELSE {{}}) : NextRegs(pc, tval)
  /\ NextPend
  /\ \E arrival \in (IF RegEn THEN Arrivals ELSE {Empty}) : NextMem(arrival)
  /\ running' = IF running THEN ~haltreq ELSE resume
  /\ runff' = running
  /\ NextInputs
  /\ QuietKept

RunCycle    == running /\ Cycle(FALSE)
HaltedCycle == ~running /\ \E resume \in BOOLEAN : Cycle(resume)

Next == RunCycle \/ HaltedCycle

Spec == Init /\ [][Next]_vars
-----------------------------------------------------------------------------
(* What a program sees: the registers with the staged write applied.       *)
ArchCsr == [c \in Csr |-> Committed(c)]

ArchRead(a) ==
  CASE a \in Csr     -> ArchCsr[a]
    [] a = "fcsr"    -> Fcsr(ArchCsr["frm"], ArchCsr["fflags"])
    [] a = "mip"     -> mip
    [] a = "misa"    -> {30, 12, 8, 2, 0}
    [] a = "other"   -> {}

ISA == INSTANCE CsrIsa WITH
         csr <- ArchCsr,
         Causes <- ExcCodes \union {TimerCause, ExternalCause},
         Tvals <- Addrs \union {{}}
-----------------------------------------------------------------------------
TypeOK ==
  /\ regs \in [Csr -> Word]
  /\ pend \in [valid : BOOLEAN, op : Op]
  /\ mip \subseteq Irqs
  /\ mem \in Arrivals
  /\ running \in BOOLEAN /\ runff \in BOOLEAN
  /\ stall \in BOOLEAN /\ haltreq \in BOOLEAN /\ wbvalid \in BOOLEAN
  /\ dbg \in DbgOps

(* A register never has a bit that does not exist, whichever of its        *)
(* addresses it is written under and whatever a trap puts into it.         *)
WarlKept == \A c \in Csr : \A b \in regs[c] : Exists(c, b)

(* A CSR instruction reads what all the earlier ones left, wherever their  *)
(* writes are: csr_bypass covers the staged one, for every address but     *)
(* fcsr, whose fflags are read past a staged write of fflags.              *)
ReadsLatest == \A a \in Addr \ {"fcsr"} : Rdata(a) = ArchRead(a)

(* Each cycle does one thing to the CSRs a program sees: it takes a trap,  *)
(* or returns from one, or retires the CSR instruction in MEM, or nothing. *)
(* No write of a squashed instruction lands, none of a retired one is      *)
(* lost, and none is repeated by a stall with another effect.              *)
AtomicCsr ==
  [][IF Trap THEN \E pc \in Pcs, tval \in Addrs \union {{}} : ISA!Enter(pc, TrapCause, tval)
     ELSE IF TrapRet THEN ISA!Return
     ELSE IF running /\ mem.kind = "csr" THEN ISA!Exec(mem.op)
     ELSE UNCHANGED ArchCsr]_vars

(* The staged CSR file implements the atomic one.                          *)
Atomic == ISA!Spec

(* mcause names an interrupt that is pending and enabled, the external one *)
(* before the timer's.  The code does not look at meie here, so a pending  *)
(* external interrupt that is masked is left out.                          *)
CauseRight ==
  [][Trap /\ ~Exception /\ (11 \in mip => 11 \in regs["mie"]) =>
       \/ regs'["mcause"] = ExternalCause /\ 11 \in mip \intersect regs["mie"]
       \/ regs'["mcause"] = TimerCause /\ 7 \in mip \intersect regs["mie"] /\ 11 \notin mip]_vars

(* An FP instruction that follows a CSR instruction rounds as that         *)
(* instruction has set frm: when one leaves EX, FrmLive is the frm the     *)
(* program sees after the instruction in MEM has retired.                  *)
RoundsAsSet ==
  [][RegEn /\ ~ExeMemClr => FrmLive = ArchCsr'["frm"]]_vars
=============================================================================
