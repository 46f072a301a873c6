------------------------------ MODULE CsrProofs ------------------------------
(***************************************************************************)
(* The staged CSR file keeps the promise of the atomic one, for every set  *)
(* of CSR instructions, exception codes and PCs, if no trap and no MRET    *)
(* meets a staged write of mstatus; its reads need no such assumption.     *)
(***************************************************************************)
EXTENDS CsrFile, TLAPS

(* No trap and no return meets a staged write to a CSR of Quiet; what      *)
(* stalls is no CSR instruction.                                           *)
QuietNow == pend.valid /\ pend.op.addr \in Quiet => ~Trap /\ ~TrapRet
StallKind == stall => mem.kind \in {"exc", "other"}
IInv == TypeOK /\ QuietNow /\ StallKind

(* Writing a word into a CSR gives a word.                                 *)
LEMMA WrittenTyped ==
  ASSUME NEW o \in Op, NEW c \in Csr, NEW x \in Word
  PROVE  Written(o, c, x) \in Word
<1>1. Field(o.addr, c, o.data) \in Word
  BY DEF Field, Op, Word, Bits
<1>2. o.cmd \in {"write", "set", "clear"}
  BY DEF Op
<1> QED
  BY <1>1, <1>2 DEF Written, Apply, Word

(* A staged write commits in every cycle of a stall: the second time it    *)
(* changes nothing.                                                        *)
LEMMA WrittenTwice ==
  ASSUME NEW o \in Op, NEW c \in Csr, NEW x
  PROVE  Written(o, c, Written(o, c, x)) = Written(o, c, x)
<1>1. o.cmd \in {"write", "set", "clear"}
  BY DEF Op
<1> DEFINE w == Field(o.addr, c, o.data)
<1>2. Apply(o.cmd, Apply(o.cmd, x, w), w) = Apply(o.cmd, x, w)
  BY <1>1 DEF Apply
<1> QED
  BY <1>2 DEF Written

LEMMA CommittedTyped ==
  ASSUME TypeOK, NEW c \in Csr
  PROVE  Committed(c) \in Word
BY WrittenTyped DEF TypeOK, Committed

(* Only its own address and fcsr reach a CSR.                              *)
LEMMA CommittedElsewhere ==
  ASSUME NEW c \in Csr, pend.valid => ~Touches(pend.op.addr, c)
  PROVE  Committed(c) = regs[c]
BY DEF Committed, Written
-----------------------------------------------------------------------------
LEMMA InitIInv == Init => IInv
<1> SUFFICES ASSUME Init PROVE IInv
  OBVIOUS
<1> USE DEF Init, NoPend, Empty
<1>1. NoOp \in Op
  BY DEF NoOp, Op, Addr, Word
<1>2. Empty \in Arrivals
  BY DEF Arrivals, Kinds
<1>3. [c \in Csr |-> {}] \in [Csr -> Word]
  BY DEF Word
<1> QED
  BY <1>1, <1>2, <1>3 DEF IInv, TypeOK, QuietNow, StallKind, DbgOps

LEMMA NextIInv == IInv /\ [Next]_vars => IInv'
<1> SUFFICES ASSUME IInv, [Next]_vars PROVE IInv'
  OBVIOUS
<1>1. CASE UNCHANGED vars
  BY <1>1 DEF vars, IInv, TypeOK, QuietNow, StallKind, Arrivals, DbgOps, Trap, TrapRet, Interrupt, Exception,
              DontTrap, DbgRet
<1>2. CASE Next
  <2>1. PICK resume \in BOOLEAN : Cycle(resume)
    BY <1>2 DEF Next, RunCycle, HaltedCycle
  <2> USE <2>1 DEF Cycle, IInv
  <2>2. NoOp \in Op
    BY DEF NoOp, Op, Addr, Word
  <2>3. Empty \in Arrivals
    BY DEF Arrivals, Kinds, Empty
  <2>4. (regs \in [Csr -> Word])'
    <3>1. PICK pc \in Pcs, tval \in (IF Exception THEN Addrs ELSE {{}}) : NextRegs(pc, tval)
      OBVIOUS
    <3>2. pc \in Word /\ tval \in Word /\ TrapCause \in Word
      <4>1. mem.kind = "exc" => mem.code \in Word
        BY WordsAssumption DEF TypeOK, Arrivals, Kinds
      <4>2. TimerCause \in Word /\ ExternalCause \in Word
        BY DEF TimerCause, ExternalCause, Word, Bits
      <4> QED
        BY <4>1, <4>2, WordsAssumption DEF TrapCause, Exception, Word
    <3>3. OnTrap(regs["mstatus"]) \in Word /\ OnReturn(regs["mstatus"]) \in Word
      BY DEF OnTrap, OnReturn, TypeOK, Word, Bits, Csr
    <3>4. ASSUME NEW c \in Csr
          PROVE  regs'[c] \in Word
      BY <3>1, <3>2, <3>3, CommittedTyped DEF NextRegs, Word
    <3>5. regs' = [c \in Csr |-> regs'[c]]
      BY <3>1 DEF NextRegs
    <3> QED
      BY <3>4, <3>5
  <2>5. (pend \in [valid : BOOLEAN, op : Op])'
    <3>1. mem.op \in Op /\ dbg \in Op
      BY <2>2, OpsAssumption DEF TypeOK, Arrivals, DbgOps
    <3> QED
      BY <2>2, <3>1 DEF NextPend, NoPend, CsrIn, TypeOK
  <2>6. (mip \subseteq Irqs)' /\ (dbg \in DbgOps)'
    BY DEF NextInputs, DbgOps
  <2>7. (mem \in Arrivals)'
    BY <2>3 DEF NextMem, TypeOK, Arrivals, Empty
  <2>8. (running \in BOOLEAN /\ runff \in BOOLEAN)'
    BY DEF TypeOK
  <2>9. (stall \in BOOLEAN /\ haltreq \in BOOLEAN /\ wbvalid \in BOOLEAN)'
    BY DEF NextInputs, TypeOK
  <2>10. QuietNow'
    BY DEF QuietKept, QuietNow
  <2>11. StallKind'
    BY DEF NextInputs, StallKind
  <2> QED
    BY <2>4, <2>5, <2>6, <2>7, <2>8, <2>9, <2>10, <2>11 DEF TypeOK
<1> QED
  BY <1>1, <1>2

(* The types of the CSR file's state, and the cycle kept quiet.            *)
THEOREM Invariance == Spec => []IInv
BY InitIInv, NextIInv, PTL DEF Spec

(* Type correctness of the CSR file.                                       *)
THEOREM TypeCorrect == Spec => []TypeOK
<1>1. IInv => TypeOK
  BY DEF IInv
<1> QED
  BY <1>1, Invariance, PTL

(* Traps and CSR instructions put only bits that exist into a register.    *)
THEOREM Warl == Spec => []WarlKept
<1>1. Init => WarlKept
  BY DEF Init, WarlKept
<1>2. IInv /\ WarlKept /\ [Next]_vars => WarlKept'
  <2> SUFFICES ASSUME IInv, WarlKept, Next PROVE WarlKept'
    BY DEF vars, WarlKept
  <2>1. PICK resume \in BOOLEAN : Cycle(resume)
    BY DEF Next, RunCycle, HaltedCycle
  <2>2. PICK pc \in Pcs, tval \in (IF Exception THEN Addrs ELSE {{}}) : NextRegs(pc, tval)
    BY <2>1 DEF Cycle
  <2> SUFFICES ASSUME NEW c \in Csr, NEW b \in regs'[c] PROVE Exists(c, b)
    BY DEF WarlKept
  <2>3. CASE Trap /\ c = "mstatus"
    <3>1. b \in regs[c] \/ b = 7
      BY <2>2, <2>3 DEF NextRegs, OnTrap
    <3> QED
      BY <2>3, <3>1 DEF WarlKept, Exists
  <2>4. CASE Trap /\ c = "mepc"
    <3>1. b \in pc
      BY <2>2, <2>4 DEF NextRegs
    <3>2. b # 0
      BY <3>1, RangeAssumption
    <3> QED
      BY <2>4, <3>2 DEF Exists
  <2>5. CASE Trap /\ c = "mcause"
    <3>1. b \in TrapCause
      BY <2>2, <2>5 DEF NextRegs
    <3>2. mem.kind = "exc" => mem.code \in ExcCodes
      BY DEF IInv, TypeOK, Arrivals, Kinds
    <3>3. b <= 5 \/ b = 31
      BY <3>1, <3>2, RangeAssumption DEF TrapCause, Exception, TimerCause, ExternalCause
    <3> QED
      BY <2>5, <3>3 DEF Exists
  <2>6. CASE Trap /\ c = "mtval"
    BY <2>6 DEF Exists
  <2>7. CASE ~Trap /\ TrapRet /\ c = "mstatus"
    <3>1. b \in regs[c] \/ b \in {3, 7}
      BY <2>2, <2>7 DEF NextRegs, OnReturn
    <3> QED
      BY <2>7, <3>1 DEF WarlKept, Exists
  <2>8. CASE regs'[c] = Committed(c)
    <3>1. pend.op \in Op
      BY DEF IInv, TypeOK
    <3>2. pend.op.cmd \in {"write", "set", "clear"}
      BY <3>1 DEF Op
    <3>3. b \in regs[c] \/ b \in Field(pend.op.addr, c, pend.op.data)
      BY <2>8, <3>2 DEF Committed, Written, Apply
    <3>4. \A x \in Field(pend.op.addr, c, pend.op.data) : Exists(c, x)
      BY DEF Field, Exists
    <3> QED
      BY <3>3, <3>4 DEF WarlKept
  <2> QED
    BY <2>2, <2>3, <2>4, <2>5, <2>6, <2>7, <2>8 DEF NextRegs
<1> QED
  BY <1>1, <1>2, Invariance, PTL DEF Spec
-----------------------------------------------------------------------------
(* Every CSR but fcsr is read through the bypass as all the earlier CSR    *)
(* instructions left it, for any instructions and without any assumption   *)
(* about traps.                                                            *)
THEOREM Reads == Spec => []ReadsLatest
<1>1. ASSUME TypeOK PROVE ReadsLatest
  <2> SUFFICES ASSUME NEW a \in Addr \ {"fcsr"} PROVE Rdata(a) = ArchRead(a)
    BY DEF ReadsLatest
  <2>1. CASE a \in {"frm", "fflags"}
    BY <2>1 DEF Rdata, ArchRead, ArchCsr, Csr
  <2>2. CASE a \in Csr \ {"frm", "fflags"}
    <3>1. ArchRead(a) = Committed(a)
      BY <2>2 DEF ArchRead, ArchCsr, Csr
    <3>2. ~Hit(a) => Committed(a) = regs[a]
      BY <2>2, CommittedElsewhere DEF Hit, Touches
    <3> QED
      BY <2>2, <3>1, <3>2 DEF Rdata, Csr
  <2>3. CASE a \in {"mip", "misa", "other"}
    BY <2>3 DEF Rdata, ArchRead, Csr
  <2> QED
    BY <2>1, <2>2, <2>3 DEF Addr
<1> QED
  BY <1>1, TypeCorrect, PTL
-----------------------------------------------------------------------------
(* The operators of CsrMap mean the same in CsrIsa.                        *)
LEMMA SameMap ==
  /\ ISA!Csr = Csr
  /\ \A x : ISA!OnTrap(x) = OnTrap(x) /\ ISA!OnReturn(x) = OnReturn(x)
  /\ \A o, c, x : ISA!Written(o, c, x) = Written(o, c, x)
<1>1. \A o, c, x : ISA!Field(o.addr, c, o.data) = Field(o.addr, c, o.data)
  BY DEF ISA!Field, Field, ISA!Exists, Exists
<1>2. \A o, c, x, w : ISA!Apply(o.cmd, x, w) = Apply(o.cmd, x, w)
  BY DEF ISA!Apply, Apply
<1>3. \A o, c : ISA!Touches(o.addr, c) <=> Touches(o.addr, c)
  BY DEF ISA!Touches, Touches
<1>4. \A o, c, x : ISA!Written(o, c, x) = Written(o, c, x)
  BY <1>1, <1>2, <1>3 DEF ISA!Written, Written
<1> QED
  BY <1>4 DEF ISA!Csr, Csr, ISA!OnTrap, OnTrap, ISA!OnReturn, OnReturn

(* A trap and a return, register by register.                              *)
LEMMA EnterByRegister ==
  ASSUME NEW f, f = [c \in Csr |-> f[c]], NEW g, g = [c \in Csr |-> g[c]],
         NEW pc, NEW cause, NEW tval,
         \A c \in Csr : g[c] = CASE c = "mstatus" -> OnTrap(f[c])
                                [] c = "mepc"    -> pc
                                [] c = "mcause"  -> cause
                                [] c = "mtval"   -> tval
                                [] OTHER         -> f[c]
  PROVE  g = [f EXCEPT !["mstatus"] = OnTrap(@), !["mepc"] = pc, !["mcause"] = cause, !["mtval"] = tval]
BY DEF Csr

(* What one cycle does to the CSRs a program sees.                         *)
LEMMA Step ==
  ASSUME "mstatus" \in Quiet, IInv, NEW resume \in BOOLEAN, Cycle(resume)
  PROVE  IF Trap THEN \E pc \in Pcs, tval \in Addrs \union {{}} : ISA!Enter(pc, TrapCause, tval)
         ELSE IF TrapRet THEN ISA!Return
         ELSE IF running /\ mem.kind = "csr" THEN ISA!Exec(mem.op)
         ELSE UNCHANGED ArchCsr
<1> USE DEF IInv
<1> PICK pc \in Pcs, tval \in (IF Exception THEN Addrs ELSE {{}}) : NextRegs(pc, tval)
  BY DEF Cycle
<1>1. NextPend
  BY DEF Cycle
<1>2. ASSUME Trap \/ TrapRet
      PROVE  /\ \A c \in Csr : ArchCsr'[c] = regs'[c]
             /\ Committed("mstatus") = regs["mstatus"]
  <2>1. ~pend'.valid
    BY <1>1, <1>2 DEF NextPend, ExeMemClr, TrapRet, NoPend
  <2>2. pend.valid => pend.op.addr # "mstatus"
    BY <1>2 DEF QuietNow
  <2> QED
    BY <2>1, <2>2, CommittedElsewhere DEF ArchCsr, Committed, Touches, Csr
<1>3. CASE Trap
  <2> DEFINE t == IF Exception THEN tval ELSE {}
  <2>1. ASSUME NEW c \in Csr
        PROVE  regs'[c] = CASE c = "mstatus" -> OnTrap(ArchCsr[c])
                            [] c = "mepc"    -> pc
                            [] c = "mcause"  -> TrapCause
                            [] c = "mtval"   -> t
                            [] OTHER         -> ArchCsr[c]
    BY <1>2, <1>3 DEF NextRegs, ArchCsr
  <2>2. ArchCsr' = [ArchCsr EXCEPT !["mstatus"] = OnTrap(@), !["mepc"] = pc,
                                   !["mcause"] = TrapCause, !["mtval"] = t]
    <3>1. \A c \in Csr : ArchCsr'[c] = CASE c = "mstatus" -> OnTrap(ArchCsr[c])
                                          [] c = "mepc"    -> pc
                                          [] c = "mcause"  -> TrapCause
                                          [] c = "mtval"   -> t
                                          [] OTHER         -> ArchCsr[c]
      BY <1>2, <1>3, <2>1
    <3>2. ArchCsr = [c \in Csr |-> ArchCsr[c]] /\ ArchCsr' = [c \in Csr |-> ArchCsr'[c]]
      BY DEF ArchCsr
    <3> HIDE DEF t
    <3> QED
      BY <3>1, <3>2, EnterByRegister
  <2>3. t \in Addrs \union {{}}
    OBVIOUS
  <2>4. ISA!Enter(pc, TrapCause, t)
    BY <2>2, SameMap DEF ISA!Enter
  <2> HIDE DEF t
  <2> QED
    BY <1>3, <2>3, <2>4
<1>4. CASE ~Trap /\ TrapRet
  <2>1. ASSUME NEW c \in Csr
        PROVE  regs'[c] = IF c = "mstatus" THEN OnReturn(ArchCsr[c]) ELSE ArchCsr[c]
    BY <1>2, <1>4 DEF NextRegs, ArchCsr
  <2>2. ArchCsr' = [ArchCsr EXCEPT !["mstatus"] = OnReturn(@)]
    BY <1>2, <1>4, <2>1 DEF ArchCsr, Csr
  <2>3. ISA!Return
    BY <2>2, SameMap DEF ISA!Return
  <2> QED
    BY <1>4, <2>3
<1>5. CASE ~Trap /\ ~TrapRet
  <2>1. \A c \in Csr : regs'[c] = ArchCsr[c]
    BY <1>5 DEF NextRegs, ArchCsr
  <2>2. ASSUME ~pend'.valid PROVE UNCHANGED ArchCsr
    BY <2>1, <2>2 DEF ArchCsr, Committed
  <2>3. CASE ExeMemClr
    <3>1. ~pend'.valid
      BY <1>1, <2>3 DEF NextPend, NoPend
    <3>2. ~(running /\ mem.kind = "csr")
      BY <1>5, <2>3 DEF ExeMemClr
    <3> QED
      BY <1>5, <2>2, <3>1, <3>2
  <2>4. CASE ~ExeMemClr /\ RegEn
    <3>1. pend' = [valid |-> mem.kind = "csr", op |-> mem.op]
      BY <1>1, <2>4 DEF NextPend, CsrIn, RegEn
    <3>2. CASE mem.kind = "csr"
      <4>1. \A c \in Csr : ArchCsr'[c] = Written(mem.op, c, ArchCsr[c])
        BY <2>1, <3>1, <3>2 DEF ArchCsr, Committed
      <4>2. ArchCsr' = [c \in Csr |-> ArchCsr'[c]]
        BY DEF ArchCsr
      <4>3. ISA!Exec(mem.op)
        BY <4>1, <4>2, SameMap DEF ISA!Exec
      <4> QED
        BY <1>5, <2>4, <3>2, <4>3 DEF RegEn
    <3>3. CASE mem.kind # "csr"
      BY <1>5, <2>2, <3>1, <3>3
    <3> QED
      BY <3>2, <3>3
  <2>5. CASE ~ExeMemClr /\ ~RegEn
    <3>1. pend' = pend
      BY <1>1, <2>5 DEF NextPend
    <3>2. mem.kind # "csr"
      BY <2>5 DEF StallKind, ExeMemClr, RegEn
    <3>3. \A c \in Csr : Committed(c)' = Committed(c)
      BY <2>1, <3>1, WrittenTwice DEF Committed, ArchCsr, TypeOK
    <3> QED
      BY <1>5, <3>2, <3>3 DEF ArchCsr
  <2> QED
    BY <2>3, <2>4, <2>5
<1> QED
  BY <1>3, <1>4, <1>5

(* Each cycle does one thing to the CSRs a program sees: a trap, a return, *)
(* the CSR instruction in MEM, or nothing.                                 *)
THEOREM OneThingACycle == ASSUME "mstatus" \in Quiet PROVE Spec => AtomicCsr
<1> DEFINE A == IF Trap THEN \E pc \in Pcs, tval \in Addrs \union {{}} : ISA!Enter(pc, TrapCause, tval)
                ELSE IF TrapRet THEN ISA!Return
                ELSE IF running /\ mem.kind = "csr" THEN ISA!Exec(mem.op)
                ELSE UNCHANGED ArchCsr
<1>1. IInv /\ [Next]_vars => [A]_vars
  BY Step DEF Next, RunCycle, HaltedCycle
<1>2. Spec => [][A]_vars
  BY <1>1, Invariance, PTL DEF Spec
<1> QED
  BY <1>2 DEF AtomicCsr

(* mcause names an interrupt that is pending and enabled, the external one *)
(* before the timer's.                                                     *)
THEOREM Causes == Spec => CauseRight
<1> DEFINE A == Trap /\ ~Exception /\ (11 \in mip => 11 \in regs["mie"]) =>
                  \/ regs'["mcause"] = ExternalCause /\ 11 \in mip \intersect regs["mie"]
                  \/ regs'["mcause"] = TimerCause /\ 7 \in mip \intersect regs["mie"] /\ 11 \notin mip
<1>1. IInv /\ [Next]_vars => [A]_vars
  <2> SUFFICES ASSUME IInv, Next, Trap, ~Exception, 11 \in mip => 11 \in regs["mie"]
               PROVE  \/ regs'["mcause"] = ExternalCause /\ 11 \in mip \intersect regs["mie"]
                      \/ regs'["mcause"] = TimerCause /\ 7 \in mip \intersect regs["mie"] /\ 11 \notin mip
    OBVIOUS
  <2>1. PICK pc, tval : NextRegs(pc, tval)
    BY DEF Next, RunCycle, HaltedCycle, Cycle
  <2>2. regs'["mcause"] = IF 11 \in mip THEN ExternalCause ELSE TimerCause
    BY <2>1 DEF NextRegs, TrapCause, Csr
  <2>3. PICK b \in regs["mie"] : b \in mip
    BY DEF Trap, Interrupt
  <2>4. b \in {7, 11}
    BY <2>3, EnvAssumption DEF IInv, TypeOK
  <2> QED
    BY <2>2, <2>3, <2>4
<1>2. Spec => [][A]_vars
  BY <1>1, Invariance, PTL DEF Spec
<1> QED
  BY <1>2 DEF CauseRight

(* The staged CSR file implements the atomic one.                          *)
THEOREM Refinement == ASSUME "mstatus" \in Quiet PROVE Spec => Atomic
<1>1. Init => ISA!Init
  BY SameMap DEF Init, ISA!Init, ArchCsr, Committed, NoPend
<1>2. IInv /\ [Next]_vars => [ISA!Next]_ArchCsr
  <2> SUFFICES ASSUME IInv, [Next]_vars PROVE [ISA!Next]_ArchCsr
    OBVIOUS
  <2>1. CASE UNCHANGED vars
    BY <2>1 DEF vars, ArchCsr, Committed
  <2>2. CASE Next
    <3>1. PICK resume \in BOOLEAN : Cycle(resume)
      BY <2>2 DEF Next, RunCycle, HaltedCycle
    <3>2. Trap => TrapCause \in ExcCodes \union {TimerCause, ExternalCause}
      BY DEF IInv, TypeOK, Arrivals, Kinds, TrapCause, Exception
    <3>3. mem.kind = "csr" => mem.op \in Ops
      BY DEF IInv, TypeOK, Arrivals, Kinds
    <3> QED
      BY <3>1, <3>2, <3>3, Step DEF ISA!Next
  <2> QED
    BY <2>1, <2>2
<1>3. Spec => ISA!Spec
  BY <1>1, <1>2, Invariance, PTL DEF Spec, ISA!Spec
<1> QED
  BY <1>3 DEF Atomic
=============================================================================
