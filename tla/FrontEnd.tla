------------------------------- MODULE FrontEnd -------------------------------
(***************************************************************************)
(* The path of instructions through the core: the PC, the two fetch stages *)
(* with the synchronous instruction memory, the align and decompress unit  *)
(* (iadu), and the PCs that travel through ID, EX and MEM to be saved in   *)
(* mepc and dpc.  One step is one clock cycle.                             *)
(*                                                                         *)
(* Addresses count halfwords, modulo the memory's size.  A halfword is     *)
(* known by its address, an instruction by the halfwords it is made of.    *)
(* Redirections, hazards, stalls, interrupts and halts are free, and so is *)
(* what the debugger asks for: to run, or to execute one instruction.      *)
(***************************************************************************)
EXTENDS Integers

CONSTANTS
  N,              (* halfwords of memory                                      *)
  Wides,          (* the programs: where the 32-bit instructions may begin    *)
  None,           (* no address; a cleared register                           *)
  Irq, Debug,     (* whether interrupts, and a debugger, are connected        *)
  Dcsrs,          (* what the debugger may write to dcsr                      *)
  MretHazard,     (* a hazard may be on behind an MRET                        *)
  SkewedRefill,   (* an interrupt or a halt request may come while an empty   *)
                  (* pipeline waits for a 32-bit instruction across words     *)
  HaltAnytime     (* a halt request may come with a trap, or on resume        *)

Addr == 0..(N - 1)
Plus_Bug(a, n) == a + n                               \* the PC does not wrap
Plus(a, n) == (a + n) % N

(* Variants named ..._Bug are what a plausible slip in the code would make *)
(* of the definition that follows them; no specification uses them.        *)

ASSUME SizeAssumption == N \in Nat /\ N % 2 = 0 /\ N >= 8
ASSUME ProgAssumption == Wides \subseteq SUBSET Addr /\ None \notin Addr
ASSUME DbgAssumption  == Dcsrs \subseteq [step : BOOLEAN, stepie : BOOLEAN]
ASSUME EnvAssumption  == {Irq, Debug, MretHazard, SkewedRefill, HaltAnytime} \subseteq BOOLEAN

VARIABLES
  wide,           (* the halfwords whose low bits say: 32-bit instruction     *)
  pc1, pc2,       (* current_pc_if1 and current_pc_if2                        *)
  imem,           (* the word the instruction memory read in the last cycle   *)
  if2ff,          (* inst_if_ff                                               *)
  enff, clrff,    (* if_id_reg_en_ff and if_id_reg_clr_ff                     *)
  state, prev,    (* iadu: the FSM and prev_inst                              *)
  id,             (* IF2/ID register                                          *)
  ex, mem, wb,    (* PC in EX; PC and kind in MEM; inst_valid_wb              *)
  running, runff, (* core_running and core_running_o_ff                       *)
  dpc, dcsr,      (* core_dbg_fsm: dpc and dcsr                               *)
  stall, hazard, irq, haltreq,  (* inputs: common_stall, data_hazard, an      *)
                  (* enabled interrupt, dbg_haltreq                           *)
  expect, ran     (* history: where the program is, and how many steps of it  *)
                  (* were made since the core was asked to make one (2: many) *)

vars == <<wide, pc1, pc2, imem, if2ff, enff, clrff, state, prev, id, ex, mem, wb,
          running, runff, dpc, dcsr, stall, hazard, irq, haltreq, expect, ran>>

NopId  == [pc |-> None, npc |-> None, inst |-> <<>>]
NopMem == [pc |-> None, kind |-> "plain"]
Kinds  == {"plain", "slow", "jump", "mret", "exc"}

Wide(h)  == h # None /\ h \in wide
Low(w)   == w
High(w)  == IF w = None THEN None ELSE w + 1
WordOf(a) == a - (a % 2)
-----------------------------------------------------------------------------
(* Wires of the cycle: control.                                            *)
DbgRet   == running /\ ~runff
DontTrap == \/ ~running \/ DbgRet
            \/ (dcsr.step \/ haltreq) /\ wb
            \/ dcsr.step /\ ~dcsr.stepie
Trap     == (irq \/ mem.kind = "exc") /\ ~DontTrap
TrapRet  == mem.kind = "mret"
Taken    == mem.kind = "jump"

ExeMemClr == Trap \/ TrapRet \/ ~running \/ Taken
IfIdClr   == ExeMemClr \/ DbgRet
RegEn     == running /\ ~stall
IfIdEn    == running /\ ~stall /\ ~hazard
IdExeClr  == ExeMemClr \/ (RegEn /\ hazard)
NoJump    == ~(Trap \/ (TrapRet /\ DontTrap) \/ Taken)

(* The debug FSM: what is in MEM when it stops the core is executed again, *)
(* unless a single step ends with a trap or an MRET.                       *)
Again      == haltreq \/ (dcsr.step /\ wb)
StepLeaves_Bug == dcsr.step /\ Trap                   \* a step goes on behind an MRET
StepLeaves == dcsr.step /\ (Trap \/ TrapRet)

(* Instruction word in IF2: the memory's output, or the one held over a    *)
(* stall.                                                                  *)
InstIf2 == IF enff THEN imem ELSE if2ff
-----------------------------------------------------------------------------
(* iadu.                                                                   *)
Misaligned == pc2 # None /\ pc2 % 2 = 1
ItsAJump   == pc2 = None \/ Plus(pc2, 2) # pc1
LowComp    == ~Wide(Low(InstIf2)) /\ InstIf2 # None
NextComp   == ~Wide(High(InstIf2))

NextState_Bug ==                                      \* a skewed upper half is not awaited
  IF state = "NORMAL" /\ ~ItsAJump /\ ~Misaligned /\ LowComp
    THEN (IF NextComp THEN "HOLD" ELSE "FETCH_UPPER") ELSE "NORMAL"
NextState ==
  CASE state = "NORMAL" ->
         IF ItsAJump THEN "NORMAL"
         ELSE IF Misaligned THEN (IF NextComp THEN "NORMAL" ELSE "FETCH_UPPER")
         ELSE IF ~LowComp THEN "NORMAL"
         ELSE IF NextComp THEN "HOLD" ELSE "FETCH_UPPER"
    [] state = "FETCH_UPPER" ->
         IF ItsAJump THEN "NORMAL" ELSE IF NextComp THEN "HOLD" ELSE "FETCH_UPPER"
    [] state = "HOLD" -> "NORMAL"

(* The instruction handed to ID, as the halfwords it is made of.           *)
Inst == CASE state = "FETCH_UPPER" -> <<High(prev), Low(InstIf2)>>
          [] state = "HOLD"        -> <<High(prev)>>
          [] state = "NORMAL" ->
               IF Misaligned THEN (IF NextComp THEN <<High(InstIf2)>> ELSE <<>>)
               ELSE IF LowComp THEN <<Low(InstIf2)>>
               ELSE IF InstIf2 = None THEN <<>>
               ELSE <<Low(InstIf2), High(InstIf2)>>

Comp == \/ state = "NORMAL" /\ (IF Misaligned THEN NextComp ELSE LowComp)
        \/ state = "HOLD"

CorrectedPc2 == CASE state = "NORMAL"      -> pc2
                  [] state = "FETCH_UPPER" -> Plus(pc2, IF Misaligned THEN -2 ELSE -1)
                  [] state = "HOLD"        -> Plus(pc2, -1)

Hold_Bug == /\ NextComp                               \* hold for any low half
            /\ (state = "NORMAL" /\ ~Misaligned) \/ state = "FETCH_UPPER"
Hold == /\ NextComp /\ ~ItsAJump
        /\ \/ state = "NORMAL" /\ ~Misaligned /\ LowComp
           \/ state = "FETCH_UPPER"

IncrementPcBy2 == Misaligned /\ (state = "FETCH_UPPER" \/ (state = "NORMAL" /\ NextComp))
CorrectedPc1_Bug == pc1                               \* fetch goes on misaligned
CorrectedPc1   == IF IncrementPcBy2 THEN Plus(pc1, -1) ELSE pc1

(* The PC a trap or a halt saves: the oldest instruction on its way.       *)
CinstPc_Bug ==                                        \* an empty MEM is not looked past
  IF mem.pc # None THEN mem.pc ELSE pc1
CinstPc == IF mem.pc # None THEN mem.pc
           ELSE IF ex # None THEN ex
           ELSE IF id.inst # <<>> THEN id.pc
           ELSE IF Inst # <<>> /\ ~clrff THEN pc2
           ELSE pc1
-----------------------------------------------------------------------------
(* The registers at the next clock edge.  A clear wins over an enable.     *)
NextPcIf1(target) ==
  IF DbgRet THEN dpc
  ELSE IF Trap \/ TrapRet \/ Taken THEN target
  ELSE IF Hold THEN CorrectedPc1
  ELSE Plus(CorrectedPc1, 2)
NextPc(target) ==
  pc1' = IF (running /\ IfIdEn) \/ ~NoJump THEN NextPcIf1(target) ELSE pc1

NextFetch ==
  /\ pc2' = IF IfIdClr THEN None ELSE IF IfIdEn THEN CorrectedPc1 ELSE pc2
  /\ imem' = WordOf(CorrectedPc1)
  /\ if2ff' = IF IfIdClr THEN None ELSE IF enff THEN imem ELSE if2ff
  /\ enff' = IfIdEn
  /\ clrff' = IfIdClr

NextIadu ==
  IF IfIdClr \/ clrff THEN state' = "NORMAL" /\ prev' = None
  ELSE IF IfIdEn THEN state' = NextState /\ prev' = InstIf2
  ELSE UNCHANGED <<state, prev>>

NextId ==
  id' = IF IfIdClr \/ clrff THEN NopId
        ELSE IF IfIdEn /\ Inst # <<>> THEN
          [pc |-> CorrectedPc2, npc |-> Plus(CorrectedPc2, IF Comp THEN 1 ELSE 2), inst |-> Inst]
        ELSE IF IfIdEn THEN NopId
        ELSE id

NextBack(kind) ==
  /\ ex' = IF IdExeClr THEN None ELSE IF RegEn THEN id.pc ELSE ex
  /\ mem' = IF ExeMemClr THEN NopMem
            ELSE IF RegEn THEN [pc |-> ex, kind |-> IF ex = None THEN "plain" ELSE kind]
            ELSE mem
  /\ wb' = IF Trap \/ TrapRet \/ ~running THEN FALSE ELSE IF RegEn THEN mem.pc # None ELSE wb

NextDpc_Bug(target, written) ==                       \* a step into a trap saves its PC
  dpc' = IF ~running THEN written
         ELSE IF Again \/ StepLeaves THEN CinstPc
         ELSE dpc
NextDpc(target, written) ==
  dpc' = IF ~running THEN written
         ELSE IF Again THEN CinstPc
         ELSE IF StepLeaves THEN NextPcIf1(target)
         ELSE dpc

(* Where the program goes on: the trap handler, what the debugger says,    *)
(* the target of the instruction in MEM or the instruction after it.  What *)
(* is in MEM when the core halts is executed again.                        *)
Leaves == mem.pc # None /\ RegEn /\ ~Again
Length(a) == IF a \in wide THEN 2 ELSE 1
NextExpect(target) ==
  expect' = IF Trap THEN target
            ELSE IF ~running THEN dpc'
            ELSE IF ~Leaves THEN expect
            ELSE IF TrapRet \/ Taken THEN target
            ELSE Plus(mem.pc, Length(mem.pc))
NextRan ==
  ran' = IF ~(running /\ dcsr.step) THEN 0
         ELSE IF (Trap \/ Leaves) /\ ran < 2 THEN ran + 1
         ELSE ran

(* The environment: hazards are between instructions, what stalls is in    *)
(* MEM, and the three constants say what else does not happen.             *)
Refilling == /\ mem.pc = None /\ ex = None /\ id.inst = <<>>
             /\ expect % 2 = 1 /\ expect \in wide
NextInputs ==
  /\ stall' \in IF mem'.kind \in {"slow", "exc"} THEN BOOLEAN ELSE {FALSE}
  /\ hazard' \in IF id'.inst # <<>> /\ (ex' # None \/ mem'.pc # None \/ wb') THEN BOOLEAN ELSE {FALSE}
  /\ irq' \in IF Irq /\ running' THEN BOOLEAN ELSE {FALSE}
  /\ haltreq' \in IF Debug /\ running' THEN BOOLEAN ELSE {FALSE}
  /\ ~MretHazard   => ~(hazard' /\ TrapRet')
  /\ ~SkewedRefill => ~(Refilling' /\ (irq' \/ haltreq'))
  /\ ~HaltAnytime  => ~(haltreq' /\ (Trap' \/ DbgRet'))
-----------------------------------------------------------------------------
Init ==
  /\ wide \in Wides
  /\ pc1 = 0 /\ pc2 = None /\ imem \in {a \in Addr : a % 2 = 0} /\ if2ff = None
  /\ enff = FALSE /\ clrff = FALSE
  /\ state = "NORMAL" /\ prev = None
  /\ id = NopId /\ ex = None /\ mem = NopMem /\ wb = FALSE
  /\ running = TRUE /\ runff = TRUE /\ dpc = 0
  /\ dcsr = [step |-> FALSE, stepie |-> FALSE]
  /\ stall = FALSE /\ hazard = FALSE /\ irq = FALSE /\ haltreq = FALSE
  /\ expect = 0 /\ ran = 0

(* The vector is aligned to a word; jumps, mepc and the debugger are not.  *)
Targets == IF Trap THEN {a \in Addr : a % 2 = 0}
           ELSE IF TrapRet \/ Taken THEN Addr ELSE {0}

Cycle(written) ==
  /\ UNCHANGED wide
  /\ NextFetch /\ NextIadu /\ NextId /\ NextRan /\ runff' = running
  /\ \E kind \in (IF RegEn /\ ex # None THEN Kinds ELSE {"plain"}) : NextBack(kind)
  /\ \E target \in Targets : NextPc(target) /\ NextDpc(target, written) /\ NextExpect(target)
  /\ NextInputs

RunCycle    == /\ running /\ running' = ~(Again \/ StepLeaves)
               /\ dcsr' = dcsr /\ Cycle(dpc)
HaltedCycle == /\ ~running /\ running' \in BOOLEAN
               /\ dcsr' \in Dcsrs \union {dcsr} /\ \E written \in Addr : Cycle(written)

Next == RunCycle \/ HaltedCycle

Spec == Init /\ [][Next]_vars

(* The clock runs, stalls end and hazards end: weak fairness of a running  *)
(* cycle that brings neither, which is enabled as long as the core runs.   *)
FairSpec == Spec /\ ([]<>~running \/ []<><<running /\ ~stall' /\ ~hazard'>>_vars)
-----------------------------------------------------------------------------
Word0 == {a \in Addr : a % 2 = 0} \union {None}
TypeOK ==
  /\ wide \in Wides
  /\ pc1 \in Addr /\ pc2 \in Addr \union {None}
  /\ imem \in Word0 \ {None} /\ if2ff \in Word0 /\ prev \in Word0
  /\ enff \in BOOLEAN /\ clrff \in BOOLEAN
  /\ state \in {"NORMAL", "FETCH_UPPER", "HOLD"}
  /\ id.pc \in Addr \union {None} /\ ex \in Addr \union {None}
  /\ mem \in [pc : Addr \union {None}, kind : Kinds]
  /\ dpc \in Addr /\ expect \in Addr /\ ran \in {0, 1}
  /\ dcsr \in [step : BOOLEAN, stepie : BOOLEAN]
  /\ {wb, running, runff, stall, hazard, irq, haltreq} \subseteq BOOLEAN

(* An instruction in ID is the one its PC names, whole and unmixed, and    *)
(* its link address is the next instruction's: whatever alignment the      *)
(* words came in, and whatever stalls and flushes came between them.       *)
Assembled ==
  id.inst # <<>> =>
    /\ id.inst = IF id.pc \in wide THEN <<id.pc, Plus(id.pc, 1)>> ELSE <<id.pc>>
    /\ id.npc = Plus(id.pc, Length(id.pc))

(* MEM only ever holds the instruction the program is at: none is skipped, *)
(* repeated or taken from a path that was left.                            *)
PathRight == running /\ mem.pc # None => mem.pc = expect

(* A trap saves the PC of the instruction the program is at, so that MRET  *)
(* resumes it.                                                             *)
MepcRight == Trap => CinstPc = expect

(* A halted core's dpc says where the program is.                          *)
DpcRight == ~running => dpc = expect

(* Single-stepping ends behind exactly one instruction, or with the PC of  *)
(* one trap's handler in dpc: not sooner, and with none but the next one   *)
(* behind it begun, wherever stalls, jumps and refills let the stages run  *)
(* empty.  (Only a halt request may end it before.)                        *)
StepsOne == [][/\ ran' <= 1
               /\ running /\ ~running' /\ dcsr.step /\ ~haltreq => ran' = 1]_vars

(* And it does end, if stalls and hazards do.                              *)
StepEnds == (running /\ dcsr.step) ~> ~running

(* The words keep coming: once nothing interrupts or halts the core any    *)
(* more, an instruction reaches MEM again and again, whatever the alignment *)
(* and wherever a flush left the alignment FSM, if stalls and hazards end. *)
Undisturbed == running /\ ~irq /\ ~haltreq
Arrives == <>[]Undisturbed => []<>(mem.pc # None)
=============================================================================
