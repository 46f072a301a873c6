-------------------------------- MODULE TraceLogs --------------------------------
(***************************************************************************)
(* The scripts that turn the log of a simulation into the CSV that traces  *)
(* are compared in: the core's (core_log_to_trace_csv.py), Spike's, Sail's,*)
(* Whisper's, OVPsim's and Renode's.  Each is a machine that reads its log *)
(* line by line; a step of it takes a state and a line to a state.         *)
(* A line carries the instruction it is about: regular expressions are     *)
(* abstracted to the kind of the line, numbers to integers modulo Word.    *)
(***************************************************************************)
EXTENDS Pseudo, FiniteSets

CONSTANT Word                                    (* 2^32                     *)

(* lib.py, sint_to_hex                                                     *)
SintToHex_Bug(v) == v                                 \* a negative offset stays negative
SintToHex(v) == (v + Word) % Word

(* gpr_to_abi; registers are <<"x", n>> and <<"f", n>>.                    *)
XNames == <<"zero", "ra", "sp", "gp", "tp", "t0", "t1", "t2", "s0", "s1", "a0", "a1", "a2", "a3",
            "a4", "a5", "a6", "a7", "s2", "s3", "s4", "s5", "s6", "s7", "s8", "s9", "s10", "s11",
            "t3", "t4", "t5", "t6">>
FNames == <<"ft0", "ft1", "ft2", "ft3", "ft4", "ft5", "ft6", "ft7", "fs0", "fs1", "fa0", "fa1",
            "fa2", "fa3", "fa4", "fa5", "fa6", "fa7", "fs2", "fs3", "fs4", "fs5", "fs6", "fs7",
            "fs8", "fs9", "fs10", "fs11", "ft8", "ft9", "ft10", "ft11">>
GprToAbi(r) == (IF r[1] = "x" THEN XNames ELSE FNames)[r[2] + 1]

(* An instruction that runs: its pc, its kind ("plain", "bare" without     *)
(* operands, "illegal", "wfi", "ecall"), mnemonic, operands and last hex   *)
(* digit, and the register it writes, if any.  A jump's last operand is    *)
(* its offset.  The lines of the logs, and an entry of a CSV.              *)
Line(t, i, upd) == [t |-> t, i |-> i, upd |-> upd]
Entry(i, operand, gpr) == [pc |-> i.pc, op |-> i.op, operand |-> operand, gpr |-> gpr]
NoEntry == [pc |-> -1, op |-> "", operand |-> << >>, gpr |-> << >>]
Named(upd) == [k \in DOMAIN upd |-> [rd |-> GprToAbi(upd[k].rd), val |-> upd[k].val]]

(* A converter: whether the log has come to the test's code, the entry it  *)
(* is at, what is written, and whether it has stopped reading.             *)
Fresh == [on |-> FALSE, e |-> NoEntry, csv |-> << >>, done |-> FALSE]
-----------------------------------------------------------------------------
(* The core's tracer and OVPsim show where a jump goes, ...                *)
PcRelative == {"beq", "bne", "blt", "bge", "bltu", "bgeu", "beqz", "bnez", "bgez", "bltz", "blez",
               "bgtz", "bgt", "ble", "bgtu", "bleu", "j", "jal"}
Shift(args, d) == [args EXCEPT ![Len(args)] = Imm((@.v + d) % Word)]
Addressed(i) == IF i.op \in PcRelative THEN Shift(i.args, i.pc) ELSE i.args

(* ... and process_imm takes it relative to the pc again: not bgt and the  *)
(* like.                                                                   *)
Relative(i, args) ==
  IF i.op \in PcRelative \ {"bgt", "ble", "bgtu", "bleu"}
  THEN [args EXCEPT ![Len(args)] = Imm(SintToHex(@.v - i.pc))] ELSE args

(* The tracer's line, printed again in each cycle that WB is held; x0 is   *)
(* not printed.  Instructions that trap do not come to it.                 *)
Shown(upd) == IF upd # << >> /\ upd[1].rd = <<"x", 0>> THEN << >> ELSE upd
TracerLine(i, upd) == Line(IF i.kind = "bare" THEN "bare" ELSE "instr", i, Shown(upd))

(* core_log_to_trace_csv.py.  Operands are kept for jal, its register by   *)
(* its ABI name.                                                           *)
CoreOperand(i) ==
  IF i.op = "jal" /\ i.upd # << >>
  THEN <<Reg(GprToAbi(i.upd[1].rd)), Relative(i, Addressed(i))[Len(i.args)]>> ELSE << >>

CoreStep_Bug(st, l) ==
  IF l.t = "instr" /\ l.upd # << >>
  THEN [st EXCEPT !.e = Entry(l.i, CoreOperand(l.i), Named(l.upd)), !.csv = Append(@, st.e)]
  ELSE st                                             \* the entry before is written
CoreStep(st, l) ==
  LET e == IF l.t = "instr" THEN Entry(l.i, CoreOperand(l.i), << >>) ELSE st.e
      f == [e EXCEPT !.gpr = @ \o Named(l.upd)]
  IN IF st.done THEN st
     ELSE IF l.t = "ecall"
     THEN [st EXCEPT !.csv = Append(@, Entry(l.i, << >>, << >>)), !.done = TRUE]
     ELSE IF l.upd = << >> \/ e = NoEntry THEN [st EXCEPT !.e = e]
     ELSE [st EXCEPT !.e = f, !.csv = Append(@, f)]
-----------------------------------------------------------------------------
(* Spike's lines: the instruction, then its commit or why it has none.     *)
SpikeLines(i, upd) ==
  <<Line("core", i, << >>),
    IF i.kind = "illegal" THEN Line("illegal", i, << >>)
    ELSE IF Shown(upd) # << >> THEN Line("commit", i, Shown(upd)) ELSE Line("other", i, << >>)>>

(* spike_log_to_trace_csv.py: read_spike_instr.                            *)
SpikeEntry(i, full) ==
  LET c == Convert(i.op, i.args, i.digit)
  IN IF full THEN Entry([i EXCEPT !.op = c.op], c.args, << >>) ELSE Entry(i, << >>, << >>)

(* process_spike_sim_log: which entries are written.                       *)
Yield(st, full) ==
  IF full \/ st.e.gpr # << >> \/ st.e.op \in {"wfi", "ecall"}
  THEN Append(st.csv, st.e) ELSE st.csv

(* read_spike_trace: states TRAMPOLINE, INSTR (no entry) and EFFECT.       *)
SpikeStep_Bug(st, l, full) ==
  IF ~st.on THEN [st EXCEPT !.on = l.t = "trampoline"]
  ELSE IF st.done THEN st
  ELSE IF l.t = "core"
  THEN [st EXCEPT !.csv = IF st.e = NoEntry THEN @ ELSE Yield(st, full),
                  !.e = SpikeEntry(l.i, full), !.done = l.i.op = "ecall"]
  ELSE IF st.e # NoEntry /\ l.t = "commit" THEN [st EXCEPT !.csv = Yield(st, full), !.e = NoEntry]
  ELSE st                                             \* yielded without its commit
SpikeStep(st, l, full) ==
  IF ~st.on THEN [st EXCEPT !.on = l.t = "trampoline"]
  ELSE IF st.done THEN st
  ELSE IF l.t = "core"
  THEN [st EXCEPT !.csv = IF st.e = NoEntry THEN @ ELSE Yield(st, full),
                  !.e = SpikeEntry(l.i, full), !.done = l.i.op = "ecall"]
  ELSE IF st.e = NoEntry THEN st
  ELSE CASE l.t = "illegal" -> [st EXCEPT !.csv = Yield(st, full), !.e = NoEntry]
         [] l.t = "commit"  -> [st EXCEPT !.e.gpr = @ \o Named(l.upd)]
         [] OTHER -> st

(* ... and at the end of the file.                                         *)
SpikeCsv(st, full) == IF st.e = NoEntry THEN st.csv ELSE Yield(st, full)
-----------------------------------------------------------------------------
Integer(upd) == IF upd # << >> /\ upd[1].rd[1] = "f" THEN << >> ELSE upd

(* sail_log_to_trace_csv.py: an instruction is written with the first      *)
(* register line behind it, of an integer register.                        *)
SailLines(i, upd) ==
  <<Line(IF i.kind = "ecall" THEN "ecall" ELSE "instr", i, << >>),
    Line(IF Integer(Shown(upd)) # << >> THEN "reg" ELSE "other", i, Integer(Shown(upd)))>>

SailStep_Bug(st, l) ==
  IF l.t = "start" THEN [st EXCEPT !.on = TRUE]
  ELSE IF ~st.on THEN st                              \* reads on behind the ecall
  ELSE IF l.t = "instr" THEN [st EXCEPT !.e = Entry(l.i, << >>, << >>)]
  ELSE IF l.t = "reg" /\ st.e # NoEntry
  THEN [st EXCEPT !.csv = Append(@, [st.e EXCEPT !.gpr = Named(l.upd)]), !.e = NoEntry]
  ELSE st
SailStep(st, l) ==
  IF st.done THEN st
  ELSE IF l.t = "start" THEN [st EXCEPT !.on = TRUE]
  ELSE IF l.t = "ecall" THEN [st EXCEPT !.done = TRUE]
  ELSE IF ~st.on THEN st
  ELSE IF l.t = "instr" THEN [st EXCEPT !.e = Entry(l.i, << >>, << >>)]
  ELSE IF l.t = "reg" /\ st.e # NoEntry
  THEN [st EXCEPT !.csv = Append(@, [st.e EXCEPT !.gpr = Named(l.upd)]), !.e = NoEntry]
  ELSE st

(* whisper_log_trace_csv.py: one line holds it all; type r is an integer   *)
(* register's.                                                             *)
WhisperLine(i, upd) ==
  Line(IF i.kind = "ecall" THEN "ecall"
       ELSE IF Integer(Shown(upd)) # << >> THEN "r" ELSE "other", i, Integer(Shown(upd)))

WhisperStep(st, l) ==
  CASE st.done -> st
    [] ~st.done /\ l.t = "ecall" -> [st EXCEPT !.done = TRUE]
    [] ~st.done /\ l.t = "r" -> [st EXCEPT !.csv = Append(@, Entry(l.i, << >>, Named(l.upd)))]
    [] OTHER -> st

(* ovpsim_log_to_trace_csv.py: an entry is written when the next           *)
(* instruction is found; the log is cut behind the line of the ecall.      *)
OvpLines(i, upd) ==
  <<Line("instr", i, << >>),
    Line(IF Shown(upd) # << >> THEN "reg" ELSE "other", i, Shown(upd))>>

(* process_trace, for what is not compressed.                              *)
Jalr(a) == IF Len(a) = 1 THEN <<Reg("ra"), a[1], Imm(0)>> ELSE a
OvpInstr(i) ==
  LET a == Relative(i, Addressed(i))
  IN Convert(i.op, IF i.op = "jalr" THEN Jalr(a) ELSE a, i.digit)

OvpStep(st, l) ==
  IF st.done THEN st
  ELSE IF l.t = "instr"
  THEN [st EXCEPT !.csv = IF st.e = NoEntry THEN @ ELSE Append(@, st.e),
                  !.e = Entry([l.i EXCEPT !.op = OvpInstr(l.i).op], OvpInstr(l.i).args, << >>),
                  !.done = l.i.kind = "ecall"]
  ELSE IF l.t = "reg" THEN [st EXCEPT !.e.gpr = @ \o Named(l.upd)]
  ELSE st

(* renode_log_to_trace_csv.py: the log has the registers and the next pc   *)
(* after each instruction, an entry has what differs from the dump before. *)
Dump(x, next) == [t |-> "regdump", x |-> x, next |-> next]

RenodeFresh(start) ==
  [x |-> [k \in 0..31 |-> 0], prev |-> start, csv |-> << >>, done |-> FALSE]

RenodeStep(st, l) ==
  LET diff == {k \in 0..31 : st.x[k] # l.x[k]}
      gpr == [m \in 1..Cardinality(diff) |->
                LET k == CHOOSE k \in diff : Cardinality({j \in diff : j < k}) = m - 1
                IN [rd |-> GprToAbi(<<"x", k>>), val |-> l.x[k]]]
  IN CASE st.done \/ l.t = "other" -> st
       [] ~st.done /\ l.t = "ecall" -> [st EXCEPT !.done = TRUE]
       [] ~st.done /\ l.t = "regdump" ->
            [st EXCEPT !.x = l.x, !.prev = l.next,
                       !.csv = IF diff = {} THEN @ ELSE Append(@, [pc |-> st.prev, gpr |-> gpr])]
=============================================================================
