-------------------------------- MODULE TraceFlow --------------------------------
(***************************************************************************)
(* From the logs of a test to its verdict: a program runs on the core and  *)
(* on the reference simulators, each writes its log, a converter reads     *)
(* each log as it grows, and the CSVs of the core and of Spike are         *)
(* compared.  A program is the sequence of the instructions that it runs;  *)
(* the core may write something else, or stop early.                       *)
(***************************************************************************)
EXTENDS TraceLogs, TraceCompare

CONSTANTS
  Programs,      (* instructions in the order they run, before the ecall      *)
  StartPc,       (* where they start                                          *)
  Faults,        (* what the core may write instead, sequences of updates     *)
  MaxCopies      (* how often the tracer may print a line                     *)

Gprs == {"x", "f"} \X (0..31)

(* An instruction writes one register or none; none if it traps, stops the *)
(* core or has no operands.  Jumps end in an offset, and jal's register,   *)
(* ra if none is named, is the one it writes.                              *)
IsUpdate(u) ==
  u = << >> \/ \E r \in Gprs : u = <<[rd |-> r, val |-> u[1].val]>> /\ u[1].val \in Int
IsInstruction(i) ==
  /\ i = [pc |-> i.pc, kind |-> i.kind, op |-> i.op, args |-> i.args, digit |-> i.digit, upd |-> i.upd]
  /\ i.kind \in {"plain", "bare", "illegal", "wfi"} /\ i.op # "ecall"
  /\ IsUpdate(i.upd) /\ (i.kind # "plain" => i.upd = << >>)
  /\ i.op \in {"j", "jal"} =>
       /\ i.args = <<i.args[1]>> \/ (i.op = "jal" /\ i.args = <<i.args[1], i.args[2]>>)
       /\ i.args[Len(i.args)].v \in Int
  /\ i.op = "jal" /\ i.upd # << >> =>
       Reg(GprToAbi(i.upd[1].rd)) = IF Len(i.args) = 1 THEN Reg("ra") ELSE i.args[1]

ASSUME TraceFlowAssumption ==
  /\ Word \in Nat \ {0} /\ StartPc \in 0..(Word - 1)
  /\ MaxCopies \in Nat \ {0}
  /\ Regs = {GprToAbi(r) : r \in Gprs}
  /\ \A p \in Programs : /\ Len(p) \in Nat /\ p = [k \in 1..Len(p) |-> p[k]]
                         /\ \A k \in 1..Len(p) : IsInstruction(p[k])
  /\ \A u \in Faults : IsUpdate(u)

VARIABLES
  prog,          (* the program                                               *)
  full,          (* Spike's converter with full_trace                         *)
  n, pc,         (* how many of it have run, the pc                           *)
  coreOn,        (* the core's simulation still runs                          *)
  copies,        (* how often the instruction in WB has been printed          *)
  ended,         (* the ecall has been reached                                *)
  core, spike, sail, whisper, ovp, renode,       \* the converters
  xreg,          (* the simulators' integer registers                         *)
  verdict,       (* of the comparison                                         *)
  ran, coreRan   (* history: the instructions with what each wrote, the       *)
                 (* core's as often as they were printed                      *)

sims == <<spike, sail, whisper, ovp, renode, xreg>>
vars == <<prog, full, n, pc, coreOn, copies, ended, core, sims, verdict, ran, coreRan>>
-----------------------------------------------------------------------------
I(at, kind, op, args, upd) ==
  [pc |-> at, kind |-> kind, op |-> op, args |-> args, digit |-> 3, upd |-> upd]
Odd == <<[rd |-> <<"x", 5>>, val |-> 7]>>

(* What the simulators log before the test's code, of the boot code that   *)
(* is not the test's, and behind its ecall.                                *)
Boot == I(0, "plain", "w", << >>, Odd)
Read(step(_, _), st, lines) == step(step(st, lines[1]), lines[2])    \* they come in twos
ReadSpike(st, lines) == Read(LAMBDA s, l : SpikeStep(s, l, full), st, lines)
BeforeSpike == <<Line("trampoline", Boot, Odd), Line("commit", Boot, Odd)>>
BeforeSail  == <<Line("start", Boot, Odd), Line("reg", Boot, Odd)>>

Init ==
  /\ prog \in Programs /\ full \in BOOLEAN
  /\ n = 0 /\ pc = StartPc
  /\ coreOn = TRUE /\ copies = 0 /\ ended = FALSE
  /\ core = Fresh /\ whisper = Fresh /\ ovp = Fresh
  /\ spike = ReadSpike(ReadSpike(Fresh, SpikeLines(Boot, Odd)), BeforeSpike)
  /\ sail = Read(SailStep, Read(SailStep, Fresh, SailLines(Boot, Odd)), BeforeSail)
  /\ renode = RenodeFresh(StartPc)
  /\ xreg = [k \in 0..31 |-> 0]
  /\ verdict = "none"
  /\ ran = << >> /\ coreRan = << >>

(* The simulators run an instruction.                                      *)
PcAfter(i) ==
  IF i.op \in {"j", "jal"} THEN Addressed(i)[Len(i.args)].v ELSE (i.pc + 4) % Word
Simulate(i) ==
  /\ spike' = ReadSpike(spike, SpikeLines(i, i.upd))
  /\ sail' = Read(SailStep, sail, SailLines(i, i.upd))
  /\ whisper' = WhisperStep(whisper, WhisperLine(i, i.upd))
  /\ ovp' = Read(OvpStep, ovp, OvpLines(i, i.upd))
  /\ xreg' = LET u == Integer(Shown(i.upd))
             IN IF u = << >> THEN xreg ELSE [xreg EXCEPT ![u[1].rd[2]] = u[1].val]
  /\ renode' = RenodeStep(renode, Dump(xreg', PcAfter(i)))

(* The next one of the program, on all of them; the core prints it, unless *)
(* its simulation ends with it.                                            *)
Stops(i) == i.kind \in {"illegal", "wfi"}
Execute ==
  /\ n < Len(prog)
  /\ LET i == [prog[n + 1] EXCEPT !.pc = pc]
     IN /\ Simulate(i)
        /\ ran' = Append(ran, [i |-> i, upd |-> Shown(i.upd)])
        /\ pc' = PcAfter(i)
        /\ coreOn' = (coreOn /\ ~Stops(i))
        /\ IF ~coreOn \/ Stops(i) THEN UNCHANGED <<core, copies, coreRan>>
           ELSE \E upd \in {i.upd} \cup (IF i.upd = << >> THEN {} ELSE Faults) :
                  /\ core' = CoreStep(core, TracerLine(i, upd))
                  /\ coreRan' = Append(coreRan, [i |-> i, upd |-> Shown(upd)])
                  /\ copies' = 1
  /\ n' = n + 1
  /\ UNCHANGED <<prog, full, ended, verdict>>

(* WB is held, and the tracer prints what is in it in this cycle as well.  *)
PrintAgain ==
  /\ coreOn /\ copies \in 1..(MaxCopies - 1)
  /\ LET r == coreRan[Len(coreRan)]
     IN /\ core' = CoreStep(core, TracerLine(r.i, r.upd))
        /\ coreRan' = Append(coreRan, r)
  /\ copies' = copies + 1
  /\ UNCHANGED <<prog, full, n, pc, coreOn, ended, sims, verdict, ran>>

(* The test bench ends the core's simulation.                              *)
CoreStops ==
  /\ coreOn /\ verdict = "none"
  /\ coreOn' = FALSE
  /\ UNCHANGED <<prog, full, n, pc, copies, ended, core, sims, verdict, ran, coreRan>>

(* The ecall, the core's trace ends with it, and the handler's first.      *)
Ecall ==
  /\ n = Len(prog) /\ ~ended
  /\ LET i == I(pc, "ecall", "ecall", << >>, << >>)
     IN /\ spike' = ReadSpike(ReadSpike(spike, SpikeLines(i, << >>)), SpikeLines(Boot, Odd))
        /\ sail' = Read(SailStep, Read(SailStep, sail, SailLines(i, << >>)), SailLines(Boot, Odd))
        /\ whisper' = Read(WhisperStep, whisper, <<WhisperLine(i, << >>), WhisperLine(Boot, Odd)>>)
        /\ ovp' = Read(OvpStep, Read(OvpStep, ovp, OvpLines(i, << >>)), OvpLines(Boot, Odd))
        /\ renode' = Read(RenodeStep, renode, <<Line("ecall", i, << >>), Dump([xreg EXCEPT ![5] = 7], 0)>>)
        /\ ran' = Append(ran, [i |-> i, upd |-> << >>])
  /\ ended' = TRUE
  /\ UNCHANGED <<prog, full, n, pc, coreOn, copies, core, xreg, verdict, coreRan>>

(* instr_trace_compare.py on the two CSVs, once both simulations are over. *)
Flat(csv) == [k \in DOMAIN csv |-> IF csv[k].gpr = << >> THEN NoGpr ELSE csv[k].gpr[1]]
Judge ==
  /\ ended /\ ~coreOn /\ verdict = "none"
  /\ verdict' = Result(Flat(SpikeCsv(spike, full)), Flat(core.csv))
  /\ UNCHANGED <<prog, full, n, pc, coreOn, copies, ended, core, sims, ran, coreRan>>

Next == Execute \/ PrintAgain \/ CoreStops \/ Ecall \/ Judge

Spec == Init /\ [][Next]_vars
-----------------------------------------------------------------------------
(* The ABI's name of a register, by the rule of the calling convention.    *)
AbiName(r) ==
  LET k == r[2]
      at(prefix, from) == prefix \o ToString(k - from)
      p(name) == IF r[1] = "x" THEN name ELSE "f" \o name
  IN IF r[1] = "x" /\ k < 5 THEN CASE k = 0 -> "zero" [] k = 1 -> "ra" [] k = 2 -> "sp"
                                   [] k = 3 -> "gp" [] k = 4 -> "tp"
     ELSE CASE r[1] = "f" /\ k <= 7 -> at("ft", 0)
            [] r[1] = "x" /\ k <= 7 -> at("t", 5)
            [] k \in 8..9   -> at(p("s"), 8)
            [] k \in 10..17 -> at(p("a"), 10)
            [] k \in 18..27 -> at(p("s"), 16)
            [] OTHER -> IF r[1] = "x" THEN at("t", 25) ELSE at("ft", 20)

(* lib.py's table is that rule, and gives no two registers the same name.  *)
ASSUME AbiAssumption ==
  \A r, s \in Gprs : GprToAbi(r) = AbiName(r) /\ (AbiName(r) = AbiName(s) => r = s)

Wrote(r) == r.upd # << >>
Tells(h) == [k \in DOMAIN h |->
  [pc |-> h[k].i.pc, gpr |-> [m \in DOMAIN h[k].upd |->
                                [rd |-> AbiName(h[k].upd[m].rd), val |-> h[k].upd[m].val]]]]
Told(csv) == [k \in DOMAIN csv |-> [pc |-> csv[k].pc, gpr |-> csv[k].gpr]]

(* The instructions of a history that pass a test, and those whose update  *)
(* changes its register.                                                   *)
Only(h, test(_)) == Selected(h, {k \in DOMAIN h : test(h[k])})
Changing(h) == LET t == Flat(Tells(h)) IN Selected(h, {k \in DOMAIN h : IsChange(t, k)})

(* At any time, so wherever a log is cut, each CSV tells what has run, all *)
(* of it, once for each time it was logged, in order and with the          *)
(* registers' ABI names: all that wrote a register for the core, for Sail  *)
(* and Whisper an integer register, for Renode those that changed one, for *)
(* Spike also wfi and the ecall or, with full_trace, all; for OVPsim, what *)
(* is followed by an instruction.                                          *)
(* Nothing of the boot code or from behind the ecall is in it.             *)
CsvRight ==
  LET integer(r) == Integer(r.upd) # << >>
      ints == [k \in DOMAIN ran |-> [ran[k] EXCEPT !.upd = Integer(@)]]
      listed(r) == full \/ Wrote(r) \/ r.i.op \in {"wfi", "ecall"}
  IN /\ Told(core.csv) = Tells(Only(coreRan, Wrote))
     /\ Told(SpikeCsv(spike, full)) = Tells(Only(ran, listed))
     /\ Told(sail.csv) = Tells(Only(ran, integer))
     /\ Told(whisper.csv) = Tells(Only(ran, integer))
     /\ Told(renode.csv) = Tells(Changing(ints))
     /\ Told(ovp.csv) = Tells(SubSeq(ran, 1, Len(ran) - 1))

(* What the test wrote, as the sequence of the values that changed.        *)
Made(h) == ChangesOf(Flat(Tells(h)))

(* A core that writes a wrong value, writes another register or misses a   *)
(* write does not pass, through both logs and both converters: what a core *)
(* that passes changed is what the program changes, up to where it stopped.*)
WrongFails == verdict = "PASSED" => IsPrefix(Made(coreRan), Made(ran))

(* A core that ran the whole program right passes, however often lines     *)
(* were printed, and with the lines of what writes nothing in one log and  *)
(* not in the other.                                                       *)
WholeRightPasses == verdict = "FAILED" => Made(coreRan) # Made(ran)

(* The three CSVs agree on jal: the register, and the offset modulo the    *)
(* width of the pc, with Spike's from the offset that it logs and the      *)
(* other two's from an address, also when the address wraps; for programs  *)
(* that do not change their code, as entries are told apart by their pcs.  *)
Jals(csv) == {e \in {csv[k] : k \in DOMAIN csv} : e.op = "jal"}
CodeStays == \A j, k \in DOMAIN ran :
  LET i == ran[j].i
  IN i.pc = ran[k].i.pc => i.op = ran[k].i.op /\ i.args = ran[k].i.args
OffsetsAgree ==
  full /\ CodeStays => \A s \in Jals(spike.csv), e \in Jals(core.csv) \cup Jals(ovp.csv) :
    s.pc = e.pc => e.operand = <<s.operand[1], Imm(s.operand[2].v % Word)>>
=============================================================================
