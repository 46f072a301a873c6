# Verification of the ChipForge MCU core in TLA+

The repository holds a RISC-V core (RV32IMC with scalar cryptography and a
subset of F, SystemVerilog under `src/rtl`) and the flow that compares it with
Spike (`src/verif`). This directory models the parts of both in which the order
of events decides, checks them with TLC, and proves the central results with
TLAPS for every program, any number of registers and any word.

One step of a hardware model is one clock cycle: unprimed variables are the
flip-flops and the inputs of the cycle, operators are its wires, and primed
variables are what the next edge loads. Names are the code's where TLA+ allows.

## 1. Inventory

### The core, `src/rtl`

| Part | State it keeps | What changes it | Modelled in |
|---|---|---|---|
| Fetch and PC (`data_path.sv` 290-470) | PC register, IF2 PC, held word | each cycle; traps, MRET, jumps, resume | `FrontEnd` |
| Alignment, IADU (`iadu.sv`) | FSM NORMAL / FETCH_UPPER / HOLD, previous word | each word that is not stalled; any clear | `FrontEnd` |
| Compressed decoder (`decompressor.sv`) | none | | not modelled |
| Decode (`decode_control.sv`, `control_unit.sv`) | none | | classes in `InstClass` |
| Register pipeline (`data_path.sv`, `pipeline_controller.sv`) | IF/ID, ID/EX, EX/MEM, MEM/WB, WB+1 | each cycle: enable, clear | `Pipeline` |
| Hazards, forwarding (`hazard_controller.sv`, `forwarding_unit.sv`) | none | | `Pipeline` |
| Register files (`reg_file.sv`, `fp_reg_file.sv`) | GPRs with two write ports, FPRs | WB, FPU tail, debugger | `Pipeline` |
| Divider (`div_unit.sv`) | operands, start, busy, count, accumulator | radix-4 step a cycle, flush | `Divider`; its handshake in `Pipeline` |
| Multiplier (`mul_unit.sv`) | product register | EX to MEM | `Multiplier`; its latency in `Pipeline` |
| FPU (`fpu/`) | four stages | in lockstep with the pipeline | latency in `Pipeline` |
| Crypto, ALU, immediates, branches | none | | abstract (`Result`) |
| LSU and alignment (`lsu.sv`, `alignment_units.sv`) | none | | `Lsu` |
| Memory controller (`mem_controller.sv`) | AMO state, reservation (unreachable) | | the rest in `Lsu` |
| CSR file (`csr_file.sv`) | machine and FP CSRs, staged write, mip | CSR instructions, traps, MRET, interrupts | `CsrFile` |
| Debug FSM (`core_dbg_fsm.sv`) | RUNNING / HALTED / RESUME, dpc, dcsr | halt, resume, step | `FrontEnd`; run/halt also in `Pipeline`, `CsrFile` |
| Test memories (`verif/dmem.sv`, `imem.sv`) | memory, read register, ack | a request | `Lsu`, `FrontEnd` |

How they interact: `common_stall` (divider, memory) freezes all registers;
`data_hazard` freezes IF and ID and puts a bubble into EX; a trap, MRET, a taken
jump and a halt clear, each a different set of registers, and a clear wins over
an enable. MEM is where control happens: exceptions, jumps, MRET, CSR reads and
the staging of CSR writes. What is hard is the overlap: a flush in a stall, a
result that is one stage later than the others', a write staged for a cycle, a
debugger that stops all of it at any edge.

### The verification flow, `src/verif`

`run_all.py` builds, calls `run_regression.py` (per iteration: copy memories,
simulate, convert the trace, compare it with Spike's) and `gen_summary.py`. The
state is files: the tracer's log, which is never removed, and
`results/<date>/`, which is reused.

| Part | State it keeps | What changes it | Modelled in |
|---|---|---|---|
| Test bench and tracer (`tb_top.sv`, `tracer.sv`) | the log | each cycle in which WB is valid | `TraceFlow`, `Regression` |
| Converters (`scripts/*_log_to_trace_csv.py`, `whisper_log_trace_csv.py`) | the entry being read, the CSV | each line of a log | `TraceLogs`, `TraceFlow` |
| Names and pseudo instructions (`scripts/lib.py`) | none | | `TraceLogs`, `Pseudo` |
| Comparison (`instr_trace_compare.py`) | last value of each register, two positions | each entry | `TraceCompare` |
| Regression (`run_all.py`, `run_regression.py`) | logs, results | each iteration | `Regression` |
| Summary (`gen_summary.py`, `regression_summary.py`) | none | the files | `Regression` |
| Preparation (`patch_csr.py`, `gen_hex.py`, ...), metrics, launchers | files | | not modelled |

A converter is a machine that reads a log line by line: a line begins an
instruction, adds what it wrote, or ends the trace. What is hard is that a log
may be cut anywhere, that what an instruction wrote stands on another line (or,
for Renode, only in the difference of two register dumps), that the tracer
repeats an instruction while WB is held, and that nothing in a CSV says it is
incomplete.

### What makes each part correct

* Pipeline: it is the sequential machine. Registers change by one instruction at
  a time, with operands in program order, and each result is written once.
* CSR file: it is atomic. A cycle takes a trap, returns, or retires one CSR
  instruction; reads see all earlier writes.
* Front end: instructions arrive whole and in program order, and the PCs saved
  by traps and halts name the instruction the program is at.
* Divider: each answer is RISC-V's and comes in the one cycle the stall ends.
* Load/store: together with the memory it is byte-addressed memory.
* Converters: wherever a log is cut, the CSV tells what ran up to there, and what
  it names instead of a pseudo instruction means the same.
* Flow: what is reported as passed is right, and the counts are of all.

## 2. Modules

| Module | Models | Runs |
|---|---|---|
| `InstClass` | what each class of instruction reads, writes and needs | |
| `Isa` | the sequential machine: registers, and what was fetched, executed one at a time and in order | |
| `Pipeline` | the register pipeline | `int`, `fp` |
| `PipelineInv` | the inductive invariant and the conditions of the theorems | |
| `PipelineProofs` | proofs | |
| `CsrMap`, `CsrIsa` | the registers and their bits; the atomic CSR file | |
| `CsrFile` | the staged CSR file with traps | `csr` |
| `CsrProofs` | proofs | |
| `FrontEnd` | PC, fetch, IADU, saved PCs, the debug FSM | `front` |
| `FrontEndInv`, `FrontEndProofs` | the inductive invariant; proofs | `front` |
| `Divider` | the divider | through `MulDiv` |
| `Multiplier` | `mul_unit.sv` | through `MulDiv` |
| `MulDiv` | both units around EX/MEM, with stalls and flushes | `muldiv` |
| `MulDivProofs` | proofs about the divider, and about both units as they stand there | |
| `Lsu`, `LsuProofs` | MEM stage, aligners, data memory; proofs | `lsu` |
| `Pseudo` | `lib.py`'s conversion of pseudo instructions | through `TracePseudo` |
| `PseudoIsa` | what each instruction, pseudo and regular, means to the ISA | through `TracePseudo` |
| `TraceLogs` | the six converters, as steps from a state and a line to a state | through `TraceFlow` |
| `TraceFlow` | a test from its logs to its verdict: the simulators, converters and comparison composed | through `TracePseudo` |
| `TraceFlowProofs` | proofs | |
| `TracePseudo` | `TraceFlow` with the meaning of what the CSVs name | `traces` |
| `TraceCompare` | `instr_trace_compare.py` | through `Regression`, `TraceFlow` |
| `CompareProofs` | proofs about the comparison | |
| `Regression` | `run_all.py` and what it calls | `regression` |
| `RegressionProofs` | proofs | |

`MC...` modules give the constants their values. A definition `X_Bug` in front
of `X` is what a plausible slip in the code would make of `X`; no specification
uses it, and `PROJECT.json` lists which property catches it.

### Correspondence

* **Pipeline.** `id`, `ex`, `mem`, `wb`, `wb1` are the pipeline registers;
  `NextId` ... `NextWb1` their clear and enable; `RegEn`, `IdExeClr`,
  `ExeMemClr`, `CriticalClear` the wires of `pipeline_controller.sv`;
  `LoadHazard`, `MulHazard`, `FpHazard` those of `hazard_controller.sv`. An
  instruction carries the value it will produce from EX on (`val`), and a wire
  it is not on yet reads `Junk`; so forwarding too early shows as `Junk` in an
  operand. Fetch is free: any instruction of `Insts`, or a bubble. `Isa` executes
  what was fetched: its `todo` is the queue of what stands in MEM, EX and ID
  (`InFlight`), and only a redirection, a fault, an interrupt or a halt empties
  it. `ExactlyOnce` says that whatever retires acts on the registers as it
  should; the refinement says, besides, that it is the program that retires.
* **CsrFile.** `regs` are the CSRs, `pend` the staged write (`csr_valid_d` ...).
  Words are sets of bits, so masks, set and clear are set operations. What
  enters MEM is free.
* **FrontEnd.** Addresses count halfwords, modulo `N`; a program is the set
  `wide` of addresses where a 32-bit instruction starts. A word is known by
  where it is, so an instruction is the sequence of halfword addresses it is
  made of: a wrong assembly names wrong addresses. `expect` is a history of
  where the program is. Of `core_dbg_fsm.sv`, `Again` and `StepLeaves`
  are what stops the core (a request or a step behind an instruction; a step
  into a trap or behind an MRET) and decide what `dpc` becomes; `dcsr` holds its
  two bits that act; `ran` counts the steps a single step has made. EBREAK never
  stops it: decode raises `illegal_inst` for it (`decode_control.sv:130-134`), so
  that `ebreak_inst_id` (`data_path.sv:553`) is 0 and dcsr.ebreakm acts on
  nothing. A cleared IF2 PC is 0 in the code and no address here: with it
  `its_a_jump` (`iadu.sv:168`) takes a refill at address 4 for the next word, at
  every other address for a jump. Nothing runs at address 4, and `ItsAJump` leaves
  that one out.
* **Divider.** A word is a number below `M`, with one radix-4 step per digit;
  `Scale` gives the weights 4^i, assumed rather than computed by recursion.
* **Multiplier.** A word is a number below the square of `Half`. The module has
  the unit's registers and what a cycle that is not stalled (`Cycle`) or is
  (`Hold`) does to them.
* **MulDiv.** What leaves EX in a cycle is free: a division, a multiplication or
  something else, whose operands run through the multiplier all the same. `Busy`
  holds EX, the multiplier and EX/MEM; memory stalls hold them too; a trap or a
  halt flushes the divider and EX/MEM but not the product register.
* **Lsu.** A word is four bytes; `arch` is the history of the stores that
  retired. `Malign` is `load_addr_malign` and its store's counterpart as they are:
  LW, LH, SW and SH, but not LHU, which goes through at an odd address. `Load` is
  RISC-V's load; `Reached` moves an LHU's odd address to its halfword's.
* **TraceCompare.** A trace entry is empty or a register with a value. The loop
  over Spike's entries is a fold; its inner scan of the core's trace is
  `NextChange`, and `Rest` is the scan after the loop. `ChangesOf` says without a
  loop what a trace changes; `InOrder` and `Selected` pick entries of a sequence,
  and serve the properties of `TraceFlow` as well.
* **TraceLogs.** A line of a log carries the instruction it is about and is
  known by its kind: what a regular expression matches is abstracted to which
  kinds of lines it accepts. A converter's state is `on` (past the boot code),
  `e` (`instr_trace_entry`), `csv` and `done`; `CoreStep`, `SpikeStep`,
  `SailStep`, `WhisperStep`, `OvpStep` and `RenodeStep` are the bodies of their
  loops. Numbers are integers modulo `Word`, so that `SintToHex` wraps.
* **Pseudo.** `Convert` is `convert_pseudo_instr`, by tables: operands are
  inserted, swapped or appended, bit manipulations get their control word.
* **PseudoIsa** is not taken from `lib.py`: it says what an instruction of the
  RISC-V manuals does to registers, a CSR and the pc. Logic is on sets of bits, and
  a bit manipulation moves the bits' places, numbers of five bits.
* **TraceFlow.** `Execute` runs one instruction on the core and on each
  simulator; each converter reads the lines it logs, one or two per instruction.
  The core may write something else (`Faults`), print an instruction again while
  WB is held (`PrintAgain`; `copies` counts), or stop at any time (`CoreStops`: the
  bench ends after 100000 cycles, or 5 after an illegal instruction, ECALL or WFI,
  `tb_top.sv`). `ran` and `coreRan` are histories.
* **Regression.** `log` and `diff` are the files that outlive a run, `ref` the
  reference traces. `log` holds the trace itself, and `CompareTraces` appends
  what `TraceCompare` makes of it: the verdict and the number of matches, from
  which `Summary` computes what `regression_summary.py` reports.

The debug FSM's RESUME acknowledge is part of "halted" in `CsrFile` and
`FrontEnd`; in `Pipeline` it is a state of its own. To those two a step that ends
behind an instruction is a halt request in that cycle, and requests are free; the
mask a step without interrupts puts on traps is in `FrontEnd` only. The clear of IF/ID in the
first cycle after a resume, and the mask it puts on traps, have nothing to act
on in `Pipeline` (the invariant says that a core about to resume is empty).

## 3. Runs

### That pass

Each finishes within three minutes on two cores. The instances are small because
data is abstract: what matters is which registers are equal, not how many there
are.

| Run | Bounds and why they are enough | Shows |
|---|---|---|
| `int` | one register and x0, one-bit words, 8 instructions, divisions among them; interrupts, but not while a division is in MEM (`DivIrq`), misaligned accesses, halts, debugger writes. With one register every producer meets every consumer at every distance | the inductive invariant, operands, store data, exactly-once writes; an abandoned division leaves nothing behind. `Sequential` is checked in `fp`, for here it takes TLC too long, and proved for both |
| `fp` | one register in each file, 7 instructions, with loads, multiplications and divisions that stall but are not flushed | FP hazards and the WB+1 tail; nothing is lost in a stall; what decode is given is executed once and in order (`Isa`); decode hands on instructions for ever |
| `csr` | mstatus, mie, mepc and fcsr written by four CSR instructions, both interrupts, exceptions, MRET, stalls, halts, the debugger's port. A set of mstatus, a set of mie with both enables, a register a trap writes too, and the shared FP address | each cycle does one atomic thing, reads see earlier writes, mcause is that of a pending and enabled interrupt, refinement of `CsrIsa` |
| `front` | six layouts of four words: one kind only, across words, mixed, across the end of memory, overlapping instructions a jump reads from the middle; traps, jumps to any halfword, halts, single steps with and without interrupts, resumes at any dpc | the inductive invariant; instructions are whole and on the path, mepc and dpc are right, a step is one instruction or one trap and ends, none is starved |
| `muldiv` | words of six bits, so that a middle step is neither first nor last; operands at the ends and the middle of the range and one that divides unevenly | answers and products are RISC-V's whatever stalled or was flushed before; the divider's loop invariant and handshake; no multiplication passes a division; every division ends |
| `lsu` | two words: every access to one, misaligned loads among them, and those that touch its neighbour; two data with different bytes and signs; interrupts | memory is byte-addressed memory; a request is acknowledged in the next cycle |
| `regression` | two iterations, two runs on one day or two, every trace of up to three entries against every reference of up to two, two registers and two values: a change, no change, a change back; all ways a simulation ends | what PASSED means for one trace and for the report, and that the counts are of all |
| `traces` | addresses of six bits, so that jumps wrap; all programs of two instructions out of eleven kinds, of three out of four, one for each of the 64 registers, and one for each pseudo instruction; two copies of a line; four ways to write something else; the core stops at every point. A converter remembers one entry, so what it does to an instruction depends on the one before and the one after | the CSVs tell what ran, at every length of the logs; a wrong core fails and a right one passes through both logs, both converters and the comparison; offsets and pseudo instructions keep their meaning |

Fairness. `Pipeline`: weak fairness of the clock, of a cycle that brings the
memory's acknowledge (`dmem.sv` answers in the next cycle), and of one in which
the divider's count has run out (a counter of at most 16 steps). `MulDiv`: of the
clock while MEM waits. `FrontEnd`: of a running cycle that brings neither stall
nor hazard (their ends are `KeepsMoving` and `Answered` of the other modules).
Such a cycle is enabled exactly while the core runs, so its weak fairness is
written out that way, which spares TLC the evaluation of ENABLED. `Arrives` speaks
of executions in which traps and halts stop; `StepEnds` of all.

### That find a disagreement

| Run | What happens |
|---|---|
| `store_f2i` | a store of an FP to integer result stores the ALU's output: `README.md` says that each instruction matches Spike |
| `csr_frm` | an FP instruction right behind a write of frm rounds the old way, though `data_path.sv` says the write is bypassed |
| `front_mret` | an MRET under a data hazard does not reach the PC register |
| `compare_early` | a core whose trace stops early passes, though "ALL INSTRUCTIONS MATCH" is printed |

The comparison with Spike sees the first three only if the suites hold such a
sequence. Interrupts and the debug port are tied off in `rv32imc_top.sv`, so what
follows about traps by interrupt and about halts speaks of the core
(`rv32imc.sv`) and not of the top level as it is.

### What the assumptions leave out

The conditions of the passing runs and the theorems were found by runs without
them. Each behaviour below comes back when the constant or the condition is changed.

| Change | What the code then does |
|---|---|
| `Faults` or `Irq` on in `fp` | a trap in a cycle that a load or a division stalls, by a misaligned load in the first cycle of its stall too, clears WB while the stall holds the tail behind it, and the FP to integer move that was in WB is lost: `ExactlyOnce` |
| `DivIrq` on in `int` | `flush_i` empties the divider but not `div_busy_ff`: the cycle after an interrupt that hits a running division has `ready_o` = 1, and MEM/WB takes the emptied quotient as a register write: `ExactlyOnce`. A halt does the same, but nothing reaches WB while the core is halted |
| an `f2i` before a halt, with debugger writes | WB+1 is held through the halt and port 2 writes its result again, over the debugger's write; `ExactlyOnce` lets a debugger's write leave the registers as they are |
| `Quiet` empty in `csr` | a trap in the cycle after a write of mstatus overrides it: `AtomicCsr` |
| fcsr in `ReadsLatest` | fcsr read right behind a write of fflags has the old flags, for the bypass compares addresses; `ReadsLatest` speaks of the other CSRs |
| the targets of traps and returns in `ReadsLatest` | mtvec and mepc are used by a trap or an MRET one cycle before the staged write lands |
| `SkewedRefill` on in `front` | an interrupt while an empty pipeline waits for the second half of an instruction saves a PC that is a word too far: `MepcRight` |
| `HaltAnytime` on in `front` | a halt in the cycle of a trap with an empty WB, or in the first one after a resume, saves an old PC: `DpcRight` |
| single-step with stepie off | `dont_trap` masks exceptions too, so a faulting instruction is stepped over as if executed, and an MRET returns without its effect on mstatus; stepie is dcsr[9]. `StepsOne` counts both as one instruction |
| a CSR instruction or a store in MEM in the cycle of a halt | it has its effect and is executed again after the resume; a single step halts in just that cycle. `DpcRight` says which instruction is executed again, not that doing so is harmless |
| `StoreTraps` on in `lsu` | a store that traps, misaligned or interrupted, has already written: `MemoryRight` |
| `addr` for `Reached` in `LoadRight` | an LHU at an odd address does not trap, as LH does (`mem_controller.sv:204-206`), and loads the halfword one byte below, though `README.md:23` says that every instruction matches Spike |
| `fresh` dropped from `PassedMeansRight` | a second run of the day appends to the diff logs, and a PASSED of the first counts |
| `AllEnded` dropped from it | an iteration whose simulation was killed is not in the summary; one that traces nothing is judged by the log of the one before |

Nothing in the repository says when an interrupt or a halt may come, so what
needs one is a limit of what is claimed. Six need neither: the trap in a stall by
a misaligned load, the flags in fcsr, a new mtvec or mepc, an exception right
behind a write of mstatus, the misaligned store, and LHU at an odd address. There
the core and Spike differ as they do in `store_f2i`; each is a line here and not a
run of its own.

The verification flow has conventions of its own, which its properties state as
they are or leave out:

| What the scripts do | Where it shows |
|---|---|
| `csrr` becomes `csrrw rd, csr, zero`, which clears the CSR (`lib.py:411`; the docstring at 350 promises a regular instruction for the pseudo one) | `SameMeaning` excepts it |
| the OVPsim converter leaves the targets of `bgt`, `ble`, `bgtu`, `bleu` absolute | `SameMeaning` excepts them there |
| the OVPsim converter writes an entry when the next line comes, so the last one of a log is lost | `CsvRight` says: what is followed by an instruction |
| Renode's converter sees differences of register dumps, so a write of the old value is not in its CSV, and it takes the boot value to be 0 and the first pc as given (FIXMEs in the script) | `CsvRight` says: those that changed. The script compares strings, and its first values are `'0'`; here they are numbers, so that how Renode prints a zero does not matter |
| what failed is the lines of Spike's CSV less the matches, and the header is one of the lines: it alone makes a core fail that is wrong after the last match | `ReportIsOfAll` |
| with `compare_final_value_only`, or out of order, nothing is compared and PASSED is printed (`instr_trace_compare.py:40,135`) | not modelled: no caller asks for it |
| operands of loads and stores are printed in the order reg, imm, reg by the core's converter (166-170) and rd, rs1, imm by Spike's (56-62); the core's branch for jalr (157-163) cannot be reached | left out: the comparison does not read operands |
| the core's converter renames registers before it looks for the hex target of a jump (`core_log_to_trace_csv.py:149-153`), so that a target that is spelled like one (`f4`) would be renamed | left out: tests run at 0x80000000 |
| a log without an instruction, at which OVPsim's converter exits, and an entry in front of the first instruction | left out: programs start with one |
| Spike's converter takes one CSR write in front of a register's on a commit line; `is_csr` does not know sepc, time and vxrm | left out |
| `patch_csr.py` walks 32-bit words, so that it misreads compressed code | not modelled |

## 4. Proofs

All are checked by TLAPS 1.4.5 with Z3, Zenon and LS4.

**Pipeline** (`PipelineProofs`): `Invariance`, `TypeCorrect`, `OperandsRight`,
`StoresRight`, `WritesExactlyOnce`, `Refinement`. They hold for any set of
registers and words, any `Result` and any `Insts` under `SafeMix`, three
conditions on the program and its environment: no store of an FP to integer
result (`store_f2i` drops it), nothing that flushes a stalled pipeline with FP
instructions, no interrupt while a division is in MEM (`DivIrq`). Why each is
needed is in the tables above. The invariant `PipeInv` is

* `TypeOK`, `Provenance`: what registers hold came from `Insts`, and what faults
  or jumps is what may;
* `DivInMem`: the divider works exactly while its division waits in MEM;
* `ExRight`: EX holds no instruction whose source MEM or WB still computes, and
  what it captured in ID is the program-order value unless MEM or WB forwards;
* `MemRight`: operands, result and store data in MEM are those of the
  sequential machine;
* `ResumesEmpty`: a core about to resume is empty, so that it may start anew.

`ExRight` is why it must be strengthened: that operands are right in MEM is not
inductive, for it depends on what EX captured two cycles before. The registers
of `Isa` are mapped to `ArchGpr`, `ArchFpr`: the files with what WB and WB+1
have still to write, and its queue to `InFlight`. One lemma per wire, one per
pipeline register. `Refinement` adds to `WritesExactlyOnce` what becomes of the
queue: `Bubbles` says where bubbles go in, `QueueMoves` that a cycle holds every
instruction, or moves all of them up by a stage, or keeps the one in ID behind a
bubble, or drops what a clear drops, and never one of two.

**CSR file** (`CsrProofs`): `Warl`, `Reads`, `OneThingACycle`, `Refinement`, for
any instructions and any interrupts; the last two under the assumption that
mstatus is among the CSRs whose staged write no trap meets (`Quiet`). The
registers of `CsrIsa` are mapped to those with the staged write applied.
`Causes`, for every program and without that assumption: an interrupt's cause is
one that was pending and enabled, the external one first.

**Divider** (in `MulDivProofs`): `Invariance`, `Held`, `Correct`, for words of
any even width and all operands. The invariant `DivInv`: dividend = quotient so far
times divisor times weight, plus what is left, with the remainder below the
divisor.

**Front end** (`FrontEndProofs`): `Invariance`, `TypeCorrect`, `Whole`,
`OnThePath`, `TrapsSave`, `HaltsSave`, `OneAtATime`, for any even number of
halfwords (at least eight), any program and any times of stalls, hazards, jumps,
traps, halts and steps, under `Orderly`: `MretHazard`, `SkewedRefill` and
`HaltAnytime` are off. That MEM holds the instruction the program is at is not
inductive, for it depends on every stage before MEM. `FrontInv` (`FrontEndInv`) says
that the stages hold a piece of the program's path without a gap:

* `WordRight`, `IaduRight`: the word in IF2 is the one its PC names, and what
  the alignment FSM remembers of the last one is where the next instruction begins;
* `Chain`: each stage's instruction is followed by that of the stage before it,
  up to what is fetched next, and the oldest is where the program is;
* `EmptyRight`: a clear leaves nothing behind;
* `DenseRight`: once there is an instruction in ID there is one in every cycle,
  so that a step that ends behind an instruction finds the next one's PC;
* `RanRight`: a step is made by what left MEM for WB.

The lemma `HandsOn` is its core: in each of the six situations of the FSM the word in
IF2 yields the next instruction, whole, or leaves it for the next word.

**Load/store** (`LsuProofs`): `Invariance`, `MemoryKept`, `LoadsLatest` under
`~StoreTraps`, and `Acknowledged`, for any number of words and any accesses, with
interrupts or without. The
invariant `LsuInv` says what memory, its read register and its acknowledge are in
the first and in the second cycle of an access; lemmas about lanes say that byte enables
and the aligner write and select the bytes at the address.

**Multiplier** (`MulDivProofs`): `DividerAlone` shows that inside the pipeline
the divider takes no step it does not take alone, so that its theorems hold
there. `MulInvariance`, `NonePasses`, `HalvesRight`, `WholeThere`: EX/MEM and the
product register go together, and the product of the split operands, modulo two
words, is the exact one; for words of any even width.

**Comparison** (`CompareProofs`): `PassedMatches`, `SameChangesPass`, for traces
of any length. The loop is a fold, and what a fold does to every trace is an
induction over its length; the library's induction theorems cannot be used, so
`Induction` gets it, for sets instead of predicates, from `NatLessThanWellFounded`
and `WFMin`. `LoopSteps` turns the fold into a sequence of states that `Compare`
leads through, and `LoopInv` says of each: how far the core's trace has been
read, that the two tables hold the last values of either trace up to there, and
that without a mismatch the changes so far are the same, place by place.

**Regression** (`RegressionProofs`): `Invariance`, `TypeCorrect`,
`PassedIsRight`, `RightIsPassed`, `PassedReports`, `RightReports`,
`AllReported`, for any number of iterations and runs and any traces. What PASSED means is not inductive: it holds because of what the diff
logs of the day hold, and those outlive a run. The invariant says which result
and which entries of a diff log belong together, that there are no results but
of the iterations asked for, and that a report is of the logs there are. That a
sum is 0 exactly when every summand is (`AllReported`) is one more induction.

**Conversion** (`TraceFlowProofs`): `Invariance`, `CsvsTell`, `WrongsFail`,
`WholesPass`, for any programs, any faults, any width of the pc and any number of
copies of a line. `CsvRight` is not inductive, for a converter also holds what it
has not written. The invariant says

* of each converter, what its CSV tells and what it would write if its log ended
  here (`SpikeCsv`, OVPsim's pending entry); Renode's last dump is the registers,
  and these hold the last value of each in the history (`Traced`);
* of the core's and Spike's CSVs, that as traces they make the changes that their
  histories make and leave the same values (`Alike`), which the lines that one
  log has and the other has not do not disturb;
* that a verdict is given once, on what the CSVs then are.

One lemma says what each converter does with the lines of an instruction
(`CoreReads`, `SpikeReads`, ...), one that it follows its history by it
(`CoreFollows`, ...). `WrongsFail` and `WholesPass` join that with the theorems
about the comparison. The invariant also says which instruction each row of the
core's, Spike's and OVPsim's CSV names (`NamesCore`, `NamesSpike`, `NamesOvp`), and
two theorems are about that:

* `JalsAgree` (`OffsetsAgree`): an offset that was added to a pc modulo the width
  and is taken relative to it again is the offset modulo the width (`OffsetBack`),
  wherever the jump is and whether the address wraps or not. It compares entries
  by their pc, so it is about runs in which a pc names one instruction
  (`CodeStays`); a program of `TraceFlow`, a sequence of instructions, may jump
  back to a pc that then names another.
* `MeaningsSame` (`SameMeaning`): what the CSVs name for a pseudo instruction does
  what that means, in any program, for all values of the registers of two to
  eight bits and all words of 32, also where an offset has gone through an
  address. Each row of the conversion's tables says what the instruction becomes
  (`LastsConverted`, ...), what that does is read off the regular instructions
  (`IntsDone`, `ManipDone`, ...), and that it is the meaning is shown family by
  family: on integers (`IntsMean`, `BranchesMean`), jumps (`JumpsMean`), the 50
  bit manipulations (`UnitsMean`), logic and CSRs (`WordsMean`, `CsrsMean`). Behind
  the bit manipulations are three facts about the five bits of a place: flipping
  those in g - u reverses the units of u bits in a group of g (`FlipIs`), letting
  them go spreads a bit over the group (`CombineIs`), and exchanging neighbours
  interleaves its halves (`ZipIs`), which unshuffling takes back (`UnzipIs`).

Only model-checked: liveness (`KeepsMoving`, `Answered`, `Arrives`, `StepEnds`),
which TLAPS does not do here. Every invariant and every action property of a
passing run is also a theorem.

## 5. Assumptions by name

* `SafeMix` (`PipelineInv`), see above. `DivIrq` (`Pipeline`): an interrupt may meet
  a division in MEM; off in every run.
* `Quiet` (`CsrFile`): CSRs whose staged write meets no trap or MRET; mstatus in
  `csr`, none in `csr_frm`.
* `MretHazard` (`FrontEnd`): a hazard behind an MRET; on in `front_mret` only.
  `SkewedRefill` and `HaltAnytime`: off in both runs.
* `StoreTraps` (`Lsu`): a trap that squashes a store in MEM; off.
  `Irq`: interrupts; the theorems need nothing of it.
* `RegsAssumption` (`TraceCompare`): the entry without a register has a name that
  no register has.
* `RegressionAssumption`: references are traces and not empty.
* `AbiAssumption` (`TraceFlow`): `lib.py`'s table of names is the rule of the
  calling convention and names no two registers alike. A fact about 64 strings,
  which are out of the provers' reach: TLC evaluates it, the proofs use it.
* `TraceFlowAssumption`, `TracePseudoAssumption`, `PseudoIsaAssumption`: the
  shapes of the constants (a program is a sequence of instructions that write one
  register or none; none, if they trap, stop the core or have no operands; jumps
  end in an offset, and a jal writes the register it names, or ra; a pseudo
  instruction has the operands of its disassembly); addresses in `TraceFlow` are as
  wide as the integers in `PseudoIsa`. A program has no jump into the boot code, and its first line comes
  after the trampoline (Spike), the start symbol (Sail), the start pc (Renode).

## 6. Not modelled, and why

* AMO and LR/SC: `decode_control.sv:47` never raises `is_atomic`.
* `inst_fetch_stall`: tied to 0; `mem_err`: tied to 0.
* FPU arithmetic, crypto, ALU: pure functions of 32-bit words.
* `decompressor.sv`, `exception_encoder.sv`: pure tables. Illegal halfwords are
  not in `FrontEnd`'s programs.
* `debug_cause`, which only a debugger reads.
* Of the converters: regular expressions as text, the order of the operands of
  loads and stores, compressed mnemonics, and the columns no script reads again
  (mode, CSRs, the binary).
* Of the summary: IPC and scores. The build, the selection of suites.
* `patch_csr.py`, `gen_hex.py`, `convert_hex.py`, `merge_sections.py`,
  `format_csv.py`, `gen_csr_test.py`: file formats; what they made is in `tests/`.
* `metrics-regress.py`, `genMetricsList.py`, `renode_wrapper.py`: command lines,
  scraping of reports, and a loop that polls a server.
* The out-of-order comparison: a TODO in the code.

## 7. Plan

1. `Decompress`: the 16-bit table against the classes, for every halfword.
2. `MemController`: the AMO FSM as written, though nothing issues to it, with
   the comment on reservations.
3. `Pipeline`'s divider as an abstraction of `Divider` (refinement), and the
   front end composed with the CSR file's traps.
