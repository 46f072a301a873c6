---------------------------------- MODULE Lsu ----------------------------------
(***************************************************************************)
(* Loads and stores: the MEM stage, lsu with its alignment units, and the  *)
(* data memory with its one-cycle acknowledge.  One step is one clock      *)
(* cycle.  A word is a sequence of four bytes, the lowest first.  What     *)
(* enters MEM is free, and so are the interrupts.                          *)
(***************************************************************************)
EXTENDS Integers, Sequences

CONSTANTS
  Size,          (* bytes of memory                                           *)
  Accesses,      (* the loads and stores of the program                       *)
  StoreTraps,    (* whether a trap may squash a store in MEM                  *)
  Irq            (* whether interrupts come                                   *)

Byte == 0..255
Word == [1..4 -> Byte]
Addr == 0..(Size - 1)

ASSUME SizeAssumption == Size \in Nat /\ Size > 0 /\ Size % 4 = 0

(* mem_op, funct3 of the instruction: width, and sign or zero extension.   *)
Zero   == <<0, 0, 0, 0>>
Bubble == [kind |-> "none", op |-> "w", addr |-> 0, data |-> Zero]
Loads  == [kind : {"load"}, op : {"b", "h", "w", "bu", "hu"}, addr : Addr, data : {Zero}]
Stores == [kind : {"store"}, op : {"b", "h", "w"}, addr : Addr, data : Word]

ASSUME AccessAssumption == /\ \A i \in Accesses : i \in Loads \/ i \in Stores
                           /\ StoreTraps \in BOOLEAN /\ Irq \in BOOLEAN

VARIABLES
  mem,       (* dmem                                                          *)
  rdata,     (* dmem: the word read in the last cycle                         *)
  ack,       (* dmem: ack                                                     *)
  inst,      (* EX/MEM: the access, with the forwarded store data             *)
  irq,       (* input: an enabled interrupt                                   *)
  arch       (* history: the memory after the stores that retired             *)

vars == <<mem, rdata, ack, inst, irq, arch>>
-----------------------------------------------------------------------------
(* Wires of the cycle.                                                     *)
Active == inst.kind # "none"
Lane   == inst.addr % 4
Line   == inst.addr - Lane

(* mem_controller: traps of misaligned accesses, LHU not among them;       *)
(* stall_pipl.                                                             *)
Malign == \/ inst.op = "w" /\ Lane # 0
          \/ inst.op = "h" /\ Lane % 2 # 0
Trap   == irq \/ (Active /\ Malign)
Stall_Bug == Active /\ ~(ack \/ inst.kind = "load")   \* a load is not waited for
Stall  == Active /\ ~ack

(* store_aligner: the data shifted to its lane, and the byte enables.      *)
Shamt == CASE inst.op = "b" -> Lane
           [] inst.op = "h" -> 2 * (Lane \div 2)
           [] inst.op = "w" -> 0
Aligned == [i \in 1..4 |-> IF i > Shamt THEN inst.data[i - Shamt] ELSE 0]
Wstrb_Bug == CASE inst.op = "b" -> {Lane + 1}         \* the half is picked by address bit 0
               [] inst.op = "h" -> IF Lane % 2 = 0 THEN {1, 2} ELSE {3, 4}
               [] inst.op = "w" -> 1..4
Wstrb == CASE inst.op = "b" -> {Lane + 1}
           [] inst.op = "h" -> IF Lane < 2 THEN {1, 2} ELSE {3, 4}
           [] inst.op = "w" -> 1..4

(* load_aligner: the byte or half selected, and extended.                  *)
Sign(b) == IF b >= 128 THEN 255 ELSE 0
Extend(s) == LET fill == IF inst.op \in {"bu", "hu"} THEN 0 ELSE Sign(s[Len(s)])
             IN s \o [i \in 1..(4 - Len(s)) |-> fill]
Loaded == CASE inst.op \in {"b", "bu"} -> Extend(<<rdata[Lane + 1]>>)
            [] inst.op \in {"h", "hu"} -> Extend(IF Lane < 2 THEN <<rdata[1], rdata[2]>>
                                                 ELSE <<rdata[3], rdata[4]>>)
            [] inst.op = "w" -> rdata
-----------------------------------------------------------------------------
Init ==
  /\ mem = [a \in Addr |-> 0]
  /\ rdata = Zero /\ ack = FALSE
  /\ inst = Bubble
  /\ irq = FALSE
  /\ arch = mem

Dmem_Bug ==                                           \* only reads are acknowledged
  /\ mem' = IF inst.kind = "store"
              THEN [a \in Addr |-> IF a - Line + 1 \in Wstrb THEN Aligned[a - Line + 1] ELSE mem[a]]
              ELSE mem
  /\ rdata' = IF inst.kind = "load" THEN [i \in 1..4 |-> mem[Line + i - 1]] ELSE rdata
  /\ ack' = (inst.kind = "load" /\ ~ack)

(* dmem at the next clock edge: its requests are not gated by the trap.    *)
Dmem ==
  /\ mem' = IF inst.kind = "store"
              THEN [a \in Addr |-> IF a - Line + 1 \in Wstrb THEN Aligned[a - Line + 1] ELSE mem[a]]
              ELSE mem
  /\ rdata' = IF inst.kind = "load" THEN [i \in 1..4 |-> mem[Line + i - 1]] ELSE rdata
  /\ ack' = (Active /\ ~ack)

(* What RISC-V asks for, over the bytes at the address and after it.       *)
Width(op) == CASE op \in {"b", "bu"} -> 1 [] op \in {"h", "hu"} -> 2 [] op = "w" -> 4
Store(m, i) ==
  [a \in Addr |-> IF a - i.addr \in 0..(Width(i.op) - 1) THEN i.data[a - i.addr + 1] ELSE m[a]]
Load(m, i) ==
  LET n == Width(i.op)
      top == m[i.addr + n - 1]
  IN [j \in 1..4 |-> IF j <= n THEN m[i.addr + j - 1]
                     ELSE IF i.op \in {"b", "h"} /\ top >= 128 THEN 255 ELSE 0]

(* A trap clears the register, a stall holds it.                           *)
Retires == Active /\ ~Trap /\ ~Stall
Pipe(next) ==
  /\ inst' = IF Trap THEN Bubble ELSE IF Stall THEN inst ELSE next
  /\ arch' = IF Retires /\ inst.kind = "store" THEN Store(arch, inst) ELSE arch

(* With Irq, interrupts come at any time; with StoreTraps off, not upon a  *)
(* store, and no store is misaligned.                                      *)
NextInputs ==
  /\ irq' \in {FALSE, Irq}
  /\ ~StoreTraps => ~(inst'.kind = "store" /\ Trap')

Arrivals == IF Trap \/ Stall THEN {Bubble} ELSE {Bubble} \union Accesses

Next == /\ Dmem
        /\ \E next \in Arrivals : Pipe(next)
        /\ NextInputs

Spec == Init /\ [][Next]_vars
-----------------------------------------------------------------------------
TypeOK ==
  /\ mem \in [Addr -> Byte] /\ arch \in [Addr -> Byte]
  /\ rdata \in Word /\ ack \in BOOLEAN /\ irq \in BOOLEAN
  /\ inst \in {Bubble} \union Accesses

(* A load that retires has the bytes that the stores before it left,       *)
(* extended: through the byte enables, the lanes, the memory's read        *)
(* register and whatever accesses were squashed before it.  They are those *)
(* at its address; an LHU at an odd one retires, too, with those of the    *)
(* halfword the address is in.                                             *)
Reached == IF inst.op = "hu" THEN [inst EXCEPT !.addr = @ - (@ % 2)] ELSE inst
LoadRight == Retires /\ inst.kind = "load" => Loaded = Load(arch, Reached)

(* Memory holds the stores that retired, but for the one in MEM, which may *)
(* have written already.                                                   *)
MemoryRight == mem = arch \/ (inst.kind = "store" /\ mem = Store(arch, inst))

(* Every access is acknowledged, in its second cycle, or squashed.         *)
AckedNext == [][Active /\ ~Trap /\ Stall => ~Stall']_vars
=============================================================================
