-------------------------------- MODULE LsuProofs --------------------------------
(***************************************************************************)
(* Proofs about Lsu, for any size of memory and any loads and stores, if   *)
(* no trap squashes a store.                                               *)
(***************************************************************************)
EXTENDS Lsu, SequenceTheorems, TLAPS

(* The byte lanes.                                                         *)
LEMMA Lanes ==
  ASSUME NEW a \in Addr
  PROVE  /\ a \in Int /\ a % 4 \in 0..3 /\ a - (a % 4) \in Addr
         /\ \A i \in 1..4 : a - (a % 4) + i - 1 \in Addr
         /\ a % 2 = 0 => a % 4 \in {0, 2}
         /\ (a % 4) % 2 = a % 2
<1> Size \in Nat /\ Size > 0 /\ Size % 4 = 0 /\ a \in Int /\ 0 <= a /\ a < Size
  BY SizeAssumption DEF Addr
<1>1. a % 4 \in 0..3 /\ (a - (a % 4)) % 4 = 0 /\ a - (a % 4) >= 0
  OBVIOUS
<1>2. a - (a % 4) + 3 < Size
  BY <1>1
<1>3. a - (a % 4) \in Addr /\ \A i \in 1..4 : a - (a % 4) + i - 1 \in Addr
  BY <1>1, <1>2 DEF Addr
<1>4. (a % 2 = 0 => a % 4 \in {0, 2}) /\ (a % 4) % 2 = a % 2
  OBVIOUS
<1> QED BY <1>1, <1>3, <1>4

(* What enters MEM.                                                        *)
LEMMA Kinds ==
  ASSUME inst \in {Bubble} \union Accesses
  PROVE  /\ inst.kind \in {"none", "load", "store"} /\ inst.addr \in Addr
         /\ inst.kind = "load" => inst \in Loads
         /\ inst.kind = "store" => inst \in Stores
         /\ inst.kind = "none" => inst = Bubble
<1>1. CASE inst = Bubble
  BY <1>1, SizeAssumption DEF Bubble, Addr
<1>2. CASE inst \in Loads
  BY <1>2 DEF Loads
<1>3. CASE inst \in Stores
  BY <1>3 DEF Stores
<1> QED BY <1>1, <1>2, <1>3, AccessAssumption

(* store_aligner and the byte enables write the bytes at the address.      *)
LEMMA Writes ==
  ASSUME inst \in Stores, ~Malign, NEW m \in [Addr -> Byte]
  PROVE  /\ [a \in Addr |-> IF a - Line + 1 \in Wstrb THEN Aligned[a - Line + 1] ELSE m[a]]
              = Store(m, inst)
         /\ Store(m, inst) \in [Addr -> Byte]
         /\ Store(Store(m, inst), inst) = Store(m, inst)
<1>1. /\ inst.op \in {"b", "h", "w"} /\ inst.addr \in Addr /\ inst.data \in Word
      /\ Active /\ inst.addr \in Int
  BY DEF Stores, Active, Addr
<1>2. /\ Lane \in 0..3 /\ Line \in Int /\ inst.addr = Line + Lane
      /\ inst.op = "h" => Lane \in {0, 2}
      /\ inst.op = "w" => Lane = 0
  <2>1. Lane \in 0..3 /\ Line \in Int /\ inst.addr = Line + Lane
    BY <1>1, Lanes DEF Lane, Line
  <2>2. inst.op = "h" => Lane % 2 = 0
    BY DEF Malign
  <2>3. inst.op = "w" => Lane = 0
    BY DEF Malign
  <2> QED BY <2>1, <2>2, <2>3
<1>3. \A k \in 1..4 : k > Shamt => Aligned[k] = inst.data[k - Shamt]
  BY DEF Aligned
<1>4. ASSUME NEW a \in Addr
      PROVE  /\ a - Line + 1 \in Wstrb <=> a - inst.addr \in 0..(Width(inst.op) - 1)
             /\ a - Line + 1 \in Wstrb => Aligned[a - Line + 1] = inst.data[a - inst.addr + 1]
  <2>0. a \in Int
    BY DEF Addr
  <2>1. CASE inst.op = "b"
    <3>1. Wstrb = {Lane + 1} /\ Width(inst.op) = 1 /\ Shamt = Lane
      BY <2>1 DEF Wstrb, Width, Shamt
    <3>2. a - Line + 1 \in Wstrb <=> a = inst.addr
      BY <1>2, <2>0, <3>1
    <3>3. a - inst.addr \in 0..0 <=> a = inst.addr
      BY <1>1, <2>0
    <3>4. a = inst.addr => /\ a - Line + 1 \in 1..4 /\ a - Line + 1 > Shamt
                           /\ a - Line + 1 - Shamt = a - inst.addr + 1
      BY <1>2, <2>0, <3>1
    <3>5. ASSUME a = inst.addr PROVE Aligned[a - Line + 1] = inst.data[a - inst.addr + 1]
      <4>1. PICK k \in 1..4 : k = a - Line + 1
        BY <3>4, <3>5
      <4>2. Aligned[k] = inst.data[k - Shamt]
        BY <1>3, <3>4, <3>5, <4>1
      <4>3. k - Shamt = a - inst.addr + 1
        BY <1>1, <1>2, <2>0, <3>1, <3>4, <3>5, <4>1
      <4> QED BY <4>1, <4>2, <4>3
    <3> QED BY <3>1, <3>2, <3>3, <3>5
  <2>2. CASE inst.op = "h"
    <3>1. Wstrb = {Lane + 1, Lane + 2} /\ Width(inst.op) = 2 /\ Shamt = Lane
      BY <1>2, <2>2 DEF Wstrb, Width, Shamt
    <3>2. a - Line + 1 \in Wstrb <=> a - inst.addr \in 0..1
      <4>1. a - Line + 1 \in Wstrb <=> (a - Line + 1 = Lane + 1 \/ a - Line + 1 = Lane + 2)
        BY <3>1
      <4>2. a - inst.addr \in 0..1 <=> (a - inst.addr = 0 \/ a - inst.addr = 1)
        BY <1>1, <2>0
      <4> QED BY <1>1, <1>2, <2>0, <4>1, <4>2
    <3>3. a - inst.addr \in 0..1 => /\ a - Line + 1 \in 1..4 /\ a - Line + 1 > Shamt
                                    /\ a - Line + 1 - Shamt = a - inst.addr + 1
      BY <1>2, <2>0, <2>2, <3>1
    <3>4. ASSUME a - inst.addr \in 0..1 PROVE Aligned[a - Line + 1] = inst.data[a - inst.addr + 1]
      <4>1. PICK k \in 1..4 : k = a - Line + 1
        BY <3>3, <3>4
      <4>2. Aligned[k] = inst.data[k - Shamt]
        BY <1>3, <3>3, <3>4, <4>1
      <4>3. k - Shamt = a - inst.addr + 1
        BY <1>1, <1>2, <2>0, <3>1, <3>3, <3>4, <4>1
      <4> QED BY <4>1, <4>2, <4>3
    <3> QED BY <3>1, <3>2, <3>4
  <2>3. CASE inst.op = "w"
    <3>1. Wstrb = 1..4 /\ Width(inst.op) = 4 /\ Shamt = 0
      BY <2>3 DEF Wstrb, Width, Shamt
    <3>2. a - Line + 1 \in Wstrb <=> a - inst.addr \in 0..3
      BY <1>2, <2>0, <2>3, <3>1
    <3>3. a - inst.addr \in 0..3 => /\ a - Line + 1 \in 1..4 /\ a - Line + 1 > Shamt
                                    /\ a - Line + 1 - Shamt = a - inst.addr + 1
      BY <1>2, <2>0, <2>3, <3>1
    <3>4. ASSUME a - inst.addr \in 0..3 PROVE Aligned[a - Line + 1] = inst.data[a - inst.addr + 1]
      <4>1. PICK k \in 1..4 : k = a - Line + 1
        BY <3>3, <3>4
      <4>2. Aligned[k] = inst.data[k - Shamt]
        BY <1>3, <3>3, <3>4, <4>1
      <4>3. k - Shamt = a - inst.addr + 1
        BY <1>1, <1>2, <2>0, <3>1, <3>3, <3>4, <4>1
      <4> QED BY <4>1, <4>2, <4>3
    <3> QED BY <3>1, <3>2, <3>4
  <2> QED BY <1>1, <2>1, <2>2, <2>3
<1>5. [a \in Addr |-> IF a - Line + 1 \in Wstrb THEN Aligned[a - Line + 1] ELSE m[a]] = Store(m, inst)
  BY <1>4 DEF Store
<1>6. Store(m, inst) \in [Addr -> Byte]
  <2>1. ASSUME NEW a \in Addr, a - inst.addr \in 0..(Width(inst.op) - 1)
        PROVE  inst.data[a - inst.addr + 1] \in Byte
    <3>1. a \in Int /\ Width(inst.op) \in 1..4
      BY <1>1 DEF Addr, Width
    <3>2. a - inst.addr + 1 \in 1..4
      BY <1>1, <2>1, <3>1
    <3> QED BY <1>1, <3>2 DEF Word
  <2> QED BY <2>1 DEF Store
<1>7. Store(Store(m, inst), inst) = Store(m, inst)
  BY DEF Store
<1> QED BY <1>5, <1>6, <1>7

LEMMA Pads ==
  ASSUME NEW S, NEW s \in Seq(S), NEW n \in Nat, NEW f \in S
  PROVE  s \o [i \in 1..n |-> f] = [i \in 1..(Len(s) + n) |-> IF i <= Len(s) THEN s[i] ELSE f]
<1> DEFINE t == [i \in 1..n |-> f]
           u == [i \in 1..(Len(s) + n) |-> IF i <= Len(s) THEN s[i] ELSE f]
<1>1. t \in Seq(S) /\ Len(t) = n
  OBVIOUS
<1>2. Len(s) \in Nat /\ \A i \in 1..Len(s) : s[i] \in S
  OBVIOUS
<1>3. u \in Seq(S) /\ Len(u) = Len(s) + n
  <2>1. u \in [1..(Len(s) + n) -> S]
    BY <1>2
  <2> QED BY <1>2, <2>1
<1>4. /\ s \o t \in Seq(S) /\ Len(s \o t) = Len(s) + Len(t)
      /\ \A i \in 1..(Len(s) + Len(t)) :
           (s \o t)[i] = IF i <= Len(s) THEN s[i] ELSE t[i - Len(s)]
  BY <1>1, ConcatProperties
<1>5. \A i \in 1..Len(s \o t) : (s \o t)[i] = u[i]
  BY <1>1, <1>2, <1>4
<1>6. s \o t = u
  BY <1>1, <1>3, <1>4, <1>5, SeqEqual
<1> QED BY <1>6

(* load_aligner selects the bytes at the address, of an LHU those of the   *)
(* halfword it is in, and extends them.                                    *)
LEMMA Selects ==
  ASSUME inst \in Loads, ~Malign, NEW m \in [Addr -> Byte],
         rdata = [i \in 1..4 |-> m[Line + i - 1]]
  PROVE  Loaded = Load(m, Reached)
<1>1. /\ inst.kind = "load" /\ inst.addr \in Addr /\ Active /\ inst.addr \in Int
      /\ inst.op \in {"b", "h", "w", "bu", "hu"}
  BY DEF Loads, Active, Addr
<1> DEFINE a == Reached.addr
<1>2. /\ Lane \in 0..3 /\ Line \in Int /\ inst.addr = Line + Lane
      /\ inst.op = "h" => Lane \in {0, 2}
      /\ inst.op = "w" => Lane = 0
      /\ \A i \in 1..4 : Line + i - 1 \in Addr
      /\ Lane % 2 = inst.addr % 2
  BY <1>1, Lanes DEF Lane, Line, Malign
<1>3. /\ \A b : Sign(b) = IF b >= 128 THEN 255 ELSE 0
      /\ Reached.op = inst.op
      /\ inst.op # "hu" => a = inst.addr
      /\ inst.op = "hu" => a = inst.addr - (inst.addr % 2)
  BY <1>1 DEF Sign, Reached, Loads
<1>4. CASE inst.op \in {"b", "bu"}
  <2>1. rdata[Lane + 1] = m[a]
    BY <1>2, <1>3, <1>4
  <2> DEFINE fill == IF inst.op = "bu" THEN 0 ELSE Sign(m[a])
  <2>2. Loaded = <<m[a]>> \o [i \in 1..3 |-> fill]
    BY <1>4, <2>1 DEF Loaded, Extend
  <2>3. <<m[a]>> \o [i \in 1..3 |-> fill] = [i \in 1..4 |-> IF i <= 1 THEN m[a] ELSE fill]
    <3>1. m[a] \in Byte /\ fill \in Byte
      BY <1>1, <1>3, <1>4 DEF Byte
    <3>2. <<m[a]>> \in Seq(Byte) /\ Len(<<m[a]>>) = 1
      BY <3>1
    <3>3. <<m[a]>> \o [i \in 1..3 |-> fill] = [i \in 1..(1 + 3) |-> IF i <= 1 THEN <<m[a]>>[i] ELSE fill]
      BY <3>1, <3>2, Pads
    <3> QED BY <3>3
  <2>4. Load(m, Reached) = [j \in 1..4 |-> IF j <= 1 THEN m[a + j - 1]
                                           ELSE IF inst.op = "b" /\ m[a] >= 128 THEN 255 ELSE 0]
    <3>1. Width(Reached.op) = 1 /\ a + 1 - 1 = a
      BY <1>1, <1>3, <1>4 DEF Width
    <3> QED BY <1>3, <1>4, <3>1 DEF Load
  <2>5. Load(m, Reached) = [i \in 1..4 |-> IF i <= 1 THEN m[a] ELSE fill]
    BY <1>1, <1>3, <1>4, <2>4
  <2> QED BY <2>2, <2>3, <2>5
<1>5. CASE inst.op \in {"h", "hu"}
  <2>0. /\ a \in Int
        /\ Lane < 2 => a = Line
        /\ ~(Lane < 2) => a = Line + 2
    <3>1. CASE inst.op = "h"
      BY <1>2, <1>3, <3>1
    <3>2. CASE inst.op = "hu"
      <4>1. a = Line + Lane - (Lane % 2)
        BY <1>2, <1>3, <3>2
      <4>2. Lane = 0 \/ Lane = 1 \/ Lane = 2 \/ Lane = 3
        BY <1>2
      <4> QED BY <1>2, <4>1, <4>2
    <3> QED BY <1>5, <3>1, <3>2
  <2>1. /\ m[a] = rdata[IF Lane < 2 THEN 1 ELSE 3]
        /\ m[a + 1] = rdata[IF Lane < 2 THEN 2 ELSE 4]
    <3>1. /\ rdata[1] = m[Line] /\ rdata[2] = m[Line + 1]
          /\ rdata[3] = m[Line + 2] /\ rdata[4] = m[Line + 3]
      BY <1>2
    <3> QED BY <1>2, <2>0, <3>1
  <2> DEFINE fill == IF inst.op = "hu" THEN 0 ELSE Sign(m[a + 1])
  <2>2. Loaded = <<m[a], m[a + 1]>> \o [i \in 1..2 |-> fill]
    BY <1>2, <1>5, <2>1 DEF Loaded, Extend
  <2>3. <<m[a], m[a + 1]>> \o [i \in 1..2 |-> fill]
          = [i \in 1..4 |-> IF i = 1 THEN m[a] ELSE IF i = 2 THEN m[a + 1] ELSE fill]
    <3> DEFINE s == <<m[a], m[a + 1]>>
    <3>1. m[a] \in Byte /\ m[a + 1] \in Byte /\ fill \in Byte
      <4>1. /\ Line + 1 - 1 \in Addr /\ Line + 2 - 1 \in Addr
            /\ Line + 3 - 1 \in Addr /\ Line + 4 - 1 \in Addr
        BY <1>2
      <4>2. a \in Addr /\ a + 1 \in Addr
        BY <1>2, <2>0, <4>1
      <4> QED BY <1>3, <4>2 DEF Byte
    <3>2. s \in Seq(Byte) /\ Len(s) = 2
      BY <3>1
    <3>3. s \o [i \in 1..2 |-> fill] = [i \in 1..(2 + 2) |-> IF i <= 2 THEN s[i] ELSE fill]
      BY <3>1, <3>2, Pads
    <3> QED BY <3>3
  <2>4. Load(m, Reached) = [j \in 1..4 |-> IF j <= 2 THEN m[a + j - 1]
                                           ELSE IF inst.op = "h" /\ m[a + 1] >= 128 THEN 255 ELSE 0]
    <3>1. Width(Reached.op) = 2 /\ a + 2 - 1 = a + 1
      BY <1>3, <1>5, <2>0 DEF Width
    <3> QED BY <1>3, <1>5, <3>1 DEF Load
  <2>5. Load(m, Reached) = [i \in 1..4 |-> IF i = 1 THEN m[a] ELSE IF i = 2 THEN m[a + 1] ELSE fill]
    BY <1>3, <1>5, <2>0, <2>4
  <2> QED BY <2>2, <2>3, <2>5
<1>6. CASE inst.op = "w"
  <2>1. Loaded = rdata /\ a = inst.addr
    BY <1>3, <1>6 DEF Loaded
  <2>2. Load(m, Reached) = [j \in 1..4 |-> IF j <= 4 THEN m[a + j - 1] ELSE 0]
    BY <1>3, <1>6 DEF Load, Width
  <2>3. Load(m, Reached) = [j \in 1..4 |-> m[a + j - 1]]
    BY <2>2
  <2> QED BY <1>2, <1>6, <2>1, <2>3
<1> QED BY <1>1, <1>4, <1>5, <1>6

(***************************************************************************)
(* The invariant: memory holds what retired, and the store in MEM from its *)
(* second cycle on; the word a load asked for is there when its            *)
(* acknowledge is.                                                         *)
(***************************************************************************)
Phases ==
  /\ inst.kind # "store" => mem = arch
  /\ inst.kind = "store" => ~Trap /\ mem = IF ack THEN Store(arch, inst) ELSE arch
  /\ inst.kind = "load" /\ ack => rdata = [i \in 1..4 |-> mem[Line + i - 1]]

LsuInv == TypeOK /\ Phases

LEMMA Initial == Init => LsuInv
<1> SUFFICES ASSUME Init PROVE LsuInv
  OBVIOUS
<1>1. mem \in [Addr -> Byte] /\ rdata \in Word
  BY DEF Init, Byte, Word, Zero
<1> QED BY <1>1 DEF Init, LsuInv, TypeOK, Phases, Bubble

(* The memory's next word and read register have their types.              *)
LEMMA DmemType ==
  ASSUME LsuInv, Dmem
  PROVE  /\ mem' \in [Addr -> Byte] /\ rdata' \in Word /\ ack' \in BOOLEAN
         /\ inst.kind = "store" => mem' = Store(mem, inst)
         /\ inst.kind # "store" => mem' = mem
         /\ ack' = (Active /\ ~ack)
<1>1. TypeOK /\ inst.addr \in Addr
  BY Kinds DEF LsuInv, TypeOK
<1>2. CASE inst.kind = "store"
  <2>1. inst \in Stores /\ ~Malign
    BY <1>1, <1>2, Kinds DEF LsuInv, TypeOK, Phases, Trap, Active
  <2>2. mem' = Store(mem, inst) /\ mem' \in [Addr -> Byte]
    BY <1>1, <1>2, <2>1, Writes DEF Dmem, TypeOK
  <2> QED BY <1>1, <1>2, <2>2 DEF Dmem, TypeOK
<1>3. CASE inst.kind # "store"
  <2>1. \A i \in 1..4 : Line + i - 1 \in Addr
    BY <1>1, Lanes DEF Line, Lane
  <2>2. [i \in 1..4 |-> mem[Line + i - 1]] \in Word
    BY <1>1, <2>1 DEF TypeOK, Word
  <2> QED BY <1>1, <1>3, <2>2 DEF Dmem, TypeOK
<1> QED BY <1>2, <1>3

LEMMA StepKept ==
  ASSUME ~StoreTraps, LsuInv, Next
  PROVE  LsuInv'
<1>1. PICK next \in Arrivals : Pipe(next)
  BY DEF Next
<1>2. Dmem /\ NextInputs
  BY DEF Next
<1>3. TypeOK /\ inst.kind \in {"none", "load", "store"} /\ (Active <=> inst.kind # "none")
  BY Kinds DEF LsuInv, TypeOK, Active
<1>4. /\ mem' \in [Addr -> Byte] /\ rdata' \in Word /\ ack' \in BOOLEAN
      /\ inst.kind = "store" => mem' = Store(mem, inst)
      /\ inst.kind # "store" => mem' = mem
      /\ ack' = (Active /\ ~ack)
  BY <1>2, DmemType DEF LsuInv
<1>5. inst' \in {Bubble} \union Accesses /\ irq' \in BOOLEAN
  BY <1>1, <1>2, <1>3, AccessAssumption DEF Pipe, Arrivals, TypeOK, NextInputs
<1>6. inst'.kind = "store" => ~Trap'
  BY <1>2 DEF NextInputs
<1>7. CASE inst.kind = "none"
  <2>1. ~Stall /\ ~Retires /\ ~ack' /\ mem = arch
    BY <1>3, <1>4, <1>7 DEF Stall, Retires, LsuInv, Phases
  <2>2. arch' = arch
    BY <1>1, <2>1 DEF Pipe
  <2> QED BY <1>3, <1>4, <1>5, <1>6, <1>7, <2>1, <2>2 DEF LsuInv, TypeOK, Phases
<1>8. CASE inst.kind = "load"
  <2>1. arch' = arch /\ mem' = mem /\ mem = arch
    BY <1>1, <1>4, <1>8 DEF Pipe, LsuInv, Phases
  <2>2. CASE Trap
    <3>1. inst' = Bubble
      BY <1>1, <2>2 DEF Pipe
    <3> QED BY <1>3, <1>4, <1>5, <2>1, <3>1 DEF LsuInv, TypeOK, Phases, Bubble
  <2>3. CASE ~Trap /\ ~ack
    <3>1. inst' = inst /\ rdata' = [i \in 1..4 |-> mem[Line + i - 1]]
      BY <1>1, <1>2, <1>3, <1>8, <2>3 DEF Pipe, Stall, Dmem
    <3>2. Line' = Line
      BY <3>1 DEF Line, Lane
    <3> QED BY <1>3, <1>4, <1>5, <1>8, <2>1, <3>1, <3>2 DEF LsuInv, TypeOK, Phases
  <2>4. CASE ~Trap /\ ack
    <3>1. ~ack'
      BY <1>4, <2>4
    <3> QED BY <1>3, <1>4, <1>5, <1>6, <2>1, <3>1 DEF LsuInv, TypeOK, Phases
  <2> QED BY <2>2, <2>3, <2>4
<1>9. CASE inst.kind = "store"
  <2>1. ~Trap /\ inst \in Stores /\ ~Malign
    BY <1>3, <1>9, Kinds DEF LsuInv, TypeOK, Phases, Trap
  <2>2. Store(arch, inst) \in [Addr -> Byte] /\ Store(Store(arch, inst), inst) = Store(arch, inst)
    BY <1>3, <2>1, Writes DEF TypeOK
  <2>3. CASE ~ack
    <3>1. inst' = inst /\ arch' = arch /\ ack' /\ mem' = Store(arch, inst)
      BY <1>1, <1>3, <1>4, <1>9, <2>1, <2>3 DEF Pipe, Stall, Retires, LsuInv, Phases
    <3>2. Store(arch, inst)' = Store(arch', inst')
      BY DEF Store, Width
    <3>3. mem' = Store(arch', inst')
      BY <3>1
    <3> QED BY <1>3, <1>4, <1>5, <1>6, <1>9, <3>1, <3>2, <3>3 DEF LsuInv, TypeOK, Phases
  <2>4. CASE ack
    <3>1. arch' = Store(arch, inst) /\ ~ack' /\ mem' = Store(arch, inst)
      BY <1>1, <1>3, <1>4, <1>9, <2>1, <2>2, <2>4 DEF Pipe, Stall, Retires, LsuInv, Phases
    <3> QED BY <1>3, <1>4, <1>5, <1>6, <2>2, <3>1 DEF LsuInv, TypeOK, Phases
  <2> QED BY <2>3, <2>4
<1> QED BY <1>3, <1>7, <1>8, <1>9

LEMMA Stutters ==
  ASSUME LsuInv, UNCHANGED vars
  PROVE  LsuInv'
BY DEF vars, LsuInv, TypeOK, Phases, Trap, Active, Malign, Lane, Line, Store, Width

(* The invariant holds for any memory and any loads and stores, with       *)
(* interrupts and misaligned loads at any time, if no trap is a store's.   *)
THEOREM Invariance == ~StoreTraps => (Spec => []LsuInv)
<1> SUFFICES ASSUME ~StoreTraps PROVE Spec => []LsuInv
  OBVIOUS
<1>1. Init => LsuInv
  BY Initial
<1>2. LsuInv /\ [Next]_vars => LsuInv'
  BY StepKept, Stutters
<1> QED BY <1>1, <1>2, PTL DEF Spec

(* lsu.sv, dmem.sv: memory holds the stores that retired.                  *)
THEOREM MemoryKept == ~StoreTraps => (Spec => []MemoryRight)
<1>1. LsuInv => MemoryRight
  BY DEF LsuInv, Phases, MemoryRight
<1> QED BY <1>1, Invariance, PTL

(* alignment_units.sv, mem_controller.sv: a load has what they left.       *)
THEOREM LoadsLatest == ~StoreTraps => (Spec => []LoadRight)
<1>1. LsuInv => LoadRight
  <2> SUFFICES ASSUME LsuInv, Retires, inst.kind = "load" PROVE Loaded = Load(arch, Reached)
    BY DEF LoadRight
  <2>1. inst \in Loads /\ ack /\ ~Malign /\ arch \in [Addr -> Byte]
    BY Kinds DEF LsuInv, TypeOK, Retires, Stall, Trap
  <2>2. rdata = [i \in 1..4 |-> arch[Line + i - 1]]
    BY <2>1 DEF LsuInv, Phases
  <2> QED BY <2>1, <2>2, Selects
<1> QED BY <1>1, Invariance, PTL

(* dmem.sv, ack: a stalled access is stalled for that cycle only.          *)
THEOREM Acknowledged == Spec => AckedNext
<1>1. [Next]_vars => [Active /\ ~Trap /\ Stall => ~Stall']_vars
  <2> SUFFICES ASSUME Next, Active, Stall PROVE ~Stall'
    OBVIOUS
  <2>1. ack'
    BY DEF Next, Dmem, Stall
  <2> QED BY <2>1 DEF Stall
<1> QED BY <1>1, PTL DEF Spec, AckedNext
=============================================================================
