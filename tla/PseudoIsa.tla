------------------------------- MODULE PseudoIsa -------------------------------
(***************************************************************************)
(* What regular and pseudo instructions mean to the ISA, each one by its   *)
(* own definition: the reference for lib.py's conversion.  Arithmetic is   *)
(* on integers of W bits; logic and the CSR on words as sets of the bits   *)
(* that are one, of 32 or, for zext.w, 64.                                 *)
(***************************************************************************)
EXTENDS Pseudo, SequencesExt

CONSTANT W                                       (* bits of an integer       *)
ASSUME PseudoIsaAssumption == W \in {2, 4, 6, 8}

Wrap(v) == ((v + 2^(W - 1)) % 2^W) - 2^(W - 1)
Uns(v)  == v % 2^W
Half(v) == LET h == 2^(W \div 2) IN ((v + h \div 2) % h) - (h \div 2)
Bool(p) == IF p THEN 1 ELSE 0
Bits(v) == {i \in 0..31 : IF i < 12 THEN (v \div 2^i) % 2 = 1 ELSE v < 0}

(* An effect: a register written, the CSR afterwards, and a jump, by an    *)
(* offset or to a register and an offset.                                  *)
Nothing(e)    == [rd |-> "none", val |-> e.zero, csr |-> e.csr, to |-> << >>]
Write(e, r, v) == IF r = "zero" THEN Nothing(e) ELSE [Nothing(e) EXCEPT !.rd = r, !.val = v]
By(off)       == <<Imm(Uns(off.v))>>
Branch(e, p, off) == [Nothing(e) EXCEPT !.to = IF p THEN By(off) ELSE << >>]
Link          == 4
-----------------------------------------------------------------------------
(* What the regular bit manipulations make of the bits' places, which are  *)
(* five bits: grevi flips the bits of a place that are one in its operand, *)
(* gorci lets them go, and a stage of shfli exchanges two neighbours.      *)
Bit(i, b) == (i \div 2^b) % 2
Xor(i, k) ==
  LET bit(b) == ((i \div 2^b) + (k \div 2^b)) % 2
  IN bit(0) + 2 * bit(1) + 4 * bit(2) + 8 * bit(3) + 16 * bit(4)
Flip(x, k) == {Xor(i, k) : i \in x}
Combine(x, k) ==
  {i \in 0..31 : \E j \in x : \A b \in 0..4 : Bit(k, b) = 0 => Bit(i, b) = Bit(j, b)}
Stage(i, k, m) == IF Bit(k, m) = 1 THEN i + (Bit(i, m) - Bit(i, m + 1)) * 2^m ELSE i
Shuffled(i, k)   == Stage(Stage(Stage(Stage(i, k, 3), k, 2), k, 1), k, 0)
Unshuffled(i, k) == Stage(Stage(Stage(Stage(i, k, 0), k, 1), k, 2), k, 3)
Shuffle(x, k)   == {Shuffled(i, k) : i \in x}
Unshuffle(x, k) == {Unshuffled(i, k) : i \in x}
Pack(x, y, half) == {i \in x : i < half} \cup {i + half : i \in {j \in y : j < half}}

RegularInt(i, e) ==
  LET a == i.args
      V(k) == IF a[k].t = "imm" THEN a[k].v ELSE e[a[k].r]
  IN CASE i.op = "addi"  -> Write(e, a[1].r, Wrap(V(2) + V(3)))
       [] i.op = "addiw" -> Write(e, a[1].r, Half(V(2) + V(3)))
       [] i.op = "sub"   -> Write(e, a[1].r, Wrap(V(2) - V(3)))
       [] i.op = "subw"  -> Write(e, a[1].r, Half(V(2) - V(3)))
       [] i.op = "slt"   -> Write(e, a[1].r, Bool(V(2) < V(3)))
       [] i.op \in {"sltu", "sltiu"} -> Write(e, a[1].r, Bool(Uns(V(2)) < Uns(V(3))))
       [] i.op = "beq"  -> Branch(e, V(1) = V(2), Last(a))
       [] i.op = "bne"  -> Branch(e, V(1) # V(2), Last(a))
       [] i.op = "blt"  -> Branch(e, V(1) < V(2), Last(a))
       [] i.op = "bge"  -> Branch(e, V(1) >= V(2), Last(a))
       [] i.op = "bltu" -> Branch(e, Uns(V(1)) < Uns(V(2)), Last(a))
       [] i.op = "bgeu" -> Branch(e, Uns(V(1)) >= Uns(V(2)), Last(a))
       [] i.op = "jal"  -> [Write(e, a[1].r, Link) EXCEPT !.to = By(a[2])]
       [] i.op = "jalr" -> [Write(e, a[1].r, Link) EXCEPT !.to = Tail(a)]
       [] i.op = "c.jr" -> [Nothing(e) EXCEPT !.to = <<a[1], Imm(0)>>]

CsrOps == {"csrrw", "csrrs", "csrrc", "csrrwi", "csrrsi", "csrrci"}
RegularBits(i, e) ==
  LET a == i.args
      V(k) == IF a[k].t = "imm" THEN Bits(a[k].v) ELSE e[a[k].r]
      to(c) == [Write(e, a[1].r, e.csr) EXCEPT !.csr = c]
  IN CASE i.op = "xori"  -> Write(e, a[1].r, (V(2) \ V(3)) \cup (V(3) \ V(2)))
       [] i.op = "andi"  -> Write(e, a[1].r, V(2) \cap V(3))
       [] i.op = "pack"  -> Write(e, a[1].r, Pack(V(2), V(3), e.xlen \div 2))
       [] i.op = "grevi" -> Write(e, a[1].r, Flip(V(2), a[3].v))
       [] i.op = "gorci" -> Write(e, a[1].r, Combine(V(2), a[3].v))
       [] i.op = "shfli" -> Write(e, a[1].r, Shuffle(V(2), a[3].v))
       [] i.op = "unshfli" -> Write(e, a[1].r, Unshuffle(V(2), a[3].v))
       [] i.op \in {"csrrw", "csrrwi"} -> to(V(3))
       [] i.op \in {"csrrs", "csrrsi"} -> to(e.csr \cup V(3))
       [] i.op \in {"csrrc", "csrrci"} -> to(e.csr \ V(3))

BitOps == {"xori", "andi", "pack", "grevi", "gorci", "shfli", "unshfli"} \cup CsrOps
Regular(i, e) == IF i.op \in BitOps THEN RegularBits(i, e) ELSE RegularInt(i, e)
-----------------------------------------------------------------------------
(* The pseudo instructions by their own meaning.  Reversals, or-combines   *)
(* and zips work on units of u bits in groups of g; their names say which. *)
UnitNames == {
  <<"rev.p", "orc.p", 1, 2>>, <<"rev2.n", "orc2.n", 2, 4>>, <<"rev.n", "orc.n", 1, 4>>,
  <<"rev4.b", "orc4.b", 4, 8>>, <<"rev2.b", "orc2.b", 2, 8>>, <<"rev.b", "orc.b", 1, 8>>,
  <<"rev8.h", "orc8.h", 8, 16>>, <<"rev4.h", "orc4.h", 4, 16>>, <<"rev2.h", "orc2.h", 2, 16>>,
  <<"rev.h", "orc.h", 1, 16>>, <<"rev16", "orc16", 16, 32>>, <<"rev8", "orc8", 8, 32>>,
  <<"rev4", "orc4", 4, 32>>, <<"rev2", "orc2", 2, 32>>, <<"rev", "orc", 1, 32>>}
ZipNames == {
  <<"zip.n", "unzip.n", 1, 4>>, <<"zip2.b", "unzip2.b", 2, 8>>, <<"zip.b", "unzip.b", 1, 8>>,
  <<"zip4.h", "unzip4.h", 4, 16>>, <<"zip2.h", "unzip2.h", 2, 16>>, <<"zip.h", "unzip.h", 1, 16>>,
  <<"zip8", "unzip8", 8, 32>>, <<"zip4", "unzip4", 4, 32>>, <<"zip2", "unzip2", 2, 32>>,
  <<"zip", "unzip", 1, 32>>}

MovedTo(i, u, g, unit(_, _)) == (i - (i % g)) + (unit((i % g) \div u, g \div u) * u) + (i % u)
Backwards(q, n) == n - 1 - q
Interleaved(q, n) == IF q < n \div 2 THEN 2 * q ELSE 2 * (q - (n \div 2)) + 1

UnitPseudo(op, x) ==
  LET r == CHOOSE t \in UnitNames \cup ZipNames : op \in {t[1], t[2]}
      u == r[3]
      g == r[4]
  IN CASE r \in UnitNames /\ op = r[1] -> {MovedTo(i, u, g, Backwards) : i \in x}
       [] r \in UnitNames /\ op = r[2] -> {i \in 0..31 : \E j \in x : i \div g = j \div g /\ i % u = j % u}
       [] r \in ZipNames /\ op = r[1] -> {MovedTo(i, u, g, Interleaved) : i \in x}
       [] r \in ZipNames /\ op = r[2] -> {i \in 0..31 : MovedTo(i, u, g, Interleaved) \in x}

Units == UNION {{t[1], t[2]} : t \in UnitNames \cup ZipNames}
BitPseudos == Units \cup {"not", "zext.b", "zext.h", "zext.w", "csrr", "csrw", "csrs", "csrc",
                          "csrwi", "csrsi", "csrci"}
MeaningBits(op, e) ==
  CASE op \in Units  -> Write(e, "rd", UnitPseudo(op, e.rs))
    [] op = "not"    -> Write(e, "rd", (0..31) \ e.rs)
    [] op = "zext.b" -> Write(e, "rd", {i \in e.rs : i < 8})
    [] op = "zext.h" -> Write(e, "rd", {i \in e.rs : i < 16})
    [] op = "zext.w" -> Write(e, "rd", {i \in e.rs : i < 32})
    [] op = "csrr"   -> Write(e, "rd", e.csr)
    [] op = "csrw"   -> [Nothing(e) EXCEPT !.csr = e.rs]
    [] op = "csrs"   -> [Nothing(e) EXCEPT !.csr = @ \cup e.rs]
    [] op = "csrc"   -> [Nothing(e) EXCEPT !.csr = @ \ e.rs]
    [] op = "csrwi"  -> [Nothing(e) EXCEPT !.csr = {0, 2}]
    [] op = "csrsi"  -> [Nothing(e) EXCEPT !.csr = @ \cup {0, 2}]
    [] op = "csrci"  -> [Nothing(e) EXCEPT !.csr = @ \ {0, 2}]

At(r) == <<Reg(r), Imm(0)>>
MeaningInt(op, e) ==
  CASE op = "nop"    -> Nothing(e)
    [] op = "mv"     -> Write(e, "rd", e.rs)
    [] op = "neg"    -> Write(e, "rd", Wrap(-e.rs))
    [] op = "negw"   -> Write(e, "rd", Half(-e.rs))
    [] op = "sext.w" -> Write(e, "rd", Half(e.rs))
    [] op = "seqz"   -> Write(e, "rd", Bool(e.rs = 0))
    [] op = "snez"   -> Write(e, "rd", Bool(e.rs # 0))
    [] op = "sltz"   -> Write(e, "rd", Bool(e.rs < 0))
    [] op = "sgtz"   -> Write(e, "rd", Bool(e.rs > 0))
    [] op = "beqz"   -> Branch(e, e.rs = 0, Imm(e.off))
    [] op = "bnez"   -> Branch(e, e.rs # 0, Imm(e.off))
    [] op = "bgez"   -> Branch(e, e.rs >= 0, Imm(e.off))
    [] op = "bltz"   -> Branch(e, e.rs < 0, Imm(e.off))
    [] op = "blez"   -> Branch(e, e.rs <= 0, Imm(e.off))
    [] op = "bgtz"   -> Branch(e, e.rs > 0, Imm(e.off))
    [] op = "bgt"    -> Branch(e, e.rs > e.rt, Imm(e.off))
    [] op = "ble"    -> Branch(e, e.rs <= e.rt, Imm(e.off))
    [] op = "bgtu"   -> Branch(e, Uns(e.rs) > Uns(e.rt), Imm(e.off))
    [] op = "bleu"   -> Branch(e, Uns(e.rs) <= Uns(e.rt), Imm(e.off))
    [] op = "jr"     -> [Nothing(e) EXCEPT !.to = At("rs")]
    [] op = "j"      -> [Nothing(e) EXCEPT !.to = By(Imm(e.off))]
    [] op = "jal"    -> [Write(e, "ra", Link) EXCEPT !.to = By(Imm(e.off))]
    [] op = "jalr"   -> [Write(e, "ra", Link) EXCEPT !.to = At("rs")]
    [] op = "ret"    -> [Nothing(e) EXCEPT !.to = At("ra")]

Meaning(op, e) == IF op \in BitPseudos THEN MeaningBits(op, e) ELSE MeaningInt(op, e)
-----------------------------------------------------------------------------
(* Their operands, as they are disassembled.                               *)
TwoBranches == {"bgt", "ble", "bgtu", "bleu"}
Moves    == Units \cup {"mv", "not", "neg", "negw", "sext.w", "seqz", "snez", "sltz", "sgtz",
                        "zext.b", "zext.h", "zext.w"}
Branches == {"beqz", "bnez", "bgez", "bltz", "blez", "bgtz"}
Pseudos  == Moves \cup Branches \cup TwoBranches \cup
            {"nop", "csrr", "csrw", "csrs", "csrc", "csrwi", "csrsi", "csrci", "jr", "j", "jal",
             "jalr", "ret"}
Operands(op, by) ==
  LET rd == Reg("rd") rs == Reg("rs") off == Imm(by)
  IN CASE op \in Moves       -> <<rd, rs>>
       [] op \in Branches    -> <<rs, off>>
       [] op \in TwoBranches -> <<rs, Reg("rt"), off>>
       [] op = "csrr"        -> <<rd, Reg("csr")>>
       [] op \in {"csrw", "csrs", "csrc"}    -> <<Reg("csr"), rs>>
       [] op \in {"csrwi", "csrsi", "csrci"} -> <<Reg("csr"), Imm(5)>>
       [] op \in {"jr", "jalr"} -> <<rs>>
       [] op \in {"j", "jal"}   -> <<off>>
       [] op \in {"nop", "ret"} -> << >>
=============================================================================
