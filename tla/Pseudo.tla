--------------------------------- MODULE Pseudo ---------------------------------
(***************************************************************************)
(* lib.py, convert_pseudo_instr: the pseudo instructions of a disassembly  *)
(* written as regular ones, for the CSV that coverage reads; and what      *)
(* either of them does to a hart, to compare the two.                      *)
(***************************************************************************)
EXTENDS Integers, Sequences

(* An operand: a register by its name, or a number.                        *)
Reg(r) == [t |-> "reg", r |-> r, v |-> 0]
Imm(v) == [t |-> "imm", r |-> "", v |-> v]
Zero   == Reg("zero")
-----------------------------------------------------------------------------
(* Those that get one more operand, the last.                              *)
Appended == {
  <<"mv", "addi", Imm(0)>>, <<"not", "xori", Imm(-1)>>, <<"sext.w", "addiw", Imm(0)>>,
  <<"seqz", "sltiu", Imm(1)>>, <<"sltz", "slt", Zero>>, <<"csrr", "csrrw", Zero>>}

(* ..., bit manipulation: reversals, ...                                   *)
Reversals == {
  <<"rev.p", 1>>, <<"rev2.n", 2>>, <<"rev.n", 3>>, <<"rev4.b", 4>>, <<"rev2.b", 6>>,
  <<"rev.b", 7>>, <<"rev8.h", 8>>, <<"rev4.h", 12>>, <<"rev2.h", 14>>, <<"rev.h", 15>>,
  <<"rev16", 16>>, <<"rev8", 24>>, <<"rev4", 28>>, <<"rev2", 30>>, <<"rev", 31>>}

(* ..., or-combines, ...                                                   *)
Combines == {
  <<"orc.p", 1>>, <<"orc2.n", 2>>, <<"orc.n", 3>>, <<"orc4.b", 4>>, <<"orc2.b", 6>>,
  <<"orc.b", 7>>, <<"orc8.h", 8>>, <<"orc4.h", 12>>, <<"orc2.h", 14>>, <<"orc.h", 15>>,
  <<"orc16", 16>>, <<"orc8", 24>>, <<"orc4", 28>>, <<"orc2", 30>>, <<"orc", 31>>}

(* ..., zero extensions, ...                                               *)
Extensions == {
  <<"zext.b", "andi", Imm(255)>>, <<"zext.h", "pack", Zero>>, <<"zext.w", "pack", Zero>>}

(* ..., and shuffles.                                                      *)
Shuffles_Bug == {<<"zip.n", "unzip.n", 1>>, <<"zip2.b", "unzip2.b", 2>>, <<"zip.b", "unzip.b", 3>>,
  <<"zip4.h", "unzip4.h", 4>>, <<"zip2.h", "unzip2.h", 6>>, <<"zip.h", "unzip.h", 7>>,
  <<"zip8", "unzip8", 8>>, <<"zip4", "unzip4", 14>>, <<"zip2", "unzip2", 14>>,
  <<"zip", "unzip", 15>>}                              \* zip4 shuffled like zip2
Shuffles == {
  <<"zip.n", "unzip.n", 1>>, <<"zip2.b", "unzip2.b", 2>>, <<"zip.b", "unzip.b", 3>>,
  <<"zip4.h", "unzip4.h", 4>>, <<"zip2.h", "unzip2.h", 6>>, <<"zip.h", "unzip.h", 7>>,
  <<"zip8", "unzip8", 8>>, <<"zip4", "unzip4", 12>>, <<"zip2", "unzip2", 14>>,
  <<"zip", "unzip", 15>>}

Bitmanip ==
       {<<t[1], "grevi", Imm(t[2])>> : t \in Reversals}
  \cup {<<t[1], "gorci", Imm(t[2])>> : t \in Combines}
  \cup {<<t[1], "shfli", Imm(t[3])>> : t \in Shuffles}
  \cup {<<t[2], "unshfli", Imm(t[3])>> : t \in Shuffles}
  \cup Extensions

(* Those that get zero as their second operand; as their first; and those  *)
(* with the first two swapped.                                             *)
ZeroSecond == {
  <<"neg", "sub">>, <<"negw", "subw">>, <<"snez", "sltu">>, <<"sgtz", "slt">>,
  <<"beqz", "beq">>, <<"bnez", "bne">>, <<"bgez", "bge">>, <<"bltz", "blt">>}
ZeroFirst == {
  <<"blez", "bge">>, <<"bgtz", "blt">>, <<"csrw", "csrrw">>, <<"csrs", "csrrs">>,
  <<"csrc", "csrrc">>, <<"csrwi", "csrrwi">>, <<"csrsi", "csrrsi">>, <<"csrci", "csrrci">>,
  <<"j", "jal">>}
Swapped == {<<"bgt", "blt">>, <<"ble", "bge">>, <<"bgtu", "bltu">>, <<"bleu", "bgeu">>}

Row(table, op) == CHOOSE t \in table : t[1] = op
In(table, op)  == \E t \in table : t[1] = op
Instr(op, args) == [op |-> op, args |-> args]

(* The rest, jumps.  ret is compressed when its code ends in the digit 2.  *)
ConvertJump(op, a, digit) ==
  CASE op = "jr" -> Instr("jalr", <<Zero, a[1], Imm(0)>>)
    [] op = "jal" /\ Len(a) = 1 -> Instr("jal", <<Reg("ra")>> \o a)
    [] op = "jalr" /\ Len(a) = 1 -> Instr("jalr", <<Reg("ra"), a[1], Imm(0)>>)
    [] op = "ret" /\ digit = 2 -> Instr("c.jr", <<Reg("ra")>>)
    [] op = "ret" /\ digit # 2 -> Instr("jalr", <<Zero, Reg("ra"), Imm(0)>>)
    [] OTHER -> Instr(op, a)

Convert(op, a, digit) ==
  LET named(table) == Row(table, op)[2]
  IN CASE op = "nop" -> Instr("addi", <<Zero, Zero, Imm(0)>>)
       [] In(Appended \cup Bitmanip, op) ->
            LET t == Row(Appended \cup Bitmanip, op) IN Instr(t[2], Append(a, t[3]))
       [] In(ZeroSecond, op) -> Instr(named(ZeroSecond), <<a[1], Zero>> \o Tail(a))
       [] In(ZeroFirst, op)  -> Instr(named(ZeroFirst), <<Zero>> \o a)
       [] In(Swapped, op)    -> Instr(named(Swapped), <<a[2], a[1]>> \o SubSeq(a, 3, Len(a)))
       [] OTHER -> ConvertJump(op, a, digit)
=============================================================================
