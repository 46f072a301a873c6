------------------------------- MODULE Multiplier -------------------------------
(***************************************************************************)
(* mul_unit: four partial products of half words added up in EX, one       *)
(* register to MEM, and there the choice of a half.  FMUL uses the same    *)
(* unit for its mantissas, as a MULHU.  One Cycle is one clock cycle.  A   *)
(* word is a number below M, the square of Half, which is even.            *)
(***************************************************************************)
EXTENDS Integers

CONSTANTS Half, Operands, None

M      == Half * Half
Functs == {"mul", "mulh", "mulhsu", "mulhu"}
Op     == [funct3 : Functs, rs1 : Operands, rs2 : Operands]

VARIABLES
  funct3, product,     (* funct3_ff, final_product_ff                         *)
  inmem                (* history: the multiplication EX/MEM holds            *)

vars == <<funct3, product, inmem>>
-----------------------------------------------------------------------------
(* The halves, the upper one extended by its sign where it has one.        *)
Lo(x) == x % Half
Hi_Bug(x, signed) == x \div Half                      \* MULH is MULHU
Hi(x, signed) == IF signed /\ 2 * x >= M THEN (x \div Half) - Half ELSE x \div Half
Signed1(f) == f \in {"mul", "mulh", "mulhsu"}
Signed2(f) == f \in {"mul", "mulh"}

(* The partial products fit their wires: they are two bits longer than a   *)
(* word, and p0 is never negative.                                         *)
Product_Bug(o) ==                                     \* a partial product is cut to a word
  LET a == Hi(o.rs1, Signed1(o.funct3))  b == Hi(o.rs2, Signed2(o.funct3))
      p0 == Lo(o.rs1) * Lo(o.rs2)  p3 == a * b
      cross == (Lo(o.rs1) * b + a * Lo(o.rs2)) % M
  IN (cross * Half + (p3 % M) * M + p0) % (M * M)
Product(o) ==
  LET a == Hi(o.rs1, Signed1(o.funct3))  b == Hi(o.rs2, Signed2(o.funct3))
      p0 == Lo(o.rs1) * Lo(o.rs2)  p3 == a * b
      cross == Lo(o.rs1) * b + a * Lo(o.rs2)
  IN (cross * Half + (p3 % M) * M + p0) % (M * M)

Result == IF funct3 = "mul" THEN product % M ELSE product \div M
-----------------------------------------------------------------------------
Init == funct3 = "mul" /\ product = 0 /\ inmem = None

(* Whatever is in EX goes through the unit; a clear does not reach it.     *)
(* mul is the multiplication in EX, or None.                               *)
Latch(o) == funct3' = o.funct3 /\ product' = Product(o)

Cycle(o, mul, clr) == Latch(o) /\ inmem' = IF clr THEN None ELSE mul

(* A stalled cycle.                                                        *)
Hold(clr) == UNCHANGED <<funct3, product>> /\ inmem' = IF clr THEN None ELSE inmem
-----------------------------------------------------------------------------
(* The mathematical product of the words, signed as RISC-V says.           *)
Value(x, signed) == IF signed /\ 2 * x >= M THEN x - M ELSE x
Exact(o) == Value(o.rs1, o.funct3 # "mulhu") * Value(o.rs2, o.funct3 \in {"mul", "mulh"})

(* The multiplication in MEM has its half of the exact product.            *)
HalfRight ==
  inmem # None =>
    Result = IF inmem.funct3 = "mul" THEN Exact(inmem) % M ELSE (Exact(inmem) \div M) % M

(* Behind a MULHU the whole product is there, for FMUL.                    *)
WholeRight == inmem # None /\ inmem.funct3 = "mulhu" => product = inmem.rs1 * inmem.rs2
=============================================================================
