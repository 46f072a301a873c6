-------------------------------- MODULE Divider --------------------------------
(***************************************************************************)
(* div_unit with divu_radix4: one division at a time, two bits of quotient *)
(* per cycle, started from EX and answered while its instruction waits in  *)
(* MEM.  One step is one clock cycle.  A word is a number below M; its     *)
(* digits are radix 4, and Scale[i] is the weight of i digits.             *)
(***************************************************************************)
EXTENDS Integers

CONSTANTS Steps, Scale, Operands, None

ASSUME StepsAssumption == Steps \in Nat \ {0}
ASSUME ScaleAssumption ==
  /\ Scale \in [0..Steps -> Nat \ {0}]
  /\ Scale[0] = 1
  /\ \A i \in 0..(Steps - 1) : Scale[i + 1] = 4 * Scale[i]
  /\ \A i, j \in 0..Steps : i <= j => Scale[i] <= Scale[j]

M    == Scale[Steps]
Top  == Scale[Steps - 1]
Word == 0..(M - 1)

Functs == {"div", "divu", "rem", "remu"}
Op     == [funct3 : Functs, rs1 : Word, rs2 : Word]

ASSUME OperandsAssumption == Operands \subseteq Word
ASSUME NoneAssumption     == None \notin Op

VARIABLES
  q,         (* funct3_q, rs1_q, rs2_q                                        *)
  startff,   (* start_ff                                                      *)
  busyff,    (* div_busy_ff                                                   *)
  busy, dbz, dividend, divisor, quotient, rem, iter,    (* divu_radix4        *)
  pending    (* history: the division its instruction in MEM waits for        *)

vars == <<q, startff, busyff, busy, dbz, dividend, divisor, quotient, rem, iter, pending>>
-----------------------------------------------------------------------------
(* Words: the highest digit; the word shifted up by one digit; the low     *)
(* word of one that is a digit longer; sign and two's complement.          *)
TopDigit(x) == CHOOSE t \in 0..3 : t * Top <= x /\ x < (t + 1) * Top
Shift(x, d) == 4 * (x - TopDigit(x) * Top) + d
LowWord(x)  == CHOOSE y \in Word : \E k \in 0..3 : x = k * M + y
Negative(x) == x >= 2 * Top
Negate(x)   == IF x = 0 THEN 0 ELSE M - x

(* Sign and absolute value of the operands, of the latched instruction.    *)
Signed == q.funct3 \in {"div", "rem"}
IsRem  == q.funct3 \in {"rem", "remu"}
ANeg   == Signed /\ Negative(q.rs1)
BNeg   == Signed /\ Negative(q.rs2)
ResNeg_Bug == ANeg                                    \* the divisor's sign is forgotten
ResNeg == IF IsRem THEN ANeg ELSE ANeg # BNeg
AAbs   == IF ANeg THEN Negate(q.rs1) ELSE q.rs1
BAbs   == IF BNeg THEN Negate(q.rs2) ELSE q.rs2

Start == ~busy /\ startff
Busy_Bug == busy                                      \* nothing stalls in the first cycle
Busy  == busy \/ Start
Ready == busyff /\ ~busy

Result == IF dbz THEN (IF IsRem THEN q.rs1 ELSE M - 1)
          ELSE IF IsRem THEN (IF ANeg THEN Negate(LowWord(rem)) ELSE LowWord(rem))
          ELSE (IF ResNeg THEN Negate(quotient) ELSE quotient)

(* One radix-4 step.                                                       *)
RemShift == 4 * LowWord(rem) + TopDigit(dividend)
QDigit_Bug ==                                         \* > for >=
  IF RemShift > 3 * divisor THEN 3
  ELSE IF RemShift > 2 * divisor THEN 2
  ELSE IF RemShift > divisor THEN 1 ELSE 0
QDigit   == IF RemShift >= 3 * divisor THEN 3
            ELSE IF RemShift >= 2 * divisor THEN 2
            ELSE IF RemShift >= divisor THEN 1 ELSE 0
-----------------------------------------------------------------------------
Init ==
  /\ q = [funct3 |-> "divu", rs1 |-> 0, rs2 |-> 0]
  /\ startff = FALSE /\ busyff = FALSE
  /\ busy = FALSE /\ dbz = FALSE
  /\ dividend = 0 /\ divisor = 0 /\ quotient = 0 /\ rem = 0 /\ iter = 0
  /\ pending = None

(* divu_radix4 at the next clock edge.                                     *)
Clear == /\ busy' = FALSE /\ dbz' = FALSE
         /\ dividend' = 0 /\ divisor' = 0 /\ quotient' = 0 /\ rem' = 0 /\ iter' = 0

Load ==
  \/ /\ BAbs = 0
     /\ dbz' = TRUE
     /\ UNCHANGED <<busy, dividend, divisor, quotient, rem, iter>>
  \/ /\ BAbs # 0 /\ AAbs = 0
     /\ dbz' = FALSE /\ quotient' = 0 /\ rem' = 0
     /\ UNCHANGED <<busy, dividend, divisor, iter>>
  \/ /\ BAbs # 0 /\ AAbs # 0
     /\ busy' = TRUE /\ dbz' = FALSE
     /\ dividend' = AAbs /\ divisor' = BAbs
     /\ quotient' = 0 /\ rem' = 0 /\ iter' = 0

Step_Bug ==                                           \* the last step is never the last
  /\ quotient' = Shift(quotient, QDigit)
  /\ rem' = RemShift - QDigit * divisor
  /\ busy' = TRUE
  /\ iter' = (iter + 1) % Steps
  /\ dividend' = Shift(dividend, 0)
  /\ UNCHANGED <<dbz, divisor>>
Step ==
  /\ quotient' = Shift(quotient, QDigit)
  /\ rem' = RemShift - QDigit * divisor
  /\ busy' = (iter # Steps - 1)
  /\ iter' = IF iter = Steps - 1 THEN iter ELSE iter + 1
  /\ dividend' = IF iter = Steps - 1 THEN dividend ELSE Shift(dividend, 0)
  /\ UNCHANGED <<dbz, divisor>>

NextUnsigned(flush) ==
  IF flush THEN Clear
  ELSE IF Start THEN Load
  ELSE IF busy THEN Step
  ELSE UNCHANGED <<busy, dbz, dividend, divisor, quotient, rem, iter>>

(* div_unit at the next clock edge; start is a division in EX or None.     *)
Latch(start) ==
  q' = IF ~busy /\ ~startff /\ start # None THEN start ELSE q

Cycle(start, flush) ==
  /\ Latch(start)
  /\ startff' = (start # None /\ ~Busy)
  /\ busyff' = Busy
  /\ NextUnsigned(flush)
  /\ pending' = IF flush THEN None
                ELSE IF start # None THEN start
                ELSE IF Ready THEN None ELSE pending

(* EX moves on only when the divider is not busy, and a flush empties it.  *)
Ops == [funct3 : Functs, rs1 : Operands, rs2 : Operands]
Issue == ~Busy /\ \E op \in Ops : Cycle(op, FALSE)
Work  == Cycle(None, FALSE)
Flush == Cycle(None, TRUE)

Next == Issue \/ Work \/ Flush

Spec == Init /\ [][Next]_vars
-----------------------------------------------------------------------------
TypeOK ==
  /\ q \in Op
  /\ startff \in BOOLEAN /\ busyff \in BOOLEAN /\ busy \in BOOLEAN /\ dbz \in BOOLEAN
  /\ dividend \in Word /\ divisor \in Word /\ quotient \in Word
  /\ rem \in 0..(4 * M - 1) /\ iter \in 0..(Steps - 1)
  /\ pending \in Op \union {None}

(* What RISC-V asks for: division rounds towards zero and the remainder    *)
(* has the dividend's sign; by zero, all ones and the dividend; what does  *)
(* not fit in a word wraps.                                                *)
Value(op, x) == IF op.funct3 \in {"div", "rem"} /\ Negative(x) THEN x - M ELSE x
Size(x)      == IF x < 0 THEN -x ELSE x
Truncated(x, y, k) ==
  LET r == x - k * y IN Size(r) < Size(y) /\ (r = 0 \/ (r < 0) = (x < 0))
Represents(w, v) == w \in Word /\ w \in {v - M, v, v + M}
Answers(op, w) ==
  LET x == Value(op, op.rs1)
      y == Value(op, op.rs2)
      isRem == op.funct3 \in {"rem", "remu"}
  IN IF op.rs2 = 0 THEN w = IF isRem THEN op.rs1 ELSE M - 1
     ELSE \E k \in -M..M : Truncated(x, y, k) /\ Represents(w, IF isRem THEN x - k * y ELSE k)

(* The answer to a division that was not flushed is the quotient or the    *)
(* remainder of its own operands: also for the most negative word by -1,   *)
(* by zero, and right behind another division.                             *)
AnswerRight == Ready /\ pending # None => Answers(pending, Result)

(* An instruction that divides holds MEM until its answer is there: the    *)
(* divider is busy in every cycle before that, and not in that one.        *)
HeldUntilAnswer == pending # None => Busy # Ready

(* Every division is answered, if it is not flushed.                       *)
Answered == pending # None ~> (Ready \/ pending = None)
-----------------------------------------------------------------------------
(* What the loop keeps: after iter digits the quotient and the remainder   *)
(* are those of the dividend's first iter digits, and the rest is in       *)
(* dividend.                                                               *)
Loaded == AAbs # 0 /\ BAbs # 0 /\ divisor = BAbs /\ ~dbz
LoopInv ==
  busy => /\ Loaded /\ rem < divisor /\ quotient < Scale[iter]
          /\ AAbs * Scale[iter] = (quotient * divisor + rem) * M + dividend
AnswerInv ==
  Ready /\ pending # None =>
    \/ dbz /\ BAbs = 0
    \/ ~dbz /\ BAbs # 0 /\ rem < BAbs /\ quotient * BAbs + rem = AAbs
PhaseInv ==
  /\ pending # None => q = pending /\ Busy # Ready
  /\ startff => pending # None /\ ~busy /\ ~busyff
  /\ busy => pending # None
DivInv == TypeOK /\ LoopInv /\ AnswerInv /\ PhaseInv
=============================================================================
