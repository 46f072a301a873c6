------------------------------ MODULE MulDivProofs ------------------------------
(***************************************************************************)
(* The divider is right for words of any even number of bits and for any   *)
(* operands: the loop invariant multiplies the usual one by the weight of  *)
(* the digits done, so that no digit of the dividend is named.  The        *)
(* multiplier is right for words of any width that halves, and both units  *)
(* are around EX/MEM, whatever stalls, is flushed or comes between.        *)
(***************************************************************************)
EXTENDS MulDiv, TLAPS


LEMMA Weights == /\ M \in Nat /\ Top \in Nat /\ M = 4 * Top /\ Top >= 1
                 /\ \A i \in 0..(Steps - 1) : Scale[i] \in Nat /\ Scale[i] >= 1 /\ Scale[i] <= Top
<1>1. Steps - 1 \in 0..(Steps - 1) /\ (Steps - 1) + 1 = Steps
  BY StepsAssumption
<1>2. \A i \in 0..Steps : Scale[i] \in Nat \ {0}
  BY ScaleAssumption
<1>3. Scale[Steps] = 4 * Scale[Steps - 1]
  BY <1>1, ScaleAssumption
<1>4. \A i \in 0..(Steps - 1) : Scale[i] <= Scale[Steps - 1]
  BY <1>1, StepsAssumption, ScaleAssumption
<1>5. Steps - 1 \in 0..Steps /\ Steps \in 0..Steps /\ \A i \in 0..(Steps - 1) : i \in 0..Steps
  BY StepsAssumption
<1> QED
  BY <1>2, <1>3, <1>4, <1>5 DEF M, Top

(* A word is its top digit above the rest.                                 *)
LEMMA TopDigitFact ==
  ASSUME NEW x \in Word
  PROVE  /\ TopDigit(x) \in 0..3
         /\ TopDigit(x) * Top <= x /\ x < (TopDigit(x) + 1) * Top
<1>1. \E t \in 0..3 : t * Top <= x /\ x < (t + 1) * Top
  <2> USE Weights DEF Word
  <2>1. CASE x < Top
    <3>1. 0 * Top <= x /\ x < (0 + 1) * Top
      BY <2>1
    <3> QED
      BY <3>1
  <2>2. CASE Top <= x /\ x < 2 * Top
    <3>1. 1 * Top <= x /\ x < (1 + 1) * Top
      BY <2>2
    <3> QED
      BY <3>1
  <2>3. CASE 2 * Top <= x /\ x < 3 * Top
    <3>1. 2 * Top <= x /\ x < (2 + 1) * Top
      BY <2>3
    <3> QED
      BY <3>1
  <2>4. CASE 3 * Top <= x
    <3>1. 3 * Top <= x /\ x < (3 + 1) * Top
      BY <2>4
    <3> QED
      BY <3>1
  <2> QED
    BY <2>1, <2>2, <2>3, <2>4
<1> QED
  BY <1>1 DEF TopDigit

(* Shifting a word: the top digit leaves it, as a multiple of M.           *)
LEMMA ShiftFact ==
  ASSUME NEW x \in Word, NEW d \in 0..3
  PROVE  /\ Shift(x, d) \in Word
         /\ 4 * x + d = TopDigit(x) * M + Shift(x, d)
         /\ x < Top => Shift(x, d) = 4 * x + d
<1> DEFINE t == TopDigit(x)
<1>1. t \in 0..3 /\ t * Top <= x /\ x < (t + 1) * Top
  BY TopDigitFact
<1>2. t * M = 4 * (t * Top)
  BY <1>1, Weights
<1>3. (t + 1) * Top = t * Top + Top
  BY <1>1, Weights
<1>4. t * Top \in Int /\ x \in Int /\ x >= 0
  BY <1>1, Weights DEF Word
<1>5. x < Top => t * Top = 0
  BY <1>1, <1>4, Weights
<1> HIDE DEF t
<1>6. Shift(x, d) = 4 * (x - t * Top) + d
  BY DEF Shift, t
<1> QED
  BY <1>1, <1>2, <1>3, <1>4, <1>5, <1>6, Weights DEF Word, t

LEMMA LowWordFact ==
  ASSUME NEW x \in Word
  PROVE  LowWord(x) = x
<1>1. \E k \in 0..3 : x = k * M + x
  <2>1. x = 0 * M + x
    BY Weights DEF Word
  <2> QED
    BY <2>1
<1>2. ASSUME NEW y \in Word, NEW k \in 0..3, x = k * M + y PROVE y = x
  BY <1>2, Weights DEF Word
<1> QED
  BY <1>1, <1>2 DEF LowWord

(* Digit selection leaves a remainder below the divisor.                   *)
LEMMA DigitFact ==
  ASSUME NEW d \in Nat, NEW s \in Nat, s < 4 * d,
         NEW k, k = IF s >= 3 * d THEN 3 ELSE IF s >= 2 * d THEN 2 ELSE IF s >= d THEN 1 ELSE 0
  PROVE  k \in 0..3 /\ s - k * d \in Nat /\ s - k * d < d
OBVIOUS

(* The algebra of one step: with one more digit of weight M taken in, the  *)
(* invariant holds for four times the scale.                               *)
LEMMA StepAlgebra ==
  ASSUME NEW m \in Nat, NEW a \in Nat, NEW w \in Nat, NEW qt \in Nat, NEW d \in Nat, NEW r \in Nat,
         NEW v \in Nat, NEW t \in Nat, NEW v2 \in Nat, NEW k \in Nat, NEW r2 \in Nat,
         a * w = (qt * d + r) * m + v, 4 * v = t * m + v2, 4 * r + t = k * d + r2
  PROVE  a * (4 * w) = ((4 * qt + k) * d + r2) * m + v2
<1> DEFINE p == qt * d  e == k * d  x == p + r
<1>1. p \in Nat /\ e \in Nat /\ x \in Nat
  OBVIOUS
<1>2. (4 * qt + k) * d = 4 * p + e
  OBVIOUS
<1>3. (4 * qt + k) * d + r2 = 4 * x + t
  BY <1>1, <1>2
<1>4. (4 * x + t) * m = 4 * (x * m) + t * m
  BY <1>1
<1>5. a * (4 * w) = 4 * (a * w)
  OBVIOUS
<1>6. x * m \in Nat /\ t * m \in Nat
  BY <1>1
<1>7. a * w = x * m + v
  OBVIOUS
<1> HIDE DEF p, e, x
<1> QED
  BY <1>3, <1>4, <1>5, <1>6, <1>7

(* At full scale the dividend is used up.                                  *)
LEMMA Cancel ==
  ASSUME NEW m \in Nat, NEW a \in Nat, NEW x \in Nat, NEW v \in Nat, v < m, a * m = x * m + v
  PROVE  a = x
<1>1. (a - x) * m = v
  OBVIOUS
<1>2. CASE a - x >= 1
  <2>1. (a - x) * m >= m
    BY <1>2
  <2> QED
    BY <1>1, <2>1
<1>3. CASE a - x <= -1
  <2>1. (a - x) * m <= -m
    BY <1>3
  <2> QED
    BY <1>1, <2>1
<1> QED
  BY <1>2, <1>3
-----------------------------------------------------------------------------
LEMMA NegateTyped ==
  ASSUME NEW x \in Word
  PROVE  Negate(x) \in Word
BY Weights DEF Negate, Word

LEMMA AbsTyped ==
  ASSUME q \in Op
  PROVE  AAbs \in Word /\ BAbs \in Word
<1>1. q.rs1 \in Word /\ q.rs2 \in Word
  BY DEF Op
<1> QED
  BY <1>1, NegateTyped DEF AAbs, BAbs

(* The operands are those of q.                                            *)
LEMMA AbsSame ==
  ASSUME q' = q
  PROVE  AAbs' = AAbs /\ BAbs' = BAbs
BY DEF AAbs, BAbs, ANeg, BNeg, Signed

(* One step of the loop.                                                   *)
LEMMA StepFact ==
  ASSUME TypeOK, busy, LoopInv, Step
  PROVE  /\ quotient' \in Word /\ rem' \in Nat /\ rem' < divisor /\ iter' \in 0..(Steps - 1)
         /\ dividend' \in Word
         /\ busy' => quotient' < Scale[iter'] /\ iter' = iter + 1
                     /\ AAbs * Scale[iter'] = (quotient' * divisor + rem') * M + dividend'
         /\ ~busy' => quotient' * divisor + rem' = AAbs
<1> DEFINE t == TopDigit(dividend)  k == QDigit  v2 == Shift(dividend, 0)
<1>1. /\ dividend \in Word /\ quotient \in Word /\ divisor \in Word /\ AAbs \in Word
      /\ iter \in 0..(Steps - 1) /\ rem \in Nat /\ rem < divisor /\ quotient < Scale[iter]
      /\ AAbs * Scale[iter] = (quotient * divisor + rem) * M + dividend
  BY AbsTyped DEF TypeOK, LoopInv
<1>2. M \in Nat /\ Top \in Nat /\ M = 4 * Top /\ Scale[iter] \in Nat /\ Scale[iter] <= Top
  BY <1>1, Weights
<1>3. t \in 0..3 /\ v2 \in Word /\ 4 * dividend = t * M + v2
  <2>1. t \in 0..3
    BY <1>1, TopDigitFact
  <2>2. v2 \in Word /\ 4 * dividend + 0 = t * M + v2
    <3>1. 0 \in 0..3 /\ dividend \in Word
      BY <1>1
    <3>2. /\ Shift(dividend, 0) \in Word
          /\ 4 * dividend + 0 = TopDigit(dividend) * M + Shift(dividend, 0)
      BY <3>1, ShiftFact
    <3> QED
      BY <3>2
  <2>3. 4 * dividend + 0 = 4 * dividend
    BY <1>1, <1>2 DEF Word
  <2> QED
    BY <2>1, <2>2, <2>3
<1>4. LowWord(rem) = rem
  <2>1. rem \in Word
    BY <1>1, <1>2 DEF Word
  <2> QED
    BY <2>1, LowWordFact
<1>5. RemShift = 4 * rem + t /\ RemShift \in Nat /\ RemShift < 4 * divisor
  BY <1>1, <1>3, <1>4 DEF RemShift, Word
<1>6. k \in 0..3 /\ RemShift - k * divisor \in Nat /\ RemShift - k * divisor < divisor
  BY <1>1, <1>5, DigitFact DEF QDigit, Word
<1> HIDE DEF t, k, v2
<1>7. quotient' = 4 * quotient + k /\ quotient' \in Word
  <2>1. quotient < Top
    BY <1>1, <1>2 DEF Word
  <2>2. quotient' = Shift(quotient, k)
    BY DEF Step, k
  <2> QED
    BY <1>1, <1>6, <2>1, <2>2, ShiftFact
<1>8. rem' = RemShift - k * divisor /\ rem' \in Nat /\ 4 * rem + t = k * divisor + rem'
  <2>1. rem' = RemShift - k * divisor
    BY DEF Step, k
  <2> QED
    BY <1>1, <1>3, <1>5, <1>6, <2>1 DEF Word
<1>9. AAbs * (4 * Scale[iter]) = (quotient' * divisor + rem') * M + v2
  <2>1. /\ AAbs \in Nat /\ quotient \in Nat /\ divisor \in Nat /\ dividend \in Nat /\ v2 \in Nat
        /\ t \in Nat /\ k \in Nat
    BY <1>1, <1>2, <1>3, <1>6 DEF Word
  <2> QED
    BY <1>1, <1>2, <1>3, <1>7, <1>8, <2>1, StepAlgebra
<1>10. Scale[iter + 1] = 4 * Scale[iter]
  BY <1>1, ScaleAssumption
<1>11. CASE iter = Steps - 1
  <2>1. ~busy' /\ iter' = iter /\ dividend' = dividend
    BY <1>11 DEF Step
  <2>2. 4 * Scale[iter] = M
    BY <1>10, <1>11, StepsAssumption DEF M
  <2>3. quotient' * divisor + rem' \in Nat /\ v2 \in Nat /\ v2 < M /\ AAbs \in Nat
    BY <1>1, <1>2, <1>3, <1>7, <1>8 DEF Word
  <2>4. AAbs * M = (quotient' * divisor + rem') * M + v2
    BY <1>9, <2>2
  <2>5. AAbs = quotient' * divisor + rem'
    BY <1>2, <2>3, <2>4, Cancel
  <2> QED
    BY <1>1, <1>6, <1>7, <1>8, <2>1, <2>5
<1>12. CASE iter # Steps - 1
  <2>1. busy' /\ iter' = iter + 1 /\ dividend' = v2
    BY <1>12 DEF Step, v2
  <2>2. iter' \in 0..(Steps - 1)
    BY <1>1, <1>12, <2>1, StepsAssumption
  <2>3. quotient' < Scale[iter']
    BY <1>1, <1>2, <1>6, <1>7, <1>10, <2>1 DEF Word
  <2> QED
    BY <1>3, <1>6, <1>7, <1>8, <1>9, <1>10, <2>1, <2>2, <2>3
<1> QED
  BY <1>11, <1>12
-----------------------------------------------------------------------------
LEMMA InitDivInv == Init => DivInv
<1> SUFFICES ASSUME Init PROVE DivInv
  OBVIOUS
<1> USE DEF Init
<1>1. 0 \in Word /\ 0 \in 0..(4 * M - 1) /\ 0 \in 0..(Steps - 1)
  BY Weights, StepsAssumption DEF Word
<1>2. TypeOK
  BY <1>1 DEF TypeOK, Op, Functs
<1> QED
  BY <1>2 DEF DivInv, LoopInv, AnswerInv, PhaseInv, Ready

LEMMA NextDivInv == DivInv /\ [Next]_vars => DivInv'
<1> SUFFICES ASSUME DivInv, [Next]_vars PROVE DivInv'
  OBVIOUS
<1> USE DEF DivInv
<1>1. CASE UNCHANGED vars
  BY <1>1 DEF vars, TypeOK, LoopInv, AnswerInv, PhaseInv, Loaded, Ready, Busy, Start, AAbs, BAbs, ANeg, BNeg, Signed
<1>2. CASE Next
  <2>1. PICK start \in Op \union {None}, flush \in BOOLEAN :
          Cycle(start, flush) /\ (start # None => ~Busy /\ ~flush)
    BY <1>2, OperandsAssumption, NoneAssumption DEF Next, Issue, Work, Flush, Ops, Op
  <2> USE NoneAssumption
  <2>2. (q \in Op)' /\ (startff \in BOOLEAN)' /\ (busyff \in BOOLEAN)' /\ (pending \in Op \union {None})'
    BY <2>1 DEF Cycle, Latch, TypeOK, Busy, Start, Ready
  <2>3. CASE flush
    <3>1. Clear /\ startff' = FALSE /\ pending' = None
      BY <2>1, <2>3 DEF Cycle, NextUnsigned
    <3>2. 0 \in Word /\ 0 \in 0..(4 * M - 1) /\ 0 \in 0..(Steps - 1)
      BY Weights, StepsAssumption DEF Word
    <3> QED
      BY <2>2, <3>1, <3>2 DEF Clear, TypeOK, LoopInv, AnswerInv, PhaseInv
  <2>4. CASE ~flush /\ Start
    <3>1. start = None /\ Load /\ q' = q /\ startff' = FALSE /\ busyff' = TRUE
      BY <2>1, <2>4 DEF Cycle, NextUnsigned, Latch, Busy
    <3>2. pending # None /\ pending' = pending /\ q = pending /\ ~busy
      BY <2>1, <2>4, <3>1 DEF Cycle, PhaseInv, Start, Ready
    <3>3. AAbs \in Word /\ BAbs \in Word /\ AAbs' = AAbs /\ BAbs' = BAbs
      BY <3>1, AbsTyped, AbsSame DEF TypeOK
    <3>4. 0 \in Word /\ 0 \in 0..(4 * M - 1) /\ 0 \in 0..(Steps - 1) /\ Scale[0] = 1
      BY Weights, StepsAssumption, ScaleAssumption DEF Word
    <3>5. TypeOK'
      BY <2>2, <3>1, <3>3, <3>4 DEF Load, TypeOK
    <3>6. LoopInv' /\ AnswerInv'
      <4>1. CASE BAbs = 0
        BY <3>1, <3>2, <3>3, <4>1 DEF Load, LoopInv, AnswerInv
      <4>2. CASE BAbs # 0 /\ AAbs = 0
        <5>1. 0 < BAbs /\ 0 * BAbs + 0 = AAbs
          BY <3>3, <4>2, Weights DEF Word
        <5> QED
          BY <3>1, <3>2, <3>3, <4>2, <5>1 DEF Load, LoopInv, AnswerInv
      <4>3. CASE BAbs # 0 /\ AAbs # 0
        <5>1. 0 < BAbs /\ 0 < Scale[0] /\ AAbs * Scale[0] = (0 * BAbs + 0) * M + AAbs
          BY <3>3, <3>4, <4>3, Weights DEF Word
        <5>2. busy' /\ ~dbz' /\ dividend' = AAbs /\ divisor' = BAbs /\ quotient' = 0 /\ rem' = 0 /\ iter' = 0
          BY <3>1, <4>3 DEF Load
        <5> QED
          BY <3>3, <4>3, <5>1, <5>2 DEF LoopInv, AnswerInv, Loaded, Ready
      <4> QED
        BY <3>6, <4>1, <4>2, <4>3
    <3>7. PhaseInv'
      BY <3>1, <3>2 DEF PhaseInv, Busy, Ready, Start
    <3> QED
      BY <3>5, <3>6, <3>7
  <2>5. CASE ~flush /\ ~Start /\ busy
    <3>1. start = None /\ Step /\ q' = q /\ startff' = FALSE /\ busyff' = TRUE
      BY <2>1, <2>5 DEF Cycle, NextUnsigned, Latch, Busy
    <3>2. pending # None /\ pending' = pending /\ q = pending
      BY <2>1, <2>5, <3>1 DEF Cycle, PhaseInv, Ready
    <3>3. AAbs' = AAbs /\ BAbs' = BAbs
      BY <3>1, AbsSame
    <3>4. /\ quotient' \in Word /\ rem' \in Nat /\ rem' < divisor /\ iter' \in 0..(Steps - 1)
          /\ dividend' \in Word
          /\ busy' => quotient' < Scale[iter'] /\ iter' = iter + 1
                      /\ AAbs * Scale[iter'] = (quotient' * divisor + rem') * M + dividend'
          /\ ~busy' => quotient' * divisor + rem' = AAbs
      BY <2>5, <3>1, StepFact
    <3>5. divisor' = divisor /\ dbz' = dbz /\ busy' \in BOOLEAN /\ Loaded
      BY <2>5, <3>1 DEF Step, LoopInv
    <3>6. TypeOK'
      <4>1. rem' \in 0..(4 * M - 1)
        BY <3>4, Weights DEF TypeOK, Word
      <4> QED
        BY <2>2, <3>4, <3>5, <4>1 DEF TypeOK
    <3>7. LoopInv'
      BY <3>3, <3>4, <3>5 DEF LoopInv, Loaded
    <3>8. AnswerInv'
      BY <3>3, <3>4, <3>5 DEF AnswerInv, Loaded, Ready
    <3>9. PhaseInv'
      BY <3>1, <3>2, <3>5 DEF PhaseInv, Busy, Ready, Start
    <3> QED
      BY <3>6, <3>7, <3>8, <3>9
  <2>6. CASE ~flush /\ ~Start /\ ~busy
    <3>1. UNCHANGED <<busy, dbz, dividend, divisor, quotient, rem, iter>> /\ busyff' = FALSE
      BY <2>1, <2>6 DEF Cycle, NextUnsigned, Busy
    <3>2. ~startff /\ ~Busy
      BY <2>6 DEF Start, Busy, TypeOK
    <3>3. q' = (IF start # None THEN start ELSE q) /\ startff' = (start # None)
      BY <2>1, <2>6, <3>2 DEF Cycle, Latch
    <3>4. pending' = start
      <4>1. start = None => pending = None \/ Ready
        BY <3>2 DEF PhaseInv, Busy, Ready, Start, TypeOK
      <4>2. pending' = IF start # None THEN start ELSE IF Ready THEN None ELSE pending
        BY <2>1, <2>6 DEF Cycle
      <4> QED
        BY <4>1, <4>2
    <3>5. TypeOK'
      BY <2>2, <3>1 DEF TypeOK
    <3>6. LoopInv' /\ AnswerInv'
      BY <2>6, <3>1 DEF LoopInv, AnswerInv, Ready
    <3>7. PhaseInv'
      BY <2>6, <3>1, <3>3, <3>4 DEF PhaseInv, Busy, Ready, Start
    <3> QED
      BY <3>5, <3>6, <3>7
  <2> QED
    BY <2>3, <2>4, <2>5, <2>6 DEF TypeOK
<1> QED
  BY <1>1, <1>2

(* The divider's registers keep the loop invariant, for words of any even  *)
(* number of bits.                                                         *)
THEOREM Invariance == Spec => []DivInv
BY InitDivInv, NextDivInv, PTL DEF Spec

(* The instruction that divides is held in MEM until its answer is there.  *)
THEOREM Held == Spec => []HeldUntilAnswer
<1>1. DivInv => HeldUntilAnswer
  BY DEF DivInv, PhaseInv, HeldUntilAnswer
<1> QED
  BY <1>1, Invariance, PTL
-----------------------------------------------------------------------------
(* Signs: the truncated quotients of two numbers from that of their sizes. *)
LEMMA TruncatedFact ==
  ASSUME NEW a \in Nat, NEW b \in Nat, NEW k \in Nat, NEW r \in Nat, a = k * b + r, r < b
  PROVE  /\ Truncated(a, b, k)   /\ a - k * b = r
         /\ Truncated(-a, b, -k) /\ (-a) - (-k) * b = -r
         /\ Truncated(a, -b, -k) /\ a - (-k) * (-b) = r
         /\ Truncated(-a, -b, k) /\ (-a) - k * (-b) = -r
<1> DEFINE p == k * b
<1>1. p \in Nat /\ (-k) * b = -p /\ (-k) * (-b) = p /\ k * (-b) = -p
  OBVIOUS
<1>2. a = p + r
  OBVIOUS
<1> HIDE DEF p
<1>3. a - p = r /\ (-a) - (-p) = -r
  BY <1>1, <1>2
<1>4. r # 0 => a > 0
  BY <1>1, <1>2
<1>5. Size(r) < Size(b) /\ Size(-r) < Size(b) /\ Size(r) < Size(-b) /\ Size(-r) < Size(-b)
  BY DEF Size
<1>6. k * b = p
  BY DEF p
<1>7. /\ r = 0 \/ (r < 0) = (a < 0)
      /\ -r = 0 \/ (-r < 0) = (-a < 0)
  BY <1>4
<1> QED
  BY <1>1, <1>3, <1>5, <1>6, <1>7 DEF Truncated

LEMMA RepresentsFact ==
  ASSUME NEW w \in Word
  PROVE  Represents(w, w) /\ Represents(Negate(w), -w)
BY NegateTyped, Weights DEF Represents, Negate, Word

(* The sizes and signs the divider works with are those of the numbers.    *)
LEMMA ValueFact ==
  ASSUME q \in Op
  PROVE  /\ Value(q, q.rs1) = IF ANeg THEN -AAbs ELSE AAbs
         /\ Value(q, q.rs2) = IF BNeg THEN -BAbs ELSE BAbs
         /\ BAbs = 0 <=> q.rs2 = 0
<1>1. q.rs1 \in Word /\ q.rs2 \in Word
  BY DEF Op
<1>2. \A x \in Word : Negative(x) => x # 0 /\ Negate(x) = M - x
  BY Weights DEF Negative, Negate, Word
<1>3. Value(q, q.rs1) = IF ANeg THEN q.rs1 - M ELSE q.rs1
  BY DEF Value, ANeg, Signed
<1>4. Value(q, q.rs2) = IF BNeg THEN q.rs2 - M ELSE q.rs2
  BY DEF Value, BNeg, Signed
<1>5. ANeg => AAbs = M - q.rs1
  BY <1>1, <1>2 DEF AAbs, ANeg
<1>6. BNeg => BAbs = M - q.rs2 /\ q.rs2 # 0
  BY <1>1, <1>2 DEF BAbs, BNeg
<1> QED
  BY <1>1, <1>3, <1>4, <1>5, <1>6, Weights DEF AAbs, BAbs, Word

(* Every division that is not flushed is answered as RISC-V says, for all  *)
(* operands, in words of any even number of bits.                          *)
THEOREM Correct == Spec => []AnswerRight
<1>1. ASSUME DivInv PROVE AnswerRight
  <2> SUFFICES ASSUME Ready, pending # None PROVE Answers(pending, Result)
    BY DEF AnswerRight
  <2>1. q = pending /\ q \in Op /\ quotient \in Word /\ M \in Nat
    BY <1>1, Weights DEF DivInv, TypeOK, PhaseInv
  <2>2. q.rs1 \in Word /\ q.rs2 \in Word /\ q.funct3 \in Functs
    BY <2>1 DEF Op
  <2>3. CASE dbz
    <3>1. BAbs = 0
      BY <1>1, <2>3 DEF DivInv, AnswerInv
    <3>2. pending.rs2 = 0
      BY <2>1, <3>1, ValueFact
    <3> QED
      BY <2>1, <2>3, <3>2 DEF Answers, Result, IsRem
  <2>4. CASE ~dbz
    <3>1. BAbs # 0 /\ rem < BAbs /\ quotient * BAbs + rem = AAbs /\ rem \in Nat
      BY <1>1, <2>4, Weights DEF DivInv, AnswerInv, TypeOK
    <3>2. AAbs \in Word /\ BAbs \in Word /\ AAbs \in Nat /\ BAbs \in Nat /\ quotient \in Nat
      BY <2>1, AbsTyped DEF Word
    <3>3. rem \in Word
      BY <2>1, <3>1, <3>2 DEF Word
    <3>4. LowWord(rem) = rem
      BY <3>3, LowWordFact
    <3>5. pending.rs2 # 0
      BY <2>1, <3>1, ValueFact
    <3> DEFINE x == Value(pending, pending.rs1)  y == Value(pending, pending.rs2)
               isRem == pending.funct3 \in {"rem", "remu"}
               k == IF ANeg # BNeg THEN -quotient ELSE quotient
               z == IF ANeg THEN -rem ELSE rem
    <3>6. ANeg \in BOOLEAN /\ BNeg \in BOOLEAN
      BY DEF ANeg, BNeg, Negative
    <3>7. Truncated(x, y, k) /\ x - k * y = z
      <4>1. x = (IF ANeg THEN -AAbs ELSE AAbs) /\ y = (IF BNeg THEN -BAbs ELSE BAbs)
        BY <2>1, ValueFact
      <4>2. /\ Truncated(AAbs, BAbs, quotient)    /\ AAbs - quotient * BAbs = rem
            /\ Truncated(-AAbs, BAbs, -quotient)  /\ (-AAbs) - (-quotient) * BAbs = -rem
            /\ Truncated(AAbs, -BAbs, -quotient)  /\ AAbs - (-quotient) * (-BAbs) = rem
            /\ Truncated(-AAbs, -BAbs, quotient)  /\ (-AAbs) - quotient * (-BAbs) = -rem
        BY <3>1, <3>2, TruncatedFact
      <4> HIDE DEF x, y
      <4>3. CASE ANeg /\ BNeg
        BY <3>6, <4>1, <4>2, <4>3
      <4>4. CASE ANeg /\ ~BNeg
        BY <3>6, <4>1, <4>2, <4>4
      <4>5. CASE ~ANeg /\ BNeg
        BY <3>6, <4>1, <4>2, <4>5
      <4>6. CASE ~ANeg /\ ~BNeg
        BY <3>6, <4>1, <4>2, <4>6
      <4> HIDE DEF k, z
      <4> QED
        BY <3>6, <4>3, <4>4, <4>5, <4>6
    <3>8. k \in -M..M
      BY <2>1, <3>2, Weights DEF Word
    <3>9. Represents(Result, IF isRem THEN z ELSE k)
      <4>1. Represents(rem, rem) /\ Represents(Negate(rem), -rem)
        BY <3>3, RepresentsFact
      <4>2. Represents(quotient, quotient) /\ Represents(Negate(quotient), -quotient)
        BY <2>1, RepresentsFact
      <4>3. isRem = IsRem
        BY <2>1 DEF IsRem
      <4>4. CASE IsRem
        BY <2>4, <3>4, <4>1, <4>3, <4>4 DEF Result
      <4>5. CASE ~IsRem
        BY <2>4, <4>2, <4>3, <4>5 DEF Result, ResNeg
      <4> QED
        BY <4>4, <4>5
    <3> HIDE DEF x, y, k, z, isRem
    <3>10. \E j \in -M..M : Truncated(x, y, j) /\ Represents(Result, IF isRem THEN x - j * y ELSE j)
      BY <3>7, <3>8, <3>9
    <3> QED
      BY <3>5, <3>10 DEF Answers, x, y, isRem
  <2> QED
    BY <2>3, <2>4
<1> QED
  BY <1>1, Invariance, PTL
-----------------------------------------------------------------------------

LEMMA Euclid ==
  ASSUME NEW n \in Nat, n > 0, NEW x \in Int
  PROVE  /\ x \div n \in Int /\ x % n \in 0..(n - 1)
         /\ x = (x \div n) * n + (x % n)
<1>1. x \div n \in Int /\ x % n \in 0..(n - 1)
  BY SMT
<1>2. x = n * (x \div n) + (x % n)
  BY SMT
<1>3. n * (x \div n) = (x \div n) * n
  BY <1>1
<1> QED BY <1>1, <1>2, <1>3

LEMMA Unique ==
  ASSUME NEW n \in Nat, n > 0, NEW x \in Int,
         NEW k \in Int, NEW r \in 0..(n - 1), x = k * n + r
  PROVE  x \div n = k /\ x % n = r
<1> DEFINE d == x \div n
           e == x % n
<1>1. d \in Int /\ e \in 0..(n - 1) /\ x = d * n + e
  BY Euclid
<1> HIDE DEF d, e
<1>2. (d - k) * n = r - e
  <2>1. (d - k) * n = d * n - k * n
    BY <1>1
  <2> QED BY <1>1, <2>1
<1>3. r - e < n /\ r - e > 0 - n
  BY <1>1
<1>4. ~(d - k >= 1)
  <2>1. d - k >= 1 => (d - k) * n >= n
    BY <1>1
  <2> QED BY <1>1, <1>2, <1>3, <2>1
<1>5. ~(d - k <= -1)
  <2>1. d - k <= -1 => (d - k) * n <= 0 - n
    BY <1>1
  <2> QED BY <1>1, <1>2, <1>3, <2>1
<1>6. d = k
  BY <1>1, <1>4, <1>5
<1>7. e = r
  BY <1>1, <1>6
<1> QED BY <1>6, <1>7 DEF d, e

(* Modulo a product: the low half and the high half of what is kept.       *)
LEMMA Halves ==
  ASSUME NEW m \in Nat, m > 0, NEW x \in Int
  PROVE  /\ (x % (m * m)) % m = x % m
         /\ (x % (m * m)) \div m = (x \div m) % m
<1> DEFINE d == x \div m
           r == x % m
           k == d \div m
           s == d % m
<1>1. d \in Int /\ r \in 0..(m - 1) /\ x = d * m + r
  BY Euclid
<1> HIDE DEF d, r
<1>2. k \in Int /\ s \in 0..(m - 1) /\ d = k * m + s
  BY <1>1, Euclid
<1> HIDE DEF k, s
<1>3. m * m \in Nat /\ m * m > 0
  BY SMT
<1>4. x = k * (m * m) + (s * m + r)
  <2>1. d * m = (k * m + s) * m
    BY <1>2
  <2>2. (k * m + s) * m = k * (m * m) + s * m
    BY <1>2
  <2> QED BY <1>1, <1>2, <2>1, <2>2
<1>5. s * m \in Nat /\ s * m + r \in 0..(m * m - 1)
  <2>1. s * m >= 0 /\ s * m \in Int
    BY <1>2
  <2>2. s * m <= (m - 1) * m
    BY <1>2
  <2>3. (m - 1) * m = m * m - m
    OBVIOUS
  <2> QED BY <1>1, <1>3, <2>1, <2>2, <2>3
<1>6. x % (m * m) = s * m + r
  BY <1>2, <1>3, <1>4, <1>5, Unique
<1>7. (s * m + r) % m = r /\ (s * m + r) \div m = s
  <2>1. s * m + r \in Int /\ s \in Int
    BY <1>2, <1>5
  <2> QED BY <1>1, <2>1, Unique
<1>8. d % m = s
  BY DEF s
<1> QED BY <1>6, <1>7, <1>8 DEF d, r

(* A word from its halves, as the number it stands for.                    *)
LEMMA Sizes == /\ Half \in Nat /\ Half > 0 /\ Mul!M = Half * Half /\ Mul!M = M
               /\ M \in Nat /\ M > 0
<1>1. M \in Nat /\ M > 0
  BY Weights
<1>2. Half \in Nat /\ Half * Half = M
  BY HalfAssumption
<1>3. Half # 0
  BY <1>1, <1>2
<1> QED BY <1>1, <1>2, <1>3 DEF Mul!M

LEMMA Split ==
  ASSUME NEW x \in Word, NEW signed \in BOOLEAN
  PROVE  /\ Mul!Hi(x, signed) \in Int /\ Mul!Lo(x) \in Nat
         /\ Mul!Value(x, signed) = Mul!Hi(x, signed) * Half + Mul!Lo(x)
<1> DEFINE d == x \div Half
           r == x % Half
<1>1. x \in Int /\ Half \in Nat /\ Half > 0 /\ Mul!M = Half * Half
  BY Sizes DEF Word
<1>2. d \in Int /\ r \in 0..(Half - 1) /\ x = d * Half + r
  BY <1>1, Euclid
<1>3. Mul!Lo(x) = r /\ Mul!Hi(x, signed) = (IF signed /\ 2 * x >= Half * Half THEN d - Half ELSE d)
  BY <1>1 DEF Mul!Lo, Mul!Hi
<1> HIDE DEF d, r
<1>4. (d - Half) * Half = d * Half - Half * Half
  BY <1>1, <1>2
<1>5. CASE signed /\ 2 * x >= Half * Half
  <2>1. Mul!Value(x, signed) = x - Half * Half
    BY <1>1, <1>5 DEF Mul!Value
  <2>2. x - Half * Half = (d - Half) * Half + r
    BY <1>1, <1>2, <1>4
  <2>3. Mul!Hi(x, signed) = d - Half /\ Mul!Lo(x) = r
    BY <1>3, <1>5
  <2>4. d - Half \in Int /\ r \in Nat
    BY <1>1, <1>2
  <2> QED BY <2>1, <2>2, <2>3, <2>4
<1>6. CASE ~(signed /\ 2 * x >= Half * Half)
  <2>1. Mul!Value(x, signed) = x
    BY <1>1, <1>6 DEF Mul!Value
  <2> QED BY <1>1, <1>2, <1>3, <1>6, <2>1
<1> QED BY <1>5, <1>6

(* Four partial products are the product of the numbers.                   *)
LEMMA Distributes ==
  ASSUME NEW h \in Nat, NEW a \in Int, NEW b \in Int, NEW x \in Nat, NEW y \in Nat
  PROVE  (a * h + x) * (b * h + y) = (x * b + a * y) * h + (a * b) * (h * h) + x * y
<1>1. (a * h + x) * (b * h + y) = (a * h) * (b * h) + (a * h) * y + x * (b * h) + x * y
  OBVIOUS
<1>2. (a * h) * (b * h) = (a * b) * (h * h)
  OBVIOUS
<1>3. (a * h) * y = (a * y) * h /\ x * (b * h) = (x * b) * h
  OBVIOUS
<1>4. (x * b + a * y) * h = (x * b) * h + (a * y) * h
  OBVIOUS
<1> QED BY <1>1, <1>2, <1>3, <1>4

(* The product register has the exact product, modulo two words.           *)
LEMMA ProductExact ==
  ASSUME NEW o \in Mul!Op
  PROVE  Mul!Exact(o) \in Int /\ Mul!Product(o) = Mul!Exact(o) % (M * M)
<1>1. o.rs1 \in Word /\ o.rs2 \in Word /\ o.funct3 \in {"mul", "mulh", "mulhsu", "mulhu"}
  BY OperandsAssumption DEF Mul!Op, Mul!Functs
<1> DEFINE s1 == Mul!Signed1(o.funct3)
           s2 == Mul!Signed2(o.funct3)
           a == Mul!Hi(o.rs1, s1)
           b == Mul!Hi(o.rs2, s2)
           x == Mul!Lo(o.rs1)
           y == Mul!Lo(o.rs2)
           cross == x * b + a * y
<1>2. s1 \in BOOLEAN /\ s2 \in BOOLEAN /\ s1 = (o.funct3 # "mulhu") /\ s2 = (o.funct3 \in {"mul", "mulh"})
  BY <1>1 DEF Mul!Signed1, Mul!Signed2
<1>3. /\ a \in Int /\ x \in Nat /\ Mul!Value(o.rs1, s1) = a * Half + x
      /\ b \in Int /\ y \in Nat /\ Mul!Value(o.rs2, s2) = b * Half + y
  BY <1>1, <1>2, Split
<1>4. Mul!Exact(o) = Mul!Value(o.rs1, s1) * Mul!Value(o.rs2, s2)
  BY <1>2 DEF Mul!Exact
<1>5. Mul!Product(o) = (cross * Half + ((a * b) % M) * M + x * y) % (M * M)
  BY Sizes DEF Mul!Product
<1> HIDE DEF s1, s2, a, b, x, y
<1>6. Mul!Exact(o) = cross * Half + (a * b) * M + x * y
  BY <1>3, <1>4, Sizes, Distributes
<1> DEFINE k == (a * b) \div M
           r == (a * b) % M
           c == cross * Half + x * y
<1>7. a * b \in Int /\ c \in Int /\ M \in Nat /\ M > 0 /\ M * M \in Nat /\ M * M > 0
  <2>1. a * b \in Int /\ c \in Int
    BY <1>3, Sizes
  <2>2. M \in Nat /\ M > 0 /\ M * M \in Nat /\ M * M > 0
    BY Sizes
  <2> QED BY <2>1, <2>2
<1>8. k \in Int /\ r \in 0..(M - 1) /\ a * b = k * M + r
  BY <1>7, Euclid
<1> HIDE DEF k, r, c
<1>9. (a * b) * M = k * (M * M) + r * M
  <2>1. (k * M + r) * M = k * (M * M) + r * M
    BY <1>7, <1>8
  <2> QED BY <1>8, <2>1
<1>10. Mul!Exact(o) = k * (M * M) + (c + r * M) /\ Mul!Product(o) = (c + r * M) % (M * M)
  <2>1. cross * Half \in Int /\ x * y \in Int /\ r * M \in Int
    BY <1>3, <1>7, <1>8, Sizes
  <2>2. k * (M * M) \in Int
    BY <1>7, <1>8
  <2>3. cross * Half + (a * b) * M + x * y = k * (M * M) + (cross * Half + x * y + r * M)
    BY <1>9, <2>1, <2>2
  <2>4. cross * Half + r * M + x * y = cross * Half + x * y + r * M
    BY <2>1
  <2> QED BY <1>5, <1>6, <2>3, <2>4 DEF c, r
<1> DEFINE z == c + r * M
           l == z \div (M * M)
           w == z % (M * M)
<1>11. z \in Int
  BY <1>7, <1>8
<1>12. l \in Int /\ w \in 0..(M * M - 1) /\ z = l * (M * M) + w
  BY <1>7, <1>11, Euclid
<1>13. Mul!Product(o) = w
  BY <1>10
<1> HIDE DEF z, l, w
<1>14. Mul!Exact(o) = (k + l) * (M * M) + w /\ Mul!Exact(o) \in Int
  <2>1. Mul!Exact(o) = k * (M * M) + z
    BY <1>10 DEF z
  <2>2. (k + l) * (M * M) = k * (M * M) + l * (M * M)
    BY <1>7, <1>8, <1>12
  <2>3. k * (M * M) \in Int /\ l * (M * M) \in Int
    BY <1>7, <1>8, <1>12
  <2> QED BY <1>12, <2>1, <2>2, <2>3
<1>15. Mul!Exact(o) % (M * M) = w
  <2>1. k + l \in Int
    BY <1>8, <1>12
  <2> QED BY <1>7, <1>12, <1>14, <2>1, Unique
<1> QED BY <1>13, <1>14, <1>15

-----------------------------------------------------------------------------
(***************************************************************************)
(* Around EX/MEM: the divider runs as on its own, and what is in MEM is in *)
(* the multiplier's register.                                              *)
(***************************************************************************)
LEMMA DivStep == [MDNext]_allvars => [Next]_vars
<1> SUFFICES ASSUME [MDNext]_allvars PROVE [Next]_vars
  OBVIOUS
<1>1. CASE IssueDiv
  BY <1>1 DEF IssueDiv, Next, Issue
<1>2. CASE IssueMul \/ IssueOther \/ Wait
  BY <1>2 DEF IssueMul, IssueOther, Wait, Next
<1>3. CASE Squash
  BY <1>3 DEF Squash, Next
<1>4. CASE UNCHANGED allvars
  BY <1>4 DEF allvars, vars
<1> QED BY <1>1, <1>2, <1>3, <1>4 DEF MDNext

(* div_unit.sv: nothing around the divider disturbs it, so that what holds *)
(* of it alone holds here.                                                 *)
THEOREM DividerAlone == MDSpec => Spec
<1>1. MDInit => Init
  BY DEF MDInit
<1> QED BY <1>1, DivStep, PTL DEF MDSpec, Spec

MulRight ==
  inmem # None => /\ inmem \in Mul!Op /\ funct3 = inmem.funct3
                  /\ product = Mul!Product(inmem)

MulInv == MulRight /\ NotPassed

LEMMA MulStep ==
  ASSUME DivInv, MulInv, [MDNext]_allvars
  PROVE  MulInv'
<1>0. ASSUME inmem' = None PROVE MulInv'
  BY <1>0 DEF MulInv, MulRight, NotPassed
<1>1. CASE IssueDiv
  <2>1. inmem' = None
    BY <1>1 DEF IssueDiv, Mul!Cycle
  <2> QED BY <1>0, <2>1
<1>2. CASE IssueMul
  <2>1. PICK o \in Mul!Op : Mul!Cycle(o, o, FALSE)
    BY <1>2 DEF IssueMul
  <2>2. inmem' = o /\ funct3' = o.funct3 /\ product' = Mul!Product(o)
    BY <2>1 DEF Mul!Cycle, Mul!Latch
  <2>3. pending' = None
    <3>1. pending' = IF Ready THEN None ELSE pending
      BY <1>2 DEF IssueMul, Work, Cycle
    <3>2. ~Busy /\ (pending # None => Busy # Ready)
      BY <1>2 DEF IssueMul, DivInv, PhaseInv
    <3>3. Ready \in BOOLEAN /\ Busy \in BOOLEAN
      BY DEF DivInv, TypeOK, Ready, Busy, Start
    <3> QED BY <3>1, <3>2, <3>3
  <2> QED BY <2>2, <2>3 DEF MulInv, MulRight, NotPassed
<1>3. CASE IssueOther
  <2>1. inmem' = None
    BY <1>3 DEF IssueOther, Mul!Cycle
  <2> QED BY <1>0, <2>1
<1>4. CASE Wait
  <2>1. inmem' = inmem /\ funct3' = funct3 /\ product' = product
    BY <1>4 DEF Wait, Mul!Hold
  <2>2. pending' = IF Ready THEN None ELSE pending
    BY <1>4 DEF Wait, Work, Cycle
  <2> QED BY <2>1, <2>2 DEF MulInv, MulRight, NotPassed
<1>5. CASE Squash
  <2>1. inmem' = None
    BY <1>5 DEF Squash, Mul!Hold, Mul!Cycle
  <2> QED BY <1>0, <2>1
<1>6. CASE UNCHANGED allvars
  BY <1>6 DEF allvars, vars, MulInv, MulRight, NotPassed
<1> QED BY <1>1, <1>2, <1>3, <1>4, <1>5, <1>6 DEF MDNext

(* mul_unit.sv, data_path.sv: EX/MEM and the product register go together, *)
(* and no multiplication passes a division.                                *)
THEOREM MulInvariance == MDSpec => []MulInv
<1>1. MDInit => MulInv
  BY DEF MDInit, Mul!Init, MulInv, MulRight, NotPassed
<1>2. MDSpec => []DivInv
  BY DividerAlone, Invariance, PTL
<1>3. DivInv /\ MulInv /\ [MDNext]_allvars => MulInv'
  BY MulStep
<1> QED BY <1>1, <1>2, <1>3, PTL DEF MDSpec

(* data_path.sv: the divider's busy signal leaves no cycle out.            *)
THEOREM NonePasses == MDSpec => []NotPassed
<1>1. MulInv => NotPassed
  BY DEF MulInv
<1> QED BY <1>1, MulInvariance, PTL

(* mul_unit.sv: for every multiplication, all operands and any width, the  *)
(* half that it asks for.                                                  *)
THEOREM HalvesRight == MDSpec => []ProductRight
<1>1. ASSUME MulInv PROVE ProductRight
  <2> SUFFICES ASSUME inmem # None
               PROVE  Mul!Result = IF inmem.funct3 = "mul" THEN Mul!Exact(inmem) % Mul!M
                                   ELSE (Mul!Exact(inmem) \div Mul!M) % Mul!M
    BY DEF ProductRight, Mul!HalfRight
  <2>1. inmem \in Mul!Op /\ funct3 = inmem.funct3 /\ product = Mul!Product(inmem)
    BY <1>1 DEF MulInv, MulRight
  <2> DEFINE e == Mul!Exact(inmem)
  <2>2. e \in Int /\ product = e % (M * M)
    BY <2>1, ProductExact
  <2> HIDE DEF e
  <2>3. product % M = e % M /\ product \div M = (e \div M) % M
    BY <2>2, Sizes, Halves
  <2>4. Mul!Result = IF funct3 = "mul" THEN product % M ELSE product \div M
    BY Sizes DEF Mul!Result
  <2> QED BY <2>1, <2>3, <2>4, Sizes DEF e
<1> QED BY <1>1, MulInvariance, PTL

(* mul_unit.sv as FMUL uses it: behind a MULHU the whole product.          *)
THEOREM WholeThere == MDSpec => []FullRight
<1>1. ASSUME MulInv PROVE FullRight
  <2> SUFFICES ASSUME inmem # None, inmem.funct3 = "mulhu"
               PROVE  product = inmem.rs1 * inmem.rs2
    BY DEF FullRight, Mul!WholeRight
  <2>1. inmem \in Mul!Op /\ product = Mul!Exact(inmem) % (M * M)
    BY <1>1, ProductExact DEF MulInv, MulRight
  <2> DEFINE x == inmem.rs1
             y == inmem.rs2
  <2>2. x \in 0..(M - 1) /\ y \in 0..(M - 1) /\ M \in Nat /\ M > 0
    BY <2>1, OperandsAssumption, Sizes DEF Mul!Op, Word
  <2>3. Mul!Exact(inmem) = x * y
    BY DEF Mul!Exact, Mul!Value
  <2> HIDE DEF x, y
  <2>4. x * y \in Nat /\ x * y <= (M - 1) * (M - 1)
    <3>1. x * y \in Nat
      BY <2>2
    <3>2. x * y <= x * (M - 1)
      BY <2>2
    <3>3. x * (M - 1) <= (M - 1) * (M - 1)
      BY <2>2
    <3> QED BY <2>2, <3>1, <3>2, <3>3
  <2>5. (M - 1) * (M - 1) = M * M - 2 * M + 1
    BY <2>2
  <2>6. M * M \in Nat /\ M * M > 0
    BY <2>2
  <2>7. x * y \in 0..(M * M - 1) /\ x * y = 0 * (M * M) + x * y
    BY <2>2, <2>4, <2>5, <2>6
  <2>8. (x * y) % (M * M) = x * y
    BY <2>4, <2>6, <2>7, Unique
  <2> QED BY <2>1, <2>3, <2>8 DEF x, y
<1> QED BY <1>1, MulInvariance, PTL
=============================================================================
