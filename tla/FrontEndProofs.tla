----------------------------- MODULE FrontEndProofs -----------------------------
(***************************************************************************)
(* Proofs about FrontEnd, for any size of memory and any program.          *)
(***************************************************************************)
EXTENDS FrontEndInv, TLAPS

LEMMA ModFacts ==
  ASSUME NEW n \in Nat, n > 0, NEW x \in Int
  PROVE  /\ 0 <= x /\ x < n => x % n = x
         /\ n <= x /\ x < 2 * n => x % n = x - n
         /\ 0 - n <= x /\ x < 0 => x % n = x + n
<1>1. 0 <= x /\ x < n => x % n = x
  BY SMT
<1>2. n <= x /\ x < 2 * n => x % n = x - n
  BY SMT
<1>3. 0 - n <= x /\ x < 0 => x % n = x + n
  BY SMT
<1> QED BY <1>1, <1>2, <1>3

(* The addresses around one, without the remainder.                        *)
LEMMA PlusFacts ==
  ASSUME NEW a \in Addr
  PROVE  /\ Plus(a, 1) = IF a = N - 1 THEN 0 ELSE a + 1
         /\ Plus(a, 2) = IF a >= N - 2 THEN a + 2 - N ELSE a + 2
         /\ Plus(a, -1) = IF a = 0 THEN N - 1 ELSE a - 1
         /\ Plus(a, -2) = IF a < 2 THEN a - 2 + N ELSE a - 2
<1> a \in Int /\ 0 <= a /\ a < N /\ N \in Nat /\ N >= 8
  BY SizeAssumption DEF Addr
<1>1. Plus(a, 1) = IF a = N - 1 THEN 0 ELSE a + 1
  <2>1. CASE a = N - 1 BY <2>1, ModFacts, a + 1 \in Int DEF Plus
  <2>2. CASE a # N - 1 BY <2>2, ModFacts, a + 1 \in Int DEF Plus
  <2> QED BY <2>1, <2>2
<1>2. Plus(a, 2) = IF a >= N - 2 THEN a + 2 - N ELSE a + 2
  <2>1. CASE a >= N - 2 BY <2>1, ModFacts, a + 2 \in Int DEF Plus
  <2>2. CASE ~(a >= N - 2) BY <2>2, ModFacts, a + 2 \in Int DEF Plus
  <2> QED BY <2>1, <2>2
<1>3. Plus(a, -1) = IF a = 0 THEN N - 1 ELSE a - 1
  <2>1. CASE a = 0 BY <2>1, ModFacts, a + (-1) \in Int DEF Plus
  <2>2. CASE a # 0 BY <2>2, ModFacts, a + (-1) \in Int DEF Plus
  <2> QED BY <2>1, <2>2
<1>4. Plus(a, -2) = IF a < 2 THEN a - 2 + N ELSE a - 2
  <2>1. CASE a < 2 BY <2>1, ModFacts, a + (-2) \in Int DEF Plus
  <2>2. CASE ~(a < 2) BY <2>2, ModFacts, a + (-2) \in Int DEF Plus
  <2> QED BY <2>1, <2>2
<1> QED BY <1>1, <1>2, <1>3, <1>4

LEMMA PlusType ==
  ASSUME NEW a \in Addr
  PROVE  Plus(a, 1) \in Addr /\ Plus(a, 2) \in Addr /\ Plus(a, -1) \in Addr /\ Plus(a, -2) \in Addr
<1> a \in Int /\ 0 <= a /\ a < N /\ N \in Nat /\ N >= 8
  BY SizeAssumption DEF Addr
<1> QED BY PlusFacts DEF Addr

(* Back and forth, and no two addresses near to each other are the same.   *)
LEMMA PlusPlus ==
  ASSUME NEW a \in Addr
  PROVE  /\ Plus(Plus(a, 2), -2) = a /\ Plus(Plus(a, 2), -1) = Plus(a, 1)
         /\ Plus(Plus(a, 1), -1) = a /\ Plus(Plus(a, -1), 1) = a
         /\ Plus(Plus(a, -1), 2) = Plus(a, 1) /\ Plus(Plus(a, -2), 2) = a
         /\ Plus(Plus(a, -2), 1) = Plus(a, -1)
<1> a \in Int /\ 0 <= a /\ a < N /\ N \in Nat /\ N >= 8
  BY SizeAssumption DEF Addr
<1>1. Plus(a, 1) \in Addr /\ Plus(a, 2) \in Addr /\ Plus(a, -1) \in Addr /\ Plus(a, -2) \in Addr
  BY PlusType
<1>2. Plus(Plus(a, 2), -2) = a /\ Plus(Plus(a, 2), -1) = Plus(a, 1)
  <2> DEFINE b == Plus(a, 2)
  <2>1. b = IF a >= N - 2 THEN a + 2 - N ELSE a + 2
    BY PlusFacts
  <2>2. /\ Plus(b, -1) = IF b = 0 THEN N - 1 ELSE b - 1
        /\ Plus(b, -2) = IF b < 2 THEN b - 2 + N ELSE b - 2
    BY <1>1, PlusFacts
  <2>3. Plus(a, 1) = IF a = N - 1 THEN 0 ELSE a + 1
    BY PlusFacts
  <2> QED BY <2>1, <2>2, <2>3
<1>3. Plus(Plus(a, 1), -1) = a
  <2> DEFINE b == Plus(a, 1)
  <2>1. b = IF a = N - 1 THEN 0 ELSE a + 1
    BY PlusFacts
  <2>2. Plus(b, -1) = IF b = 0 THEN N - 1 ELSE b - 1
    BY <1>1, PlusFacts
  <2> QED BY <2>1, <2>2
<1>4. Plus(Plus(a, -1), 1) = a /\ Plus(Plus(a, -1), 2) = Plus(a, 1)
  <2> DEFINE b == Plus(a, -1)
  <2>1. b = IF a = 0 THEN N - 1 ELSE a - 1
    BY PlusFacts
  <2>2. /\ Plus(b, 1) = IF b = N - 1 THEN 0 ELSE b + 1
        /\ Plus(b, 2) = IF b >= N - 2 THEN b + 2 - N ELSE b + 2
    BY <1>1, PlusFacts
  <2>3. Plus(a, 1) = IF a = N - 1 THEN 0 ELSE a + 1
    BY PlusFacts
  <2> QED BY <2>1, <2>2, <2>3
<1>5. Plus(Plus(a, -2), 2) = a /\ Plus(Plus(a, -2), 1) = Plus(a, -1)
  <2> DEFINE b == Plus(a, -2)
  <2>1. b = IF a < 2 THEN a - 2 + N ELSE a - 2
    BY PlusFacts
  <2>2. /\ Plus(b, 1) = IF b = N - 1 THEN 0 ELSE b + 1
        /\ Plus(b, 2) = IF b >= N - 2 THEN b + 2 - N ELSE b + 2
    BY <1>1, PlusFacts
  <2>3. Plus(a, -1) = IF a = 0 THEN N - 1 ELSE a - 1
    BY PlusFacts
  <2> QED BY <2>1, <2>2, <2>3
<1> QED BY <1>2, <1>3, <1>4, <1>5

(* The halves of words: memory has whole words.                            *)
LEMMA Parity ==
  ASSUME NEW a \in Addr
  PROVE  /\ WordOf(a) \in Word0 \ {None} /\ WordOf(a) # None /\ a # None
         /\ a % 2 = 0 => /\ WordOf(a) = a /\ High(WordOf(a)) = Plus(a, 1)
                         /\ Plus(a, 2) % 2 = 0
         /\ a % 2 # 0 => /\ a % 2 = 1 /\ High(WordOf(a)) = a /\ WordOf(a) = Plus(a, -1)
                         /\ Plus(a, 2) % 2 = 1 /\ Plus(a, 1) % 2 = 0
<1> a \in Int /\ 0 <= a /\ a < N /\ N \in Nat /\ N >= 8 /\ N % 2 = 0
  BY SizeAssumption DEF Addr
<1>1. a % 2 \in {0, 1} /\ WordOf(a) \in Addr /\ WordOf(a) % 2 = 0
  BY DEF WordOf, Addr
<1>2. WordOf(a) \in Word0 \ {None} /\ WordOf(a) # None /\ a # None
  BY <1>1, ProgAssumption DEF Word0
<1>3. ASSUME a % 2 = 0
      PROVE  WordOf(a) = a /\ High(WordOf(a)) = Plus(a, 1) /\ Plus(a, 2) % 2 = 0
  <2>1. WordOf(a) = a /\ High(WordOf(a)) = a + 1
    BY <1>2, <1>3 DEF WordOf, High
  <2>2. a # N - 1
    BY <1>3
  <2>3. Plus(a, 2) % 2 = 0
    <3>1. (a + 2) % 2 = 0 /\ (a + 2 - N) % 2 = 0
      BY <1>3
    <3> QED BY <3>1, PlusFacts
  <2> QED BY <2>1, <2>2, <2>3, PlusFacts
<1>4. ASSUME a % 2 # 0
      PROVE  /\ a % 2 = 1 /\ High(WordOf(a)) = a /\ WordOf(a) = Plus(a, -1)
             /\ Plus(a, 2) % 2 = 1 /\ Plus(a, 1) % 2 = 0
  <2>1. a % 2 = 1 /\ a # 0
    BY <1>1, <1>4
  <2>2. WordOf(a) = a - 1 /\ High(WordOf(a)) = a
    BY <1>2, <2>1 DEF WordOf, High
  <2>3. Plus(a, 2) % 2 = 1
    <3>1. (a + 2) % 2 = 1 /\ (a + 2 - N) % 2 = 1
      BY <2>1
    <3> QED BY <3>1, PlusFacts
  <2>4. Plus(a, 1) % 2 = 0
    <3>1. (a + 1) % 2 = 0 /\ 0 % 2 = 0
      BY <2>1
    <3> QED BY <3>1, PlusFacts
  <2> QED BY <2>1, <2>2, <2>3, <2>4, PlusFacts
<1> QED BY <1>2, <1>3, <1>4

(***************************************************************************)
(* iadu hands on whole instructions, without a gap.                        *)
(***************************************************************************)
TakesWord == /\ pc2' = CorrectedPc1
             /\ pc1' = IF Hold THEN CorrectedPc1 ELSE Plus(CorrectedPc1, 2)
             /\ state' = NextState /\ prev' = InstIf2

HandedOn == /\ pc2' \in Addr /\ pc1' \in Addr /\ CorrectedPc2 \in Addr
            /\ pc1' = IF state' = "HOLD" THEN pc2' ELSE Plus(pc2', 2)
            /\ state' \in {"NORMAL", "FETCH_UPPER", "HOLD"}
            /\ state' # "NORMAL" => High(prev') = CorrectedPc2'
            /\ state' = "HOLD" => pc2' % 2 = 0 /\ High(prev') \notin wide /\ Inst # <<>>
            /\ state' = "FETCH_UPPER" => High(prev') \in wide /\ (Inst = <<>> => Misaligned')
            /\ state' = "NORMAL" => ~Misaligned'
            /\ Inst = <<>> => state = "NORMAL" /\ Misaligned
            /\ IF Inst = <<>> THEN CorrectedPc2' = CorrectedPc2
               ELSE /\ CorrectedPc2' = Succ(CorrectedPc2)
                    /\ CorrectedPc2' = Plus(CorrectedPc2, IF Comp THEN 1 ELSE 2)
                    /\ Inst = IF CorrectedPc2 \in wide
                              THEN <<CorrectedPc2, Plus(CorrectedPc2, 1)>> ELSE <<CorrectedPc2>>

LEMMA HandsOn ==
  ASSUME FrontInv, pc2 # None, TakesWord
  PROVE  HandedOn
<1> DEFINE p == pc2
<1> USE DEF TakesWord
<1>1. /\ p \in Addr /\ p # None /\ None \notin Addr /\ InstIf2 = WordOf(p) /\ InstIf2 # None
      /\ state \in {"NORMAL", "FETCH_UPPER", "HOLD"} /\ pc1 \in Addr
      /\ pc1 = IF state = "HOLD" THEN p ELSE Plus(p, 2)
      /\ wide \subseteq Addr
  BY Parity, ProgAssumption DEF FrontInv, TypeOK, WordRight
<1>2. /\ Plus(p, 1) \in Addr /\ Plus(p, 2) \in Addr /\ Plus(p, -1) \in Addr /\ Plus(p, -2) \in Addr
      /\ Plus(p, 1) # None /\ Plus(p, 2) # None /\ Plus(Plus(p, 1), 2) \in Addr
  BY <1>1, PlusType
<1>3. /\ p % 2 = 0 => InstIf2 = p /\ High(InstIf2) = Plus(p, 1) /\ Plus(p, 2) % 2 = 0
      /\ p % 2 # 0 => /\ p % 2 = 1 /\ High(InstIf2) = p /\ InstIf2 = Plus(p, -1)
                      /\ Plus(p, 2) % 2 = 1 /\ Plus(p, 1) % 2 = 0
  BY <1>1, Parity
<1>4. High(InstIf2) # None
  BY <1>1, <1>2, <1>3
<1>5. CASE state = "NORMAL" /\ Misaligned
  <2>1. p % 2 = 1 /\ High(InstIf2) = p /\ ~ItsAJump /\ CorrectedPc2 = p
    BY <1>1, <1>3, <1>5 DEF Misaligned, ItsAJump, CorrectedPc2
  <2>2. CASE p \notin wide
    <3>1. NextComp /\ NextState = "NORMAL" /\ Inst = <<p>> /\ Comp /\ ~Hold
      BY <1>5, <2>1, <2>2 DEF NextComp, Wide, NextState, Inst, Comp, Hold
    <3>2. CorrectedPc1 = Plus(p, 1)
      BY <1>1, <1>5, <3>1, PlusPlus DEF CorrectedPc1, IncrementPcBy2
    <3>3. CorrectedPc2' = Plus(p, 1)
      BY <3>1, <3>2 DEF CorrectedPc2
    <3>4. ~Misaligned'
      BY <1>2, <1>3, <2>1, <3>2 DEF Misaligned
    <3> QED BY <1>1, <1>2, <2>1, <2>2, <3>1, <3>2, <3>3, <3>4 DEF HandedOn, Succ, Length
  <2>3. CASE p \in wide
    <3>1. ~NextComp /\ NextState = "FETCH_UPPER" /\ Inst = <<>> /\ ~Hold
      BY <1>1, <1>5, <2>1, <2>3 DEF NextComp, Wide, NextState, Inst, Hold
    <3>2. CorrectedPc1 = Plus(p, 2)
      BY <1>1, <1>5, <3>1 DEF CorrectedPc1, IncrementPcBy2
    <3>3. Misaligned' /\ CorrectedPc2' = p
      <4>1. Misaligned'
        BY <1>2, <1>3, <2>1, <3>2 DEF Misaligned
      <4> QED BY <1>1, <3>1, <3>2, <4>1, PlusPlus DEF CorrectedPc2
    <3> QED BY <1>1, <1>2, <1>5, <2>1, <2>3, <3>1, <3>2, <3>3, PlusType DEF HandedOn
  <2> QED BY <2>2, <2>3
<1>6. CASE state = "NORMAL" /\ ~Misaligned
  <2>1. /\ p % 2 = 0 /\ InstIf2 = p /\ High(InstIf2) = Plus(p, 1)
        /\ ~ItsAJump /\ CorrectedPc2 = p /\ CorrectedPc1 = Plus(p, 2)
    BY <1>1, <1>3, <1>6 DEF Misaligned, ItsAJump, CorrectedPc2, CorrectedPc1, IncrementPcBy2
  <2>2. ~Misaligned' /\ Plus(Plus(p, 2), -1) = Plus(p, 1)
    BY <1>1, <1>2, <1>3, <2>1, PlusPlus DEF Misaligned
  <2>3. CASE p \in wide
    <3>1. ~LowComp /\ NextState = "NORMAL" /\ Inst = <<p, Plus(p, 1)>> /\ ~Comp /\ ~Hold
      <4>1. ~LowComp
        BY <1>1, <2>1, <2>3 DEF LowComp, Wide, Low
      <4>2. Inst = <<p, Plus(p, 1)>>
        BY <1>1, <1>6, <2>1, <4>1 DEF Inst, Low
      <4> QED BY <1>6, <2>1, <4>1, <4>2 DEF NextState, Comp, Hold
    <3>2. CorrectedPc2' = Plus(p, 2)
      BY <2>1, <3>1 DEF CorrectedPc2
    <3> QED BY <1>1, <1>2, <2>1, <2>2, <2>3, <3>1, <3>2, PlusType DEF HandedOn, Succ, Length
  <2>4. ASSUME p \notin wide
        PROVE  LowComp /\ Inst = <<p>> /\ Comp
    <3>1. LowComp
      BY <1>1, <2>1, <2>4 DEF LowComp, Wide, Low
    <3> QED BY <1>6, <2>1, <3>1 DEF Inst, Comp, Low
  <2>5. CASE p \notin wide /\ Plus(p, 1) \notin wide
    <3>1. NextState = "HOLD" /\ Hold
      BY <1>6, <2>1, <2>4, <2>5 DEF NextComp, Wide, NextState, Hold
    <3>2. CorrectedPc2' = Plus(p, 1)
      BY <2>1, <2>2, <3>1 DEF CorrectedPc2
    <3>3. Inst = <<p>> /\ Comp
      BY <2>4, <2>5
    <3> QED BY <1>1, <1>2, <1>3, <2>1, <2>5, <3>1, <3>2, <3>3 DEF HandedOn, Succ, Length
  <2>6. CASE p \notin wide /\ Plus(p, 1) \in wide
    <3>1. NextState = "FETCH_UPPER" /\ ~Hold
      BY <1>1, <1>2, <1>6, <2>1, <2>4, <2>6 DEF NextComp, Wide, NextState, Hold
    <3>2. CorrectedPc2' = Plus(p, 1)
      BY <2>1, <2>2, <3>1 DEF CorrectedPc2
    <3>3. Inst = <<p>> /\ Comp
      BY <2>4, <2>6
    <3> QED BY <1>1, <1>2, <1>3, <2>1, <2>6, <3>1, <3>2, <3>3, PlusType DEF HandedOn, Succ, Length
  <2> QED BY <2>3, <2>5, <2>6
<1>7. CASE state = "FETCH_UPPER" /\ Misaligned
  <2>1. /\ p % 2 = 1 /\ InstIf2 = Plus(p, -1) /\ High(InstIf2) = p /\ ~ItsAJump
        /\ CorrectedPc2 = Plus(p, -2) /\ CorrectedPc2 \in Addr /\ CorrectedPc1 = Plus(p, 1)
    BY <1>1, <1>2, <1>3, <1>7, PlusPlus DEF Misaligned, ItsAJump, CorrectedPc2, CorrectedPc1, IncrementPcBy2
  <2>2. /\ High(prev) = CorrectedPc2 /\ CorrectedPc2 \in wide
        /\ Plus(CorrectedPc2, 1) = Plus(p, -1) /\ Plus(CorrectedPc2, 2) = p
    BY <1>1, <1>7, <2>1, PlusPlus DEF FrontInv, IaduRight
  <2>3. Inst = <<CorrectedPc2, Plus(CorrectedPc2, 1)>> /\ ~Comp
    BY <1>7, <2>1, <2>2 DEF Inst, Comp, Low
  <2>4. ~Misaligned' /\ Plus(Plus(p, 1), -1) = p
    BY <1>1, <1>2, <1>3, <2>1, PlusPlus DEF Misaligned
  <2>5. CASE p \notin wide
    <3>1. NextState = "HOLD" /\ Hold
      BY <1>7, <2>1, <2>5 DEF NextComp, Wide, NextState, Hold
    <3>2. CorrectedPc2' = p
      BY <2>1, <2>4, <3>1 DEF CorrectedPc2
    <3> QED BY <1>1, <1>2, <1>3, <2>1, <2>2, <2>3, <2>5, <3>1, <3>2 DEF HandedOn, Succ, Length
  <2>6. CASE p \in wide
    <3>1. NextState = "FETCH_UPPER" /\ ~Hold
      BY <1>1, <1>7, <2>1, <2>6 DEF NextComp, Wide, NextState, Hold
    <3>2. CorrectedPc2' = p
      BY <2>1, <2>4, <3>1 DEF CorrectedPc2
    <3> QED BY <1>1, <1>2, <1>3, <2>1, <2>2, <2>3, <2>6, <3>1, <3>2 DEF HandedOn, Succ, Length
  <2> QED BY <2>5, <2>6
<1>8. CASE state = "FETCH_UPPER" /\ ~Misaligned
  <2>1. /\ p % 2 = 0 /\ InstIf2 = p /\ High(InstIf2) = Plus(p, 1) /\ ~ItsAJump
        /\ CorrectedPc2 = Plus(p, -1) /\ CorrectedPc2 \in Addr /\ CorrectedPc1 = Plus(p, 2)
    BY <1>1, <1>2, <1>3, <1>8 DEF Misaligned, ItsAJump, CorrectedPc2, CorrectedPc1, IncrementPcBy2
  <2>2. /\ High(prev) = CorrectedPc2 /\ CorrectedPc2 \in wide
        /\ Plus(CorrectedPc2, 1) = p /\ Plus(CorrectedPc2, 2) = Plus(p, 1)
    BY <1>1, <1>8, <2>1, PlusPlus DEF FrontInv, IaduRight
  <2>3. Inst = <<CorrectedPc2, Plus(CorrectedPc2, 1)>> /\ ~Comp
    BY <1>8, <2>1, <2>2 DEF Inst, Comp, Low
  <2>4. ~Misaligned' /\ Plus(Plus(p, 2), -1) = Plus(p, 1)
    BY <1>1, <1>2, <1>3, <2>1, PlusPlus DEF Misaligned
  <2>5. CASE Plus(p, 1) \notin wide
    <3>1. NextState = "HOLD" /\ Hold
      BY <1>8, <2>1, <2>5 DEF NextComp, Wide, NextState, Hold
    <3>2. CorrectedPc2' = Plus(p, 1)
      BY <2>1, <2>4, <3>1 DEF CorrectedPc2
    <3> QED BY <1>1, <1>2, <1>3, <2>1, <2>2, <2>3, <2>5, <3>1, <3>2 DEF HandedOn, Succ, Length
  <2>6. CASE Plus(p, 1) \in wide
    <3>1. NextState = "FETCH_UPPER" /\ ~Hold
      BY <1>1, <1>2, <1>8, <2>1, <2>6 DEF NextComp, Wide, NextState, Hold
    <3>2. CorrectedPc2' = Plus(p, 1)
      BY <2>1, <2>4, <3>1 DEF CorrectedPc2
    <3> QED BY <1>1, <1>2, <1>3, <2>1, <2>2, <2>3, <2>6, <3>1, <3>2, PlusType DEF HandedOn, Succ, Length
  <2> QED BY <2>5, <2>6
<1>9. CASE state = "HOLD"
  <2>1. /\ p % 2 = 0 /\ High(prev) = CorrectedPc2 /\ CorrectedPc2 \notin wide
    BY <1>9 DEF FrontInv, IaduRight
  <2>2. /\ CorrectedPc2 = Plus(p, -1) /\ CorrectedPc2 \in Addr /\ CorrectedPc1 = p
        /\ Plus(CorrectedPc2, 1) = p
    BY <1>1, <1>2, <1>9, <2>1, PlusPlus DEF CorrectedPc2, CorrectedPc1, IncrementPcBy2, Misaligned
  <2>3. Inst = <<CorrectedPc2>> /\ Comp /\ NextState = "NORMAL" /\ ~Hold
    BY <1>9, <2>1 DEF Inst, Comp, NextState, Hold
  <2>4. CorrectedPc2' = p
    BY <2>2, <2>3 DEF CorrectedPc2
  <2>5. ~Misaligned'
    BY <2>1, <2>2 DEF Misaligned
  <2> QED BY <1>1, <1>2, <2>1, <2>2, <2>3, <2>4, <2>5 DEF HandedOn, Succ, Length
<1> QED BY <1>1, <1>5, <1>6, <1>7, <1>8, <1>9

(***************************************************************************)
(* What a cycle does to the fetch stages and ID: it clears them, fills     *)
(* them after a clear, takes the word in IF2, or leaves them alone.        *)
(***************************************************************************)
StepOf(target, written, kind) ==
  /\ target \in Addr /\ written \in Addr
  /\ kind \in Kinds /\ (~(RegEn /\ ex # None) => kind = "plain")
  /\ UNCHANGED wide
  /\ NextPc(target) /\ NextDpc(target, written) /\ NextExpect(target)
  /\ NextFetch /\ NextIadu /\ NextId /\ NextRan /\ NextBack(kind)
  /\ runff' = running /\ NextInputs
  /\ running' \in BOOLEAN /\ (running => running' = ~(Again \/ StepLeaves))
  /\ dcsr' \in [step : BOOLEAN, stepie : BOOLEAN]
  /\ running => dcsr' = dcsr

LEMMA Steps ==
  ASSUME FrontInv, Next
  PROVE  \E target, written \in Addr, kind \in Kinds : StepOf(target, written, kind)
<1>1. Targets \subseteq Addr /\ dpc \in Addr
  BY SizeAssumption DEF Targets, Addr, FrontInv, TypeOK
<1> DEFINE Dcsr == [step : BOOLEAN, stepie : BOOLEAN]
<1>2. ASSUME NEW written \in Addr, Cycle(written),
             running' \in BOOLEAN, running => running' = ~(Again \/ StepLeaves),
             dcsr' \in Dcsr, running => dcsr' = dcsr
      PROVE  \E target \in Addr, kind \in Kinds : StepOf(target, written, kind)
  <2>1. PICK target \in Targets : NextPc(target) /\ NextDpc(target, written) /\ NextExpect(target)
    BY <1>2 DEF Cycle
  <2>2. PICK kind \in (IF RegEn /\ ex # None THEN Kinds ELSE {"plain"}) : NextBack(kind)
    BY <1>2 DEF Cycle
  <2>3. kind \in Kinds /\ (~(RegEn /\ ex # None) => kind = "plain")
    BY <2>2 DEF Kinds
  <2>4. StepOf(target, written, kind)
    BY <1>1, <1>2, <2>1, <2>2, <2>3 DEF Cycle, StepOf
  <2> QED BY <1>1, <2>3, <2>4
<1>3. CASE RunCycle
  <2>1. running /\ running' = ~(Again \/ StepLeaves) /\ dcsr' = dcsr /\ Cycle(dpc)
    BY <1>3 DEF RunCycle
  <2>2. dcsr \in Dcsr
    BY DEF FrontInv, TypeOK
  <2>3. (Again \/ StepLeaves) \in BOOLEAN
    OBVIOUS
  <2> QED BY <1>1, <1>2, <2>1, <2>2, <2>3
<1>4. CASE HaltedCycle
  <2>1. PICK written \in Addr : Cycle(written)
    BY <1>4 DEF HaltedCycle
  <2>2. dcsr' \in Dcsr
    BY <1>4, DbgAssumption DEF HaltedCycle, FrontInv, TypeOK
  <2> QED BY <1>2, <1>4, <2>1, <2>2 DEF HaltedCycle
<1> QED BY <1>3, <1>4 DEF Next

(* Where nothing is in IF2, iadu hands on nothing.                         *)
LEMMA NoWord ==
  ASSUME FrontInv, pc2 = None
  PROVE  /\ state = "NORMAL" /\ ~Misaligned /\ ItsAJump /\ NextState = "NORMAL"
         /\ CorrectedPc1 = pc1 /\ ~Hold
         /\ ~clrff => InstIf2 = None /\ Inst = <<>>
<1>1. state = "NORMAL" /\ (clrff \/ InstIf2 = None)
  BY DEF FrontInv, WordRight, IaduRight
<1>2. ~Misaligned /\ ItsAJump
  BY DEF Misaligned, ItsAJump
<1>3. CorrectedPc1 = pc1 /\ ~Hold /\ NextState = "NORMAL"
  BY <1>1, <1>2 DEF CorrectedPc1, IncrementPcBy2, Hold, NextState
<1>4. ASSUME ~clrff PROVE Inst = <<>>
  BY <1>1, <1>2, <1>4 DEF Inst, LowComp
<1> QED BY <1>1, <1>2, <1>3, <1>4

LEMMA FromIaduType ==
  ASSUME FrontInv
  PROVE  /\ CorrectedPc1 \in Addr /\ InstIf2 \in Word0 /\ FromIadu \in Addr
         /\ pc2 # None => CorrectedPc2 \in Addr
<1>1. /\ pc1 \in Addr /\ pc2 \in Addr \union {None} /\ InstIf2 \in Word0
      /\ state \in {"NORMAL", "FETCH_UPPER", "HOLD"}
  BY DEF FrontInv, TypeOK, InstIf2
<1>2. CorrectedPc1 \in Addr
  BY <1>1, PlusType DEF CorrectedPc1
<1>3. pc2 # None => CorrectedPc2 \in Addr
  BY <1>1, PlusType DEF CorrectedPc2
<1> QED BY <1>1, <1>2, <1>3 DEF FromIadu

Clears == /\ IfIdClr /\ clrff' /\ pc2' = None
          /\ state' = "NORMAL" /\ id' = NopId
Fills  == /\ ~IfIdClr /\ IfIdEn /\ ~clrff' /\ pc2 = None
          /\ pc2' = pc1 /\ pc1' = Plus(pc1, 2) /\ InstIf2' = WordOf(pc2')
          /\ state' = "NORMAL" /\ id' = NopId
Takes  == /\ ~IfIdClr /\ IfIdEn /\ ~clrff' /\ pc2 # None
          /\ TakesWord /\ InstIf2' = WordOf(pc2')
          /\ id' = IF Inst = <<>> THEN NopId
                   ELSE [pc |-> CorrectedPc2, npc |-> Plus(CorrectedPc2, IF Comp THEN 1 ELSE 2),
                         inst |-> Inst]
Waits  == /\ ~IfIdClr /\ ~IfIdEn /\ ~clrff /\ ~clrff'
          /\ UNCHANGED <<pc1, pc2, state, prev, id>> /\ InstIf2' = InstIf2

LEMMA Moves ==
  ASSUME FrontInv, NEW target, NEW written, NEW kind, StepOf(target, written, kind)
  PROVE  Clears \/ Fills \/ Takes \/ Waits
<1>1. NextPc(target) /\ NextFetch /\ NextIadu /\ NextId
  BY DEF StepOf
<1>2. clrff' = IfIdClr /\ enff' = IfIdEn
  BY <1>1 DEF NextFetch
<1>3. CASE IfIdClr
  BY <1>1, <1>2, <1>3 DEF NextFetch, NextIadu, NextId, Clears
<1>4. ASSUME ~IfIdClr
      PROVE  /\ running /\ NoJump /\ ~DbgRet /\ ~Trap /\ ~TrapRet /\ ~Taken
             /\ clrff => IfIdEn
  <2>1. running /\ NoJump /\ ~DbgRet /\ ~Trap /\ ~TrapRet /\ ~Taken
    BY <1>4 DEF IfIdClr, ExeMemClr, NoJump
  <2>2. clrff => mem.kind = "plain" /\ id.inst = <<>>
    BY DEF FrontInv, EmptyRight
  <2>3. clrff => ~stall /\ ~hazard
    BY <2>2 DEF FrontInv, InputsRight
  <2> QED BY <2>1, <2>3 DEF IfIdEn
<1>5. CASE ~IfIdClr /\ IfIdEn
  <2>1. /\ pc2' = CorrectedPc1 /\ imem' = WordOf(CorrectedPc1)
        /\ pc1' = IF Hold THEN CorrectedPc1 ELSE Plus(CorrectedPc1, 2)
    BY <1>1, <1>4, <1>5 DEF NextFetch, NextPc, NextPcIf1
  <2>2. InstIf2' = WordOf(pc2')
    BY <1>2, <1>5, <2>1 DEF InstIf2
  <2>3. CASE pc2 = None
    <3>1. state' = "NORMAL" /\ id' = NopId
      BY <1>1, <1>5, <2>3, NoWord DEF NextIadu, NextId
    <3> QED BY <1>2, <1>5, <2>1, <2>2, <2>3, <3>1, NoWord DEF Fills
  <2>4. CASE pc2 # None
    <3>1. ~clrff
      BY <2>4 DEF FrontInv, WordRight
    <3>2. /\ state' = NextState /\ prev' = InstIf2
          /\ id' = IF Inst = <<>> THEN NopId
                   ELSE [pc |-> CorrectedPc2, npc |-> Plus(CorrectedPc2, IF Comp THEN 1 ELSE 2),
                         inst |-> Inst]
      BY <1>1, <1>5, <3>1 DEF NextIadu, NextId
    <3> QED BY <1>2, <1>5, <2>1, <2>2, <2>4, <3>2 DEF Takes, TakesWord
  <2> QED BY <2>3, <2>4
<1>6. CASE ~IfIdClr /\ ~IfIdEn
  <2>1. ~clrff
    BY <1>4, <1>6
  <2>2. pc1' = pc1 /\ pc2' = pc2 /\ state' = state /\ prev' = prev /\ id' = id
    BY <1>1, <1>4, <1>6, <2>1 DEF NextPc, NextFetch, NextIadu, NextId
  <2>3. InstIf2' = InstIf2
    BY <1>1, <1>2, <1>6 DEF NextFetch, InstIf2
  <2> QED BY <1>2, <1>6, <2>1, <2>2, <2>3 DEF Waits
<1> QED BY <1>3, <1>5, <1>6

-----------------------------------------------------------------------------
(***************************************************************************)
(* Each part of the invariant is kept.                                     *)
(***************************************************************************)
LEMMA WordKept ==
  ASSUME FrontInv, NEW target, NEW written, NEW kind, StepOf(target, written, kind)
  PROVE  WordRight'
<1>1. CASE Clears
  BY <1>1 DEF Clears, WordRight
<1>2. CASE Fills
  <2>1. pc1 \in Addr /\ pc1 # None
    BY ProgAssumption DEF FrontInv, TypeOK
  <2> QED BY <1>2, <2>1 DEF Fills, WordRight
<1>3. CASE Takes
  <2>1. HandedOn
    BY <1>3, HandsOn DEF Takes
  <2>2. pc2' # None
    BY <2>1, ProgAssumption DEF HandedOn
  <2>3. pc1' = IF state' = "HOLD" THEN pc2' ELSE Plus(pc2', 2)
    BY <2>1 DEF HandedOn
  <2> QED BY <1>3, <2>2, <2>3 DEF Takes, WordRight
<1>4. CASE Waits
  BY <1>4 DEF Waits, WordRight, FrontInv
<1> QED BY <1>1, <1>2, <1>3, <1>4, Moves

LEMMA IaduKept ==
  ASSUME FrontInv, NEW target, NEW written, NEW kind, StepOf(target, written, kind)
  PROVE  IaduRight' /\ Assembled'
<1>0. wide' = wide
  BY DEF StepOf
<1>1. CASE Clears
  BY <1>1 DEF Clears, IaduRight, Assembled, NopId
<1>2. CASE Fills
  <2>1. pc1 \in Addr /\ pc1 # None
    BY ProgAssumption DEF FrontInv, TypeOK
  <2> QED BY <1>2, <2>1 DEF Fills, IaduRight, Assembled, NopId
<1>3. CASE Takes
  <2>1. HandedOn
    BY <1>3, HandsOn DEF Takes
  <2>2. pc2' # None /\ InstIf2 # None /\ prev' = InstIf2
    <3>1. pc2 \in Addr
      BY <1>3 DEF Takes, FrontInv, TypeOK
    <3> QED BY <1>3, <2>1, <3>1, Parity, ProgAssumption DEF HandedOn, Takes, TakesWord, FrontInv, WordRight
  <2>3. id'.inst = Inst /\ (Inst # <<>> => /\ id'.pc = CorrectedPc2
                                           /\ id'.npc = Plus(CorrectedPc2, IF Comp THEN 1 ELSE 2))
    BY <1>3 DEF Takes, NopId
  <2>4. IaduRight'
    BY <1>0, <2>1, <2>2, <2>3 DEF HandedOn, IaduRight
  <2>5. Assembled'
    <3>1. Inst # <<>> => /\ Plus(CorrectedPc2, IF Comp THEN 1 ELSE 2) = Plus(CorrectedPc2, Length(CorrectedPc2))
                         /\ Inst = IF CorrectedPc2 \in wide
                              THEN <<CorrectedPc2, Plus(CorrectedPc2, 1)>> ELSE <<CorrectedPc2>>
      BY <2>1 DEF HandedOn, Succ
    <3> QED BY <1>0, <2>3, <3>1 DEF Assembled, Length
  <2> QED BY <2>4, <2>5
<1>4. CASE Waits
  <2>1. Misaligned' = Misaligned /\ CorrectedPc2' = CorrectedPc2
    BY <1>4 DEF Waits, Misaligned, CorrectedPc2
  <2> QED BY <1>0, <1>4, <2>1 DEF Waits, IaduRight, Assembled, Length, FrontInv
<1> QED BY <1>1, <1>2, <1>3, <1>4, Moves

LEMMA EmptyKept ==
  ASSUME FrontInv, NEW target, NEW written, NEW kind, StepOf(target, written, kind)
  PROVE  EmptyRight'
<1>1. NextBack(kind) /\ NextFetch /\ NextId /\ runff' = running
      /\ (~(RegEn /\ ex # None) => kind = "plain")
  BY DEF StepOf
<1>2. id'.pc = None <=> id'.inst = <<>>
  <2>1. CASE Clears \/ Fills
    BY <2>1 DEF Clears, Fills, NopId
  <2>2. CASE Takes
    <3>1. CorrectedPc2 # None
      BY <2>2, FromIaduType, ProgAssumption DEF Takes
    <3> QED BY <2>2, <3>1 DEF Takes, NopId
  <2>3. CASE Waits
    BY <2>3 DEF Waits, FrontInv, EmptyRight
  <2> QED BY <2>1, <2>2, <2>3, Moves
<1>3. mem'.pc = None => mem'.kind = "plain"
  <2>1. mem' = NopMem \/ mem' = [pc |-> ex, kind |-> IF ex = None THEN "plain" ELSE kind] \/ mem' = mem
    BY <1>1 DEF NextBack
  <2> QED BY <2>1 DEF NopMem, FrontInv, EmptyRight
<1>4. ASSUME clrff' \/ ~runff'
      PROVE  pc2' = None /\ id'.inst = <<>> /\ ex' = None /\ mem'.pc = None
  <2>1. IfIdClr
    BY <1>1, <1>4 DEF NextFetch, IfIdClr, ExeMemClr
  <2>2. pc2' = None /\ id' = NopId
    BY <1>1, <2>1 DEF NextFetch, NextId
  <2>3. CASE ExeMemClr
    BY <1>1, <2>2, <2>3 DEF NextBack, IdExeClr, NopId, NopMem
  <2>4. CASE ~ExeMemClr
    <3>1. ~runff
      BY <2>1, <2>4 DEF IfIdClr, DbgRet
    <3>2. id.pc = None /\ ex = None /\ mem.pc = None
      BY <3>1 DEF FrontInv, EmptyRight
    <3> QED BY <1>1, <2>2, <3>2 DEF NextBack, NopId, NopMem
  <2> QED BY <2>3, <2>4
<1>5. ~runff' => ~wb'
  BY <1>1 DEF NextBack
<1> QED BY <1>2, <1>3, <1>4, <1>5 DEF EmptyRight

LEMMA DenseKept ==
  ASSUME FrontInv, NEW target, NEW written, NEW kind, StepOf(target, written, kind)
  PROVE  DenseRight'
<1>1. NextBack(kind) /\ NextFetch
  BY DEF StepOf
<1>2. CASE Clears
  <2>1. id'.inst = <<>> /\ clrff'
    BY <1>2 DEF Clears, NopId
  <2>2. EmptyRight'
    BY EmptyKept
  <2> QED BY <2>1, <2>2 DEF EmptyRight, DenseRight
<1>3. ASSUME ~IfIdClr, ~clrff'
      PROVE  /\ ex' # None \/ mem'.pc # None \/ wb' => id.inst # <<>>
             /\ id.inst # <<>> => pc2 # None /\ (state = "NORMAL" => ~Misaligned)
  <2>1. DenseRight /\ (id.pc = None <=> id.inst = <<>>)
    BY DEF FrontInv, EmptyRight
  <2>2. ~ExeMemClr /\ ~Trap /\ ~TrapRet /\ running
    BY <1>3 DEF IfIdClr, ExeMemClr
  <2>3. ex' # None => ex # None \/ id.pc # None
    BY <1>1, <2>2 DEF NextBack
  <2>4. mem'.pc # None => ex # None \/ mem.pc # None
    BY <1>1, <2>2 DEF NextBack
  <2>5. wb' => mem.pc # None \/ (wb /\ ~clrff)
    <3>1. CASE RegEn
      BY <1>1, <2>2, <3>1 DEF NextBack
    <3>2. CASE ~RegEn
      <4>1. stall
        BY <2>2, <3>2 DEF RegEn
      <4>2. mem.pc # None
        BY <4>1 DEF FrontInv, InputsRight, EmptyRight
      <4> QED BY <4>2
    <3> QED BY <3>1, <3>2
  <2> QED BY <2>1, <2>3, <2>4, <2>5 DEF DenseRight
<1>4. CASE Fills
  <2>1. id.inst = <<>>
    BY <1>3, <1>4 DEF Fills
  <2> QED BY <1>3, <1>4, <2>1 DEF Fills, NopId, DenseRight
<1>5. CASE Takes
  <2>1. HandedOn
    BY <1>5, HandsOn DEF Takes
  <2>2. pc2' # None /\ (state' = "NORMAL" => ~Misaligned')
    BY <2>1, ProgAssumption DEF HandedOn
  <2>3. id.inst # <<>> => id'.inst # <<>>
    BY <1>3, <1>5, <2>1 DEF Takes, HandedOn
  <2> QED BY <1>3, <1>5, <2>2, <2>3 DEF Takes, DenseRight
<1>6. CASE Waits
  <2>1. Misaligned' = Misaligned
    BY <1>6 DEF Waits, Misaligned
  <2> QED BY <1>3, <1>6, <2>1 DEF Waits, DenseRight
<1> QED BY <1>2, <1>4, <1>5, <1>6, Moves

LEMMA InputsKept ==
  ASSUME Orderly, FrontInv, NEW target, NEW written, NEW kind, StepOf(target, written, kind)
  PROVE  InputsRight'
<1>1. NextInputs
  BY DEF StepOf
<1>2. /\ stall' => mem'.kind \in {"slow", "exc"}
      /\ hazard' => id'.inst # <<>>
      /\ irq' \/ haltreq' => running'
  BY <1>1 DEF NextInputs
<1>3. ~(hazard' /\ TrapRet') /\ ~(Refilling' /\ (irq' \/ haltreq')) /\ ~(haltreq' /\ (Trap' \/ DbgRet'))
  BY <1>1 DEF NextInputs, Orderly
<1> QED BY <1>2, <1>3 DEF InputsRight

(* What a trap or a halt saves is the oldest instruction.                  *)
LEMMA Saves ==
  ASSUME FrontInv, running, runff, Trap \/ Again
  PROVE  CinstPc = Oldest /\ CinstPc = expect
<1>0. Oldest = expect
  BY DEF FrontInv, Chain
<1>1. CASE mem.pc # None \/ ex # None \/ id.inst # <<>>
  BY <1>0, <1>1 DEF CinstPc, Oldest, FromEx, FromId
<1>2. CASE mem.pc = None /\ ex = None /\ id.inst = <<>>
  <2>1. Oldest = FromIadu /\ CinstPc = IF Inst # <<>> /\ ~clrff THEN pc2 ELSE pc1
    BY <1>2 DEF Oldest, FromEx, FromId, CinstPc
  <2>2. pc2 # None => ~Refilling
    <3>1. mem.kind = "plain"
      BY <1>2 DEF FrontInv, EmptyRight
    <3>2. pc2 # None => ~wb
      BY <1>2 DEF FrontInv, WordRight, DenseRight
    <3>3. pc2 # None => irq \/ haltreq
      BY <3>1, <3>2 DEF Trap, Again
    <3> QED BY <3>3 DEF FrontInv, InputsRight
  <2>3. pc2 # None => ~(FromIadu % 2 = 1 /\ FromIadu \in wide)
    BY <1>0, <1>2, <2>1, <2>2 DEF Refilling
  <2>4. CASE pc2 = None
    <3>1. FromIadu = pc1
      BY <2>4 DEF FromIadu
    <3> QED BY <1>0, <2>1, <2>4, <3>1, NoWord
  <2>5. CASE pc2 # None
    <3>1. /\ pc2 \in Addr /\ pc2 # None /\ InstIf2 = WordOf(pc2) /\ ~clrff
          /\ state \in {"NORMAL", "FETCH_UPPER", "HOLD"}
      BY <2>5 DEF FrontInv, TypeOK, WordRight
    <3>2. FromIadu = CorrectedPc2
      BY <2>5 DEF FromIadu
    <3>3. state # "HOLD"
      BY <1>2 DEF FrontInv, IaduRight
    <3>4. state # "FETCH_UPPER"
      <4>1. ASSUME state = "FETCH_UPPER" PROVE FALSE
        <5>1. CorrectedPc2 \in wide /\ Misaligned
          BY <1>2, <4>1 DEF FrontInv, IaduRight
        <5>2. CorrectedPc2 = Plus(pc2, -2) /\ pc2 % 2 # 0
          BY <4>1, <5>1 DEF CorrectedPc2, Misaligned
        <5>3. Plus(pc2, -2) \in Addr /\ Plus(Plus(pc2, -2), 2) = pc2
          BY <3>1, PlusType, PlusPlus
        <5>4. Plus(pc2, -2) % 2 = 1
          BY <5>2, <5>3, Parity
        <5> QED BY <2>3, <2>5, <3>2, <5>1, <5>2, <5>4
      <4> QED BY <4>1
    <3>5. state = "NORMAL" /\ FromIadu = pc2
      BY <3>1, <3>2, <3>3, <3>4 DEF CorrectedPc2
    <3>6. Inst # <<>>
      <4>1. CASE Misaligned
        <5>1. pc2 % 2 = 1 /\ High(InstIf2) = pc2
          BY <3>1, <4>1, Parity DEF Misaligned
        <5>2. NextComp
          BY <2>3, <2>5, <3>5, <5>1 DEF NextComp, Wide
        <5> QED BY <3>5, <4>1, <5>2 DEF Inst
      <4>2. CASE ~Misaligned
        BY <3>1, <3>5, <4>2, Parity DEF Inst
      <4> QED BY <4>1, <4>2
    <3> QED BY <1>0, <2>1, <3>1, <3>5, <3>6
  <2> QED BY <2>4, <2>5
<1> QED BY <1>0, <1>1, <1>2

(* Nothing can both stop a core and be the first cycle of its run.         *)
LEMMA Ran ==
  ASSUME FrontInv, running, Again \/ StepLeaves
  PROVE  /\ runff /\ ~DbgRet
         /\ Again => ~Trap
         /\ TrapRet => mem.pc # None /\ RegEn
<1>1. runff
  <2>1. CASE haltreq
    BY <2>1 DEF FrontInv, InputsRight, DbgRet
  <2>2. CASE wb
    BY <2>2 DEF FrontInv, EmptyRight
  <2>3. CASE TrapRet
    BY <2>3 DEF TrapRet, FrontInv, EmptyRight
  <2>4. CASE Trap
    BY <2>4 DEF Trap, DontTrap, DbgRet
  <2> QED BY <2>1, <2>2, <2>3, <2>4 DEF Again, StepLeaves
<1>2. ASSUME Again PROVE ~Trap
  <2>1. CASE haltreq
    BY <2>1 DEF FrontInv, InputsRight
  <2>2. CASE dcsr.step /\ wb
    BY <2>2 DEF Trap, DontTrap
  <2> QED BY <1>2, <2>1, <2>2 DEF Again
<1>3. ASSUME TrapRet PROVE mem.pc # None /\ RegEn
  BY <1>3 DEF TrapRet, RegEn, FrontInv, EmptyRight, InputsRight
<1> QED BY <1>1, <1>2, <1>3 DEF DbgRet

LEMMA RanKept ==
  ASSUME Orderly, FrontInv, NEW target, NEW written, NEW kind, StepOf(target, written, kind)
  PROVE  /\ RanRight' /\ ran' \in {0, 1}
         /\ running /\ ~running' /\ dcsr.step /\ ~haltreq => ran' = 1
<1>0. /\ NextRan /\ NextBack(kind) /\ (running => dcsr' = dcsr)
      /\ running => running' = ~(Again \/ StepLeaves)
  BY DEF StepOf
<1>1. CASE ~(running /\ dcsr.step)
  <2>1. ran' = 0
    BY <1>0, <1>1 DEF NextRan
  <2>2. ~running => ~wb'
    BY <1>0 DEF NextBack
  <2> QED BY <1>0, <1>1, <2>1, <2>2 DEF RanRight
<1>2. CASE running /\ dcsr.step /\ Again
  <2>1. ~Trap /\ ~Leaves
    BY <1>2, Ran DEF Leaves
  <2>2. ran' = ran /\ ran = IF wb THEN 1 ELSE 0
    BY <1>0, <1>2, <2>1 DEF NextRan, FrontInv, RanRight
  <2>3. ~haltreq => wb
    BY <1>2 DEF Again
  <2> QED BY <1>0, <1>2, <2>2, <2>3 DEF RanRight
<1>3. CASE running /\ dcsr.step /\ ~Again /\ StepLeaves
  <2>1. ~wb /\ ran = 0
    BY <1>3 DEF Again, FrontInv, RanRight
  <2>2. Trap \/ Leaves
    BY <1>3, Ran DEF StepLeaves, Leaves
  <2>3. ran' = 1
    BY <1>0, <1>3, <2>1, <2>2 DEF NextRan
  <2> QED BY <1>0, <1>3, <2>3 DEF RanRight
<1>4. CASE running /\ dcsr.step /\ ~Again /\ ~StepLeaves
  <2>1. ~wb /\ ran = 0 /\ ~Trap /\ ~TrapRet
    BY <1>4 DEF Again, StepLeaves, FrontInv, RanRight
  <2>2. ASSUME Leaves PROVE wb' /\ ran' = 1
    <3>1. wb'
      BY <1>0, <1>4, <2>1, <2>2 DEF NextBack, Leaves
    <3>2. ran < 2
      BY <2>1
    <3>3. ran' = ran + 1
      BY <1>0, <1>4, <2>2, <3>2, Zenon DEF NextRan
    <3> QED BY <2>1, <3>1, <3>3
  <2>3. ASSUME ~Leaves PROVE ~wb' /\ ran' = 0
    BY <1>0, <1>4, <2>1, <2>3 DEF NextBack, NextRan, Leaves
  <2> QED BY <1>0, <1>4, <2>2, <2>3 DEF RanRight
<1> QED BY <1>1, <1>2, <1>3, <1>4

LEMMA TypeKept ==
  ASSUME Orderly, FrontInv, NEW target, NEW written, NEW kind, StepOf(target, written, kind)
  PROVE  TypeOK'
<1>0. TypeOK /\ CorrectedPc1 \in Addr /\ InstIf2 \in Word0 /\ (pc2 # None => CorrectedPc2 \in Addr)
  BY FromIaduType DEF FrontInv
<1>1. wide' \in Wides
  BY <1>0 DEF StepOf, TypeOK
<1>2. pc1' \in Addr
  <2>1. Plus(CorrectedPc1, 2) \in Addr
    BY <1>0, PlusType
  <2> QED BY <1>0, <2>1 DEF StepOf, NextPc, NextPcIf1, TypeOK
<1>3. pc2' \in Addr \union {None} /\ imem' \in Word0 \ {None} /\ if2ff' \in Word0 /\ enff' \in BOOLEAN /\ clrff' \in BOOLEAN
  <2>1. WordOf(CorrectedPc1) \in Word0 \ {None}
    BY <1>0, Parity
  <2>2. IfIdEn \in BOOLEAN /\ IfIdClr \in BOOLEAN
    BY <1>0 DEF IfIdEn, IfIdClr, ExeMemClr, Trap, TrapRet, Taken, DbgRet, TypeOK
  <2>3. NextFetch
    BY DEF StepOf
  <2> QED BY <1>0, <2>1, <2>2, <2>3 DEF NextFetch, TypeOK, Word0
<1>4. state' \in {"NORMAL", "FETCH_UPPER", "HOLD"} /\ prev' \in Word0
  <2>1. NextState \in {"NORMAL", "FETCH_UPPER", "HOLD"}
    BY <1>0 DEF TypeOK, NextState
  <2>2. NextIadu
    BY DEF StepOf
  <2> QED BY <1>0, <2>1, <2>2 DEF NextIadu, TypeOK, Word0
<1>5. id'.pc \in Addr \union {None}
  BY <1>0, Moves DEF Clears, Fills, Takes, Waits, NopId, TypeOK
<1>6. ex' \in Addr \union {None} /\ mem' \in [pc : Addr \union {None}, kind : Kinds] /\ wb' \in BOOLEAN
  <2>1. NextBack(kind) /\ kind \in Kinds
    BY DEF StepOf
  <2>2. NopMem \in [pc : Addr \union {None}, kind : Kinds]
    BY DEF NopMem, Kinds
  <2>3. [pc |-> ex, kind |-> IF ex = None THEN "plain" ELSE kind] \in [pc : Addr \union {None}, kind : Kinds]
    BY <1>0, <2>1 DEF TypeOK, Kinds
  <2> QED BY <1>0, <2>1, <2>2, <2>3 DEF NextBack, TypeOK
<1>7. dpc' \in Addr
  <2>0. NextDpc(target, written) /\ written \in Addr /\ target \in Addr
    BY DEF StepOf
  <2>1. CASE running /\ Again
    <3>1. CinstPc = expect
      BY <2>1, Ran, Saves
    <3> QED BY <1>0, <2>0, <2>1, <3>1 DEF NextDpc, TypeOK
  <2>2. CASE running /\ ~Again /\ StepLeaves
    <3>1. NextPcIf1(target) = target
      BY <2>2, Ran DEF StepLeaves, NextPcIf1
    <3> QED BY <2>0, <2>2, <3>1 DEF NextDpc
  <2>3. CASE ~(running /\ (Again \/ StepLeaves))
    BY <1>0, <2>0, <2>3 DEF NextDpc, TypeOK
  <2> QED BY <2>1, <2>2, <2>3
<1>8. expect' \in Addr
  <2>1. mem.pc # None => Plus(mem.pc, Length(mem.pc)) \in Addr
    BY <1>0, PlusType DEF Length, TypeOK
  <2>2. NextExpect(target) /\ target \in Addr
    BY DEF StepOf
  <2> QED BY <1>0, <1>7, <2>1, <2>2 DEF NextExpect, Leaves, TypeOK
<1>9. {wb, running, runff, stall, hazard, irq, haltreq}' \subseteq BOOLEAN
  <2>1. NextInputs /\ runff' = running /\ running' \in BOOLEAN
    BY DEF StepOf
  <2>2. stall' \in BOOLEAN /\ hazard' \in BOOLEAN /\ irq' \in BOOLEAN /\ haltreq' \in BOOLEAN
    BY <2>1 DEF NextInputs
  <2> QED BY <1>0, <1>6, <2>1, <2>2 DEF TypeOK
<1>10. ran' \in {0, 1} /\ dcsr' \in [step : BOOLEAN, stepie : BOOLEAN]
  BY RanKept DEF StepOf
<1> QED BY <1>1, <1>2, <1>3, <1>4, <1>5, <1>6, <1>7, <1>8, <1>9, <1>10 DEF TypeOK

(* What moves one stage on keeps the chain whole.                          *)
LEMMA Advances ==
  ASSUME FrontInv, NEW target, NEW written, NEW kind, StepOf(target, written, kind),
         running, runff, ~IfIdClr
  PROVE  /\ id'.inst # <<>> => id'.npc = FromIadu'
         /\ ~IfIdEn => FromId' = FromId
         /\ IfIdEn => FromId' = FromIadu
<1>1. ASSUME Fills
      PROVE  id'.inst = <<>> /\ IfIdEn /\ FromId' = FromIadu
  <2>1. pc1 \in Addr /\ pc1 # None
    BY ProgAssumption DEF FrontInv, TypeOK
  <2>2. FromIadu = pc1 /\ FromIadu' = pc1
    BY <1>1, <2>1 DEF Fills, FromIadu, CorrectedPc2
  <2> QED BY <1>1, <2>2 DEF Fills, FromId, NopId
<1>2. ASSUME Takes
      PROVE  /\ id'.inst # <<>> => id'.npc = FromIadu'
             /\ IfIdEn /\ FromId' = FromIadu
  <2>1. HandedOn
    BY <1>2, HandsOn DEF Takes
  <2>2. FromIadu = CorrectedPc2 /\ FromIadu' = CorrectedPc2'
    BY <1>2, <2>1, ProgAssumption DEF Takes, FromIadu, HandedOn
  <2>3. CASE Inst = <<>>
    <3>1. CorrectedPc2' = CorrectedPc2
      BY <2>1, <2>3 DEF HandedOn
    <3> QED BY <1>2, <2>2, <2>3, <3>1 DEF Takes, FromId, NopId
  <2>4. CASE Inst # <<>>
    <3>1. CorrectedPc2' = Plus(CorrectedPc2, IF Comp THEN 1 ELSE 2)
      BY <2>1, <2>4 DEF HandedOn
    <3>2. /\ id'.inst = Inst /\ id'.pc = CorrectedPc2
          /\ id'.npc = Plus(CorrectedPc2, IF Comp THEN 1 ELSE 2)
      BY <1>2, <2>4 DEF Takes
    <3> QED BY <1>2, <2>2, <2>4, <3>1, <3>2 DEF Takes, FromId
  <2> QED BY <2>3, <2>4
<1>3. ASSUME Waits
      PROVE  FromIadu' = FromIadu /\ FromId' = FromId /\ ~IfIdEn /\ id' = id
  BY <1>3 DEF Waits, FromIadu, FromId, CorrectedPc2, Misaligned
<1>4. id.inst # <<>> => id.npc = FromIadu
  BY DEF FrontInv, Chain
<1> QED BY <1>1, <1>2, <1>3, <1>4, Moves DEF Clears

LEMMA ChainKept ==
  ASSUME Orderly, FrontInv, NEW target, NEW written, NEW kind, StepOf(target, written, kind)
  PROVE  Chain'
<1>0. /\ NextPc(target) /\ NextDpc(target, written) /\ NextExpect(target) /\ NextBack(kind)
      /\ wide' = wide /\ runff' = running
      /\ running => running' = ~(Again \/ StepLeaves)
  BY DEF StepOf
<1>1. CASE ~running
  <2>1. ~Trap
    BY <1>1 DEF Trap, DontTrap
  <2> QED BY <1>0, <1>1, <2>1 DEF Chain, NextExpect
<1>2. CASE running /\ Again
  <2>1. ~Trap /\ runff /\ ~Leaves
    BY <1>2, Ran DEF Leaves
  <2>2. CinstPc = expect
    BY <1>2, <2>1, Saves
  <2> QED BY <1>0, <1>2, <2>1, <2>2 DEF Chain, NextExpect, NextDpc
<1>3. CASE running /\ ~Again /\ StepLeaves
  <2>1. NextPcIf1(target) = target
    BY <1>3, Ran DEF StepLeaves, NextPcIf1
  <2>2. Trap \/ (TrapRet /\ Leaves)
    BY <1>3, Ran DEF StepLeaves, Leaves
  <2> QED BY <1>0, <1>3, <2>1, <2>2 DEF Chain, NextExpect, NextDpc
<1> DEFINE Runs == running /\ ~Again /\ ~StepLeaves
<1>4. ASSUME Runs, IfIdClr, pc1' = expect'
      PROVE  Chain'
  <2>1. /\ Clears /\ clrff'
    BY <1>4, Moves DEF Clears, Fills, Takes, Waits
  <2>2. EmptyRight'
    BY EmptyKept
  <2>3. pc2' = None /\ id'.inst = <<>> /\ ex' = None /\ mem'.pc = None
    BY <2>1, <2>2 DEF EmptyRight
  <2>4. running' /\ runff'
    BY <1>0, <1>4
  <2> QED BY <1>4, <2>3, <2>4 DEF Chain, Oldest, FromEx, FromId, FromIadu
<1>5. CASE Runs /\ DbgRet
  <2>1. IfIdClr /\ ~Trap /\ ~runff
    BY <1>5 DEF IfIdClr, Trap, DontTrap, DbgRet
  <2>2. mem.kind = "plain" /\ mem.pc = None /\ id.inst = <<>>
    BY <2>1 DEF FrontInv, EmptyRight
  <2>3. IfIdEn
    BY <1>5, <2>2 DEF FrontInv, InputsRight, IfIdEn
  <2>4. pc1' = dpc /\ expect' = expect /\ dpc = expect
    BY <1>0, <1>5, <2>1, <2>2, <2>3 DEF NextPc, NextPcIf1, NextExpect, Leaves, FrontInv, Chain
  <2> QED BY <1>4, <1>5, <2>1, <2>4
<1>6. CASE Runs /\ ~DbgRet /\ (Trap \/ TrapRet \/ Taken)
  <2>1. IfIdClr
    BY <1>6 DEF IfIdClr, ExeMemClr
  <2>2. CASE Trap
    BY <1>0, <1>4, <1>6, <2>1, <2>2 DEF NextPc, NextPcIf1, NoJump, NextExpect
  <2>3. CASE ~Trap
    <3>1. mem.kind \in {"mret", "jump"} /\ mem.pc # None
      BY <1>6, <2>3 DEF TrapRet, Taken, FrontInv, EmptyRight
    <3>2. ~stall /\ (hazard => Taken)
      BY <1>6, <2>3, <3>1 DEF FrontInv, InputsRight
    <3>3. RegEn /\ (IfIdEn \/ ~NoJump)
      BY <1>6, <3>2 DEF RegEn, IfIdEn, NoJump
    <3>4. pc1' = target /\ expect' = target
      BY <1>0, <1>6, <2>3, <3>1, <3>3 DEF NextPc, NextPcIf1, NextExpect, Leaves
    <3> QED BY <1>4, <1>6, <2>1, <3>4
  <2> QED BY <2>2, <2>3
<1>7. CASE Runs /\ ~DbgRet /\ ~Trap /\ ~TrapRet /\ ~Taken
  <2>1. runff /\ ~IfIdClr /\ ~ExeMemClr /\ running' /\ runff'
    BY <1>0, <1>7 DEF IfIdClr, ExeMemClr, DbgRet
  <2>2. /\ id.inst # <<>> => id.npc = FromIadu
        /\ ex # None => Succ(ex) = FromId
        /\ mem.pc # None => Succ(mem.pc) = FromEx
        /\ Oldest = expect
    BY <1>7, <2>1 DEF FrontInv, Chain
  <2>3. /\ id'.inst # <<>> => id'.npc = FromIadu'
        /\ ~IfIdEn => FromId' = FromId
        /\ IfIdEn => FromId' = FromIadu
    BY <1>7, <2>1, Advances
  <2>4. \A a : Succ(a)' = Succ(a')
    BY <1>0 DEF Succ, Length, Plus
  <2>5. CASE stall
    <3>1. ~RegEn /\ ~IfIdEn /\ ~IdExeClr
      BY <2>1, <2>5 DEF RegEn, IfIdEn, IdExeClr
    <3>2. ex' = ex /\ mem' = mem /\ expect' = expect
      BY <1>0, <1>7, <2>1, <3>1 DEF NextBack, NextExpect, Leaves
    <3>3. FromId' = FromId /\ FromEx' = FromEx /\ Oldest' = Oldest
      BY <2>3, <3>1, <3>2 DEF FromEx, Oldest
    <3> QED BY <1>0, <2>1, <2>2, <2>3, <3>2, <3>3 DEF Chain, Succ, Length
  <2>6. CASE ~stall
    <3>1. RegEn /\ (IfIdEn <=> ~hazard) /\ (IdExeClr <=> hazard)
      BY <1>7, <2>1, <2>6 DEF RegEn, IfIdEn, IdExeClr
    <3>2. /\ ex' = (IF hazard THEN None ELSE id.pc) /\ mem'.pc = ex
          /\ expect' = IF mem.pc = None THEN expect ELSE Succ(mem.pc)
      BY <1>0, <1>7, <2>1, <3>1 DEF NextBack, NextExpect, Leaves, Succ
    <3>3. expect' = FromEx
      BY <2>2, <3>2 DEF Oldest
    <3>4. FromEx' = FromId /\ (ex' # None => Succ(ex') = FromId')
      <4>1. CASE hazard
        BY <2>3, <3>1, <3>2, <4>1 DEF FromEx
      <4>2. CASE ~hazard
        <5>1. ex' = id.pc /\ FromId' = FromIadu
          BY <2>3, <3>1, <3>2, <4>2
        <5>2. id.pc = None <=> id.inst = <<>>
          BY DEF FrontInv, EmptyRight
        <5>3. id.inst # <<>> => id.npc = Succ(id.pc)
          BY DEF FrontInv, Assembled, Succ
        <5> QED BY <2>2, <5>1, <5>2, <5>3 DEF FromEx, FromId
      <4> QED BY <4>1, <4>2
    <3>5. mem'.pc # None => Succ(mem'.pc) = FromEx'
      BY <2>2, <3>2, <3>4
    <3>6. Oldest' = expect'
      BY <3>2, <3>3, <3>4 DEF Oldest, FromEx
    <3> QED BY <1>0, <2>1, <2>3, <3>4, <3>5, <3>6 DEF Chain, Succ, Length
  <2> QED BY <2>5, <2>6 DEF FrontInv, TypeOK
<1> QED BY <1>1, <1>2, <1>5, <1>6, <1>7, <1>3

-----------------------------------------------------------------------------
LEMMA Initial == Init => FrontInv
<1> SUFFICES ASSUME Init PROVE FrontInv
  OBVIOUS
<1>1. 0 \in Addr /\ 0 # None /\ None \in Word0 /\ imem \in Word0 \ {None}
  BY SizeAssumption, ProgAssumption DEF Addr, Init, Word0
<1>2. TypeOK
  <2>1. mem \in [pc : Addr \union {None}, kind : Kinds] /\ id.pc = None
    BY DEF Init, NopMem, NopId, Kinds
  <2> QED BY <1>1, <2>1 DEF Init, TypeOK
<1>3. Assembled /\ WordRight /\ IaduRight /\ EmptyRight /\ DenseRight /\ RanRight
  BY DEF Init, Assembled, DenseRight, RanRight, WordRight, IaduRight, EmptyRight, NopId, NopMem, InstIf2
<1>4. InputsRight
  BY DEF Init, InputsRight, NopMem, TrapRet
<1>5. Chain
  BY DEF Init, Chain, Oldest, FromEx, FromId, FromIadu, NopId, NopMem
<1> QED BY <1>2, <1>3, <1>4, <1>5 DEF FrontInv

LEMMA Stutters ==
  ASSUME FrontInv, UNCHANGED vars
  PROVE  FrontInv'
BY DEF vars, FrontInv, TypeOK, Assembled, Length, WordRight, IaduRight, EmptyRight, DenseRight, RanRight,
       InputsRight, Chain, Oldest, FromEx, FromId, FromIadu, CorrectedPc2, Misaligned, InstIf2, Succ,
       Refilling, Trap, TrapRet, DontTrap, DbgRet, Wide, NopId

(* The invariant holds for any memory size, any program and any times of   *)
(* redirections, stalls, hazards, traps, halts and resumes, if a hazard    *)
(* waits until an MRET has left MEM, and traps and halts do not come in    *)
(* the cycles that SkewedRefill and HaltAnytime name.                      *)
THEOREM Invariance == Orderly => (Spec => []FrontInv)
<1> SUFFICES ASSUME Orderly PROVE Spec => []FrontInv
  OBVIOUS
<1>1. Init => FrontInv
  BY Initial
<1>2. FrontInv /\ [Next]_vars => FrontInv'
  <2> SUFFICES ASSUME FrontInv, [Next]_vars PROVE FrontInv'
    OBVIOUS
  <2>1. CASE Next
    <3>1. PICK target \in Addr, written \in Addr, kind \in Kinds : StepOf(target, written, kind)
      BY <2>1, Steps
    <3> QED BY <3>1, TypeKept, IaduKept, WordKept, EmptyKept, DenseKept, RanKept, InputsKept, ChainKept DEF FrontInv
  <2>2. CASE UNCHANGED vars
    BY <2>2, Stutters
  <2> QED BY <2>1, <2>2
<1> QED BY <1>1, <1>2, PTL DEF Spec

(* data_path.sv, iadu.sv: every register of the path has its type.         *)
THEOREM TypeCorrect == Orderly => (Spec => []TypeOK)
<1>1. FrontInv => TypeOK
  BY DEF FrontInv
<1> QED BY <1>1, Invariance, PTL

(* iadu.sv: every instruction that reaches ID is whole, unmixed and the    *)
(* one its PC names, with the next one's address as its link.              *)
THEOREM Whole == Orderly => (Spec => []Assembled)
<1>1. FrontInv => Assembled
  BY DEF FrontInv
<1> QED BY <1>1, Invariance, PTL

(* data_path.sv: MEM only holds the instruction the program is at.         *)
THEOREM OnThePath == Orderly => (Spec => []PathRight)
<1>1. FrontInv => PathRight
  <2> SUFFICES ASSUME FrontInv, running, mem.pc # None PROVE mem.pc = expect
    BY DEF PathRight
  <2>1. runff
    BY DEF FrontInv, EmptyRight
  <2> QED BY <2>1 DEF FrontInv, Chain, Oldest
<1> QED BY <1>1, Invariance, PTL

(* data_path.sv, cinst_pc: a trap saves where the program is.              *)
THEOREM TrapsSave == Orderly => (Spec => []MepcRight)
<1>1. FrontInv => MepcRight
  <2> SUFFICES ASSUME FrontInv, Trap PROVE CinstPc = expect
    BY DEF MepcRight
  <2>1. running /\ runff
    BY DEF Trap, DontTrap, DbgRet
  <2> QED BY <2>1, Saves
<1> QED BY <1>1, Invariance, PTL

(* core_dbg_fsm.sv, dpc: so does a halt, and the debugger may change it.   *)
THEOREM HaltsSave == Orderly => (Spec => []DpcRight)
<1>1. FrontInv => DpcRight
  BY DEF FrontInv, Chain, DpcRight
<1> QED BY <1>1, Invariance, PTL

(* core_dbg_fsm.sv, dcsr[2]: a step is one instruction, or one trap.       *)
THEOREM OneAtATime == Orderly => (Spec => StepsOne)
<1> SUFFICES ASSUME Orderly PROVE Spec => StepsOne
  OBVIOUS
<1> DEFINE One == /\ ran' <= 1
                  /\ running /\ ~running' /\ dcsr.step /\ ~haltreq => ran' = 1
<1>1. FrontInv /\ [Next]_vars => [One]_vars
  <2> SUFFICES ASSUME FrontInv, Next PROVE One
    OBVIOUS
  <2>1. PICK target \in Addr, written \in Addr, kind \in Kinds : StepOf(target, written, kind)
    BY Steps
  <2> QED BY <2>1, RanKept
<1>2. Spec => []FrontInv
  BY Invariance
<1> QED BY <1>1, <1>2, PTL DEF Spec, StepsOne
=============================================================================
