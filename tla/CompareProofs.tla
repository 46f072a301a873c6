------------------------------ MODULE CompareProofs ------------------------------
(***************************************************************************)
(* The loop of instr_trace_compare.py against the changes of two traces of *)
(* any length.  Induction is over the places of Spike's trace: a set of    *)
(* numbers with 0 and the successor of each of its members has all of      *)
(* them.  A fold is a CHOOSE of a function that satisfies its equation, so *)
(* a proof about one first shows that there is such a function.            *)
(***************************************************************************)
EXTENDS TraceCompare, FiniteSetTheorems, WellFoundedInduction, TLAPS

(* A set of numbers that is not empty has a least member.                  *)
LEMMA Least ==
  ASSUME NEW T \in SUBSET Nat, T # {}
  PROVE  \E m \in T : \A k \in T : m <= k
<1> DEFINE R == OpToRel(<, Nat)
<1>1. \E m \in T : \A k \in T : <<k, m>> \notin R
  <2>1. IsWellFoundedOn(R, Nat)
    BY NatLessThanWellFounded, Zenon
  <2> HIDE DEF R
  <2> QED
    BY <2>1, WFMin
<1>2. PICK m \in T : \A k \in T : <<k, m>> \notin R
  BY <1>1
<1>3. \A k \in T : ~(k < m)
  BY <1>2, Zenon DEF OpToRel
<1> QED
  BY <1>3

(* A set with 0 and the successors of its numbers has every number.        *)
LEMMA Induction ==
  ASSUME NEW T, 0 \in T, \A n \in Nat : n \in T => n + 1 \in T
  PROVE  \A n \in Nat : n \in T
<1> SUFFICES ASSUME Nat \ T # {} PROVE FALSE
  OBVIOUS
<1>1. PICK m \in Nat \ T : \A k \in Nat \ T : m <= k
  BY Least
<1>2. m # 0 /\ m - 1 \in Nat /\ m - 1 \in T
  BY <1>1
<1> QED
  BY <1>1, <1>2

(* Min is the least member.                                                *)
LEMMA Smallest ==
  ASSUME NEW T \in SUBSET Nat, T # {}
  PROVE  Min(T) \in T /\ \A k \in T : Min(T) <= k
BY Least DEF Min

(* Max is the largest member of a set that is bounded.                     *)
LEMMA Largest ==
  ASSUME NEW n \in Nat, NEW T \in SUBSET (0..n), T # {}
  PROVE  Max(T) \in T /\ \A k \in T : k <= Max(T)
<1> DEFINE D == {n - k : k \in T}
<1>1. D \in SUBSET Nat /\ D # {}
  <2>1. \A k \in T : n - k \in Nat
    OBVIOUS
  <2> QED
    BY <2>1
<1>2. PICK d \in D : \A k \in D : d <= k
  BY <1>1, Least
<1>3. PICK m \in T : d = n - m
  OBVIOUS
<1>4. \A k \in T : n - k \in D
  OBVIOUS
<1>5. \A k \in T : m >= k
  BY <1>2, <1>3, <1>4
<1> QED
  BY <1>3, <1>5 DEF Max

(* Max of an interval is its end.                                          *)
LEMMA MaxUpto ==
  ASSUME NEW n \in Nat, NEW k \in 1..n
  PROVE  Max(1..k) = k
<1>1. \A x \in 1..k : (\A y \in 1..k : x >= y) <=> x = k
  OBVIOUS
<1> QED
  BY <1>1, k \in 1..k DEF Max

(* g satisfies the equation of a fold over the subsets of 1..n.            *)
IsFold(g, n, S, base, step, choose) ==
  /\ g \in [SUBSET (1..n) -> S]
  /\ \A s \in SUBSET (1..n) : g[s] = IF s = {} THEN base ELSE step[<<g[s \ {choose[s]}], choose[s]>>]

(* A function satisfies it, whichever member is chosen first.              *)
LEMMA FoldExists ==
  ASSUME NEW n \in Nat, NEW S, NEW base \in S, NEW step \in [S \X (1..n) -> S],
         NEW choose, \A s \in SUBSET (1..n) : s # {} => choose[s] \in s
  PROVE  \E g : IsFold(g, n, S, base, step, choose)
<1> DEFINE D == SUBSET (1..n)
           Kept(s) == s \ {choose[s]}
           Value(g, s) == IF s = {} THEN base ELSE step[<<g[Kept(s)], choose[s]>>]
           Upto(c) == \E g \in [D -> S] : \A s \in D : Cardinality(s) <= c => g[s] = Value(g, s)
           T == {c \in Nat : Upto(c)}
<1>1. \A s \in D : IsFiniteSet(s) /\ Cardinality(s) \in Nat /\ Cardinality(s) <= n
  <2>1. IsFiniteSet(1..n) /\ Cardinality(1..n) = n
    BY FS_Interval
  <2>2. ASSUME NEW s \in D PROVE IsFiniteSet(s) /\ Cardinality(s) <= n
    <3>1. IsFiniteSet(s) /\ Cardinality(s) <= Cardinality(1..n)
      <4> DEFINE U == 1..n
      <4>1. IsFiniteSet(U) /\ s \in SUBSET U
        BY <2>1
      <4> HIDE DEF U
      <4>2. IsFiniteSet(s) /\ Cardinality(s) <= Cardinality(U)
        BY <4>1, FS_Subset
      <4> QED
        BY <4>2 DEF U
    <3> QED
      BY <2>1, <3>1
  <2> QED
    BY <2>2, FS_CardinalityType
<1>2. \A s \in D : s # {} => Kept(s) \in D /\ Cardinality(Kept(s)) = Cardinality(s) - 1
  BY <1>1, FS_RemoveElement
<1>3. \A s \in D : Cardinality(s) <= 0 => s = {}
  BY <1>1, FS_EmptySet
<1>4. \A g \in [D -> S], s \in D : Value(g, s) \in S
  <2> SUFFICES ASSUME NEW g \in [D -> S], NEW s \in D, s # {} PROVE Value(g, s) \in S
    OBVIOUS
  <2>1. g[Kept(s)] \in S /\ choose[s] \in 1..n
    BY <1>2
  <2> QED
    BY <2>1
<1>5. 0 \in T
  <2> DEFINE g == [s \in D |-> base]
  <2>1. g \in [D -> S] /\ \A s \in D : Cardinality(s) <= 0 => g[s] = Value(g, s)
    BY <1>3
  <2> QED
    BY <2>1
<1>6. ASSUME NEW c \in Nat, c \in T PROVE c + 1 \in T
  <2>1. PICK g \in [D -> S] : \A s \in D : Cardinality(s) <= c => g[s] = Value(g, s)
    BY <1>6
  <2> DEFINE h == [s \in D |-> Value(g, s)]
  <2>2. h \in [D -> S]
    BY <1>4
  <2>3. ASSUME NEW s \in D, Cardinality(s) <= c + 1 PROVE h[s] = Value(h, s)
    <3>1. CASE s = {}
      BY <3>1
    <3>2. CASE s # {}
      <4>1. Kept(s) \in D /\ Cardinality(Kept(s)) <= c
        BY <1>1, <1>2, <2>3, <3>2
      <4>2. h[Kept(s)] = g[Kept(s)]
        BY <2>1, <4>1
      <4> QED
        BY <3>2, <4>2
    <3> QED
      BY <3>1, <3>2
  <2>4. \E f \in [D -> S] : \A s \in D : Cardinality(s) <= c + 1 => f[s] = Value(f, s)
    <3> HIDE DEF h, Value
    <3> QED
      BY <2>2, <2>3
  <2>5. Upto(c + 1)
    BY <2>4, Zenon
  <2> HIDE DEF Upto
  <2> QED
    BY <2>5
<1>7. n \in T
  <2> HIDE DEF T
  <2> QED
    BY <1>5, <1>6, Induction
<1>8. PICK g \in [D -> S] : \A s \in D : Cardinality(s) <= n => g[s] = Value(g, s)
  BY <1>7
<1>9. IsFold(g, n, S, base, step, choose)
  BY <1>1, <1>8 DEF IsFold
<1> QED
  BY <1>9

(* The same, taking the largest member: a fold over a sequence, from the   *)
(* left.                                                                   *)
IsLeftFold(g, n, S, base, step) ==
  /\ g \in [SUBSET (1..n) -> S]
  /\ \A s \in SUBSET (1..n) : g[s] = IF s = {} THEN base ELSE step[<<g[s \ {Max(s)}], Max(s)>>]
  /\ g[1..0] = base
  /\ \A k \in 1..n : g[1..k] = step[<<g[1..(k - 1)], k>>]

(* A function satisfies it too.                                            *)
LEMMA FoldLeftExists ==
  ASSUME NEW n \in Nat, NEW S, NEW base \in S, NEW step \in [S \X (1..n) -> S]
  PROVE  \E g : IsLeftFold(g, n, S, base, step)
<1> DEFINE choose == [s \in SUBSET (1..n) |-> Max(s)]
<1>1. \A s \in SUBSET (1..n) : s # {} => choose[s] \in s
  <2> SUFFICES ASSUME NEW s \in SUBSET (1..n), s # {} PROVE Max(s) \in s
    OBVIOUS
  <2>1. s \in SUBSET (0..n)
    OBVIOUS
  <2> QED
    BY <2>1, Largest
<1> HIDE DEF choose
<1>2. PICK g : IsFold(g, n, S, base, step, choose)
  BY <1>1, FoldExists
<1>3. /\ g \in [SUBSET (1..n) -> S]
      /\ \A s \in SUBSET (1..n) : g[s] = IF s = {} THEN base ELSE step[<<g[s \ {Max(s)}], Max(s)>>]
  BY <1>2 DEF choose, IsFold
<1>4. g[1..0] = base
  BY <1>3, 1..0 = {}
<1>5. ASSUME NEW k \in 1..n PROVE g[1..k] = step[<<g[1..(k - 1)], k>>]
  <2>1. Max(1..k) = k
    BY MaxUpto
  <2>2. (1..k) \ {k} = 1..(k - 1) /\ 1..k \in SUBSET (1..n) /\ 1..k # {}
    OBVIOUS
  <2> QED
    BY <1>3, <2>1, <2>2
<1> QED
  BY <1>3, <1>4, <1>5 DEF IsLeftFold
-----------------------------------------------------------------------------
(* The body of the loop, and the states it runs over.                      *)
LoopBody(core, st, e) ==
  IF st.ended \/ ~Changes(e, st.val1) THEN st ELSE Compare(core, st, e)

State(spike, core) ==
  LET V == {0} \cup {spike[k].val : k \in 1..Len(spike)} \cup {core[k].val : k \in 1..Len(core)}
  IN [j : 0..Len(core), val1 : [Regs -> V], val2 : [Regs -> V],
      matched : Nat, mismatch : Nat, ended : BOOLEAN]

(* NextChange finds the first change behind j, 0 if there is none.         *)
LEMMA NextChangeTyped ==
  ASSUME NEW core, Len(core) \in Nat, NEW j \in 0..Len(core), NEW val
  PROVE  /\ NextChange(core, j, val) \in 0..Len(core)
         /\ NextChange(core, j, val) # 0 =>
              NextChange(core, j, val) > j /\ Changes(core[NextChange(core, j, val)], val)
         /\ \A k \in (j + 1)..Len(core) : Changes(core[k], val) =>
              NextChange(core, j, val) # 0 /\ NextChange(core, j, val) <= k
<1> DEFINE cs == {k \in (j + 1)..Len(core) : Changes(core[k], val)}
<1>1. cs # {} => Min(cs) \in cs /\ \A k \in cs : Min(cs) <= k
  <2>1. cs \in SUBSET Nat
    OBVIOUS
  <2> HIDE DEF cs
  <2> QED
    BY <2>1, Smallest
<1>2. NextChange(core, j, val) = IF cs = {} THEN 0 ELSE Min(cs)
  BY DEF NextChange
<1> HIDE DEF cs
<1>3. \A k \in cs : k \in (j + 1)..Len(core) /\ Changes(core[k], val)
  BY DEF cs
<1>4. \A k \in (j + 1)..Len(core) : Changes(core[k], val) => k \in cs
  BY DEF cs
<1>5. CASE cs = {}
  BY <1>2, <1>4, <1>5
<1>6. CASE cs # {}
  BY <1>1, <1>2, <1>3, <1>4, <1>6
<1> QED
  BY <1>5, <1>6

(* The body keeps a state a state.                                         *)
LEMMA BodyTyped ==
  ASSUME NEW spike, IsTrace(spike), NEW core, IsTrace(core),
         NEW st \in State(spike, core), NEW k \in 1..Len(spike)
  PROVE  LoopBody(core, st, spike[k]) \in State(spike, core)
<1> DEFINE V == {0} \cup {spike[l].val : l \in 1..Len(spike)} \cup {core[l].val : l \in 1..Len(core)}
           e == spike[k]
           next == NextChange(core, st.j, st.val2)
           j == IF next = 0 THEN Len(core) ELSE next
<1>1. /\ st.j \in 0..Len(core) /\ st.val1 \in [Regs -> V] /\ st.val2 \in [Regs -> V]
      /\ st.matched \in Nat /\ st.mismatch \in Nat
  BY DEF State
<1>2. Len(core) \in Nat
  BY DEF IsTrace
<1>3. next \in 0..Len(core)
  BY <1>1, <1>2, NextChangeTyped
<1>4. \A l \in 1..Len(core) : core[l].val \in V
  OBVIOUS
<1>5. e.val \in V
  OBVIOUS
<1> HIDE DEF V, e, next
<1>6. Update(e, st.val1) \in [Regs -> V]
  BY <1>1, <1>5 DEF Update
<1>7. next # 0 => Update(core[next], st.val2) \in [Regs -> V]
  <2>1. next # 0 => core[next].val \in V
    BY <1>2, <1>3, <1>4
  <2> QED
    BY <1>1, <2>1 DEF Update
<1>8. CASE st.ended \/ ~Changes(e, st.val1)
  BY <1>8 DEF LoopBody, e
<1>9. CASE ~(st.ended \/ ~Changes(e, st.val1))
  <2>1. LoopBody(core, st, e) = Compare(core, st, e)
    BY <1>9 DEF LoopBody
  <2>2. j \in 0..Len(core)
    BY <1>2, <1>3
  <2>3. Compare(core, st, e) =
          [j |-> j, val1 |-> Update(e, st.val1),
           val2 |-> IF next = 0 THEN st.val2 ELSE Update(core[next], st.val2),
           matched |-> st.matched + (IF next # 0 /\ core[next] = e THEN 1 ELSE 0),
           mismatch |-> st.mismatch + (IF next # 0 /\ core[next] = e THEN 0 ELSE 1),
           ended |-> j = Len(core)]
    BY DEF Compare, next
  <2>4. Compare(core, st, e) \in
          [j : 0..Len(core), val1 : [Regs -> V], val2 : [Regs -> V],
           matched : Nat, mismatch : Nat, ended : BOOLEAN]
    BY <1>1, <1>6, <1>7, <2>2, <2>3
  <2> QED
    BY <2>1, <2>4 DEF State, V, e
<1> QED
  BY <1>8, <1>9

(* The loop is the sequence of the states that its body goes through.      *)
LEMMA LoopSteps ==
  ASSUME NEW spike, IsTrace(spike), NEW core, IsTrace(core)
  PROVE  \E st \in [0..Len(spike) -> State(spike, core)] :
           /\ st[0] = Start
           /\ \A k \in 1..Len(spike) : st[k] = LoopBody(core, st[k - 1], spike[k])
           /\ Loop(spike, core) = st[Len(spike)]
<1> DEFINE n == Len(spike)
           S == State(spike, core)
           step == [p \in S \X (1..n) |-> LoopBody(core, p[1], spike[p[2]])]
           F(g) == [s \in SUBSET DOMAIN spike |->
                      IF s = {} THEN Start
                      ELSE LoopBody(core, g[s \ {Max(s)}], spike[Max(s)])]
<1>1. n \in Nat /\ DOMAIN spike = 1..n
  BY DEF IsTrace
<1>2. Start \in S
  BY DEF Start, State, IsTrace
<1>3. step \in [S \X (1..n) -> S]
  <2> SUFFICES ASSUME NEW st \in S, NEW k \in 1..n PROVE LoopBody(core, st, spike[k]) \in S
    OBVIOUS
  <2> QED
    BY BodyTyped
<1> HIDE DEF step, S
<1>4. PICK g : IsLeftFold(g, n, S, Start, step)
  BY <1>1, <1>2, <1>3, FoldLeftExists
<1>5. /\ g \in [SUBSET (1..n) -> S]
      /\ \A s \in SUBSET (1..n) : g[s] = IF s = {} THEN Start ELSE step[<<g[s \ {Max(s)}], Max(s)>>]
      /\ g[1..0] = Start
      /\ \A k \in 1..n : g[1..k] = step[<<g[1..(k - 1)], k>>]
  BY <1>4 DEF IsLeftFold
<1>6. ASSUME NEW s \in SUBSET (1..n), s # {}
      PROVE  Max(s) \in 1..n /\ g[s] = LoopBody(core, g[s \ {Max(s)}], spike[Max(s)])
  <2>1. s \in SUBSET (0..n)
    BY <1>1
  <2>2. Max(s) \in s
    BY <1>1, <1>6, <2>1, Largest
  <2>3. g[s] = step[<<g[s \ {Max(s)}], Max(s)>>] /\ g[s \ {Max(s)}] \in S
    BY <1>5, <1>6
  <2> QED
    BY <2>2, <2>3 DEF step
<1>7. g = F(g)
  BY <1>1, <1>5, <1>6
<1> DEFINE h == CHOOSE f : f = F(f)
<1>8. Loop(spike, core) = h[DOMAIN spike]
  BY DEF Loop, FoldLeft, MapThenFoldSet, LoopBody
<1>9. h = F(h)
  <2> HIDE DEF F
  <2> QED
    BY <1>7
<1> HIDE DEF h
<1>10. h[1..0] = Start
  BY <1>1, <1>9, 1..0 = {}
<1>11. ASSUME NEW k \in 1..n PROVE h[1..k] = LoopBody(core, h[1..(k - 1)], spike[k])
  <2>1. Max(1..k) = k
    BY <1>1, MaxUpto
  <2>2. (1..k) \ {k} = 1..(k - 1) /\ 1..k \in SUBSET (1..n) /\ 1..k # {}
    BY <1>1
  <2> QED
    BY <1>1, <1>9, <2>1, <2>2
<1>12. \A k \in Nat : k <= n => h[1..k] \in S
  <2> DEFINE T == {k \in Nat : k <= n => h[1..k] \in S}
  <2>1. 0 \in T
    BY <1>2, <1>10 DEF S
  <2>2. ASSUME NEW k \in Nat, k \in T PROVE k + 1 \in T
    <3> SUFFICES ASSUME k + 1 <= n PROVE h[1..(k + 1)] \in S
      OBVIOUS
    <3>1. h[1..k] \in S /\ k + 1 \in 1..n /\ (k + 1) - 1 = k
      BY <1>1, <2>2
    <3>2. h[1..(k + 1)] = LoopBody(core, h[1..k], spike[k + 1])
      BY <1>11, <3>1
    <3> QED
      BY <3>1, <3>2, BodyTyped DEF S
  <2> HIDE DEF T
  <2>3. \A k \in Nat : k \in T
    BY <2>1, <2>2, Induction
  <2> QED
    BY <2>3 DEF T
<1> DEFINE st == [k \in 0..n |-> h[1..k]]
<1>13. st \in [0..n -> S]
  BY <1>1, <1>12
<1>14. st[0] = Start /\ st[n] = Loop(spike, core)
  BY <1>1, <1>8, <1>10
<1>15. ASSUME NEW k \in 1..n PROVE st[k] = LoopBody(core, st[k - 1], spike[k])
  BY <1>1, <1>11
<1> HIDE DEF st
<1> QED
  BY <1>13, <1>14, <1>15 DEF S
-----------------------------------------------------------------------------
(* The last value of a register in the first n entries of a trace.         *)
LastVal(t, n, r) ==
  LET before == {l \in 1..n : t[l].rd = r}
  IN IF before = {} THEN 0 ELSE t[Max(before)].val
Held(t, n) == [r \in Regs |-> LastVal(t, n, r)]

(* An entry more gives its own register another last value.                *)
LEMMA LastStep ==
  ASSUME NEW t, NEW n \in Nat, NEW r
  PROVE  LastVal(t, n + 1, r) = IF t[n + 1].rd = r THEN t[n + 1].val ELSE LastVal(t, n, r)
<1> DEFINE before == {l \in 1..n : t[l].rd = r}
           upto == {l \in 1..(n + 1) : t[l].rd = r}
<1>1. LastVal(t, n + 1, r) = IF upto = {} THEN 0 ELSE t[Max(upto)].val
  BY DEF LastVal
<1>2. LastVal(t, n, r) = IF before = {} THEN 0 ELSE t[Max(before)].val
  BY DEF LastVal
<1>3. CASE t[n + 1].rd = r
  <2>1. n + 1 \in upto /\ \A l \in upto : l <= n + 1 /\ l \in 0..(n + 1)
    BY <1>3
  <2>2. Max(upto) = n + 1
    <3> HIDE DEF upto
    <3>1. \A x \in upto : (\A y \in upto : x >= y) <=> x = n + 1
      BY <2>1
    <3> QED
      BY <2>1, <3>1 DEF Max
  <2> QED
    BY <1>1, <1>3, <2>1, <2>2
<1>4. CASE t[n + 1].rd # r
  <2>1. upto = before
    BY <1>4
  <2> QED
    BY <1>1, <1>2, <1>4, <2>1
<1> QED
  BY <1>3, <1>4

(* check_update_gpr keeps the last values, and finds the changes.          *)
LEMMA HeldStep ==
  ASSUME NEW t, IsTrace(t), NEW n \in Nat, n < Len(t)
  PROVE  /\ Held(t, n + 1) = Update(t[n + 1], Held(t, n))
         /\ Changes(t[n + 1], Held(t, n)) <=> IsChange(t, n + 1)
         /\ ~IsChange(t, n + 1) => Held(t, n + 1) = Held(t, n)
<1> DEFINE e == t[n + 1]
<1>1. e = NoGpr \/ e.rd \in Regs
  BY DEF IsTrace
<1>2. \A r \in Regs : Held(t, n)[r] = LastVal(t, n, r) /\ Held(t, n + 1)[r] = LastVal(t, n + 1, r)
  BY DEF Held
<1>3. \A r : LastVal(t, n + 1, r) = IF e.rd = r THEN e.val ELSE LastVal(t, n, r)
  BY LastStep
<1>4. IsChange(t, n + 1) <=> e # NoGpr /\ e.val # LastVal(t, n, e.rd)
  BY (n + 1) - 1 = n DEF IsChange, LastVal
<1>5. NoGpr.rd \notin Regs
  BY RegsAssumption DEF NoGpr
<1> HIDE DEF e
<1>6. Held(t, n) = [r \in Regs |-> LastVal(t, n, r)] /\ Held(t, n + 1) = [r \in Regs |-> LastVal(t, n + 1, r)]
  BY DEF Held
<1>7. CASE e = NoGpr
  <2>1. \A r \in Regs : LastVal(t, n + 1, r) = LastVal(t, n, r)
    BY <1>3, <1>5, <1>7
  <2>2. Held(t, n + 1) = Held(t, n)
    BY <1>6, <2>1
  <2> QED
    BY <1>4, <1>7, <2>2 DEF Update, Changes, e
<1>8. CASE e # NoGpr
  <2>1. Held(t, n + 1) = [Held(t, n) EXCEPT ![e.rd] = e.val]
    BY <1>3, <1>6
  <2>2. Held(t, n)[e.rd] = LastVal(t, n, e.rd)
    BY <1>1, <1>2, <1>8
  <2>3. LastVal(t, n, e.rd) = e.val => Held(t, n + 1) = Held(t, n)
    BY <1>3, <1>6
  <2> QED
    BY <1>4, <1>8, <2>1, <2>2, <2>3 DEF Update, Changes, e
<1> QED
  BY <1>7, <1>8

(* Entries that are no changes leave every last value as it is.            *)
LEMMA HeldStill ==
  ASSUME NEW t, IsTrace(t), NEW m \in Nat, NEW n \in m..Len(t),
         \A k \in (m + 1)..n : ~IsChange(t, k)
  PROVE  Held(t, n) = Held(t, m)
<1> DEFINE T == {d \in Nat : m + d <= n => Held(t, m + d) = Held(t, m)}
<1>1. Len(t) \in Nat
  BY DEF IsTrace
<1>2. 0 \in T
  BY m + 0 = m
<1>3. ASSUME NEW d \in Nat, d \in T PROVE d + 1 \in T
  <2> SUFFICES ASSUME m + (d + 1) <= n PROVE Held(t, m + (d + 1)) = Held(t, m)
    OBVIOUS
  <2>1. m + d \in Nat /\ m + d < Len(t) /\ m + (d + 1) = (m + d) + 1 /\ (m + d) + 1 \in (m + 1)..n
    BY <1>1
  <2>2. Held(t, m + d) = Held(t, m)
    BY <1>3
  <2>3. Held(t, (m + d) + 1) = Held(t, m + d)
    BY <2>1, HeldStep
  <2> QED
    BY <2>1, <2>2, <2>3
<1> HIDE DEF T
<1>4. n - m \in T
  BY <1>1, <1>2, <1>3, Induction, n - m \in Nat
<1> QED
  BY <1>1, <1>4, m + (n - m) = n DEF T

(* What the loop looks for in the core's trace is its next change.         *)
LEMMA NextIs ==
  ASSUME NEW t, IsTrace(t), NEW j \in 0..Len(t), NEW next, next = NextChange(t, j, Held(t, j))
  PROVE  /\ next \in 0..Len(t)
         /\ next = 0 => \A l \in (j + 1)..Len(t) : ~IsChange(t, l)
         /\ next # 0 => /\ next > j /\ IsChange(t, next)
                        /\ \A l \in (j + 1)..(next - 1) : ~IsChange(t, l)
                        /\ Update(t[next], Held(t, j)) = Held(t, next)
<1>1. Len(t) \in Nat
  BY DEF IsTrace
<1>2. /\ next \in 0..Len(t)
      /\ next # 0 => next > j /\ Changes(t[next], Held(t, j))
      /\ \A k \in (j + 1)..Len(t) : Changes(t[k], Held(t, j)) => next # 0 /\ next <= k
  BY <1>1, NextChangeTyped
<1>3. ASSUME NEW l \in (j + 1)..Len(t), next = 0 \/ l < next PROVE ~IsChange(t, l)
  <2> DEFINE T == {k \in (j + 1)..l : IsChange(t, k)}
  <2>1. SUFFICES ASSUME T # {} PROVE FALSE
    BY <1>1
  <2>2. T \in SUBSET Nat
    BY <1>1
  <2>3. PICK k \in T : \A x \in T : k <= x
    BY <2>1, <2>2, Least
  <2>4. k \in (j + 1)..l /\ IsChange(t, k)
    OBVIOUS
  <2>5. \A x \in (j + 1)..(k - 1) : ~IsChange(t, x)
    BY <1>1, <2>3, <2>4
  <2>6. j \in Nat /\ k - 1 \in j..Len(t) /\ k - 1 \in Nat /\ k - 1 < Len(t) /\ (k - 1) + 1 = k
    BY <1>1, <2>4
  <2>7. Held(t, k - 1) = Held(t, j)
    BY <2>5, <2>6, HeldStill
  <2>8. Changes(t[k], Held(t, j))
    BY <2>4, <2>6, <2>7, HeldStep
  <2> QED
    BY <1>1, <1>2, <1>3, <2>4, <2>8
<1>4. CASE next # 0
  <2>1. j \in Nat /\ next - 1 \in j..Len(t) /\ next - 1 \in Nat /\ next - 1 < Len(t) /\ (next - 1) + 1 = next
    BY <1>1, <1>2, <1>4
  <2>2. \A l \in (j + 1)..(next - 1) : ~IsChange(t, l)
    BY <1>1, <1>2, <1>3
  <2>3. Held(t, next - 1) = Held(t, j)
    BY <2>1, <2>2, HeldStill
  <2>4. IsChange(t, next) /\ Held(t, next) = Update(t[next], Held(t, j))
    BY <1>2, <1>4, <2>1, <2>3, HeldStep
  <2> QED
    BY <1>2, <1>4, <2>2, <2>4
<1> QED
  BY <1>2, <1>3, <1>4
-----------------------------------------------------------------------------
(* ks has the m members of K in order.                                     *)
IsOrder(ks, m, K) ==
  /\ m \in Nat /\ ks \in [1..m -> K]
  /\ \A i, l \in 1..m : i < l => ks[i] < ks[l]
  /\ \A k \in K : \E i \in 1..m : ks[i] = k

(* InOrder has the members of a set of places in order.                    *)
LEMMA Orders ==
  ASSUME NEW n \in Nat, NEW K \in SUBSET (1..n)
  PROVE  /\ IsOrder(InOrder(K), Cardinality(K), K)
         /\ \A i \in 1..Cardinality(K) : Cardinality({l \in K : l <= InOrder(K)[i]}) = i
<1> DEFINE m == Cardinality(K)
           Up(k) == {l \in K : l <= k}
           ks == InOrder(K)
           f == [k \in K |-> Cardinality(Up(k))]
<1>0. \A k \in K : k \in Nat
  OBVIOUS
<1>1. IsFiniteSet(K) /\ m \in Nat
  <2>1. IsFiniteSet(1..n)
    BY FS_Interval
  <2> QED
    BY <2>1, FS_Subset, FS_CardinalityType
<1>2. \A S \in SUBSET K : IsFiniteSet(S) /\ Cardinality(S) \in Nat /\ Cardinality(S) <= m
  BY <1>1, FS_Subset, FS_CardinalityType
<1>3. ASSUME NEW k \in K, NEW l \in K, k < l PROVE Cardinality(Up(k)) < Cardinality(Up(l))
  <2>1. Up(k) \in SUBSET Up(l) /\ l \in Up(l) /\ l \notin Up(k) /\ Up(l) \in SUBSET K /\ Up(k) \in SUBSET K
    <3>1. \A x \in K : (x <= k => x <= l) /\ l <= l /\ ~(l <= k)
      BY <1>0, <1>3
    <3> QED
      BY <3>1
  <2> HIDE DEF Up
  <2>2. Cardinality(Up(k)) <= Cardinality(Up(l)) /\ Cardinality(Up(k)) # Cardinality(Up(l))
    BY <1>2, <2>1, FS_Subset
  <2> QED
    BY <1>2, <2>1, <2>2
<1>4. ASSUME NEW k \in K PROVE Cardinality(Up(k)) \in 1..m
  <2>1. Up(k) \in SUBSET K /\ k \in Up(k)
    OBVIOUS
  <2> HIDE DEF Up
  <2>2. Cardinality(Up(k)) # 0
    BY <1>2, <2>1, FS_EmptySet
  <2> QED
    BY <1>1, <1>2, <2>1, <2>2
<1>5. f \in Injection(K, 1..m)
  <2>1. f \in [K -> 1..m]
    BY <1>4
  <2>2. ASSUME NEW k \in K, NEW l \in K, f[k] = f[l] PROVE k = l
    <3>1. k \in Nat /\ l \in Nat /\ Cardinality(Up(k)) = Cardinality(Up(l))
      BY <2>2
    <3>2. Cardinality(Up(k)) \in 1..m /\ Cardinality(Up(l)) \in 1..m
      BY <1>4
    <3> QED
      BY <1>3, <3>1, <3>2
  <2> HIDE DEF f
  <2> QED
    BY <2>1, <2>2 DEF Injection, IsInjective
<1>6. f \in Surjection(K, 1..m)
  <2>1. IsFiniteSet(1..m) /\ Cardinality(1..m) = m
    BY <1>1, FS_Interval
  <2> HIDE DEF f
  <2> QED
    BY <1>5, <2>1, FS_Injection
<1>7. ASSUME NEW i \in 1..m
      PROVE  ks[i] \in K /\ Cardinality(Up(ks[i])) = i
  <2>1. \E k \in K : Cardinality(Up(k)) = i
    <3>1. PICK k \in K : f[k] = i
      <4> HIDE DEF f
      <4> QED
        BY <1>6 DEF Surjection
    <3> QED
      BY <3>1
  <2>2. ks[i] = CHOOSE k \in K : Cardinality(Up(k)) = i
    BY DEF InOrder
  <2> HIDE DEF Up, ks
  <2> QED
    BY <2>1, <2>2
<1>8. ks \in [1..m -> K]
  <2>1. ks = [i \in 1..m |-> ks[i]]
    BY DEF InOrder
  <2> HIDE DEF ks, m
  <2> QED
    BY <1>7, <2>1
<1>9. \A i, l \in 1..m : i < l => ks[i] < ks[l]
  <2> SUFFICES ASSUME NEW i \in 1..m, NEW l \in 1..m, i < l PROVE ks[i] < ks[l]
    OBVIOUS
  <2>1. ks[i] \in K /\ ks[l] \in K /\ Cardinality(Up(ks[i])) = i /\ Cardinality(Up(ks[l])) = l
    BY <1>7
  <2> HIDE DEF ks, Up
  <2>2. ks[i] \in Nat /\ ks[l] \in Nat
    BY <1>0, <2>1
  <2>3. ks[l] < ks[i] => Cardinality(Up(ks[l])) < Cardinality(Up(ks[i]))
    BY <1>3, <2>1
  <2>4. i \in Nat /\ l \in Nat
    BY <1>1
  <2>5. ks[l] # ks[i]
    BY <2>1, <2>4
  <2> QED
    BY <2>1, <2>2, <2>3, <2>4, <2>5
<1>10. \A k \in K : \E i \in 1..m : ks[i] = k
  <2> SUFFICES ASSUME NEW k \in K PROVE \E i \in 1..m : ks[i] = k
    OBVIOUS
  <2> DEFINE i == Cardinality(Up(k))
  <2>1. i \in 1..m
    BY <1>4
  <2>2. ks[i] \in K /\ Cardinality(Up(ks[i])) = i
    BY <1>7, <2>1
  <2> HIDE DEF ks, Up
  <2>3. k \in Nat /\ ks[i] \in Nat
    BY <1>0, <2>2
  <2>4. i \in Nat /\ Cardinality(Up(k)) = i
    BY <1>1, <2>1
  <2> HIDE DEF i
  <2>5. k < ks[i] => Cardinality(Up(k)) < Cardinality(Up(ks[i]))
    BY <1>3, <2>2
  <2>6. ks[i] < k => Cardinality(Up(ks[i])) < Cardinality(Up(k))
    BY <1>3, <2>2
  <2> QED
    BY <2>1, <2>2, <2>3, <2>4, <2>5, <2>6
<1>11. \A i \in 1..m : Cardinality({l \in K : l <= ks[i]}) = i
  BY <1>7
<1> HIDE DEF ks, m
<1> QED
  BY <1>1, <1>8, <1>9, <1>10, <1>11 DEF IsOrder, ks, m

(* The first m of the changes are those up to pos.                         *)
Done(ks, len, m, pos) == m \in 0..len /\ \A i \in 1..len : i <= m <=> ks[i] <= pos

(* The next member behind pos is one more.                                 *)
LEMMA DoneNext ==
  ASSUME NEW K \in SUBSET Nat, NEW ks, NEW len, IsOrder(ks, len, K),
         NEW m, NEW pos \in Nat, Done(ks, len, m, pos),
         NEW q \in K, q > pos, \A k \in K : ~(pos < k /\ k < q)
  PROVE  m + 1 \in 1..len /\ ks[m + 1] = q /\ Done(ks, len, m + 1, q)
<1>1. PICK i \in 1..len : ks[i] = q
  BY DEF IsOrder
<1>2. len \in Nat /\ m \in 0..len /\ \A l \in 1..len : ks[l] \in K /\ ks[l] \in Nat
  BY DEF IsOrder, Done
<1>3. ~(i <= m)
  BY <1>1, <1>2 DEF Done
<1>4. m + 1 \in 1..len /\ ~(m + 1 <= m)
  BY <1>1, <1>2, <1>3
<1>5. ks[m + 1] > pos
  BY <1>2, <1>4 DEF Done
<1>6. m + 1 < i => ks[m + 1] < q
  BY <1>1, <1>2, <1>4 DEF IsOrder
<1>7. m + 1 = i
  BY <1>1, <1>2, <1>3, <1>4, <1>5, <1>6
<1>8. \A l \in 1..len : l <= m + 1 <=> ks[l] <= q
  <2> SUFFICES ASSUME NEW l \in 1..len PROVE l <= m + 1 <=> ks[l] <= q
    OBVIOUS
  <2>1. (l < i => ks[l] < q) /\ (i < l => q < ks[l])
    BY <1>1 DEF IsOrder
  <2> QED
    BY <1>1, <1>2, <1>7, <2>1
<1> QED
  BY <1>1, <1>4, <1>7, <1>8, <1>2 DEF Done

(* Where there is no member, as many are behind.                           *)
LEMMA DoneStill ==
  ASSUME NEW K \in SUBSET Nat, NEW ks, NEW len, IsOrder(ks, len, K),
         NEW m, NEW pos \in Nat, Done(ks, len, m, pos),
         NEW to \in Nat, to >= pos, \A k \in K : ~(pos < k /\ k <= to)
  PROVE  Done(ks, len, m, to)
<1>1. \A l \in 1..len : ks[l] \in K /\ ks[l] \in Nat
  BY DEF IsOrder
<1>2. \A l \in 1..len : ks[l] <= pos <=> ks[l] <= to
  BY <1>1
<1> QED
  BY <1>2 DEF Done
-----------------------------------------------------------------------------
Places(t) == {k \in 1..Len(t) : IsChange(t, k)}
Place(t)  == InOrder(Places(t))
Number(t) == Cardinality(Places(t))

(* The changes of a trace, by their places.                                *)
LEMMA PlacesInOrder ==
  ASSUME NEW t, IsTrace(t)
  PROVE  /\ Places(t) \in SUBSET Nat
         /\ IsOrder(Place(t), Number(t), Places(t))
         /\ Number(t) \in Nat
         /\ \A i \in 1..Number(t) : Place(t)[i] \in 1..Len(t)
         /\ ChangesOf(t) = [i \in 1..Number(t) |-> t[Place(t)[i]]]
<1>1. Len(t) \in Nat /\ Places(t) \in SUBSET (1..Len(t))
  BY DEF IsTrace, Places
<1>2. IsOrder(Place(t), Number(t), Places(t))
  BY <1>1, Orders DEF Place, Number
<1>3. DOMAIN Place(t) = 1..Number(t)
  BY DEF Place, Number, InOrder
<1>4. ChangesOf(t) = [i \in DOMAIN Place(t) |-> t[Place(t)[i]]]
  BY DEF ChangesOf, Selected, Place, Places
<1>5. \A i \in 1..Number(t) : Place(t)[i] \in Places(t)
  BY <1>2 DEF IsOrder
<1>6. Number(t) \in Nat
  BY <1>2 DEF IsOrder
<1> QED
  BY <1>1, <1>2, <1>3, <1>4, <1>5, <1>6

(* What the loop knows when it has read k of Spike's entries.              *)
Known(spike, core, k, st) ==
  /\ st.val2 = Held(core, st.j)
  /\ IF st.ended THEN st.j = Len(core) ELSE st.val1 = Held(spike, k)
  /\ st.matched + st.mismatch <= k

Agree(spike, core, k, st) ==
  st.mismatch = 0 =>
    /\ Done(Place(core), Number(core), st.matched, st.j)
    /\ st.matched <= Number(spike)
    /\ ~st.ended => Done(Place(spike), Number(spike), st.matched, k)
    /\ \A i \in 1..st.matched : core[Place(core)[i]] = spike[Place(spike)[i]]

Twins(spike, core, st) == ChangesOf(core) = ChangesOf(spike) => st.mismatch = 0

LoopInv(spike, core, k, st) ==
  Known(spike, core, k, st) /\ Agree(spike, core, k, st) /\ Twins(spike, core, st)

(* The loop invariant holds before the first entry.                        *)
LEMMA LoopStarts ==
  ASSUME NEW spike, IsTrace(spike), NEW core, IsTrace(core)
  PROVE  LoopInv(spike, core, 0, Start)
<1>1. \A t : Held(t, 0) = [r \in Regs |-> 0]
  BY 1..0 = {} DEF Held, LastVal
<1>2. ASSUME NEW t, IsTrace(t) PROVE Done(Place(t), Number(t), 0, 0)
  <2>1. Number(t) \in Nat /\ \A i \in 1..Number(t) : Place(t)[i] \in 1..Len(t)
    BY <1>2, PlacesInOrder
  <2>2. Len(t) \in Nat
    BY <1>2 DEF IsTrace
  <2> QED
    BY <2>1, <2>2 DEF Done
<1>3. Number(spike) \in Nat
  BY PlacesInOrder
<1> QED
  BY <1>1, <1>2, <1>3 DEF LoopInv, Known, Agree, Twins, Start

(* Traces with the same changes have as many of them.                      *)
LEMMA SameLength ==
  ASSUME NEW spike, IsTrace(spike), NEW core, IsTrace(core), ChangesOf(core) = ChangesOf(spike)
  PROVE  /\ Number(core) = Number(spike)
         /\ \A i \in 1..Number(core) : core[Place(core)[i]] = spike[Place(spike)[i]]
<1>1. /\ ChangesOf(core) = [i \in 1..Number(core) |-> core[Place(core)[i]]]
      /\ ChangesOf(spike) = [i \in 1..Number(spike) |-> spike[Place(spike)[i]]]
      /\ Number(core) \in Nat /\ Number(spike) \in Nat
  BY PlacesInOrder
<1>2. 1..Number(core) = 1..Number(spike)
  BY <1>1
<1>3. Number(core) = Number(spike)
  BY <1>1, <1>2
<1> QED
  BY <1>1, <1>3

(* The body keeps the loop invariant.                                      *)
LEMMA LoopGoesOn ==
  ASSUME NEW spike, IsTrace(spike), NEW core, IsTrace(core),
         NEW k \in Nat, k < Len(spike), NEW st \in State(spike, core), LoopInv(spike, core, k, st)
  PROVE  LoopInv(spike, core, k + 1, LoopBody(core, st, spike[k + 1]))
<1> DEFINE e == spike[k + 1]
           new == LoopBody(core, st, e)
           next == NextChange(core, st.j, st.val2)
           m == st.matched
<1>1. /\ Len(core) \in Nat /\ Len(spike) \in Nat /\ st.j \in 0..Len(core) /\ st.j \in Nat
      /\ m \in Nat /\ st.mismatch \in Nat
  BY DEF IsTrace, State
<1>2. CASE st.ended
  <2>1. new = st
    BY <1>2 DEF LoopBody
  <2> HIDE DEF new
  <2> QED
    BY <1>1, <1>2, <2>1 DEF LoopInv, Known, Agree, Twins, new
<1>3. CASE ~st.ended
  <2>1. /\ st.val1 = Held(spike, k) /\ st.val2 = Held(core, st.j)
        /\ Held(spike, k + 1) = Update(e, st.val1)
        /\ Changes(e, st.val1) <=> IsChange(spike, k + 1)
        /\ ~IsChange(spike, k + 1) => Held(spike, k + 1) = Held(spike, k)
    <3>1. st.val1 = Held(spike, k) /\ st.val2 = Held(core, st.j)
      BY <1>3 DEF LoopInv, Known
    <3> QED
      BY <3>1, HeldStep
  <2>2. IsOrder(Place(spike), Number(spike), Places(spike)) /\ Places(spike) \in SUBSET Nat
    BY PlacesInOrder
  <2>3. IsOrder(Place(core), Number(core), Places(core)) /\ Places(core) \in SUBSET Nat
    BY PlacesInOrder
  <2>4. CASE ~IsChange(spike, k + 1)
    <3>1. new = st
      BY <2>1, <2>4 DEF LoopBody
    <3>2. \A x \in Places(spike) : ~(k < x /\ x <= k + 1)
      BY <2>4 DEF Places
    <3>3. Done(Place(spike), Number(spike), m, k) => Done(Place(spike), Number(spike), m, k + 1)
      BY <2>2, <3>2, DoneStill, k + 1 \in Nat, k + 1 >= k
    <3> HIDE DEF new
    <3> QED
      BY <1>1, <1>3, <2>1, <2>4, <3>1, <3>3 DEF LoopInv, Known, Agree, Twins, new
  <2>5. CASE IsChange(spike, k + 1)
    <3> DEFINE same == next # 0 /\ core[next] = e
               j == IF next = 0 THEN Len(core) ELSE next
    <3>1. new = [j |-> j, val1 |-> Update(e, st.val1),
                 val2 |-> IF next = 0 THEN st.val2 ELSE Update(core[next], st.val2),
                 matched |-> m + (IF same THEN 1 ELSE 0),
                 mismatch |-> st.mismatch + (IF same THEN 0 ELSE 1),
                 ended |-> j = Len(core)]
      BY <1>3, <2>1, <2>5 DEF LoopBody, Compare
    <3> HIDE DEF new
    <3> DEFINE h == Held(core, st.j)
    <3>2. next = NextChange(core, st.j, h)
      BY <2>1
    <3> HIDE DEF next
    <3>3. /\ next \in 0..Len(core)
          /\ next = 0 => \A l \in (st.j + 1)..Len(core) : ~IsChange(core, l)
          /\ next # 0 => /\ next > st.j /\ IsChange(core, next)
                         /\ \A l \in (st.j + 1)..(next - 1) : ~IsChange(core, l)
                         /\ Update(core[next], h) = Held(core, next)
      <4>1. st.j \in 0..Len(core) /\ IsTrace(core)
        BY <1>1
      <4> HIDE DEF next
      <4> QED
        BY ONLY <3>2, <4>1, NextIs, RegsAssumption DEF h
    <3>4. next # 0 =>
            next \in Places(core) /\ \A x \in Places(core) : ~(st.j < x /\ x < next)
      BY <1>1, <3>3 DEF Places
    <3>5. Known(spike, core, k + 1, new)
      <4>1. next = 0 => Held(core, Len(core)) = h
        <5>1. Len(core) \in st.j..Len(core)
          BY <1>1
        <5> QED
          BY <1>1, <3>3, <5>1, HeldStill
      <4>2. new.val2 = Held(core, new.j)
        BY <2>1, <3>1, <3>3, <4>1
      <4>3. IF new.ended THEN new.j = Len(core) ELSE new.val1 = Held(spike, k + 1)
        BY <2>1, <3>1
      <4>4. st.matched + st.mismatch <= k
        BY DEF LoopInv, Known
      <4>5. new.matched + new.mismatch <= k + 1
        BY <1>1, <3>1, <4>4
      <4> QED
        BY <4>2, <4>3, <4>5 DEF Known
    <3>6. ASSUME st.mismatch = 0
          PROVE  /\ m + 1 \in 1..Number(spike) /\ Place(spike)[m + 1] = k + 1
                 /\ Done(Place(spike), Number(spike), m + 1, k + 1)
      <4>1. Done(Place(spike), Number(spike), m, k)
        BY <1>3, <3>6 DEF LoopInv, Agree
      <4>2. k + 1 \in Places(spike) /\ k + 1 > k /\ \A x \in Places(spike) : ~(k < x /\ x < k + 1)
        BY <1>1, <2>5 DEF Places
      <4> QED
        BY <2>2, <4>1, <4>2, DoneNext
    <3>7. ASSUME st.mismatch = 0, next # 0
          PROVE  /\ m + 1 \in 1..Number(core) /\ Place(core)[m + 1] = next
                 /\ Done(Place(core), Number(core), m + 1, next)
      <4>1. Done(Place(core), Number(core), m, st.j)
        BY <3>7 DEF LoopInv, Agree
      <4> QED
        BY <1>1, <2>3, <3>3, <3>4, <3>7, <4>1, DoneNext
    <3>8. Agree(spike, core, k + 1, new)
      <4> SUFFICES ASSUME new.mismatch = 0
                   PROVE  /\ Done(Place(core), Number(core), new.matched, new.j)
                          /\ new.matched <= Number(spike)
                          /\ Done(Place(spike), Number(spike), new.matched, k + 1)
                          /\ \A i \in 1..new.matched : core[Place(core)[i]] = spike[Place(spike)[i]]
        BY DEF Agree
      <4>1. same /\ st.mismatch = 0
        BY <1>1, <3>1
      <4>2. new.matched = m + 1 /\ new.j = next
        BY <3>1, <4>1
      <4>3. core[Place(core)[m + 1]] = spike[Place(spike)[m + 1]]
        BY <3>6, <3>7, <4>1
      <4>4. \A i \in 1..m : core[Place(core)[i]] = spike[Place(spike)[i]]
        BY <4>1 DEF LoopInv, Agree
      <4>5. \A i \in 1..(m + 1) : i \in 1..m \/ i = m + 1
        BY <1>1
      <4> QED
        BY <3>6, <3>7, <4>1, <4>2, <4>3, <4>4, <4>5
    <3>9. Twins(spike, core, new)
      <4> SUFFICES ASSUME ChangesOf(core) = ChangesOf(spike) PROVE new.mismatch = 0
        BY DEF Twins
      <4>1. st.mismatch = 0
        BY DEF LoopInv, Twins
      <4>2. Number(core) = Number(spike)
        BY SameLength
      <4>3. Done(Place(core), Number(core), m, st.j)
        BY <4>1 DEF LoopInv, Agree
      <4>4. m + 1 \in 1..Number(core)
        BY <3>6, <4>1, <4>2
      <4>5. Place(core)[m + 1] \in Places(core) /\ ~(Place(core)[m + 1] <= st.j)
        BY <1>1, <2>3, <4>3, <4>4 DEF Done, IsOrder
      <4>6. next # 0
        <5>1. Place(core)[m + 1] \in (st.j + 1)..Len(core) /\ IsChange(core, Place(core)[m + 1])
          BY <1>1, <4>5 DEF Places
        <5> QED
          BY <3>3, <5>1
      <4>7. Place(core)[m + 1] = next
        BY <3>7, <4>1, <4>6
      <4>8. core[Place(core)[m + 1]] = spike[Place(spike)[m + 1]]
        BY <4>4, SameLength
      <4>9. same
        BY <3>6, <4>1, <4>6, <4>7, <4>8
      <4> QED
        BY <3>1, <4>1, <4>9
    <3> QED
      BY <3>5, <3>8, <3>9 DEF LoopInv, new
  <2> QED
    BY <2>4, <2>5
<1> QED
  BY <1>2, <1>3

(* So it holds when the loop ends.                                         *)
LEMMA LoopEnds ==
  ASSUME NEW spike, IsTrace(spike), NEW core, IsTrace(core)
  PROVE  /\ Loop(spike, core) \in State(spike, core)
         /\ LoopInv(spike, core, Len(spike), Loop(spike, core))
<1> DEFINE n == Len(spike)
           S == State(spike, core)
<1>1. n \in Nat
  BY DEF IsTrace
<1>2. PICK st \in [0..n -> S] :
         /\ st[0] = Start
         /\ \A k \in 1..n : st[k] = LoopBody(core, st[k - 1], spike[k])
         /\ Loop(spike, core) = st[n]
  BY LoopSteps
<1> DEFINE T == {k \in Nat : k <= n => LoopInv(spike, core, k, st[k])}
<1>3. 0 \in T
  BY <1>2, LoopStarts
<1>4. ASSUME NEW k \in Nat, k \in T PROVE k + 1 \in T
  <2> SUFFICES ASSUME k + 1 <= n PROVE LoopInv(spike, core, k + 1, st[k + 1])
    OBVIOUS
  <2>1. k < n /\ k \in 0..n /\ k + 1 \in 1..n /\ (k + 1) - 1 = k
    BY <1>1
  <2>2. st[k] \in S /\ LoopInv(spike, core, k, st[k]) /\ st[k + 1] = LoopBody(core, st[k], spike[k + 1])
    BY <1>2, <1>4, <2>1
  <2> QED
    BY <2>1, <2>2, LoopGoesOn
<1> HIDE DEF T
<1>5. n \in T
  BY <1>1, <1>3, <1>4, Induction
<1> QED
  BY <1>1, <1>2, <1>5 DEF T

(* PASSED: no mismatch, and no change left in the core's trace.            *)
LEMMA WhenPassed ==
  ASSUME NEW spike, IsTrace(spike), NEW core, IsTrace(core)
  PROVE  LET st == Loop(spike, core)
         IN Result(spike, core) = "PASSED" <=> st.mismatch = 0 /\ NextChange(core, st.j, st.val2) = 0
<1> DEFINE st == Loop(spike, core)
           k == NextChange(core, st.j, st.val2)
<1>1. st \in State(spike, core) /\ Len(core) \in Nat
  BY LoopEnds DEF IsTrace
<1>2. st.j \in 0..Len(core) /\ st.mismatch \in Nat
  BY <1>1 DEF State
<1>3. k \in 0..Len(core)
  BY <1>1, <1>2, NextChangeTyped
<1>4. Rest(core, st) = IF k = 0 THEN 0 ELSE Len(core) - (k - 1)
  BY DEF Rest
<1>5. Result(spike, core) = IF st.mismatch + Rest(core, st) = 0 THEN "PASSED" ELSE "FAILED"
  BY DEF Result
<1> HIDE DEF st, k
<1>6. st.mismatch + Rest(core, st) = 0 <=> st.mismatch = 0 /\ k = 0
  BY <1>1, <1>2, <1>3, <1>4
<1> QED
  BY <1>5, <1>6 DEF st, k

(* Then the core's changes are the first of Spike's.                       *)
LEMMA CorePassed ==
  ASSUME NEW spike, IsTrace(spike), NEW core, IsTrace(core), Result(spike, core) = "PASSED"
  PROVE  /\ Number(core) <= Number(spike)
         /\ \A i \in 1..Number(core) : core[Place(core)[i]] = spike[Place(spike)[i]]
<1> DEFINE st == Loop(spike, core)
           k == NextChange(core, st.j, st.val2)
<1>1. st \in State(spike, core) /\ Len(core) \in Nat /\ LoopInv(spike, core, Len(spike), st)
  BY LoopEnds DEF IsTrace
<1>2. st.mismatch = 0 /\ k = 0
  BY WhenPassed
<1> HIDE DEF st
<1>3. st.j \in 0..Len(core) /\ st.matched \in Nat
  BY <1>1 DEF State
<1>4. k = NextChange(core, st.j, Held(core, st.j))
  BY <1>1 DEF LoopInv, Known
<1> HIDE DEF k
<1>5. \A l \in (st.j + 1)..Len(core) : ~IsChange(core, l)
  BY <1>2, <1>3, <1>4, NextIs
<1>6. Done(Place(core), Number(core), st.matched, st.j)
  BY <1>1, <1>2 DEF LoopInv, Agree
<1>7. Number(core) \in Nat /\ \A i \in 1..Number(core) : Place(core)[i] \in Places(core)
  BY PlacesInOrder DEF IsOrder
<1>8. \A i \in 1..Number(core) : Place(core)[i] <= st.j
  BY <1>1, <1>3, <1>5, <1>7 DEF Places
<1>9. st.matched = Number(core)
  <2>1. Number(core) > 0 => Number(core) <= st.matched
    BY <1>6, <1>7, <1>8 DEF Done
  <2> QED
    BY <1>3, <1>6, <1>7, <2>1 DEF Done
<1> QED
  BY <1>1, <1>2, <1>9 DEF LoopInv, Agree

(* No wrong write passes: if instr_trace_compare.py prints PASSED for two  *)
(* traces, of any length, the core's register changes are the first of     *)
(* Spike's, the same at each place.                                        *)
THEOREM PassedMatches ==
  ASSUME NEW spike, IsTrace(spike), NEW core, IsTrace(core), Result(spike, core) = "PASSED"
  PROVE  IsPrefix(ChangesOf(core), ChangesOf(spike))
<1> DEFINE c == ChangesOf(core)
           s == ChangesOf(spike)
<1>1. /\ c = [i \in 1..Number(core) |-> core[Place(core)[i]]]
      /\ s = [i \in 1..Number(spike) |-> spike[Place(spike)[i]]]
      /\ Number(core) \in Nat /\ Number(spike) \in Nat
  BY PlacesInOrder
<1>2. /\ Number(core) <= Number(spike)
      /\ \A i \in 1..Number(core) : core[Place(core)[i]] = spike[Place(spike)[i]]
  BY CorePassed
<1>3. Len(c) = Number(core) /\ Len(s) = Number(spike)
  BY <1>1
<1>4. \A i \in 1..Len(c) : c[i] = s[i]
  BY <1>1, <1>2, <1>3
<1> HIDE DEF c, s
<1>5. SubSeq(c, 1, Len(c)) = SubSeq(s, 1, Len(c))
  BY <1>1, <1>2, <1>3, <1>4
<1> QED
  BY <1>1, <1>2, <1>3, <1>5 DEF IsPrefix, c, s

(* No right core fails: traces of any length with the same changes pass,   *)
(* however entries without a change are spread over them.                  *)
THEOREM SameChangesPass ==
  ASSUME NEW spike, IsTrace(spike), NEW core, IsTrace(core), ChangesOf(core) = ChangesOf(spike)
  PROVE  Result(spike, core) = "PASSED"
<1> DEFINE st == Loop(spike, core)
           k == NextChange(core, st.j, st.val2)
<1>1. /\ st \in State(spike, core) /\ Len(core) \in Nat /\ Len(spike) \in Nat
      /\ LoopInv(spike, core, Len(spike), st)
  BY LoopEnds DEF IsTrace
<1>2. st.mismatch = 0
  BY <1>1 DEF LoopInv, Twins
<1>3. st.j \in 0..Len(core) /\ st.matched \in Nat
  BY <1>1 DEF State
<1>4. k = 0
  <2>1. k = NextChange(core, st.j, Held(core, st.j))
    BY <1>1 DEF LoopInv, Known
  <2> HIDE DEF st, k
  <2>2. /\ k \in 0..Len(core)
        /\ k # 0 => k > st.j /\ IsChange(core, k)
    BY <1>3, <2>1, NextIs
  <2>3. CASE st.ended
    <3>1. st.j = Len(core)
      BY <1>1, <2>3 DEF LoopInv, Known
    <3> QED
      BY <1>1, <2>2, <3>1
  <2>4. CASE ~st.ended
    <3>1. Done(Place(spike), Number(spike), st.matched, Len(spike))
      BY <1>1, <1>2, <2>4 DEF LoopInv, Agree
    <3>2. Number(spike) \in Nat /\ \A i \in 1..Number(spike) : Place(spike)[i] \in 1..Len(spike)
      BY PlacesInOrder
    <3>3. st.matched = Number(spike)
      BY <1>1, <1>3, <3>1, <3>2 DEF Done
    <3>4. Number(core) = Number(spike)
      BY SameLength
    <3>5. Done(Place(core), Number(core), st.matched, st.j)
      BY <1>1, <1>2 DEF LoopInv, Agree
    <3>6. \A i \in 1..Number(core) : Place(core)[i] <= st.j
      BY <3>2, <3>3, <3>4, <3>5 DEF Done
    <3>7. ASSUME k # 0 PROVE FALSE
      <4>1. k \in Places(core)
        BY <1>1, <2>2, <3>7 DEF Places
      <4>2. PICK i \in 1..Number(core) : Place(core)[i] = k
        BY <4>1, PlacesInOrder DEF IsOrder
      <4> QED
        BY <1>1, <1>3, <2>2, <3>6, <3>7, <4>2
    <3> QED
      BY <3>7
  <2> QED
    BY <2>3, <2>4
<1> QED
  BY <1>2, <1>4, WhenPassed

(* No more entries match than Spike's trace has.                           *)
LEMMA MatchedAtMost ==
  ASSUME NEW spike, IsTrace(spike), NEW core, IsTrace(core)
  PROVE  Matched(spike, core) \in 0..Len(spike)
<1> DEFINE st == Loop(spike, core)
<1>1. st \in State(spike, core) /\ Len(spike) \in Nat /\ LoopInv(spike, core, Len(spike), st)
  BY LoopEnds DEF IsTrace
<1> HIDE DEF st
<1>2. st.matched \in Nat /\ st.mismatch \in Nat /\ st.matched + st.mismatch <= Len(spike)
  BY <1>1 DEF State, LoopInv, Known
<1> QED
  BY <1>1, <1>2 DEF Matched, st
=============================================================================
