---------------------------- MODULE TraceFlowProofs ----------------------------
(***************************************************************************)
(* From the logs to the verdict, for any programs, any faults and any      *)
(* width of the pc.  The invariant ties each converter's state to the      *)
(* history of what ran: what its CSV, and what it would write if its log   *)
(* ended here, tell; and that, as a trace, this changes the registers as   *)
(* the history does.  A converter follows its history instruction by       *)
(* instruction; what the comparison is worth comes from CompareProofs.     *)
(***************************************************************************)
EXTENDS TracePseudo, CompareProofs, SequenceTheorems

(* A sequence, of whatever entries, and one with one more.                 *)
IsSeq(s) == Len(s) \in Nat /\ s = [k \in 1..Len(s) |-> s[k]]
Add(s, x) == Append(s, x)

(* What there was stays at its place when a row is added, and the row is   *)
(* the last one: a converter appends to its CSV, and a history grows.      *)
LEMMA Grows ==
  ASSUME NEW s, IsSeq(s), NEW x
  PROVE  /\ IsSeq(Add(s, x)) /\ Len(Add(s, x)) = Len(s) + 1
         /\ DOMAIN s = 1..Len(s) /\ DOMAIN Add(s, x) = 1..(Len(s) + 1)
         /\ \A k \in 1..Len(s) : Add(s, x)[k] = s[k]
         /\ Add(s, x)[Len(s) + 1] = x
<1> DEFINE S == {s[k] : k \in 1..Len(s)} \union {x}
<1>1. Len(s) \in Nat /\ s \in [1..Len(s) -> S]
  BY DEF IsSeq
<1>2. s \in Seq(S) /\ x \in S
  BY <1>1
<1> HIDE DEF S
<1>3. Add(s, x) \in Seq(S)
  BY <1>2 DEF Add
<1>4. /\ Len(Add(s, x)) = Len(s) + 1
      /\ \A k \in 1..Len(s) : Add(s, x)[k] = s[k]
      /\ Add(s, x)[Len(s) + 1] = x
  BY <1>2 DEF Add
<1>5. Add(s, x) = [k \in 1..Len(Add(s, x)) |-> Add(s, x)[k]]
  <2> DEFINE t == Add(s, x)
  <2> HIDE DEF t
  <2>1. t \in [1..Len(t) -> S]
    BY <1>3, LenProperties DEF t
  <2>2. t = [k \in 1..Len(t) |-> t[k]]
    BY <2>1
  <2> QED
    BY <2>2 DEF t
<1> QED
  BY <1>1, <1>3, <1>4, <1>5 DEF IsSeq

LEMMA DomainIs == \A s : IsSeq(s) => DOMAIN s = 1..Len(s)
BY Grows

(* Two sequences are equal if they are of the same length and entries.     *)
LEMMA SameSeq ==
  ASSUME NEW s, NEW t, IsSeq(s), IsSeq(t), Len(s) = Len(t), \A k \in 1..Len(s) : s[k] = t[k]
  PROVE  s = t
<1>1. s = [k \in 1..Len(s) |-> s[k]] /\ t = [k \in 1..Len(s) |-> t[k]]
  BY DEF IsSeq
<1> QED
  BY <1>1, Zenon

(* The places picked out of a longer sequence, if its last one is picked:  *)
(* those before in the order they had, and then the last.                  *)
LEMMA OrderGrows ==
  ASSUME NEW m \in Nat, NEW K \in SUBSET (1..m), NEW L, L = K \union {m + 1}
  PROVE  /\ Cardinality(K) \in Nat /\ Cardinality(L) = Cardinality(K) + 1
         /\ InOrder(L)[Cardinality(K) + 1] = m + 1
         /\ \A i \in 1..Cardinality(K) : InOrder(L)[i] = InOrder(K)[i] /\ InOrder(K)[i] \in K
<1> DEFINE c == Cardinality(K)
<1>1. L \in SUBSET (1..(m + 1)) /\ m + 1 \in Nat
  OBVIOUS
<1>2. /\ IsOrder(InOrder(K), c, K)
      /\ \A i \in 1..c : Cardinality({l \in K : l <= InOrder(K)[i]}) = i
  BY Orders
<1>3. /\ IsOrder(InOrder(L), Cardinality(L), L)
      /\ \A i \in 1..Cardinality(L) : Cardinality({l \in L : l <= InOrder(L)[i]}) = i
  BY <1>1, Orders
<1>4. IsFiniteSet(K) /\ c \in Nat /\ m + 1 \notin K
  <2>1. IsFiniteSet(1..m)
    BY FS_Interval
  <2>2. IsFiniteSet(K)
    BY <2>1, FS_Subset
  <2>3. c \in Nat
    BY <2>2, FS_CardinalityType
  <2> QED
    BY <2>2, <2>3
<1>5. Cardinality(L) = c + 1
  BY <1>4, FS_AddElement
<1> HIDE DEF c
<1>6. {l \in L : l <= m + 1} = L /\ \A k \in K : {l \in L : l <= k} = {l \in K : l <= k}
  <2>1. \A l \in L : l <= m + 1
    OBVIOUS
  <2>2. \A k \in K : ~(m + 1 <= k)
    OBVIOUS
  <2>3. ASSUME NEW k \in K PROVE {l \in L : l <= k} = {l \in K : l <= k}
    BY <2>2
  <2> QED
    BY <2>1, <2>3
<1>7. ASSUME NEW i \in 1..c PROVE InOrder(L)[i] = InOrder(K)[i] /\ InOrder(K)[i] \in K
  <2> DEFINE a == InOrder(L)[i] b == InOrder(K)[i]
  <2>1. b \in K /\ Cardinality({l \in K : l <= b}) = i
    BY <1>2 DEF IsOrder
  <2>2. a \in L /\ Cardinality({l \in L : l <= a}) = i
    <3>1. i \in 1..Cardinality(L)
      BY <1>4, <1>5
    <3> QED
      BY <1>3, <3>1 DEF IsOrder
  <2>3. a # m + 1
    BY <1>4, <1>5, <1>6, <2>2
  <2>4. a \in K /\ Cardinality({l \in K : l <= a}) = i
    BY <1>6, <2>2, <2>3
  <2>5. PICK j \in 1..c : InOrder(K)[j] = a
    BY <1>2, <2>4 DEF IsOrder
  <2>6. j = i
    BY <1>2, <2>4, <2>5
  <2> QED
    BY <2>1, <2>5, <2>6
<1>8. InOrder(L)[c + 1] = m + 1
  <2>1. PICK j \in 1..(c + 1) : InOrder(L)[j] = m + 1
    BY <1>3, <1>5 DEF IsOrder
  <2>2. Cardinality({l \in L : l <= InOrder(L)[j]}) = j
    BY <1>3, <1>5, <2>1
  <2>3. {l \in L : l <= InOrder(L)[j]} = L
    BY <1>6, <2>1
  <2>4. j = c + 1
    BY <1>5, <2>2, <2>3
  <2> QED
    BY <2>1, <2>4
<1> QED
  BY <1>4, <1>5, <1>7, <1>8 DEF c

(* What is picked out of a sequence: as many as there are places, each     *)
(* from its place.                                                         *)
LEMMA SelectedIs ==
  ASSUME NEW s, IsSeq(s), NEW K \in SUBSET (1..Len(s))
  PROVE  /\ IsSeq(Selected(s, K)) /\ Len(Selected(s, K)) = Cardinality(K)
         /\ \A i \in 1..Cardinality(K) : /\ Selected(s, K)[i] = s[InOrder(K)[i]]
                                         /\ InOrder(K)[i] \in K
<1> DEFINE c == Cardinality(K)
<1>1. IsOrder(InOrder(K), c, K)
  BY Orders DEF IsSeq
<1>2. c \in Nat /\ DOMAIN InOrder(K) = 1..c /\ \A i \in 1..c : InOrder(K)[i] \in K
  BY <1>1 DEF IsOrder
<1>3. Selected(s, K) = [i \in 1..c |-> s[InOrder(K)[i]]]
  BY <1>2 DEF Selected
<1> HIDE DEF c
<1>4. Len(Selected(s, K)) = c
  BY <1>2, <1>3
<1> QED
  BY <1>2, <1>3, <1>4 DEF IsSeq, c

(* What is picked out of a longer sequence: the same, or with the new one  *)
(* at its end.                                                             *)
LEMMA SelectedGrows ==
  ASSUME NEW s, IsSeq(s), NEW x, NEW K \in SUBSET (1..Len(s))
  PROVE  /\ Selected(Add(s, x), K) = Selected(s, K)
         /\ Selected(Add(s, x), K \union {Len(s) + 1}) = Add(Selected(s, K), x)
<1> DEFINE t == Add(s, x) L == K \union {Len(s) + 1} c == Cardinality(K)
<1>1. /\ IsSeq(t) /\ Len(t) = Len(s) + 1 /\ Len(s) \in Nat
      /\ \A k \in 1..Len(s) : t[k] = s[k]
      /\ t[Len(s) + 1] = x
  BY Grows DEF IsSeq
<1> HIDE DEF t
<1>2. /\ IsSeq(Selected(s, K)) /\ Len(Selected(s, K)) = c
      /\ \A i \in 1..c : Selected(s, K)[i] = s[InOrder(K)[i]] /\ InOrder(K)[i] \in K
  BY SelectedIs
<1>3. K \in SUBSET (1..Len(t)) /\ L \in SUBSET (1..Len(t))
  <2>1. \A k \in 1..Len(s) : k \in 1..Len(t)
    BY <1>1
  <2>2. Len(s) + 1 \in 1..Len(t)
    BY <1>1
  <2> QED
    BY <2>1, <2>2
<1>4. /\ IsSeq(Selected(t, K)) /\ Len(Selected(t, K)) = c
      /\ \A i \in 1..c : Selected(t, K)[i] = t[InOrder(K)[i]]
  BY <1>1, <1>3, SelectedIs
<1>5. Selected(t, K) = Selected(s, K)
  BY <1>1, <1>2, <1>4, SameSeq
<1>6. /\ IsSeq(Selected(t, L)) /\ Len(Selected(t, L)) = Cardinality(L)
      /\ \A i \in 1..Cardinality(L) : Selected(t, L)[i] = t[InOrder(L)[i]]
  BY <1>1, <1>3, SelectedIs
<1>7. /\ c \in Nat /\ Cardinality(L) = c + 1 /\ InOrder(L)[c + 1] = Len(s) + 1
      /\ \A i \in 1..c : InOrder(L)[i] = InOrder(K)[i]
  BY <1>1, OrderGrows
<1> DEFINE u == Add(Selected(s, K), x)
<1>8. /\ IsSeq(u) /\ Len(u) = c + 1
      /\ \A i \in 1..c : u[i] = Selected(s, K)[i]
      /\ u[c + 1] = x
  BY <1>2, Grows
<1> HIDE DEF u, c, L
<1>9. \A i \in 1..(c + 1) : Selected(t, L)[i] = u[i]
  <2>1. ASSUME NEW i \in 1..c PROVE Selected(t, L)[i] = u[i]
    <3>1. i \in 1..Cardinality(L)
      BY <1>7
    <3>2. Selected(t, L)[i] = t[InOrder(K)[i]]
      BY <1>6, <1>7, <3>1
    <3>3. InOrder(K)[i] \in 1..Len(s) /\ u[i] = s[InOrder(K)[i]]
      BY <1>2, <1>8
    <3> QED
      BY <1>1, <3>2, <3>3
  <2>2. Selected(t, L)[c + 1] = u[c + 1]
    BY <1>1, <1>6, <1>7, <1>8
  <2> QED
    BY <1>7, <2>1, <2>2
<1>10. Selected(t, L) = u
  BY <1>6, <1>7, <1>8, <1>9, SameSeq
<1> QED
  BY <1>5, <1>10 DEF t, u, L
-----------------------------------------------------------------------------
(* One more update of a trace: it adds to the changes of registers if it   *)
(* is one, and changes none of those before; the last value of its         *)
(* register is its own.                                                    *)
LEMMA ChangesGrow ==
  ASSUME NEW t, IsTrace(t), NEW e, e = NoGpr \/ e.rd \in Regs
  PROVE  LET g == Add(t, e) IN
         /\ IsSeq(t) /\ IsTrace(g) /\ Len(g) = Len(t) + 1
         /\ Held(g, Len(g)) = Update(e, Held(t, Len(t)))
         /\ \A r : LastVal(g, Len(g), r) = IF e.rd = r THEN e.val ELSE LastVal(t, Len(t), r)
         /\ \A k \in 1..Len(t) : IsChange(g, k) <=> IsChange(t, k)
         /\ IsChange(g, Len(g)) <=> Changes(e, Held(t, Len(t)))
         /\ ChangesOf(g) =
              IF Changes(e, Held(t, Len(t))) THEN Add(ChangesOf(t), e) ELSE ChangesOf(t)
<1> DEFINE g == Add(t, e) len == Len(t)
<1>1. IsSeq(t) /\ len \in Nat
  BY DEF IsSeq, IsTrace
<1>2. /\ IsSeq(g) /\ Len(g) = len + 1 /\ \A k \in 1..len : g[k] = t[k]
      /\ g[len + 1] = e
  BY <1>1, Grows
<1> HIDE DEF g
<1>3. IsTrace(g)
  <2>1. \A k \in 1..(len + 1) : k \in 1..len \/ k = len + 1
    BY <1>1
  <2>2. \A k \in 1..(len + 1) : g[k] = NoGpr \/ g[k].rd \in Regs
    BY <1>2, <2>1 DEF IsTrace
  <2> QED
    BY <1>2, <2>2 DEF IsTrace, IsSeq
<1>4. ASSUME NEW m \in 0..len, NEW r PROVE LastVal(g, m, r) = LastVal(t, m, r)
  <2> DEFINE A == {l \in 1..m : g[l].rd = r} B == {l \in 1..m : t[l].rd = r}
  <2>1. \A l \in 1..m : l \in 1..len /\ l \in 0..len
    BY <1>1
  <2>2. A = B
    BY <1>2, <2>1
  <2>3. B # {} => Max(B) \in B
    <3>1. B \in SUBSET (0..len)
      BY <2>1
    <3> HIDE DEF B
    <3> QED
      BY <1>1, <3>1, Largest
  <2>4. B # {} => g[Max(B)] = t[Max(B)]
    BY <1>2, <2>1, <2>3
  <2>5. /\ LastVal(g, m, r) = IF A = {} THEN 0 ELSE g[Max(A)].val
        /\ LastVal(t, m, r) = IF B = {} THEN 0 ELSE t[Max(B)].val
    BY DEF LastVal
  <2> HIDE DEF A, B
  <2> QED
    BY <2>2, <2>4, <2>5
<1>5. Held(g, len) = Held(t, len)
  BY <1>1, <1>4 DEF Held
<1>6. /\ Held(g, len + 1) = Update(e, Held(t, len))
      /\ Changes(e, Held(t, len)) <=> IsChange(g, len + 1)
  <2>1. len < Len(g)
    BY <1>1, <1>2
  <2> QED
    BY <1>1, <1>2, <1>3, <1>5, <2>1, HeldStep
<1>7. ASSUME NEW k \in 1..len PROVE IsChange(g, k) <=> IsChange(t, k)
  <2>1. \A s : IsChange(s, k) <=> s[k] # NoGpr /\ s[k].val # LastVal(s, k - 1, s[k].rd)
    BY DEF IsChange, LastVal
  <2>2. k - 1 \in 0..len
    BY <1>1
  <2> QED
    BY <1>2, <1>4, <2>1, <2>2
<1>8. \A r : LastVal(g, len + 1, r) = IF e.rd = r THEN e.val ELSE LastVal(t, len, r)
  <2> SUFFICES ASSUME NEW r
               PROVE  LastVal(g, len + 1, r) = IF e.rd = r THEN e.val ELSE LastVal(t, len, r)
    OBVIOUS
  <2>1. LastVal(g, len, r) = LastVal(t, len, r)
    BY <1>1, <1>4
  <2>2. LastVal(g, len + 1, r) = IF g[len + 1].rd = r THEN g[len + 1].val ELSE LastVal(g, len, r)
    BY <1>1, LastStep
  <2> QED
    BY <1>2, <2>1, <2>2
<1>9. ChangesOf(g) = IF Changes(e, Held(t, len)) THEN Add(ChangesOf(t), e) ELSE ChangesOf(t)
  <2> DEFINE K == {k \in 1..len : IsChange(t, k)} L == {k \in 1..Len(g) : IsChange(g, k)}
  <2>1. /\ ChangesOf(t) = Selected(t, K) /\ ChangesOf(g) = Selected(g, L)
        /\ K \in SUBSET (1..Len(t))
    BY DEF ChangesOf
  <2>2. L = IF Changes(e, Held(t, len)) THEN K \union {len + 1} ELSE K
    <3>1. \A k : k \in 1..(len + 1) <=> k \in 1..len \/ k = len + 1
      BY <1>1
    <3>2. \A k : k \in L <=> k \in K \/ (k = len + 1 /\ Changes(e, Held(t, len)))
      BY <1>2, <1>6, <1>7, <3>1
    <3> HIDE DEF K, L
    <3>3. CASE Changes(e, Held(t, len))
      BY <3>2, <3>3
    <3>4. CASE ~Changes(e, Held(t, len))
      BY <3>2, <3>4
    <3> QED
      BY <3>3, <3>4
  <2> HIDE DEF K, L
  <2>3. Selected(g, K) = Selected(t, K) /\ Selected(g, K \union {len + 1}) = Add(Selected(t, K), e)
    BY <1>1, <2>1, SelectedGrows DEF g
  <2>4. CASE Changes(e, Held(t, len))
    BY <2>1, <2>2, <2>3, <2>4
  <2>5. CASE ~Changes(e, Held(t, len))
    BY <2>1, <2>2, <2>3, <2>5
  <2> QED
    BY <2>4, <2>5
<1> HIDE DEF len
<1>10. /\ Held(g, Len(g)) = Update(e, Held(t, len))
       /\ \A r : LastVal(g, Len(g), r) = IF e.rd = r THEN e.val ELSE LastVal(t, len, r)
       /\ IsChange(g, Len(g)) <=> Changes(e, Held(t, len))
  BY <1>2, <1>6, <1>8
<1> QED
  BY <1>1, <1>2, <1>3, <1>7, <1>9, <1>10 DEF g, len
-----------------------------------------------------------------------------
Tell(r) == [pc |-> r.i.pc, gpr |-> [m \in DOMAIN r.upd |->
                                     [rd |-> AbiName(r.upd[m].rd), val |-> r.upd[m].val]]]
Says(e) == [pc |-> e.pc, gpr |-> e.gpr]
Gpr(e)  == IF e.gpr = << >> THEN NoGpr ELSE e.gpr[1]

(* A sequence with one more entry is the shorter one with the entry added. *)
LEMMA MapGrows ==
  ASSUME NEW a, NEW b, NEW y, IsSeq(a), IsSeq(b), Len(b) = Len(a) + 1,
         \A k \in 1..Len(a) : b[k] = a[k], b[Len(b)] = y
  PROVE  b = Add(a, y)
<1> DEFINE u == Add(a, y)
<1>1. /\ IsSeq(u) /\ Len(u) = Len(a) + 1 /\ (\A k \in 1..Len(a) : u[k] = a[k])
      /\ u[Len(a) + 1] = y
  BY Grows
<1> HIDE DEF u
<1>2. \A k \in 1..Len(b) : k \in 1..Len(a) \/ k = Len(a) + 1
  BY DEF IsSeq
<1>3. \A k \in 1..Len(b) : b[k] = u[k]
  BY <1>1, <1>2
<1>4. b = u
  BY <1>1, <1>3, SameSeq
<1> QED
  BY <1>4 DEF u

(* What a CSV and a history tell, row by row: one more row adds what it    *)
(* tells, and none before tells something else.                            *)
LEMMA RowsGrow ==
  ASSUME NEW s, IsSeq(s), NEW x
  PROVE  /\ IsSeq(Tells(s)) /\ Len(Tells(s)) = Len(s)
         /\ \A k \in 1..Len(s) : Tells(s)[k] = Tell(s[k])
         /\ Tells(Add(s, x)) = Add(Tells(s), Tell(x))
         /\ IsSeq(Told(s)) /\ Len(Told(s)) = Len(s) /\ \A k \in 1..Len(s) : Told(s)[k] = Says(s[k])
         /\ Told(Add(s, x)) = Add(Told(s), Says(x))
         /\ IsSeq(Flat(s)) /\ Len(Flat(s)) = Len(s) /\ \A k \in 1..Len(s) : Flat(s)[k] = Gpr(s[k])
         /\ Flat(Add(s, x)) = Add(Flat(s), Gpr(x))
<1> DEFINE t == Add(s, x) m == Len(s)
<1>1. /\ m \in Nat /\ DOMAIN s = 1..m /\ DOMAIN t = 1..(m + 1)
      /\ \A k \in 1..m : t[k] = s[k] /\ k \in 1..(m + 1)
      /\ t[m + 1] = x /\ m + 1 \in 1..(m + 1)
  BY Grows DEF IsSeq
<1> HIDE DEF t, m
<1>2. /\ Tells(s) = [k \in 1..m |-> Tell(s[k])] /\ Tells(t) = [k \in 1..(m + 1) |-> Tell(t[k])]
      /\ Told(s) = [k \in 1..m |-> Says(s[k])] /\ Told(t) = [k \in 1..(m + 1) |-> Says(t[k])]
      /\ Flat(s) = [k \in 1..m |-> Gpr(s[k])] /\ Flat(t) = [k \in 1..(m + 1) |-> Gpr(t[k])]
  BY <1>1 DEF Tells, Tell, Told, Says, Flat, Gpr
<1>3. /\ IsSeq(Tells(s)) /\ Len(Tells(s)) = m /\ (\A k \in 1..m : Tells(s)[k] = Tell(s[k]))
      /\ Tells(t) = Add(Tells(s), Tell(x))
  <2> DEFINE a == Tells(s) b == Tells(t) y == Tell(x) z(k) == Tell(s[k])
  <2>1. IsSeq(a) /\ Len(a) = m /\ \A k \in 1..m : a[k] = z(k)
    BY <1>1, <1>2 DEF IsSeq
  <2>2. /\ IsSeq(b) /\ Len(b) = m + 1
        /\ (\A k \in 1..m : b[k] = z(k)) /\ b[m + 1] = y
    BY <1>1, <1>2 DEF IsSeq
  <2> HIDE DEF a, b, y, z
  <2>3. b = Add(a, y)
    BY <2>1, <2>2, MapGrows
  <2> QED
    BY <2>1, <2>3 DEF a, b, y, z
<1>4. /\ IsSeq(Told(s)) /\ Len(Told(s)) = m /\ (\A k \in 1..m : Told(s)[k] = Says(s[k]))
      /\ Told(t) = Add(Told(s), Says(x))
  <2> DEFINE a == Told(s) b == Told(t) y == Says(x) z(k) == Says(s[k])
  <2>1. IsSeq(a) /\ Len(a) = m /\ \A k \in 1..m : a[k] = z(k)
    BY <1>1, <1>2 DEF IsSeq
  <2>2. /\ IsSeq(b) /\ Len(b) = m + 1
        /\ (\A k \in 1..m : b[k] = z(k)) /\ b[m + 1] = y
    BY <1>1, <1>2 DEF IsSeq
  <2> HIDE DEF a, b, y, z
  <2>3. b = Add(a, y)
    BY <2>1, <2>2, MapGrows
  <2> QED
    BY <2>1, <2>3 DEF a, b, y, z
<1>5. /\ IsSeq(Flat(s)) /\ Len(Flat(s)) = m /\ (\A k \in 1..m : Flat(s)[k] = Gpr(s[k]))
      /\ Flat(t) = Add(Flat(s), Gpr(x))
  <2> DEFINE a == Flat(s) b == Flat(t) y == Gpr(x) z(k) == Gpr(s[k])
  <2>1. IsSeq(a) /\ Len(a) = m /\ \A k \in 1..m : a[k] = z(k)
    BY <1>1, <1>2 DEF IsSeq
  <2>2. /\ IsSeq(b) /\ Len(b) = m + 1
        /\ (\A k \in 1..m : b[k] = z(k)) /\ b[m + 1] = y
    BY <1>1, <1>2 DEF IsSeq
  <2> HIDE DEF a, b, y, z
  <2>3. b = Add(a, y)
    BY <2>1, <2>2, MapGrows
  <2> QED
    BY <2>1, <2>3 DEF a, b, y, z
<1> QED
  BY <1>3, <1>4, <1>5 DEF t, m
-----------------------------------------------------------------------------
(* An update names its register, of the 64, by its ABI name.               *)
LEMMA Updates ==
  ASSUME NEW u, IsUpdate(u)
  PROVE  /\ u = << >> <=> Named(u) = << >>
         /\ u # << >> => /\ u = <<u[1]>> /\ u[1] = [rd |-> u[1].rd, val |-> u[1].val]
                         /\ u[1].rd \in Gprs /\ u[1].val \in Int
                         /\ Named(u) = <<[rd |-> AbiName(u[1].rd), val |-> u[1].val]>>
                         /\ AbiName(u[1].rd) \in Regs
         /\ << >> \o Named(u) = Named(u)
<1>1. CASE u = << >>
  <2>1. Named(u) = << >>
    BY <1>1 DEF Named
  <2> QED
    BY <1>1, <2>1
<1>2. CASE u # << >>
  <2>1. PICK r \in Gprs : u = <<[rd |-> r, val |-> u[1].val]>> /\ u[1].val \in Int
    BY <1>2 DEF IsUpdate
  <2> DEFINE v == u[1].val
  <2>2. u = <<[rd |-> r, val |-> v]>> /\ v \in Int
    BY <2>1
  <2> HIDE DEF v
  <2>3. DOMAIN u = 1..1 /\ u[1] = [rd |-> r, val |-> v]
    BY <2>2
  <2>4. u = <<u[1]>> /\ u[1].rd = r /\ u[1].val = v
    BY <2>2, <2>3
  <2>5. Named(u) = [k \in 1..1 |-> [rd |-> GprToAbi(u[k].rd), val |-> u[k].val]]
    BY <2>3 DEF Named
  <2>6. Named(u) = <<[rd |-> GprToAbi(r), val |-> v]>>
    BY <2>4, <2>5
  <2>7. GprToAbi(r) = AbiName(r) /\ GprToAbi(r) \in Regs
    BY AbiAssumption, TraceFlowAssumption
  <2> DEFINE a == [rd |-> AbiName(r), val |-> v]
  <2>8. Named(u) = <<a>>
    BY <2>6, <2>7
  <2> HIDE DEF a
  <2>9. << >> \o Named(u) = Named(u) /\ Named(u) # << >>
    BY <2>8
  <2> QED
    BY <1>2, <2>2, <2>3, <2>4, <2>7, <2>8, <2>9 DEF a
<1> QED
  BY <1>1, <1>2

(* What is shown of an update, and of an integer register, is one.         *)
LEMMA ShownUpdates ==
  ASSUME NEW u, IsUpdate(u)
  PROVE  /\ IsUpdate(Shown(u)) /\ Shown(Shown(u)) = Shown(u)
         /\ IsUpdate(Integer(u)) /\ (Integer(u) = << >> \/ Integer(u) = u)
         /\ Shown(u) # << >> => Shown(u) = u /\ u # << >> /\ u[1].rd # <<"x", 0>>
         /\ Integer(u) # << >> => u # << >> /\ u[1].rd[1] # "f"
<1>1. IsUpdate(<< >>)
  BY DEF IsUpdate
<1>2. Shown(u) = u \/ Shown(u) = << >>
  BY DEF Shown
<1> QED
  BY <1>1, <1>2 DEF Shown, Integer

(* What a CSV tells of a record: its pc, and its update as it is named.    *)
LEMMA TellIs ==
  ASSUME NEW i, NEW u, IsUpdate(u)
  PROVE  Tell([i |-> i, upd |-> u]) = [pc |-> i.pc, gpr |-> Named(u)]
<1>1. CASE u = << >>
  BY <1>1 DEF Tell, Named
<1>2. CASE u # << >>
  <2>1. u = <<u[1]>> /\ u[1].rd \in Gprs
    BY <1>2, Updates
  <2>2. DOMAIN u = 1..1 /\ \A m \in 1..1 : u[m].rd \in Gprs
    BY <2>1
  <2>3. \A m \in DOMAIN u : GprToAbi(u[m].rd) = AbiName(u[m].rd)
    BY <2>2, AbiAssumption
  <2> QED
    BY <2>3 DEF Tell, Named
<1> QED
  BY <1>1, <1>2
-----------------------------------------------------------------------------
(* What runs is a record, and so is what is printed.                       *)
IsRecord(r) ==
  /\ r = [i |-> r.i, upd |-> r.upd] /\ r.i.pc \in 0..(Word - 1)
  /\ IsUpdate(r.upd) /\ Shown(r.upd) = r.upd
IsPrinted(r) == r.i.kind \in {"plain", "bare"} /\ (r.i.kind = "bare" => r.upd = << >>)
IsConverter(st) == st = [on |-> st.on, e |-> st.e, csv |-> st.csv, done |-> st.done]
Ran(i, u) == [i |-> i, upd |-> Shown(u)]

(* An entry with the pc of an instruction is one, and gets its update.     *)
IsEntry(e) ==
  /\ e = [pc |-> e.pc, op |-> e.op, operand |-> e.operand, gpr |-> e.gpr]
  /\ e.pc \in Nat /\ e.gpr = << >>
Updated(e, u) == [e EXCEPT !.gpr = @ \o Named(u)]

(* What convert_pseudo_instr returns is an instruction.                    *)
LEMMA ConvertIs ==
  ASSUME NEW op, NEW args, NEW digit
  PROVE  Convert(op, args, digit) = Instr(Convert(op, args, digit).op, Convert(op, args, digit).args)
BY DEF Convert, ConvertJump, Instr

(* An entry that is read from a line is not the empty one, and its update  *)
(* is told with it.                                                        *)
LEMMA Entries ==
  ASSUME NEW e, IsEntry(e), NEW u, IsUpdate(u)
  PROVE  /\ e # NoEntry /\ Updated(e, u) # NoEntry
         /\ Updated(e, u).op = e.op /\ Updated(e, u).gpr = Named(u)
         /\ Updated(e, u).operand = e.operand
         /\ Says(e) = [pc |-> e.pc, gpr |-> << >>]
         /\ Says(Updated(e, u)) = [pc |-> e.pc, gpr |-> Named(u)]
<1>1. NoEntry.pc = -1
  BY DEF NoEntry
<1> DEFINE g == Named(u)
           f == Updated(e, u)
<1>2. << >> \o g = g
  BY Updates
<1>3. f = [e EXCEPT !.gpr = @ \o g]
  BY DEF Updated
<1> HIDE DEF g, f
<1>4. /\ f.gpr = e.gpr \o g /\ f.pc = e.pc /\ f.op = e.op /\ f.operand = e.operand
      /\ e.gpr = << >> /\ e.pc \in Nat
  BY <1>3 DEF IsEntry
<1>5. f.gpr = g
  BY <1>2, <1>4
<1>6. e.pc # -1
  BY <1>4
<1> QED
  BY <1>1, <1>4, <1>5, <1>6, Zenon DEF g, f, Says

(* What an instruction makes of the state of each converter.               *)
CoreAfter(st, i, u)    == CoreStep(st, TracerLine(i, u))
SpikeAfter(st, i, u)   == ReadSpike(st, SpikeLines(i, u))
SailAfter(st, i, u)    == Read(SailStep, st, SailLines(i, u))
WhisperAfter(st, i, u) == WhisperStep(st, WhisperLine(i, u))
OvpAfter(st, i, u)     == Read(OvpStep, st, OvpLines(i, u))
RenodeAfter(st, x, at) == RenodeStep(st, Dump(x, at))

(* One row more, that tells a record; and one that also names it.          *)
Adds(c, d, r) == \E e : Says(e) = Tell(r) /\ d = Add(c, e)
Name(e) == Instr(e.op, e.operand)
AddsAs(c, d, r, name) == \E e : Says(e) = Tell(r) /\ Name(e) = name /\ d = Add(c, e)
CoreName(i) == Instr(i.op, CoreOperand(i))
SpikeName(i) == Convert(i.op, i.args, i.digit)

(* core_log_to_trace_csv.py and one line of the tracer: a row is added,    *)
(* with the pc and the update of the instruction, if a register was shown. *)
LEMMA CoreReads ==
  ASSUME NEW st, IsConverter(st), st.done = FALSE,
         NEW i, i.pc \in Nat, i.kind \in {"plain", "bare"},
         NEW u, IsUpdate(u), i.kind = "bare" => u = << >>
  PROVE  /\ IsConverter(CoreAfter(st, i, u)) /\ CoreAfter(st, i, u).done = FALSE
         /\ Wrote(Ran(i, u)) =>
              AddsAs(st.csv, CoreAfter(st, i, u).csv, Ran(i, u), CoreName(i))
         /\ ~Wrote(Ran(i, u)) => CoreAfter(st, i, u).csv = st.csv
<1> DEFINE t == CoreAfter(st, i, u)
           s == Shown(u)
           l == TracerLine(i, u)
           e == IF l.t = "instr" THEN Entry(i, CoreOperand(i), << >>) ELSE st.e
           f == Updated(e, s)
<1>0. t = CoreStep(st, TracerLine(i, u))
  BY DEF CoreAfter
<1> HIDE DEF t
<1> SUFFICES /\ IsConverter(t) /\ t.done = FALSE
             /\ Wrote(Ran(i, u)) => AddsAs(st.csv, t.csv, Ran(i, u), CoreName(i))
             /\ ~Wrote(Ran(i, u)) => t.csv = st.csv
  BY DEF t
<1>1. /\ l.t = (IF i.kind = "bare" THEN "bare" ELSE "instr") /\ l.i = i /\ l.upd = s
      /\ l.t # "ecall"
  BY DEF TracerLine, Line
<1>2. t = IF s = << >> \/ e = NoEntry THEN [st EXCEPT !.e = e]
          ELSE [st EXCEPT !.e = f, !.csv = Append(@, f)]
  BY <1>0, <1>1 DEF CoreStep, Updated
<1>3. Wrote(Ran(i, u)) <=> s # << >>
  BY DEF Wrote, Ran
<1>4. CASE s = << >>
  <2>1. t = [st EXCEPT !.e = e]
    BY <1>2, <1>4
  <2> HIDE DEF e
  <2>2. t = [on |-> st.on, e |-> e, csv |-> st.csv, done |-> st.done]
    BY <2>1 DEF IsConverter
  <2> QED
    BY <1>3, <1>4, <2>2 DEF IsConverter
<1>5. CASE s # << >>
  <2>1. IsUpdate(s) /\ i.kind = "plain" /\ l.t = "instr"
    BY <1>1, <1>5, ShownUpdates DEF Shown
  <2>2. IsEntry(e) /\ e.pc = i.pc /\ Name(e) = CoreName(i)
    BY <2>1 DEF Entry, IsEntry, Name, CoreName
  <2> HIDE DEF e
  <2>3. /\ e # NoEntry /\ Says(f) = [pc |-> i.pc, gpr |-> Named(s)]
        /\ f.op = e.op /\ f.operand = e.operand
    BY <2>1, <2>2, Entries
  <2>7. Name(f) = CoreName(i)
    BY <2>2, <2>3 DEF Name
  <2>4. Says(f) = Tell(Ran(i, u))
    BY <2>1, <2>3, TellIs DEF Ran
  <2>5. t = [st EXCEPT !.e = f, !.csv = Append(@, f)]
    BY <1>2, <1>5, <2>3
  <2> HIDE DEF f
  <2>6. t = [on |-> st.on, e |-> f, csv |-> Add(st.csv, f), done |-> st.done]
    BY <2>5 DEF IsConverter, Add
  <2> QED
    BY <1>3, <1>5, <2>4, <2>6, <2>7 DEF IsConverter, AddsAs
<1> QED
  BY <1>4, <1>5

Listed(r) == full \/ Wrote(r) \/ r.i.op \in {"wfi", "ecall"}

(* spike_log_to_trace_csv.py and the two lines of an instruction: what it  *)
(* would write if the log ended here tells the instruction too if it wrote *)
(* a register, is wfi or ecall, or with full_trace; the pending entry of   *)
(* the one before is told once, before it.                                 *)
LEMMA SpikeReads ==
  ASSUME NEW st, IsConverter(st), st.on = TRUE, st.done = FALSE, full \in BOOLEAN,
         NEW i, i.pc \in Nat,
         NEW u, IsUpdate(u), i.kind = "illegal" \/ i.op = "ecall" => u = << >>
  PROVE  /\ IsConverter(SpikeAfter(st, i, u)) /\ SpikeAfter(st, i, u).on = TRUE
         /\ SpikeAfter(st, i, u).done = IF i.op = "ecall" THEN TRUE ELSE FALSE
         /\ Listed(Ran(i, u)) =>
              Adds(SpikeCsv(st, full), SpikeCsv(SpikeAfter(st, i, u), full), Ran(i, u))
         /\ full => AddsAs(SpikeCsv(st, full), SpikeCsv(SpikeAfter(st, i, u), full),
                           Ran(i, u), SpikeName(i))
         /\ ~Listed(Ran(i, u)) => SpikeCsv(SpikeAfter(st, i, u), full) = SpikeCsv(st, full)
         /\ SpikeAfter(st, i, u).csv \in {SpikeCsv(st, full), SpikeCsv(SpikeAfter(st, i, u), full)}
<1> DEFINE t == SpikeAfter(st, i, u)
           s == Shown(u)
           e == SpikeEntry(i, full)
           csv == SpikeCsv(st, full)
           m == [on |-> TRUE, e |-> e, csv |-> csv, done |-> IF i.op = "ecall" THEN TRUE ELSE FALSE]
           l == SpikeLines(i, u)[2]
           listed == full \/ s # << >> \/ i.op \in {"wfi", "ecall"}
<1>0. t = ReadSpike(st, SpikeLines(i, u))
  BY DEF SpikeAfter
<1> HIDE DEF t
<1> SUFFICES /\ IsConverter(t) /\ t.on = TRUE /\ t.done = IF i.op = "ecall" THEN TRUE ELSE FALSE
             /\ Listed(Ran(i, u)) => Adds(SpikeCsv(st, full), SpikeCsv(t, full), Ran(i, u))
             /\ full => AddsAs(SpikeCsv(st, full), SpikeCsv(t, full), Ran(i, u), SpikeName(i))
             /\ ~Listed(Ran(i, u)) => SpikeCsv(t, full) = SpikeCsv(st, full)
             /\ t.csv \in {SpikeCsv(st, full), SpikeCsv(t, full)}
  BY DEF t
<1>1. /\ IsEntry(e) /\ e.pc = i.pc /\ (~full => e.op = i.op)
      /\ full => Name(e) = SpikeName(i)
  <2>1. SpikeName(i) = Instr(SpikeName(i).op, SpikeName(i).args)
    BY ConvertIs DEF SpikeName
  <2> QED
    BY <2>1 DEF SpikeEntry, Entry, IsEntry, Name, SpikeName
<1>2. IsUpdate(s) /\ Listed(Ran(i, u)) = listed
  BY ShownUpdates DEF Listed, Wrote, Ran
<1>3. Tell(Ran(i, u)) = [pc |-> i.pc, gpr |-> Named(s)]
  BY <1>2, TellIs DEF Ran
<1> HIDE DEF e
<1>4. SpikeStep(st, SpikeLines(i, u)[1], full) = m
  BY DEF SpikeStep, SpikeLines, Line, SpikeCsv, IsConverter, e
<1>5. t = SpikeStep(m, l, full)
  BY <1>0, <1>4 DEF ReadSpike, Read
<1>6. /\ l.t = IF i.kind = "illegal" THEN "illegal" ELSE IF s # << >> THEN "commit" ELSE "other"
      /\ l.t = "commit" => l.upd = s
  BY DEF SpikeLines, Line
<1> DEFINE f == Updated(e, s)
<1>7. /\ e # NoEntry /\ f # NoEntry /\ f.op = e.op /\ f.operand = e.operand /\ f.gpr = Named(s)
      /\ Says(e) = [pc |-> i.pc, gpr |-> << >>] /\ Says(f) = [pc |-> i.pc, gpr |-> Named(s)]
  BY <1>1, <1>2, Entries
<1>8. s = << >> <=> Named(s) = << >>
  BY <1>2, Updates
<1>10. s = << >> => Yield(m, full) = IF listed THEN Add(csv, e) ELSE csv
  <2> HIDE DEF csv
  <2> QED
    BY <1>1, <1>7 DEF Yield, Add, IsEntry
<1> HIDE DEF csv
<1>11. IsConverter(m) /\ m.e = e /\ m.done = IF i.op = "ecall" THEN TRUE ELSE FALSE
  BY DEF IsConverter
<1>12. SpikeCsv(m, full) = Yield(m, full)
  BY <1>7 DEF SpikeCsv
<1>9. full => Name(e) = SpikeName(i) /\ Name(f) = SpikeName(i)
  BY <1>1, <1>7 DEF Name
<1> DEFINE Right(d) == /\ Says(d) = Tell(Ran(i, u)) /\ (full => Name(d) = SpikeName(i))
                       /\ t.csv \in {csv, SpikeCsv(t, full)}
                       /\ SpikeCsv(t, full) = IF listed THEN Add(csv, d) ELSE csv
<1> SUFFICES /\ IsConverter(t) /\ t.on = TRUE /\ t.done = IF i.op = "ecall" THEN TRUE ELSE FALSE
             /\ \E d : Right(d)
  BY <1>2 DEF csv, Adds, AddsAs, Listed
<1>13. CASE i.op = "ecall"
  <2>1. s = << >> /\ listed
    BY <1>13 DEF Shown
  <2>2. t = m
    BY <1>5, <1>13 DEF SpikeStep
  <2>3. Right(e)
    BY <1>3, <1>7, <1>8, <1>9, <1>10, <1>12, <2>1, <2>2
  <2>4. IsConverter(t) /\ t.on = TRUE /\ t.done = IF i.op = "ecall" THEN TRUE ELSE FALSE
    BY <1>11, <2>2
  <2> HIDE DEF Right
  <2> QED
    BY <2>3, <2>4
<1>14. CASE i.op # "ecall" /\ l.t = "other"
  <2>1. s = << >>
    BY <1>6, <1>14 DEF Shown
  <2>2. t = m
    BY <1>5, <1>14 DEF SpikeStep
  <2>3. Right(e)
    BY <1>3, <1>7, <1>8, <1>9, <1>10, <1>12, <2>1, <2>2
  <2>4. IsConverter(t) /\ t.on = TRUE /\ t.done = IF i.op = "ecall" THEN TRUE ELSE FALSE
    BY <1>11, <2>2
  <2> HIDE DEF Right
  <2> QED
    BY <2>3, <2>4
<1>15. CASE i.op # "ecall" /\ l.t = "illegal"
  <2>1. s = << >>
    BY <1>6, <1>15 DEF Shown
  <2>2. t = [m EXCEPT !.csv = Yield(m, full), !.e = NoEntry]
    BY <1>5, <1>7, <1>15 DEF SpikeStep
  <2> DEFINE y == Yield(m, full)
  <2> HIDE DEF y
  <2>3. t = [on |-> TRUE, e |-> NoEntry, csv |-> y, done |-> FALSE]
    BY <1>15, <2>2 DEF y
  <2>4. SpikeCsv(t, full) = y
    BY <2>3 DEF SpikeCsv
  <2>5. Right(e)
    BY <1>3, <1>7, <1>8, <1>9, <1>10, <2>1, <2>3, <2>4 DEF y
  <2>6. IsConverter(t) /\ t.on = TRUE /\ t.done = IF i.op = "ecall" THEN TRUE ELSE FALSE
    BY <1>15, <2>3 DEF IsConverter
  <2> HIDE DEF Right
  <2> QED
    BY <2>5, <2>6
<1>16. CASE i.op # "ecall" /\ l.t = "commit"
  <2>1. s # << >> /\ l.upd = s
    BY <1>6, <1>16
  <2>2. t = [m EXCEPT !.e.gpr = @ \o Named(s)]
    BY <1>5, <1>7, <1>16, <2>1 DEF SpikeStep
  <2>3. t = [on |-> TRUE, e |-> f, csv |-> csv, done |-> FALSE]
    BY <1>16, <2>2 DEF Updated
  <2> HIDE DEF f
  <2>4. SpikeCsv(t, full) = Add(csv, f)
    BY <1>7, <1>8, <2>1, <2>3 DEF SpikeCsv, Yield, Add
  <2>5. Right(f)
    BY <1>3, <1>7, <1>9, <2>1, <2>3, <2>4
  <2>6. IsConverter(t) /\ t.on = TRUE /\ t.done = IF i.op = "ecall" THEN TRUE ELSE FALSE
    BY <1>16, <2>3 DEF IsConverter
  <2> HIDE DEF Right
  <2> QED
    BY <2>5, <2>6
<1> QED
  BY <1>6, <1>13, <1>14, <1>15, <1>16

HasInteger(r) == Integer(r.upd) # << >>

(* The integer register of what was shown, if it is one.                   *)
LEMMA IntegerShown ==
  ASSUME NEW u, IsUpdate(u), NEW i
  PROVE  /\ IsUpdate(Integer(Shown(u)))
         /\ HasInteger(Ran(i, u)) <=> Integer(Shown(u)) # << >>
         /\ HasInteger(Ran(i, u)) =>
              Tell(Ran(i, u)) = [pc |-> i.pc, gpr |-> Named(Integer(Shown(u)))]
<1> DEFINE s == Shown(u)
<1>1. IsUpdate(s)
  BY ShownUpdates
<1>2. IsUpdate(Integer(s)) /\ (Integer(s) = << >> \/ Integer(s) = s)
  BY <1>1, ShownUpdates
<1>3. HasInteger(Ran(i, u)) <=> Integer(s) # << >>
  BY DEF HasInteger, Ran
<1>4. Tell(Ran(i, u)) = [pc |-> i.pc, gpr |-> Named(s)]
  BY <1>1, TellIs DEF Ran
<1> QED
  BY <1>2, <1>3, <1>4

(* sail_log_to_trace_csv.py and the two lines of an instruction: a row is  *)
(* added if it wrote an integer register.                                  *)
LEMMA SailReads ==
  ASSUME NEW st, IsConverter(st), st.on = TRUE, st.done = FALSE,
         NEW i, i.pc \in Nat, i.kind # "ecall", NEW u, IsUpdate(u)
  PROVE  /\ IsConverter(SailAfter(st, i, u))
         /\ SailAfter(st, i, u).on = TRUE /\ SailAfter(st, i, u).done = FALSE
         /\ HasInteger(Ran(i, u)) => Adds(st.csv, SailAfter(st, i, u).csv, Ran(i, u))
         /\ ~HasInteger(Ran(i, u)) => SailAfter(st, i, u).csv = st.csv
<1> DEFINE t == SailAfter(st, i, u)
           w == Integer(Shown(u))
           e == Entry(i, << >>, << >>)
           f == [e EXCEPT !.gpr = Named(w)]
           m == [on |-> TRUE, e |-> e, csv |-> st.csv, done |-> FALSE]
           l == SailLines(i, u)[2]
<1>0. t = Read(SailStep, st, SailLines(i, u))
  BY DEF SailAfter
<1> HIDE DEF t
<1> SUFFICES /\ IsConverter(t) /\ t.on = TRUE /\ t.done = FALSE
             /\ HasInteger(Ran(i, u)) => Adds(st.csv, t.csv, Ran(i, u))
             /\ ~HasInteger(Ran(i, u)) => t.csv = st.csv
  BY DEF t
<1>1. /\ IsUpdate(w)
      /\ HasInteger(Ran(i, u)) <=> w # << >>
      /\ HasInteger(Ran(i, u)) => Tell(Ran(i, u)) = [pc |-> i.pc, gpr |-> Named(w)]
  BY IntegerShown
<1>2. SailLines(i, u)[1].t = "instr" /\ SailLines(i, u)[1].i = i
  BY DEF SailLines, Line
<1>3. /\ l.t = (IF w # << >> THEN "reg" ELSE "other") /\ l.upd = w
      /\ l.t # "start" /\ l.t # "ecall" /\ l.t # "instr"
  BY DEF SailLines, Line
<1>4. e.pc = i.pc /\ e # NoEntry
  <2>1. e.pc = i.pc /\ NoEntry.pc = -1
    BY DEF Entry, NoEntry
  <2>2. i.pc # -1
    OBVIOUS
  <2> HIDE DEF e
  <2> QED
    BY <2>1, <2>2
<1>5. Says(f) = [pc |-> i.pc, gpr |-> Named(w)]
  BY DEF Says, Entry
<1> HIDE DEF e, f
<1>6. SailStep(st, SailLines(i, u)[1]) = m
  BY <1>2 DEF SailStep, IsConverter, e
<1>7. t = SailStep(m, l)
  BY <1>0, <1>6 DEF Read
<1>8. CASE w = << >>
  <2>1. t = m
    BY <1>3, <1>7, <1>8 DEF SailStep
  <2> QED
    BY <1>1, <1>8, <2>1 DEF IsConverter
<1>9. CASE w # << >>
  <2>1. t = [m EXCEPT !.csv = Append(@, f), !.e = NoEntry]
    BY <1>3, <1>4, <1>7, <1>9 DEF SailStep, f
  <2>2. t = [on |-> TRUE, e |-> NoEntry, csv |-> Add(st.csv, f), done |-> FALSE]
    BY <2>1 DEF Add
  <2>3. Says(f) = Tell(Ran(i, u)) /\ t.csv = Add(st.csv, f)
    BY <1>1, <1>5, <1>9, <2>2
  <2> QED
    BY <1>1, <1>9, <2>2, <2>3 DEF IsConverter, Adds
<1> QED
  BY <1>8, <1>9

(* whisper_log_trace_csv.py and the line of an instruction: the same.      *)
LEMMA WhisperReads ==
  ASSUME NEW st, IsConverter(st), st.done = FALSE,
         NEW i, i.kind # "ecall", NEW u, IsUpdate(u)
  PROVE  /\ IsConverter(WhisperAfter(st, i, u)) /\ WhisperAfter(st, i, u).done = FALSE
         /\ HasInteger(Ran(i, u)) => Adds(st.csv, WhisperAfter(st, i, u).csv, Ran(i, u))
         /\ ~HasInteger(Ran(i, u)) => WhisperAfter(st, i, u).csv = st.csv
<1> DEFINE t == WhisperAfter(st, i, u)
           w == Integer(Shown(u))
           e == Entry(i, << >>, Named(w))
           l == WhisperLine(i, u)
<1>0. t = WhisperStep(st, WhisperLine(i, u))
  BY DEF WhisperAfter
<1> HIDE DEF t
<1> SUFFICES /\ IsConverter(t) /\ t.done = FALSE
             /\ HasInteger(Ran(i, u)) => Adds(st.csv, t.csv, Ran(i, u))
             /\ ~HasInteger(Ran(i, u)) => t.csv = st.csv
  BY DEF t
<1>1. /\ IsUpdate(w)
      /\ HasInteger(Ran(i, u)) <=> w # << >>
      /\ HasInteger(Ran(i, u)) => Tell(Ran(i, u)) = [pc |-> i.pc, gpr |-> Named(w)]
  BY IntegerShown
<1>2. l.t = (IF w # << >> THEN "r" ELSE "other") /\ l.upd = w /\ l.i = i
  BY DEF WhisperLine, Line
<1>3. Says(e) = [pc |-> i.pc, gpr |-> Named(w)]
  BY DEF Says, Entry
<1>4. CASE w = << >>
  <2>1. t = st
    BY <1>0, <1>2, <1>4 DEF WhisperStep
  <2> QED
    BY <1>1, <1>4, <2>1
<1>5. CASE w # << >>
  <2>1. t = [st EXCEPT !.csv = Append(@, e)]
    BY <1>0, <1>2, <1>5 DEF WhisperStep
  <2> HIDE DEF e
  <2>2. t = [on |-> st.on, e |-> st.e, csv |-> Add(st.csv, e), done |-> FALSE]
    BY <2>1 DEF Add, IsConverter
  <2>3. Says(e) = Tell(Ran(i, u)) /\ t.csv = Add(st.csv, e)
    BY <1>1, <1>3, <1>5, <2>2
  <2> QED
    BY <1>1, <1>5, <2>2, <2>3 DEF IsConverter, Adds
<1> QED
  BY <1>4, <1>5

(* OVPsim's entry is the one of the last instruction.                      *)
OvpCsv(st) == IF st.e = NoEntry THEN st.csv ELSE Add(st.csv, st.e)

(* ovpsim_log_to_trace_csv.py and the two lines of an instruction: the     *)
(* entry before is written, and this one, with its update, is the pending  *)
(* one.                                                                    *)
LEMMA OvpReads ==
  ASSUME NEW st, IsConverter(st), st.done = FALSE,
         NEW i, i.pc \in Nat, NEW u, IsUpdate(u), i.kind = "ecall" => u = << >>
  PROVE  /\ IsConverter(OvpAfter(st, i, u))
         /\ OvpAfter(st, i, u).done = IF i.kind = "ecall" THEN TRUE ELSE FALSE
         /\ OvpAfter(st, i, u).csv = OvpCsv(st) /\ OvpAfter(st, i, u).e # NoEntry
         /\ Says(OvpAfter(st, i, u).e) = Tell(Ran(i, u))
         /\ Name(OvpAfter(st, i, u).e) = OvpInstr(i)
<1> DEFINE t == OvpAfter(st, i, u)
           s == Shown(u)
           e == Entry([i EXCEPT !.op = OvpInstr(i).op], OvpInstr(i).args, << >>)
           f == Updated(e, s)
           csv == OvpCsv(st)
           d == IF i.kind = "ecall" THEN TRUE ELSE FALSE
           m == [on |-> st.on, e |-> e, csv |-> csv, done |-> d]
           l == OvpLines(i, u)[2]
<1>0. t = Read(OvpStep, st, OvpLines(i, u))
  BY DEF OvpAfter
<1> HIDE DEF t
<1> SUFFICES /\ IsConverter(t) /\ t.done = IF i.kind = "ecall" THEN TRUE ELSE FALSE
             /\ t.csv = OvpCsv(st) /\ t.e # NoEntry /\ Says(t.e) = Tell(Ran(i, u))
             /\ Name(t.e) = OvpInstr(i)
  BY DEF t
<1>1. IsUpdate(s) /\ Tell(Ran(i, u)) = [pc |-> i.pc, gpr |-> Named(s)]
  BY ShownUpdates, TellIs DEF Ran
<1>2. OvpLines(i, u)[1].t = "instr" /\ OvpLines(i, u)[1].i = i
  BY DEF OvpLines, Line
<1>3. l.t = (IF s # << >> THEN "reg" ELSE "other") /\ l.upd = s
  BY DEF OvpLines, Line
<1>4. IsEntry(e) /\ e.pc = i.pc /\ Name(e) = OvpInstr(i)
  <2>1. OvpInstr(i) = Instr(OvpInstr(i).op, OvpInstr(i).args)
    BY ConvertIs DEF OvpInstr
  <2> QED
    BY <2>1 DEF Entry, IsEntry, Name
<1>5. OvpStep(st, OvpLines(i, u)[1]) = m
  BY <1>2 DEF OvpStep, OvpCsv, Add, IsConverter
<1> HIDE DEF e, csv, d
<1>6. t = OvpStep(m, l)
  BY <1>0, <1>5 DEF Read
<1>7. /\ e # NoEntry /\ f # NoEntry /\ f.op = e.op /\ f.operand = e.operand
      /\ Says(e) = [pc |-> i.pc, gpr |-> << >>] /\ Says(f) = [pc |-> i.pc, gpr |-> Named(s)]
  BY <1>1, <1>4, Entries
<1>10. Name(f) = OvpInstr(i)
  BY <1>4, <1>7 DEF Name
<1>8. CASE s = << >>
  <2>1. t = m /\ Named(s) = << >>
    BY <1>1, <1>3, <1>6, <1>8, Updates DEF OvpStep
  <2> QED
    BY <1>1, <1>4, <1>7, <2>1 DEF IsConverter, csv, d
<1>9. CASE s # << >>
  <2>1. i.kind # "ecall" /\ d = FALSE
    BY <1>9 DEF Shown, d
  <2>2. t = [m EXCEPT !.e.gpr = @ \o Named(s)]
    BY <1>3, <1>6, <1>9, <2>1 DEF OvpStep
  <2>3. t = [on |-> st.on, e |-> f, csv |-> csv, done |-> d]
    BY <2>2 DEF Updated
  <2> HIDE DEF f
  <2> QED
    BY <1>1, <1>7, <1>10, <2>3 DEF IsConverter, csv, d
<1> QED
  BY <1>8, <1>9

Written(x, w) == IF w = << >> THEN x ELSE [x EXCEPT ![w[1].rd[2]] = w[1].val]

(* An update of an integer register: which register, and its name.         *)
LEMMA IntegerIs ==
  ASSUME NEW u, IsUpdate(u), NEW w, w = Integer(Shown(u)), w # << >>
  PROVE  /\ w[1].rd = <<"x", w[1].rd[2]>> /\ w[1].rd[2] \in 0..31 /\ w[1].val \in Int
         /\ Named(w) = <<[rd |-> AbiName(w[1].rd), val |-> w[1].val]>>
<1>1. IsUpdate(Shown(u))
  BY ShownUpdates
<1>2. IsUpdate(w) /\ w = Shown(u) /\ w[1].rd[1] # "f"
  BY <1>1, ShownUpdates
<1>3. /\ w[1].rd \in Gprs /\ w[1].val \in Int
      /\ Named(w) = <<[rd |-> AbiName(w[1].rd), val |-> w[1].val]>>
  BY <1>2, Updates
<1>4. \A g \in Gprs : g[1] # "f" => g = <<"x", g[2]>> /\ g[2] \in 0..31
  BY DEF Gprs
<1> QED
  BY <1>2, <1>3, <1>4

IsDumps(st) == st = [x |-> st.x, prev |-> st.prev, csv |-> st.csv, done |-> st.done]
Differs(x, w) == w # << >> /\ x[w[1].rd[2]] # w[1].val

NewDump(st, w, t) ==
  \E e : Says(e) = [pc |-> st.prev, gpr |-> Named(w)] /\ t.csv = Add(st.csv, e)

Dumped(st, w, y, t, next) ==
  /\ y \in [0..31 -> Int] /\ IsDumps(t) /\ t.done = FALSE /\ t.prev = next /\ t.x = y
  /\ Differs(st.x, w) => NewDump(st, w, t)
  /\ ~Differs(st.x, w) => t.csv = st.csv

(* renode_log_to_trace_csv.py and the dump after an instruction, that      *)
(* differs from the dump before in the register written, if that had       *)
(* another value: then the one difference is a row, with the pc before.    *)
LEMMA RenodeReads ==
  ASSUME NEW st, IsDumps(st), st.done = FALSE, st.x \in [0..31 -> Int],
         NEW u, IsUpdate(u), NEW w, w = Integer(Shown(u)), NEW next
  PROVE  Dumped(st, w, Written(st.x, w), RenodeAfter(st, Written(st.x, w), next), next)
<1> DEFINE x == st.x
           y == Written(x, w)
           diff == {k \in 0..31 : x[k] # y[k]}
           gpr == [m \in 1..Cardinality(diff) |->
                     LET k == CHOOSE k \in diff : Cardinality({j \in diff : j < k}) = m - 1
                     IN [rd |-> GprToAbi(<<"x", k>>), val |-> y[k]]]
           e == [pc |-> st.prev, gpr |-> gpr]
           csv == IF diff = {} THEN st.csv ELSE Add(st.csv, e)
           t == RenodeAfter(st, y, next)
<1>0. t = RenodeStep(st, Dump(y, next))
  BY DEF RenodeAfter
<1> HIDE DEF t
<1> SUFFICES /\ y \in [0..31 -> Int] /\ IsDumps(t) /\ t.done = FALSE /\ t.prev = next /\ t.x = y
             /\ Differs(x, w) => NewDump(st, w, t)
             /\ ~Differs(x, w) => t.csv = st.csv
  BY DEF t, Dumped
<1>1. t = [x |-> y, prev |-> next, csv |-> csv, done |-> FALSE]
  <2>1. t = [st EXCEPT !.x = y, !.prev = next,
                       !.csv = IF diff = {} THEN @ ELSE Append(@, e)]
    BY <1>0 DEF RenodeStep, Dump
  <2> HIDE DEF x, y, diff, gpr
  <2> QED
    BY <2>1 DEF Add, IsDumps
<1> HIDE DEF diff, gpr, e, csv
<1>2. diff = {} => t = [x |-> y, prev |-> next, csv |-> st.csv, done |-> FALSE]
  BY <1>1 DEF csv
<1>3. diff # {} => t = [x |-> y, prev |-> next, csv |-> Add(st.csv, e), done |-> FALSE]
  BY <1>1 DEF csv
<1>4. CASE w = << >>
  <2>1. y = x
    BY <1>4 DEF Written
  <2>2. diff = {}
    BY <2>1 DEF diff
  <2> QED
    BY <1>2, <1>4, <2>1, <2>2 DEF IsDumps, Differs
<1>5. CASE w # << >>
  <2> DEFINE k0 == w[1].rd[2]
             v == w[1].val
  <2>1. /\ w[1].rd = <<"x", k0>> /\ k0 \in 0..31 /\ v \in Int
        /\ Named(w) = <<[rd |-> AbiName(w[1].rd), val |-> v]>>
    BY <1>5, IntegerIs
  <2>2. y = [x EXCEPT ![k0] = v]
    BY <1>5 DEF Written
  <2> HIDE DEF y, k0, v
  <2>3. y \in [0..31 -> Int] /\ y[k0] = v /\ \A k \in 0..31 : k # k0 => y[k] = x[k]
    BY <2>1, <2>2
  <2>4. CASE x[k0] = v
    <3>1. diff = {}
      BY <2>3, <2>4 DEF diff
    <3>2. t = [x |-> y, prev |-> next, csv |-> st.csv, done |-> FALSE]
      BY <1>2, <3>1
    <3>3. t.csv = st.csv /\ ~(x[w[1].rd[2]] # w[1].val)
      BY <2>4, <3>2 DEF k0, v
    <3> QED
      BY <2>3, <3>2, <3>3 DEF y, IsDumps, Differs, NewDump
  <2>5. CASE x[k0] # v
    <3>1. diff = {k0}
      BY <2>1, <2>3, <2>5 DEF diff
    <3>2. Cardinality(diff) = 1 /\ Cardinality({j \in diff : j < k0}) = 0
      <4>1. {j \in diff : j < k0} = {}
        BY <2>1, <3>1
      <4>2. Cardinality({k0}) = 1 /\ Cardinality({}) = 0
        BY FS_Singleton, FS_EmptySet
      <4> QED
        BY <3>1, <4>1, <4>2
    <3>3. (CHOOSE k \in diff : Cardinality({j \in diff : j < k}) = 1 - 1) = k0
      BY <3>1, <3>2
    <3> DEFINE c(m) == CHOOSE k \in diff : Cardinality({j \in diff : j < k}) = m - 1
    <3>4. c(1) = k0
      BY <3>3
    <3>5. gpr = [m \in 1..1 |-> [rd |-> GprToAbi(<<"x", c(m)>>), val |-> y[c(m)]]]
      BY <3>2 DEF gpr
    <3> HIDE DEF c
    <3>6. gpr = <<[rd |-> GprToAbi(<<"x", k0>>), val |-> y[k0]]>>
      BY <3>4, <3>5
    <3>7. GprToAbi(<<"x", k0>>) = AbiName(<<"x", k0>>)
      BY <2>1, AbiAssumption DEF Gprs
    <3>8. gpr = Named(w)
      BY <2>1, <2>3, <3>6, <3>7
    <3>9. Says(e) = [pc |-> st.prev, gpr |-> Named(w)]
      BY <3>8 DEF Says, e
    <3>10. t = [x |-> y, prev |-> next, csv |-> Add(st.csv, e), done |-> FALSE]
      BY <1>3, <3>1
    <3>11. t.csv = Add(st.csv, e) /\ x[w[1].rd[2]] # w[1].val
      BY <2>5, <3>10 DEF k0, v
    <3> QED
      BY <1>5, <2>3, <3>9, <3>10, <3>11 DEF y, IsDumps, Differs, NewDump
  <2> QED
    BY <2>4, <2>5
<1> QED
  BY <1>4, <1>5
-----------------------------------------------------------------------------
(* A CSV that tells a history, and one row more that tells one record      *)
(* more.                                                                   *)
LEMMA TellsMore ==
  ASSUME NEW c, IsSeq(c), NEW a, IsSeq(a), Told(c) = Tells(a), NEW e, NEW r, Says(e) = Tell(r)
  PROVE  IsSeq(Add(c, e)) /\ Told(Add(c, e)) = Tells(Add(a, r))
<1>1. IsSeq(Add(c, e))
  BY Grows
<1>2. Told(Add(c, e)) = Add(Told(c), Says(e))
  BY RowsGrow
<1>3. Tells(Add(a, r)) = Add(Tells(a), Tell(r))
  BY RowsGrow
<1> QED
  BY <1>1, <1>2, <1>3

(* A history by what is logged of it: one record more is there if it       *)
(* passes.                                                                 *)
LEMMA OnlyGrows ==
  ASSUME NEW h, IsSeq(h), NEW r
  PROVE  /\ IsSeq(Only(h, Wrote)) /\ IsSeq(Only(h, Listed)) /\ IsSeq(Only(h, HasInteger))
         /\ Only(Add(h, r), Wrote) = IF Wrote(r) THEN Add(Only(h, Wrote), r) ELSE Only(h, Wrote)
         /\ Only(Add(h, r), Listed) = IF Listed(r) THEN Add(Only(h, Listed), r) ELSE Only(h, Listed)
         /\ Only(Add(h, r), HasInteger) =
              IF HasInteger(r) THEN Add(Only(h, HasInteger), r) ELSE Only(h, HasInteger)
<1> DEFINE g == Add(h, r)
           len == Len(h)
           V == {k \in 1..len : Wrote(h[k])}
           L == {k \in 1..len : Listed(h[k])}
           Z == {k \in 1..len : HasInteger(h[k])}
<1>1. /\ IsSeq(g) /\ DOMAIN h = 1..len /\ DOMAIN g = 1..(len + 1) /\ len \in Nat
      /\ \A k \in 1..len : g[k] = h[k]
      /\ g[len + 1] = r
  BY Grows DEF IsSeq
<1>2. \A k : k \in 1..(len + 1) <=> k \in 1..len \/ k = len + 1
  BY <1>1
<1> HIDE DEF g
<1>3. /\ Only(h, Wrote) = Selected(h, V) /\ Only(h, Listed) = Selected(h, L)
      /\ Only(h, HasInteger) = Selected(h, Z)
  BY <1>1 DEF Only
<1>4. {k \in DOMAIN g : Wrote(g[k])} = IF Wrote(r) THEN V \union {len + 1} ELSE V
  <2> DEFINE S == {k \in DOMAIN g : Wrote(g[k])}
  <2>1. \A k : k \in S <=> k \in V \/ (k = len + 1 /\ Wrote(r))
    BY <1>1, <1>2
  <2> HIDE DEF S, V
  <2>2. CASE Wrote(r)
    BY <2>1, <2>2 DEF S
  <2>3. CASE ~Wrote(r)
    BY <2>1, <2>3 DEF S
  <2> QED
    BY <2>2, <2>3
<1>5. {k \in DOMAIN g : Listed(g[k])} = IF Listed(r) THEN L \union {len + 1} ELSE L
  <2> DEFINE S == {k \in DOMAIN g : Listed(g[k])}
  <2>1. \A k : k \in S <=> k \in L \/ (k = len + 1 /\ Listed(r))
    BY <1>1, <1>2
  <2> HIDE DEF S, L
  <2>2. CASE Listed(r)
    BY <2>1, <2>2 DEF S
  <2>3. CASE ~Listed(r)
    BY <2>1, <2>3 DEF S
  <2> QED
    BY <2>2, <2>3
<1>6. {k \in DOMAIN g : HasInteger(g[k])} = IF HasInteger(r) THEN Z \union {len + 1} ELSE Z
  <2> DEFINE S == {k \in DOMAIN g : HasInteger(g[k])}
  <2>1. \A k : k \in S <=> k \in Z \/ (k = len + 1 /\ HasInteger(r))
    BY <1>1, <1>2
  <2> HIDE DEF S, Z
  <2>2. CASE HasInteger(r)
    BY <2>1, <2>2 DEF S
  <2>3. CASE ~HasInteger(r)
    BY <2>1, <2>3 DEF S
  <2> QED
    BY <2>2, <2>3
<1>7. V \in SUBSET (1..Len(h)) /\ L \in SUBSET (1..Len(h)) /\ Z \in SUBSET (1..Len(h))
  OBVIOUS
<1> HIDE DEF V, L, Z, len
<1>8. IsSeq(Selected(h, V)) /\ IsSeq(Selected(h, L)) /\ IsSeq(Selected(h, Z))
  BY <1>7, SelectedIs
<1>9. ASSUME NEW K \in SUBSET (1..Len(h))
      PROVE  /\ Selected(g, K) = Selected(h, K)
             /\ Selected(g, K \union {len + 1}) = Add(Selected(h, K), r)
  BY SelectedGrows DEF g, len
<1>10. Only(g, Wrote) = IF Wrote(r) THEN Add(Selected(h, V), r) ELSE Selected(h, V)
  BY <1>4, <1>7, <1>9 DEF Only
<1>11. Only(g, Listed) = IF Listed(r) THEN Add(Selected(h, L), r) ELSE Selected(h, L)
  BY <1>5, <1>7, <1>9 DEF Only
<1>12. Only(g, HasInteger) = IF HasInteger(r) THEN Add(Selected(h, Z), r) ELSE Selected(h, Z)
  BY <1>6, <1>7, <1>9 DEF Only
<1> QED
  BY <1>3, <1>8, <1>10, <1>11, <1>12 DEF g
-----------------------------------------------------------------------------
(* Two traces with the same changes, that leave the registers the same.    *)
Alike(t, u) ==
  /\ IsTrace(t) /\ IsTrace(u)
  /\ ChangesOf(t) = ChangesOf(u) /\ Held(t, Len(t)) = Held(u, Len(u))

(* What the comparison sees of a record: its register by the ABI's name,   *)
(* or nothing.                                                             *)
LEMMA GprIs ==
  ASSUME NEW i, NEW u, IsUpdate(u)
  PROVE  /\ u = << >> => Gpr(Tell([i |-> i, upd |-> u])) = NoGpr
         /\ u # << >> =>
              /\ Gpr(Tell([i |-> i, upd |-> u])) = [rd |-> AbiName(u[1].rd), val |-> u[1].val]
              /\ AbiName(u[1].rd) \in Regs
         /\ Gpr(Tell([i |-> i, upd |-> u])) = NoGpr \/ Gpr(Tell([i |-> i, upd |-> u])).rd \in Regs
<1> DEFINE e == Gpr(Tell([i |-> i, upd |-> u]))
           g == Named(u)
<1>1. e = IF g = << >> THEN NoGpr ELSE g[1]
  <2> DEFINE d == Tell([i |-> i, upd |-> u])
  <2>1. d = [pc |-> i.pc, gpr |-> g]
    BY TellIs
  <2> HIDE DEF d, g
  <2>2. d.gpr = g
    BY <2>1
  <2> QED
    BY <2>2 DEF Gpr, d
<1>2. g = << >> <=> u = << >>
  BY Updates
<1>3. CASE u = << >>
  BY <1>1, <1>2, <1>3
<1>4. CASE u # << >>
  <2>1. g = <<[rd |-> AbiName(u[1].rd), val |-> u[1].val]>> /\ AbiName(u[1].rd) \in Regs
    BY <1>4, Updates
  <2>2. e = [rd |-> AbiName(u[1].rd), val |-> u[1].val]
    BY <1>1, <1>2, <1>4, <2>1
  <2> HIDE DEF e
  <2>3. e.rd \in Regs
    BY <2>1, <2>2
  <2> QED
    BY <1>4, <2>1, <2>2, <2>3 DEF e
<1> QED
  BY <1>3, <1>4

(* Traces that are alike stay so when both get the same update; and when   *)
(* one gets an entry without a register that the other has not.            *)
LEMMA AlikeGrow ==
  ASSUME NEW t, NEW u, Alike(t, u), NEW e, e = NoGpr \/ e.rd \in Regs
  PROVE  /\ Alike(Add(t, e), Add(u, e))
         /\ e = NoGpr => Alike(t, Add(u, e))
<1> DEFINE v == Held(t, Len(t))
           a == Add(t, e)
           b == Add(u, e)
<1>1. /\ IsTrace(t) /\ IsTrace(u) /\ ChangesOf(t) = ChangesOf(u)
      /\ Held(t, Len(t)) = v /\ Held(u, Len(u)) = v
  BY DEF Alike
<1> HIDE DEF v
<1>2. /\ IsTrace(a) /\ Held(a, Len(a)) = Update(e, v)
      /\ ChangesOf(a) = IF Changes(e, v) THEN Add(ChangesOf(t), e) ELSE ChangesOf(t)
  BY <1>1, ChangesGrow
<1>3. /\ IsTrace(b) /\ Held(b, Len(b)) = Update(e, v)
      /\ ChangesOf(b) = IF Changes(e, v) THEN Add(ChangesOf(u), e) ELSE ChangesOf(u)
  BY <1>1, ChangesGrow
<1>4. e = NoGpr => ~Changes(e, v) /\ Update(e, v) = v
  BY DEF Changes, Update
<1> HIDE DEF a, b
<1> QED
  BY <1>1, <1>2, <1>3, <1>4 DEF Alike, a, b

(* So does a CSV with the trace of its history, one row and one record     *)
(* more, or only one record that wrote nothing.                            *)
LEMMA AlikeRows ==
  ASSUME NEW c, IsSeq(c), NEW h, IsSeq(h), Alike(Flat(c), Flat(Tells(h))),
         NEW i, NEW u, IsUpdate(u), NEW e, Says(e) = Tell(Ran(i, u))
  PROVE  /\ Alike(Flat(Add(c, e)), Flat(Tells(Add(h, Ran(i, u)))))
         /\ ~Wrote(Ran(i, u)) => Alike(Flat(c), Flat(Tells(Add(h, Ran(i, u)))))
<1> DEFINE s == Shown(u)
           r == Ran(i, u)
           x == Gpr(Tell(r))
<1>1. IsUpdate(s) /\ r = [i |-> i, upd |-> s] /\ (Wrote(r) <=> s # << >>)
  BY ShownUpdates DEF Ran, Wrote
<1>2. x = NoGpr \/ x.rd \in Regs
  BY <1>1, GprIs
<1>3. ~Wrote(r) => x = NoGpr
  BY <1>1, GprIs
<1>4. Gpr(e) = x
  BY DEF Says, Gpr, Tell
<1>5. Flat(Add(c, e)) = Add(Flat(c), x)
  BY <1>4, RowsGrow
<1>6. Flat(Tells(Add(h, r))) = Add(Flat(Tells(h)), x)
  <2>1. IsSeq(Tells(h)) /\ Tells(Add(h, r)) = Add(Tells(h), Tell(r))
    BY RowsGrow
  <2> QED
    BY <2>1, RowsGrow
<1> HIDE DEF x, r
<1> QED
  BY <1>2, <1>3, <1>5, <1>6, AlikeGrow DEF r
-----------------------------------------------------------------------------
OfIntegers(h) == [k \in DOMAIN h |-> [h[k] EXCEPT !.upd = Integer(@)]]
OfInteger(r) == [r EXCEPT !.upd = Integer(@)]

(* The integer registers of a history, with one record more.               *)
LEMMA OfIntegersGrow ==
  ASSUME NEW h, IsSeq(h), NEW r
  PROVE  /\ IsSeq(OfIntegers(h)) /\ Len(OfIntegers(h)) = Len(h)
         /\ OfIntegers(Add(h, r)) = Add(OfIntegers(h), OfInteger(r))
<1> DEFINE g == Add(h, r)
           a == OfIntegers(h)
           b == OfIntegers(g)
<1>1. /\ IsSeq(g) /\ DOMAIN h = 1..Len(h) /\ DOMAIN g = 1..(Len(h) + 1) /\ Len(h) \in Nat
      /\ (\A k \in 1..Len(h) : g[k] = h[k]) /\ g[Len(h) + 1] = r
  BY Grows DEF IsSeq
<1> HIDE DEF g
<1>2. a = [k \in 1..Len(h) |-> OfInteger(h[k])] /\ b = [k \in 1..(Len(h) + 1) |-> OfInteger(g[k])]
  BY <1>1 DEF OfIntegers, OfInteger
<1> HIDE DEF a, b
<1>3. IsSeq(a) /\ Len(a) = Len(h) /\ IsSeq(b) /\ Len(b) = Len(h) + 1
  BY <1>1, <1>2 DEF IsSeq
<1>4. \A k \in 1..Len(h) : b[k] = OfInteger(h[k]) /\ a[k] = OfInteger(h[k])
  BY <1>1, <1>2
<1>5. b[Len(h) + 1] = OfInteger(r)
  BY <1>1, <1>2
<1>6. b = Add(a, OfInteger(r))
  BY <1>3, <1>4, <1>5, MapGrows
<1> QED
  BY <1>3, <1>6 DEF a, b, g

(* The integer registers have the last values of the history.              *)
Traced(x, h) ==
  LET t == Flat(Tells(OfIntegers(h)))
  IN IsTrace(t) /\ \A k \in 0..31 : x[k] = LastVal(t, Len(t), AbiName(<<"x", k>>))

(* What changes an integer register, with one record more: it is in if the *)
(* register has another value, which it then keeps.                        *)
LEMMA ChangingGrows ==
  ASSUME NEW h, IsSeq(h), NEW x \in [0..31 -> Int], Traced(x, h),
         NEW i, NEW u, IsUpdate(u), NEW w, w = Integer(Shown(u))
  PROVE  /\ IsSeq(Changing(OfIntegers(h)))
         /\ Traced(Written(x, w), Add(h, Ran(i, u)))
         /\ Tell(OfInteger(Ran(i, u))) = [pc |-> i.pc, gpr |-> Named(w)]
         /\ Changing(OfIntegers(Add(h, Ran(i, u)))) =
              IF Differs(x, w) THEN Add(Changing(OfIntegers(h)), OfInteger(Ran(i, u)))
              ELSE Changing(OfIntegers(h))
<1> DEFINE r == Ran(i, u)
           a == OfIntegers(h)
           c == OfInteger(r)
           t == Flat(Tells(a))
           e == Gpr(Tell(c))
           g == Add(t, e)
           len == Len(a)
           y == Written(x, w)
           K == {k \in 1..len : IsChange(t, k)}
           L == {k \in 1..(len + 1) : IsChange(g, k)}
           changes == Differs(x, w)
<1>1. IsUpdate(w) /\ c = [i |-> i, upd |-> w]
  <2>1. IsUpdate(Shown(u))
    BY ShownUpdates
  <2>2. IsUpdate(w)
    BY <2>1, ShownUpdates
  <2>3. c = [i |-> i, upd |-> w]
    BY DEF OfInteger, Ran
  <2> QED
    BY <2>2, <2>3
<1>2. IsSeq(a) /\ len \in Nat /\ OfIntegers(Add(h, r)) = Add(a, c)
  BY OfIntegersGrow DEF IsSeq
<1>3. Tell(c) = [pc |-> i.pc, gpr |-> Named(w)]
  BY <1>1, TellIs
<1>4. /\ w = << >> => e = NoGpr
      /\ w # << >> => e = [rd |-> AbiName(w[1].rd), val |-> w[1].val] /\ AbiName(w[1].rd) \in Regs
      /\ e = NoGpr \/ e.rd \in Regs
  <2> DEFINE d == Gpr(Tell([i |-> i, upd |-> w]))
  <2>1. /\ w = << >> => d = NoGpr
        /\ w # << >> => d = [rd |-> AbiName(w[1].rd), val |-> w[1].val] /\ AbiName(w[1].rd) \in Regs
        /\ d = NoGpr \/ d.rd \in Regs
    BY <1>1, GprIs
  <2>2. e = d
    BY <1>1
  <2> HIDE DEF d, e
  <2> QED
    BY <2>1, <2>2
<1> HIDE DEF a, c, e
<1>5. Flat(Tells(Add(a, c))) = g /\ Len(t) = len
  <2> DEFINE b == Tells(a) d == Tell(c)
  <2>1. IsSeq(b) /\ Len(b) = len /\ Tells(Add(a, c)) = Add(b, d)
    BY <1>2, RowsGrow
  <2> HIDE DEF b, d
  <2>2. Flat(Add(b, d)) = Add(Flat(b), Gpr(d)) /\ Len(Flat(b)) = Len(b)
    BY <2>1, RowsGrow
  <2> QED
    BY <2>1, <2>2 DEF e, b, d
<1>6. /\ IsTrace(t) /\ \A k \in 0..31 : x[k] = LastVal(t, len, AbiName(<<"x", k>>))
  BY <1>5 DEF Traced, a
<1> HIDE DEF t
<1>7. /\ IsTrace(g) /\ Len(g) = len + 1
      /\ \A s : LastVal(g, len + 1, s) = IF e.rd = s THEN e.val ELSE LastVal(t, len, s)
      /\ \A k \in 1..len : IsChange(g, k) <=> IsChange(t, k)
      /\ IsChange(g, len + 1) <=> Changes(e, Held(t, len))
  <2>1. /\ IsTrace(g) /\ Len(g) = Len(t) + 1
        /\ \A s : LastVal(g, Len(g), s) = IF e.rd = s THEN e.val ELSE LastVal(t, Len(t), s)
        /\ \A k \in 1..Len(t) : IsChange(g, k) <=> IsChange(t, k)
        /\ IsChange(g, Len(g)) <=> Changes(e, Held(t, Len(t)))
    BY <1>4, <1>6, ChangesGrow
  <2> HIDE DEF g
  <2>2. Len(t) = len /\ Len(g) = len + 1
    BY <1>5, <2>1
  <2> QED
    BY <2>1, <2>2
<1> HIDE DEF g
<1>8. /\ w # << >> => /\ w[1].rd = <<"x", w[1].rd[2]>> /\ w[1].rd[2] \in 0..31 /\ w[1].val \in Int
      /\ \A k \in 0..31 : AbiName(<<"x", k>>) \in Regs
      /\ \A k, l \in 0..31 : AbiName(<<"x", k>>) = AbiName(<<"x", l>>) => k = l
  <2>1. \A k, l \in 0..31 : <<"x", k>> \in Gprs /\ (<<"x", k>> = <<"x", l>> => k = l)
    BY DEF Gprs
  <2>2. \A k \in 0..31 : AbiName(<<"x", k>>) \in Regs
    BY <2>1, AbiAssumption, TraceFlowAssumption
  <2>3. \A k, l \in 0..31 : AbiName(<<"x", k>>) = AbiName(<<"x", l>>) => k = l
    BY <2>1, AbiAssumption
  <2>4. w # << >> => w[1].rd = <<"x", w[1].rd[2]>> /\ w[1].rd[2] \in 0..31 /\ w[1].val \in Int
    BY IntegerIs
  <2> QED
    BY <2>2, <2>3, <2>4
<1>9. NoGpr.rd = "none" /\ "none" \notin Regs
  BY RegsAssumption DEF NoGpr
<1>10. len \in Nat
  BY <1>2
<1> HIDE DEF len
<1>11. /\ \A k \in 0..31 : y[k] = LastVal(g, len + 1, AbiName(<<"x", k>>))
       /\ IsChange(g, len + 1) <=> changes
  <2>1. CASE w = << >>
    <3>1. y = x /\ e = NoGpr /\ ~changes
      BY <1>4, <2>1 DEF Written, Differs
    <3>2. \A k \in 0..31 :
            LastVal(g, len + 1, AbiName(<<"x", k>>)) = LastVal(t, len, AbiName(<<"x", k>>))
      BY <1>7, <1>8, <1>9, <3>1
    <3>3. ~IsChange(g, len + 1)
      BY <1>7, <3>1 DEF Changes
    <3> QED
      BY <1>6, <3>1, <3>2, <3>3
  <2>2. CASE w # << >>
    <3> DEFINE k0 == w[1].rd[2]
               v == w[1].val
    <3>1. /\ k0 \in 0..31 /\ v \in Int /\ w[1].rd = <<"x", k0>>
          /\ e = [rd |-> AbiName(<<"x", k0>>), val |-> v] /\ AbiName(<<"x", k0>>) \in Regs
      BY <1>4, <1>8, <2>2
    <3>2. y = [x EXCEPT ![k0] = v]
      BY <2>2 DEF Written
    <3> HIDE DEF y, k0, v
    <3>3. e.rd = AbiName(<<"x", k0>>) /\ e.val = v /\ e # NoGpr
      BY <1>9, <3>1
    <3>4. ASSUME NEW k \in 0..31
          PROVE  y[k] = LastVal(g, len + 1, AbiName(<<"x", k>>))
      <4>1. LastVal(g, len + 1, AbiName(<<"x", k>>))
              = IF k = k0 THEN v ELSE LastVal(t, len, AbiName(<<"x", k>>))
        BY <1>7, <1>8, <3>1, <3>3
      <4>2. y[k] = IF k = k0 THEN v ELSE x[k]
        BY <3>1, <3>2
      <4> QED
        BY <1>6, <4>1, <4>2
    <3>5. Held(t, len)[e.rd] = x[k0]
      <4>1. e.rd \in Regs /\ Held(t, len)[e.rd] = LastVal(t, len, e.rd)
        BY <3>1, <3>3 DEF Held
      <4> QED
        BY <1>6, <3>1, <3>3, <4>1
    <3>6. IsChange(g, len + 1) <=> x[k0] # v
      BY <1>7, <3>3, <3>5 DEF Changes
    <3> QED
      BY <2>2, <3>4, <3>6 DEF k0, v, Differs
  <2> QED
    BY <2>1, <2>2
<1>12. L = IF changes THEN K \union {len + 1} ELSE K
  <2>1. \A k : k \in 1..(len + 1) <=> k \in 1..len \/ k = len + 1
    BY <1>10
  <2>2. \A k : k \in L <=> k \in K \/ (k = len + 1 /\ changes)
    BY <1>7, <1>11, <2>1
  <2> HIDE DEF K, L
  <2>3. CASE changes
    BY <2>2, <2>3
  <2>4. CASE ~changes
    BY <2>2, <2>4
  <2> QED
    BY <2>3, <2>4
<1> DEFINE b == Add(a, c)
<1>13. Changing(a) = Selected(a, K)
  <2>1. DOMAIN a = 1..len
    BY <1>2, Grows DEF len
  <2> QED
    BY <2>1 DEF Changing, t
<1>14. Changing(b) = Selected(b, L)
  <2>1. DOMAIN b = 1..(len + 1)
    BY <1>2, Grows DEF len
  <2> QED
    BY <1>5, <2>1 DEF Changing
<1>15. K \in SUBSET (1..Len(a))
  BY DEF len
<1> HIDE DEF K, L
<1>16. /\ IsSeq(Selected(a, K)) /\ Selected(b, K) = Selected(a, K)
       /\ Selected(b, K \union {len + 1}) = Add(Selected(a, K), c)
  <2>1. IsSeq(a)
    BY <1>2
  <2>2. /\ Selected(Add(a, c), K) = Selected(a, K)
        /\ Selected(Add(a, c), K \union {Len(a) + 1}) = Add(Selected(a, K), c)
    BY <1>15, <2>1, SelectedGrows
  <2>3. IsSeq(Selected(a, K))
    BY <1>15, <2>1, SelectedIs
  <2>4. len = Len(a)
    BY DEF len
  <2> QED
    BY <2>2, <2>3, <2>4
<1>17. Changing(b) = IF changes THEN Add(Changing(a), c) ELSE Changing(a)
  BY <1>12, <1>13, <1>14, <1>16
<1>18. Traced(y, Add(h, r))
  BY <1>2, <1>5, <1>7, <1>11 DEF Traced
<1> QED
  BY <1>2, <1>3, <1>13, <1>16, <1>17, <1>18 DEF a, c
-----------------------------------------------------------------------------
(* What each converter has made of a history.                              *)
NamesCore(e, i)  == e.pc = i.pc /\ Name(e) = CoreName(i)
NamesSpike(e, i) == e.pc = i.pc /\ Name(e) = SpikeName(i)
NamesOvp(e, i)   == e.pc = i.pc /\ Name(e) = OvpInstr(i)
Starts(c, d) == IsSeq(c) /\ Len(c) <= Len(d) /\ \A k \in 1..Len(c) : c[k] = d[k]

CoreNames(c, h)  == \A k \in 1..Len(c) : \E j \in 1..Len(h) :
                      Wrote(h[j]) /\ NamesCore(c[k], h[j].i)
SpikeNames(c, h) == Len(c) = Len(h) /\ \A k \in 1..Len(h) : NamesSpike(c[k], h[k].i)
OvpNames(c, h)   == Len(c) = Len(h) /\ \A k \in 1..Len(h) : NamesOvp(c[k], h[k].i)

CoreRight(st, h) ==
  /\ IsConverter(st) /\ st.done = FALSE
  /\ IsSeq(st.csv) /\ Told(st.csv) = Tells(Only(h, Wrote))
  /\ Alike(Flat(st.csv), Flat(Tells(h)))
  /\ CoreNames(st.csv, h)
SpikeRight(st, h) ==
  /\ IsConverter(st) /\ st.on = TRUE
  /\ IsSeq(SpikeCsv(st, full)) /\ Told(SpikeCsv(st, full)) = Tells(Only(h, Listed))
  /\ Alike(Flat(SpikeCsv(st, full)), Flat(Tells(h)))
  /\ (full => SpikeNames(SpikeCsv(st, full), h)) /\ Starts(st.csv, SpikeCsv(st, full))
SailRight(st, h) ==
  /\ IsConverter(st) /\ st.on = TRUE
  /\ IsSeq(st.csv) /\ Told(st.csv) = Tells(Only(h, HasInteger))
WhisperRight(st, h) ==
  /\ IsConverter(st)
  /\ IsSeq(st.csv) /\ Told(st.csv) = Tells(Only(h, HasInteger))
OvpRight(st, h) ==
  /\ IsConverter(st)
  /\ Told(st.csv) = Tells(SubSeq(h, 1, Len(h) - 1))
  /\ IsSeq(OvpCsv(st)) /\ Told(OvpCsv(st)) = Tells(h)
  /\ OvpNames(OvpCsv(st), h) /\ Starts(st.csv, OvpCsv(st))
RenodeRight(st, x, h) ==
  /\ IsDumps(st) /\ x \in [0..31 -> Int] /\ Traced(x, h)
  /\ IsSeq(st.csv) /\ Told(st.csv) = Tells(Changing(OfIntegers(h)))

(* A row that names the instruction of the record that is added keeps the  *)
(* rows and the history in step.                                           *)
LEMMA NamesMore ==
  ASSUME NEW c, IsSeq(c), NEW h, IsSeq(h), NEW e, NEW r
  PROVE  /\ CoreNames(c, h) => CoreNames(c, Add(h, r))
         /\ CoreNames(c, h) /\ Wrote(r) /\ NamesCore(e, r.i) => CoreNames(Add(c, e), Add(h, r))
         /\ SpikeNames(c, h) /\ NamesSpike(e, r.i) => SpikeNames(Add(c, e), Add(h, r))
         /\ OvpNames(c, h) /\ NamesOvp(e, r.i) => OvpNames(Add(c, e), Add(h, r))
         /\ Starts(c, Add(c, e)) /\ Starts(c, c)
<1> DEFINE d == Add(c, e)
           g == Add(h, r)
<1>1. /\ Len(c) \in Nat /\ Len(d) = Len(c) + 1 /\ d[Len(c) + 1] = e
      /\ \A k \in 1..Len(c) : d[k] = c[k]
      /\ Len(h) \in Nat /\ Len(g) = Len(h) + 1 /\ g[Len(h) + 1] = r
      /\ \A k \in 1..Len(h) : g[k] = h[k]
  BY Grows DEF IsSeq
<1> HIDE DEF d, g
<1>2. /\ \A k \in 1..Len(d) : k \in 1..Len(c) \/ k = Len(c) + 1
      /\ \A k \in 1..Len(g) : k \in 1..Len(h) \/ k = Len(h) + 1
      /\ \A k \in 1..Len(h) : k \in 1..Len(g)
      /\ Len(h) + 1 \in 1..Len(g)
  BY <1>1
<1>3. CoreNames(c, h) => CoreNames(c, g)
  BY <1>1, <1>2 DEF CoreNames
<1>4. CoreNames(c, h) /\ Wrote(r) /\ NamesCore(e, r.i) => CoreNames(d, g)
  BY <1>1, <1>2 DEF CoreNames
<1>5. SpikeNames(c, h) /\ NamesSpike(e, r.i) => SpikeNames(d, g)
  BY <1>1, <1>2 DEF SpikeNames
<1>6. OvpNames(c, h) /\ NamesOvp(e, r.i) => OvpNames(d, g)
  BY <1>1, <1>2 DEF OvpNames
<1>7. Starts(c, d) /\ Starts(c, c)
  BY <1>1 DEF Starts
<1> QED
  BY <1>3, <1>4, <1>5, <1>6, <1>7 DEF d, g

(* An entry that tells a record has the pc of its instruction.             *)
LEMMA TellsPc ==
  ASSUME NEW e, NEW i, NEW u, Says(e) = Tell(Ran(i, u))
  PROVE  e.pc = i.pc
BY DEF Says, Tell, Ran

(* The core's CSV goes on telling its history, also when an instruction is *)
(* printed once more.                                                      *)
LEMMA CoreFollows ==
  ASSUME NEW st, NEW h, IsSeq(h), CoreRight(st, h),
         NEW i, i.pc \in Nat, i.kind \in {"plain", "bare"},
         NEW u, IsUpdate(u), i.kind = "bare" => u = << >>
  PROVE  CoreRight(CoreAfter(st, i, u), Add(h, Ran(i, u)))
<1> DEFINE t == CoreAfter(st, i, u)
           r == Ran(i, u)
           a == Only(h, Wrote)
<1>1. /\ IsConverter(st) /\ st.done = FALSE /\ IsSeq(st.csv) /\ Told(st.csv) = Tells(a)
      /\ Alike(Flat(st.csv), Flat(Tells(h))) /\ CoreNames(st.csv, h)
  BY DEF CoreRight
<1>2. /\ IsConverter(t) /\ t.done = FALSE
      /\ Wrote(r) => AddsAs(st.csv, t.csv, r, CoreName(i))
      /\ ~Wrote(r) => t.csv = st.csv
  BY <1>1, CoreReads
<1>6. r.i = i
  BY DEF Ran
<1>3. IsSeq(a) /\ Only(Add(h, r), Wrote) = IF Wrote(r) THEN Add(a, r) ELSE a
  BY OnlyGrows
<1> HIDE DEF t, a
<1>4. CASE Wrote(r)
  <2>1. PICK e : Says(e) = Tell(r) /\ Name(e) = CoreName(i) /\ t.csv = Add(st.csv, e)
    BY <1>2, <1>4 DEF AddsAs
  <2>4. CoreNames(t.csv, Add(h, r))
    BY <1>1, <1>4, <1>6, <2>1, NamesMore, TellsPc DEF NamesCore
  <2>2. IsSeq(t.csv) /\ Told(t.csv) = Tells(Add(a, r))
    BY <1>1, <1>3, <2>1, TellsMore
  <2>3. Alike(Flat(t.csv), Flat(Tells(Add(h, r))))
    BY <1>1, <2>1, AlikeRows
  <2> QED
    BY <1>2, <1>3, <1>4, <2>2, <2>3, <2>4 DEF CoreRight, t
<1>5. CASE ~Wrote(r)
  <2>1. t.csv = st.csv
    BY <1>2, <1>5
  <2>2. PICK e : Says(e) = Tell(r)
    <3>1. Says([pc |-> Tell(r).pc, gpr |-> Tell(r).gpr]) = Tell(r)
      BY DEF Says, Tell
    <3> QED
      BY <3>1
  <2>3. Alike(Flat(st.csv), Flat(Tells(Add(h, r))))
    BY <1>1, <1>5, <2>2, AlikeRows
  <2>4. CoreNames(st.csv, Add(h, r))
    BY <1>1, NamesMore
  <2> QED
    BY <1>1, <1>2, <1>3, <1>5, <2>1, <2>3, <2>4 DEF CoreRight, t
<1> QED
  BY <1>4, <1>5

(* Spike's CSV, with what is pending, goes on telling what has run.        *)
LEMMA SpikeFollows ==
  ASSUME NEW st, NEW h, IsSeq(h), SpikeRight(st, h), st.done = FALSE, full \in BOOLEAN,
         NEW i, i.pc \in Nat, NEW u, IsUpdate(u), i.kind = "illegal" \/ i.op = "ecall" => u = << >>
  PROVE  /\ SpikeRight(SpikeAfter(st, i, u), Add(h, Ran(i, u)))
         /\ SpikeAfter(st, i, u).done = IF i.op = "ecall" THEN TRUE ELSE FALSE
<1> DEFINE t == SpikeAfter(st, i, u)
           r == Ran(i, u)
           a == Only(h, Listed)
           c == SpikeCsv(st, full)
           d == SpikeCsv(t, full)
<1>1. /\ IsConverter(st) /\ st.on = TRUE /\ IsSeq(c) /\ Told(c) = Tells(a)
      /\ Alike(Flat(c), Flat(Tells(h))) /\ (full => SpikeNames(c, h))
  BY DEF SpikeRight
<1>2. /\ IsConverter(t) /\ t.on = TRUE /\ t.done = IF i.op = "ecall" THEN TRUE ELSE FALSE
      /\ Listed(r) => Adds(c, d, r)
      /\ full => AddsAs(c, d, r, SpikeName(i))
      /\ ~Listed(r) => d = c
      /\ t.csv \in {c, d}
  BY <1>1, SpikeReads
<1>3. IsSeq(a) /\ Only(Add(h, r), Listed) = IF Listed(r) THEN Add(a, r) ELSE a
  BY OnlyGrows
<1>6. r.i = i
  BY DEF Ran
<1> HIDE DEF t, a, c, d
<1>7. full => SpikeNames(d, Add(h, r))
  <2> SUFFICES ASSUME full PROVE SpikeNames(d, Add(h, r))
    OBVIOUS
  <2>1. PICK e : Says(e) = Tell(r) /\ Name(e) = SpikeName(i) /\ d = Add(c, e)
    BY <1>2 DEF AddsAs
  <2> QED
    BY <1>1, <1>6, <2>1, NamesMore, TellsPc DEF NamesSpike
<1>4. CASE Listed(r)
  <2>1. PICK e : Says(e) = Tell(r) /\ d = Add(c, e)
    BY <1>2, <1>4 DEF Adds
  <2>2. IsSeq(d) /\ Told(d) = Tells(Add(a, r))
    BY <1>1, <1>3, <2>1, TellsMore
  <2>3. Alike(Flat(d), Flat(Tells(Add(h, r))))
    BY <1>1, <2>1, AlikeRows
  <2>4. Starts(t.csv, d)
    BY <1>1, <1>2, <2>1, <2>2, NamesMore
  <2> QED
    BY <1>2, <1>3, <1>4, <1>7, <2>2, <2>3, <2>4 DEF SpikeRight, t, d
<1>5. CASE ~Listed(r)
  <2>1. d = c /\ ~Wrote(r)
    BY <1>2, <1>5 DEF Listed
  <2>2. PICK e : Says(e) = Tell(r)
    <3>1. Says([pc |-> Tell(r).pc, gpr |-> Tell(r).gpr]) = Tell(r)
      BY DEF Says, Tell
    <3> QED
      BY <3>1
  <2>3. Alike(Flat(c), Flat(Tells(Add(h, r))))
    BY <1>1, <2>1, <2>2, AlikeRows
  <2>4. Starts(t.csv, d)
    BY <1>1, <1>2, <2>1, NamesMore
  <2> QED
    BY <1>1, <1>2, <1>3, <1>5, <1>7, <2>1, <2>3, <2>4 DEF SpikeRight, t, d
<1> QED
  BY <1>4, <1>5

(* Sail's CSV goes on telling what wrote an integer register.              *)
LEMMA SailFollows ==
  ASSUME NEW st, NEW h, IsSeq(h), SailRight(st, h), st.done = FALSE,
         NEW i, i.pc \in Nat, i.kind # "ecall", NEW u, IsUpdate(u)
  PROVE  /\ SailRight(SailAfter(st, i, u), Add(h, Ran(i, u)))
         /\ SailAfter(st, i, u).done = FALSE
<1> DEFINE t == SailAfter(st, i, u)
           r == Ran(i, u)
           a == Only(h, HasInteger)
<1>1. IsConverter(st) /\ st.on = TRUE /\ IsSeq(st.csv) /\ Told(st.csv) = Tells(a)
  BY DEF SailRight
<1>2. /\ IsConverter(t) /\ t.on = TRUE /\ t.done = FALSE
      /\ HasInteger(r) => Adds(st.csv, t.csv, r)
      /\ ~HasInteger(r) => t.csv = st.csv
  BY <1>1, SailReads
<1>3. IsSeq(a) /\ Only(Add(h, r), HasInteger) = IF HasInteger(r) THEN Add(a, r) ELSE a
  BY OnlyGrows
<1> HIDE DEF t, a
<1>4. CASE HasInteger(r)
  <2>1. PICK e : Says(e) = Tell(r) /\ t.csv = Add(st.csv, e)
    BY <1>2, <1>4 DEF Adds
  <2>2. IsSeq(t.csv) /\ Told(t.csv) = Tells(Add(a, r))
    BY <1>1, <1>3, <2>1, TellsMore
  <2> QED
    BY <1>2, <1>3, <1>4, <2>2 DEF SailRight, t
<1>5. CASE ~HasInteger(r)
  BY <1>1, <1>2, <1>3, <1>5 DEF SailRight, t
<1> QED
  BY <1>4, <1>5

(* And so does Whisper's.                                                  *)
LEMMA WhisperFollows ==
  ASSUME NEW st, NEW h, IsSeq(h), WhisperRight(st, h), st.done = FALSE,
         NEW i, i.kind # "ecall", NEW u, IsUpdate(u)
  PROVE  /\ WhisperRight(WhisperAfter(st, i, u), Add(h, Ran(i, u)))
         /\ WhisperAfter(st, i, u).done = FALSE
<1> DEFINE t == WhisperAfter(st, i, u)
           r == Ran(i, u)
           a == Only(h, HasInteger)
<1>1. IsConverter(st) /\ IsSeq(st.csv) /\ Told(st.csv) = Tells(a)
  BY DEF WhisperRight
<1>2. /\ IsConverter(t) /\ t.done = FALSE
      /\ HasInteger(r) => Adds(st.csv, t.csv, r)
      /\ ~HasInteger(r) => t.csv = st.csv
  BY <1>1, WhisperReads
<1>3. IsSeq(a) /\ Only(Add(h, r), HasInteger) = IF HasInteger(r) THEN Add(a, r) ELSE a
  BY OnlyGrows
<1> HIDE DEF t, a
<1>4. CASE HasInteger(r)
  <2>1. PICK e : Says(e) = Tell(r) /\ t.csv = Add(st.csv, e)
    BY <1>2, <1>4 DEF Adds
  <2>2. IsSeq(t.csv) /\ Told(t.csv) = Tells(Add(a, r))
    BY <1>1, <1>3, <2>1, TellsMore
  <2> QED
    BY <1>2, <1>3, <1>4, <2>2 DEF WhisperRight, t
<1>5. CASE ~HasInteger(r)
  BY <1>1, <1>2, <1>3, <1>5 DEF WhisperRight, t
<1> QED
  BY <1>4, <1>5

(* All but the last is what there was before it.                           *)
LEMMA AllButLast ==
  ASSUME NEW h, IsSeq(h), NEW r
  PROVE  SubSeq(Add(h, r), 1, Len(Add(h, r)) - 1) = h
<1> DEFINE g == Add(h, r)
<1>1. /\ IsSeq(g) /\ Len(g) = Len(h) + 1 /\ Len(h) \in Nat
      /\ \A k \in 1..Len(h) : g[k] = h[k]
  BY Grows DEF IsSeq
<1> HIDE DEF g
<1>2. SubSeq(g, 1, Len(g) - 1) = [k \in 1..Len(h) |-> h[k]]
  BY <1>1 DEF IsSeq
<1> QED
  BY <1>2 DEF IsSeq, g

(* OVPsim's CSV, with what is pending, tells what has run.                 *)
LEMMA OvpFollows ==
  ASSUME NEW st, NEW h, IsSeq(h), OvpRight(st, h), st.done = FALSE,
         NEW i, i.pc \in Nat, NEW u, IsUpdate(u), i.kind = "ecall" => u = << >>
  PROVE  /\ OvpRight(OvpAfter(st, i, u), Add(h, Ran(i, u)))
         /\ OvpAfter(st, i, u).done = IF i.kind = "ecall" THEN TRUE ELSE FALSE
<1> DEFINE t == OvpAfter(st, i, u)
           r == Ran(i, u)
<1>1. /\ IsConverter(st) /\ IsSeq(OvpCsv(st)) /\ Told(OvpCsv(st)) = Tells(h)
      /\ OvpNames(OvpCsv(st), h)
  BY DEF OvpRight
<1>2. /\ IsConverter(t) /\ t.done = IF i.kind = "ecall" THEN TRUE ELSE FALSE
      /\ t.csv = OvpCsv(st) /\ t.e # NoEntry /\ Says(t.e) = Tell(r)
      /\ Name(t.e) = OvpInstr(i)
  BY <1>1, OvpReads
<1>3. SubSeq(Add(h, r), 1, Len(Add(h, r)) - 1) = h
  BY AllButLast
<1> HIDE DEF t
<1>4. OvpCsv(t) = Add(OvpCsv(st), t.e)
  BY <1>2 DEF OvpCsv
<1>5. IsSeq(OvpCsv(t)) /\ Told(OvpCsv(t)) = Tells(Add(h, r))
  BY <1>1, <1>2, <1>4, TellsMore
<1>6. r.i = i
  BY DEF Ran
<1>7. OvpNames(OvpCsv(t), Add(h, r)) /\ Starts(t.csv, OvpCsv(t))
  BY <1>1, <1>2, <1>4, <1>6, NamesMore, TellsPc DEF NamesOvp
<1> QED
  BY <1>1, <1>2, <1>3, <1>5, <1>7 DEF OvpRight, t

RenodeAt(st, x, at, h) ==
  RenodeRight(st, x, h) /\ st.done = FALSE /\ st.prev = at /\ st.x = x

(* Renode's CSV goes on telling what changed an integer register, and its  *)
(* last dump is the registers.                                             *)
LEMMA RenodeFollows ==
  ASSUME NEW st, NEW x, NEW h, IsSeq(h), NEW i, RenodeAt(st, x, i.pc, h),
         NEW u, IsUpdate(u), NEW next, NEW y, y = Written(x, Integer(Shown(u)))
  PROVE  RenodeAt(RenodeAfter(st, y, next), y, next, Add(h, Ran(i, u)))
<1> DEFINE r == Ran(i, u)
           w == Integer(Shown(u))
           c == OfInteger(r)
           a == Changing(OfIntegers(h))
           t == RenodeAfter(st, y, next)
<1>0. /\ IsDumps(st) /\ st.done = FALSE /\ st.prev = i.pc /\ st.x = x /\ w = Integer(Shown(u))
      /\ x \in [0..31 -> Int] /\ st.x \in [0..31 -> Int]
  BY DEF RenodeAt, RenodeRight
<1> HIDE DEF w
<1>1. /\ IsDumps(st) /\ x \in [0..31 -> Int] /\ Traced(x, h)
      /\ IsSeq(st.csv) /\ Told(st.csv) = Tells(a)
  BY DEF RenodeAt, RenodeRight
<1>2. /\ y \in [0..31 -> Int] /\ IsDumps(t) /\ t.done = FALSE /\ t.prev = next /\ t.x = y
      /\ Differs(x, w) => NewDump(st, w, t)
      /\ ~Differs(x, w) => t.csv = st.csv
  <2>1. Dumped(st, w, Written(st.x, w), RenodeAfter(st, Written(st.x, w), next), next)
    BY <1>0, RenodeReads
  <2>2. y = Written(st.x, w)
    BY <1>0
  <2> QED
    BY <1>0, <2>1, <2>2 DEF Dumped
<1>3. /\ IsSeq(a) /\ Traced(y, Add(h, r))
      /\ Tell(c) = [pc |-> i.pc, gpr |-> Named(w)]
      /\ Changing(OfIntegers(Add(h, r))) = IF Differs(x, w) THEN Add(a, c) ELSE a
  BY <1>0, <1>1, ChangingGrows
<1> HIDE DEF r, c, a, t
<1>4. CASE Differs(x, w)
  <2>1. PICK e : Says(e) = Tell(c) /\ t.csv = Add(st.csv, e)
    BY <1>0, <1>2, <1>3, <1>4 DEF NewDump
  <2>2. IsSeq(t.csv) /\ Told(t.csv) = Tells(Add(a, c))
    BY <1>1, <1>3, <2>1, TellsMore
  <2> QED
    BY <1>2, <1>3, <1>4, <2>2 DEF RenodeRight, RenodeAt, r, t
<1>5. CASE ~Differs(x, w)
  BY <1>1, <1>2, <1>3, <1>5 DEF RenodeRight, RenodeAt, r, t
<1> QED
  BY <1>4, <1>5
-----------------------------------------------------------------------------
(* At the ecall: the converters take it, or not, and then read no more.    *)
LEMMA SpikeEnds ==
  ASSUME NEW st, NEW h, IsSeq(h), SpikeRight(st, h), st.done = FALSE, full \in BOOLEAN,
         NEW at \in Nat, NEW i, i = I(at, "ecall", "ecall", << >>, << >>), NEW ls
  PROVE  /\ SpikeRight(ReadSpike(SpikeAfter(st, i, << >>), ls), Add(h, Ran(i, << >>)))
         /\ ReadSpike(SpikeAfter(st, i, << >>), ls).done = TRUE
<1> DEFINE t == SpikeAfter(st, i, << >>)
<1>1. i.pc \in Nat /\ i.op = "ecall" /\ IsUpdate(<< >>)
  BY DEF I, IsUpdate
<1>2. SpikeRight(t, Add(h, Ran(i, << >>))) /\ t.done = TRUE
  BY <1>1, SpikeFollows
<1> HIDE DEF t
<1>3. t.on = TRUE
  BY <1>2 DEF SpikeRight
<1>4. \A l : SpikeStep(t, l, full) = t
  BY <1>2, <1>3 DEF SpikeStep
<1>5. ReadSpike(t, ls) = t
  BY <1>4 DEF ReadSpike, Read
<1> QED
  BY <1>2, <1>5 DEF t

(* OVPsim's entry of the ecall stays pending; it reads no more.            *)
LEMMA OvpEnds ==
  ASSUME NEW st, NEW h, IsSeq(h), OvpRight(st, h), st.done = FALSE,
         NEW at \in Nat, NEW i, i = I(at, "ecall", "ecall", << >>, << >>), NEW ls
  PROVE  /\ OvpRight(Read(OvpStep, OvpAfter(st, i, << >>), ls), Add(h, Ran(i, << >>)))
         /\ Read(OvpStep, OvpAfter(st, i, << >>), ls).done = TRUE
<1> DEFINE t == OvpAfter(st, i, << >>)
<1>1. i.pc \in Nat /\ i.kind = "ecall" /\ IsUpdate(<< >>)
  BY DEF I, IsUpdate
<1>2. OvpRight(t, Add(h, Ran(i, << >>))) /\ t.done = TRUE
  BY <1>1, OvpFollows
<1> HIDE DEF t
<1>3. \A l : OvpStep(t, l) = t
  BY <1>2 DEF OvpStep
<1>4. Read(OvpStep, t, ls) = t
  BY <1>3 DEF Read
<1> QED
  BY <1>2, <1>4 DEF t

(* The record of an instruction that writes nothing.                       *)
LEMMA NothingRan ==
  ASSUME NEW i
  PROVE  /\ Ran(i, << >>) = [i |-> i, upd |-> << >>]
         /\ ~HasInteger(Ran(i, << >>)) /\ Integer(Shown(<< >>)) = << >>
BY DEF Ran, Shown, HasInteger, Integer

(* Sail's converter stops at the ecall, and writes nothing of it.          *)
LEMMA SailEnds ==
  ASSUME NEW st, NEW h, IsSeq(h), SailRight(st, h), st.done = FALSE,
         NEW at, NEW i, i = I(at, "ecall", "ecall", << >>, << >>), NEW ls
  PROVE  /\ SailRight(Read(SailStep, SailAfter(st, i, << >>), ls), Add(h, Ran(i, << >>)))
         /\ Read(SailStep, SailAfter(st, i, << >>), ls).done = TRUE
<1> DEFINE t == SailAfter(st, i, << >>)
<1>1. SailLines(i, << >>)[1].t = "ecall"
  BY DEF SailLines, Line, I
<1>2. SailStep(st, SailLines(i, << >>)[1]) = [st EXCEPT !.done = TRUE]
  BY <1>1 DEF SailStep
<1>3. [st EXCEPT !.done = TRUE].done = TRUE
  BY DEF SailRight, IsConverter
<1>4. t = [st EXCEPT !.done = TRUE]
  BY <1>2, <1>3 DEF SailAfter, Read, SailStep
<1> HIDE DEF t
<1>5. IsConverter(t) /\ t.on = TRUE /\ t.csv = st.csv /\ t.done = TRUE
  BY <1>4 DEF SailRight, IsConverter
<1>6. Read(SailStep, t, ls) = t
  BY <1>5 DEF Read, SailStep
<1>7. Only(Add(h, Ran(i, << >>)), HasInteger) = Only(h, HasInteger)
  BY OnlyGrows, NothingRan
<1>8. SailRight(t, Add(h, Ran(i, << >>)))
  BY <1>5, <1>7 DEF SailRight
<1> QED
  BY <1>5, <1>6, <1>8 DEF t

(* So does Whisper's, ...                                                  *)
LEMMA WhisperEnds ==
  ASSUME NEW st, NEW h, IsSeq(h), WhisperRight(st, h), st.done = FALSE,
         NEW at, NEW i, i = I(at, "ecall", "ecall", << >>, << >>), NEW l
  PROVE  /\ WhisperRight(Read(WhisperStep, st, <<WhisperLine(i, << >>), l>>), Add(h, Ran(i, << >>)))
         /\ Read(WhisperStep, st, <<WhisperLine(i, << >>), l>>).done = TRUE
<1> DEFINE t == [st EXCEPT !.done = TRUE]
<1>1. WhisperLine(i, << >>).t = "ecall"
  BY DEF WhisperLine, Line, I
<1>2. WhisperStep(st, WhisperLine(i, << >>)) = t
  BY <1>1 DEF WhisperStep
<1> HIDE DEF t
<1>3. IsConverter(t) /\ t.csv = st.csv /\ t.done = TRUE
  <2>1. t = [st EXCEPT !.done = TRUE]
    BY DEF t
  <2> QED
    BY <2>1 DEF WhisperRight, IsConverter
<1>4. WhisperStep(t, l) = t
  BY <1>3 DEF WhisperStep
<1>5. Read(WhisperStep, st, <<WhisperLine(i, << >>), l>>) = t
  BY <1>2, <1>4 DEF Read
<1>6. Only(Add(h, Ran(i, << >>)), HasInteger) = Only(h, HasInteger)
  BY OnlyGrows, NothingRan
<1>7. WhisperRight(t, Add(h, Ran(i, << >>)))
  BY <1>3, <1>6 DEF WhisperRight
<1> QED
  BY <1>3, <1>5, <1>7

(* ... and Renode's: a register that the handler writes is not in it.      *)
LEMMA RenodeEnds ==
  ASSUME NEW st, NEW x, NEW h, IsSeq(h), RenodeRight(st, x, h), st.done = FALSE, NEW i, NEW l
  PROVE  /\ RenodeRight(Read(RenodeStep, st, <<Line("ecall", i, << >>), l>>), x,
                        Add(h, Ran(i, << >>)))
         /\ Read(RenodeStep, st, <<Line("ecall", i, << >>), l>>).done = TRUE
<1> DEFINE t == [st EXCEPT !.done = TRUE]
           u == << >>
           w == Integer(Shown(u))
<1>1. RenodeStep(st, Line("ecall", i, << >>)) = t
  BY DEF RenodeStep, Line
<1> HIDE DEF t
<1>2. IsDumps(t) /\ t.csv = st.csv /\ t.done = TRUE
  <2>1. t = [st EXCEPT !.done = TRUE]
    BY DEF t
  <2> QED
    BY <2>1 DEF RenodeRight, IsDumps
<1>3. RenodeStep(t, l) = t
  BY <1>2 DEF RenodeStep
<1>4. Read(RenodeStep, st, <<Line("ecall", i, << >>), l>>) = t
  BY <1>1, <1>3 DEF Read
<1>5. x \in [0..31 -> Int] /\ Traced(x, h) /\ IsUpdate(u)
  BY DEF RenodeRight, IsUpdate
<1>6. Written(x, w) = x /\ ~Differs(x, w)
  BY NothingRan DEF Written, Differs
<1> HIDE DEF u
<1>7. w = Integer(Shown(u))
  OBVIOUS
<1> HIDE DEF w
<1>8. /\ Traced(Written(x, w), Add(h, Ran(i, u)))
      /\ Changing(OfIntegers(Add(h, Ran(i, u)))) =
           IF Differs(x, w) THEN Add(Changing(OfIntegers(h)), OfInteger(Ran(i, u)))
           ELSE Changing(OfIntegers(h))
  BY <1>5, <1>7, ChangingGrows
<1>9. RenodeRight(t, x, Add(h, Ran(i, u)))
  BY <1>2, <1>5, <1>6, <1>8 DEF RenodeRight
<1> QED
  BY <1>2, <1>4, <1>9 DEF u
-----------------------------------------------------------------------------
(* The instruction that is next, at the pc: it is one, and what is after   *)
(* it is in the width of the pc.                                           *)
Runs(i, at) ==
  /\ PcAfter(i) \in 0..(Word - 1) /\ i.pc = at /\ i.pc \in Nat
  /\ i.kind \in {"plain", "bare", "illegal", "wfi"} /\ i.op # "ecall"
  /\ IsUpdate(i.upd) /\ (i.kind # "plain" => i.upd = << >>)

(* An instruction of a program, put at a pc, runs.                         *)
LEMMA InstructionIs ==
  ASSUME NEW p \in Programs, NEW k \in 1..Len(p), NEW at \in 0..(Word - 1),
         NEW i, i = [p[k] EXCEPT !.pc = at]
  PROVE  Runs(i, at)
<1>1. Word \in Nat \ {0} /\ IsInstruction(p[k])
  BY TraceFlowAssumption
<1>2. PICK q : q = p[k] /\ i = [q EXCEPT !.pc = at] /\ IsInstruction(q)
  BY <1>1
<1>3. /\ i.pc = at /\ i.kind = q.kind /\ i.op = q.op /\ i.args = q.args /\ i.upd = q.upd
  BY <1>1, <1>2 DEF IsInstruction
<1>4. /\ i.kind \in {"plain", "bare", "illegal", "wfi"} /\ i.op # "ecall"
      /\ IsUpdate(i.upd) /\ (i.kind # "plain" => i.upd = << >>)
  BY <1>1, <1>3 DEF IsInstruction
<1>5. at \in Nat
  BY <1>1
<1>6. PcAfter(i) \in 0..(Word - 1)
  <2>1. CASE i.op \in {"j", "jal"}
    <3> DEFINE m == Len(i.args)
    <3>1. m \in Nat \ {0} /\ DOMAIN i.args = 1..m /\ i.args[m].v \in Int
      BY <1>1, <1>3, <2>1 DEF IsInstruction
    <3>2. PcAfter(i) = Shift(i.args, at)[m].v
      BY <1>3, <2>1 DEF PcAfter, Addressed, PcRelative
    <3> HIDE DEF m
    <3>3. Shift(i.args, at) = [i.args EXCEPT ![m] = Imm((@.v + at) % Word)]
      BY DEF Shift, m
    <3> DEFINE g == i.args
               y == Imm((g[m].v + at) % Word)
    <3>4. Shift(g, at)[m] = y
      <4>1. m \in DOMAIN g /\ Shift(g, at) = [g EXCEPT ![m] = y]
        BY <3>1, <3>3
      <4> HIDE DEF g, y
      <4> QED
        BY <4>1
    <3>5. y.v = (g[m].v + at) % Word
      BY DEF Imm
    <3> DEFINE z == g[m].v + at
    <3> HIDE DEF y
    <3>6. z \in Int /\ PcAfter(i) = z % Word
      BY <1>5, <3>1, <3>2, <3>4, <3>5
    <3> HIDE DEF z
    <3> QED
      BY <1>1, <3>6
  <2>2. CASE i.op \notin {"j", "jal"}
    <3>1. PcAfter(i) = (at + 4) % Word
      BY <1>3, <2>2 DEF PcAfter
    <3> QED
      BY <1>1, <1>5, <3>1
  <2> QED
    BY <2>1, <2>2
<1> QED
  BY <1>3, <1>4, <1>5, <1>6 DEF Runs

(* An empty history, and an empty CSV.                                     *)
LEMMA NoneYet ==
  /\ IsSeq(<< >>) /\ Told(<< >>) = << >> /\ Tells(<< >>) = << >> /\ Flat(<< >>) = << >>
  /\ OfIntegers(<< >>) = << >> /\ SubSeq(<< >>, 1, Len(<< >>) - 1) = << >>
  /\ Selected(<< >>, {}) = << >> /\ IsTrace(<< >>)
  /\ \A r : LastVal(<< >>, 0, r) = 0
<1>1. IsSeq(<< >>) /\ DOMAIN << >> = {} /\ \A s : IsSeq(s) /\ Len(s) = 0 => s = << >>
  BY DEF IsSeq
<1>2. /\ Told(<< >>) = << >> /\ Tells(<< >>) = << >>
      /\ Flat(<< >>) = << >> /\ OfIntegers(<< >>) = << >>
  BY <1>1 DEF Told, Tells, Flat, OfIntegers
<1>3. Selected(<< >>, {}) = << >>
  <2>1. IsSeq(Selected(<< >>, {})) /\ Len(Selected(<< >>, {})) = Cardinality({})
    BY <1>1, SelectedIs
  <2> QED
    BY <1>1, <2>1, FS_EmptySet
<1>4. IsTrace(<< >>)
  BY DEF IsTrace
<1>5. \A r : LastVal(<< >>, 0, r) = 0
  BY DEF LastVal
<1> QED
  BY <1>1, <1>2, <1>3, <1>4, <1>5

(* A converter that has read nothing, and one that has come to the test.   *)
LEMMA FreshIs ==
  /\ IsConverter(Fresh) /\ Fresh = [Fresh EXCEPT !.on = FALSE]
  /\ Fresh.on = FALSE /\ Fresh.e = NoEntry /\ Fresh.csv = << >> /\ Fresh.done = FALSE
  /\ LET on == [Fresh EXCEPT !.on = TRUE] IN
     /\ IsConverter(on) /\ on.on = TRUE /\ on.e = NoEntry /\ on.csv = << >> /\ on.done = FALSE
<1> DEFINE f == Fresh
           on == [f EXCEPT !.on = TRUE]
<1>1. /\ f = [on |-> f.on, e |-> f.e, csv |-> f.csv, done |-> f.done]
      /\ f.on = FALSE /\ f.e = NoEntry /\ f.csv = << >> /\ f.done = FALSE
  BY DEF Fresh
<1> HIDE DEF f
<1>2. f = [f EXCEPT !.on = FALSE]
  BY <1>1
<1>3. on = [f EXCEPT !.on = TRUE]
  OBVIOUS
<1> HIDE DEF on
<1>4. /\ IsConverter(on) /\ on.on = TRUE /\ on.e = f.e /\ on.csv = f.csv /\ on.done = f.done
  BY <1>1, <1>3 DEF IsConverter
<1> QED
  BY <1>1, <1>2, <1>4 DEF f, on, IsConverter

(* Before the program: Spike's and Sail's have come to the test's code.    *)
LEMMA StartsRight ==
  ASSUME full \in BOOLEAN, NEW at, NEW x, x = [k \in 0..31 |-> 0]
  PROVE  /\ CoreRight(Fresh, << >>) /\ WhisperRight(Fresh, << >>) /\ OvpRight(Fresh, << >>)
         /\ SpikeRight([Fresh EXCEPT !.on = TRUE], << >>)
         /\ SailRight([Fresh EXCEPT !.on = TRUE], << >>)
         /\ RenodeRight(RenodeFresh(at), x, << >>)
<1> DEFINE st == Fresh
           on == [Fresh EXCEPT !.on = TRUE]
<1>1. /\ IsConverter(st) /\ st.csv = << >> /\ st.e = NoEntry /\ st.done = FALSE
      /\ IsConverter(on) /\ on.csv = << >> /\ on.e = NoEntry /\ on.on = TRUE
  BY FreshIs
<1> HIDE DEF st, on
<1>2. SpikeCsv(on, full) = << >> /\ OvpCsv(st) = << >>
  BY <1>1 DEF SpikeCsv, OvpCsv
<1>3. /\ Only(<< >>, Wrote) = << >> /\ Only(<< >>, Listed) = << >>
      /\ Only(<< >>, HasInteger) = << >> /\ Changing(<< >>) = << >>
  BY NoneYet DEF Only, Changing
<1>4. Alike(<< >>, << >>)
  BY NoneYet DEF Alike
<1>5. x \in [0..31 -> Int] /\ Traced(x, << >>)
  <2>1. Flat(Tells(OfIntegers(<< >>))) = << >> /\ Len(<< >>) = 0
    BY NoneYet
  <2>2. \A k \in 0..31 : x[k] = 0
    OBVIOUS
  <2>3. Traced(x, << >>)
    BY <2>1, <2>2, NoneYet DEF Traced
  <2> QED
    BY <2>3
<1>6. IsDumps(RenodeFresh(at)) /\ RenodeFresh(at).csv = << >>
  BY DEF RenodeFresh, IsDumps
<1>12. /\ CoreNames(<< >>, << >>) /\ SpikeNames(<< >>, << >>) /\ OvpNames(<< >>, << >>)
       /\ Starts(<< >>, << >>)
  BY NoneYet DEF CoreNames, SpikeNames, OvpNames, Starts
<1>7. CoreRight(st, << >>)
  BY <1>1, <1>3, <1>4, <1>12, NoneYet DEF CoreRight
<1>8. SpikeRight(on, << >>)
  BY <1>1, <1>2, <1>3, <1>4, <1>12, NoneYet DEF SpikeRight
<1>9. SailRight(on, << >>) /\ WhisperRight(st, << >>)
  BY <1>1, <1>3, NoneYet DEF SailRight, WhisperRight
<1>10. OvpRight(st, << >>)
  BY <1>1, <1>2, <1>12, NoneYet DEF OvpRight
<1>11. RenodeRight(RenodeFresh(at), x, << >>)
  BY <1>3, <1>5, <1>6, NoneYet DEF RenodeRight
<1> QED
  BY <1>7, <1>8, <1>9, <1>10, <1>11 DEF st, on

(* What Spike and Sail log of the boot code leaves nothing.                *)
LEMMA BootSkipped ==
  /\ ReadSpike(ReadSpike(Fresh, SpikeLines(Boot, Odd)), BeforeSpike) = [Fresh EXCEPT !.on = TRUE]
  /\ Read(SailStep, Read(SailStep, Fresh, SailLines(Boot, Odd)), BeforeSail)
       = [Fresh EXCEPT !.on = TRUE]
<1> DEFINE on == [Fresh EXCEPT !.on = TRUE]
           a == SpikeLines(Boot, Odd)
           b == SailLines(Boot, Odd)
<1>1. /\ Fresh.on = FALSE /\ Fresh.done = FALSE /\ Fresh = [Fresh EXCEPT !.on = FALSE]
      /\ on.on = TRUE /\ on.done = FALSE /\ on.e = NoEntry
  BY FreshIs
<1> HIDE DEF on
<1>2. /\ a[1].t = "core" /\ a[2].t \in {"illegal", "commit", "other"}
      /\ b[1].t \in {"ecall", "instr"} /\ b[2].t \in {"reg", "other"}
      /\ b[1].t # "ecall"
  BY DEF SpikeLines, SailLines, Line, Boot, I
<1> HIDE DEF a, b
<1>3. \A l : l.t \in {"core", "illegal", "commit", "other"} => SpikeStep(Fresh, l, full) = Fresh
  BY <1>1 DEF SpikeStep
<1>4. \A l : l.t \in {"instr", "reg", "other"} => SailStep(Fresh, l) = Fresh
  BY <1>1 DEF SailStep
<1>5. ReadSpike(Fresh, a) = Fresh /\ Read(SailStep, Fresh, b) = Fresh
  BY <1>2, <1>3, <1>4 DEF ReadSpike, Read
<1>6. /\ BeforeSpike[1].t = "trampoline" /\ BeforeSpike[2].t = "commit"
      /\ BeforeSail[1].t = "start" /\ BeforeSail[2].t = "reg"
  BY DEF BeforeSpike, BeforeSail, Line
<1>7. /\ SpikeStep(Fresh, BeforeSpike[1], full) = on /\ SpikeStep(on, BeforeSpike[2], full) = on
      /\ SailStep(Fresh, BeforeSail[1]) = on /\ SailStep(on, BeforeSail[2]) = on
  BY <1>1, <1>6 DEF SpikeStep, SailStep, on
<1>8. ReadSpike(Fresh, BeforeSpike) = on /\ Read(SailStep, Fresh, BeforeSail) = on
  BY <1>7 DEF ReadSpike, Read
<1> QED
  BY <1>5, <1>8 DEF a, b, on
-----------------------------------------------------------------------------
(* What the core printed: each with a register or none, that can be seen.  *)
IsHistory(h) == IsSeq(h) /\ \A k \in 1..Len(h) : IsRecord(h[k]) /\ IsPrinted(h[k])

TypeOK ==
  /\ prog \in Programs /\ full \in BOOLEAN
  /\ n \in 0..Len(prog) /\ pc \in 0..(Word - 1)
  /\ coreOn \in BOOLEAN /\ copies \in Nat /\ ended \in BOOLEAN
  /\ IsSeq(ran) /\ IsHistory(coreRan)

CoreInv   == CoreRight(core, coreRan) /\ (copies # 0 => coreRan # << >>)
SpikeInv  == SpikeRight(spike, ran) /\ spike.done = ended
SailInv   == SailRight(sail, ran) /\ sail.done = ended
WhisperInv == WhisperRight(whisper, ran) /\ whisper.done = ended
OvpInv    == OvpRight(ovp, ran) /\ ovp.done = ended
RenodeInv == /\ RenodeRight(renode, xreg, ran) /\ renode.done = ended
             /\ ~ended => renode.x = xreg /\ renode.prev = pc
OrderInv ==
  /\ ended => n = Len(prog)
  /\ verdict # "none" => /\ ended /\ ~coreOn
                         /\ verdict = Result(Flat(SpikeCsv(spike, full)), Flat(core.csv))

(* What ran is of a program, or the ecall; what was printed ran, and only  *)
(* what writes a register is printed with one.                             *)
OfProgram(i) ==
  /\ i.pc \in 0..(Word - 1)
  /\ \/ i.op = "ecall"
     \/ \E p \in Programs : \E k \in 1..Len(p) : i = [p[k] EXCEPT !.pc = i.pc]
AllOfProgram(h) == \A k \in 1..Len(h) : OfProgram(h[k].i)
Printed(g, h) == \A j \in 1..Len(g) : /\ \E k \in 1..Len(h) : g[j].i = h[k].i
                                      /\ Wrote(g[j]) => g[j].i.upd # << >>
HistoryInv == AllOfProgram(ran) /\ Printed(coreRan, ran)

SimsInv == SpikeInv /\ SailInv /\ WhisperInv /\ OvpInv /\ RenodeInv
IInv == TypeOK /\ CoreInv /\ SimsInv /\ OrderInv /\ HistoryInv

(* SpikeRight depends on full.                                             *)
LEMMA SpikeSame ==
  ASSUME full' = full, NEW st, NEW h
  PROVE  SpikeRight(st, h)' <=> SpikeRight(st, h)
BY DEF SpikeRight, Listed, Only

(* What the core printed, with one record more.                            *)
LEMMA HistoryGrows ==
  ASSUME NEW h, IsHistory(h), NEW r, IsRecord(r), IsPrinted(r)
  PROVE  IsHistory(Add(h, r)) /\ Add(h, r) # << >>
<1> DEFINE g == Add(h, r)
<1>1. /\ IsSeq(g) /\ Len(g) = Len(h) + 1 /\ Len(h) \in Nat
      /\ \A k \in 1..Len(h) : g[k] = h[k]
      /\ g[Len(h) + 1] = r
  BY Grows DEF IsHistory, IsSeq
<1> HIDE DEF g
<1>2. \A k \in 1..Len(g) : k \in 1..Len(h) \/ k = Len(h) + 1
  BY <1>1
<1>3. IsHistory(g)
  BY <1>1, <1>2 DEF IsHistory
<1>4. g # << >>
  BY <1>1
<1> QED
  BY <1>3, <1>4 DEF g

(* A history with an instruction of a program more, and what was printed.  *)
LEMMA ProgramGrows ==
  ASSUME NEW h, IsSeq(h), NEW g, IsSeq(g), NEW r, NEW q
  PROVE  /\ AllOfProgram(h) /\ OfProgram(r.i) => AllOfProgram(Add(h, r))
         /\ Printed(g, h) => Printed(g, Add(h, r))
         /\ Printed(g, h) /\ (\E k \in 1..Len(h) : q.i = h[k].i) /\ (Wrote(q) => q.i.upd # << >>)
              => Printed(Add(g, q), h)
         /\ \E k \in 1..Len(Add(h, r)) : r.i = Add(h, r)[k].i
<1> DEFINE hh == Add(h, r)
           gg == Add(g, q)
<1>1. /\ Len(h) \in Nat /\ Len(hh) = Len(h) + 1 /\ hh[Len(h) + 1] = r
      /\ \A k \in 1..Len(h) : hh[k] = h[k]
      /\ Len(g) \in Nat /\ Len(gg) = Len(g) + 1 /\ gg[Len(g) + 1] = q
      /\ \A k \in 1..Len(g) : gg[k] = g[k]
  BY Grows DEF IsSeq
<1> HIDE DEF hh, gg
<1>2. /\ \A k \in 1..Len(hh) : k \in 1..Len(h) \/ k = Len(h) + 1
      /\ \A k \in 1..Len(gg) : k \in 1..Len(g) \/ k = Len(g) + 1
      /\ \A k \in 1..Len(h) : k \in 1..Len(hh)
      /\ Len(h) + 1 \in 1..Len(hh)
  BY <1>1
<1>3. AllOfProgram(h) /\ OfProgram(r.i) => AllOfProgram(hh)
  BY <1>1, <1>2 DEF AllOfProgram
<1>4. Printed(g, h) => Printed(g, hh)
  BY <1>1, <1>2 DEF Printed
<1>5. Printed(g, h) /\ (\E k \in 1..Len(h) : q.i = h[k].i) /\ (Wrote(q) => q.i.upd # << >>)
        => Printed(gg, h)
  BY <1>1, <1>2 DEF Printed
<1>6. \E k \in 1..Len(hh) : r.i = hh[k].i
  BY <1>1, <1>2
<1> QED
  BY <1>3, <1>4, <1>5, <1>6 DEF hh, gg

(* At the start the CSVs are empty, and so is what has run.                *)
LEMMA InitRight == Init => IInv
<1> SUFFICES ASSUME Init PROVE IInv
  OBVIOUS
<1>1. TypeOK
  <2>1. IsHistory(<< >>) /\ IsSeq(<< >>)
    BY NoneYet DEF IsHistory
  <2>2. Word \in Nat \ {0} /\ StartPc \in 0..(Word - 1) /\ Len(prog) \in Nat
    BY TraceFlowAssumption DEF Init
  <2>3. /\ n = 0 /\ pc = StartPc /\ copies = 0 /\ ran = << >> /\ coreRan = << >>
        /\ prog \in Programs /\ full \in BOOLEAN /\ coreOn = TRUE /\ ended = FALSE
    BY DEF Init
  <2>4. n \in 0..Len(prog) /\ pc \in 0..(Word - 1) /\ copies \in Nat
    BY <2>2, <2>3
  <2>5. IsSeq(ran) /\ IsHistory(coreRan) /\ coreOn \in BOOLEAN /\ ended \in BOOLEAN
    BY <2>1, <2>3
  <2> QED
    BY <2>3, <2>4, <2>5 DEF TypeOK
<1>2. full \in BOOLEAN /\ xreg = [k \in 0..31 |-> 0]
  BY DEF Init
<1>3. /\ core = Fresh /\ whisper = Fresh /\ ovp = Fresh
      /\ spike = [Fresh EXCEPT !.on = TRUE] /\ sail = [Fresh EXCEPT !.on = TRUE]
      /\ renode = RenodeFresh(StartPc) /\ ran = << >> /\ coreRan = << >>
      /\ copies = 0 /\ ended = FALSE /\ verdict = "none" /\ pc = StartPc
  BY BootSkipped DEF Init
<1>4. /\ CoreRight(core, coreRan) /\ WhisperRight(whisper, ran) /\ OvpRight(ovp, ran)
      /\ SpikeRight(spike, ran) /\ SailRight(sail, ran) /\ RenodeRight(renode, xreg, ran)
  BY <1>2, <1>3, StartsRight
<1>5. /\ core.done = FALSE /\ whisper.done = FALSE /\ ovp.done = FALSE
      /\ spike.done = FALSE /\ sail.done = FALSE
  BY <1>3, FreshIs
<1>6. renode.done = FALSE /\ renode.x = xreg /\ renode.prev = pc
  BY <1>2, <1>3 DEF RenodeFresh
<1>7. HistoryInv
  <2>1. Len(<< >>) = 0
    OBVIOUS
  <2> QED
    BY <1>3, <2>1 DEF HistoryInv, AllOfProgram, Printed
<1> QED
  BY <1>1, <1>3, <1>4, <1>5, <1>6, <1>7
  DEF IInv, CoreInv, SimsInv, SpikeInv, SailInv, WhisperInv, OvpInv, RenodeInv, OrderInv

(* A step of the simulators.                                               *)
LEMMA SimulateRight ==
  ASSUME IInv, ~ended, NEW i, i.pc = pc, i.pc \in Nat, i.kind # "ecall", i.op # "ecall",
         IsUpdate(i.upd), i.kind # "plain" => i.upd = << >>,
         Simulate(i), pc' = PcAfter(i), ran' = Add(ran, Ran(i, i.upd)),
         UNCHANGED <<full, ended>>
  PROVE  SimsInv' /\ IsSeq(ran')
<1> DEFINE u == i.upd
<1>1. IsSeq(ran) /\ full \in BOOLEAN /\ ended = FALSE /\ SimsInv
  BY DEF IInv, TypeOK
<1>2. i.kind = "illegal" \/ i.op = "ecall" => u = << >>
  OBVIOUS
<1>3. /\ spike' = SpikeAfter(spike, i, u) /\ sail' = SailAfter(sail, i, u)
      /\ whisper' = WhisperAfter(whisper, i, u) /\ ovp' = OvpAfter(ovp, i, u)
      /\ xreg' = Written(xreg, Integer(Shown(u)))
      /\ renode' = RenodeAfter(renode, xreg', PcAfter(i))
  BY DEF Simulate, SpikeAfter, SailAfter, WhisperAfter, OvpAfter, RenodeAfter, Written
<1>4. SpikeInv'
  <2>1. SpikeRight(spike, ran) /\ spike.done = FALSE
    BY <1>1 DEF SimsInv, SpikeInv
  <2>2. /\ SpikeRight(SpikeAfter(spike, i, u), Add(ran, Ran(i, u)))
        /\ SpikeAfter(spike, i, u).done = IF i.op = "ecall" THEN TRUE ELSE FALSE
    BY <1>1, <1>2, <2>1, SpikeFollows
  <2>3. SpikeRight(spike, ran)'
    BY <1>3, <2>2, SpikeSame
  <2> QED
    BY <1>1, <1>3, <2>2, <2>3 DEF SpikeInv
<1>5. SailInv'
  <2>1. SailRight(sail, ran) /\ sail.done = FALSE
    BY <1>1 DEF SimsInv, SailInv
  <2>2. /\ SailRight(SailAfter(sail, i, u), Add(ran, Ran(i, u)))
        /\ SailAfter(sail, i, u).done = FALSE
    BY <1>1, <2>1, SailFollows
  <2> QED
    BY <1>1, <1>3, <2>2 DEF SailInv
<1>6. WhisperInv'
  <2>1. WhisperRight(whisper, ran) /\ whisper.done = FALSE
    BY <1>1 DEF SimsInv, WhisperInv
  <2>2. /\ WhisperRight(WhisperAfter(whisper, i, u), Add(ran, Ran(i, u)))
        /\ WhisperAfter(whisper, i, u).done = FALSE
    BY <1>1, <2>1, WhisperFollows
  <2> QED
    BY <1>1, <1>3, <2>2 DEF WhisperInv
<1>7. OvpInv'
  <2>1. OvpRight(ovp, ran) /\ ovp.done = FALSE
    BY <1>1 DEF SimsInv, OvpInv
  <2>2. /\ OvpRight(OvpAfter(ovp, i, u), Add(ran, Ran(i, u)))
        /\ OvpAfter(ovp, i, u).done = IF i.kind = "ecall" THEN TRUE ELSE FALSE
    BY <1>1, <2>1, OvpFollows
  <2> QED
    BY <1>1, <1>3, <2>2 DEF OvpInv
<1>8. RenodeInv'
  <2> DEFINE next == PcAfter(i)
             y == Written(xreg, Integer(Shown(u)))
  <2>1. RenodeAt(renode, xreg, i.pc, ran)
    BY <1>1 DEF SimsInv, RenodeInv, RenodeAt
  <2>2. RenodeAt(RenodeAfter(renode, y, next), y, next, Add(ran, Ran(i, u)))
    BY <1>1, <2>1, RenodeFollows
  <2>3. xreg' = y /\ renode' = RenodeAfter(renode, y, next) /\ pc' = next
    BY <1>3
  <2> HIDE DEF y, next
  <2>4. RenodeAt(renode', xreg', pc', ran') /\ ended' = FALSE
    BY <1>1, <2>2, <2>3
  <2> QED
    BY <2>4 DEF RenodeInv, RenodeAt
<1>9. IsSeq(ran')
  BY <1>1, Grows
<1> QED
  BY <1>4, <1>5, <1>6, <1>7, <1>8, <1>9 DEF SimsInv

(* An instruction that runs, whatever the core prints for it, ...          *)
LEMMA ExecuteRight == IInv /\ Execute => IInv'
<1> SUFFICES ASSUME IInv, Execute PROVE IInv'
  OBVIOUS
<1> DEFINE i == [prog[n + 1] EXCEPT !.pc = pc]
<1>1. /\ prog \in Programs /\ full \in BOOLEAN /\ n \in 0..Len(prog) /\ pc \in 0..(Word - 1)
      /\ coreOn \in BOOLEAN /\ copies \in Nat /\ ended \in BOOLEAN /\ IsHistory(coreRan)
      /\ CoreRight(core, coreRan) /\ (copies # 0 => coreRan # << >>)
      /\ (ended => n = Len(prog)) /\ (verdict # "none" => ended)
  BY DEF IInv, TypeOK, CoreInv, OrderInv
<1>2. /\ n < Len(prog) /\ n' = n + 1 /\ UNCHANGED <<prog, full, ended, verdict>>
      /\ Simulate(i) /\ ran' = Append(ran, [i |-> i, upd |-> Shown(i.upd)]) /\ pc' = PcAfter(i)
      /\ coreOn' = (coreOn /\ ~Stops(i))
      /\ IF ~coreOn \/ Stops(i) THEN UNCHANGED <<core, copies, coreRan>>
         ELSE \E upd \in {i.upd} \cup (IF i.upd = << >> THEN {} ELSE Faults) :
                /\ core' = CoreStep(core, TracerLine(i, upd))
                /\ coreRan' = Append(coreRan, [i |-> i, upd |-> Shown(upd)])
                /\ copies' = 1
  BY DEF Execute
<1>3. n + 1 \in 1..Len(prog) /\ n' \in 0..Len(prog) /\ ~ended /\ Len(prog) \in Nat
  <2>1. Len(prog) \in Nat
    BY <1>1, TraceFlowAssumption
  <2> QED
    BY <1>1, <1>2, <2>1
<1>4. i = [prog[n + 1] EXCEPT !.pc = pc]
  OBVIOUS
<1> HIDE DEF i
<1>5. /\ PcAfter(i) \in 0..(Word - 1) /\ i.pc = pc /\ i.pc \in Nat
      /\ i.kind \in {"plain", "bare", "illegal", "wfi"} /\ i.op # "ecall"
      /\ IsUpdate(i.upd) /\ (i.kind # "plain" => i.upd = << >>)
  <2>1. Runs(i, pc)
    BY <1>1, <1>3, <1>4, InstructionIs
  <2> QED
    BY <2>1 DEF Runs
<1>6. SimsInv' /\ IsSeq(ran')
  <2>1. ran' = Add(ran, Ran(i, i.upd))
    BY <1>2 DEF Add, Ran
  <2>2. i.kind # "ecall"
    BY <1>5
  <2> QED
    BY <1>2, <1>3, <1>5, <2>1, <2>2, SimulateRight
<1>7. CoreInv' /\ IsHistory(coreRan') /\ copies' \in Nat
  <2>1. CASE ~coreOn \/ Stops(i)
    BY <1>1, <1>2, <2>1 DEF CoreInv
  <2>2. CASE coreOn /\ ~Stops(i)
    <3>1. PICK upd \in {i.upd} \cup (IF i.upd = << >> THEN {} ELSE Faults) :
            /\ core' = CoreStep(core, TracerLine(i, upd))
            /\ coreRan' = Append(coreRan, [i |-> i, upd |-> Shown(upd)])
            /\ copies' = 1
      BY <1>2, <2>2
    <3>2. /\ i.kind \in {"plain", "bare"} /\ IsUpdate(upd) /\ (i.kind = "bare" => upd = << >>)
      BY <1>5, <2>2, TraceFlowAssumption DEF Stops
    <3> DEFINE r == Ran(i, upd)
    <3>3. core' = CoreAfter(core, i, upd) /\ coreRan' = Add(coreRan, r)
      BY <3>1 DEF CoreAfter, Ran, Add
    <3>4. CoreRight(CoreAfter(core, i, upd), Add(coreRan, r))
      BY <1>1, <1>5, <3>2, CoreFollows DEF IsHistory
    <3>5. IsRecord(r) /\ IsPrinted(r)
      BY <1>1, <1>5, <3>2, ShownUpdates DEF IsRecord, IsPrinted, Ran, Shown
    <3> HIDE DEF r
    <3>6. IsHistory(coreRan') /\ coreRan' # << >>
      BY <1>1, <3>3, <3>5, HistoryGrows
    <3> QED
      BY <3>1, <3>3, <3>4, <3>6 DEF CoreInv
  <2> QED
    BY <2>1, <2>2
<1>10. HistoryInv'
  <2> DEFINE r == Ran(i, i.upd)
  <2>1. /\ IsSeq(ran) /\ IsSeq(coreRan) /\ ran' = Add(ran, r) /\ r.i = i
        /\ AllOfProgram(ran) /\ Printed(coreRan, ran)
    BY <1>1, <1>2 DEF IInv, TypeOK, HistoryInv, IsHistory, Add, Ran
  <2> HIDE DEF r
  <2>2. OfProgram(i)
    BY <1>1, <1>3, <1>4, <1>5 DEF OfProgram
  <2> DEFINE h == Add(ran, r)
  <2>5. IsSeq(h) /\ AllOfProgram(h) /\ Printed(coreRan, h) /\ \E k \in 1..Len(h) : r.i = h[k].i
    <3>1. OfProgram(r.i)
      BY <2>1, <2>2
    <3>2. AllOfProgram(h) /\ \E k \in 1..Len(h) : r.i = h[k].i
      <4>1. AllOfProgram(h)
        BY <2>1, <3>1, ProgramGrows
      <4>2. Len(ran) \in Nat /\ Len(h) = Len(ran) + 1 /\ h[Len(ran) + 1] = r
        BY <2>1, Grows DEF IsSeq
      <4>3. Len(ran) + 1 \in 1..Len(h)
        BY <4>2
      <4> QED
        BY <4>1, <4>2, <4>3
    <3>3. Printed(coreRan, h)
      BY <2>1, ProgramGrows
    <3> QED
      BY <2>1, <3>2, <3>3, Grows
  <2>6. ran' = h
    BY <2>1
  <2> HIDE DEF h
  <2>3. /\ AllOfProgram(ran') /\ Printed(coreRan, ran') /\ IsSeq(ran')
        /\ \E k \in 1..Len(ran') : i = ran'[k].i
    BY <2>1, <2>5, <2>6
  <2>4. Printed(coreRan', ran')
    <3>1. CASE ~coreOn \/ Stops(i)
      BY <1>2, <2>3, <3>1
    <3>2. CASE coreOn /\ ~Stops(i)
      <4>1. PICK upd \in {i.upd} \cup (IF i.upd = << >> THEN {} ELSE Faults) :
              coreRan' = Append(coreRan, [i |-> i, upd |-> Shown(upd)])
        BY <1>2, <3>2
      <4> DEFINE q == Ran(i, upd)
      <4>2. coreRan' = Add(coreRan, q) /\ q.i = i
        BY <4>1 DEF Add, Ran
      <4>3. Wrote(q) => i.upd # << >>
        BY <4>1 DEF Wrote, Ran, Shown
      <4> HIDE DEF q
      <4> QED
        BY <2>1, <2>3, <4>2, <4>3, ProgramGrows
    <3> QED
      BY <3>1, <3>2
  <2> QED
    BY <2>3, <2>4 DEF HistoryInv
<1>8. TypeOK'
  <2>1. coreOn' \in BOOLEAN
    BY <1>1, <1>2, Zenon DEF Stops
  <2> QED
    BY <1>1, <1>2, <1>3, <1>5, <1>6, <1>7, <2>1 DEF TypeOK
<1>9. OrderInv'
  BY <1>1, <1>2, <1>3 DEF OrderInv
<1> QED
  BY <1>6, <1>7, <1>8, <1>9, <1>10 DEF IInv

(* ... a line that the tracer prints again, ...                            *)
LEMMA PrintAgainRight == IInv /\ PrintAgain => IInv'
<1> SUFFICES ASSUME IInv, PrintAgain PROVE IInv'
  OBVIOUS
<1> DEFINE r == coreRan[Len(coreRan)]
<1>1. /\ TypeOK /\ IsHistory(coreRan) /\ CoreRight(core, coreRan) /\ copies # 0 /\ copies \in Nat
      /\ coreRan # << >> /\ SimsInv /\ OrderInv /\ coreOn
  BY DEF IInv, TypeOK, CoreInv, PrintAgain
<1>2. /\ core' = CoreStep(core, TracerLine(r.i, r.upd)) /\ coreRan' = Append(coreRan, r)
      /\ copies' = copies + 1
      /\ UNCHANGED <<prog, full, n, pc, coreOn, ended, sims, verdict, ran>>
  BY DEF PrintAgain
<1>3. IsRecord(r) /\ IsPrinted(r)
  <2>1. Len(coreRan) \in 1..Len(coreRan)
    BY <1>1 DEF IsHistory, IsSeq
  <2> QED
    BY <1>1, <2>1 DEF IsHistory
<1> HIDE DEF r
<1>4. /\ Ran(r.i, r.upd) = r /\ r.i.pc \in Nat /\ IsUpdate(r.upd)
      /\ r.i.kind \in {"plain", "bare"} /\ (r.i.kind = "bare" => r.upd = << >>)
  <2>1. Word \in Nat
    BY TraceFlowAssumption
  <2> QED
    BY <1>3, <2>1 DEF IsRecord, IsPrinted, Ran
<1>5. CoreRight(CoreAfter(core, r.i, r.upd), Add(coreRan, Ran(r.i, r.upd)))
  BY <1>1, <1>4, CoreFollows DEF IsHistory
<1>6. core' = CoreAfter(core, r.i, r.upd) /\ coreRan' = Add(coreRan, r)
  BY <1>2 DEF CoreAfter, Add
<1>7. IsHistory(coreRan') /\ coreRan' # << >>
  BY <1>1, <1>3, <1>6, HistoryGrows
<1>8. CoreInv'
  BY <1>4, <1>5, <1>6, <1>7 DEF CoreInv
<1>9. TypeOK'
  BY <1>1, <1>2, <1>7 DEF TypeOK
<1>10. SimsInv'
  <2>1. SpikeRight(spike, ran)'
    BY <1>1, <1>2, SpikeSame DEF SimsInv, SpikeInv, sims
  <2> QED
    BY <1>1, <1>2, <2>1
    DEF SimsInv, SpikeInv, SailInv, WhisperInv, OvpInv, RenodeInv, sims
<1>11. OrderInv'
  BY <1>1, <1>2 DEF OrderInv
<1>12. HistoryInv'
  <2>1. IsSeq(ran) /\ IsSeq(coreRan) /\ AllOfProgram(ran) /\ Printed(coreRan, ran)
    BY DEF IInv, TypeOK, HistoryInv, IsHistory
  <2>2. Len(coreRan) \in 1..Len(coreRan)
    BY <1>1, <2>1 DEF IsSeq
  <2>3. (\E k \in 1..Len(ran) : r.i = ran[k].i) /\ (Wrote(r) => r.i.upd # << >>)
    BY <2>1, <2>2 DEF Printed, r
  <2> QED
    BY <1>2, <1>6, <2>1, <2>3, ProgramGrows DEF HistoryInv
<1> QED
  BY <1>8, <1>9, <1>10, <1>11, <1>12 DEF IInv

(* ... the ecall and what is logged behind it, ...                         *)
LEMMA EcallRight == IInv /\ Ecall => IInv'
<1> SUFFICES ASSUME IInv, Ecall PROVE IInv'
  OBVIOUS
<1> DEFINE i == I(pc, "ecall", "ecall", << >>, << >>)
<1>1. /\ TypeOK /\ CoreInv /\ SimsInv /\ OrderInv /\ IsSeq(ran) /\ full \in BOOLEAN
      /\ pc \in Nat /\ ended = FALSE
  <2>1. Word \in Nat
    BY TraceFlowAssumption
  <2> QED
    BY <2>1 DEF IInv, TypeOK, Ecall
<1>2. /\ spike' = ReadSpike(ReadSpike(spike, SpikeLines(i, << >>)), SpikeLines(Boot, Odd))
      /\ sail' = Read(SailStep, Read(SailStep, sail, SailLines(i, << >>)), SailLines(Boot, Odd))
      /\ whisper' = Read(WhisperStep, whisper, <<WhisperLine(i, << >>), WhisperLine(Boot, Odd)>>)
      /\ ovp' = Read(OvpStep, Read(OvpStep, ovp, OvpLines(i, << >>)), OvpLines(Boot, Odd))
      /\ renode' = Read(RenodeStep, renode,
                        <<Line("ecall", i, << >>), Dump([xreg EXCEPT ![5] = 7], 0)>>)
      /\ ran' = Append(ran, [i |-> i, upd |-> << >>])
      /\ n = Len(prog) /\ ended' = TRUE
      /\ UNCHANGED <<prog, full, n, pc, coreOn, copies, core, xreg, verdict, coreRan>>
  BY DEF Ecall
<1>3. i = I(pc, "ecall", "ecall", << >>, << >>)
  OBVIOUS
<1> HIDE DEF i
<1>4. ran' = Add(ran, Ran(i, << >>)) /\ IsSeq(ran')
  <2>1. ran' = Add(ran, Ran(i, << >>))
    BY <1>2, NothingRan DEF Add
  <2> QED
    BY <1>1, <2>1, Grows
<1>5. SpikeInv'
  <2>1. SpikeRight(spike, ran) /\ spike.done = FALSE
    BY <1>1 DEF SimsInv, SpikeInv
  <2>2. spike' = ReadSpike(SpikeAfter(spike, i, << >>), SpikeLines(Boot, Odd))
    BY <1>2 DEF SpikeAfter
  <2>3. SpikeRight(spike', ran') /\ spike'.done = TRUE
    BY <1>1, <1>3, <1>4, <2>1, <2>2, SpikeEnds
  <2>4. SpikeRight(spike, ran)'
    BY <1>2, <2>3, SpikeSame
  <2> QED
    BY <1>2, <2>3, <2>4 DEF SpikeInv
<1>6. SailInv'
  <2>1. SailRight(sail, ran) /\ sail.done = FALSE
    BY <1>1 DEF SimsInv, SailInv
  <2>2. sail' = Read(SailStep, SailAfter(sail, i, << >>), SailLines(Boot, Odd))
    BY <1>2 DEF SailAfter
  <2>3. SailRight(sail', ran') /\ sail'.done = TRUE
    BY <1>1, <1>3, <1>4, <2>1, <2>2, SailEnds
  <2> QED
    BY <1>2, <2>3 DEF SailInv
<1>7. WhisperInv'
  <2>1. WhisperRight(whisper, ran) /\ whisper.done = FALSE
    BY <1>1 DEF SimsInv, WhisperInv
  <2>2. WhisperRight(whisper', ran') /\ whisper'.done = TRUE
    BY <1>1, <1>2, <1>3, <1>4, <2>1, WhisperEnds
  <2> QED
    BY <1>2, <2>2 DEF WhisperInv
<1>8. OvpInv'
  <2>1. OvpRight(ovp, ran) /\ ovp.done = FALSE
    BY <1>1 DEF SimsInv, OvpInv
  <2>2. ovp' = Read(OvpStep, OvpAfter(ovp, i, << >>), OvpLines(Boot, Odd))
    BY <1>2 DEF OvpAfter
  <2>3. OvpRight(ovp', ran') /\ ovp'.done = TRUE
    BY <1>1, <1>3, <1>4, <2>1, <2>2, OvpEnds
  <2> QED
    BY <1>2, <2>3 DEF OvpInv
<1>9. RenodeInv'
  <2>1. RenodeRight(renode, xreg, ran) /\ renode.done = FALSE
    BY <1>1 DEF SimsInv, RenodeInv
  <2>2. RenodeRight(renode', xreg, ran') /\ renode'.done = TRUE
    BY <1>1, <1>2, <1>4, <2>1, RenodeEnds
  <2> QED
    BY <1>2, <2>2 DEF RenodeInv
<1>10. TypeOK' /\ CoreInv'
  BY <1>1, <1>2, <1>4 DEF TypeOK, CoreInv
<1>11. OrderInv'
  BY <1>1, <1>2 DEF OrderInv
<1>12. HistoryInv'
  <2>1. IsSeq(coreRan) /\ AllOfProgram(ran) /\ Printed(coreRan, ran) /\ pc \in 0..(Word - 1)
    BY DEF IInv, TypeOK, HistoryInv, IsHistory
  <2>2. OfProgram(i) /\ Ran(i, << >>).i = i
    BY <1>3, <2>1 DEF OfProgram, Ran, I
  <2>3. AllOfProgram(ran') /\ Printed(coreRan, ran')
    BY <1>1, <1>4, <2>1, <2>2, ProgramGrows
  <2> QED
    BY <1>2, <2>3 DEF HistoryInv
<1> QED
  BY <1>5, <1>6, <1>7, <1>8, <1>9, <1>10, <1>11, <1>12 DEF IInv, SimsInv

(* ... the end of the core's simulation and the comparison keep the        *)
(* invariant.                                                              *)
LEMMA RestRight == IInv /\ (CoreStops \/ Judge \/ UNCHANGED vars) => IInv'
<1> SUFFICES ASSUME IInv, CoreStops \/ Judge \/ UNCHANGED vars PROVE IInv'
  OBVIOUS
<1>1. TypeOK /\ CoreInv /\ SimsInv /\ OrderInv
  BY DEF IInv
<1>2. UNCHANGED <<prog, full, n, pc, copies, ended, core, sims, ran, coreRan>>
  BY DEF CoreStops, Judge, vars
<1>3. coreOn' \in BOOLEAN
  BY <1>1 DEF CoreStops, Judge, vars, TypeOK
<1>4. SimsInv'
  <2>1. SpikeRight(spike, ran)'
    BY <1>1, <1>2, SpikeSame DEF SimsInv, SpikeInv, sims
  <2> QED
    BY <1>1, <1>2, <2>1
    DEF SimsInv, SpikeInv, SailInv, WhisperInv, OvpInv, RenodeInv, sims
<1>5. TypeOK' /\ CoreInv'
  BY <1>1, <1>2, <1>3 DEF TypeOK, CoreInv
<1>6. OrderInv'
  <2>1. CASE CoreStops
    BY <1>1, <1>2, <2>1 DEF OrderInv, CoreStops
  <2>2. CASE Judge
    BY <1>1, <1>2, <2>2 DEF OrderInv, Judge, sims
  <2>3. CASE UNCHANGED vars
    BY <1>1, <2>3 DEF OrderInv, vars, sims
  <2> QED
    BY <2>1, <2>2, <2>3
<1>7. HistoryInv'
  BY <1>2 DEF IInv, HistoryInv
<1> QED
  BY <1>4, <1>5, <1>6, <1>7 DEF IInv

(* At any time each converter has made of its log what its history says:   *)
(* the invariant holds for any programs, faults and width of the pc, and   *)
(* however often lines are printed.                                        *)
THEOREM Invariance == Spec => []IInv
<1>1. IInv /\ [Next]_vars => IInv'
  BY ExecuteRight, PrintAgainRight, EcallRight, RestRight DEF Next
<1> QED
  BY <1>1, InitRight, PTL DEF Spec

(* Wherever a log is cut, each CSV tells what has run, all of it, once for *)
(* each time it was logged, in order and with the registers' ABI names,    *)
(* and nothing of the boot code or from behind the ecall.                  *)
THEOREM CsvsTell == Spec => []CsvRight
<1>1. IInv => CsvRight
  <2> SUFFICES ASSUME IInv PROVE CsvRight
    OBVIOUS
  <2>1. /\ Told(core.csv) = Tells(Only(coreRan, Wrote))
        /\ Told(SpikeCsv(spike, full)) = Tells(Only(ran, Listed))
        /\ Told(sail.csv) = Tells(Only(ran, HasInteger))
        /\ Told(whisper.csv) = Tells(Only(ran, HasInteger))
        /\ Told(renode.csv) = Tells(Changing(OfIntegers(ran)))
        /\ Told(ovp.csv) = Tells(SubSeq(ran, 1, Len(ran) - 1))
    BY DEF IInv, CoreInv, SimsInv, SpikeInv, SailInv, WhisperInv, OvpInv, RenodeInv,
           CoreRight, SpikeRight, SailRight, WhisperRight, OvpRight, RenodeRight
  <2> QED
    BY <2>1 DEF CsvRight, Only, Listed, HasInteger, OfIntegers
<1> QED
  BY <1>1, Invariance, PTL

(* A core whose trace passes made the changes of registers that the        *)
(* program makes, in order, up to where it stopped: a wrong value, another *)
(* register or a missing write fails through both logs, both converters    *)
(* and the comparison.                                                     *)
THEOREM WrongsFail == Spec => []WrongFails
<1>1. IInv => WrongFails
  <2> SUFFICES ASSUME IInv, verdict = "PASSED" PROVE IsPrefix(Made(coreRan), Made(ran))
    BY DEF WrongFails
  <2> DEFINE s == Flat(SpikeCsv(spike, full))
             c == Flat(core.csv)
  <2>1. verdict = Result(s, c) /\ Alike(s, Flat(Tells(ran))) /\ Alike(c, Flat(Tells(coreRan)))
    BY DEF IInv, OrderInv, CoreInv, SimsInv, SpikeInv, CoreRight, SpikeRight
  <2> HIDE DEF s, c
  <2>2. IsPrefix(ChangesOf(c), ChangesOf(s))
    BY <2>1, PassedMatches DEF Alike
  <2> QED
    BY <2>1, <2>2 DEF Alike, Made
<1> QED
  BY <1>1, Invariance, PTL

(* A core that made the changes that the program makes does not fail,      *)
(* however often its lines were printed and whatever is in one log and not *)
(* in the other without writing a register.                                *)
THEOREM WholesPass == Spec => []WholeRightPasses
<1>1. IInv => WholeRightPasses
  <2> SUFFICES ASSUME IInv, verdict = "FAILED", Made(coreRan) = Made(ran) PROVE FALSE
    BY DEF WholeRightPasses
  <2> DEFINE s == Flat(SpikeCsv(spike, full))
             c == Flat(core.csv)
  <2>1. verdict = Result(s, c) /\ Alike(s, Flat(Tells(ran))) /\ Alike(c, Flat(Tells(coreRan)))
    BY DEF IInv, OrderInv, CoreInv, SimsInv, SpikeInv, CoreRight, SpikeRight
  <2> HIDE DEF s, c
  <2>2. IsTrace(s) /\ IsTrace(c) /\ ChangesOf(c) = ChangesOf(s)
    BY <2>1 DEF Alike, Made
  <2>3. Result(s, c) = "PASSED"
    BY <2>2, SameChangesPass
  <2> QED
    BY <2>1, <2>3
<1> QED
  BY <1>1, Invariance, PTL
-----------------------------------------------------------------------------
(* An offset that is added to a pc modulo the width of the pc, and from    *)
(* which the pc is taken again, is the offset modulo that width.           *)
LEMMA OffsetBack ==
  ASSUME NEW v \in Int, NEW at \in 0..(Word - 1)
  PROVE  SintToHex(((v + at) % Word) - at) = v % Word
<1> DEFINE w == Word
           r == (v + at) % w
           q == v % w
           d == (v + at) \div w
           e == v \div w
<1>0. w \in Nat \ {0} /\ at \in 0..(w - 1)
  BY TraceFlowAssumption
<1> HIDE DEF w
<1>1. r \in 0..(w - 1) /\ q \in 0..(w - 1) /\ d \in Int /\ e \in Int
  BY <1>0
<1>2. v + at = w * d + r /\ v = w * e + q
  BY <1>0
<1> HIDE DEF r, q, d, e
<1>3. w * (d - e) = q + at - r
  BY <1>0, <1>1, <1>2
<1>4. d - e < 2
  <2>1. ASSUME d - e >= 2 PROVE FALSE
    <3>1. w * (d - e) >= w * 2
      BY <1>0, <1>1, <2>1
    <3> QED
      BY <1>0, <1>1, <1>3, <3>1
  <2> QED
    BY <1>1, <2>1
<1>5. d - e > -1
  <2>1. ASSUME d - e <= -1 PROVE FALSE
    <3>1. w * (d - e) <= w * (-1)
      BY <1>0, <1>1, <2>1
    <3> QED
      BY <1>0, <1>1, <1>3, <3>1
  <2> QED
    BY <1>1, <2>1
<1>6. q = r - at \/ q = r - at + w
  BY <1>0, <1>1, <1>3, <1>4, <1>5
<1>7. ((r - at) + w) % w = q
  <2>1. CASE q = r - at
    <3>1. (r - at) + w = q + w
      BY <2>1, <1>0, <1>1
    <3> QED
      BY <1>0, <1>1, <3>1
  <2>2. CASE q = r - at + w
    BY <1>0, <1>1, <2>2
  <2> QED
    BY <1>6, <2>1, <2>2
<1> QED
  BY <1>7 DEF SintToHex, w, r, q

(* The tables of convert_pseudo_instr have no name in common, ...          *)
Lasts == Appended \cup Bitmanip
LEMMA TablesApart ==
  /\ \A t \in Lasts, u \in ZeroSecond \cup ZeroFirst \cup Swapped : t[1] # u[1]
  /\ \A t \in ZeroSecond, u \in ZeroFirst \cup Swapped : t[1] # u[1]
  /\ \A t \in ZeroFirst, u \in Swapped : t[1] # u[1]
  /\ \A t \in Lasts \cup ZeroSecond \cup ZeroFirst \cup Swapped :
       t[1] \notin {"nop", "jr", "jal", "jalr", "ret"}
<1>1. \A t \in Lasts, u \in ZeroSecond \cup ZeroFirst \cup Swapped : t[1] # u[1]
  BY DEF Lasts, Appended, Bitmanip, Reversals, Combines, Shuffles, Extensions,
         ZeroSecond, ZeroFirst, Swapped
<1>2. \A t \in ZeroSecond, u \in ZeroFirst \cup Swapped : t[1] # u[1]
  BY DEF ZeroSecond, ZeroFirst, Swapped
<1>3. \A t \in ZeroFirst, u \in Swapped : t[1] # u[1]
  BY DEF ZeroFirst, Swapped
<1>4. \A t \in Lasts \cup ZeroSecond \cup ZeroFirst \cup Swapped :
        t[1] \notin {"nop", "jr", "jal", "jalr", "ret"}
  BY DEF Lasts, Appended, Bitmanip, Reversals, Combines, Shuffles, Extensions,
         ZeroSecond, ZeroFirst, Swapped
<1> QED
  BY <1>1, <1>2, <1>3, <1>4

(* ... and none twice.                                                     *)
LEMMA RowsApart ==
  ASSUME NEW t, NEW u, t[1] = u[1],
         \/ t \in Lasts /\ u \in Lasts
         \/ t \in ZeroSecond /\ u \in ZeroSecond
         \/ t \in ZeroFirst /\ u \in ZeroFirst
         \/ t \in Swapped /\ u \in Swapped
  PROVE  t = u
<1>1. CASE t \in Lasts /\ u \in Lasts
  BY <1>1, SMTT(90) DEF Lasts, Appended, Bitmanip, Reversals, Combines, Shuffles, Extensions
<1>2. CASE t \in ZeroSecond /\ u \in ZeroSecond
  BY <1>2 DEF ZeroSecond
<1>3. CASE t \in ZeroFirst /\ u \in ZeroFirst
  BY <1>3 DEF ZeroFirst
<1>4. CASE t \in Swapped /\ u \in Swapped
  BY <1>4 DEF Swapped
<1> QED
  BY <1>1, <1>2, <1>3, <1>4

(* So each row says what its instruction becomes, and the rest are jumps.  *)
LEMMA CaseOf ==
  ASSUME NEW op, NEW a, NEW d
  PROVE  /\ op = "nop" /\ ~In(Lasts, op) /\ ~In(ZeroSecond, op) /\ ~In(ZeroFirst, op)
              /\ ~In(Swapped, op) => Convert(op, a, d) = Instr("addi", <<Zero, Zero, Imm(0)>>)
         /\ op # "nop" /\ In(Lasts, op) /\ ~In(ZeroSecond, op) /\ ~In(ZeroFirst, op)
              /\ ~In(Swapped, op) =>
              Convert(op, a, d) = Instr(Row(Lasts, op)[2], Append(a, Row(Lasts, op)[3]))
         /\ op # "nop" /\ ~In(Lasts, op) /\ In(ZeroSecond, op) /\ ~In(ZeroFirst, op)
              /\ ~In(Swapped, op) =>
              Convert(op, a, d) = Instr(Row(ZeroSecond, op)[2], <<a[1], Zero>> \o Tail(a))
         /\ op # "nop" /\ ~In(Lasts, op) /\ ~In(ZeroSecond, op) /\ In(ZeroFirst, op)
              /\ ~In(Swapped, op) =>
              Convert(op, a, d) = Instr(Row(ZeroFirst, op)[2], <<Zero>> \o a)
         /\ op # "nop" /\ ~In(Lasts, op) /\ ~In(ZeroSecond, op) /\ ~In(ZeroFirst, op)
              /\ In(Swapped, op) =>
              Convert(op, a, d) = Instr(Row(Swapped, op)[2],
                                        <<a[2], a[1]>> \o SubSeq(a, 3, Len(a)))
         /\ op # "nop" /\ ~In(Lasts, op) /\ ~In(ZeroSecond, op) /\ ~In(ZeroFirst, op)
              /\ ~In(Swapped, op) => Convert(op, a, d) = ConvertJump(op, a, d)
<1> DEFINE x == Append(a, Row(Lasts, op)[3])
           y == <<a[1], Zero>> \o Tail(a)
           z == <<Zero>> \o a
           w == <<a[2], a[1]>> \o SubSeq(a, 3, Len(a))
           v == <<Zero, Zero, Imm(0)>>
<1>1. Convert(op, a, d) =
        CASE op = "nop" -> Instr("addi", v)
          [] In(Lasts, op) -> Instr(Row(Lasts, op)[2], x)
          [] In(ZeroSecond, op) -> Instr(Row(ZeroSecond, op)[2], y)
          [] In(ZeroFirst, op)  -> Instr(Row(ZeroFirst, op)[2], z)
          [] In(Swapped, op)    -> Instr(Row(Swapped, op)[2], w)
          [] OTHER -> ConvertJump(op, a, d)
  BY Zenon DEF Convert, Lasts
<1> HIDE DEF x, y, z, w, v
<1>2. /\ op = "nop" /\ ~In(Lasts, op) /\ ~In(ZeroSecond, op) /\ ~In(ZeroFirst, op)
           /\ ~In(Swapped, op) => Convert(op, a, d) = Instr("addi", v)
      /\ op # "nop" /\ In(Lasts, op) /\ ~In(ZeroSecond, op) /\ ~In(ZeroFirst, op)
           /\ ~In(Swapped, op) => Convert(op, a, d) = Instr(Row(Lasts, op)[2], x)
      /\ op # "nop" /\ ~In(Lasts, op) /\ In(ZeroSecond, op) /\ ~In(ZeroFirst, op)
           /\ ~In(Swapped, op) => Convert(op, a, d) = Instr(Row(ZeroSecond, op)[2], y)
  BY <1>1
<1>3. /\ op # "nop" /\ ~In(Lasts, op) /\ ~In(ZeroSecond, op) /\ In(ZeroFirst, op)
           /\ ~In(Swapped, op) => Convert(op, a, d) = Instr(Row(ZeroFirst, op)[2], z)
      /\ op # "nop" /\ ~In(Lasts, op) /\ ~In(ZeroSecond, op) /\ ~In(ZeroFirst, op)
           /\ In(Swapped, op) => Convert(op, a, d) = Instr(Row(Swapped, op)[2], w)
      /\ op # "nop" /\ ~In(Lasts, op) /\ ~In(ZeroSecond, op) /\ ~In(ZeroFirst, op)
           /\ ~In(Swapped, op) => Convert(op, a, d) = ConvertJump(op, a, d)
  BY <1>1
<1> QED
  BY <1>2, <1>3 DEF x, y, z, w, v

(* What the conversion makes of an instruction, by the table that has it:  *)
(* one operand more, ...                                                   *)
LEMMA LastsConverted ==
  ASSUME NEW t \in Lasts, NEW a, NEW d
  PROVE  Convert(t[1], a, d) = Instr(t[2], Append(a, t[3]))
<1> DEFINE op == t[1]
<1>1. /\ In(Lasts, op) /\ op # "nop"
      /\ ~In(ZeroSecond, op) /\ ~In(ZeroFirst, op) /\ ~In(Swapped, op)
  BY TablesApart DEF In
<1>2. Row(Lasts, op) \in Lasts /\ Row(Lasts, op)[1] = op
  BY <1>1 DEF In, Row
<1>3. Row(Lasts, op) = t
  BY <1>2, RowsApart
<1> HIDE DEF op
<1> QED
  BY <1>1, <1>3, CaseOf DEF op

(* ..., zero as the second, ...                                            *)
LEMMA SecondsConverted ==
  ASSUME NEW t \in ZeroSecond, NEW a, NEW d
  PROVE  Convert(t[1], a, d) = Instr(t[2], <<a[1], Zero>> \o Tail(a))
<1> DEFINE op == t[1]
<1>1. /\ In(ZeroSecond, op) /\ op # "nop"
      /\ ~In(Lasts, op) /\ ~In(ZeroFirst, op) /\ ~In(Swapped, op)
  BY TablesApart DEF In
<1>2. Row(ZeroSecond, op) \in ZeroSecond /\ Row(ZeroSecond, op)[1] = op
  BY <1>1 DEF In, Row
<1>3. Row(ZeroSecond, op) = t
  BY <1>2, RowsApart
<1> HIDE DEF op
<1> QED
  BY <1>1, <1>3, CaseOf DEF op

(* ..., zero as the first, ...                                             *)
LEMMA FirstsConverted ==
  ASSUME NEW t \in ZeroFirst, NEW a, NEW d
  PROVE  Convert(t[1], a, d) = Instr(t[2], <<Zero>> \o a)
<1> DEFINE op == t[1]
<1>1. /\ In(ZeroFirst, op) /\ op # "nop"
      /\ ~In(Lasts, op) /\ ~In(ZeroSecond, op) /\ ~In(Swapped, op)
  BY TablesApart DEF In
<1>2. Row(ZeroFirst, op) \in ZeroFirst /\ Row(ZeroFirst, op)[1] = op
  BY <1>1 DEF In, Row
<1>3. Row(ZeroFirst, op) = t
  BY <1>2, RowsApart
<1> HIDE DEF op
<1> QED
  BY <1>1, <1>3, CaseOf DEF op

(* ..., the first two swapped, ...                                         *)
LEMMA SwappedConverted ==
  ASSUME NEW t \in Swapped, NEW a, NEW d
  PROVE  Convert(t[1], a, d) = Instr(t[2], <<a[2], a[1]>> \o SubSeq(a, 3, Len(a)))
<1> DEFINE op == t[1]
<1>1. /\ In(Swapped, op) /\ op # "nop"
      /\ ~In(Lasts, op) /\ ~In(ZeroSecond, op) /\ ~In(ZeroFirst, op)
  BY TablesApart DEF In
<1>2. Row(Swapped, op) \in Swapped /\ Row(Swapped, op)[1] = op
  BY <1>1 DEF In, Row
<1>3. Row(Swapped, op) = t
  BY <1>2, RowsApart
<1> HIDE DEF op
<1> QED
  BY <1>1, <1>3, CaseOf DEF op

(* ..., or, in none of them, a nop or a jump.                              *)
LEMMA RestConverted ==
  ASSUME NEW op, NEW a, NEW d
  PROVE  \/ \E t \in Lasts \cup ZeroSecond \cup ZeroFirst \cup Swapped : op = t[1]
         \/ /\ op = "nop" => Convert(op, a, d) = Instr("addi", <<Zero, Zero, Imm(0)>>)
            /\ op # "nop" => Convert(op, a, d) = ConvertJump(op, a, d)
<1> SUFFICES ASSUME \A t \in Lasts \cup ZeroSecond \cup ZeroFirst \cup Swapped : op # t[1]
             PROVE  /\ op = "nop" => Convert(op, a, d) = Instr("addi", <<Zero, Zero, Imm(0)>>)
                    /\ op # "nop" => Convert(op, a, d) = ConvertJump(op, a, d)
  OBVIOUS
<1>1. ~In(Lasts, op) /\ ~In(ZeroSecond, op) /\ ~In(ZeroFirst, op) /\ ~In(Swapped, op)
  BY DEF In
<1> QED
  BY <1>1, CaseOf

(* Sequences of one, one behind the other.                                 *)
LEMMA TwoIs ==
  ASSUME NEW x, NEW y
  PROVE  <<x>> \o <<y>> = <<x, y>>
<1> DEFINE S == {x, y}
           s == <<x>>
           t == <<y>>
           u == s \o t
           r == <<x, y>>
<1>1. s \in Seq(S) /\ t \in Seq(S) /\ Len(s) = 1 /\ Len(t) = 1 /\ s[1] = x /\ t[1] = y
  OBVIOUS
<1>2. r \in Seq(S) /\ Len(r) = 2 /\ r[1] = x /\ r[2] = y
  OBVIOUS
<1> HIDE DEF s, t, S, r
<1>3. u \in Seq(S) /\ Len(u) = 2 /\ u[1] = x /\ u[2] = y
  BY <1>1, ConcatProperties
<1> HIDE DEF u
<1>4. \A k \in 1..2 : u[k] = r[k]
  BY <1>2, <1>3
<1>5. u = r
  BY <1>2, <1>3, <1>4, SeqEqual
<1> QED
  BY <1>5 DEF u, r, s, t

(* A jump keeps its offset, and gets x0 or ra where it names no register;  *)
(* nothing else becomes a jal.                                             *)
LEMMA OnlyJumps ==
  ASSUME NEW op, NEW a, NEW d, Convert(op, a, d).op = "jal"
  PROVE  op \in {"j", "jal"}
<1> DEFINE T == Lasts \cup ZeroSecond \cup ZeroFirst \cup Swapped
<1>1. \A o, c : Instr(o, c).op = o
  BY DEF Instr
<1>2. ASSUME NEW t \in T PROVE Convert(t[1], a, d).op = t[2]
  <2>1. CASE t \in Lasts
    BY <2>1, <1>1, LastsConverted
  <2>2. CASE t \in ZeroSecond
    <3>1. Convert(t[1], a, d) = Instr(t[2], <<a[1], Zero>> \o Tail(a))
      BY <2>2, SecondsConverted
    <3> QED
      BY <1>1, <3>1
  <2>3. CASE t \in ZeroFirst
    BY <2>3, <1>1, FirstsConverted
  <2>4. CASE t \in Swapped
    <3>1. Convert(t[1], a, d) = Instr(t[2], <<a[2], a[1]>> \o SubSeq(a, 3, Len(a)))
      BY <2>4, SwappedConverted
    <3> QED
      BY <1>1, <3>1
  <2> QED
    BY <2>1, <2>2, <2>3, <2>4
<1>3. \A t \in T : t[2] = "jal" => t[1] = "j"
  BY DEF Lasts, Appended, Bitmanip, Reversals, Combines, Shuffles, Extensions,
         ZeroSecond, ZeroFirst, Swapped
<1>4. CASE \E t \in T : op = t[1]
  BY <1>4, <1>2, <1>3
<1>5. CASE op = "nop" /\ Convert(op, a, d) = Instr("addi", <<Zero, Zero, Imm(0)>>)
  BY <1>5, <1>1
<1>6. CASE Convert(op, a, d) = ConvertJump(op, a, d)
  BY <1>6 DEF ConvertJump, Instr
<1> QED
  BY RestConverted, <1>4, <1>5, <1>6

(* What j and jal become, with the operands that they can have.            *)
LEMMA JumpsConverted ==
  /\ \A x, d : Convert("j", <<x>>, d) = Instr("jal", <<Zero, x>>)
  /\ \A x, d : Convert("jal", <<x>>, d) = Instr("jal", <<Reg("ra"), x>>)
  /\ \A x, y, d : Convert("jal", <<x, y>>, d) = Instr("jal", <<x, y>>)
<1> DEFINE T == Lasts \cup ZeroSecond \cup ZeroFirst \cup Swapped
<1>1. ASSUME NEW x, NEW d PROVE Convert("j", <<x>>, d) = Instr("jal", <<Zero, x>>)
  <2> DEFINE t == <<"j", "jal">>
  <2>2. t \in ZeroFirst /\ t[1] = "j" /\ t[2] = "jal"
    BY DEF ZeroFirst
  <2> HIDE DEF t
  <2>3. Convert("j", <<x>>, d) = Instr("jal", <<Zero>> \o <<x>>)
    BY <2>2, FirstsConverted
  <2> QED
    BY <2>3, TwoIs
<1>2. ASSUME NEW a, NEW d PROVE Convert("jal", a, d) = ConvertJump("jal", a, d)
  <2>1. ~\E t \in T : "jal" = t[1]
    BY TablesApart
  <2> HIDE DEF T
  <2>2. \/ \E t \in T : "jal" = t[1]
        \/ "jal" # "nop" => Convert("jal", a, d) = ConvertJump("jal", a, d)
    BY RestConverted DEF T
  <2> QED
    BY <2>1, <2>2
<1>3. ASSUME NEW x, NEW d PROVE ConvertJump("jal", <<x>>, d) = Instr("jal", <<Reg("ra"), x>>)
  <2>1. <<Reg("ra")>> \o <<x>> = <<Reg("ra"), x>> /\ Len(<<x>>) = 1
    BY TwoIs
  <2> QED
    BY <2>1 DEF ConvertJump
<1>4. ASSUME NEW x, NEW y, NEW d PROVE Convert("jal", <<x, y>>, d) = Instr("jal", <<x, y>>)
  <2> DEFINE two == <<x, y>>
  <2>1. Len(two) # 1
    OBVIOUS
  <2> HIDE DEF two
  <2>2. ConvertJump("jal", two, d) = Instr("jal", two)
    BY <2>1 DEF ConvertJump
  <2>3. Convert("jal", two, d) = Instr("jal", two)
    BY <1>2, <2>2
  <2> QED
    BY <2>3 DEF two
<1>5. ASSUME NEW x, NEW d PROVE Convert("jal", <<x>>, d) = Instr("jal", <<Reg("ra"), x>>)
  BY <1>2, <1>3
<1> QED
  BY <1>1, <1>4, <1>5, Zenon

(* The last of one operand or two, replaced.                               *)
LEMMA LastSet ==
  ASSUME NEW a, a = <<a[1]>> \/ a = <<a[1], a[2]>>, NEW c
  PROVE  /\ Len(a) \in 1..2 /\ Len([a EXCEPT ![Len(a)] = c]) = Len(a)
         /\ [a EXCEPT ![Len(a)] = c][Len(a)] = c
         /\ [a EXCEPT ![Len(a)] = c] = IF Len(a) = 1 THEN <<c>> ELSE <<a[1], c>>
<1> DEFINE S == {a[1], a[2], c}
           b == [a EXCEPT ![Len(a)] = c]
           r == IF Len(a) = 1 THEN <<c>> ELSE <<a[1], c>>
<1>1. CASE a = <<a[1]>>
  <2> DEFINE x == a[1]
             y == <<x>>
  <2>1. y \in Seq(S) /\ Len(y) = 1
    OBVIOUS
  <2>2. a = y
    BY <1>1
  <2> HIDE DEF y
  <2>3. a \in Seq(S) /\ Len(a) = 1
    BY <2>1, <2>2
  <2>4. <<c>> \in Seq(S) /\ Len(<<c>>) = 1 /\ <<c>>[1] = c
    OBVIOUS
  <2> HIDE DEF S, r
  <2> QED
    BY <2>3, <2>4, SeqEqual, ExceptSeq DEF r, S
<1>2. CASE a = <<a[1], a[2]>>
  <2> DEFINE x == a[1]
             x2 == a[2]
             y == <<x, x2>>
             z == <<x, c>>
  <2>1. y \in Seq(S) /\ Len(y) = 2 /\ z \in Seq(S) /\ Len(z) = 2 /\ z[1] = x /\ z[2] = c
    OBVIOUS
  <2>2. a = y
    BY <1>2
  <2> HIDE DEF y
  <2>3. a \in Seq(S) /\ Len(a) = 2 /\ c \in S
    BY <2>1, <2>2
  <2> HIDE DEF S, z
  <2>4. b \in Seq(S) /\ Len(b) = 2 /\ b[1] = x /\ b[2] = c
    <3>1. b = [a EXCEPT ![2] = c] /\ 2 \in 1..Len(a)
      BY <2>3
    <3>2. /\ [a EXCEPT ![2] = c] \in Seq(S) /\ Len([a EXCEPT ![2] = c]) = Len(a)
          /\ \A k \in 1..Len(a) : [a EXCEPT ![2] = c][k] = IF k = 2 THEN c ELSE a[k]
      BY <2>3, LenProperties
    <3> QED
      BY <2>3, <3>1, <3>2
  <2>5. \A k \in 1..2 : b[k] = z[k]
    BY SMTT(40), <2>1, <2>4
  <2> HIDE DEF b
  <2>6. b = z
    BY <2>1, <2>4, <2>5, SeqEqual
  <2>7. z = r
    BY <2>3 DEF z, r
  <2> QED
    BY <2>3, <2>4, <2>6, <2>7 DEF b
<1> QED
  BY <1>1, <1>2

(* The offset of an instruction goes into the log as an address, and comes *)
(* out of it modulo the width of the pc.                                   *)
LEMMA OffsetRead ==
  ASSUME NEW i, i.op \in PcRelative \ TwoBranches, i.pc \in 0..(Word - 1),
         i.args = <<i.args[1]>> \/ i.args = <<i.args[1], i.args[2]>>,
         i.args[Len(i.args)].v \in Int
  PROVE  Relative(i, Addressed(i)) = [i.args EXCEPT ![Len(i.args)] = Imm(i.args[Len(i.args)].v % Word)]
<1> DEFINE a == i.args
           m == Len(a)
           v == a[m].v
           b == [a EXCEPT ![m] = Imm((v + i.pc) % Word)]
<1>1. i.op \in PcRelative /\ i.op \notin {"bgt", "ble", "bgtu", "bleu"}
  BY DEF TwoBranches
<1>2. Addressed(i) = b
  BY <1>1 DEF Addressed, Shift
<1>3. v \in Int /\ i.pc \in 0..(Word - 1)
  OBVIOUS
<1>4. Len(b) = m /\ b[m] = Imm((v + i.pc) % Word)
  BY LastSet
<1> HIDE DEF b
<1>5. Relative(i, b) = [b EXCEPT ![m] = Imm(SintToHex(@.v - i.pc))]
  BY <1>1, <1>4 DEF Relative
<1>6. SintToHex(b[m].v - i.pc) = v % Word
  <2>0. \A z : Imm(z).v = z
    BY DEF Imm
  <2>1. b[m].v = (v + i.pc) % Word
    BY <1>4, <2>0
  <2> QED
    BY <1>3, <2>1, OffsetBack
<1> DEFINE c == Imm(v % Word)
<1>7. Relative(i, b) = [b EXCEPT ![m] = c]
  BY <1>5, <1>6
<1> HIDE DEF c
<1>8. [b EXCEPT ![m] = c] = [a EXCEPT ![m] = c]
  BY DEF b
<1> QED
  BY <1>2, <1>7, <1>8 DEF c

(* What a jump of a program names, and what the logs make of it.           *)
JalReg(i) == IF i.op = "j" THEN Zero ELSE IF Len(i.args) = 1 THEN Reg("ra") ELSE i.args[1]
Offset(i) == i.args[Len(i.args)]

(* The operands of a jump that runs, and the register it writes.           *)
LEMMA JumpShape ==
  ASSUME NEW i, OfProgram(i), i.op \in {"j", "jal"}
  PROVE  /\ i.args = <<i.args[1]>> \/ (i.op = "jal" /\ i.args = <<i.args[1], i.args[2]>>)
         /\ Offset(i).v \in Int /\ i.pc \in 0..(Word - 1)
         /\ i.op = "jal" /\ i.upd # << >> => Reg(GprToAbi(i.upd[1].rd)) = JalReg(i)
<1>1. PICK p \in Programs : \E k \in 1..Len(p) : i = [p[k] EXCEPT !.pc = i.pc]
  BY DEF OfProgram
<1>2. PICK k \in 1..Len(p) : i = [p[k] EXCEPT !.pc = i.pc]
  BY <1>1
<1> DEFINE q == p[k]
<1>3. IsInstruction(q)
  BY TraceFlowAssumption
<1>4. i = [q EXCEPT !.pc = i.pc]
  BY <1>2
<1> HIDE DEF q
<1>5. i.op = q.op /\ i.args = q.args /\ i.upd = q.upd
  BY <1>3, <1>4 DEF IsInstruction
<1>6. /\ q.args = <<q.args[1]>> \/ (q.op = "jal" /\ q.args = <<q.args[1], q.args[2]>>)
      /\ q.args[Len(q.args)].v \in Int
      /\ q.op = "jal" /\ q.upd # << >> =>
           Reg(GprToAbi(q.upd[1].rd)) = IF Len(q.args) = 1 THEN Reg("ra") ELSE q.args[1]
  BY <1>3, <1>5 DEF IsInstruction
<1>7. i.op # "j" \/ i.op # "jal"
  OBVIOUS
<1> QED
  BY <1>5, <1>6, <1>7 DEF OfProgram, Offset, JalReg

(* What a jump's offset becomes that way.                                  *)
LEMMA JumpRead ==
  ASSUME NEW i, OfProgram(i), i.op \in {"j", "jal"}
  PROVE  Relative(i, Addressed(i)) = [i.args EXCEPT ![Len(i.args)] = Imm(Offset(i).v % Word)]
<1>1. i.op \in PcRelative \ TwoBranches
  BY DEF PcRelative, TwoBranches
<1> QED
  BY <1>1, JumpShape, OffsetRead DEF Offset

(* What the three CSVs name for a jump.                                    *)
LEMMA JumpNames ==
  ASSUME NEW i, OfProgram(i), i.op \in {"j", "jal"}
  PROVE  /\ SpikeName(i) = Instr("jal", <<JalReg(i), Offset(i)>>)
         /\ OvpInstr(i) = Instr("jal", <<JalReg(i), Imm(Offset(i).v % Word)>>)
         /\ i.op = "jal" /\ i.upd # << >> =>
              CoreOperand(i) = <<JalReg(i), Imm(Offset(i).v % Word)>>
<1> DEFINE a == i.args
           o == Imm(Offset(i).v % Word)
           b == [a EXCEPT ![Len(a)] = o]
<1>1. Relative(i, Addressed(i)) = b
  BY JumpRead
<1>2. OvpInstr(i) = Convert(i.op, b, i.digit)
  BY <1>1 DEF OvpInstr
<1>3. i.op = "jal" /\ i.upd # << >> => CoreOperand(i) = <<JalReg(i), b[Len(a)]>>
  BY <1>1, JumpShape DEF CoreOperand
<1> HIDE DEF o
<1>4. CASE a = <<a[1]>>
  <2> DEFINE x == a[1]
  <2>1. Len(a) = 1 /\ a = <<x>>
    BY <1>4
  <2>2. b = <<o>> /\ b[Len(a)] = o
    BY <2>1, LastSet
  <2>3. Offset(i) = x /\ JalReg(i) = IF i.op = "j" THEN Zero ELSE Reg("ra")
    BY <2>1 DEF Offset, JalReg
  <2> HIDE DEF x, b
  <2> DEFINE r == IF i.op = "j" THEN Zero ELSE Reg("ra")
  <2>4. \A z : Convert(i.op, <<z>>, i.digit) = Instr("jal", <<r, z>>)
    <3>1. CASE i.op = "j"
      BY <3>1, JumpsConverted
    <3>2. CASE i.op = "jal"
      BY <3>2, JumpsConverted
    <3> QED
      BY <3>1, <3>2
  <2>5. SpikeName(i) = Instr("jal", <<JalReg(i), Offset(i)>>)
    BY <2>1, <2>3, <2>4 DEF SpikeName
  <2>6. OvpInstr(i) = Instr("jal", <<JalReg(i), o>>)
    BY <1>2, <2>2, <2>3, <2>4
  <2> QED
    BY <1>3, <2>2, <2>5, <2>6 DEF o
<1>5. CASE i.op = "jal" /\ a = <<a[1], a[2]>>
  <2> DEFINE x == a[1]
             y == a[2]
  <2>1. i.op = "jal" /\ Len(a) = 2 /\ a = <<x, y>>
    BY <1>5
  <2>2. b = <<x, o>> /\ b[Len(a)] = o
    BY <1>5, <2>1, LastSet
  <2>3. Offset(i) = y /\ JalReg(i) = x
    BY <2>1 DEF Offset, JalReg
  <2> HIDE DEF x, y, b
  <2>4. \A p, q, d : Convert("jal", <<p, q>>, d) = Instr("jal", <<p, q>>)
    BY ONLY JumpsConverted
  <2>5. SpikeName(i) = Instr("jal", <<JalReg(i), Offset(i)>>)
    BY <2>1, <2>3, <2>4 DEF SpikeName
  <2>6. OvpInstr(i) = Instr("jal", <<JalReg(i), o>>)
    BY <1>2, <2>1, <2>2, <2>3, <2>4
  <2> QED
    BY <1>3, <2>2, <2>5, <2>6 DEF o
<1> QED
  BY <1>4, <1>5, JumpShape

(* A row of a full CSV of Spike, or of OVPsim's CSV, names what ran.       *)
LEMMA RowsName ==
  ASSUME IInv
  PROVE  /\ full => \A k \in DOMAIN spike.csv : k \in 1..Len(ran) /\ NamesSpike(spike.csv[k], ran[k].i)
         /\ \A k \in DOMAIN ovp.csv : k \in 1..Len(ran) /\ NamesOvp(ovp.csv[k], ran[k].i)
<1>1. Len(ran) \in Nat
  BY DEF IInv, TypeOK, IsSeq
<1>2. ASSUME full, NEW k \in DOMAIN spike.csv
      PROVE  k \in 1..Len(ran) /\ NamesSpike(spike.csv[k], ran[k].i)
  <2>1. /\ SpikeNames(SpikeCsv(spike, full), ran)
        /\ Starts(spike.csv, SpikeCsv(spike, full))
    BY <1>2 DEF IInv, SimsInv, SpikeInv, SpikeRight
  <2>2. k \in 1..Len(spike.csv) /\ Len(spike.csv) \in Nat /\ Len(spike.csv) <= Len(ran)
    BY <2>1, <1>2, DomainIs DEF Starts, SpikeNames, IsSeq
  <2>3. k \in 1..Len(ran)
    BY <1>1, <2>2
  <2> QED
    BY <2>1, <2>2, <2>3 DEF Starts, SpikeNames
<1>3. ASSUME NEW k \in DOMAIN ovp.csv
      PROVE  k \in 1..Len(ran) /\ NamesOvp(ovp.csv[k], ran[k].i)
  <2>1. OvpNames(OvpCsv(ovp), ran) /\ Starts(ovp.csv, OvpCsv(ovp))
    BY DEF IInv, SimsInv, OvpInv, OvpRight
  <2>2. k \in 1..Len(ovp.csv) /\ Len(ovp.csv) \in Nat /\ Len(ovp.csv) <= Len(ran)
    BY <2>1, <1>3, DomainIs DEF Starts, OvpNames, IsSeq
  <2>3. k \in 1..Len(ran)
    BY <1>1, <2>2
  <2> QED
    BY <2>1, <2>2, <2>3 DEF Starts, OvpNames
<1> QED
  BY <1>2, <1>3

(* The CSVs of the core, of Spike with full_trace and of OVPsim agree on   *)
(* jal, its register and its offset modulo the width of the pc, for a      *)
(* program that does not change its code.                                  *)
THEOREM JalsAgree == Spec => []OffsetsAgree
<1>1. IInv => OffsetsAgree
  <2> SUFFICES ASSUME IInv, full, CodeStays,
                      NEW s \in Jals(spike.csv), NEW e \in Jals(core.csv) \cup Jals(ovp.csv),
                      s.pc = e.pc
               PROVE  e.operand = <<s.operand[1], Imm(s.operand[2].v % Word)>>
    BY DEF OffsetsAgree
  <2>1. s.op = "jal" /\ e.op = "jal"
    BY DEF Jals
  <2>2. PICK k \in 1..Len(ran) : NamesSpike(s, ran[k].i)
    BY RowsName DEF Jals
  <2>3. PICK m \in 1..Len(ran) : \/ NamesCore(e, ran[m].i) /\ ran[m].i.upd # << >>
                                 \/ NamesOvp(e, ran[m].i)
    <3>1. CASE e \in Jals(core.csv)
      <4>1. CoreNames(core.csv, coreRan) /\ IsSeq(core.csv) /\ Printed(coreRan, ran)
        BY DEF IInv, CoreInv, CoreRight, HistoryInv
      <4>2. PICK j \in 1..Len(coreRan) : Wrote(coreRan[j]) /\ NamesCore(e, coreRan[j].i)
        BY <3>1, <4>1, DomainIs DEF Jals, CoreNames
      <4> QED
        BY <4>1, <4>2 DEF Printed
    <3>2. CASE e \in Jals(ovp.csv)
      BY <3>2, RowsName DEF Jals
    <3> QED
      BY <3>1, <3>2
  <2> DEFINE i == ran[k].i
             j == ran[m].i
  <2>4. OfProgram(i) /\ OfProgram(j)
    BY DEF IInv, HistoryInv, AllOfProgram
  <2>5. i.op = j.op /\ i.args = j.args
    <3>1. DOMAIN ran = 1..Len(ran)
      BY DomainIs DEF IInv, TypeOK
    <3>2. i.pc = j.pc
      BY <2>2, <2>3 DEF NamesSpike, NamesCore, NamesOvp
    <3> QED
      BY <3>1, <3>2 DEF CodeStays
  <2> HIDE DEF i, j
  <2>6. Name(s) = SpikeName(i) /\ (\/ Name(e) = CoreName(j) /\ j.upd # << >>
                                   \/ Name(e) = OvpInstr(j))
    BY <2>2, <2>3 DEF NamesSpike, NamesCore, NamesOvp, i, j
  <2>7. i.op \in {"j", "jal"}
    <3>1. Convert(i.op, i.args, i.digit).op = "jal"
      BY <2>1, <2>6 DEF Name, SpikeName, Instr
    <3> QED
      BY <3>1, OnlyJumps
  <2>8. JalReg(i) = JalReg(j) /\ Offset(i) = Offset(j)
    BY <2>5 DEF JalReg, Offset
  <2>9. s.operand = <<JalReg(i), Offset(i)>>
    BY <2>4, <2>6, <2>7, JumpNames DEF Name, Instr
  <2>10. e.operand = <<JalReg(j), Imm(Offset(j).v % Word)>>
    <3>1. CASE Name(e) = CoreName(j) /\ j.upd # << >>
      <4>1. j.op = "jal" /\ e.operand = CoreOperand(j)
        BY <2>1, <3>1 DEF Name, CoreName, Instr
      <4> QED
        BY <2>4, <3>1, <4>1, JumpNames
    <3>2. CASE Name(e) = OvpInstr(j)
      BY <2>4, <2>5, <2>7, <3>2, JumpNames DEF Name, Instr
    <3> QED
      BY <2>6, <3>1, <3>2
  <2> QED
    BY <2>8, <2>9, <2>10
<1> QED
  BY <1>1, Invariance, PTL
-----------------------------------------------------------------------------
(* The bits of a place, and their weights.                                 *)
LEMMA Powers == 2^0 = 1 /\ 2^1 = 2 /\ 2^2 = 4 /\ 2^3 = 8 /\ 2^4 = 16 /\ 2^5 = 32
OBVIOUS

(* A place from its five bits, the lowest first; every place has them, ... *)
OfBits(a, b, c, d, e) == a + 2 * b + 4 * c + 8 * d + 16 * e
LEMMA Digits ==
  ASSUME NEW i \in 0..31
  PROVE  \E a, b, c, d, e \in 0..1 : i = OfBits(a, b, c, d, e)
<1> DEFINE a == i % 2
           p == i \div 2
           b == p % 2
           q == p \div 2
           c == q % 2
           r == q \div 2
           d == r % 2
           e == r \div 2
<1>1. a \in 0..1 /\ p \in 0..15 /\ i = 2 * p + a
  OBVIOUS
<1> HIDE DEF a, p
<1>2. b \in 0..1 /\ q \in 0..7 /\ p = 2 * q + b
  BY <1>1
<1> HIDE DEF b, q
<1>3. c \in 0..1 /\ r \in 0..3 /\ q = 2 * r + c
  BY <1>2
<1> HIDE DEF c, r
<1>4. d \in 0..1 /\ e \in 0..1 /\ r = 2 * e + d
  BY <1>3
<1> HIDE DEF d, e
<1>5. i = OfBits(a, b, c, d, e)
  BY <1>1, <1>2, <1>3, <1>4 DEF OfBits
<1> QED
  BY <1>1, <1>2, <1>3, <1>4, <1>5

(* ..., and they are what division takes out of it.                        *)
LEMMA DigitsAre ==
  ASSUME NEW a \in 0..1, NEW b \in 0..1, NEW c \in 0..1, NEW d \in 0..1, NEW e \in 0..1,
         NEW i, i = OfBits(a, b, c, d, e)
  PROVE  /\ i \div 2 = b + 2 * c + 4 * d + 8 * e /\ i % 2 = a
         /\ i \div 4 = c + 2 * d + 4 * e /\ i % 4 = a + 2 * b
         /\ i \div 8 = d + 2 * e /\ i % 8 = a + 2 * b + 4 * c
         /\ i \div 16 = e /\ i % 16 = a + 2 * b + 4 * c + 8 * d
         /\ i \div 32 = 0 /\ i % 32 = i /\ i \div 1 = i /\ i % 1 = 0 /\ i \in 0..31
BY DEF OfBits

(* They are what Bit takes out of it, too.                                 *)
LEMMA BitsAre ==
  ASSUME NEW a \in 0..1, NEW b \in 0..1, NEW c \in 0..1, NEW d \in 0..1, NEW e \in 0..1
  PROVE  LET i == OfBits(a, b, c, d, e)
         IN /\ Bit(i, 0) = a /\ Bit(i, 1) = b /\ Bit(i, 2) = c /\ Bit(i, 3) = d /\ Bit(i, 4) = e
<1> DEFINE i == OfBits(a, b, c, d, e)
<1>1. /\ i \div 1 = i /\ i % 2 = a /\ i \div 2 = b + 2 * (c + 2 * d + 4 * e)
      /\ i \div 4 = c + 2 * (d + 2 * e) /\ i \div 8 = d + 2 * e /\ i \div 16 = e
  BY DigitsAre
<1> HIDE DEF i
<1>2. Bit(i, 0) = a /\ Bit(i, 1) = b /\ Bit(i, 2) = c /\ Bit(i, 3) = d /\ Bit(i, 4) = e
  BY <1>1, Powers DEF Bit
<1> QED
  BY <1>2 DEF i

(* The units and groups that reversals and or-combines work on.            *)
Sizes == {<<1, 2>>, <<2, 4>>, <<1, 4>>, <<4, 8>>, <<2, 8>>, <<1, 8>>, <<8, 16>>, <<4, 16>>, <<2, 16>>,
          <<1, 16>>, <<16, 32>>, <<8, 32>>, <<4, 32>>, <<2, 32>>, <<1, 32>>}

(* The exclusive or of two places, bit by bit.                             *)
LEMMA XorIs ==
  ASSUME NEW a \in 0..1, NEW b \in 0..1, NEW c \in 0..1, NEW d \in 0..1, NEW e \in 0..1,
         NEW p \in 0..1, NEW q \in 0..1, NEW r \in 0..1, NEW s \in 0..1, NEW t \in 0..1
  PROVE  Xor(OfBits(a, b, c, d, e), OfBits(p, q, r, s, t)) =
           OfBits((a + p) % 2, (b + q) % 2, (c + r) % 2, (d + s) % 2, (e + t) % 2)
<1> DEFINE i == OfBits(a, b, c, d, e)
           k == OfBits(p, q, r, s, t)
<1>1. /\ i \div 1 = i /\ i \div 2 = b + 2 * c + 4 * d + 8 * e /\ i \div 4 = c + 2 * d + 4 * e
      /\ i \div 8 = d + 2 * e /\ i \div 16 = e
      /\ k \div 1 = k /\ k \div 2 = q + 2 * r + 4 * s + 8 * t /\ k \div 4 = r + 2 * s + 4 * t
      /\ k \div 8 = s + 2 * t /\ k \div 16 = t
  BY DigitsAre
<1>2. i = a + 2 * (b + 2 * c + 4 * d + 8 * e) /\ k = p + 2 * (q + 2 * r + 4 * s + 8 * t)
  BY DEF OfBits
<1> HIDE DEF i, k
<1>3. Xor(i, k) = ((i + k) % 2) + 2 * ((i \div 2 + k \div 2) % 2) + 4 * ((i \div 4 + k \div 4) % 2)
                  + 8 * ((i \div 8 + k \div 8) % 2) + 16 * ((i \div 16 + k \div 16) % 2)
  BY <1>1, Powers DEF Xor
<1>4. /\ (i + k) % 2 = (a + p) % 2 /\ (i \div 2 + k \div 2) % 2 = (b + q) % 2
      /\ (i \div 4 + k \div 4) % 2 = (c + r) % 2 /\ (i \div 8 + k \div 8) % 2 = (d + s) % 2
  BY <1>1, <1>2
<1> QED
  BY <1>1, <1>3, <1>4 DEF i, k, OfBits

(* grevi with g - u reverses the units of u bits in groups of g: it flips  *)
(* the bits of the number of a unit in its group.                          *)
LEMMA FlipIs ==
  ASSUME NEW i \in 0..31, NEW u, NEW g, <<u, g>> \in Sizes
  PROVE  Xor(i, g - u) = MovedTo(i, u, g, Backwards)
<1>1. PICK a \in 0..1, b \in 0..1, c \in 0..1, d \in 0..1, e \in 0..1 : i = OfBits(a, b, c, d, e)
  BY Digits
<1>2. \A p, q, r, s, t \in 0..1 : Xor(i, OfBits(p, q, r, s, t)) =
        OfBits((a + p) % 2, (b + q) % 2, (c + r) % 2, (d + s) % 2, (e + t) % 2)
  BY <1>1, XorIs
<1>3. Xor(i, 1) = MovedTo(i, 1, 2, Backwards)
  <2>1. OfBits(1, 0, 0, 0, 0) = 1
    BY DEF OfBits
  <2>2. Xor(i, 1) = OfBits(1 - a, b, c, d, e)
    BY <1>2, <2>1
  <2> QED
    BY <1>1, <2>2, DigitsAre DEF MovedTo, Backwards, OfBits
<1>4. Xor(i, 2) = MovedTo(i, 2, 4, Backwards)
  <2>1. OfBits(0, 1, 0, 0, 0) = 2
    BY DEF OfBits
  <2>2. Xor(i, 2) = OfBits(a, 1 - b, c, d, e)
    BY <1>2, <2>1
  <2> QED
    BY <1>1, <2>2, DigitsAre DEF MovedTo, Backwards, OfBits
<1>5. Xor(i, 3) = MovedTo(i, 1, 4, Backwards)
  <2>1. OfBits(1, 1, 0, 0, 0) = 3
    BY DEF OfBits
  <2>2. Xor(i, 3) = OfBits(1 - a, 1 - b, c, d, e)
    BY <1>2, <2>1
  <2> QED
    BY <1>1, <2>2, DigitsAre DEF MovedTo, Backwards, OfBits
<1>6. Xor(i, 4) = MovedTo(i, 4, 8, Backwards)
  <2>1. OfBits(0, 0, 1, 0, 0) = 4
    BY DEF OfBits
  <2>2. Xor(i, 4) = OfBits(a, b, 1 - c, d, e)
    BY <1>2, <2>1
  <2> QED
    BY <1>1, <2>2, DigitsAre DEF MovedTo, Backwards, OfBits
<1>7. Xor(i, 6) = MovedTo(i, 2, 8, Backwards)
  <2>1. OfBits(0, 1, 1, 0, 0) = 6
    BY DEF OfBits
  <2>2. Xor(i, 6) = OfBits(a, 1 - b, 1 - c, d, e)
    BY <1>2, <2>1
  <2> QED
    BY <1>1, <2>2, DigitsAre DEF MovedTo, Backwards, OfBits
<1>8. Xor(i, 7) = MovedTo(i, 1, 8, Backwards)
  <2>1. OfBits(1, 1, 1, 0, 0) = 7
    BY DEF OfBits
  <2>2. Xor(i, 7) = OfBits(1 - a, 1 - b, 1 - c, d, e)
    BY <1>2, <2>1
  <2> QED
    BY <1>1, <2>2, DigitsAre DEF MovedTo, Backwards, OfBits
<1>9. Xor(i, 8) = MovedTo(i, 8, 16, Backwards)
  <2>1. OfBits(0, 0, 0, 1, 0) = 8
    BY DEF OfBits
  <2>2. Xor(i, 8) = OfBits(a, b, c, 1 - d, e)
    BY <1>2, <2>1
  <2> QED
    BY <1>1, <2>2, DigitsAre DEF MovedTo, Backwards, OfBits
<1>10. Xor(i, 12) = MovedTo(i, 4, 16, Backwards)
  <2>1. OfBits(0, 0, 1, 1, 0) = 12
    BY DEF OfBits
  <2>2. Xor(i, 12) = OfBits(a, b, 1 - c, 1 - d, e)
    BY <1>2, <2>1
  <2> QED
    BY <1>1, <2>2, DigitsAre DEF MovedTo, Backwards, OfBits
<1>11. Xor(i, 14) = MovedTo(i, 2, 16, Backwards)
  <2>1. OfBits(0, 1, 1, 1, 0) = 14
    BY DEF OfBits
  <2>2. Xor(i, 14) = OfBits(a, 1 - b, 1 - c, 1 - d, e)
    BY <1>2, <2>1
  <2> QED
    BY <1>1, <2>2, DigitsAre DEF MovedTo, Backwards, OfBits
<1>12. Xor(i, 15) = MovedTo(i, 1, 16, Backwards)
  <2>1. OfBits(1, 1, 1, 1, 0) = 15
    BY DEF OfBits
  <2>2. Xor(i, 15) = OfBits(1 - a, 1 - b, 1 - c, 1 - d, e)
    BY <1>2, <2>1
  <2> QED
    BY <1>1, <2>2, DigitsAre DEF MovedTo, Backwards, OfBits
<1>13. Xor(i, 16) = MovedTo(i, 16, 32, Backwards)
  <2>1. OfBits(0, 0, 0, 0, 1) = 16
    BY DEF OfBits
  <2>2. Xor(i, 16) = OfBits(a, b, c, d, 1 - e)
    BY <1>2, <2>1
  <2> QED
    BY <1>1, <2>2, DigitsAre DEF MovedTo, Backwards, OfBits
<1>14. Xor(i, 24) = MovedTo(i, 8, 32, Backwards)
  <2>1. OfBits(0, 0, 0, 1, 1) = 24
    BY DEF OfBits
  <2>2. Xor(i, 24) = OfBits(a, b, c, 1 - d, 1 - e)
    BY <1>2, <2>1
  <2> QED
    BY <1>1, <2>2, DigitsAre DEF MovedTo, Backwards, OfBits
<1>15. Xor(i, 28) = MovedTo(i, 4, 32, Backwards)
  <2>1. OfBits(0, 0, 1, 1, 1) = 28
    BY DEF OfBits
  <2>2. Xor(i, 28) = OfBits(a, b, 1 - c, 1 - d, 1 - e)
    BY <1>2, <2>1
  <2> QED
    BY <1>1, <2>2, DigitsAre DEF MovedTo, Backwards, OfBits
<1>16. Xor(i, 30) = MovedTo(i, 2, 32, Backwards)
  <2>1. OfBits(0, 1, 1, 1, 1) = 30
    BY DEF OfBits
  <2>2. Xor(i, 30) = OfBits(a, 1 - b, 1 - c, 1 - d, 1 - e)
    BY <1>2, <2>1
  <2> QED
    BY <1>1, <2>2, DigitsAre DEF MovedTo, Backwards, OfBits
<1>17. Xor(i, 31) = MovedTo(i, 1, 32, Backwards)
  <2>1. OfBits(1, 1, 1, 1, 1) = 31
    BY DEF OfBits
  <2>2. Xor(i, 31) = OfBits(1 - a, 1 - b, 1 - c, 1 - d, 1 - e)
    BY <1>2, <2>1
  <2> QED
    BY <1>1, <2>2, DigitsAre DEF MovedTo, Backwards, OfBits
<1> QED
  BY <1>3, <1>4, <1>5, <1>6, <1>7, <1>8, <1>9, <1>10, <1>11, <1>12, <1>13, <1>14, <1>15, <1>16,
     <1>17 DEF Sizes

(* gorci with g - u lets a bit go to all the places that differ in those   *)
(* bits: the same ones of the other units of the group.                    *)
LEMMA CombineIs ==
  ASSUME NEW i \in 0..31, NEW j \in 0..31, NEW u, NEW g, <<u, g>> \in Sizes
  PROVE  (\A b \in 0..4 : Bit(g - u, b) = 0 => Bit(i, b) = Bit(j, b))
           <=> i \div g = j \div g /\ i % u = j % u
<1>1. PICK a \in 0..1, b \in 0..1, c \in 0..1, d \in 0..1, e \in 0..1 : i = OfBits(a, b, c, d, e)
  BY Digits
<1>2. PICK p \in 0..1, q \in 0..1, r \in 0..1, s \in 0..1, t \in 0..1 : j = OfBits(p, q, r, s, t)
  BY Digits
<1>3. /\ Bit(i, 0) = a /\ Bit(i, 1) = b /\ Bit(i, 2) = c /\ Bit(i, 3) = d /\ Bit(i, 4) = e
      /\ Bit(j, 0) = p /\ Bit(j, 1) = q /\ Bit(j, 2) = r /\ Bit(j, 3) = s /\ Bit(j, 4) = t
  BY <1>1, <1>2, BitsAre
<1> DEFINE Free(k) == \A m \in 0..4 : Bit(k, m) = 0 => Bit(i, m) = Bit(j, m)
<1>4. ASSUME NEW k
      PROVE  Free(k) <=> /\ Bit(k, 0) = 0 => a = p
                         /\ Bit(k, 1) = 0 => b = q
                         /\ Bit(k, 2) = 0 => c = r
                         /\ Bit(k, 3) = 0 => d = s
                         /\ Bit(k, 4) = 0 => e = t
  <2>1. 0..4 = {0, 1, 2, 3, 4}
    OBVIOUS
  <2> QED
    BY <1>3, <2>1
<1> HIDE DEF Free
<1>5. /\ i \div 2 = b + 2 * c + 4 * d + 8 * e /\ i % 2 = a
      /\ i \div 4 = c + 2 * d + 4 * e /\ i % 4 = a + 2 * b
      /\ i \div 8 = d + 2 * e /\ i % 8 = a + 2 * b + 4 * c
      /\ i \div 16 = e /\ i % 16 = a + 2 * b + 4 * c + 8 * d
      /\ i \div 32 = 0 /\ i % 1 = 0
  BY <1>1, DigitsAre
<1>6. /\ j \div 2 = q + 2 * r + 4 * s + 8 * t /\ j % 2 = p
      /\ j \div 4 = r + 2 * s + 4 * t /\ j % 4 = p + 2 * q
      /\ j \div 8 = s + 2 * t /\ j % 8 = p + 2 * q + 4 * r
      /\ j \div 16 = t /\ j % 16 = p + 2 * q + 4 * r + 8 * s
      /\ j \div 32 = 0 /\ j % 1 = 0
  <2>1. /\ j \div 2 = q + 2 * r + 4 * s + 8 * t /\ j % 2 = p
        /\ j \div 4 = r + 2 * s + 4 * t /\ j % 4 = p + 2 * q
    BY <1>2, DigitsAre
  <2>2. /\ j \div 8 = s + 2 * t /\ j % 8 = p + 2 * q + 4 * r
        /\ j \div 16 = t /\ j % 16 = p + 2 * q + 4 * r + 8 * s
    BY <1>2, DigitsAre
  <2>3. j \div 32 = 0 /\ j % 1 = 0
    BY <1>2, DigitsAre
  <2> QED
    BY <2>1, <2>2, <2>3
<1>7. Free(1) <=> i \div 2 = j \div 2 /\ i % 1 = j % 1
  <2>1. OfBits(1, 0, 0, 0, 0) = 1
    BY DEF OfBits
  <2>2. Bit(1, 0) = 1 /\ Bit(1, 1) = 0 /\ Bit(1, 2) = 0 /\ Bit(1, 3) = 0 /\ Bit(1, 4) = 0
    BY <2>1, BitsAre
  <2>3. Free(1) <=> b = q /\ c = r /\ d = s /\ e = t
    BY <1>4, <2>2
  <2> QED
    BY <1>5, <1>6, <2>3
<1>8. Free(2) <=> i \div 4 = j \div 4 /\ i % 2 = j % 2
  <2>1. OfBits(0, 1, 0, 0, 0) = 2
    BY DEF OfBits
  <2>2. Bit(2, 0) = 0 /\ Bit(2, 1) = 1 /\ Bit(2, 2) = 0 /\ Bit(2, 3) = 0 /\ Bit(2, 4) = 0
    BY <2>1, BitsAre
  <2>3. Free(2) <=> a = p /\ c = r /\ d = s /\ e = t
    BY <1>4, <2>2
  <2> QED
    BY <1>5, <1>6, <2>3
<1>9. Free(3) <=> i \div 4 = j \div 4 /\ i % 1 = j % 1
  <2>1. OfBits(1, 1, 0, 0, 0) = 3
    BY DEF OfBits
  <2>2. Bit(3, 0) = 1 /\ Bit(3, 1) = 1 /\ Bit(3, 2) = 0 /\ Bit(3, 3) = 0 /\ Bit(3, 4) = 0
    BY <2>1, BitsAre
  <2>3. Free(3) <=> c = r /\ d = s /\ e = t
    BY <1>4, <2>2
  <2> QED
    BY <1>5, <1>6, <2>3
<1>10. Free(4) <=> i \div 8 = j \div 8 /\ i % 4 = j % 4
  <2>1. OfBits(0, 0, 1, 0, 0) = 4
    BY DEF OfBits
  <2>2. Bit(4, 0) = 0 /\ Bit(4, 1) = 0 /\ Bit(4, 2) = 1 /\ Bit(4, 3) = 0 /\ Bit(4, 4) = 0
    BY <2>1, BitsAre
  <2>3. Free(4) <=> a = p /\ b = q /\ d = s /\ e = t
    BY <1>4, <2>2
  <2> QED
    BY <1>5, <1>6, <2>3
<1>11. Free(6) <=> i \div 8 = j \div 8 /\ i % 2 = j % 2
  <2>1. OfBits(0, 1, 1, 0, 0) = 6
    BY DEF OfBits
  <2>2. Bit(6, 0) = 0 /\ Bit(6, 1) = 1 /\ Bit(6, 2) = 1 /\ Bit(6, 3) = 0 /\ Bit(6, 4) = 0
    BY <2>1, BitsAre
  <2>3. Free(6) <=> a = p /\ d = s /\ e = t
    BY <1>4, <2>2
  <2> QED
    BY <1>5, <1>6, <2>3
<1>12. Free(7) <=> i \div 8 = j \div 8 /\ i % 1 = j % 1
  <2>1. OfBits(1, 1, 1, 0, 0) = 7
    BY DEF OfBits
  <2>2. Bit(7, 0) = 1 /\ Bit(7, 1) = 1 /\ Bit(7, 2) = 1 /\ Bit(7, 3) = 0 /\ Bit(7, 4) = 0
    BY <2>1, BitsAre
  <2>3. Free(7) <=> d = s /\ e = t
    BY <1>4, <2>2
  <2> QED
    BY <1>5, <1>6, <2>3
<1>13. Free(8) <=> i \div 16 = j \div 16 /\ i % 8 = j % 8
  <2>1. OfBits(0, 0, 0, 1, 0) = 8
    BY DEF OfBits
  <2>2. Bit(8, 0) = 0 /\ Bit(8, 1) = 0 /\ Bit(8, 2) = 0 /\ Bit(8, 3) = 1 /\ Bit(8, 4) = 0
    BY <2>1, BitsAre
  <2>3. Free(8) <=> a = p /\ b = q /\ c = r /\ e = t
    BY <1>4, <2>2
  <2> QED
    BY <1>5, <1>6, <2>3
<1>14. Free(12) <=> i \div 16 = j \div 16 /\ i % 4 = j % 4
  <2>1. OfBits(0, 0, 1, 1, 0) = 12
    BY DEF OfBits
  <2>2. Bit(12, 0) = 0 /\ Bit(12, 1) = 0 /\ Bit(12, 2) = 1 /\ Bit(12, 3) = 1 /\ Bit(12, 4) = 0
    BY <2>1, BitsAre
  <2>3. Free(12) <=> a = p /\ b = q /\ e = t
    BY <1>4, <2>2
  <2> QED
    BY <1>5, <1>6, <2>3
<1>15. Free(14) <=> i \div 16 = j \div 16 /\ i % 2 = j % 2
  <2>1. OfBits(0, 1, 1, 1, 0) = 14
    BY DEF OfBits
  <2>2. Bit(14, 0) = 0 /\ Bit(14, 1) = 1 /\ Bit(14, 2) = 1 /\ Bit(14, 3) = 1 /\ Bit(14, 4) = 0
    BY <2>1, BitsAre
  <2>3. Free(14) <=> a = p /\ e = t
    BY <1>4, <2>2
  <2> QED
    BY <1>5, <1>6, <2>3
<1>16. Free(15) <=> i \div 16 = j \div 16 /\ i % 1 = j % 1
  <2>1. OfBits(1, 1, 1, 1, 0) = 15
    BY DEF OfBits
  <2>2. Bit(15, 0) = 1 /\ Bit(15, 1) = 1 /\ Bit(15, 2) = 1 /\ Bit(15, 3) = 1 /\ Bit(15, 4) = 0
    BY <2>1, BitsAre
  <2>3. Free(15) <=> e = t
    BY <1>4, <2>2
  <2> QED
    BY <1>5, <1>6, <2>3
<1>17. Free(16) <=> i \div 32 = j \div 32 /\ i % 16 = j % 16
  <2>1. OfBits(0, 0, 0, 0, 1) = 16
    BY DEF OfBits
  <2>2. Bit(16, 0) = 0 /\ Bit(16, 1) = 0 /\ Bit(16, 2) = 0 /\ Bit(16, 3) = 0 /\ Bit(16, 4) = 1
    BY <2>1, BitsAre
  <2>3. Free(16) <=> a = p /\ b = q /\ c = r /\ d = s
    BY <1>4, <2>2
  <2> QED
    BY <1>5, <1>6, <2>3
<1>18. Free(24) <=> i \div 32 = j \div 32 /\ i % 8 = j % 8
  <2>1. OfBits(0, 0, 0, 1, 1) = 24
    BY DEF OfBits
  <2>2. Bit(24, 0) = 0 /\ Bit(24, 1) = 0 /\ Bit(24, 2) = 0 /\ Bit(24, 3) = 1 /\ Bit(24, 4) = 1
    BY <2>1, BitsAre
  <2>3. Free(24) <=> a = p /\ b = q /\ c = r
    BY <1>4, <2>2
  <2> QED
    BY <1>5, <1>6, <2>3
<1>19. Free(28) <=> i \div 32 = j \div 32 /\ i % 4 = j % 4
  <2>1. OfBits(0, 0, 1, 1, 1) = 28
    BY DEF OfBits
  <2>2. Bit(28, 0) = 0 /\ Bit(28, 1) = 0 /\ Bit(28, 2) = 1 /\ Bit(28, 3) = 1 /\ Bit(28, 4) = 1
    BY <2>1, BitsAre
  <2>3. Free(28) <=> a = p /\ b = q
    BY <1>4, <2>2
  <2> QED
    BY <1>5, <1>6, <2>3
<1>20. Free(30) <=> i \div 32 = j \div 32 /\ i % 2 = j % 2
  <2>1. OfBits(0, 1, 1, 1, 1) = 30
    BY DEF OfBits
  <2>2. Bit(30, 0) = 0 /\ Bit(30, 1) = 1 /\ Bit(30, 2) = 1 /\ Bit(30, 3) = 1 /\ Bit(30, 4) = 1
    BY <2>1, BitsAre
  <2>3. Free(30) <=> a = p
    BY <1>4, <2>2
  <2> QED
    BY <1>5, <1>6, <2>3
<1>21. Free(31) <=> i \div 32 = j \div 32 /\ i % 1 = j % 1
  <2>1. OfBits(1, 1, 1, 1, 1) = 31
    BY DEF OfBits
  <2>2. Bit(31, 0) = 1 /\ Bit(31, 1) = 1 /\ Bit(31, 2) = 1 /\ Bit(31, 3) = 1 /\ Bit(31, 4) = 1
    BY <2>1, BitsAre
  <2>3. Free(31) <=> TRUE
    BY <1>4, <2>2
  <2> QED
    BY <1>5, <1>6, <2>3
<1> QED
  BY <1>7, <1>8, <1>9, <1>10, <1>11, <1>12, <1>13, <1>14, <1>15, <1>16,
     <1>17, <1>18, <1>19, <1>20, <1>21 DEF Sizes, Free

(* A stage of a shuffle exchanges two neighbouring bits of the place, ...  *)
LEMMA StageIs ==
  ASSUME NEW a \in 0..1, NEW b \in 0..1, NEW c \in 0..1, NEW d \in 0..1, NEW e \in 0..1, NEW k
  PROVE  LET i == OfBits(a, b, c, d, e)
         IN /\ Stage(i, k, 0) = IF Bit(k, 0) = 1 THEN OfBits(b, a, c, d, e) ELSE i
            /\ Stage(i, k, 1) = IF Bit(k, 1) = 1 THEN OfBits(a, c, b, d, e) ELSE i
            /\ Stage(i, k, 2) = IF Bit(k, 2) = 1 THEN OfBits(a, b, d, c, e) ELSE i
            /\ Stage(i, k, 3) = IF Bit(k, 3) = 1 THEN OfBits(a, b, c, e, d) ELSE i
<1> DEFINE i == OfBits(a, b, c, d, e)
<1>1. /\ Bit(i, 0) = a /\ Bit(i, 1) = b /\ Bit(i, 2) = c /\ Bit(i, 3) = d /\ Bit(i, 4) = e
      /\ i = a + 2 * b + 4 * c + 8 * d + 16 * e
  BY BitsAre DEF OfBits
<1> HIDE DEF i
<1>2. /\ Stage(i, k, 0) = IF Bit(k, 0) = 1 THEN OfBits(b, a, c, d, e) ELSE i
      /\ Stage(i, k, 1) = IF Bit(k, 1) = 1 THEN OfBits(a, c, b, d, e) ELSE i
      /\ Stage(i, k, 2) = IF Bit(k, 2) = 1 THEN OfBits(a, b, d, c, e) ELSE i
      /\ Stage(i, k, 3) = IF Bit(k, 3) = 1 THEN OfBits(a, b, c, e, d) ELSE i
  BY <1>1, Powers DEF Stage, OfBits
<1> QED
  BY <1>2 DEF i

(* ..., so a second time takes it back, ...                                *)
LEMMA StageBack ==
  ASSUME NEW i \in 0..31, NEW k, NEW m \in 0..3
  PROVE  Stage(i, k, m) \in 0..31 /\ Stage(Stage(i, k, m), k, m) = i
<1>1. PICK a \in 0..1, b \in 0..1, c \in 0..1, d \in 0..1, e \in 0..1 : i = OfBits(a, b, c, d, e)
  BY Digits
<1>2. \A p, q, r, s, t \in 0..1 : OfBits(p, q, r, s, t) \in 0..31
  BY DEF OfBits
<1>3. CASE m = 0
  BY <1>1, <1>2, <1>3, StageIs
<1>4. CASE m = 1
  BY <1>1, <1>2, <1>4, StageIs
<1>5. CASE m = 2
  BY <1>1, <1>2, <1>5, StageIs
<1>6. CASE m = 3
  BY <1>1, <1>2, <1>6, StageIs
<1> QED
  BY <1>3, <1>4, <1>5, <1>6

(* ..., and an unshuffle is the inverse of the shuffle.                    *)
LEMMA UnzipIs ==
  ASSUME NEW i \in 0..31, NEW k
  PROVE  /\ Shuffled(i, k) \in 0..31 /\ Unshuffled(i, k) \in 0..31
         /\ Unshuffled(Shuffled(i, k), k) = i /\ Shuffled(Unshuffled(i, k), k) = i
<1> DEFINE S(j, m) == Stage(j, k, m)
<1>1. \A j \in 0..31 : \A m \in 0..3 : S(j, m) \in 0..31 /\ S(S(j, m), m) = j
  BY StageBack
<1>2. \A j : /\ Shuffled(j, k) = S(S(S(S(j, 3), 2), 1), 0)
             /\ Unshuffled(j, k) = S(S(S(S(j, 0), 1), 2), 3)
  BY DEF Shuffled, Unshuffled
<1> HIDE DEF S
<1>3. Shuffled(i, k) \in 0..31 /\ Unshuffled(Shuffled(i, k), k) = i
  <2> DEFINE p == S(i, 3)
             q == S(p, 2)
             r == S(q, 1)
             s == S(r, 0)
  <2>1. p \in 0..31 /\ S(p, 3) = i
    BY <1>1
  <2> HIDE DEF p
  <2>2. q \in 0..31 /\ S(q, 2) = p
    BY <1>1, <2>1
  <2> HIDE DEF q
  <2>3. r \in 0..31 /\ S(r, 1) = q
    BY <1>1, <2>2
  <2> HIDE DEF r
  <2>4. s \in 0..31 /\ S(s, 0) = r
    BY <1>1, <2>3
  <2>5. Shuffled(i, k) = s
    BY <1>2 DEF p, q, r
  <2> HIDE DEF s
  <2> QED
    BY <1>2, <2>1, <2>2, <2>3, <2>4, <2>5
<1>4. Unshuffled(i, k) \in 0..31 /\ Shuffled(Unshuffled(i, k), k) = i
  <2> DEFINE p == S(i, 0)
             q == S(p, 1)
             r == S(q, 2)
             s == S(r, 3)
  <2>1. p \in 0..31 /\ S(p, 0) = i
    BY <1>1
  <2> HIDE DEF p
  <2>2. q \in 0..31 /\ S(q, 1) = p
    BY <1>1, <2>1
  <2> HIDE DEF q
  <2>3. r \in 0..31 /\ S(r, 2) = q
    BY <1>1, <2>2
  <2> HIDE DEF r
  <2>4. s \in 0..31 /\ S(s, 3) = r
    BY <1>1, <2>3
  <2>5. Unshuffled(i, k) = s
    BY <1>2 DEF p, q, r
  <2> HIDE DEF s
  <2> QED
    BY <1>2, <2>1, <2>2, <2>3, <2>4, <2>5
<1> QED
  BY <1>3, <1>4

(* shfli with g / 2 - u interleaves the units of u bits of the two halves  *)
(* of a group of g.                                                        *)
ZipSizes == {<<1, 4>>, <<2, 8>>, <<1, 8>>, <<4, 16>>, <<2, 16>>, <<1, 16>>, <<8, 32>>, <<4, 32>>,
             <<2, 32>>, <<1, 32>>}
LEMMA ZipIs ==
  ASSUME NEW i \in 0..31, NEW u, NEW g, <<u, g>> \in ZipSizes
  PROVE  Shuffled(i, g \div 2 - u) = MovedTo(i, u, g, Interleaved)
<1>1. PICK a \in 0..1, b \in 0..1, c \in 0..1, d \in 0..1, e \in 0..1 : i = OfBits(a, b, c, d, e)
  BY Digits
<1>2. /\ i \div 2 = b + 2 * c + 4 * d + 8 * e /\ i % 2 = a
      /\ i \div 4 = c + 2 * d + 4 * e /\ i % 4 = a + 2 * b
      /\ i \div 8 = d + 2 * e /\ i % 8 = a + 2 * b + 4 * c
      /\ i \div 16 = e /\ i % 16 = a + 2 * b + 4 * c + 8 * d
      /\ i \div 32 = 0 /\ i % 1 = 0
  BY <1>1, DigitsAre
<1>3. Shuffled(i, 1) = MovedTo(i, 1, 4, Interleaved)
  <2>1. OfBits(1, 0, 0, 0, 0) = 1
    BY DEF OfBits
  <2>2. Bit(1, 0) = 1 /\ Bit(1, 1) = 0 /\ Bit(1, 2) = 0 /\ Bit(1, 3) = 0 /\ Bit(1, 4) = 0
    BY <2>1, BitsAre
  <2>3. Shuffled(i, 1) = OfBits(b, a, c, d, e)
    BY <1>1, <2>2, StageIs DEF Shuffled
  <2> QED
    BY <1>1, <1>2, <2>3 DEF MovedTo, Interleaved, OfBits
<1>4. Shuffled(i, 2) = MovedTo(i, 2, 8, Interleaved)
  <2>1. OfBits(0, 1, 0, 0, 0) = 2
    BY DEF OfBits
  <2>2. Bit(2, 0) = 0 /\ Bit(2, 1) = 1 /\ Bit(2, 2) = 0 /\ Bit(2, 3) = 0 /\ Bit(2, 4) = 0
    BY <2>1, BitsAre
  <2>3. Shuffled(i, 2) = OfBits(a, c, b, d, e)
    BY <1>1, <2>2, StageIs DEF Shuffled
  <2> QED
    BY <1>1, <1>2, <2>3 DEF MovedTo, Interleaved, OfBits
<1>5. Shuffled(i, 3) = MovedTo(i, 1, 8, Interleaved)
  <2>1. OfBits(1, 1, 0, 0, 0) = 3
    BY DEF OfBits
  <2>2. Bit(3, 0) = 1 /\ Bit(3, 1) = 1 /\ Bit(3, 2) = 0 /\ Bit(3, 3) = 0 /\ Bit(3, 4) = 0
    BY <2>1, BitsAre
  <2>3. Shuffled(i, 3) = OfBits(c, a, b, d, e)
    BY <1>1, <2>2, StageIs DEF Shuffled
  <2> QED
    BY <1>1, <1>2, <2>3 DEF MovedTo, Interleaved, OfBits
<1>6. Shuffled(i, 4) = MovedTo(i, 4, 16, Interleaved)
  <2>1. OfBits(0, 0, 1, 0, 0) = 4
    BY DEF OfBits
  <2>2. Bit(4, 0) = 0 /\ Bit(4, 1) = 0 /\ Bit(4, 2) = 1 /\ Bit(4, 3) = 0 /\ Bit(4, 4) = 0
    BY <2>1, BitsAre
  <2>3. Shuffled(i, 4) = OfBits(a, b, d, c, e)
    BY <1>1, <2>2, StageIs DEF Shuffled
  <2> QED
    BY <1>1, <1>2, <2>3 DEF MovedTo, Interleaved, OfBits
<1>7. Shuffled(i, 6) = MovedTo(i, 2, 16, Interleaved)
  <2>1. OfBits(0, 1, 1, 0, 0) = 6
    BY DEF OfBits
  <2>2. Bit(6, 0) = 0 /\ Bit(6, 1) = 1 /\ Bit(6, 2) = 1 /\ Bit(6, 3) = 0 /\ Bit(6, 4) = 0
    BY <2>1, BitsAre
  <2>3. Shuffled(i, 6) = OfBits(a, d, b, c, e)
    BY <1>1, <2>2, StageIs DEF Shuffled
  <2> QED
    BY <1>1, <1>2, <2>3 DEF MovedTo, Interleaved, OfBits
<1>8. Shuffled(i, 7) = MovedTo(i, 1, 16, Interleaved)
  <2>1. OfBits(1, 1, 1, 0, 0) = 7
    BY DEF OfBits
  <2>2. Bit(7, 0) = 1 /\ Bit(7, 1) = 1 /\ Bit(7, 2) = 1 /\ Bit(7, 3) = 0 /\ Bit(7, 4) = 0
    BY <2>1, BitsAre
  <2>3. Shuffled(i, 7) = OfBits(d, a, b, c, e)
    BY <1>1, <2>2, StageIs DEF Shuffled
  <2> QED
    BY <1>1, <1>2, <2>3 DEF MovedTo, Interleaved, OfBits
<1>9. Shuffled(i, 8) = MovedTo(i, 8, 32, Interleaved)
  <2>1. OfBits(0, 0, 0, 1, 0) = 8
    BY DEF OfBits
  <2>2. Bit(8, 0) = 0 /\ Bit(8, 1) = 0 /\ Bit(8, 2) = 0 /\ Bit(8, 3) = 1 /\ Bit(8, 4) = 0
    BY <2>1, BitsAre
  <2>3. Shuffled(i, 8) = OfBits(a, b, c, e, d)
    BY <1>1, <2>2, StageIs DEF Shuffled
  <2> QED
    BY <1>1, <1>2, <2>3 DEF MovedTo, Interleaved, OfBits
<1>10. Shuffled(i, 12) = MovedTo(i, 4, 32, Interleaved)
  <2>1. OfBits(0, 0, 1, 1, 0) = 12
    BY DEF OfBits
  <2>2. Bit(12, 0) = 0 /\ Bit(12, 1) = 0 /\ Bit(12, 2) = 1 /\ Bit(12, 3) = 1 /\ Bit(12, 4) = 0
    BY <2>1, BitsAre
  <2>3. Shuffled(i, 12) = OfBits(a, b, e, c, d)
    BY <1>1, <2>2, StageIs DEF Shuffled
  <2> QED
    BY <1>1, <1>2, <2>3 DEF MovedTo, Interleaved, OfBits
<1>11. Shuffled(i, 14) = MovedTo(i, 2, 32, Interleaved)
  <2>1. OfBits(0, 1, 1, 1, 0) = 14
    BY DEF OfBits
  <2>2. Bit(14, 0) = 0 /\ Bit(14, 1) = 1 /\ Bit(14, 2) = 1 /\ Bit(14, 3) = 1 /\ Bit(14, 4) = 0
    BY <2>1, BitsAre
  <2>3. Shuffled(i, 14) = OfBits(a, e, b, c, d)
    BY <1>1, <2>2, StageIs DEF Shuffled
  <2> QED
    BY <1>1, <1>2, <2>3 DEF MovedTo, Interleaved, OfBits
<1>12. Shuffled(i, 15) = MovedTo(i, 1, 32, Interleaved)
  <2>1. OfBits(1, 1, 1, 1, 0) = 15
    BY DEF OfBits
  <2>2. Bit(15, 0) = 1 /\ Bit(15, 1) = 1 /\ Bit(15, 2) = 1 /\ Bit(15, 3) = 1 /\ Bit(15, 4) = 0
    BY <2>1, BitsAre
  <2>3. Shuffled(i, 15) = OfBits(e, a, b, c, d)
    BY <1>1, <2>2, StageIs DEF Shuffled
  <2> QED
    BY <1>1, <1>2, <2>3 DEF MovedTo, Interleaved, OfBits
<1> QED
  BY <1>3, <1>4, <1>5, <1>6, <1>7, <1>8, <1>9, <1>10, <1>11, <1>12 DEF ZipSizes

(* What a regular instruction does on operands that are registers or       *)
(* immediates, integers or words.                                          *)
IntOf(o, e)  == IF o.t = "imm" THEN o.v ELSE e[o.r]
BitsOf(o, e) == IF o.t = "imm" THEN Bits(o.v) ELSE e[o.r]
Does(op, x, y, z, e) == Regular(Instr(op, <<x, y, z>>), e)

(* On integers, by the fields of the instruction, ...                      *)
LEMMA IntCases ==
  ASSUME NEW i, NEW e
  PROVE  /\ i.op = "addi" => RegularInt(i, e) =
              Write(e, i.args[1].r, Wrap(IntOf(i.args[2], e) + IntOf(i.args[3], e)))
         /\ i.op = "addiw" => RegularInt(i, e) =
              Write(e, i.args[1].r, Half(IntOf(i.args[2], e) + IntOf(i.args[3], e)))
         /\ i.op = "sub" => RegularInt(i, e) =
              Write(e, i.args[1].r, Wrap(IntOf(i.args[2], e) - IntOf(i.args[3], e)))
         /\ i.op = "subw" => RegularInt(i, e) =
              Write(e, i.args[1].r, Half(IntOf(i.args[2], e) - IntOf(i.args[3], e)))
         /\ i.op = "slt" => RegularInt(i, e) =
              Write(e, i.args[1].r, Bool(IntOf(i.args[2], e) < IntOf(i.args[3], e)))
         /\ i.op \in {"sltu", "sltiu"} => RegularInt(i, e) =
              Write(e, i.args[1].r, Bool(Uns(IntOf(i.args[2], e)) < Uns(IntOf(i.args[3], e))))
         /\ i.op = "beq" => RegularInt(i, e) =
              Branch(e, IntOf(i.args[1], e) = IntOf(i.args[2], e), Last(i.args))
         /\ i.op = "bne" => RegularInt(i, e) =
              Branch(e, IntOf(i.args[1], e) # IntOf(i.args[2], e), Last(i.args))
         /\ i.op = "blt" => RegularInt(i, e) =
              Branch(e, IntOf(i.args[1], e) < IntOf(i.args[2], e), Last(i.args))
         /\ i.op = "bge" => RegularInt(i, e) =
              Branch(e, IntOf(i.args[1], e) >= IntOf(i.args[2], e), Last(i.args))
         /\ i.op = "bltu" => RegularInt(i, e) =
              Branch(e, Uns(IntOf(i.args[1], e)) < Uns(IntOf(i.args[2], e)), Last(i.args))
         /\ i.op = "bgeu" => RegularInt(i, e) =
              Branch(e, Uns(IntOf(i.args[1], e)) >= Uns(IntOf(i.args[2], e)), Last(i.args))
         /\ i.op = "jal" => RegularInt(i, e) =
              [Write(e, i.args[1].r, Link) EXCEPT !.to = By(i.args[2])]
         /\ i.op = "jalr" => RegularInt(i, e) =
              [Write(e, i.args[1].r, Link) EXCEPT !.to = Tail(i.args)]
         /\ i.op = "c.jr" => RegularInt(i, e) =
              [Nothing(e) EXCEPT !.to = <<i.args[1], Imm(0)>>]
<1> DEFINE R == i.args[1].r
           V(k) == IntOf(i.args[k], e)
           a1 == Write(e, R, Wrap(V(2) + V(3)))
           a2 == Write(e, R, Half(V(2) + V(3)))
           a3 == Write(e, R, Wrap(V(2) - V(3)))
           a4 == Write(e, R, Half(V(2) - V(3)))
           a5 == Write(e, R, Bool(V(2) < V(3)))
           a6 == Write(e, R, Bool(Uns(V(2)) < Uns(V(3))))
           b1 == Branch(e, V(1) = V(2), Last(i.args))
           b2 == Branch(e, V(1) # V(2), Last(i.args))
           b3 == Branch(e, V(1) < V(2), Last(i.args))
           b4 == Branch(e, V(1) >= V(2), Last(i.args))
           b5 == Branch(e, Uns(V(1)) < Uns(V(2)), Last(i.args))
           b6 == Branch(e, Uns(V(1)) >= Uns(V(2)), Last(i.args))
           j1 == [Write(e, R, Link) EXCEPT !.to = By(i.args[2])]
           j2 == [Write(e, R, Link) EXCEPT !.to = Tail(i.args)]
           j3 == [Nothing(e) EXCEPT !.to = <<i.args[1], Imm(0)>>]
<1>1. RegularInt(i, e) =
      CASE i.op = "addi" -> a1
        [] i.op = "addiw" -> a2
        [] i.op = "sub" -> a3
        [] i.op = "subw" -> a4
        [] i.op = "slt" -> a5
        [] i.op \in {"sltu", "sltiu"} -> a6
        [] i.op = "beq" -> b1
        [] i.op = "bne" -> b2
        [] i.op = "blt" -> b3
        [] i.op = "bge" -> b4
        [] i.op = "bltu" -> b5
        [] i.op = "bgeu" -> b6
        [] i.op = "jal" -> j1
        [] i.op = "jalr" -> j2
        [] i.op = "c.jr" -> j3
  BY Zenon DEF RegularInt, IntOf
<1> HIDE DEF a1, a2, a3, a4, a5, a6, b1, b2, b3, b4, b5, b6, j1, j2, j3
<1>2. /\ i.op = "addi" => RegularInt(i, e) = a1
      /\ i.op = "addiw" => RegularInt(i, e) = a2
      /\ i.op = "sub" => RegularInt(i, e) = a3
      /\ i.op = "subw" => RegularInt(i, e) = a4
      /\ i.op = "slt" => RegularInt(i, e) = a5
      /\ i.op \in {"sltu", "sltiu"} => RegularInt(i, e) = a6
      /\ i.op = "beq" => RegularInt(i, e) = b1
      /\ i.op = "bne" => RegularInt(i, e) = b2
      /\ i.op = "blt" => RegularInt(i, e) = b3
      /\ i.op = "bge" => RegularInt(i, e) = b4
      /\ i.op = "bltu" => RegularInt(i, e) = b5
      /\ i.op = "bgeu" => RegularInt(i, e) = b6
      /\ i.op = "jal" => RegularInt(i, e) = j1
      /\ i.op = "jalr" => RegularInt(i, e) = j2
      /\ i.op = "c.jr" => RegularInt(i, e) = j3
  BY <1>1
<1> QED
  BY <1>2, Zenon DEF a1, a2, a3, a4, a5, a6, b1, b2, b3, b4, b5, b6, j1, j2, j3

(* ..., and by its operands; ...                                           *)
LEMMA IntsDone ==
  ASSUME NEW e, NEW x, NEW y, NEW z
  PROVE  /\ Does("addi", x, y, z, e)  = Write(e, x.r, Wrap(IntOf(y, e) + IntOf(z, e)))
         /\ Does("addiw", x, y, z, e) = Write(e, x.r, Half(IntOf(y, e) + IntOf(z, e)))
         /\ Does("sub", x, y, z, e)   = Write(e, x.r, Wrap(IntOf(y, e) - IntOf(z, e)))
         /\ Does("subw", x, y, z, e)  = Write(e, x.r, Half(IntOf(y, e) - IntOf(z, e)))
         /\ Does("slt", x, y, z, e)   = Write(e, x.r, Bool(IntOf(y, e) < IntOf(z, e)))
         /\ \A op \in {"sltu", "sltiu"} : Does(op, x, y, z, e) =
              Write(e, x.r, Bool(Uns(IntOf(y, e)) < Uns(IntOf(z, e))))
         /\ Does("beq", x, y, z, e)  = Branch(e, IntOf(x, e) = IntOf(y, e), z)
         /\ Does("bne", x, y, z, e)  = Branch(e, IntOf(x, e) # IntOf(y, e), z)
         /\ Does("blt", x, y, z, e)  = Branch(e, IntOf(x, e) < IntOf(y, e), z)
         /\ Does("bge", x, y, z, e)  = Branch(e, IntOf(x, e) >= IntOf(y, e), z)
         /\ Does("bltu", x, y, z, e) = Branch(e, Uns(IntOf(x, e)) < Uns(IntOf(y, e)), z)
         /\ Does("bgeu", x, y, z, e) = Branch(e, Uns(IntOf(x, e)) >= Uns(IntOf(y, e)), z)
         /\ Does("jalr", x, y, z, e) = [Write(e, x.r, Link) EXCEPT !.to = <<y, z>>]
<1> DEFINE a == <<x, y, z>>
<1>1. a[1] = x /\ a[2] = y /\ a[3] = z /\ Last(a) = z /\ Tail(a) = <<y, z>>
  BY DEF Last
<1> HIDE DEF a
<1>2. \A op : Instr(op, a).op = op /\ Instr(op, a).args = a
  BY DEF Instr
<1>3. \A op : op \notin BitOps => Does(op, x, y, z, e) = RegularInt(Instr(op, a), e)
  BY <1>2 DEF Does, Regular, a
<1>4. Does("addi", x, y, z, e) = Write(e, x.r, Wrap(IntOf(y, e) + IntOf(z, e)))
  BY <1>1, <1>2, <1>3, IntCases DEF BitOps, CsrOps
<1>5. Does("addiw", x, y, z, e) = Write(e, x.r, Half(IntOf(y, e) + IntOf(z, e)))
  BY <1>1, <1>2, <1>3, IntCases DEF BitOps, CsrOps
<1>6. Does("sub", x, y, z, e) = Write(e, x.r, Wrap(IntOf(y, e) - IntOf(z, e)))
  BY <1>1, <1>2, <1>3, IntCases DEF BitOps, CsrOps
<1>7. Does("subw", x, y, z, e) = Write(e, x.r, Half(IntOf(y, e) - IntOf(z, e)))
  BY <1>1, <1>2, <1>3, IntCases DEF BitOps, CsrOps
<1>8. Does("slt", x, y, z, e) = Write(e, x.r, Bool(IntOf(y, e) < IntOf(z, e)))
  BY <1>1, <1>2, <1>3, IntCases DEF BitOps, CsrOps
<1>9. \A op \in {"sltu", "sltiu"} : Does(op, x, y, z, e) =
        Write(e, x.r, Bool(Uns(IntOf(y, e)) < Uns(IntOf(z, e))))
  BY <1>1, <1>2, <1>3, IntCases DEF BitOps, CsrOps
<1>10. Does("beq", x, y, z, e) = Branch(e, IntOf(x, e) = IntOf(y, e), z)
  BY <1>1, <1>2, <1>3, IntCases DEF BitOps, CsrOps
<1>11. Does("bne", x, y, z, e) = Branch(e, IntOf(x, e) # IntOf(y, e), z)
  BY <1>1, <1>2, <1>3, IntCases DEF BitOps, CsrOps
<1>12. Does("blt", x, y, z, e) = Branch(e, IntOf(x, e) < IntOf(y, e), z)
  BY <1>1, <1>2, <1>3, IntCases DEF BitOps, CsrOps
<1>13. Does("bge", x, y, z, e) = Branch(e, IntOf(x, e) >= IntOf(y, e), z)
  BY <1>1, <1>2, <1>3, IntCases DEF BitOps, CsrOps
<1>14. Does("bltu", x, y, z, e) = Branch(e, Uns(IntOf(x, e)) < Uns(IntOf(y, e)), z)
  BY <1>1, <1>2, <1>3, IntCases DEF BitOps, CsrOps
<1>15. Does("bgeu", x, y, z, e) = Branch(e, Uns(IntOf(x, e)) >= Uns(IntOf(y, e)), z)
  BY <1>1, <1>2, <1>3, IntCases DEF BitOps, CsrOps
<1>16. Does("jalr", x, y, z, e) = [Write(e, x.r, Link) EXCEPT !.to = <<y, z>>]
  <2>1. RegularInt(Instr("jalr", a), e) = [Write(e, a[1].r, Link) EXCEPT !.to = Tail(a)]
    BY <1>2, IntCases
  <2> QED
    BY <2>1, <1>1, <1>3 DEF BitOps, CsrOps
<1> QED
  BY <1>4, <1>5, <1>6, <1>7, <1>8, <1>9, <1>10, <1>11, <1>12, <1>13, <1>14, <1>15, <1>16

(* ..., a jump with two operands or one, ...                               *)
LEMMA JalDone ==
  ASSUME NEW e, NEW x, NEW y
  PROVE  Regular(Instr("jal", <<x, y>>), e) = [Write(e, x.r, Link) EXCEPT !.to = By(y)]
<1> DEFINE a == <<x, y>>
<1>1. a[1] = x /\ a[2] = y
  OBVIOUS
<1> HIDE DEF a
<1>2. Instr("jal", a).op = "jal" /\ Instr("jal", a).args = a
  BY DEF Instr
<1>3. Regular(Instr("jal", a), e) = RegularInt(Instr("jal", a), e)
  BY <1>2 DEF Regular, BitOps, CsrOps
<1>4. Regular(Instr("jal", a), e) = [Write(e, x.r, Link) EXCEPT !.to = By(y)]
  BY <1>1, <1>2, <1>3, IntCases
<1> QED
  BY <1>4 DEF a

(* ..., a compressed return, ...                                           *)
LEMMA ReturnDone ==
  ASSUME NEW e, NEW x
  PROVE  Regular(Instr("c.jr", <<x>>), e) = [Nothing(e) EXCEPT !.to = <<x, Imm(0)>>]
<1> DEFINE a == <<x>>
<1>1. a[1] = x
  OBVIOUS
<1> HIDE DEF a
<1>2. Instr("c.jr", a).op = "c.jr" /\ Instr("c.jr", a).args = a
  BY DEF Instr
<1>3. Regular(Instr("c.jr", a), e) = RegularInt(Instr("c.jr", a), e)
  BY <1>2 DEF Regular, BitOps, CsrOps
<1>4. Regular(Instr("c.jr", a), e) = [Nothing(e) EXCEPT !.to = <<x, Imm(0)>>]
  BY <1>1, <1>2, <1>3, IntCases
<1> QED
  BY <1>4 DEF a

(* ..., and one on the bits of words: logic, ...                           *)
LEMMA BitCases ==
  ASSUME NEW i, NEW e
  PROVE  LET R == i.args[1].r
             p == BitsOf(i.args[2], e)
             q == BitsOf(i.args[3], e)
             to(c) == [Write(e, R, e.csr) EXCEPT !.csr = c]
         IN /\ i.op = "xori" => RegularBits(i, e) = Write(e, R, (p \ q) \cup (q \ p))
            /\ i.op = "andi" => RegularBits(i, e) = Write(e, R, p \cap q)
            /\ i.op = "pack" => RegularBits(i, e) = Write(e, R, Pack(p, q, e.xlen \div 2))
            /\ i.op = "grevi" => RegularBits(i, e) = Write(e, R, Flip(p, i.args[3].v))
            /\ i.op = "gorci" => RegularBits(i, e) = Write(e, R, Combine(p, i.args[3].v))
            /\ i.op = "shfli" => RegularBits(i, e) = Write(e, R, Shuffle(p, i.args[3].v))
            /\ i.op = "unshfli" => RegularBits(i, e) = Write(e, R, Unshuffle(p, i.args[3].v))
            /\ i.op \in {"csrrw", "csrrwi"} => RegularBits(i, e) = to(q)
            /\ i.op \in {"csrrs", "csrrsi"} => RegularBits(i, e) = to(e.csr \cup q)
            /\ i.op \in {"csrrc", "csrrci"} => RegularBits(i, e) = to(e.csr \ q)
<1> DEFINE R == i.args[1].r
           p == BitsOf(i.args[2], e)
           q == BitsOf(i.args[3], e)
           to(c) == [Write(e, R, e.csr) EXCEPT !.csr = c]
           a1 == Write(e, R, (p \ q) \cup (q \ p))
           a2 == Write(e, R, p \cap q)
           a3 == Write(e, R, Pack(p, q, e.xlen \div 2))
           a4 == Write(e, R, Flip(p, i.args[3].v))
           a5 == Write(e, R, Combine(p, i.args[3].v))
           a6 == Write(e, R, Shuffle(p, i.args[3].v))
           a7 == Write(e, R, Unshuffle(p, i.args[3].v))
           c1 == to(q)
           c2 == to(e.csr \cup q)
           c3 == to(e.csr \ q)
<1>1. RegularBits(i, e) =
      CASE i.op = "xori" -> a1
        [] i.op = "andi" -> a2
        [] i.op = "pack" -> a3
        [] i.op = "grevi" -> a4
        [] i.op = "gorci" -> a5
        [] i.op = "shfli" -> a6
        [] i.op = "unshfli" -> a7
        [] i.op \in {"csrrw", "csrrwi"} -> c1
        [] i.op \in {"csrrs", "csrrsi"} -> c2
        [] i.op \in {"csrrc", "csrrci"} -> c3
  BY Zenon DEF RegularBits, BitsOf
<1> HIDE DEF a1, a2, a3, a4, a5, a6, a7, c1, c2, c3
<1>2. /\ i.op = "xori" => RegularBits(i, e) = a1
      /\ i.op = "andi" => RegularBits(i, e) = a2
      /\ i.op = "pack" => RegularBits(i, e) = a3
      /\ i.op = "grevi" => RegularBits(i, e) = a4
      /\ i.op = "gorci" => RegularBits(i, e) = a5
      /\ i.op = "shfli" => RegularBits(i, e) = a6
      /\ i.op = "unshfli" => RegularBits(i, e) = a7
      /\ i.op \in {"csrrw", "csrrwi"} => RegularBits(i, e) = c1
      /\ i.op \in {"csrrs", "csrrsi"} => RegularBits(i, e) = c2
      /\ i.op \in {"csrrc", "csrrci"} => RegularBits(i, e) = c3
  BY <1>1
<1> QED
  BY <1>2, Zenon DEF a1, a2, a3, a4, a5, a6, a7, c1, c2, c3

(* The same by the operands: of exclusive or, ...                          *)
LEMMA XorDone ==
  ASSUME NEW e, NEW x, NEW y, NEW z
  PROVE  Does("xori", x, y, z, e) =
           Write(e, x.r, (BitsOf(y, e) \ BitsOf(z, e)) \cup (BitsOf(z, e) \ BitsOf(y, e)))
<1> DEFINE a == <<x, y, z>>
<1>1. a[1] = x /\ a[2] = y /\ a[3] = z
  OBVIOUS
<1> HIDE DEF a
<1>2. Instr("xori", a).op = "xori" /\ Instr("xori", a).args = a
  BY DEF Instr
<1>3. Does("xori", x, y, z, e) = RegularBits(Instr("xori", a), e)
  BY <1>2 DEF Does, Regular, BitOps, a
<1>4. \A i : i.op = "xori" => RegularBits(i, e) =
        Write(e, i.args[1].r, (BitsOf(i.args[2], e) \ BitsOf(i.args[3], e))
                                \cup (BitsOf(i.args[3], e) \ BitsOf(i.args[2], e)))
  BY BitCases
<1> QED
  BY <1>1, <1>2, <1>3, <1>4

(* ..., and, ...                                                           *)
LEMMA AndDone ==
  ASSUME NEW e, NEW x, NEW y, NEW z
  PROVE  Does("andi", x, y, z, e) = Write(e, x.r, BitsOf(y, e) \cap BitsOf(z, e))
<1> DEFINE a == <<x, y, z>>
<1>1. a[1] = x /\ a[2] = y /\ a[3] = z
  OBVIOUS
<1> HIDE DEF a
<1>2. Instr("andi", a).op = "andi" /\ Instr("andi", a).args = a
  BY DEF Instr
<1>3. Does("andi", x, y, z, e) = RegularBits(Instr("andi", a), e)
  BY <1>2 DEF Does, Regular, BitOps, a
<1>4. \A i : i.op = "andi" => RegularBits(i, e) =
        Write(e, i.args[1].r, BitsOf(i.args[2], e) \cap BitsOf(i.args[3], e))
  BY BitCases
<1> QED
  BY <1>1, <1>2, <1>3, <1>4

(* ..., and pack; ...                                                      *)
LEMMA PackDone ==
  ASSUME NEW e, NEW x, NEW y, NEW z
  PROVE  Does("pack", x, y, z, e) = Write(e, x.r, Pack(BitsOf(y, e), BitsOf(z, e), e.xlen \div 2))
<1> DEFINE a == <<x, y, z>>
<1>1. a[1] = x /\ a[2] = y /\ a[3] = z
  OBVIOUS
<1> HIDE DEF a
<1>2. Instr("pack", a).op = "pack" /\ Instr("pack", a).args = a
  BY DEF Instr
<1>3. Does("pack", x, y, z, e) = RegularBits(Instr("pack", a), e)
  BY <1>2 DEF Does, Regular, BitOps, a
<1>4. \A i : i.op = "pack" => RegularBits(i, e) =
        Write(e, i.args[1].r, Pack(BitsOf(i.args[2], e), BitsOf(i.args[3], e), e.xlen \div 2))
  BY BitCases
<1> QED
  BY <1>1, <1>2, <1>3, <1>4

(* ..., bit manipulation, ...                                              *)
LEMMA ManipDone ==
  ASSUME NEW e, NEW x, NEW y, NEW z
  PROVE  /\ Does("grevi", x, y, z, e) = Write(e, x.r, Flip(BitsOf(y, e), z.v))
         /\ Does("gorci", x, y, z, e) = Write(e, x.r, Combine(BitsOf(y, e), z.v))
         /\ Does("shfli", x, y, z, e) =
              Write(e, x.r, Shuffle(BitsOf(y, e), z.v))
         /\ Does("unshfli", x, y, z, e) =
              Write(e, x.r, Unshuffle(BitsOf(y, e), z.v))
<1> DEFINE a == <<x, y, z>>
<1>1. a[1] = x /\ a[2] = y /\ a[3] = z
  OBVIOUS
<1> HIDE DEF a
<1>2. \A op : Instr(op, a).op = op /\ Instr(op, a).args = a
  BY DEF Instr
<1>3. \A op \in BitOps : Does(op, x, y, z, e) = RegularBits(Instr(op, a), e)
  BY <1>2 DEF Does, Regular, a
<1>4. Does("grevi", x, y, z, e) = Write(e, x.r, Flip(BitsOf(y, e), z.v))
  <2>1. \A i : i.op = "grevi" => RegularBits(i, e) =
          Write(e, i.args[1].r, Flip(BitsOf(i.args[2], e), i.args[3].v))
    BY BitCases
  <2> QED
    BY <1>1, <1>2, <1>3, <2>1 DEF BitOps
<1>5. Does("gorci", x, y, z, e) = Write(e, x.r, Combine(BitsOf(y, e), z.v))
  <2>1. \A i : i.op = "gorci" => RegularBits(i, e) =
          Write(e, i.args[1].r, Combine(BitsOf(i.args[2], e), i.args[3].v))
    BY BitCases
  <2> QED
    BY <1>1, <1>2, <1>3, <2>1 DEF BitOps
<1>6. Does("shfli", x, y, z, e) = Write(e, x.r, Shuffle(BitsOf(y, e), z.v))
  <2>1. \A i : i.op = "shfli" => RegularBits(i, e) =
          Write(e, i.args[1].r, Shuffle(BitsOf(i.args[2], e), i.args[3].v))
    BY BitCases
  <2> QED
    BY <1>1, <1>2, <1>3, <2>1 DEF BitOps
<1>7. Does("unshfli", x, y, z, e) = Write(e, x.r, Unshuffle(BitsOf(y, e), z.v))
  <2>1. \A i : i.op = "unshfli" => RegularBits(i, e) =
          Write(e, i.args[1].r, Unshuffle(BitsOf(i.args[2], e), i.args[3].v))
    BY BitCases
  <2> QED
    BY <1>1, <1>2, <1>3, <2>1 DEF BitOps
<1> QED
  BY <1>4, <1>5, <1>6, <1>7

(* ..., and the CSR.                                                       *)
LEMMA CsrDone ==
  ASSUME NEW e, NEW x, NEW y, NEW z
  PROVE  LET to(c) == [Write(e, x.r, e.csr) EXCEPT !.csr = c]
         IN /\ \A op \in {"csrrw", "csrrwi"} : Does(op, x, y, z, e) = to(BitsOf(z, e))
            /\ \A op \in {"csrrs", "csrrsi"} : Does(op, x, y, z, e) = to(e.csr \cup BitsOf(z, e))
            /\ \A op \in {"csrrc", "csrrci"} : Does(op, x, y, z, e) = to(e.csr \ BitsOf(z, e))
<1> DEFINE a == <<x, y, z>>
<1>1. a[1] = x /\ a[2] = y /\ a[3] = z
  OBVIOUS
<1> HIDE DEF a
<1>2. \A op : Instr(op, a).op = op /\ Instr(op, a).args = a
  BY DEF Instr
<1>3. \A op \in BitOps : Does(op, x, y, z, e) = RegularBits(Instr(op, a), e)
  BY <1>2 DEF Does, Regular, a
<1>4. \A i :
        /\ i.op \in {"csrrw", "csrrwi"} => RegularBits(i, e) =
             [Write(e, i.args[1].r, e.csr) EXCEPT !.csr = BitsOf(i.args[3], e)]
        /\ i.op \in {"csrrs", "csrrsi"} => RegularBits(i, e) =
             [Write(e, i.args[1].r, e.csr) EXCEPT !.csr = e.csr \cup BitsOf(i.args[3], e)]
        /\ i.op \in {"csrrc", "csrrci"} => RegularBits(i, e) =
             [Write(e, i.args[1].r, e.csr) EXCEPT !.csr = e.csr \ BitsOf(i.args[3], e)]
  BY ZenonT(40), BitCases
<1> QED
  BY <1>1, <1>2, <1>3, <1>4 DEF BitOps, CsrOps

(* The operands of the conversion's tables are what the names say.         *)
LEMMA UnitRows ==
  ASSUME NEW t \in UnitNames
  PROVE  /\ <<t[3], t[4]>> \in Sizes /\ t[1] # t[2]
         /\ <<t[1], "grevi", Imm(t[4] - t[3])>> \in Lasts
         /\ <<t[2], "gorci", Imm(t[4] - t[3])>> \in Lasts
<1>1. <<t[3], t[4]>> \in Sizes /\ t[1] # t[2]
  BY DEF UnitNames, Sizes
<1>2. <<t[1], t[4] - t[3]>> \in Reversals
  BY DEF UnitNames, Reversals
<1>3. <<t[2], t[4] - t[3]>> \in Combines
  BY DEF UnitNames, Combines
<1>4. \A r \in Reversals : <<r[1], "grevi", Imm(r[2])>> \in Lasts
  BY DEF Lasts, Bitmanip
<1>5. \A r \in Combines : <<r[1], "gorci", Imm(r[2])>> \in Lasts
  BY DEF Lasts, Bitmanip
<1> QED
  BY <1>1, <1>2, <1>3, <1>4, <1>5

(* So are those of the zips.                                               *)
LEMMA ZipRows ==
  ASSUME NEW t \in ZipNames
  PROVE  /\ <<t[3], t[4]>> \in ZipSizes /\ t[1] # t[2] /\ t \notin UnitNames
         /\ <<t[1], "shfli", Imm(t[4] \div 2 - t[3])>> \in Lasts
         /\ <<t[2], "unshfli", Imm(t[4] \div 2 - t[3])>> \in Lasts
<1>1. <<t[3], t[4]>> \in ZipSizes /\ t[1] # t[2]
  BY DEF ZipNames, ZipSizes
<1>2. t \notin UnitNames
  BY DEF UnitNames, ZipNames
<1>3. <<t[1], t[2], t[4] \div 2 - t[3]>> \in Shuffles
  BY DEF ZipNames, Shuffles
<1>4. \A r \in Shuffles : <<r[1], "shfli", Imm(r[3])>> \in Lasts /\ <<r[2], "unshfli", Imm(r[3])>> \in Lasts
  BY DEF Lasts, Bitmanip
<1> QED
  BY <1>1, <1>2, <1>3, <1>4

(* So flips, or-combines and shuffles by them are the reversals, combines  *)
(* and zips of the units that the name says.                               *)
LEMMA UnitIs ==
  ASSUME NEW op \in Units, NEW x \in SUBSET (0..31)
  PROVE  \E t \in Lasts :
           /\ t[1] = op /\ t[3].t = "imm"
           /\ \/ t[2] = "grevi" /\ Flip(x, t[3].v) = UnitPseudo(op, x)
              \/ t[2] = "gorci" /\ Combine(x, t[3].v) = UnitPseudo(op, x)
              \/ t[2] = "shfli" /\ Shuffle(x, t[3].v) = UnitPseudo(op, x)
              \/ t[2] = "unshfli" /\ Unshuffle(x, t[3].v) = UnitPseudo(op, x)
<1> DEFINE r == CHOOSE t \in UnitNames \cup ZipNames : op \in {t[1], t[2]}
           u == r[3]
           g == r[4]
           k == g - u
           z == g \div 2 - u
           a1 == {MovedTo(i, u, g, Backwards) : i \in x}
           a2 == {i \in 0..31 : \E j \in x : i \div g = j \div g /\ i % u = j % u}
           a3 == {MovedTo(i, u, g, Interleaved) : i \in x}
           a4 == {i \in 0..31 : MovedTo(i, u, g, Interleaved) \in x}
<1>1. r \in UnitNames \cup ZipNames /\ op \in {r[1], r[2]}
  BY DEF Units
<1>2. UnitPseudo(op, x) =
        CASE r \in UnitNames /\ op = r[1] -> a1
          [] r \in UnitNames /\ op = r[2] -> a2
          [] r \in ZipNames /\ op = r[1] -> a3
          [] r \in ZipNames /\ op = r[2] -> a4
  BY Zenon DEF UnitPseudo
<1> HIDE DEF r, a1, a2, a3, a4
<1>3. r \in UnitNames => r[1] # r[2] /\ r \notin ZipNames
  BY UnitRows, ZipRows
<1>4. r \in ZipNames => r[1] # r[2] /\ r \notin UnitNames
  BY ZipRows
<1>5. /\ r \in UnitNames /\ op = r[1] => UnitPseudo(op, x) = a1
      /\ r \in UnitNames /\ op = r[2] => UnitPseudo(op, x) = a2
      /\ r \in ZipNames /\ op = r[1] => UnitPseudo(op, x) = a3
      /\ r \in ZipNames /\ op = r[2] => UnitPseudo(op, x) = a4
  BY <1>2, <1>3, <1>4
<1>6. CASE r \in UnitNames
  <2>1. /\ <<u, g>> \in Sizes
        /\ <<r[1], "grevi", Imm(k)>> \in Lasts /\ <<r[2], "gorci", Imm(k)>> \in Lasts
    BY <1>6, UnitRows
  <2> HIDE DEF u, g, k
  <2>2. Flip(x, k) = a1
    <3>1. \A i \in x : Xor(i, k) = MovedTo(i, u, g, Backwards)
      BY <2>1, FlipIs DEF k
    <3> QED
      BY <3>1 DEF Flip, a1, u, g
  <2>3. Combine(x, k) = a2
    <3>1. ASSUME NEW i \in 0..31, NEW j \in x
          PROVE  (\A b \in 0..4 : Bit(k, b) = 0 => Bit(i, b) = Bit(j, b))
                   <=> i \div g = j \div g /\ i % u = j % u
      <4>1. j \in 0..31
        OBVIOUS
      <4>2. \A l, m : <<l, m>> \in Sizes =>
              ((\A b \in 0..4 : Bit(m - l, b) = 0 => Bit(i, b) = Bit(j, b))
                 <=> i \div m = j \div m /\ i % l = j % l)
        BY <4>1, CombineIs, Zenon
      <4> QED
        BY <2>1, <4>2, Zenon DEF k
    <3>2. a2 = {i \in 0..31 : \E j \in x : i \div g = j \div g /\ i % u = j % u}
      BY Zenon DEF a2, u, g
    <3> QED
      BY <3>1, <3>2 DEF Combine
  <2>4. Imm(k).t = "imm" /\ Imm(k).v = k
    BY DEF Imm
  <2>5. CASE op = r[1]
    <3> DEFINE t == <<r[1], "grevi", Imm(k)>>
    <3>1. t \in Lasts /\ t[1] = op /\ t[2] = "grevi" /\ t[3].t = "imm" /\ t[3].v = k
      BY <2>1, <2>5, <2>4
    <3> HIDE DEF t
    <3> QED
      BY <3>1, <2>5, <2>2, <2>4, <1>5, <1>6
  <2>6. CASE op = r[2]
    <3> DEFINE t == <<r[2], "gorci", Imm(k)>>
    <3>1. t \in Lasts /\ t[1] = op /\ t[2] = "gorci" /\ t[3].t = "imm" /\ t[3].v = k
      BY <2>1, <2>6, <2>4
    <3> HIDE DEF t
    <3> QED
      BY <3>1, <2>6, <2>3, <2>4, <1>5, <1>6
  <2> QED
    BY <1>1, <2>5, <2>6
<1>7. CASE r \in ZipNames
  <2>1. /\ <<u, g>> \in ZipSizes
        /\ <<r[1], "shfli", Imm(z)>> \in Lasts /\ <<r[2], "unshfli", Imm(z)>> \in Lasts
    BY <1>7, ZipRows
  <2> HIDE DEF u, g, z
  <2>2. \A i \in 0..31 : Shuffled(i, z) = MovedTo(i, u, g, Interleaved)
    BY <2>1, ZipIs DEF z
  <2>3. Shuffle(x, z) = a3
    BY <2>2 DEF Shuffle, a3, u, g
  <2>4. Unshuffle(x, z) = a4
    <3>1. a4 = {i \in 0..31 : Shuffled(i, z) \in x}
      BY <2>2 DEF a4, u, g
    <3>2. \A i \in 0..31 : /\ Shuffled(i, z) \in 0..31 /\ Unshuffled(i, z) \in 0..31
                           /\ Unshuffled(Shuffled(i, z), z) = i /\ Shuffled(Unshuffled(i, z), z) = i
      BY UnzipIs
    <3> QED
      BY <3>1, <3>2 DEF Unshuffle
  <2>5. Imm(z).t = "imm" /\ Imm(z).v = z
    BY DEF Imm
  <2>6. CASE op = r[1]
    <3> DEFINE t == <<r[1], "shfli", Imm(z)>>
    <3>1. t \in Lasts /\ t[1] = op /\ t[2] = "shfli" /\ t[3].t = "imm" /\ t[3].v = z
      BY <2>1, <2>6, <2>5
    <3> HIDE DEF t
    <3> QED
      BY <3>1, <2>6, <2>3, <2>5, <1>5, <1>7
  <2>7. CASE op = r[2]
    <3> DEFINE t == <<r[2], "unshfli", Imm(z)>>
    <3>1. t \in Lasts /\ t[1] = op /\ t[2] = "unshfli" /\ t[3].t = "imm" /\ t[3].v = z
      BY <2>1, <2>7, <2>5
    <3> HIDE DEF t
    <3> QED
      BY <3>1, <2>7, <2>4, <2>5, <1>5, <1>7
  <2> QED
    BY <1>1, <2>6, <2>7
<1> QED
  BY <1>1, <1>6, <1>7

(* Sequences, as the conversions make them.                                *)
LEMMA OneTwo ==
  ASSUME NEW x, NEW y, NEW z
  PROVE  <<x>> \o <<y, z>> = <<x, y, z>>
<1> DEFINE S == {x, y, z}
           a == <<x>>
           c == <<y, z>>
           r == <<x, y, z>>
           u == a \o c
<1>1. /\ a \in Seq(S) /\ c \in Seq(S) /\ r \in Seq(S) /\ Len(a) = 1 /\ Len(c) = 2 /\ Len(r) = 3
      /\ a[1] = x /\ c[1] = y /\ c[2] = z /\ r[1] = x /\ r[2] = y /\ r[3] = z
  OBVIOUS
<1> HIDE DEF a, c, r, S
<1>2. /\ u \in Seq(S) /\ Len(u) = Len(a) + Len(c)
      /\ \A i \in 1..Len(a) + Len(c) : u[i] = IF i <= Len(a) THEN a[i] ELSE c[i - Len(a)]
  BY <1>1, ConcatProperties, Zenon
<1> HIDE DEF u
<1>3. Len(u) = 3 /\ u[1] = x /\ u[2] = y /\ u[3] = z
  BY <1>1, <1>2
<1>4. \A i \in 1..3 : u[i] = r[i]
  BY <1>1, <1>3
<1>5. u = r
  BY <1>1, <1>2, <1>3, <1>4, SeqEqual
<1> QED
  BY <1>5 DEF u, a, c, r

(* Two operands and one more, ...                                          *)
LEMMA TwoOne ==
  ASSUME NEW x, NEW y, NEW z
  PROVE  <<x, y>> \o <<z>> = <<x, y, z>>
<1> DEFINE S == {x, y, z}
           a == <<x, y>>
           c == <<z>>
           r == <<x, y, z>>
           u == a \o c
<1>1. /\ a \in Seq(S) /\ c \in Seq(S) /\ r \in Seq(S) /\ Len(a) = 2 /\ Len(c) = 1 /\ Len(r) = 3
      /\ a[1] = x /\ a[2] = y /\ c[1] = z /\ r[1] = x /\ r[2] = y /\ r[3] = z
  OBVIOUS
<1> HIDE DEF a, c, r, S
<1>2. /\ u \in Seq(S) /\ Len(u) = Len(a) + Len(c)
      /\ \A i \in 1..Len(a) + Len(c) : u[i] = IF i <= Len(a) THEN a[i] ELSE c[i - Len(a)]
  BY <1>1, ConcatProperties, Zenon
<1> HIDE DEF u
<1>3. Len(u) = 3 /\ u[1] = x /\ u[2] = y /\ u[3] = z
  BY <1>1, <1>2
<1>4. \A i \in 1..3 : u[i] = r[i]
  BY <1>1, <1>3
<1>5. u = r
  BY <1>1, <1>2, <1>3, <1>4, SeqEqual
<1> QED
  BY <1>5 DEF u, a, c, r

(* ..., appended.                                                          *)
LEMMA AppendThird ==
  ASSUME NEW x, NEW y, NEW z
  PROVE  Append(<<x, y>>, z) = <<x, y, z>>
<1> DEFINE S == {x, y, z}
           a == <<x, y>>
<1>1. a \in Seq(S) /\ z \in S
  OBVIOUS
<1> HIDE DEF a, S
<1>2. Append(a, z) = a \o <<z>>
  BY <1>1, AppendIsConcat
<1> QED
  BY <1>2, TwoOne DEF a

(* What is behind the first two.                                           *)
LEMMA ThirdIs ==
  ASSUME NEW x, NEW y, NEW z
  PROVE  LET r == <<x, y, z>> IN SubSeq(r, 3, Len(r)) = <<z>>
<1> DEFINE S == {x, y, z}
           c == <<z>>
           r == <<x, y, z>>
           u == SubSeq(r, 3, 3)
<1>1. /\ c \in Seq(S) /\ Len(c) = 1 /\ c[1] = z /\ z \in S
      /\ r \in Seq(S) /\ Len(r) = 3 /\ r[3] = z
  OBVIOUS
<1> HIDE DEF c, r, S
<1>2. \A i \in 3..3 : r[i] \in S
  BY <1>1
<1>3. u \in Seq(S) /\ Len(u) = 1 /\ u[1] = z
  BY <1>1, <1>2, SubSeqProperties
<1> HIDE DEF u
<1>4. \A i \in 1..1 : u[i] = c[i]
  BY <1>1, <1>3
<1>5. u = c
  BY <1>1, <1>3, <1>4, SeqEqual
<1> QED
  BY <1>1, <1>5, Zenon DEF u, c, r

(* What a converted pseudo instruction does, by the table that has it.     *)
Effect(op, a, d, e) == Regular(Convert(op, a, d), e)

LEMMA LastsDone ==
  ASSUME NEW t \in Lasts, NEW x, NEW y, NEW d, NEW e
  PROVE  Effect(t[1], <<x, y>>, d, e) = Does(t[2], x, y, t[3], e)
<1> DEFINE a == <<x, y>>
<1>1. Append(a, t[3]) = <<x, y, t[3]>>
  BY AppendThird
<1> HIDE DEF a
<1>2. Convert(t[1], a, d) = Instr(t[2], Append(a, t[3]))
  BY LastsConverted
<1>3. Effect(t[1], a, d, e) = Does(t[2], x, y, t[3], e)
  BY <1>1, <1>2, Zenon DEF Effect, Does
<1> QED
  BY <1>3 DEF a

(* The same with zero as the second operand, ...                           *)
LEMMA SecondsDone ==
  ASSUME NEW t \in ZeroSecond, NEW x, NEW y, NEW d, NEW e
  PROVE  Effect(t[1], <<x, y>>, d, e) = Does(t[2], x, Zero, y, e)
<1> DEFINE a == <<x, y>>
<1>1. a[1] = x /\ Tail(a) = <<y>>
  OBVIOUS
<1> HIDE DEF a
<1>2. Convert(t[1], a, d) = Instr(t[2], <<a[1], Zero>> \o Tail(a))
  BY SecondsConverted
<1>3. <<a[1], Zero>> \o Tail(a) = <<x, Zero, y>>
  BY <1>1, TwoOne
<1>4. Effect(t[1], a, d, e) = Does(t[2], x, Zero, y, e)
  BY <1>2, <1>3, Zenon DEF Effect, Does
<1> QED
  BY <1>4 DEF a

(* ..., as the first, ...                                                  *)
LEMMA FirstsDone ==
  ASSUME NEW t \in ZeroFirst, NEW x, NEW y, NEW d, NEW e
  PROVE  Effect(t[1], <<x, y>>, d, e) = Does(t[2], Zero, x, y, e)
<1> DEFINE a == <<x, y>>
<1>1. <<Zero>> \o a = <<Zero, x, y>>
  BY OneTwo
<1> HIDE DEF a
<1>2. Convert(t[1], a, d) = Instr(t[2], <<Zero>> \o a)
  BY FirstsConverted
<1>3. Effect(t[1], a, d, e) = Does(t[2], Zero, x, y, e)
  BY <1>1, <1>2, Zenon DEF Effect, Does
<1> QED
  BY <1>3 DEF a

(* ..., and with the first two swapped.                                    *)
LEMMA SwappedDone ==
  ASSUME NEW t \in Swapped, NEW x, NEW y, NEW z, NEW d, NEW e
  PROVE  Effect(t[1], <<x, y, z>>, d, e) = Does(t[2], y, x, z, e)
<1> DEFINE b == <<x, y, z>>
<1>1. b[1] = x /\ b[2] = y
  OBVIOUS
<1>2. SubSeq(b, 3, Len(b)) = <<z>>
  BY ThirdIs
<1> HIDE DEF b
<1>3. Convert(t[1], b, d) = Instr(t[2], <<b[2], b[1]>> \o SubSeq(b, 3, Len(b)))
  BY SwappedConverted
<1>4. <<b[2], b[1]>> \o SubSeq(b, 3, Len(b)) = <<y, x, z>>
  BY <1>1, <1>2, TwoOne
<1>5. Effect(t[1], b, d, e) = Does(t[2], y, x, z, e)
  BY <1>3, <1>4, Zenon DEF Effect, Does
<1> QED
  BY <1>5 DEF b

(* The bits of a number that is -1.                                        *)
LEMMA MinusOne ==
  ASSUME NEW m \in Nat \ {0}, NEW v \in Int, v = -1
  PROVE  v \div m = v /\ v % m = m - 1
<1> DEFINE q == v \div m
           r == v % m
<1>1. q \in Int /\ r \in 0..(m - 1) /\ v = m * q + r
  OBVIOUS
<1> HIDE DEF q, r
<1>2. m * q = -1 - r
  BY <1>1
<1>3. q < 0
  <2>1. q >= 0 => m * q >= 0
    BY <1>1
  <2> QED
    BY <1>1, <1>2, <2>1
<1>4. q > -2
  <2>1. q <= -2 => m * q <= -2 * m
    BY <1>1
  <2> QED
    BY <1>1, <1>2, <2>1
<1>5. q = -1
  BY <1>1, <1>3, <1>4
<1>6. r = m - 1
  BY <1>1, <1>5
<1> QED
  BY <1>5, <1>6 DEF q, r

(* The weights of its bits.                                                *)
LEMMA PowersNat == \A i \in 0..11 : 2^i \in Nat \ {0}
<1>1. /\ 2^0 = 1 /\ 2^1 = 2 /\ 2^2 = 4 /\ 2^3 = 8 /\ 2^4 = 16 /\ 2^5 = 32
      /\ 2^6 = 64 /\ 2^7 = 128 /\ 2^8 = 256 /\ 2^9 = 512 /\ 2^10 = 1024 /\ 2^11 = 2048
  OBVIOUS
<1> DEFINE P(i) == 2^i
<1>2. /\ P(0) = 1 /\ P(1) = 2 /\ P(2) = 4 /\ P(3) = 8 /\ P(4) = 16 /\ P(5) = 32
      /\ P(6) = 64 /\ P(7) = 128 /\ P(8) = 256 /\ P(9) = 512 /\ P(10) = 1024 /\ P(11) = 2048
  BY <1>1
<1> HIDE DEF P
<1>3. \A i \in 0..11 : P(i) \in Nat \ {0}
  BY <1>2
<1> QED
  BY <1>3 DEF P

(* All of them are one.                                                    *)
LEMMA MinusOneBits ==
  ASSUME NEW v \in Int, v = -1
  PROVE  \A i \in 0..11 : (v \div 2^i) % 2 = 1
<1>1. \A m \in Nat \ {0} : v \div m = v /\ v % m = m - 1
  BY MinusOne
<1> DEFINE P(i) == 2^i
<1>2. \A i \in 0..11 : P(i) \in Nat \ {0}
  BY PowersNat
<1> HIDE DEF P
<1>3. \A i \in 0..11 : v \div P(i) = v
  BY <1>1, <1>2
<1>4. v % 2 = 1
  <2>1. 2 \in Nat \ {0} /\ 2 - 1 = 1
    OBVIOUS
  <2>2. v % 2 = 2 - 1
    BY <1>1, <2>1
  <2> QED
    BY <2>1, <2>2
<1> QED
  BY <1>3, <1>4 DEF P

(* The bits of the immediate operands.                                     *)
LEMMA BitsOfThem == Bits(255) = 0..7 /\ Bits(-1) = 0..31 /\ Bits(5) = {0, 2}
<1>1. /\ 2^0 = 1 /\ 2^1 = 2 /\ 2^2 = 4 /\ 2^3 = 8 /\ 2^4 = 16 /\ 2^5 = 32
      /\ 2^6 = 64 /\ 2^7 = 128 /\ 2^8 = 256 /\ 2^9 = 512 /\ 2^10 = 1024 /\ 2^11 = 2048
  OBVIOUS
<1> DEFINE Digit(v, i) == (v \div 2^i) % 2 = 1
<1>2. /\ Digit(255, 0) /\ Digit(255, 1) /\ Digit(255, 2) /\ Digit(255, 3) /\ Digit(255, 4) /\ Digit(255, 5)
      /\ Digit(255, 6) /\ Digit(255, 7) /\ ~Digit(255, 8) /\ ~Digit(255, 9) /\ ~Digit(255, 10) /\ ~Digit(255, 11)
  BY <1>1
<1>3. ASSUME NEW v \in Int, v = -1 PROVE \A i \in 0..11 : Digit(v, i)
  BY <1>3, MinusOneBits
<1>4. /\ Digit(5, 0) /\ ~Digit(5, 1) /\ Digit(5, 2) /\ ~Digit(5, 3) /\ ~Digit(5, 4) /\ ~Digit(5, 5)
      /\ ~Digit(5, 6) /\ ~Digit(5, 7) /\ ~Digit(5, 8) /\ ~Digit(5, 9) /\ ~Digit(5, 10) /\ ~Digit(5, 11)
  BY <1>1
<1>5. \A v : Bits(v) = {i \in 0..31 : IF i < 12 THEN Digit(v, i) ELSE v < 0}
  BY DEF Bits
<1> HIDE DEF Digit
<1>6. \A i \in 0..31 : i < 12 => i \in {0, 1, 2, 3, 4, 5, 6, 7, 8, 9, 10, 11}
  OBVIOUS
<1>7. Bits(255) = 0..7
  BY <1>2, <1>5, <1>6
<1>8. Bits(-1) = 0..31
  <2>1. \A v \in Int : v = -1 => Bits(v) = 0..31
    BY <1>3, <1>5, <1>6
  <2> QED
    BY <2>1
<1>9. Bits(5) = {0, 2}
  BY <1>4, <1>5, <1>6
<1> QED
  BY <1>7, <1>8, <1>9

(* The integers of W bits.                                                 *)
IntsOfW == -(2^(W - 1))..(2^(W - 1) - 1)

(* They are what they are modulo 2^W, and as unsigned ones zero only at 0. *)
LEMMA IntIs ==
  ASSUME NEW v \in IntsOfW
  PROVE  /\ v \in Int /\ Wrap(v) = v /\ v + 0 = v /\ 0 - v = -v /\ 0 + 0 = 0
         /\ Uns(0) = 0 /\ Uns(1) = 1 /\ (Uns(v) < 1 <=> v = 0) /\ (0 < Uns(v) <=> v # 0)
<1>1. CASE W = 2
  BY <1>1 DEF IntsOfW, Wrap, Uns
<1>2. CASE W = 4
  BY <1>2 DEF IntsOfW, Wrap, Uns
<1>3. CASE W = 6
  BY <1>3 DEF IntsOfW, Wrap, Uns
<1>4. CASE W = 8
  BY <1>4 DEF IntsOfW, Wrap, Uns
<1> QED
  BY <1>1, <1>2, <1>3, <1>4, PseudoIsaAssumption

(* What each pseudo instruction means, on integers ...                     *)
LEMMA IntMeanings ==
  ASSUME NEW e
  PROVE  /\ Meaning("nop", e) = Nothing(e)
         /\ Meaning("mv", e) = Write(e, "rd", e.rs)
         /\ Meaning("neg", e) = Write(e, "rd", Wrap(-e.rs))
         /\ Meaning("negw", e) = Write(e, "rd", Half(-e.rs))
         /\ Meaning("sext.w", e) = Write(e, "rd", Half(e.rs))
         /\ Meaning("seqz", e) = Write(e, "rd", Bool(e.rs = 0))
         /\ Meaning("snez", e) = Write(e, "rd", Bool(e.rs # 0))
         /\ Meaning("sltz", e) = Write(e, "rd", Bool(e.rs < 0))
         /\ Meaning("sgtz", e) = Write(e, "rd", Bool(e.rs > 0))
         /\ Meaning("beqz", e) = Branch(e, e.rs = 0, Imm(e.off))
         /\ Meaning("bnez", e) = Branch(e, e.rs # 0, Imm(e.off))
         /\ Meaning("bgez", e) = Branch(e, e.rs >= 0, Imm(e.off))
         /\ Meaning("bltz", e) = Branch(e, e.rs < 0, Imm(e.off))
         /\ Meaning("blez", e) = Branch(e, e.rs <= 0, Imm(e.off))
         /\ Meaning("bgtz", e) = Branch(e, e.rs > 0, Imm(e.off))
         /\ Meaning("bgt", e) = Branch(e, e.rs > e.rt, Imm(e.off))
         /\ Meaning("ble", e) = Branch(e, e.rs <= e.rt, Imm(e.off))
         /\ Meaning("bgtu", e) = Branch(e, Uns(e.rs) > Uns(e.rt), Imm(e.off))
         /\ Meaning("bleu", e) = Branch(e, Uns(e.rs) <= Uns(e.rt), Imm(e.off))
         /\ Meaning("jr", e) = [Nothing(e) EXCEPT !.to = At("rs")]
         /\ Meaning("j", e) = [Nothing(e) EXCEPT !.to = By(Imm(e.off))]
         /\ Meaning("jal", e) = [Write(e, "ra", Link) EXCEPT !.to = By(Imm(e.off))]
         /\ Meaning("jalr", e) = [Write(e, "ra", Link) EXCEPT !.to = At("rs")]
         /\ Meaning("ret", e) = [Nothing(e) EXCEPT !.to = At("ra")]
<1>1. \A op \in {"nop", "mv", "neg", "negw", "sext.w", "seqz", "snez", "sltz", "sgtz", "beqz",
                "bnez", "bgez", "bltz", "blez", "bgtz", "bgt", "ble", "bgtu", "bleu", "jr", "j",
                "jal", "jalr", "ret"} :
        Meaning(op, e) = MeaningInt(op, e)
  BY DEF Meaning, BitPseudos, Units, UnitNames, ZipNames
<1>2. /\ Meaning("nop", e) = Nothing(e)
      /\ Meaning("mv", e) = Write(e, "rd", e.rs)
      /\ Meaning("neg", e) = Write(e, "rd", Wrap(-e.rs))
      /\ Meaning("negw", e) = Write(e, "rd", Half(-e.rs))
      /\ Meaning("sext.w", e) = Write(e, "rd", Half(e.rs))
  BY <1>1 DEF MeaningInt
<1>3. /\ Meaning("seqz", e) = Write(e, "rd", Bool(e.rs = 0))
      /\ Meaning("snez", e) = Write(e, "rd", Bool(e.rs # 0))
      /\ Meaning("sltz", e) = Write(e, "rd", Bool(e.rs < 0))
      /\ Meaning("sgtz", e) = Write(e, "rd", Bool(e.rs > 0))
  BY <1>1 DEF MeaningInt
<1>4. /\ Meaning("beqz", e) = Branch(e, e.rs = 0, Imm(e.off))
      /\ Meaning("bnez", e) = Branch(e, e.rs # 0, Imm(e.off))
      /\ Meaning("bgez", e) = Branch(e, e.rs >= 0, Imm(e.off))
      /\ Meaning("bltz", e) = Branch(e, e.rs < 0, Imm(e.off))
      /\ Meaning("blez", e) = Branch(e, e.rs <= 0, Imm(e.off))
      /\ Meaning("bgtz", e) = Branch(e, e.rs > 0, Imm(e.off))
  BY <1>1 DEF MeaningInt
<1>5. /\ Meaning("bgt", e) = Branch(e, e.rs > e.rt, Imm(e.off))
      /\ Meaning("ble", e) = Branch(e, e.rs <= e.rt, Imm(e.off))
      /\ Meaning("bgtu", e) = Branch(e, Uns(e.rs) > Uns(e.rt), Imm(e.off))
      /\ Meaning("bleu", e) = Branch(e, Uns(e.rs) <= Uns(e.rt), Imm(e.off))
  BY <1>1 DEF MeaningInt
<1>6. /\ Meaning("jr", e) = [Nothing(e) EXCEPT !.to = At("rs")]
      /\ Meaning("j", e) = [Nothing(e) EXCEPT !.to = By(Imm(e.off))]
      /\ Meaning("jal", e) = [Write(e, "ra", Link) EXCEPT !.to = By(Imm(e.off))]
      /\ Meaning("jalr", e) = [Write(e, "ra", Link) EXCEPT !.to = At("rs")]
      /\ Meaning("ret", e) = [Nothing(e) EXCEPT !.to = At("ra")]
  BY <1>1 DEF MeaningInt
<1> QED
  BY <1>2, <1>3, <1>4, <1>5, <1>6

(* ..., and on words.                                                      *)
LEMMA BitMeanings ==
  ASSUME NEW e
  PROVE  /\ \A op \in Units : Meaning(op, e) = Write(e, "rd", UnitPseudo(op, e.rs))
         /\ Meaning("not", e) = Write(e, "rd", (0..31) \ e.rs)
         /\ Meaning("zext.b", e) = Write(e, "rd", {i \in e.rs : i < 8})
         /\ Meaning("zext.h", e) = Write(e, "rd", {i \in e.rs : i < 16})
         /\ Meaning("zext.w", e) = Write(e, "rd", {i \in e.rs : i < 32})
         /\ Meaning("csrr", e) = Write(e, "rd", e.csr)
         /\ Meaning("csrw", e) = [Nothing(e) EXCEPT !.csr = e.rs]
         /\ Meaning("csrs", e) = [Nothing(e) EXCEPT !.csr = @ \cup e.rs]
         /\ Meaning("csrc", e) = [Nothing(e) EXCEPT !.csr = @ \ e.rs]
         /\ Meaning("csrwi", e) = [Nothing(e) EXCEPT !.csr = {0, 2}]
         /\ Meaning("csrsi", e) = [Nothing(e) EXCEPT !.csr = @ \cup {0, 2}]
         /\ Meaning("csrci", e) = [Nothing(e) EXCEPT !.csr = @ \ {0, 2}]
<1>1. \A op \in BitPseudos : Meaning(op, e) = MeaningBits(op, e)
  BY DEF Meaning
<1>2. {"not", "zext.b", "zext.h", "zext.w", "csrr", "csrw", "csrs", "csrc", "csrwi", "csrsi", "csrci"} \cap Units = {}
  BY DEF Units, UnitNames, ZipNames
<1>3. \A op \in Units : Meaning(op, e) = Write(e, "rd", UnitPseudo(op, e.rs))
  BY <1>1, <1>2 DEF BitPseudos, MeaningBits
<1>4. /\ Meaning("not", e) = Write(e, "rd", (0..31) \ e.rs)
      /\ Meaning("zext.b", e) = Write(e, "rd", {i \in e.rs : i < 8})
      /\ Meaning("zext.h", e) = Write(e, "rd", {i \in e.rs : i < 16})
      /\ Meaning("zext.w", e) = Write(e, "rd", {i \in e.rs : i < 32})
  BY <1>1, <1>2 DEF BitPseudos, MeaningBits
<1>5. /\ Meaning("csrr", e) = Write(e, "rd", e.csr)
      /\ Meaning("csrw", e) = [Nothing(e) EXCEPT !.csr = e.rs]
      /\ Meaning("csrs", e) = [Nothing(e) EXCEPT !.csr = @ \cup e.rs]
      /\ Meaning("csrc", e) = [Nothing(e) EXCEPT !.csr = @ \ e.rs]
      /\ Meaning("csrwi", e) = [Nothing(e) EXCEPT !.csr = {0, 2}]
      /\ Meaning("csrsi", e) = [Nothing(e) EXCEPT !.csr = @ \cup {0, 2}]
      /\ Meaning("csrci", e) = [Nothing(e) EXCEPT !.csr = @ \ {0, 2}]
  BY <1>1, <1>2 DEF BitPseudos, MeaningBits
<1> QED
  BY <1>3, <1>4, <1>5

(* The pseudo instructions on integers, converted: what is computed, ...   *)
LEMMA IntsMean ==
  ASSUME NEW e, e.rs \in IntsOfW, e.zero = 0, NEW d
  PROVE  \A op \in Moves \ BitPseudos : Effect(op, <<Reg("rd"), Reg("rs")>>, d, e) = Meaning(op, e)
<1> DEFINE a == <<Reg("rd"), Reg("rs")>>
           v == e.rs
<1>1. /\ IntOf(Reg("rs"), e) = v /\ IntOf(Zero, e) = 0 /\ Reg("rd").r = "rd"
      /\ \A c : IntOf(Imm(c), e) = c
  BY DEF IntOf, Reg, Zero, Imm
<1>2. /\ v \in Int /\ Wrap(v) = v /\ v + 0 = v /\ 0 - v = -v
      /\ Uns(0) = 0 /\ Uns(1) = 1 /\ (Uns(v) < 1 <=> v = 0) /\ (0 < Uns(v) <=> v # 0)
  BY IntIs
<1>3. /\ \A t \in Lasts : Effect(t[1], a, d, e) = Does(t[2], Reg("rd"), Reg("rs"), t[3], e)
      /\ \A t \in ZeroSecond : Effect(t[1], a, d, e) = Does(t[2], Reg("rd"), Zero, Reg("rs"), e)
  BY LastsDone, SecondsDone, FirstsDone
<1> HIDE DEF a, v
<1>4. Effect("mv", a, d, e) = Meaning("mv", e)
  <2>1. <<"mv", "addi", Imm(0)>> \in Lasts
    BY DEF Lasts, Appended
  <2>2. Effect("mv", a, d, e) = Does("addi", Reg("rd"), Reg("rs"), Imm(0), e)
    BY <2>1, <1>3
  <2>3. Does("addi", Reg("rd"), Reg("rs"), Imm(0), e) = Write(e, "rd", Wrap(v + 0))
    BY <1>1, IntsDone
  <2>4. Wrap(v + 0) = v
    BY <1>2
  <2> QED
    BY <2>2, <2>3, <2>4, IntMeanings DEF v
<1>5. Effect("sext.w", a, d, e) = Meaning("sext.w", e)
  <2>1. <<"sext.w", "addiw", Imm(0)>> \in Lasts
    BY DEF Lasts, Appended
  <2>2. Effect("sext.w", a, d, e) = Does("addiw", Reg("rd"), Reg("rs"), Imm(0), e)
    BY <2>1, <1>3
  <2>3. Does("addiw", Reg("rd"), Reg("rs"), Imm(0), e) = Write(e, "rd", Half(v + 0))
    BY <1>1, IntsDone
  <2> QED
    BY <2>2, <2>3, <1>2, IntMeanings DEF v
<1>6. Effect("seqz", a, d, e) = Meaning("seqz", e)
  <2>1. <<"seqz", "sltiu", Imm(1)>> \in Lasts
    BY DEF Lasts, Appended
  <2>2. Effect("seqz", a, d, e) = Does("sltiu", Reg("rd"), Reg("rs"), Imm(1), e)
    BY <2>1, <1>3
  <2>3. Does("sltiu", Reg("rd"), Reg("rs"), Imm(1), e) = Write(e, "rd", Bool(Uns(v) < Uns(1)))
    BY <1>1, IntsDone
  <2> QED
    BY <2>2, <2>3, <1>2, IntMeanings DEF v, Bool
<1>7. Effect("sltz", a, d, e) = Meaning("sltz", e)
  <2>1. <<"sltz", "slt", Zero>> \in Lasts
    BY DEF Lasts, Appended
  <2>2. Effect("sltz", a, d, e) = Does("slt", Reg("rd"), Reg("rs"), Zero, e)
    BY <2>1, <1>3
  <2>3. Does("slt", Reg("rd"), Reg("rs"), Zero, e) = Write(e, "rd", Bool(v < 0))
    BY <1>1, IntsDone
  <2> QED
    BY <2>2, <2>3, <1>2, IntMeanings DEF v
<1>8. Effect("neg", a, d, e) = Meaning("neg", e)
  <2>1. <<"neg", "sub">> \in ZeroSecond
    BY DEF ZeroSecond
  <2>2. Effect("neg", a, d, e) = Does("sub", Reg("rd"), Zero, Reg("rs"), e)
    BY <2>1, <1>3
  <2>3. Does("sub", Reg("rd"), Zero, Reg("rs"), e) = Write(e, "rd", Wrap(0 - v))
    BY <1>1, IntsDone
  <2> QED
    BY <2>2, <2>3, <1>2, IntMeanings DEF v
<1>9. Effect("negw", a, d, e) = Meaning("negw", e)
  <2>1. <<"negw", "subw">> \in ZeroSecond
    BY DEF ZeroSecond
  <2>2. Effect("negw", a, d, e) = Does("subw", Reg("rd"), Zero, Reg("rs"), e)
    BY <2>1, <1>3
  <2>3. Does("subw", Reg("rd"), Zero, Reg("rs"), e) = Write(e, "rd", Half(0 - v))
    BY <1>1, IntsDone
  <2> QED
    BY <2>2, <2>3, <1>2, IntMeanings DEF v
<1>10. Effect("snez", a, d, e) = Meaning("snez", e)
  <2>1. <<"snez", "sltu">> \in ZeroSecond
    BY DEF ZeroSecond
  <2>2. Effect("snez", a, d, e) = Does("sltu", Reg("rd"), Zero, Reg("rs"), e)
    BY <2>1, <1>3
  <2>3. Does("sltu", Reg("rd"), Zero, Reg("rs"), e) = Write(e, "rd", Bool(Uns(0) < Uns(v)))
    BY <1>1, IntsDone
  <2> QED
    BY <2>2, <2>3, <1>2, IntMeanings DEF v, Bool
<1>11. Effect("sgtz", a, d, e) = Meaning("sgtz", e)
  <2>1. <<"sgtz", "slt">> \in ZeroSecond
    BY DEF ZeroSecond
  <2>2. Effect("sgtz", a, d, e) = Does("slt", Reg("rd"), Zero, Reg("rs"), e)
    BY <2>1, <1>3
  <2>3. Does("slt", Reg("rd"), Zero, Reg("rs"), e) = Write(e, "rd", Bool(0 < v))
    BY <1>1, IntsDone
  <2> QED
    BY <2>2, <2>3, <1>2, IntMeanings DEF v, Bool
<1>12. Moves \ BitPseudos \subseteq {"mv", "sext.w", "seqz", "sltz", "neg", "negw", "snez", "sgtz"}
  BY DEF Moves, BitPseudos
<1> QED
  BY <1>4, <1>5, <1>6, <1>7, <1>8, <1>9, <1>10, <1>11, <1>12 DEF a

(* ..., modulo 2^W, ...                                                    *)
LEMMA PowerIs == 2^W \in Nat \ {0}
<1>1. W = 2 => 2^W = 4
  OBVIOUS
<1>2. W = 4 => 2^W = 16
  OBVIOUS
<1>3. W = 6 => 2^W = 64
  OBVIOUS
<1>4. W = 8 => 2^W = 256
  OBVIOUS
<1> QED
  BY <1>1, <1>2, <1>3, <1>4, PseudoIsaAssumption

(* ..., where the branches go, ...                                         *)
LEMMA BranchesMean ==
  ASSUME NEW e, e.rs \in IntsOfW, e.rt \in IntsOfW, e.zero = 0, NEW d,
         NEW o, Uns(o) = Uns(e.off)
  PROVE  /\ \A op \in Branches : Effect(op, <<Reg("rs"), Imm(o)>>, d, e) = Meaning(op, e)
         /\ \A op \in TwoBranches :
              Effect(op, <<Reg("rs"), Reg("rt"), Imm(o)>>, d, e) = Meaning(op, e)
<1> DEFINE a == <<Reg("rs"), Imm(o)>>
           b == <<Reg("rs"), Reg("rt"), Imm(o)>>
           v == e.rs
           w == e.rt
<1>1. IntOf(Reg("rs"), e) = v /\ IntOf(Reg("rt"), e) = w /\ IntOf(Zero, e) = 0
  BY DEF IntOf, Reg, Zero, Imm
<1>2. v \in Int /\ w \in Int
  BY IntIs
<1>3. Uns(v) \in Int /\ Uns(w) \in Int
  BY <1>2, PowerIs DEF Uns
<1>4. \A p : Branch(e, p, Imm(o)) = Branch(e, p, Imm(e.off))
  BY DEF Branch, By, Imm
<1>5. /\ \A t \in ZeroSecond : Effect(t[1], a, d, e) = Does(t[2], Reg("rs"), Zero, Imm(o), e)
      /\ \A t \in ZeroFirst : Effect(t[1], a, d, e) = Does(t[2], Zero, Reg("rs"), Imm(o), e)
  BY LastsDone, SecondsDone, FirstsDone
<1>17. \A t \in Swapped : Effect(t[1], b, d, e) = Does(t[2], Reg("rt"), Reg("rs"), Imm(o), e)
  BY SwappedDone
<1> HIDE DEF a, b, v, w
<1>6. /\ <<"beqz", "beq">> \in ZeroSecond /\ <<"bnez", "bne">> \in ZeroSecond
      /\ <<"bgez", "bge">> \in ZeroSecond /\ <<"bltz", "blt">> \in ZeroSecond
      /\ <<"blez", "bge">> \in ZeroFirst /\ <<"bgtz", "blt">> \in ZeroFirst
      /\ <<"bgt", "blt">> \in Swapped /\ <<"ble", "bge">> \in Swapped
      /\ <<"bgtu", "bltu">> \in Swapped /\ <<"bleu", "bgeu">> \in Swapped
  BY DEF ZeroSecond, ZeroFirst, Swapped
<1>7. Effect("beqz", a, d, e) = Meaning("beqz", e)
  <2>1. Effect("beqz", a, d, e) = Does("beq", Reg("rs"), Zero, Imm(o), e)
    BY <1>5, <1>6
  <2>2. Does("beq", Reg("rs"), Zero, Imm(o), e) = Branch(e, v = 0, Imm(o))
    BY <1>1, IntsDone
  <2> QED
    BY <2>1, <2>2, <1>4, IntMeanings DEF v
<1>8. Effect("bnez", a, d, e) = Meaning("bnez", e)
  <2>1. Effect("bnez", a, d, e) = Does("bne", Reg("rs"), Zero, Imm(o), e)
    BY <1>5, <1>6
  <2>2. Does("bne", Reg("rs"), Zero, Imm(o), e) = Branch(e, v # 0, Imm(o))
    BY <1>1, IntsDone
  <2> QED
    BY <2>1, <2>2, <1>4, IntMeanings DEF v
<1>9. Effect("bgez", a, d, e) = Meaning("bgez", e)
  <2>1. Effect("bgez", a, d, e) = Does("bge", Reg("rs"), Zero, Imm(o), e)
    BY <1>5, <1>6
  <2>2. Does("bge", Reg("rs"), Zero, Imm(o), e) = Branch(e, v >= 0, Imm(o))
    BY <1>1, IntsDone
  <2> QED
    BY <2>1, <2>2, <1>4, IntMeanings DEF v
<1>10. Effect("bltz", a, d, e) = Meaning("bltz", e)
  <2>1. Effect("bltz", a, d, e) = Does("blt", Reg("rs"), Zero, Imm(o), e)
    BY <1>5, <1>6
  <2>2. Does("blt", Reg("rs"), Zero, Imm(o), e) = Branch(e, v < 0, Imm(o))
    BY <1>1, IntsDone
  <2> QED
    BY <2>1, <2>2, <1>4, IntMeanings DEF v
<1>11. Effect("blez", a, d, e) = Meaning("blez", e)
  <2>1. Effect("blez", a, d, e) = Does("bge", Zero, Reg("rs"), Imm(o), e)
    BY <1>5, <1>6
  <2>2. Does("bge", Zero, Reg("rs"), Imm(o), e) = Branch(e, 0 >= v, Imm(o))
    BY <1>1, IntsDone
  <2>3. 0 >= v <=> v <= 0
    BY <1>2, <1>3
  <2>4. Branch(e, 0 >= v, Imm(o)) = Branch(e, v <= 0, Imm(e.off))
    BY <2>3, <1>4 DEF Branch
  <2> QED
    BY <2>1, <2>2, <2>4, IntMeanings DEF v, w
<1>12. Effect("bgtz", a, d, e) = Meaning("bgtz", e)
  <2>1. Effect("bgtz", a, d, e) = Does("blt", Zero, Reg("rs"), Imm(o), e)
    BY <1>5, <1>6
  <2>2. Does("blt", Zero, Reg("rs"), Imm(o), e) = Branch(e, 0 < v, Imm(o))
    BY <1>1, IntsDone
  <2>3. 0 < v <=> v > 0
    BY <1>2, <1>3
  <2>4. Branch(e, 0 < v, Imm(o)) = Branch(e, v > 0, Imm(e.off))
    BY <2>3, <1>4 DEF Branch
  <2> QED
    BY <2>1, <2>2, <2>4, IntMeanings DEF v, w
<1>13. Effect("bgt", b, d, e) = Meaning("bgt", e)
  <2>1. Effect("bgt", b, d, e) = Does("blt", Reg("rt"), Reg("rs"), Imm(o), e)
    BY <1>17, <1>6
  <2>2. Does("blt", Reg("rt"), Reg("rs"), Imm(o), e) = Branch(e, w < v, Imm(o))
    BY <1>1, IntsDone
  <2>3. w < v <=> v > w
    BY <1>2, <1>3
  <2>4. Branch(e, w < v, Imm(o)) = Branch(e, v > w, Imm(e.off))
    BY <2>3, <1>4 DEF Branch
  <2> QED
    BY <2>1, <2>2, <2>4, IntMeanings DEF v, w
<1>14. Effect("ble", b, d, e) = Meaning("ble", e)
  <2>1. Effect("ble", b, d, e) = Does("bge", Reg("rt"), Reg("rs"), Imm(o), e)
    BY <1>17, <1>6
  <2>2. Does("bge", Reg("rt"), Reg("rs"), Imm(o), e) = Branch(e, w >= v, Imm(o))
    BY <1>1, IntsDone
  <2>3. w >= v <=> v <= w
    BY <1>2, <1>3
  <2>4. Branch(e, w >= v, Imm(o)) = Branch(e, v <= w, Imm(e.off))
    BY <2>3, <1>4 DEF Branch
  <2> QED
    BY <2>1, <2>2, <2>4, IntMeanings DEF v, w
<1>15. Effect("bgtu", b, d, e) = Meaning("bgtu", e)
  <2>1. Effect("bgtu", b, d, e) = Does("bltu", Reg("rt"), Reg("rs"), Imm(o), e)
    BY <1>17, <1>6
  <2>2. Does("bltu", Reg("rt"), Reg("rs"), Imm(o), e) = Branch(e, Uns(w) < Uns(v), Imm(o))
    BY <1>1, IntsDone
  <2>3. Uns(w) < Uns(v) <=> Uns(v) > Uns(w)
    BY <1>2, <1>3
  <2>4. Branch(e, Uns(w) < Uns(v), Imm(o)) = Branch(e, Uns(v) > Uns(w), Imm(e.off))
    BY <2>3, <1>4 DEF Branch
  <2> QED
    BY <2>1, <2>2, <2>4, IntMeanings DEF v, w
<1>16. Effect("bleu", b, d, e) = Meaning("bleu", e)
  <2>1. Effect("bleu", b, d, e) = Does("bgeu", Reg("rt"), Reg("rs"), Imm(o), e)
    BY <1>17, <1>6
  <2>2. Does("bgeu", Reg("rt"), Reg("rs"), Imm(o), e) = Branch(e, Uns(w) >= Uns(v), Imm(o))
    BY <1>1, IntsDone
  <2>3. Uns(w) >= Uns(v) <=> Uns(v) <= Uns(w)
    BY <1>2, <1>3
  <2>4. Branch(e, Uns(w) >= Uns(v), Imm(o)) = Branch(e, Uns(v) <= Uns(w), Imm(e.off))
    BY <2>3, <1>4 DEF Branch
  <2> QED
    BY <2>1, <2>2, <2>4, IntMeanings DEF v, w
<1> QED
  BY <1>7, <1>8, <1>9, <1>10, <1>11, <1>12, <1>13, <1>14, <1>15, <1>16
     DEF Branches, TwoBranches, a, b

(* ..., and the jumps and nop; a jalr that names ra does what one that     *)
(* names none does.                                                        *)
LEMMA JumpsMean ==
  ASSUME NEW e, e.zero = 0, NEW d, NEW o, Uns(o) = Uns(e.off)
  PROVE  /\ Effect("j", <<Imm(o)>>, d, e) = Meaning("j", e)
         /\ Effect("jal", <<Imm(o)>>, d, e) = Meaning("jal", e)
         /\ Effect("nop", << >>, d, e) = Meaning("nop", e)
         /\ Effect("jr", <<Reg("rs")>>, d, e) = Meaning("jr", e)
         /\ Effect("jalr", <<Reg("rs")>>, d, e) = Meaning("jalr", e)
         /\ Effect("jalr", <<Reg("ra"), Reg("rs"), Imm(0)>>, d, e) = Meaning("jalr", e)
         /\ Effect("ret", << >>, d, e) = Meaning("ret", e)
<1> DEFINE ra == Reg("ra")
           rs == Reg("rs")
           im == Imm(0)
           off == Imm(o)
<1>1. /\ ra.r = "ra" /\ Zero.r = "zero" /\ At("rs") = <<rs, im>> /\ At("ra") = <<ra, im>>
      /\ IntOf(Zero, e) = 0 /\ IntOf(im, e) = 0 /\ By(off) = By(Imm(e.off))
  BY DEF Reg, Zero, Imm, At, IntOf, By
<1>2. \A x : Write(e, "zero", x) = Nothing(e)
  BY DEF Write
<1> HIDE DEF ra, rs, im, off
<1>3. \A a : \A op \in {"nop", "jr", "jalr", "ret"} :
        /\ op = "nop" => Convert(op, a, d) = Instr("addi", <<Zero, Zero, im>>)
        /\ op # "nop" => Convert(op, a, d) = ConvertJump(op, a, d)
  <2> DEFINE T == Lasts \cup ZeroSecond \cup ZeroFirst \cup Swapped
  <2>1. \A op \in {"nop", "jr", "jalr", "ret"} : ~\E t \in T : op = t[1]
    BY TablesApart
  <2> HIDE DEF T
  <2>2. \A op, a : \/ \E t \in T : op = t[1]
                   \/ /\ op = "nop" => Convert(op, a, d) = Instr("addi", <<Zero, Zero, im>>)
                      /\ op # "nop" => Convert(op, a, d) = ConvertJump(op, a, d)
    BY RestConverted DEF T, im
  <2> QED
    BY <2>1, <2>2
<1>4. /\ Does("jalr", Zero, rs, im, e) = [Nothing(e) EXCEPT !.to = <<rs, im>>]
      /\ Does("jalr", Zero, ra, im, e) = [Nothing(e) EXCEPT !.to = <<ra, im>>]
      /\ Does("jalr", ra, rs, im, e) = [Write(e, "ra", Link) EXCEPT !.to = <<rs, im>>]
      /\ Does("addi", Zero, Zero, im, e) = Nothing(e)
  BY <1>1, <1>2, IntsDone
<1>5. Effect("j", <<off>>, d, e) = Meaning("j", e) /\ Effect("jal", <<off>>, d, e) = Meaning("jal", e)
  <2>1. /\ Effect("j", <<off>>, d, e) = Regular(Instr("jal", <<Zero, off>>), e)
        /\ Effect("jal", <<off>>, d, e) = Regular(Instr("jal", <<ra, off>>), e)
    BY JumpsConverted DEF Effect, ra
  <2>2. /\ Regular(Instr("jal", <<Zero, off>>), e) = [Write(e, "zero", Link) EXCEPT !.to = By(off)]
        /\ Regular(Instr("jal", <<ra, off>>), e) = [Write(e, "ra", Link) EXCEPT !.to = By(off)]
    <3>1. \A x : Regular(Instr("jal", <<x, off>>), e) = [Write(e, x.r, Link) EXCEPT !.to = By(off)]
      BY JalDone
    <3> QED
      BY <1>1, <3>1
  <2>3. /\ Regular(Instr("jal", <<Zero, off>>), e) = Meaning("j", e)
        /\ Regular(Instr("jal", <<ra, off>>), e) = Meaning("jal", e)
    <3>1. /\ Meaning("j", e) = [Nothing(e) EXCEPT !.to = By(off)]
          /\ Meaning("jal", e) = [Write(e, "ra", Link) EXCEPT !.to = By(off)]
      BY <1>1, IntMeanings
    <3> QED
      BY <1>2, <2>2, <3>1
  <2> QED
    BY <2>1, <2>3
<1>6. Effect("nop", << >>, d, e) = Meaning("nop", e)
  BY <1>3, <1>4, IntMeanings DEF Effect, Does
<1>7. Effect("jr", <<rs>>, d, e) = Meaning("jr", e)
  <2>1. ConvertJump("jr", <<rs>>, d) = Instr("jalr", <<Zero, rs, im>>)
    BY DEF ConvertJump, im
  <2>2. Convert("jr", <<rs>>, d) = Instr("jalr", <<Zero, rs, im>>)
    BY <1>3, <2>1
  <2>3. Effect("jr", <<rs>>, d, e) = Does("jalr", Zero, rs, im, e)
    BY <2>2 DEF Effect, Does
  <2> QED
    BY <1>1, <1>4, <2>3, IntMeanings
<1>8. Effect("jalr", <<rs>>, d, e) = Meaning("jalr", e)
  <2>1. ConvertJump("jalr", <<rs>>, d) = Instr("jalr", <<ra, rs, im>>)
    BY DEF ConvertJump, im, ra
  <2>2. Convert("jalr", <<rs>>, d) = Instr("jalr", <<ra, rs, im>>)
    BY <1>3, <2>1
  <2>3. Effect("jalr", <<rs>>, d, e) = Does("jalr", ra, rs, im, e)
    BY <2>2 DEF Effect, Does
  <2> QED
    BY <1>1, <1>4, <2>3, IntMeanings
<1>9. Effect("jalr", <<ra, rs, im>>, d, e) = Meaning("jalr", e)
  <2> DEFINE a == <<ra, rs, im>>
  <2>1. Len(a) # 1
    OBVIOUS
  <2> HIDE DEF a
  <2>2. ConvertJump("jalr", a, d) = Instr("jalr", a)
    BY <2>1 DEF ConvertJump
  <2>3. Effect("jalr", a, d, e) = Does("jalr", ra, rs, im, e)
    BY <1>3, <2>2 DEF Effect, Does, a
  <2> QED
    BY <1>1, <1>4, <2>3, IntMeanings DEF a
<1>10. Effect("ret", << >>, d, e) = Meaning("ret", e)
  <2>1. CASE d = 2
    <3>1. ConvertJump("ret", << >>, d) = Instr("c.jr", <<ra>>)
      BY <2>1 DEF ConvertJump, ra
    <3>2. Regular(Instr("c.jr", <<ra>>), e) = [Nothing(e) EXCEPT !.to = <<ra, im>>]
      BY ReturnDone DEF im
    <3> QED
      BY ZenonT(40), <1>1, <1>3, <3>1, <3>2, IntMeanings DEF Effect
  <2>2. CASE d # 2
    <3>1. ConvertJump("ret", << >>, d) = Instr("jalr", <<Zero, ra, im>>)
      BY <2>2 DEF ConvertJump, ra, im
    <3>2. Convert("ret", << >>, d) = Instr("jalr", <<Zero, ra, im>>)
      BY <1>3, <3>1
    <3>3. Effect("ret", << >>, d, e) = Does("jalr", Zero, ra, im, e)
      BY <3>2 DEF Effect, Does
    <3> QED
      BY <1>1, <1>4, <3>3, IntMeanings
  <2> QED
    BY <2>1, <2>2
<1> QED
  BY <1>5, <1>6, <1>7, <1>8, <1>9, <1>10 DEF ra, rs, im, off

(* The pseudo instructions on words, converted: bit manipulation, ...      *)
LEMMA UnitsMean ==
  ASSUME NEW e, e.rs \in SUBSET (0..31), NEW d, NEW op \in Units
  PROVE  Effect(op, <<Reg("rd"), Reg("rs")>>, d, e) = Meaning(op, e)
<1> DEFINE a == <<Reg("rd"), Reg("rs")>>
           x == e.rs
<1>1. PICK t \in Lasts :
        /\ t[1] = op /\ t[3].t = "imm"
        /\ \/ t[2] = "grevi" /\ Flip(x, t[3].v) = UnitPseudo(op, x)
           \/ t[2] = "gorci" /\ Combine(x, t[3].v) = UnitPseudo(op, x)
           \/ t[2] = "shfli" /\ Shuffle(x, t[3].v) = UnitPseudo(op, x)
           \/ t[2] = "unshfli" /\ Unshuffle(x, t[3].v) = UnitPseudo(op, x)
  BY UnitIs
<1>2. Effect(op, a, d, e) = Does(t[2], Reg("rd"), Reg("rs"), t[3], e)
  BY <1>1, LastsDone
<1>3. BitsOf(Reg("rs"), e) = x /\ Reg("rd").r = "rd"
  BY DEF BitsOf, Reg
<1> HIDE DEF a, x
<1>4. \A z : /\ Does("grevi", Reg("rd"), Reg("rs"), z, e) = Write(e, "rd", Flip(x, z.v))
             /\ Does("gorci", Reg("rd"), Reg("rs"), z, e) = Write(e, "rd", Combine(x, z.v))
             /\ Does("shfli", Reg("rd"), Reg("rs"), z, e) =
                  Write(e, "rd", Shuffle(x, z.v))
             /\ Does("unshfli", Reg("rd"), Reg("rs"), z, e) =
                  Write(e, "rd", Unshuffle(x, z.v))
  BY <1>3, ManipDone
<1>5. Does(t[2], Reg("rd"), Reg("rs"), t[3], e) = Write(e, "rd", UnitPseudo(op, x))
  BY <1>1, <1>4
<1> QED
  BY <1>2, <1>5, BitMeanings DEF a, x

(* ..., logic, ...                                                         *)
LEMMA WordsMean ==
  ASSUME NEW e, e.zero = {}, NEW d
  PROVE  LET a == <<Reg("rd"), Reg("rs")>>
         IN /\ e.rs \in SUBSET (0..31) => Effect("not", a, d, e) = Meaning("not", e)
            /\ e.rs \in SUBSET Nat => Effect("zext.b", a, d, e) = Meaning("zext.b", e)
            /\ e.rs \in SUBSET Nat /\ e.xlen = 32 => Effect("zext.h", a, d, e) = Meaning("zext.h", e)
            /\ e.rs \in SUBSET Nat /\ e.xlen = 64 => Effect("zext.w", a, d, e) = Meaning("zext.w", e)
<1> DEFINE a == <<Reg("rd"), Reg("rs")>>
           x == e.rs
<1>1. /\ BitsOf(Reg("rs"), e) = x /\ BitsOf(Zero, e) = {} /\ Reg("rd").r = "rd"
      /\ BitsOf(Imm(-1), e) = 0..31 /\ BitsOf(Imm(255), e) = 0..7
  BY BitsOfThem DEF BitsOf, Reg, Zero, Imm
<1>2. \A t \in Lasts : Effect(t[1], a, d, e) = Does(t[2], Reg("rd"), Reg("rs"), t[3], e)
  BY LastsDone, SecondsDone, FirstsDone
<1> HIDE DEF a, x
<1>9. \A z : Does("xori", Reg("rd"), Reg("rs"), z, e) =
               Write(e, "rd", (x \ BitsOf(z, e)) \cup (BitsOf(z, e) \ x))
  BY SMTT(40), <1>1, XorDone
<1>10. \A z : Does("andi", Reg("rd"), Reg("rs"), z, e) = Write(e, "rd", x \cap BitsOf(z, e))
  BY <1>1, AndDone
<1>3. x \in SUBSET (0..31) => Effect("not", a, d, e) = Meaning("not", e)
  <2>1. <<"not", "xori", Imm(-1)>> \in Lasts
    BY DEF Lasts, Appended
  <2>2. Effect("not", a, d, e) = Does("xori", Reg("rd"), Reg("rs"), Imm(-1), e)
    BY <2>1, <1>2
  <2>3. Does("xori", Reg("rd"), Reg("rs"), Imm(-1), e) =
          Write(e, "rd", (x \ (0..31)) \cup ((0..31) \ x))
    BY <1>1, <1>9, Zenon
  <2>4. x \in SUBSET (0..31) => (x \ (0..31)) \cup ((0..31) \ x) = (0..31) \ x
    OBVIOUS
  <2> QED
    BY <2>2, <2>3, <2>4, BitMeanings DEF x
<1>4. x \in SUBSET Nat => Effect("zext.b", a, d, e) = Meaning("zext.b", e)
  <2>1. <<"zext.b", "andi", Imm(255)>> \in Lasts
    BY DEF Lasts, Bitmanip, Extensions
  <2>2. Effect("zext.b", a, d, e) = Does("andi", Reg("rd"), Reg("rs"), Imm(255), e)
    BY <2>1, <1>2
  <2>3. Does("andi", Reg("rd"), Reg("rs"), Imm(255), e) = Write(e, "rd", x \cap 0..7)
    BY <1>1, <1>10
  <2>4. ASSUME x \in SUBSET Nat PROVE x \cap 0..7 = {i \in x : i < 8}
    <3>1. \A i \in x : i \in Nat
      BY <2>4
    <3> QED
      BY <3>1
  <2>5. Meaning("zext.b", e) = Write(e, "rd", {i \in x : i < 8})
    BY BitMeanings DEF x
  <2> QED
    BY <2>2, <2>3, <2>4, <2>5
<1>5. \A h \in Int : Pack(x, {}, h) = {i \in x : i < h}
  BY DEF Pack
<1>6. Does("pack", Reg("rd"), Reg("rs"), Zero, e) = Write(e, "rd", Pack(x, {}, e.xlen \div 2))
  BY <1>1, PackDone
<1>7. e.xlen = 32 => Effect("zext.h", a, d, e) = Meaning("zext.h", e)
  <2>1. <<"zext.h", "pack", Zero>> \in Lasts
    BY DEF Lasts, Bitmanip, Extensions
  <2>2. Effect("zext.h", a, d, e) = Does("pack", Reg("rd"), Reg("rs"), Zero, e)
    BY <2>1, <1>2
  <2>3. e.xlen = 32 => e.xlen \div 2 = 16
    OBVIOUS
  <2>4. Meaning("zext.h", e) = Write(e, "rd", {i \in x : i < 16})
    BY BitMeanings DEF x
  <2> QED
    BY <2>2, <2>3, <2>4, <1>5, <1>6
<1>8. e.xlen = 64 => Effect("zext.w", a, d, e) = Meaning("zext.w", e)
  <2>1. <<"zext.w", "pack", Zero>> \in Lasts
    BY DEF Lasts, Bitmanip, Extensions
  <2>2. Effect("zext.w", a, d, e) = Does("pack", Reg("rd"), Reg("rs"), Zero, e)
    BY <2>1, <1>2
  <2>3. e.xlen = 64 => e.xlen \div 2 = 32
    OBVIOUS
  <2>4. Meaning("zext.w", e) = Write(e, "rd", {i \in x : i < 32})
    BY BitMeanings DEF x
  <2> QED
    BY <2>2, <2>3, <2>4, <1>5, <1>6
<1> QED
  BY <1>3, <1>4, <1>7, <1>8 DEF a, x

(* ..., and on the CSR.                                                    *)
LEMMA CsrsMean ==
  ASSUME NEW e, NEW d
  PROVE  /\ \A op \in {"csrw", "csrs", "csrc"} :
              Effect(op, <<Reg("csr"), Reg("rs")>>, d, e) = Meaning(op, e)
         /\ \A op \in {"csrwi", "csrsi", "csrci"} :
              Effect(op, <<Reg("csr"), Imm(5)>>, d, e) = Meaning(op, e)
<1> DEFINE a == <<Reg("csr"), Reg("rs")>>
           c == <<Reg("csr"), Imm(5)>>
           x == e.rs
           to(q) == [Nothing(e) EXCEPT !.csr = q]
<1>1. BitsOf(Reg("rs"), e) = x /\ BitsOf(Imm(5), e) = {0, 2} /\ Zero.r = "zero"
  BY BitsOfThem DEF BitsOf, Reg, Zero, Imm
<1>2. /\ \A t \in ZeroFirst : Effect(t[1], a, d, e) = Does(t[2], Zero, Reg("csr"), Reg("rs"), e)
      /\ \A t \in ZeroFirst : Effect(t[1], c, d, e) = Does(t[2], Zero, Reg("csr"), Imm(5), e)
  BY LastsDone, SecondsDone, FirstsDone
<1>3. Write(e, "zero", e.csr) = Nothing(e) /\ Nothing(e).csr = e.csr
  BY DEF Write, Nothing
<1> HIDE DEF a, c
<1>4. /\ <<"csrw", "csrrw">> \in ZeroFirst /\ <<"csrs", "csrrs">> \in ZeroFirst
      /\ <<"csrc", "csrrc">> \in ZeroFirst /\ <<"csrwi", "csrrwi">> \in ZeroFirst
      /\ <<"csrsi", "csrrsi">> \in ZeroFirst /\ <<"csrci", "csrrci">> \in ZeroFirst
  BY DEF ZeroFirst
<1>5. /\ Effect("csrw", a, d, e) = Does("csrrw", Zero, Reg("csr"), Reg("rs"), e)
      /\ Effect("csrs", a, d, e) = Does("csrrs", Zero, Reg("csr"), Reg("rs"), e)
      /\ Effect("csrc", a, d, e) = Does("csrrc", Zero, Reg("csr"), Reg("rs"), e)
      /\ Effect("csrwi", c, d, e) = Does("csrrwi", Zero, Reg("csr"), Imm(5), e)
      /\ Effect("csrsi", c, d, e) = Does("csrrsi", Zero, Reg("csr"), Imm(5), e)
      /\ Effect("csrci", c, d, e) = Does("csrrci", Zero, Reg("csr"), Imm(5), e)
  BY <1>2, <1>4
<1>6. \A z : /\ \A op \in {"csrrw", "csrrwi"} :
                  Does(op, Zero, Reg("csr"), z, e) = to(BitsOf(z, e))
             /\ \A op \in {"csrrs", "csrrsi"} :
                  Does(op, Zero, Reg("csr"), z, e) = to(e.csr \cup BitsOf(z, e))
             /\ \A op \in {"csrrc", "csrrci"} :
                  Does(op, Zero, Reg("csr"), z, e) = to(e.csr \ BitsOf(z, e))
  BY <1>1, <1>3, CsrDone
<1>7. /\ Meaning("csrw", e) = to(x) /\ Meaning("csrs", e) = to(e.csr \cup x)
      /\ Meaning("csrc", e) = to(e.csr \ x) /\ Meaning("csrwi", e) = to({0, 2})
      /\ Meaning("csrsi", e) = to(e.csr \cup {0, 2}) /\ Meaning("csrci", e) = to(e.csr \ {0, 2})
  BY <1>3, BitMeanings
<1> HIDE DEF x, to
<1>8. /\ Effect("csrw", a, d, e) = Meaning("csrw", e) /\ Effect("csrs", a, d, e) = Meaning("csrs", e)
      /\ Effect("csrc", a, d, e) = Meaning("csrc", e)
  BY <1>1, <1>5, <1>6, <1>7
<1>9. /\ Effect("csrwi", c, d, e) = Meaning("csrwi", e) /\ Effect("csrsi", c, d, e) = Meaning("csrsi", e)
      /\ Effect("csrci", c, d, e) = Meaning("csrci", e)
  BY <1>1, <1>5, <1>6, <1>7
<1> QED
  BY <1>8, <1>9 DEF a, c

(* The families of pseudo instructions by their names.                     *)
IntMoves == {"mv", "neg", "negw", "sext.w", "seqz", "snez", "sltz", "sgtz"}
WordMoves == {"not", "zext.b", "zext.h", "zext.w"}
CsrByReg == {"csrw", "csrs", "csrc"}
CsrByImm == {"csrwi", "csrsi", "csrci"}
Jumps    == {"j", "jal", "jr", "jalr", "ret", "nop"}

(* They are all there are, and no name of a unit is in another family.     *)
LEMMA FamiliesApart ==
  /\ Units \cap (IntMoves \cup WordMoves \cup Branches \cup TwoBranches \cup {"csrr"} \cup CsrByReg
                 \cup CsrByImm \cup Jumps) = {}
  /\ Moves = Units \cup IntMoves \cup WordMoves
  /\ BitPseudos = Units \cup WordMoves \cup {"csrr"} \cup CsrByReg \cup CsrByImm
  /\ Pseudos = Moves \cup Branches \cup TwoBranches \cup {"csrr"} \cup CsrByReg \cup CsrByImm \cup Jumps
<1>1. Units \cap (IntMoves \cup WordMoves) = {}
  BY DEF Units, UnitNames, ZipNames, IntMoves, WordMoves
<1>2. Units \cap (Branches \cup TwoBranches) = {}
  BY DEF Units, UnitNames, ZipNames, Branches, TwoBranches
<1>3. Units \cap ({"csrr"} \cup CsrByReg \cup CsrByImm \cup Jumps) = {}
  BY DEF Units, UnitNames, ZipNames, CsrByReg, CsrByImm, Jumps
<1> QED
  BY <1>1, <1>2, <1>3
     DEF Moves, BitPseudos, Pseudos, IntMoves, WordMoves, CsrByReg, CsrByImm, Jumps

(* Those of numbers are none of those of words.                            *)
LEMMA IntsApart ==
  /\ (IntMoves \cup Branches \cup TwoBranches \cup Jumps) \cap BitPseudos = {}
  /\ (Branches \cup TwoBranches \cup {"csrr"} \cup CsrByReg \cup CsrByImm \cup Jumps) \cap Moves = {}
<1>1. (IntMoves \cup Branches \cup TwoBranches \cup Jumps)
        \cap (WordMoves \cup {"csrr"} \cup CsrByReg \cup CsrByImm) = {}
  BY DEF IntMoves, WordMoves, Branches, TwoBranches, CsrByReg, CsrByImm, Jumps
<1>2. (Branches \cup TwoBranches \cup {"csrr"} \cup CsrByReg \cup CsrByImm \cup Jumps)
        \cap (IntMoves \cup WordMoves) = {}
  BY DEF IntMoves, WordMoves, Branches, TwoBranches, CsrByReg, CsrByImm, Jumps
<1> QED
  BY <1>1, <1>2, FamiliesApart

(* Their operands, family by family.                                       *)
LEMMA OperandsAre ==
  ASSUME NEW op, NEW o
  PROVE  /\ op \in Moves => Operands(op, o) = <<Reg("rd"), Reg("rs")>>
         /\ op \in Branches => Operands(op, o) = <<Reg("rs"), Imm(o)>>
         /\ op \in TwoBranches => Operands(op, o) = <<Reg("rs"), Reg("rt"), Imm(o)>>
         /\ op \in CsrByReg => Operands(op, o) = <<Reg("csr"), Reg("rs")>>
         /\ op \in CsrByImm => Operands(op, o) = <<Reg("csr"), Imm(5)>>
         /\ op \in {"jr", "jalr"} => Operands(op, o) = <<Reg("rs")>>
         /\ op \in {"j", "jal"} => Operands(op, o) = <<Imm(o)>>
         /\ op \in {"nop", "ret"} => Operands(op, o) = << >>
<1> DEFINE m == <<Reg("rd"), Reg("rs")>>
           b == <<Reg("rs"), Imm(o)>>
           t == <<Reg("rs"), Reg("rt"), Imm(o)>>
           r == <<Reg("rd"), Reg("csr")>>
           c == <<Reg("csr"), Reg("rs")>>
           f == <<Reg("csr"), Imm(5)>>
           s == <<Reg("rs")>>
           l == <<Imm(o)>>
           z == << >>
<1>1. Operands(op, o) =
        CASE op \in Moves       -> m
          [] op \in Branches    -> b
          [] op \in TwoBranches -> t
          [] op = "csrr"        -> r
          [] op \in {"csrw", "csrs", "csrc"}    -> c
          [] op \in {"csrwi", "csrsi", "csrci"} -> f
          [] op \in {"jr", "jalr"} -> s
          [] op \in {"j", "jal"}   -> l
          [] op \in {"nop", "ret"} -> z
  BY Zenon DEF Operands
<1> HIDE DEF m, b, t, r, c, f, s, l, z
<1>2. \A x \in Branches \cup TwoBranches \cup {"csrr"} \cup CsrByReg \cup CsrByImm \cup Jumps : x \notin Moves
  BY IntsApart
<1>3. /\ op \in Moves => Operands(op, o) = m
      /\ op \in Branches => Operands(op, o) = b
      /\ op \in TwoBranches => Operands(op, o) = t
      /\ op \in CsrByReg => Operands(op, o) = c
      /\ op \in CsrByImm => Operands(op, o) = f
      /\ op \in {"jr", "jalr"} => Operands(op, o) = s
      /\ op \in {"j", "jal"} => Operands(op, o) = l
      /\ op \in {"nop", "ret"} => Operands(op, o) = z
  BY <1>1, <1>2 DEF Branches, TwoBranches, CsrByReg, CsrByImm, Jumps
<1> QED
  BY <1>3 DEF m, b, t, c, f, s, l, z

(* The states of the hart that an instruction is tried in.                 *)
LEMMA HartsAre ==
  ASSUME NEW i, NEW h \in Harts(i)
  PROVE  /\ i.op \in BitPseudos => h.zero = {} /\ h.off = 0 /\ h.rs \in SUBSET Nat
         /\ i.op \in BitPseudos /\ i.op # "zext.w" => h.rs \in SUBSET (0..31) /\ h.xlen = 32
         /\ i.op = "zext.w" => h.xlen = 64
         /\ i.op \notin BitPseudos =>
              h.rs \in IntsOfW /\ h.rt \in IntsOfW /\ h.zero = 0 /\ h.off = Target(i)
<1> DEFINE high == IF i.op = "zext.w" THEN {w \cup {b} : w \in Words, b \in {32, 63}} ELSE Words
<1>1. Words \subseteq SUBSET (0..31) /\ Ints \subseteq IntsOfW
  BY TracePseudoAssumption DEF IntsOfW
<1>2. high \subseteq SUBSET Nat /\ (i.op # "zext.w" => high \subseteq SUBSET (0..31))
  <2>1. \A w \in Words : \A x \in w : x \in Nat
    BY <1>1
  <2>2. \A w \in Words, b \in {32, 63} : w \cup {b} \in SUBSET Nat
    BY <2>1
  <2>3. CASE i.op = "zext.w"
    BY <2>2, <2>3
  <2>4. CASE i.op # "zext.w"
    BY <1>1, <2>1, <2>4
  <2> QED
    BY <2>3, <2>4
<1>3. ASSUME i.op \in BitPseudos
      PROVE  h \in [rs : high, rt : {{}}, csr : {{}, {0, 1}}, ra : {{}}, zero : {{}},
                    xlen : {IF i.op = "zext.w" THEN 64 ELSE 32}, off : {0}]
  BY <1>3 DEF Harts
<1>4. ASSUME i.op \notin BitPseudos
      PROVE  h \in [rs : Ints, rt : Ints, csr : {0}, ra : {0}, zero : {0}, xlen : {32}, off : {Target(i)}]
  BY <1>4 DEF Harts
<1> DEFINE xlen == IF i.op = "zext.w" THEN 64 ELSE 32
<1> HIDE DEF high
<1>5. i.op = "zext.w" => i.op \in BitPseudos
  BY DEF BitPseudos
<1>6. i.op \in BitPseudos => h.zero = {} /\ h.off = 0 /\ h.rs \in high /\ h.xlen = xlen
  BY <1>3
<1>7. i.op \notin BitPseudos => h.rs \in Ints /\ h.rt \in Ints /\ h.zero = 0 /\ h.off = Target(i)
  BY <1>4
<1> QED
  BY <1>1, <1>2, <1>5, <1>6, <1>7

(* A pseudo instruction, converted, does what it means; also with another  *)
(* offset if that is the same modulo the width, ...                        *)
LEMMA ConvertedMeans ==
  ASSUME NEW i, i.op \in Pseudos \ {"csrr"}, NEW h \in Harts(i), NEW o, Uns(o) = Uns(h.off)
  PROVE  Effect(i.op, Operands(i.op, o), i.digit, h) = Meaning(i.op, h)
<1> DEFINE op == i.op
           d == i.digit
           does == Effect(op, Operands(op, o), d, h) = Meaning(op, h)
<1>1. op \in Units \cup IntMoves \cup WordMoves \cup Branches \cup TwoBranches \cup CsrByReg
               \cup CsrByImm \cup Jumps
  BY FamiliesApart
<1>2. CASE op \in Units
  <2>1. op # "zext.w" /\ op \in BitPseudos /\ op \in Moves
    BY <1>2, FamiliesApart DEF WordMoves
  <2>2. h.rs \in SUBSET (0..31)
    BY <2>1, HartsAre
  <2> QED
    BY <1>2, <2>1, <2>2, OperandsAre, UnitsMean
<1>3. CASE op \in IntMoves
  <2>1. op \notin BitPseudos /\ op \in Moves
    BY <1>3, FamiliesApart, IntsApart
  <2>2. h.rs \in IntsOfW /\ h.zero = 0
    BY <2>1, HartsAre
  <2> QED
    BY <2>1, <2>2, OperandsAre, IntsMean
<1>4. CASE op \in WordMoves
  <2>1. op \in BitPseudos /\ op \in Moves
    BY <1>4, FamiliesApart
  <2>2. /\ h.zero = {} /\ h.rs \in SUBSET Nat
        /\ op # "zext.w" => h.rs \in SUBSET (0..31) /\ h.xlen = 32
        /\ op = "zext.w" => h.xlen = 64
    BY <2>1, HartsAre
  <2>3. Operands(op, o) = <<Reg("rd"), Reg("rs")>>
    BY <2>1, OperandsAre
  <2> DEFINE a == <<Reg("rd"), Reg("rs")>>
  <2>4. /\ h.rs \in SUBSET (0..31) => Effect("not", a, d, h) = Meaning("not", h)
        /\ h.rs \in SUBSET Nat => Effect("zext.b", a, d, h) = Meaning("zext.b", h)
        /\ h.rs \in SUBSET Nat /\ h.xlen = 32 => Effect("zext.h", a, d, h) = Meaning("zext.h", h)
        /\ h.rs \in SUBSET Nat /\ h.xlen = 64 => Effect("zext.w", a, d, h) = Meaning("zext.w", h)
    BY <2>2, WordsMean
  <2>5. op = "not" \/ op = "zext.b" \/ op = "zext.h" \/ op = "zext.w"
    BY <1>4 DEF WordMoves
  <2> HIDE DEF a
  <2> QED
    BY <2>2, <2>3, <2>4, <2>5 DEF a
<1>5. CASE op \in CsrByReg \cup CsrByImm
  <2>1. CASE op \in CsrByReg
    BY <2>1, OperandsAre, CsrsMean DEF CsrByReg
  <2>2. CASE op \in CsrByImm
    BY <2>2, OperandsAre, CsrsMean DEF CsrByImm
  <2> QED
    BY <1>5, <2>1, <2>2
<1>6. CASE op \in Branches \cup TwoBranches \cup Jumps
  <2>1. h.rs \in IntsOfW /\ h.rt \in IntsOfW /\ h.zero = 0
    BY <1>6, IntsApart, HartsAre
  <2>2. CASE op \in Branches \cup TwoBranches
    <3>1. /\ \A x \in Branches : Effect(x, <<Reg("rs"), Imm(o)>>, d, h) = Meaning(x, h)
          /\ \A x \in TwoBranches :
               Effect(x, <<Reg("rs"), Reg("rt"), Imm(o)>>, d, h) = Meaning(x, h)
      BY <2>1, BranchesMean
    <3> QED
      BY <2>2, <3>1, OperandsAre
  <2>3. CASE op \in Jumps
    <3>1. /\ Effect("j", <<Imm(o)>>, d, h) = Meaning("j", h)
          /\ Effect("jal", <<Imm(o)>>, d, h) = Meaning("jal", h)
          /\ Effect("nop", << >>, d, h) = Meaning("nop", h)
          /\ Effect("jr", <<Reg("rs")>>, d, h) = Meaning("jr", h)
          /\ Effect("jalr", <<Reg("rs")>>, d, h) = Meaning("jalr", h)
          /\ Effect("ret", << >>, d, h) = Meaning("ret", h)
      BY <2>1, JumpsMean
    <3>2. op = "j" \/ op = "jal" \/ op = "nop" \/ op = "jr" \/ op = "jalr" \/ op = "ret"
      BY <2>3 DEF Jumps
    <3>3. /\ op \in {"jr", "jalr"} => Operands(op, o) = <<Reg("rs")>>
          /\ op \in {"j", "jal"} => Operands(op, o) = <<Imm(o)>>
          /\ op \in {"nop", "ret"} => Operands(op, o) = << >>
      BY OperandsAre
    <3> QED
      BY <3>1, <3>2, <3>3
  <2> QED
    BY <1>6, <2>2, <2>3
<1> QED
  BY <1>1, <1>2, <1>3, <1>4, <1>5, <1>6

(* ..., and its offset is that of the hart.                                *)
LEMMA TargetOf ==
  ASSUME NEW i, NEW h \in Harts(i)
  PROVE  h.off = Target(i)
<1>1. CASE i.op \in BitPseudos
  <2>1. i.op \notin {"j", "jal"} \cup Branches \cup TwoBranches
    BY <1>1, IntsApart DEF Jumps
  <2> QED
    BY <1>1, <2>1, HartsAre DEF Target
<1>2. CASE i.op \notin BitPseudos
  BY <1>2, HartsAre
<1> QED
  BY <1>1, <1>2

(* A pseudo instruction of a program has its operands.                     *)
LEMMA PseudoShape ==
  ASSUME NEW i, OfProgram(i), IsPseudo(i, Pseudos)
  PROVE  i.args = Operands(i.op, Target(i)) /\ Target(i) \in Int /\ i.pc \in 0..(Word - 1)
<1>1. i.op # "ecall"
  <2>1. "ecall" \notin Units
    BY DEF Units, UnitNames, ZipNames
  <2> QED
    BY <2>1 DEF IsPseudo, Pseudos, Moves, Branches, TwoBranches
<1>2. PICK p \in Programs : \E k \in 1..Len(p) : i = [p[k] EXCEPT !.pc = i.pc]
  BY <1>1 DEF OfProgram
<1>3. PICK k \in 1..Len(p) : i = [p[k] EXCEPT !.pc = i.pc]
  BY <1>2
<1>4. IsPseudo(p[k], Pseudos) => p[k].args = Operands(p[k].op, Target(p[k])) /\ Target(p[k]) \in Int
  BY TracePseudoAssumption
<1> DEFINE q == p[k]
<1>5. IsInstruction(q)
  BY TraceFlowAssumption
<1>6. i = [q EXCEPT !.pc = i.pc]
  BY <1>3
<1>7. IsPseudo(q, Pseudos) => q.args = Operands(q.op, Target(q)) /\ Target(q) \in Int
  BY <1>4
<1> HIDE DEF q
<1>8. i.op = q.op /\ i.args = q.args
  BY <1>5, <1>6 DEF IsInstruction
<1>9. Target(i) = Target(q) /\ IsPseudo(q, Pseudos)
  BY <1>8 DEF Target, IsPseudo
<1> QED
  BY <1>7, <1>8, <1>9 DEF OfProgram

(* What Spike's CSV names for a pseudo instruction does what it means, ... *)
LEMMA SpikeMeans ==
  ASSUME NEW i, OfProgram(i), IsPseudo(i, Pseudos \ {"csrr"}), NEW h \in Harts(i)
  PROVE  Regular(SpikeName(i), h) = Meaning(i.op, h)
<1>1. i.args = Operands(i.op, Target(i))
  BY PseudoShape DEF IsPseudo
<1>2. h.off = Target(i) /\ i.op \in Pseudos \ {"csrr"}
  BY TargetOf DEF IsPseudo
<1>3. Effect(i.op, Operands(i.op, h.off), i.digit, h) = Meaning(i.op, h)
  BY <1>2, ConvertedMeans
<1> QED
  BY <1>1, <1>2, <1>3 DEF Effect, SpikeName

(* ..., and what OVPsim's CSV names, where the target is not left absolute.*)
LEMMA OvpMeans ==
  ASSUME NEW i, OfProgram(i), IsPseudo(i, (Pseudos \ {"csrr"}) \ TwoBranches), NEW h \in Harts(i)
  PROVE  Regular(OvpInstr(i), h) = Meaning(i.op, h)
<1> DEFINE v == Target(i)
           a == Relative(i, Addressed(i))
<1>1. i.args = Operands(i.op, v) /\ v \in Int /\ i.pc \in 0..(Word - 1)
  BY PseudoShape DEF IsPseudo
<1>2. h.off = v /\ i.op \in Pseudos \ {"csrr"} /\ i.op \notin TwoBranches
  BY TargetOf DEF IsPseudo
<1>3. CASE i.op \in Branches \cup {"j", "jal"}
  <2>1. i.op \in PcRelative \ TwoBranches /\ i.op # "jalr"
    BY <1>2, <1>3 DEF PcRelative, Branches
  <2>2. i.args = IF i.op \in Branches THEN <<Reg("rs"), Imm(v)>> ELSE <<Imm(v)>>
    BY <1>1, <1>3, OperandsAre
  <2> HIDE DEF v
  <2>3. i.args = <<i.args[1]>> \/ i.args = <<i.args[1], i.args[2]>>
    <3>1. CASE i.op \in Branches
      <4>1. i.args[1] = Reg("rs") /\ i.args[2] = Imm(v)
        BY <2>2, <3>1
      <4> QED
        BY <2>2, <3>1, <4>1
    <3>2. CASE i.op \notin Branches
      <4>1. i.args[1] = Imm(v)
        BY <2>2, <3>2
      <4> QED
        BY <2>2, <3>2, <4>1
    <3> QED
      BY <3>1, <3>2
  <2>4. i.args[Len(i.args)] = Imm(v) /\ Imm(v).v = v
    <3>1. Imm(v).v = v
      BY DEF Imm
    <3>2. <<Imm(v)>>[Len(<<Imm(v)>>)] = Imm(v)
      OBVIOUS
    <3>3. <<Reg("rs"), Imm(v)>>[Len(<<Reg("rs"), Imm(v)>>)] = Imm(v)
      OBVIOUS
    <3> QED
      BY <2>2, <3>1, <3>2, <3>3
  <2>5. a = [i.args EXCEPT ![Len(i.args)] = Imm(v % Word)]
    BY <1>1, <2>1, <2>3, <2>4, OffsetRead
  <2>6. a = Operands(i.op, v % Word)
    <3> DEFINE c == Imm(v % Word)
    <3>1. [i.args EXCEPT ![Len(i.args)] = c] = IF Len(i.args) = 1 THEN <<c>> ELSE <<i.args[1], c>>
      BY <2>3, LastSet
    <3>2. i.op \in Branches => Len(i.args) = 2 /\ i.args[1] = Reg("rs")
      BY <2>2
    <3>3. i.op \notin Branches => Len(i.args) = 1
      BY <2>2
    <3>4. /\ i.op \in Branches => Operands(i.op, v % Word) = <<Reg("rs"), c>>
          /\ i.op \in {"j", "jal"} => Operands(i.op, v % Word) = <<c>>
      BY OperandsAre
    <3> HIDE DEF c, a
    <3> QED
      BY <1>3, <2>5, <3>1, <3>2, <3>3, <3>4 DEF c
  <2>7. Uns(v % Word) = Uns(h.off)
    BY SMTT(40), <1>1, <1>2, PowerIs, TracePseudoAssumption DEF Uns, v
  <2>8. Effect(i.op, Operands(i.op, v % Word), i.digit, h) = Meaning(i.op, h)
    BY <1>2, <2>7, ConvertedMeans
  <2> QED
    BY <2>1, <2>6, <2>8 DEF Effect, OvpInstr
<1>4. CASE i.op \notin Branches \cup {"j", "jal"}
  <2>1. i.op \notin PcRelative
    <3>1. \A x \in {"beq", "bne", "blt", "bge", "bltu", "bgeu"} : x \notin Pseudos
      <4>1. {"beq", "bne", "blt", "bge", "bltu", "bgeu"} \cap Units = {}
        BY DEF Units, UnitNames, ZipNames
      <4> QED
        BY <4>1 DEF Pseudos, Moves, Branches, TwoBranches
    <3> QED
      BY <1>2, <1>4, <3>1 DEF PcRelative, Branches, TwoBranches
  <2>2. a = i.args
    BY <2>1 DEF Relative, Addressed
  <2>3. Effect(i.op, Operands(i.op, v), i.digit, h) = Meaning(i.op, h)
    BY <1>2, ConvertedMeans
  <2>4. CASE i.op # "jalr"
    BY <1>1, <2>2, <2>3, <2>4 DEF Effect, OvpInstr
  <2>5. CASE i.op = "jalr"
    <3>1. i.args = <<Reg("rs")>>
      BY <1>1, <2>5, OperandsAre
    <3>2. Jalr(<<Reg("rs")>>) = <<Reg("ra"), Reg("rs"), Imm(0)>>
      BY DEF Jalr
    <3>3. h.zero = 0
      BY <2>5, IntsApart, HartsAre DEF Jumps
    <3>4. Effect("jalr", <<Reg("ra"), Reg("rs"), Imm(0)>>, i.digit, h) = Meaning("jalr", h)
      BY <3>3, JumpsMean
    <3> QED
      BY <2>2, <2>5, <3>1, <3>2, <3>4 DEF Effect, OvpInstr
  <2> QED
    BY <2>4, <2>5
<1> QED
  BY <1>3, <1>4

(* At any time, whatever the registers and the CSR hold, what a full CSV   *)
(* of Spike names for a pseudo instruction that ran does what that means;  *)
(* so does OVPsim's but for the branches with an absolute target; csrr is  *)
(* left out of both.                                                       *)
THEOREM MeaningsSame == Spec => []SameMeaning
<1>1. IInv => SameMeaning
  <2> SUFFICES ASSUME IInv PROVE SameMeaning
    OBVIOUS
  <2> DEFINE all == Pseudos \ {"csrr"}
  <2>1. \A k \in 1..Len(ran) : OfProgram(ran[k].i)
    BY DEF IInv, HistoryInv, AllOfProgram
  <2>2. ASSUME full, NEW k \in DOMAIN spike.csv, IsPseudo(ran[k].i, all)
        PROVE  Same(ran[k].i, spike.csv[k])
    <3> DEFINE i == ran[k].i
               e == spike.csv[k]
    <3>1. OfProgram(i) /\ Name(e) = SpikeName(i)
      BY <2>1, <2>2, RowsName DEF NamesSpike
    <3>2. IsPseudo(i, Pseudos \ {"csrr"})
      BY <2>2
    <3> HIDE DEF i, e
    <3>3. \A h \in Harts(i) : Regular(Name(e), h) = Meaning(i.op, h)
      BY <3>1, <3>2, SpikeMeans
    <3>4. Same(i, e)
      BY <3>3 DEF Same, Name
    <3> QED
      BY <3>4 DEF i, e
  <2>3. ASSUME NEW k \in DOMAIN ovp.csv, IsPseudo(ran[k].i, all \ TwoBranches)
        PROVE  Same(ran[k].i, ovp.csv[k])
    <3> DEFINE i == ran[k].i
               e == ovp.csv[k]
    <3>1. OfProgram(i) /\ Name(e) = OvpInstr(i)
      BY <2>1, <2>3, RowsName DEF NamesOvp
    <3>2. IsPseudo(i, (Pseudos \ {"csrr"}) \ TwoBranches)
      BY <2>3
    <3> HIDE DEF i, e
    <3>3. \A h \in Harts(i) : Regular(Name(e), h) = Meaning(i.op, h)
      BY <3>1, <3>2, OvpMeans
    <3>4. Same(i, e)
      BY <3>3 DEF Same, Name
    <3> QED
      BY <3>4 DEF i, e
  <2> QED
    BY <2>2, <2>3 DEF SameMeaning
<1> QED
  BY <1>1, Invariance, PTL
===============================================================================
