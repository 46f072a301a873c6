----------------------------- MODULE RegressionProofs -----------------------------
(***************************************************************************)
(* The regression, for any number of iterations and runs, with traces of   *)
(* any length.  What the comparison is worth comes from CompareProofs; the *)
(* invariant says what the diff logs, and the results of the iterations    *)
(* that are over, have to do with each other.                              *)
(***************************************************************************)
EXTENDS Regression, CompareProofs

(* What an iteration of this run has left: a result and a diff log.        *)
Compared(n) == result[n] \in {"right", "early", "wrong"}
IterRight(n) ==
  /\ Compared(n) => diff[n] # << >>
  /\ result[n] = "right" => "PASSED" \in Named(n)
  /\ fresh /\ Compared(n) /\ "PASSED" \in Named(n) => result[n] \in {"right", "early"}

(* The diff logs, by what they hold.                                       *)
Entries(n) == [verdict : {"PASSED", "FAILED"}, matched : 0..Len(ref[n])]
LogsRight ==
  /\ diff = [n \in Iters |-> diff[n]]
  /\ \A n \in Iters : diff[n] \in Seq(Entries(n))

(* Where a run is: the iterations before this one are over, those behind   *)
(* it are not, and a new directory has no log of theirs.                   *)
RunRight ==
  /\ pc = "idle" => iter = last + 1 \/ (iter = 0 /\ last = 0)
  /\ pc \in {"simulate", "compare"} => iter \in 1..last
  /\ pc = "summary" => iter = last + 1
  /\ pc # "idle" => report = "none"
  /\ pc = "compare" => log \in Traces /\ result[iter] \in {"unfinished", Quality(log, ref[iter])}
  /\ \A n \in Iters : n < iter => IterRight(n) /\ result[n] # "none"
  /\ \A n \in Iters : n > iter \/ (n = iter /\ pc = "simulate") => result[n] = "none"
  /\ \A n \in Iters : n >= iter /\ fresh => diff[n] = << >>

(* What the last report says of the diff logs that it was made from.       *)
ReportRight ==
  report # "none" =>
    /\ report = "error" <=> Found = {}
    /\ report = "passed" <=> Found # {} /\ \A n \in Found : "PASSED" \in Named(n)

IInv == TypeOK /\ LogsRight /\ RunRight /\ ReportRight
-----------------------------------------------------------------------------
(* What the verdict of a comparison is worth, from CompareProofs.          *)
LEMMA VerdictRight ==
  ASSUME NEW r \in Refs, NEW n \in Iters, NEW t \in Traces
  PROVE  /\ Result(r[n], t) \in {"PASSED", "FAILED"}
         /\ Matched(r[n], t) \in 0..Len(r[n])
         /\ Quality(t, r[n]) \in {"right", "early", "wrong"}
         /\ Result(r[n], t) = "PASSED" => Quality(t, r[n]) \in {"right", "early"}
         /\ Quality(t, r[n]) = "right" => Result(r[n], t) = "PASSED"
<1>1. IsTrace(r[n]) /\ IsTrace(t)
  BY RegressionAssumption DEF Iters
<1>2. Quality(t, r[n]) = IF ChangesOf(t) = ChangesOf(r[n]) THEN "right"
                         ELSE IF IsPrefix(ChangesOf(t), ChangesOf(r[n])) THEN "early" ELSE "wrong"
  BY DEF Quality
<1>3. Result(r[n], t) \in {"PASSED", "FAILED"}
  BY DEF Result
<1>4. Matched(r[n], t) \in 0..Len(r[n])
  BY <1>1, MatchedAtMost
<1>5. Result(r[n], t) = "PASSED" => IsPrefix(ChangesOf(t), ChangesOf(r[n]))
  BY <1>1, PassedMatches
<1>6. ChangesOf(t) = ChangesOf(r[n]) => Result(r[n], t) = "PASSED"
  BY <1>1, SameChangesPass
<1> QED
  BY <1>2, <1>3, <1>4, <1>5, <1>6

(* A sum of numbers is 0 only if each of them is.                          *)
LEMMA SumOfFailed ==
  ASSUME \A n \in Found : FailedOf(n) \in Nat
  PROVE  MapThenSumSet(FailedOf, Found) = 0 <=> \A n \in Found : FailedOf(n) = 0
<1> DEFINE pick(s) == CHOOSE x \in s : TRUE
           F(g) == [s \in SUBSET Found |->
                      IF s = {} THEN 0 ELSE FailedOf(pick(s)) + g[s \ {pick(s)}]]
           h == CHOOSE f : f = F(f)
<1>1. MapThenSumSet(FailedOf, Found) = h[Found]
  BY DEF MapThenSumSet, MapThenFoldSet
<1>2. N \in Nat /\ Found \in SUBSET (1..N)
  BY RegressionAssumption DEF Found, Iters
<1>3. \A s \in SUBSET (1..N) : s # {} => pick(s) \in s
  OBVIOUS
<1>4. h = F(h)
  <2> DEFINE fail == [n \in 1..N |-> IF n \in Found THEN FailedOf(n) ELSE 0]
             step == [p \in Nat \X (1..N) |-> fail[p[2]] + p[1]]
             choose == [s \in SUBSET (1..N) |-> pick(s)]
  <2>1. fail \in [1..N -> Nat]
    OBVIOUS
  <2>2. step \in [Nat \X (1..N) -> Nat]
    <3> HIDE DEF fail
    <3> QED
      BY <2>1
  <2>3. \A s \in SUBSET (1..N) : s # {} => choose[s] \in s
    BY <1>3
  <2> HIDE DEF fail, step, choose
  <2>4. PICK g : IsFold(g, N, Nat, 0, step, choose)
    BY <1>2, <2>2, <2>3, FoldExists
  <2>5. g \in [SUBSET (1..N) -> Nat]
    BY <2>4 DEF IsFold
  <2> HIDE DEF pick
  <2>6. ASSUME NEW s \in SUBSET Found, s # {}
        PROVE  g[s] = FailedOf(pick(s)) + g[s \ {pick(s)}]
    <3>1. pick(s) \in s /\ s \in SUBSET (1..N) /\ choose[s] = pick(s)
      BY <1>2, <1>3, <2>6 DEF choose
    <3>2. g[s] = step[<<g[s \ {pick(s)}], pick(s)>>]
      BY <2>4, <2>6, <3>1 DEF IsFold
    <3>3. g[s \ {pick(s)}] \in Nat /\ pick(s) \in 1..N
      BY <2>5, <3>1
    <3>4. g[s] = fail[pick(s)] + g[s \ {pick(s)}]
      BY <3>2, <3>3 DEF step
    <3> QED
      BY <3>1, <3>3, <3>4 DEF fail
  <2>7. g[{}] = 0
    BY <2>4 DEF IsFold
  <2> DEFINE k == [s \in SUBSET Found |-> g[s]]
  <2>8. k = F(k)
    <3>1. ASSUME NEW s \in SUBSET Found, s # {} PROVE s \ {pick(s)} \in SUBSET Found
      OBVIOUS
    <3> QED
      BY <2>6, <2>7, <3>1
  <2> HIDE DEF k, F
  <2> QED
    BY <2>8
<1> HIDE DEF h, pick
<1> DEFINE T == {c \in Nat : \A s \in SUBSET Found : Cardinality(s) <= c =>
                    h[s] \in Nat /\ (h[s] = 0 <=> \A n \in s : FailedOf(n) = 0)}
<1>5. \A s \in SUBSET Found : IsFiniteSet(s) /\ Cardinality(s) \in Nat
  <2>1. IsFiniteSet(1..N)
    BY <1>2, FS_Interval
  <2>2. IsFiniteSet(Found)
    BY <1>2, <2>1, FS_Subset
  <2> QED
    BY <2>2, FS_Subset, FS_CardinalityType
<1>6. 0 \in T
  <2>1. \A s \in SUBSET Found : Cardinality(s) <= 0 => s = {}
    BY <1>5, FS_EmptySet
  <2> QED
    BY <1>4, <2>1
<1>7. ASSUME NEW c \in Nat, c \in T PROVE c + 1 \in T
  <2> SUFFICES ASSUME NEW s \in SUBSET Found, Cardinality(s) <= c + 1
               PROVE  h[s] \in Nat /\ (h[s] = 0 <=> \A n \in s : FailedOf(n) = 0)
    OBVIOUS
  <2>1. CASE s = {}
    BY <1>4, <2>1
  <2>2. CASE s # {}
    <3> DEFINE x == pick(s) rest == s \ {x}
    <3>1. x \in s /\ FailedOf(x) \in Nat
      BY <1>2, <1>3, <2>2
    <3>2. h[s] = FailedOf(x) + h[rest]
      BY <1>4, <2>2
    <3>3. Cardinality(rest) = Cardinality(s) - 1
      BY <1>5, <3>1, FS_RemoveElement
    <3>4. rest \in SUBSET Found /\ Cardinality(rest) <= c
      BY <1>5, <3>3
    <3>5. h[rest] \in Nat /\ (h[rest] = 0 <=> \A n \in rest : FailedOf(n) = 0)
      BY <1>7, <3>4
    <3>6. (\A n \in s : FailedOf(n) = 0) <=> FailedOf(x) = 0 /\ \A n \in rest : FailedOf(n) = 0
      BY <3>1
    <3> HIDE DEF x, rest
    <3> QED
      BY <3>1, <3>2, <3>5, <3>6
  <2> QED
    BY <2>1, <2>2
<1> DEFINE size == Cardinality(Found)
<1>8. size \in T
  <2>1. size \in Nat
    BY <1>5
  <2> HIDE DEF T, size
  <2> QED
    BY <1>6, <1>7, <2>1, Induction
<1>9. h[Found] = 0 <=> \A n \in Found : FailedOf(n) = 0
  BY <1>5, <1>8
<1> QED
  BY <1>1, <1>9

(* regression_summary.py counts no failure if and only if each diff log    *)
(* has a [PASSED]: one without has a match less than its total at least.   *)
LEMMA NoneFailed ==
  ASSUME TypeOK, LogsRight
  PROVE  MapThenSumSet(FailedOf, Found) = 0 <=> \A n \in Found : "PASSED" \in Named(n)
<1>1. ASSUME NEW n \in Found
      PROVE  FailedOf(n) \in Nat /\ (FailedOf(n) = 0 <=> "PASSED" \in Named(n))
  <2>1. n \in Iters /\ diff[n] # << >>
    BY DEF Found
  <2>2. Len(ref[n]) \in Nat
    BY <2>1, RegressionAssumption DEF TypeOK, IsTrace, Iters
  <2>3. diff[n] \in Seq(Entries(n))
    BY <2>1 DEF LogsRight
  <2>4. diff[n][1] \in Entries(n)
    BY <2>1, <2>3
  <2>5. diff[n][1].matched \in 0..Len(ref[n])
    BY <2>4 DEF Entries
  <2>6. FailedOf(n) = IF "PASSED" \in Named(n) THEN 0 ELSE (Len(ref[n]) + 1) - diff[n][1].matched
    BY DEF FailedOf, Status, Named, Total
  <2> QED
    BY <2>2, <2>5, <2>6
<1> QED
  BY <1>1, SumOfFailed
-----------------------------------------------------------------------------
(* The invariant holds before the first run.                               *)
LEMMA InitRight == Init => IInv
<1> SUFFICES ASSUME Init PROVE IInv
  OBVIOUS
<1> USE RegressionAssumption
<1>1. diff = [n \in Iters |-> << >>]
  BY DEF Init, NoDiffs
<1>2. TypeOK
  BY <1>1 DEF Init, TypeOK, Named, Verdicts
<1>3. LogsRight
  BY <1>1 DEF LogsRight
<1>4. RunRight
  BY <1>1 DEF Init, RunRight, Iters
<1>5. ReportRight
  BY DEF Init, ReportRight
<1> QED
  BY <1>2, <1>3, <1>4, <1>5 DEF IInv

(* A run starts, in a new directory or in the one of an earlier run.       *)
LEMMA StartRunRight == IInv /\ StartRun => IInv'
<1> SUFFICES ASSUME IInv, StartRun PROVE IInv'
  OBVIOUS
<1> USE RegressionAssumption
<1>1. TypeOK /\ LogsRight
  BY DEF IInv
<1>2. fresh' \in BOOLEAN /\ diff' = IF fresh' THEN [n \in Iters |-> << >>] ELSE diff
  BY DEF StartRun, NoDiffs
<1>3. TypeOK'
  <2>1. \A n \in Iters : Named(n)' \subseteq {"PASSED", "FAILED"}
    <3>1. CASE fresh'
      BY <1>2, <3>1 DEF Named, Verdicts
    <3>2. CASE ~fresh'
      BY <1>1, <1>2, <3>2 DEF TypeOK, Named, Verdicts
    <3> QED
      BY <3>1, <3>2
  <2>2. runs' \in 0..MaxRuns /\ last' \in 0..N /\ iter' \in 0..(N + 1)
    BY <1>1 DEF StartRun, TypeOK, Iters
  <2> QED
    BY <1>1, <1>2, <2>1, <2>2 DEF StartRun, TypeOK
<1>4. LogsRight'
  <2>1. CASE fresh'
    BY <1>2, <2>1 DEF LogsRight
  <2>2. CASE ~fresh'
    BY <1>1, <1>2, <2>2 DEF StartRun, LogsRight, Entries
  <2> QED
    BY <2>1, <2>2
<1>5. RunRight'
  BY <1>2 DEF StartRun, RunRight, Iters
<1>6. ReportRight'
  BY DEF StartRun, ReportRight
<1> QED
  BY <1>3, <1>4, <1>5, <1>6 DEF IInv

(* What Advance leaves for the run's conjuncts.                            *)
LEMMA Advances ==
  ASSUME IInv, pc \in {"simulate", "compare"}, Advance
  PROVE  /\ iter \in 1..last /\ last \in 1..N /\ iter \in Iters /\ report = "none"
         /\ iter' = iter + 1 /\ iter' \in 0..(N + 1)
         /\ pc' = IF iter < last THEN "simulate" ELSE "summary"
BY RegressionAssumption DEF IInv, TypeOK, RunRight, Advance, Iters

(* A simulation that wrote its log.                                        *)
LEMMA FinishRight == IInv /\ Finish => IInv'
<1> SUFFICES ASSUME IInv, Finish PROVE IInv'
  OBVIOUS
<1>1. TypeOK /\ LogsRight /\ RunRight
  BY DEF IInv
<1>2. iter \in Iters /\ iter \in 1..last /\ report = "none"
  BY <1>1, RegressionAssumption DEF Finish, TypeOK, RunRight, Iters
<1> DEFINE q == Quality(log', ref[iter])
<1>3. q \in {"right", "early", "wrong"} /\ result' = [result EXCEPT ![iter] = q] /\ log' \in Traces
  BY <1>1, <1>2, VerdictRight DEF Finish, TypeOK
<1>4. TypeOK'
  BY <1>1, <1>3 DEF Finish, TypeOK, Named, Verdicts
<1>5. LogsRight'
  BY <1>1 DEF Finish, LogsRight, Entries
<1>6. RunRight'
  <2>1. result'[iter] = q /\ \A n \in Iters : n # iter => result'[n] = result[n]
    BY <1>1, <1>2, <1>3 DEF TypeOK
  <2>2. Quality(log, ref[iter])' = q
    BY DEF Finish, Quality
  <2> HIDE DEF q
  <2> QED
    BY <1>1, <1>2, <1>3, <2>1, <2>2 DEF Finish, RunRight, IterRight, Compared, Named, Verdicts, Iters
<1>7. ReportRight'
  BY <1>2 DEF Finish, ReportRight
<1> QED
  BY <1>4, <1>5, <1>6, <1>7 DEF IInv

(* An iteration that ends without a log of its own.                        *)
LEMMA UnfinishedRight ==
  ASSUME IInv, pc = "simulate", log' \in Traces \union {NoTrace},
         result' = [result EXCEPT ![iter] = "unfinished"],
         UNCHANGED <<runs, ref, fresh, last, diff, report>>,
         \/ Advance
         \/ pc' = "compare" /\ iter' = iter /\ log' \in Traces
  PROVE  IInv'
<1>1. TypeOK /\ LogsRight /\ RunRight
  BY DEF IInv
<1>2. iter \in Iters /\ iter \in 1..last /\ last \in 1..N /\ report = "none"
  BY <1>1, RegressionAssumption DEF TypeOK, RunRight, Iters
<1>3. \/ iter' = iter + 1 /\ pc' = IF iter < last THEN "simulate" ELSE "summary"
      \/ pc' = "compare" /\ iter' = iter /\ log' \in Traces
  BY DEF Advance
<1>4. TypeOK'
  <2>1. \A n \in Iters : Named(n)' = Named(n)
    BY DEF Named, Verdicts
  <2>2. iter' \in 0..(N + 1) /\ pc' \in {"idle", "simulate", "compare", "summary"}
    BY <1>2, <1>3, RegressionAssumption
  <2>3. result' \in [Iters -> {"none", "right", "early", "wrong", "unfinished"}]
    BY <1>1 DEF TypeOK
  <2> QED
    BY <1>1, <2>1, <2>2, <2>3 DEF TypeOK
<1>5. LogsRight'
  BY <1>1 DEF LogsRight, Entries
<1>6. RunRight'
  <2>1. result'[iter] = "unfinished" /\ \A n \in Iters : n # iter => result'[n] = result[n]
    BY <1>1, <1>2 DEF TypeOK
  <2> QED
    BY <1>1, <1>2, <1>3, <2>1, RegressionAssumption
       DEF RunRight, IterRight, Compared, Named, Verdicts, Iters
<1>7. ReportRight'
  BY <1>2 DEF ReportRight
<1> QED
  BY <1>4, <1>5, <1>6, <1>7 DEF IInv

(* The comparison appends a verdict to the diff log.                       *)
LEMMA CompareRight == IInv /\ CompareTraces => IInv'
<1> SUFFICES ASSUME IInv, CompareTraces PROVE IInv'
  OBVIOUS
<1>1. TypeOK /\ LogsRight /\ RunRight
  BY DEF IInv
<1>2. PICK i \in Iters : i = iter
  BY Advances DEF CompareTraces
<1>3. /\ i \in 1..last /\ last \in 1..N /\ report = "none"
      /\ iter' = i + 1 /\ pc' = IF i < last THEN "simulate" ELSE "summary"
      /\ iter' \in 0..(N + 1)
  BY <1>2, Advances DEF CompareTraces
<1> DEFINE entry == [verdict |-> Verdict, matched |-> Matched(ref[iter], log)]
           q == Quality(log, ref[iter])
<1>4. /\ entry \in Entries(i) /\ entry.verdict \in {"PASSED", "FAILED"}
      /\ q \in {"right", "early", "wrong"}
      /\ entry.verdict = "PASSED" => q \in {"right", "early"}
      /\ q = "right" => entry.verdict = "PASSED"
  <2>1. ref \in Refs /\ log \in Traces
    BY <1>1 DEF TypeOK, RunRight, CompareTraces
  <2> QED
    BY <1>2, <2>1, VerdictRight DEF Verdict, Entries
<1>5. result[i] \in {"unfinished", q}
  BY <1>1, <1>2 DEF RunRight, CompareTraces
<1>6. /\ diff' = [diff EXCEPT ![i] = Append(diff[i], entry)]
      /\ UNCHANGED <<runs, ref, fresh, last, log, report, result>>
  BY <1>2 DEF CompareTraces
<1> HIDE DEF entry, q
<1>7. /\ diff'[i] = Append(diff[i], entry)
      /\ \A n \in Iters : n # i => diff'[n] = diff[n]
      /\ diff' = [n \in Iters |-> diff'[n]]
  BY <1>1, <1>6 DEF LogsRight
<1>8. diff[i] \in Seq(Entries(i)) /\ diff'[i] \in Seq(Entries(i)) /\ diff'[i] # << >>
  BY <1>1, <1>4, <1>7 DEF LogsRight
<1>9. Named(i)' = Named(i) \union {entry.verdict}
  <2> DEFINE d == diff[i] e == diff'[i]
  <2>1. Len(d) \in Nat /\ DOMAIN d = 1..Len(d) /\ DOMAIN e = 1..(Len(d) + 1)
    BY <1>7, <1>8
  <2>2. e[Len(d) + 1] = entry /\ \A k \in DOMAIN d : e[k] = d[k]
    BY <1>7, <1>8
  <2>3. /\ Named(i)' = {e[k].verdict : k \in DOMAIN e}
        /\ Named(i) = {d[k].verdict : k \in DOMAIN d}
    BY DEF Named, Verdicts
  <2> HIDE DEF d, e
  <2>4. DOMAIN e = DOMAIN d \union {Len(d) + 1}
    BY <2>1
  <2> QED
    BY <2>2, <2>3, <2>4
<1>10. \A n \in Iters : n # i => Named(n)' = Named(n)
  BY <1>7 DEF Named, Verdicts
<1>11. TypeOK'
  <2>1. \A n \in Iters : Named(n)' \subseteq {"PASSED", "FAILED"}
    BY <1>1, <1>4, <1>9, <1>10 DEF TypeOK
  <2>2. pc' \in {"idle", "simulate", "compare", "summary"}
    BY <1>3
  <2> QED
    BY <1>1, <1>3, <1>6, <2>1, <2>2 DEF TypeOK
<1>12. LogsRight'
  BY <1>1, <1>6, <1>7, <1>8 DEF LogsRight, Entries
<1>13. RunRight'
  <2>1. ASSUME NEW n \in Iters, n < i PROVE IterRight(n)' /\ result'[n] # "none"
    BY <1>1, <1>2, <1>6, <1>7, <1>10, <2>1 DEF RunRight, IterRight, Compared
  <2>2. IterRight(i)' /\ result'[i] # "none"
    <3>1. fresh => Named(i) = {}
      <4>1. fresh => diff[i] = << >>
        BY <1>1, <1>2 DEF RunRight, Iters
      <4> QED
        BY <4>1 DEF Named, Verdicts
    <3>2. fresh => Named(i)' = {entry.verdict}
      BY <1>9, <3>1
    <3>3. result[i] = "right" => "PASSED" \in Named(i)'
      BY <1>4, <1>5, <1>9
    <3> QED
      BY <1>4, <1>5, <1>6, <1>8, <3>2, <3>3 DEF IterRight, Compared
  <2>3. \A n \in Iters : n < iter' => n < i \/ n = i
    BY <1>3 DEF Iters
  <2>4. \A n \in Iters : n >= iter' /\ fresh' => diff'[n] = << >>
    BY <1>1, <1>2, <1>3, <1>6, <1>7 DEF RunRight, Iters
  <2>5. \A n \in Iters : n > iter' \/ (n = iter' /\ pc' = "simulate") => result'[n] = "none"
    BY <1>1, <1>2, <1>3, <1>6 DEF RunRight, Iters
  <2>6. /\ pc' \in {"simulate", "summary"} /\ (pc' = "simulate" => iter' \in 1..last')
        /\ pc' = "summary" => iter' = last' + 1
    BY <1>3, <1>6
  <2> QED
    BY <1>3, <1>6, <2>1, <2>2, <2>3, <2>4, <2>5, <2>6 DEF RunRight
<1>14. ReportRight'
  BY <1>3, <1>6 DEF ReportRight
<1> QED
  BY <1>11, <1>12, <1>13, <1>14 DEF IInv

(* The summary reports what the diff logs hold.                            *)
LEMMA SummaryRight == IInv /\ Summary => IInv'
<1> SUFFICES ASSUME IInv, Summary PROVE IInv'
  OBVIOUS
<1>1. TypeOK /\ LogsRight /\ RunRight
  BY DEF IInv
<1>2. /\ pc = "summary" /\ pc' = "idle"
      /\ UNCHANGED <<runs, ref, fresh, last, iter, log, diff, result>>
  BY DEF Summary
<1>3. report' = IF Found = {} THEN "error"
                ELSE IF \A n \in Found : "PASSED" \in Named(n) THEN "passed" ELSE "failed"
  BY <1>1, NoneFailed DEF Summary
<1>4. Found' = Found /\ \A n \in Iters : Named(n)' = Named(n)
  BY <1>2 DEF Found, Named, Verdicts
<1>5. TypeOK'
  BY <1>1, <1>2, <1>3, <1>4 DEF TypeOK
<1>6. LogsRight'
  BY <1>1, <1>2 DEF LogsRight, Entries
<1>7. RunRight'
  BY <1>1, <1>2, <1>4 DEF RunRight, IterRight, Compared
<1>8. ReportRight'
  <2>1. Found \subseteq Iters
    BY DEF Found
  <2> QED
    BY <1>3, <1>4, <2>1 DEF ReportRight
<1> QED
  BY <1>5, <1>6, <1>7, <1>8 DEF IInv
-----------------------------------------------------------------------------
(* The invariant, of every state of every regression.                      *)
THEOREM Invariance == Spec => []IInv
<1>1. Init => IInv
  BY InitRight
<1>2. IInv /\ [Next]_vars => IInv'
  <2> SUFFICES ASSUME IInv, [Next]_vars PROVE IInv'
    OBVIOUS
  <2>1. CASE StartRun
    BY <2>1, StartRunRight
  <2>2. CASE Finish
    BY <2>2, FinishRight
  <2>3. CASE Silent
    <3>1. log' \in Traces \union {NoTrace} /\ (log = NoTrace \/ log' \in Traces)
      BY <2>3 DEF Silent, IInv, TypeOK
    <3> QED
      BY <2>3, <3>1, UnfinishedRight DEF Silent
  <2>4. CASE Timeout
    <3>1. log' \in Traces \union {NoTrace}
      BY <2>4 DEF Timeout, IInv, TypeOK
    <3> QED
      BY <2>4, <3>1, UnfinishedRight DEF Timeout
  <2>5. CASE Unparsed
    BY <2>5, UnfinishedRight DEF Unparsed
  <2>6. CASE CompareTraces
    BY <2>6, CompareRight
  <2>7. CASE Summary
    BY <2>7, SummaryRight
  <2>8. CASE UNCHANGED vars
    <3>1. TypeOK => TypeOK'
      BY <2>8 DEF vars, TypeOK, Named, Verdicts
    <3>2. LogsRight => LogsRight'
      BY <2>8 DEF vars, LogsRight, Entries
    <3>3. RunRight => RunRight'
      BY <2>8 DEF vars, RunRight, IterRight, Compared, Named, Verdicts, Quality
    <3>4. ReportRight => ReportRight'
      BY <2>8 DEF vars, ReportRight, Found, Named, Verdicts
    <3> QED
      BY <3>1, <3>2, <3>3, <3>4 DEF IInv
  <2> QED
    BY <2>1, <2>2, <2>3, <2>4, <2>5, <2>6, <2>7, <2>8 DEF Next
<1> QED
  BY <1>1, <1>2, PTL DEF Spec

(* The type invariant.                                                     *)
THEOREM TypeCorrect == Spec => []TypeOK
<1>1. IInv => TypeOK
  BY DEF IInv
<1> QED
  BY <1>1, Invariance, PTL

(* What is compared.                                                       *)
LEMMA Comparing ==
  ASSUME IInv, pc = "compare"
  PROVE  ref \in Refs /\ iter \in Iters /\ log \in Traces
BY RegressionAssumption DEF IInv, TypeOK, RunRight, Iters

(* No wrong write passes, whatever the log that is compared.               *)
THEOREM PassedIsRight == Spec => []PassedIsPrefix
<1>1. IInv => PassedIsPrefix
  BY Comparing, VerdictRight DEF PassedIsPrefix, Verdict
<1> QED
  BY <1>1, Invariance, PTL

(* No right core fails.                                                    *)
THEOREM RightIsPassed == Spec => []SamePasses
<1>1. IInv => SamePasses
  BY Comparing, VerdictRight DEF SamePasses, Verdict
<1> QED
  BY <1>1, Invariance, PTL

(* When there is a report, every iteration asked for is over.              *)
LEMMA Reported ==
  ASSUME IInv, report # "none"
  PROVE  \A n \in 1..last : n \in Iters /\ IterRight(n) /\ result[n] # "none"
<1>1. TypeOK /\ RunRight
  BY DEF IInv
<1>2. iter = last + 1 \/ (iter = 0 /\ last = 0)
  BY <1>1 DEF RunRight
<1>3. \A n \in 1..last : n \in Iters /\ n < iter
  BY <1>1, <1>2, RegressionAssumption DEF TypeOK, Iters
<1> QED
  BY <1>1, <1>3 DEF RunRight

(* VERIFICATION PASSED in a new results directory, with every simulation   *)
(* at its end, means that no iteration asked for made a wrong change.      *)
THEOREM PassedReports == Spec => []PassedMeansRight
<1>1. IInv => PassedMeansRight
  <2> SUFFICES ASSUME IInv, report = "passed", fresh, AllEnded, NEW n \in 1..last
               PROVE  result[n] \in {"right", "early"}
    BY DEF PassedMeansRight
  <2>1. n \in Iters /\ IterRight(n) /\ result[n] # "none"
    BY Reported
  <2>2. Compared(n)
    BY <2>1 DEF AllEnded, Compared, IInv, TypeOK
  <2>3. "PASSED" \in Named(n)
    BY <2>1, <2>2 DEF IterRight, IInv, ReportRight, Found
  <2> QED
    BY <2>1, <2>2, <2>3 DEF IterRight
<1> QED
  BY <1>1, Invariance, PTL

(* A run of every iteration, all of them right, is reported as passed.     *)
THEOREM RightReports == Spec => []RightPasses
<1>1. IInv => RightPasses
  <2> SUFFICES ASSUME IInv, report \in {"failed", "error"}, last = N,
                      \A n \in Iters : result[n] = "right"
               PROVE  FALSE
    BY DEF RightPasses
  <2>1. \A n \in Iters : diff[n] # << >> /\ "PASSED" \in Named(n)
    BY Reported DEF IterRight, Compared, Iters
  <2>2. 1 \in Iters
    BY RegressionAssumption DEF Iters
  <2> QED
    BY <2>1, <2>2 DEF IInv, ReportRight, Found
<1> QED
  BY <1>1, Invariance, PTL

(* The report is of every diff log that is in the directory.               *)
THEOREM AllReported == Spec => []ReportIsOfAll
<1>1. IInv => ReportIsOfAll
  BY DEF IInv, ReportRight, ReportIsOfAll
<1> QED
  BY <1>1, Invariance, PTL
=============================================================================
