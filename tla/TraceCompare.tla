------------------------------ MODULE TraceCompare ------------------------------
(***************************************************************************)
(* instr_trace_compare.py: a core's trace against Spike's, in order.  The  *)
(* loop over Spike's entries is a fold over them; its state is where the   *)
(* core's trace is, the last value of each register in either trace, the   *)
(* matches and the mismatches.  Spike's trace is not empty: if it were and *)
(* the core's had a change, the report would name an unbound variable.     *)
(***************************************************************************)
EXTENDS Integers, Sequences, SequencesExt

CONSTANT Regs                                    (* registers                *)

ASSUME RegsAssumption == "none" \notin Regs

NoGpr == [rd |-> "none", val |-> 0]              \* an entry whose gpr field is empty

(* A trace: entries that are empty or name a register.                     *)
IsTrace(t) ==
  /\ Len(t) \in Nat /\ t = [k \in 1..Len(t) |-> t[k]]
  /\ \A k \in 1..Len(t) : t[k] = NoGpr \/ t[k].rd \in Regs
-----------------------------------------------------------------------------
(* check_update_gpr: whether the entry changes a register, and the update; *)
(* a register that has not been written is 0.                              *)
Changes_Bug(e, val) == e # NoGpr                      \* every update counts as a change
Changes(e, val) == e # NoGpr /\ e.val # val[e.rd]
Update(e, val)  == IF e = NoGpr THEN val ELSE [val EXCEPT ![e.rd] = e.val]

(* Where the core's trace next changes a register after entry j, or 0:     *)
(* what it passes over leaves the values as they are.                      *)
NextChange(core, j, val) ==
  LET cs == {k \in (j + 1)..Len(core) : Changes(core[k], val)}
  IN IF cs = {} THEN 0 ELSE Min(cs)

Start == [j |-> 0, val1 |-> [r \in Regs |-> 0], val2 |-> [r \in Regs |-> 0],
          matched |-> 0, mismatch |-> 0, ended |-> FALSE]

(* An entry of Spike's that is a change, against the core's next change.   *)
(* The loop ends with the core's trace, whatever Spike has left.           *)
Compare(core, st, e) ==
  LET k == NextChange(core, st.j, st.val2)
      same == k # 0 /\ core[k] = e
      j == IF k = 0 THEN Len(core) ELSE k
  IN [j |-> j,
      val1 |-> Update(e, st.val1),
      val2 |-> IF k = 0 THEN st.val2 ELSE Update(core[k], st.val2),
      matched |-> st.matched + (IF same THEN 1 ELSE 0),
      mismatch |-> st.mismatch + (IF same THEN 0 ELSE 1),
      ended |-> j = Len(core)]

Loop(spike, core) ==
  FoldLeft(LAMBDA st, e : IF st.ended \/ ~Changes(e, st.val1) THEN st ELSE Compare(core, st, e),
           Start, spike)

Rest_Bug(core, st) == 0                               \* what is left is not scanned
(* What is left of the core's trace: from its first change on, mismatches. *)
Rest(core, st) ==
  LET k == NextChange(core, st.j, st.val2) IN IF k = 0 THEN 0 ELSE Len(core) - (k - 1)

Result(spike, core) ==
  LET st == Loop(spike, core)
  IN IF st.mismatch + Rest(core, st) = 0 THEN "PASSED" ELSE "FAILED"
Matched(spike, core) == Loop(spike, core).matched
-----------------------------------------------------------------------------
(* The members of a set of places in order, the n-th has n up to itself,   *)
(* and what is at them in a sequence.                                      *)
InOrder(K) == [n \in 1..Cardinality(K) |-> CHOOSE k \in K : Cardinality({l \in K : l <= k}) = n]
Selected(s, K) == LET ks == InOrder(K) IN [n \in DOMAIN ks |-> s[ks[n]]]

(* The register changes of a trace, without a loop: the updates that       *)
(* differ from the last one of their register before them, or from zero.   *)
IsChange(t, k) ==
  LET before == {l \in 1..(k - 1) : t[l].rd = t[k].rd}
  IN t[k] # NoGpr /\ t[k].val # (IF before = {} THEN 0 ELSE t[Max(before)].val)
ChangesOf(t) == Selected(t, {k \in 1..Len(t) : IsChange(t, k)})
=============================================================================
