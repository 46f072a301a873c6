------------------------------- MODULE Regression -------------------------------
(***************************************************************************)
(* run_all.py: the regression over the iterations of a test, with the      *)
(* comparison of each one's trace, and its summary, run again and again in *)
(* one checkout.  What outlives a run is the tracer's log in the directory *)
(* of the simulator, and results/<date> with one diff log per iteration,   *)
(* which the comparison appends to.                                        *)
(***************************************************************************)
EXTENDS TraceCompare

CONSTANTS
  N,             (* iterations the test directory has                         *)
  MaxRuns,       (* runs                                                      *)
  Refs,          (* the reference traces of the iterations, 1 to N            *)
  Traces,        (* the traces a build may leave                              *)
  Ends           (* how simulations end, of AllEnds                           *)

(* finish: to the end.  silent: no instruction is traced, so no log is     *)
(* opened.  timeout: killed.  unparsed: the log cannot be converted.       *)
AllEnds == {"finish", "silent", "timeout", "unparsed"}

ASSUME RegressionAssumption ==
  /\ N \in Nat \ {0} /\ MaxRuns \in Nat /\ Ends \subseteq AllEnds
  /\ \A r \in Refs : DOMAIN r = 1..N /\ \A n \in 1..N : IsTrace(r[n]) /\ r[n] # << >>
  /\ \A t \in Traces : IsTrace(t)

Iters   == 1..N
NoTrace == <<[rd |-> "no log", val |-> 0]>>

VARIABLES
  pc,            (* "idle", "simulate", "compare", "summary"                  *)
  runs,          (* runs so far                                               *)
  ref,           (* spike_trace_<iter>.csv                                    *)
  fresh,         (* whether this run has a new results directory              *)
  last,          (* the iterations asked for, --iter, are 1 to last           *)
  iter,          (* the iteration that is run                                 *)
  log,           (* trace_core_00000001.log, if there is one that converts    *)
  diff,          (* diff_<iter>.log: the verdicts in it, with the matches     *)
  report,        (* what run_all printed last                                 *)
  result         (* history: what became of the iterations of this run        *)

vars == <<pc, runs, ref, fresh, last, iter, log, diff, report, result>>

NoDiffs == [n \in Iters |-> << >>]
-----------------------------------------------------------------------------
Init ==
  /\ pc = "idle" /\ runs = 0
  /\ ref \in Refs /\ fresh = TRUE /\ last = 0 /\ iter = 0
  /\ log = NoTrace
  /\ diff = NoDiffs
  /\ report = "none"
  /\ result = [n \in Iters |-> "none"]

(* A run, on another day or not: an existing results directory is taken as *)
(* it is.                                                                  *)
StartRun ==
  /\ pc = "idle" /\ runs < MaxRuns
  /\ runs' = runs + 1
  /\ fresh' \in (IF diff = NoDiffs THEN {TRUE} ELSE BOOLEAN)
  /\ last' \in Iters
  /\ iter' = 1
  /\ diff' = IF fresh' THEN NoDiffs ELSE diff
  /\ report' = "none"
  /\ result' = [n \in Iters |-> "none"]
  /\ pc' = "simulate"
  /\ UNCHANGED <<ref, log>>

(* The next iteration, whatever became of this one.                        *)
Advance ==
  /\ iter' = iter + 1
  /\ pc' = IF iter < last THEN "simulate" ELSE "summary"

(* What a trace is worth: the reference's changes, the first of them only, *)
(* or others.                                                              *)
Quality(t, r) ==
  LET c == ChangesOf(t) s == ChangesOf(r)
  IN IF c = s THEN "right" ELSE IF IsPrefix(c, s) THEN "early" ELSE "wrong"

(* A simulation that wrote its log.                                        *)
Finish ==
  /\ "finish" \in Ends /\ pc = "simulate"
  /\ log' \in Traces
  /\ result' = [result EXCEPT ![iter] = Quality(log', ref[iter])]
  /\ pc' = "compare"
  /\ UNCHANGED <<runs, ref, fresh, last, iter, diff, report>>

(* One that wrote none: a log that is there is taken for its own.          *)
Silent ==
  /\ "silent" \in Ends /\ pc = "simulate"
  /\ result' = [result EXCEPT ![iter] = "unfinished"]
  /\ IF log = NoTrace THEN Advance ELSE pc' = "compare" /\ iter' = iter
  /\ UNCHANGED <<runs, ref, fresh, last, log, diff, report>>

(* One that is killed: its log is cut short, or was not opened yet.        *)
Timeout ==
  /\ "timeout" \in Ends /\ pc = "simulate"
  /\ log' \in Traces \union {log}
  /\ result' = [result EXCEPT ![iter] = "unfinished"]
  /\ Advance
  /\ UNCHANGED <<runs, ref, fresh, last, diff, report>>

(* One whose log core_log_to_trace_csv.py gives up on.                     *)
Unparsed ==
  /\ "unparsed" \in Ends /\ pc = "simulate"
  /\ log' = NoTrace
  /\ result' = [result EXCEPT ![iter] = "unfinished"]
  /\ Advance
  /\ UNCHANGED <<runs, ref, fresh, last, diff, report>>

(* instr_trace_compare.py on the log and the iteration's reference.        *)
Verdict == Result(ref[iter], log)
CompareTraces ==
  /\ pc = "compare"
  /\ diff' = [diff EXCEPT ![iter] =
                 Append(@, [verdict |-> Verdict, matched |-> Matched(ref[iter], log)])]
  /\ Advance
  /\ UNCHANGED <<runs, ref, fresh, last, log, report, result>>

(* regression_summary.py, for a diff log: a PASSED anywhere in it counts;  *)
(* if there is none, the first FAILED.  The instructions of a test are the *)
(* lines of Spike's CSV, its header among them.                            *)
Verdicts(d) == {d[k].verdict : k \in DOMAIN d}
Status_Bug(d) == IF "FAILED" \in Verdicts(d) THEN "FAILED" ELSE "PASSED"
Status(d) == IF "PASSED" \in Verdicts(d) THEN "PASSED" ELSE "FAILED"
Total_Bug(n) == Len(ref[n])                           \* without the header
Total(n) == Len(ref[n]) + 1
FailedOf(n) == IF Status(diff[n]) = "PASSED" THEN 0 ELSE Total(n) - diff[n][1].matched

(* Which logs it finds, all of the directory's.                            *)
Found_Bug == {n \in 1..(last - 1) : diff[n] # << >>}  \* the last iteration is left out
Found == {n \in Iters : diff[n] # << >>}
Summary ==
  /\ pc = "summary"
  /\ report' = IF Found = {} THEN "error"
               ELSE IF MapThenSumSet(FailedOf, Found) = 0 THEN "passed" ELSE "failed"
  /\ pc' = "idle"
  /\ UNCHANGED <<runs, ref, fresh, last, iter, log, diff, result>>

Next == StartRun \/ Finish \/ Silent \/ Timeout \/ Unparsed \/ CompareTraces \/ Summary

Spec == Init /\ [][Next]_vars
-----------------------------------------------------------------------------
Named(n) == Verdicts(diff[n])
TypeOK ==
  /\ pc \in {"idle", "simulate", "compare", "summary"}
  /\ runs \in 0..MaxRuns /\ last \in 0..N /\ iter \in 0..(N + 1)
  /\ ref \in Refs /\ fresh \in BOOLEAN
  /\ log \in Traces \union {NoTrace}
  /\ \A n \in Iters : Named(n) \subseteq {"PASSED", "FAILED"}
  /\ report \in {"none", "passed", "failed", "error"}
  /\ result \in [Iters -> {"none", "right", "early", "wrong", "unfinished"}]

(* No wrong write passes, whichever trace is compared: every register      *)
(* change of a core that passes is Spike's change at the same place.       *)
PassedIsPrefix ==
  pc = "compare" /\ Verdict = "PASSED" => Quality(log, ref[iter]) \in {"right", "early"}

(* No right core fails: traces with the same changes pass, however the     *)
(* entries without a change, and writes of the value a register holds      *)
(* already, are spread over them.                                          *)
SamePasses == pc = "compare" /\ Quality(log, ref[iter]) = "right" => Verdict = "PASSED"

(* A core that passes made every change that Spike made.                   *)
PassedIsSame ==
  pc = "compare" /\ Verdict = "PASSED" => Quality(log, ref[iter]) = "right"

(* VERIFICATION PASSED is printed only when no iteration asked for made a  *)
(* wrong change, if the results directory is new and all of them ended.    *)
AllEnded == \A n \in 1..last : result[n] # "unfinished"
PassedMeansRight ==
  report = "passed" /\ fresh /\ AllEnded =>
    \A n \in 1..last : result[n] \in {"right", "early"}

(* A run of every iteration, all of them right, is not reported as failed, *)
(* whatever earlier runs left in the results directory.                    *)
RightPasses ==
  report \in {"failed", "error"} => ~(last = N /\ \A n \in Iters : result[n] = "right")

(* The report is of every iteration that was compared: one without a       *)
(* [PASSED] makes it fail, also if every change of Spike's was matched and *)
(* only the core's later ones were not.                                    *)
ReportIsOfAll ==
  report \in {"passed", "failed"} => (report = "passed" <=> \A n \in Found : "PASSED" \in Named(n))
=============================================================================
