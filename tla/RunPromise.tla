----------------------------- MODULE RunPromise -----------------------------
(***************************************************************************)
(* What a run (run_scenario) promises to the session that starts it (main): *)
(* it begins, may leave a trace, and ends once, with a verdict or with an   *)
(* exception.  Session builds on this, Runner keeps it.  Whether a run may  *)
(* pass that violates its assertions is not promised here.                  *)
(***************************************************************************)
CONSTANT asserted   \* has the scenario assertions?

VARIABLES
  phase,        \* "start", "running", "done", "aborted"
  up,           \* do its containers run?
  trace,        \* is there a result file?
  violated,     \* do its spans, or the lack of any, violate an assertion?
  verdict       \* "none", "pass", "fail"

vars == <<phase, up, trace, violated, verdict>>

Init ==
  /\ phase = "start" /\ up = FALSE /\ trace = FALSE /\ verdict = "none"
  /\ violated \in {asserted, FALSE}

Begin ==
  /\ phase = "start" /\ phase' = "running" /\ up' = TRUE
  /\ UNCHANGED <<trace, violated, verdict>>

Write ==
  /\ phase = "running" /\ trace' = TRUE /\ violated' \in {asserted, FALSE}
  /\ UNCHANGED <<phase, up, verdict>>

\* Only what violates an assertion may fail; the final down may leave containers.
Finish ==
  /\ phase = "running" /\ phase' = "done" /\ up' \in BOOLEAN
  /\ verdict' \in {"pass"} \cup {v \in {"fail"} : violated}
  /\ UNCHANGED <<trace, violated>>

\* An exception: of up, before or after it has started something, of a toggle, or
\* of a query.
Abort ==
  /\ \/ phase = "start" /\ up' \in BOOLEAN
     \/ phase = "running" /\ UNCHANGED up
  /\ phase' = "aborted"
  /\ UNCHANGED <<trace, violated, verdict>>

Next == Begin \/ Write \/ Finish \/ Abort
Spec == Init /\ [][Next]_vars
=============================================================================
