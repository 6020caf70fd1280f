------------------------------- MODULE Runner -------------------------------
(***************************************************************************)
(* One run of the experiment runner (testbed/run.py, run_scenario): start   *)
(* the containers, poll Jaeger until the client has converged, perhaps      *)
(* observe it, apply the dynamic toggles and watch for their effect, export *)
(* the trace, evaluate the assertions, and stop the containers.             *)
(*                                                                          *)
(* The client runs on its own clock.  It emits spans (main.go emitSpan),    *)
(* which the batcher hands to Jaeger later and in order, and each shows the *)
(* network the client last probed.  External: Jaeger answers a query with   *)
(* the newest traces up to its depth, with nothing, or so that urllib raises;   *)
(* docker may fail.  Time-outs are counted in polls.                        *)
(***************************************************************************)
EXTENDS Naturals, Sequences, FiniteSets

CONSTANTS
  Scenarios,    \* what may be run: the wait_for of each of dynamic_toggles, is
                \* observe_after_convergence_s set, and which services may fail
  Assertions,   \* types of the assertions about reachable_addrs_changed
  Depth,        \* query.search_depth
  Patience,     \* bound: polls before a time-out
  MaxSpans      \* bound: spans the client emits

ASSUME RunnerAssumption ==
  /\ Scenarios \subseteq [toggles : Seq({"converged", "sleep"}),
                         observes : BOOLEAN, fails : SUBSET {"jaeger", "docker", "evaluator"}]
  /\ Assertions \subseteq {"has_event", "no_event", "info"}
  /\ Depth \in Nat /\ Patience \in Nat /\ MaxSpans \in Nat

VARIABLES
  scenario,     \* the scenario that is run
  pc,           \* where run_scenario is
  up,           \* the containers run
  spans,        \* emitted by the client, in order
  exported,     \* how many of them Jaeger holds
  toggled,      \* toggles the router carries
  probed,       \* toggles the client's last probe saw
  polls,        \* polls of the present wait
  baseline,     \* prev_v1 and prev_v2
  results,      \* toggle_results: detected or not
  observed,     \* accumulated_spans
  file,         \* result_file, or NoFile
  verdict       \* run_pass

client == <<spans, exported, probed>>
kept == <<results, observed, file, verdict>>
vars == <<scenario, pc, polls, up, toggled, baseline, client, kept>>

Toggles == scenario.toggles
Observes == scenario.observes

Reachability == "reachability_changed"           \* AutoNAT v1
ReachableAddrs == "reachable_addrs_changed"      \* AutoNAT v2
SpanName == {Reachability, ReachableAddrs, "other"}
Span == [name : SpanName, shows : 0..Len(Toggles)]
NoFile == <<>>                     \* no file is ever written without a span

TypeOK ==
  /\ scenario \in Scenarios
  /\ pc \in {"start", "converging", "observing", "waiting", "counting_v1",
             "counting_v2", "toggling", "detecting", "exporting", "asserting",
             "done", "aborted"}
  /\ up \in BOOLEAN
  /\ spans \in Seq(Span) /\ Len(spans) <= MaxSpans
  /\ exported \in 0..Len(spans)
  /\ toggled \in 0..Len(Toggles) /\ probed \in 0..toggled
  /\ polls \in 0..Patience
  /\ baseline \in [{Reachability, ReachableAddrs} -> 0..MaxSpans]
  /\ results \in Seq(BOOLEAN) /\ Len(results) <= Len(Toggles)
  /\ observed \in Seq(Span) /\ file \in Seq(Span)
  /\ verdict \in {"none", "pass", "fail"}

-----------------------------------------------------------------------------
\* find_spans: what a query may return; one that fails in a way that _get catches
\* returns no spans.
Held == SubSeq(spans, IF exported > Depth THEN exported - Depth + 1 ELSE 1, exported)
Queried == IF "jaeger" \in scenario.fails THEN {Held, <<>>} ELSE {Held}

count_spans(name, found) == Cardinality({i \in DOMAIN found : found[i].name = name})

has_convergence_span(found) ==
  \E i \in DOMAIN found : found[i].name \in {Reachability, ReachableAddrs}

MutHolds(a, found) ==           \* mutant: v1 events are matched
  a = "has_event" => count_spans(Reachability, found) > 0

\* run_assertions on the result file; "info" never fails.
Holds(a, found) ==
  CASE a = "has_event" -> count_spans(ReachableAddrs, found) > 0
    [] a = "no_event"  -> count_spans(ReachableAddrs, found) = 0
    [] OTHER           -> TRUE

Go(from, to) == pc = from /\ pc' = to /\ polls' = 0
AfterConvergence == IF Observes THEN "observing" ELSE "waiting"
MutNextPhase == Len(results) + 2        \* mutant: off by one

NextPhase == Len(results) + 1

Init ==
  /\ scenario \in Scenarios
  /\ pc = "start" /\ up = FALSE
  /\ spans = <<>> /\ exported = 0
  /\ toggled = 0 /\ probed = 0 /\ polls = 0
  /\ baseline = [n \in {Reachability, ReachableAddrs} |-> 0]
  /\ results = <<>> /\ observed = <<>>
  /\ file = NoFile /\ verdict = "none"

\* dc.down of an earlier run, dc.up, wait_ready and wait_for_healthy: all go on
\* whatever they find, but up raises, and so does wait_ready as a query does.
Start ==
  /\ \/ Go("start", "converging") /\ up' = TRUE
     \/ "docker" \in scenario.fails /\ Go("start", "aborted") /\ up' \in BOOLEAN
     \/ "jaeger" \in scenario.fails /\ Go("start", "aborted") /\ up' = TRUE
  /\ UNCHANGED <<scenario, client, toggled, baseline, kept>>

MutPoll(here, found, to) ==     \* mutant: the deadline is not looked at
  IF found THEN Go(here, to) ELSE pc = here /\ polls' = polls + 1 /\ UNCHANGED pc

\* One poll of a wait that ends at pc = to when found is there, and one that is
\* abandoned at pc = late after Patience of them.
Poll(here, found, to) ==
  /\ polls < Patience
  /\ IF found THEN Go(here, to)
     ELSE pc = here /\ polls' = polls + 1 /\ UNCHANGED pc

MutTimesOut(here, late) == FALSE /\ Go(here, late)      \* mutant: it never comes

TimesOut(here, late) == polls = Patience /\ Go(here, late)

\* wait_for_convergence.
PollConvergence ==
  /\ \/ \E q \in Queried :
          Poll("converging", has_convergence_span(q), AfterConvergence)
     \/ TimesOut("converging", "waiting")
  /\ UNCHANGED <<scenario, client, up, toggled, baseline, kept>>

MutObserve ==                   \* mutant: a failed query is kept as well
  /\ \E q \in Queried : observed' = q
  /\ IF polls < Patience THEN Poll("observing", FALSE, "waiting")
     ELSE Go("observing", "waiting")
  /\ UNCHANGED <<scenario, client, up, toggled, baseline, results, file,
                 verdict>>

\* The observation keeps the latest query that found anything.
Observe ==
  /\ \E q \in Queried : observed' = IF q # <<>> THEN q ELSE observed
  /\ IF polls < Patience THEN Poll("observing", FALSE, "waiting")
     ELSE Go("observing", "waiting")
  /\ UNCHANGED <<scenario, client, up, toggled, baseline, results, file,
                 verdict>>

\* run_toggles, before the toggle: any v2 span at all counts as converged, and
\* a time-out goes on as well.
AwaitPhase ==
  /\ \/ NextPhase > Len(Toggles) /\ Go("waiting", "exporting")
     \/ /\ NextPhase <= Len(Toggles)
        /\ \/ Toggles[NextPhase] = "sleep" /\ Go("waiting", "counting_v1")
           \/ /\ Toggles[NextPhase] = "converged"
              /\ \/ \E q \in Queried : Poll("waiting",
                      count_spans(ReachableAddrs, q) > 0, "counting_v1")
                 \/ TimesOut("waiting", "counting_v1")
  /\ UNCHANGED <<scenario, client, up, toggled, baseline, kept>>

\* prev_v1 and prev_v2 are two queries.
Count(name) ==
  /\ \E q \in Queried : baseline' = [baseline EXCEPT ![name] = count_spans(name, q)]
  /\ UNCHANGED <<scenario, client, up, toggled, kept>>

CountV1 == Go("counting_v1", "counting_v2") /\ Count(Reachability)
CountV2 == Go("counting_v2", "toggling") /\ Count(ReachableAddrs)

\* exec_toggle, or the exception that a failing exec raises.
Toggle ==
  /\ \/ Go("toggling", "detecting") /\ toggled' = toggled + 1
     \/ "docker" \in scenario.fails /\ Go("toggling", "aborted") /\ UNCHANGED toggled
  /\ UNCHANGED <<scenario, client, up, baseline, kept>>

\* Any more spans of either kind than before are taken for the change.
Detect ==
  /\ \/ \E q1, q2 \in Queried :
          LET detected == \/ count_spans(Reachability, q1) > baseline[Reachability]
                          \/ count_spans(ReachableAddrs, q2) > baseline[ReachableAddrs]
          IN /\ Poll("detecting", detected, "waiting")
             /\ results' = IF detected THEN Append(results, TRUE) ELSE results
     \/ TimesOut("detecting", "waiting") /\ results' = Append(results, FALSE)
  /\ UNCHANGED <<scenario, client, up, toggled, baseline, observed, file,
                 verdict>>

MutExport ==                    \* mutant: the two traces are swapped
  /\ Go("exporting", "asserting")
  /\ \E q \in Queried : LET trace == IF observed = <<>> THEN observed ELSE q IN
       file' = IF trace # <<>> THEN trace ELSE file
  /\ UNCHANGED <<scenario, client, up, toggled, baseline, results, observed,
                 verdict>>

\* The trace: what was accumulated if anything was, else a query now.
Export ==
  /\ Go("exporting", "asserting")
  /\ \E q \in Queried : LET trace == IF observed # <<>> THEN observed ELSE q IN
       file' = IF trace # <<>> THEN trace ELSE file
  /\ UNCHANGED <<scenario, client, up, toggled, baseline, results, observed,
                 verdict>>

\* Where run_scenario queries Jaeger.
Querying ==
  \/ pc \in {"converging", "observing", "counting_v1", "counting_v2", "detecting"}
  \/ pc = "waiting" /\ NextPhase <= Len(Toggles) /\ Toggles[NextPhase] = "converged"
  \/ pc = "exporting" /\ observed = <<>>

\* _get catches a URLError, a time-out and a text that is no JSON: anything else,
\* as a connection that is reset, leaves run_scenario.
QueryRaises ==
  /\ "jaeger" \in scenario.fails /\ Querying /\ Go(pc, "aborted")
  /\ UNCHANGED <<scenario, client, up, toggled, baseline, kept>>

MutFails ==                     \* mutant: the spans of v1 are looked at
  file # NoFile /\ \E a \in Assertions : ~MutHolds(a, file)

Fails == file # NoFile /\ \E a \in Assertions : ~Holds(a, file)

\* The assertions are evaluated if the file exists, and an evaluator that crashes
\* or prints no JSON found no failure; then dc.down, whose failure is not looked at.
Assert ==
  /\ Go("asserting", "done")
  /\ \/ verdict' = IF Fails THEN "fail" ELSE "pass"
     \/ "evaluator" \in scenario.fails /\ verdict' = "pass"
  /\ up' = FALSE \/ ("docker" \in scenario.fails /\ UNCHANGED up)
  /\ UNCHANGED <<scenario, client, toggled, baseline, results, observed, file>>

Runs == \/ Start \/ PollConvergence \/ Observe \/ AwaitPhase \/ CountV1 \/ CountV2
        \/ Toggle \/ Detect \/ Export \/ QueryRaises \/ Assert

\* External: the client probes the network as it is; its event loop emits a
\* span of what it probed last; the batcher delivers to Jaeger.
ClientProbes ==
  /\ up /\ probed' = toggled
  /\ UNCHANGED <<scenario, pc, polls, up, toggled, baseline, spans, exported, kept>>

ClientEmits ==
  /\ up /\ Len(spans) < MaxSpans
  /\ \E n \in SpanName : spans' = Append(spans, [name |-> n, shows |-> probed])
  /\ UNCHANGED <<scenario, pc, polls, up, toggled, baseline, exported, probed, kept>>

BatchExported ==
  /\ up /\ exported < Len(spans)
  /\ exported' = Len(spans)
  /\ UNCHANGED <<scenario, pc, polls, up, toggled, baseline, spans, probed, kept>>

Next == Runs \/ ClientProbes \/ ClientEmits \/ BatchExported

\* Time passes and the runner is one thread that is never blocked for ever.
Spec == Init /\ [][Next]_vars /\ WF_vars(Runs)

-----------------------------------------------------------------------------
(* Properties. *)

\* Every wait of a run is bounded: the run ends, whatever the client, Jaeger
\* and docker do.
EveryRunEnds == <>(pc \in {"done", "aborted"})

\* A toggle is reported once, before the next one is applied.
ResultPerToggle ==
  /\ Len(results) \in {toggled, toggled - 1}
  /\ pc = "done" => Len(results) = Len(Toggles)

\* "FAIL if no matching event exists in the log", and not otherwise: once Jaeger
\* holds a matching event after the monitoring, a has_event run passes, if no
\* observation has fixed the trace before.
Matched == \E i \in 1..exported : spans[i].name = ReachableAddrs
EventIsFound ==
  Assertions = {"has_event"} /\ ~Observes /\ "jaeger" \notin scenario.fails =>
    (Matched /\ pc \in {"waiting", "counting_v1", "counting_v2", "toggling",
                        "detecting", "exporting"}
     ~> verdict = "pass" \/ pc = "aborted")

\* "TTU ... extracted from the same trace data": the event by which the last
\* toggle was detected is in the trace that is kept ...
ToggleIsInTrace ==
  pc = "done" /\ results # <<>> /\ results[Len(results)] =>
    \E n \in {Reachability, ReachableAddrs} : count_spans(n, file) > baseline[n]

\* ... which holds where no observation has fixed the trace before the toggles
\* and the last query does not fail.
DetectedIsInTrace ==
  ~Observes /\ "jaeger" \notin scenario.fails => ToggleIsInTrace

\* README.md:261, has_event: "FAIL if no matching event exists in the log"; so a run
\* that passes has the event in its trace.
PassHasEvent ==
  "has_event" \in Assertions /\ verdict = "pass" =>
    \E i \in DOMAIN file : file[i].name = ReachableAddrs

\* What main relies on: a run ends once, its containers start and stop with it unless
\* something raises or fails, and it is counted as a failure only if the trace that
\* it leaves violates its assertions.
phase == IF pc \in {"start", "done", "aborted"} THEN pc ELSE "running"
violated == \E a \in Assertions : ~Holds(a, file)
Promise == INSTANCE RunPromise WITH asserted <- Assertions # {}, trace <- file # NoFile
PromiseKept == Promise!Spec

\* The same of an evaluator that does not run: a run with a trace passes only if its
\* assertions hold.
PassHolds == verdict = "pass" /\ file # NoFile => \A a \in Assertions : Holds(a, file)

\* "Wait for either v1 or v2 to detect the change": what is reported as detected
\* is an event that shows the toggle.
DetectedIsTheChange ==
  \A i \in DOMAIN results : results[i] =>
    \E j \in 1..exported : spans[j].name # "other" /\ spans[j].shows >= i

\* "latest query has all spans": observing never loses a span already collected.
ObservationGrows ==
  [][\A i \in DOMAIN observed : \E j \in DOMAIN observed' :
       observed'[j] = observed[i]]_vars
=============================================================================
