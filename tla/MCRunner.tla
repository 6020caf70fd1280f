------------------------------ MODULE MCRunner ------------------------------
(* Small instances of Runner. *)
EXTENDS Runner

AddRemove == <<"converged", "converged">>     \* reachable-forwarded.yaml
OneSleep == <<"sleep">>

Toggled == [toggles |-> AddRemove, observes |-> FALSE, fails |-> {}]
Observed == [toggles |-> OneSleep, observes |-> TRUE, fails |-> {}]

\* A run with two toggles, and one that observes and toggles once.
EveryScenario == {[Toggled EXCEPT !.fails = {"docker", "evaluator"}],
                  [Observed EXCEPT !.fails = {"jaeger"}]}
ObservesOnly == {Observed}
StaticOnly == {[toggles |-> <<>>, observes |-> FALSE, fails |-> {}]}
NoEvaluator == {Toggled, Observed, [Toggled EXCEPT !.toggles = <<>>, !.fails = {"evaluator"}]}
=============================================================================
