----------------------------- MODULE MCResults ------------------------------
(* Small instances of Results: parts of the scenario files with every outcome. *)
EXTENDS Results

V1(t, r) == [Name |-> "reachability_changed", Events |-> <<>>,
             Attributes |-> [elapsed_ms |-> t, reachability |-> r]]
V2(t, r, u) == [Name |-> "reachable_addrs_changed", Events |-> <<>>,
                Attributes |-> [elapsed_ms |-> t, reachable |-> r, unreachable |-> u]]
Lettered(chars, bytes, r, events) ==
  [Name |-> "autonatv2.probe", Events |-> events,
   Attributes |-> [addr_chars |-> chars, addr_bytes |-> bytes, reachability |-> r]]
Probe(bytes, r, events) == Lettered(bytes, bytes, r, events)
Asked == [Name |-> "dial_data_requested", num_bytes |-> 30]
Back == [Name |-> "dial_back_received", num_bytes |-> 0]

Spans(s) == [spans |-> s, toggles |-> <<>>]

\* None, both protocols right or wrong, and one without the other.
Verdict == {Spans(s) : s \in
  {<<>>, <<V1(3, "public"), V2(4, 0, 0), V2(6, 1, 0)>>, <<V2(5, 0, 1), V1(9, "private")>>,
   <<V2(6, 0, 0), V1(7, "private"), V1(8, "public")>>, <<V2(4, 1, 1), V2(5, 0, 2)>>}}

RunsOf(dir, document, outcomes) ==
  LET scenarios == expand_scenarios(document) IN
  FlattenSeq([i \in DOMAIN scenarios |-> [n \in 1..scenarios[i].runs |->
    [dir |-> dir, scenario |-> scenarios[i], run_num |-> n, outcomes |-> outcomes]]])

Matrix(nats, more) == [matrix |-> <<<<"nat_type", nats>>, <<"transport", <<"tcp">>>>>> \o more,
                       scenarios |-> None, defaults |-> [timeout_s |-> 120]]

Full == RunsOf(FullMatrix,
  Matrix(<<"full-cone", "symmetric">>, <<<<"server_count", <<3, 5, 7>>>>>>), Verdict)
Latency == RunsOf(HighLatency,
  Matrix(<<"none", "port-restricted">>, <<<<"server_count", <<7>>>>, <<"latency_ms", <<200, 500>>>>>>), Verdict)
Loss == RunsOf(PacketLoss,
  Matrix(<<"full-cone">>, <<<<"server_count", <<7>>>>, <<"packet_loss", <<1, 5, 10>>>>>>), Verdict)
Gap(dir) == RunsOf(dir, [matrix |-> None, defaults |-> <<>>, scenarios |->
  <<[name |-> <<<<"v1v2">>, <<"gap">>>>, nat_type |-> "full-cone", assertions |-> <<"has_event">>]>>], Verdict)

\* Probes with and without events, which ask for dial data, or say another thing of
\* the dial-back than the verdict, or whose addresses have letters of two bytes.
Sent == [Name |-> "response_received", num_bytes |-> 0]
Bare == {Spans(<<Probe(9, "public", <<>>), Probe(20, "private", <<>>)>>), Spans(<<V1(1, "public")>>),
         Spans(<<Probe(9, "public", <<Sent, Back>>), Probe(20, "private", <<Sent>>)>>),
         Spans(<<Lettered(9, 10, "public", <<>>)>>), Spans(<<Probe(9, "private", <<Asked, Sent>>)>>)}
WithEvents == {Spans(<<Probe(9, "public", <<Asked, Back>>)>>)}
Probed(outcomes) == RunsOf(FullMatrix, Matrix(<<"none">>, <<<<"server_count", <<3, 7>>>>>>), outcomes)

\* reachable-forwarded.yaml with several runs.
Repeated(n, outcomes) == RunsOf("reachable-forwarded", [matrix |-> None, defaults |-> [runs |-> n], scenarios |->
  <<[name |-> <<<<"forward">>>>, nat_type |-> "symmetric", assertions |-> <<"has_event">>]>>], outcomes)
Timed == {Spans(<<Probe(9, "public", <<>>), V2(t, 1, 0)>>) : t \in {4, 5, 8}}
         \cup {Spans(<<V2(7, 0, 1)>>), Spans(<<Probe(9, "public", <<Back>>)>>)}
Toggled == {[spans |-> <<>>, toggles |-> <<[detected |-> FALSE, time_to_detect_s |-> 9]>>]}

EveryPlan == {Full, Latency, Loss, Gap("v1-v2-gap-1") \o Gap("v1-v2-gap-2"), Probed(Bare), Repeated(4, Timed)}
FullPlan == {Full}

ASSUME SweepsAreAsWritten == AsWritten(EveryPlan)

\* matrix.yaml, "--runs=5": Deep dive
Deep == RunsOf(FullMatrix, [Matrix(<<"symmetric">>, <<<<"server_count", <<7>>>>>>)
                              EXCEPT !.defaults = [runs |-> 2]], Verdict)
Few == RunsOf(FullMatrix, Matrix(<<"symmetric">>, <<<<"server_count", <<3>>>>>>), Verdict)
MorePlans == {Few, Deep, Probed(WithEvents), Repeated(2, Timed), Repeated(1, Toggled)}
=============================================================================
