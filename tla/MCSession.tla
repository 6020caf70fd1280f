----------------------------- MODULE MCSession ------------------------------
(* Small instances of Session: scenario files and how they are called. *)
EXTENDS Session

Plain == [timeout |-> None, runs |-> None, filter |-> <<>>, output |-> 0,
          dry_run |-> FALSE]
With(document, options) == [document |-> document, options |-> options @@ Plain]
Matrix(m) == [matrix |-> m, scenarios |-> None, defaults |-> [timeout_s |-> 60]]
List(s, d) == [matrix |-> None, scenarios |-> s, defaults |-> d]

\* Two clients and two numbers of servers (rust and go, with and without NAT).
Grid == Matrix(<<<<"client_impl", <<"go", "rust">>>>, <<"nat_type", <<"none", "symmetric">>>>,
                 <<"server_count", <<3, 5>>>>>>)

Forward == [name |-> <<<<"forward">>>>, nat_type |-> "symmetric", port_forward |-> TRUE,
            server_count |-> 7,
            dynamic_toggles |-> <<[action |-> "remove_port_forward"]>>,
            assertions |-> <<"has_event">>]
Mocked == [name |-> <<<<"mocked">>>>, mock_behaviors |-> <<"reject", "refuse", "timeout">>,
           assertions |-> <<"no_event">>]
Asserted == [nat_type |-> "none", server_count |-> 3, assertions |-> <<"no_event">>]

\* reachable-forwarded.yaml then mock-server.yaml in one file.
Mixed == List(<<Forward, Mocked, Asserted>>, <<>>)
RustMock == List(<<[client_impl |-> "rust"] @@ Mocked>>, <<>>)
Twice == List(<<Asserted>>, [runs |-> 2, transport |-> "quic"])
Wrong == List(<<[Asserted EXCEPT !.server_count = 8]>>, <<>>)
Ambiguous == [Mixed EXCEPT !.matrix = Grid.matrix]

FilterRust == [client_impl |-> "rust", server_count |-> 3]

EveryCommand ==
  {With(Grid, [filter |-> FilterRust]), With(Grid, [filter |-> [nat_type |-> "none"], runs |-> 1]),
   With(Grid, [filter |-> [nat |-> "none"]]), With(Grid, [dry_run |-> TRUE]),
   With(Mixed, <<>>), With(Mixed, [filter |-> [nat_type |-> "symmetric"], runs |-> 2]),
   With(RustMock, [timeout |-> 9]), With(Twice, [output |-> 1]), With(Twice, <<>>),
   With(Wrong, <<>>), With(Ambiguous, <<>>)}

\* v1-v2-gap.yaml, a count of four, the Rust client at the mock servers.
Gap == List(<<[name |-> <<<<"gap">>>>, nat_type |-> "full-cone", server_count |-> 7,
               unreliable_servers |-> 5]>>, <<>>)
Four == List(<<[nat_type |-> "none", server_count |-> 4]>>, <<>>)
\* What compose fails to start or stop are the clients, which depend on the servers.
ClientsFail == {{}, Clients}
GapCommand == {With(Gap, <<>>)}

\* Runs that differ in what no label shows.
Unlabelled == List(<<Asserted, [Asserted EXCEPT !.assertions = <<"has_event">>]
                       @@ [upnp |-> TRUE]>>, <<>>)

\* With the directory of an earlier session, and with --runs=-1.
MoreCommands ==
  {With(Four, <<>>), With(RustMock, <<>>), With(Unlabelled, <<>>),
   With(Twice, [output |-> 1]), With(Grid, [runs |-> -1])}

\* The proofs about result files are for such names, as all of scenarios/ are.
ASSUME NamesArePlain == PlainNames

\* ... and the proof that every combination is run is for such matrices.
ASSUME MatricesAreAsWritten ==
  \A c \in EveryCommand : c.document.matrix # None => MatrixAsWritten(c)
=============================================================================
