# A TLA+ development of autonat-project

The repository measures how AutoNAT v1 and v2 (the libp2p protocols by which a
host learns whether it can be dialled) behave behind the common kinds of NAT.
Its own code is a testbed: a Linux router in a container, AutoNAT servers and
clients in Go, Rust and JavaScript, a mock server that answers as it is told, a
runner that plays a scenario, and programs that compute metrics and evaluate
assertions on the resulting trace. The modules here model the parts of it that
act, remember and overlap; TLC checks them on small instances and TLAPS proves
part of what they promise for every value of the constants. A reference such as
run.py:907 is a file of `src/testbed/` with a line, main.rs and index.ts those of
`docker/node-rust/src` and `docker/node-js/src` there; `docs/` is `src/docs/`, and
generate_figures.py is in `src/results/`.

## 1. Inventory

| component | state | operations | hard about it | correct when |
|---|---|---|---|---|
| NAT router (docker/router/entrypoint.sh, exec_toggle of run.py:698, docker/node/entrypoint.sh) | iptables rules; kernel flows; the `recent` list | every packet; the four commands of a toggle; expiry | rules change between packets; the filter of the address-restricted type is in the DNAT; ports collide | only the peers the NAT type admits are heard; forward rules come and go together, unless a command fails; the full cone maps and reaches as promised |
| Mock server (mock_server.go) | per handler: behaviour, stream, status; shared: peerstore and connection of `dialerHost` | handleDialRequest, performDialBack, performConnectOnly | goroutines of one client share one dialling host, each cleans up for all; dials, streams, writes and reads fail | answer and nonce are those the behaviour allows; nothing is left in the host; handlers end |
| Dial-back (mock_server.go:343, through the router) | the dial-back's first packet; the flows it meets or leaves | ask, dial, dial again, give up | toggles and expiry between the packets of one dial; a flow of an earlier dial | the verdict is what the NAT admitted at some moment of the probe |
| One run (run.py:647-973) | phase, baselines, results, accumulated spans, result file | run_scenario, wait_for_convergence, run_toggles, export, run_assertions | polls a store that lags behind the client; queries, docker and the evaluator fail; time-outs | one result per toggle, nothing collected is lost, what is reported is in the file, the run ends once, with a verdict or an exception |
| A session (run.py:997-1098) | agenda, environment, containers, result files, exit status | main's loop; the start and end of run_scenario | an exception, or a `down` that fails unnoticed, leaves containers behind; `down` stops its own profiles only; directories are reused; the environment is never reset | each combination runs as often as asked; a run's environment, clients, file and verdict are its own |
| Scenario expansion (run.py:320-640, 976-990, compose.yml) | none | parse, matrix, validate, filter, profiles, thresholds, environment, label | three functions decide about servers at different boundaries; overrides come after validation | servers enough for the threshold; the environment is complete; distinct runs have distinct labels |
| Server discovery (main.go:513-608, main.rs:334-714, index.ts:280-380, compose.yml) | address files; listing; dials | write file, wait, settle, list, read, dial | health means only that a file exists; one listing; dials that end later | servers compose waits for are found; every transport listens; the client goes on |
| Reachability tracking (main.go:329-511, main.rs:514-565, index.ts:211-260) | sets of reachable and unreachable addresses; previous announcement | event handlers, emitSpan | answers arrive in any order; reachability is inferred from differences | sets and spans follow the latest answer or announcement |
| Analysis and assertions (analyze.py, eval-assertions.py) | the files | metrics of a trace and of many; filters and assertion types | "first" means first line, of a file that Jaeger may return in another order or in part; unknown taken for unreachable; attributes that differ between clients; small samples | metrics say what the client went through; two parsers agree |
| Figures (generate_figures.py) | the files of result directories | find a file by its name, or take a name apart; rates, points, cells, bytes | the name is all that tells a run's conditions, and run.py writes it; a missing file falls back to another | a bar, point or cell is of the runs made under its condition |

The interactions: the runner starts router, servers and client through compose;
the client finds servers by files in a shared volume, and dials them through the
router; a server (or the mock) dials back through the router; the client emits
spans, a batcher hands them to Jaeger; the runner queries Jaeger, toggles the
router's rules, exports the file, and the file is read by the evaluator, by the
analysis and, under the name that the session gave it, by the figures. PROJECT.json lists every component,
those that are not modelled with the reason, and under "hazards" the places where the
code is hard to test; where the code does go wrong there, the hazard's note names the
configuration of section 3 that shows it.

## 2. Modules

| module | models | notes |
|---|---|---|
| `NatPromise` | abstract: which remote endpoints a NAT type lets the client hear (EIF, ADF, APDF) | no rules, flows or ports of translation |
| `NatRouter` | the rule chains, connection tracking, toggles | implements `NatPromise` by `Promise` (talks from the flows, `open` from the rules) |
| `NatRouterProofs` | theorems about `NatRouter` | |
| `MockPromise` | abstract: the table of mock behaviours, per request | no connections, streams or peerstore |
| `MockServer` | handlers, shared dialling host, client at the other end | implements `MockPromise`, whatever requests overlap |
| `MockServerProofs` | theorems about `MockServer` | |
| `DialBack` | a probe: request, dial-back and its repetitions through the router | EXTENDS `NatRouter`, whose actions it composes |
| `DialBackProofs` | theorems about `DialBack` | EXTENDS `NatRouterProofs` |
| `RunPromise` | abstract: a run begins, may leave a trace, ends once | what `Session` relies on |
| `Runner` | one run_scenario with client, batcher and Jaeger around it | implements `RunPromise` by `Promise` (`phase` from `pc`) |
| `RunnerProofs` | theorems about `Runner`, the refinement among them | |
| `Scenario` | document to scenarios, validation, profiles, environment, label: pure operators | no state |
| `Session` | main: runs, containers, files, exit status | EXTENDS `Scenario` |
| `SessionProofs` | theorems about `Session` | |
| `Results` | files of finished runs, and what figures and statistics make of them | EXTENDS `Scenario` for the labels |
| `ResultsProofs` | theorems about `Results` | |
| `Discovery` | files, compose's condition, and the three clients | |
| `DiscoveryProofs` | theorems about `Discovery` | |
| `Tracker` | what each client writes about its addresses | |
| `Analysis` | the file, metrics and assertions on it; EXTENDS `Tracker` | |
| `AnalysisProofs` | theorems about `Tracker` and `Analysis` | |
| `MC*` | small instances | |

Correspondence, beyond the per-definition map of PROJECT.json:

* **NatRouter.** A packet is a 5-tuple. `ClientOpens` and `ServerOpens` are first
  packets, which the nat table sees; `ClientContinues` and `ServerContinues` later
  ones, which are translated by their flow and only pass FORWARD. `PortsOut` is
  POSTROUTING: SNAT or MASQUERADE keep the port if its reply tuple is free,
  `--random` does not, PORT_REMAP comes first. `DnatToClient`, `AcceptIn` and
  `AcceptOut` are PREROUTING and FORWARD by NAT type. `Leave` has the
  `recent --set`. `ToggleStarts` and `ToggleCommand` are exec_toggle, a command
  at a time with packets between them; with `CommandsFail` a command may fail, of
  which the script takes no notice (no `set -e`), and `script.ok` is a history field
  that says whether one has. Connection tracking (Linux) is external:
  lookup, choice of a free port, expiry. `wire` is a history variable: the
  conversation that crossed last.
* **MockServer.** `pc` is the place of a handler in handleDialRequest and
  performDialBack; each action ends at a call that may block or be interleaved.
  The delay is the freedom to run `Act` later. `ClosePeer` and `ClearAddrs` are the
  two deferred calls; they act on the client's entries, which are shared by all
  handlers of that client. A dial, a stream, a write may fail on their own
  (`FinishDial`, `NewStream`, `WriteNonce`: the context of ten seconds, loss, a reset),
  `ConnectionLost` ends a connection under a handler, and `FinishRead` goes on whether
  the Read that it drops the error of has succeeded or not. The addresses of
  main.go:284 that are neither TCP nor QUIC for isTCPAddr and isQUICAddr (webrtc-direct)
  are among those asked about. `shared` is a history variable, the requests that were
  under way together with another. libp2p (one connection per peer, dial all addresses in the
  peerstore, reset streams on close) and the client are external.
* **DialBack.** `Ask` is the request over a connection that the client has through
  the router: the endpoint asked about is the mapped one of a flow of its listening
  port, as identify reports it. `Attempt` is a first packet of the dial, sent or sent
  again; the router's own actions say what becomes of it, and `Passes` whether the
  client hears it. `Network` is everything else NatRouter does meanwhile.
  `admitted` is a history variable, what the NAT promised at each moment of the
  probe. Assumed: the contacted list's 300 seconds and conntrack's life of a flow in
  use are longer than one dial.
* **Runner.** `pc` is the phase; one poll is one action, a time-out is counted in
  polls. The client emits spans with what its last probe saw of the network, so
  that a late span can be told from the effect of a toggle. A failed query returns
  no spans where Jaeger._get catches the exception (run.py:164-171) and leaves
  run_scenario where it does not (`QueryRaises`); docker's failure raises, but for that
  of the final down, which leaves the containers (`check=False`, run.py:127-129); the
  evaluator's failure is a pass (run.py:813-821). A run without a result file passes
  (run.py:961), and `RunPromise` allows it: that README.md:261 does not is the run
  `runner_no_evidence`.
* **Scenario.** A label is the sequence of the parts between its dashes, so that
  "address-restricted" is two parts; numbers are numbers and environment entries
  texts. `compose` is the table of services and profiles of compose.yml; a profile or
  a client is named by its implementation and by whether it is behind the NAT, without
  one or with the mock servers ("local" and "rust-nonat" are `<<"go", "nat">>` and
  `<<"rust", "nonat">>`). The product of a matrix is a recursive function, a key at a time.
* **Session.** A run is `StartRun` (environment, down, up), perhaps `RunRaises`
  (a toggle that docker refuses, a query that raises), and `FinishRun`; what happens
  between is in `Runner`. A down may spare some of what it should stop, without a word,
  and a later up leaves it as it is or starts it anew (`Stopped`, `Started`). `unclean`
  is a history variable, the runs that raised or whose final down failed; there are at
  most `MaxUnclean` of them, and docker spares or fails to start a set of `Parts`.
  `up` remembers which run
  started each container, and a file which runs' spans are inside, so that a
  property can say whose they are. Two clients with one `ipv4_address` clash.
* **Results.** `Save` leaves what run_scenario leaves. Everything else is an
  operator on `disk`: those of generate_figures.py read the names, those of
  analyze.py the contents. A sorted list is given by its ranks (`Ranked`). The byte estimate is two
  operators, as it is two functions: `probe_bytes` of analyze.py and
  `_probe_byte_estimate` of generate_figures.py, with their own rules for the length of an
  address and for dial data. Directories have names without their time stamps.
* **Discovery.** A file is absent, empty or written, as os.WriteFile leaves it.
  The three clients share the actions and differ in `impl`: the Rust one waits for
  listeners and hands over all dials at once, the JavaScript one ends on an
  unreadable file, only the Go one reports failures. `skipped` is a history variable,
  the servers whose files could not be read. The volume is fresh at the start, as it is
  unless a `down --volumes` has failed.
* **Tracker, Analysis.** Spans are records of a name, the lists of addresses and
  elapsed_ms. `Export` writes what Jaeger returns: any of them, in any order, as
  each span is a trace of its own, run.py:262-304 does not sort, and search_depth and
  a time-out truncate. Metrics are operators on `file`; a list
  of events that a program picks from it is the set of their lines.

## 3. Runs

| run | instance | shows |
|---|---|---|
| `nat_adf` | 2 servers, 2 ports, UDP, 2 flows, one static forward | `FilterPromise` through toggles, expiry and ageing |
| `nat_fullcone` | 2 servers, 2 ports, UDP, 2 flows, a static forward and toggles on top of it, whose commands may fail | `ForwardWhole`, `MappingIndependent`, `MappedReachable` |
| `mock` | 2 requests that may overlap, 4 addresses; force-reachable, with no-dialback-msg over TCP and timeout over QUIC; dials, streams, writes and connections may fail | `NothingLeftBehind`, `MockPromiseKept`, `EveryRequestAnswered`, `EveryHandlerEnds` |
| `dialback` | port-restricted, 2 servers, 2 ports, UDP, 3 flows, toggles | `FreshVerdictIsJustified` |
| `runner` | a run with two toggles, docker and evaluator failing; one that observes, with queries that return nothing or raise and a final down that may fail; 3 spans, 2 polls to a time-out | `ResultPerToggle`, `DetectedIsInTrace`, `PromiseKept`, `ObservationGrows`, `EventIsFound`, `EveryRunEnds` |
| `session` | two sessions out of eleven commands: a matrix of clients, NAT and servers with filters and overrides, a list with a forward, toggles, assertions and mocks, a Rust client at the mocks, two runs in a new or given directory, documents that are declined; docker may fail to start or to stop the clients, and a query may raise, in one run | `ClientsExplained`, `ThresholdInReach`, `EnvironmentIsOwn`, `JudgedOnOwn`, `EveryComboRan`, `ResultsAreKept` |
| `results` | parts of full-matrix, high-latency, packet-loss and both v1-v2-gap directories with five outcomes per run; runs with probes; four repetitions of a run with toggles | `RatesAreRuns`, `PointsAreRuns`, `FiguresAgree`, `MetricsInOrder`, `OverheadAgrees` |
| `discovery` | 3 servers of which compose waits for 2, 2 transports, 2 looks; each client in compose and alone; the directory and each file may be unreadable | `RequiredFound`, `ListenersReady`, `DiscoveryEnds` |
| `analysis` | each client, 2 public and 1 private address, 4 spans, exported in any order and with any loss | `LatestVerdict`, `AnnouncedIsReachable`, `ParsersAgree`, `GoFalsePositiveIsLoss` |

Why the bounds are enough to be of use: two ports and three flows are the least
for which a port is taken and another has to be chosen (`dialback`; a flow that comes
in by the forward takes one with two, in `nat_fullcone`); two flows and two
servers the least with a contacted and an uncontacted peer; two requests the
least that share the dialling host, and four addresses are one of each transport
that has an override, and two of neither, of which one cannot be dialled. Three spans are one
before, one during and one after a toggle. Two polls let an answer come at the
first, at the second, or never. Four spans include unknown, confirmed, lost and
confirmed again. Two sessions are the least in which one meets what the other left,
and its commands differ in each thing that could be inherited. The five outcomes
of `results` are no trace, both protocols right or wrong, and each without the
other; three server counts and two values of a condition the least that can be
confused. `MaxRules = 2` is the least for a toggle on top of a static forward, in
`nat_fullcone` and `nat_symmetric`; the other routers have one. `MaxUnclean = 1` lets one
run of two sessions leave a client behind, which is what the next has to be judged
without. Actions whose number grows without
bound have a guard with one of the constants named "bound". Deadlock is not checked where
the system stops by design: handlers end, a run is over, a trace is full.

Disagreements of the code with what the repository says of it (each a run that
TLC finds violated, with the line in "findings"):

| run | statement | what the code does |
|---|---|---|
| `session_servers` (`ServersAsAsked`) | 2 reliable servers + 5 unreliable servers (scenarios/v1-v2-gap.yaml:4) | seven reliable ones and five unreliable ones: profiles only add (run.py:578-586) |
| `results_baseline` (`BaselineIsRuns`) | rates per experiment condition (generate_figures.py:655) | "Baseline (local)" wants names without a latency, and every name has one (run.py:986): no run counts, all rates are zero |
| `runner_no_evidence` (`PassHasEvent`) | "FAIL if no matching event exists in the log" (README.md:261) | no spans, no result file, no assertions: the run passes (run.py:961) |

### Further configurations

These are kept beside the runs and checked by hand with
`tlc -config <name>.cfg <MC module>`. The first three pass, all others end in a
counterexample to each property they name; those called `_more` hold several, for
which `-continue` goes on after the first.

| configuration | property | shows |
|---|---|---|
| `nat_apdf` | `FilterPromise` | hotel WiFi: port-restricted, remapping, one blocked TCP port, servers routed to the private network |
| `nat_symmetric` | `FilterPromise`, `ForwardWhole` | symmetric NAT with toggles on top of a static forward |
| `dialback_adf` | `FreshVerdictIsJustified`, `ConeLooksPublic` | address-restricted: whoever is asked was contacted, so every verdict is "reachable" (scenarios/adf-false-positive.yaml) |
| `dialback_stale` | `VerdictIsJustified` | a dial-back that failed before a toggle leaves a flow to the router, and the next one from that port meets it: still unreachable after add_port_forward (run.py:703-710 flushes nothing) |
| `nat_adf_direct` | `FilterPromise` | the address-restricted filter is in DNAT, a packet to the private address passes (node/entrypoint.sh:11 says NAT applies) |
| `nat_eim` | `MappingIndependent` | MASQUERADE keeps a port only while it is free (docs/testbed.md:167 calls it endpoint-independent) |
| `nat_symmetric_ports` | `MappingPerDestination` | `--random` may draw one port for two destinations (entrypoint.sh:173) |
| `nat_fullcone_remap` | `MappedReachable` | the full cone's DNAT is not told of PORT_REMAP (entrypoint.sh:99) |
| `mock_more` | `OkIsReachable` | OK for an address that cannot be dialled: Connect uses what another handler left (mock_server.go:340) |
| | `OkIsDelivered` | OK though the stream was reset before the nonce was read, with a single request too (mock_server.go:374-377) |
| `mock_override` | `EveryRequestAnswered` | an override of probabilistic is never answered (docs/scenario-schema.md:81) |
| `mock_zero` | `ZeroIsNever` | probability 0 is one half (main.go:66) |
| `runner_more` | `DetectedIsTheChange` | any later arrival counts as the effect of a toggle (run.py:760) |
| | `ToggleIsInTrace` | the trace observed before the toggles is the one that is kept (run.py:938) |
| | `PassHolds` | an evaluator that crashes is a pass (run.py:815) |
| `runner_depth` | `ObservationGrows` | the newest search_depth traces replace what was collected (run.py:918) |
| `session_more` | `ThresholdAlways` | with server_count 4 three servers run and four observers must agree (run.py:600) |
| | `OnlyItsClient` | a Rust or JavaScript scenario with mocks also starts the Go client (run.py:567) |
| | `VerdictIsOwn` | a run without a trace is judged on the file of an earlier session, or of a run with the same label (run.py:961) |
| | `EveryComboRan` | --runs=-1 is not validated: nothing runs, exit status 0 (run.py:1023) |
| `results_more` | `BarsAreSeven` | the bar of a run without an event is that of a run with fewer servers (generate_figures.py:180) |
| | `PointsAreRuns` | with --runs=2 the names end in run1 and run2, and no figure finds them |
| | `OverheadMirrors` | the figure's estimate is called without events, so dial data count nothing (generate_figures.py:1056) |
| | `P95AboveMedian` | of two runs p95 is the minimum (analyze.py:295) |
| | `TotalIsRuns` | result files of toggles and assertions count as runs (scenarios/reachable-forwarded.yaml gives `*.json`) |
| | `TimelineIsDetected` | a toggle that was not detected is drawn as detected (generate_figures.py:453) |
| `discovery_more` | `AllServersFound` | a slow server that compose does not wait for is never learnt of (main.go:549) |
| | `ListenersReady` | two addresses of one transport count for two listeners (main.rs:334) |
| | `DoneIsConnected` | the Rust client reports the end while dials are under way (main.rs:705) |
| `analysis_more` | `FirstIsFirst` | the first line that says reachable need not be of the first span that does (analyze.py:276) |
| | `NoneActivated` | no_event filters by an attribute the event has not (scenarios/flight-wifi.yaml:21) |
| | `MarkedUnreachable` | "unreachable=" matches the JSON of no event (scenarios/hotel-wifi.yaml:20) |
| | `FlipIsFlip` | unknown counts as unreachable (analyze.py:318) |
| | `FalsePositiveIsWrong` | without probe spans every reachable run is a false positive (docs/rust-libp2p-autonat-implementation.md:402) |

## 4. Fairness

* Mock server: weak fairness of each handler (the Go scheduler runs a goroutine
  that can run; every blocking call has a time-out or ends with the stream), of
  the client's reading, and of its leaving: the AutoNAT client has a time-out of its own.
* Runner: weak fairness of the runner's actions as a whole. It is one thread and
  every wait has a deadline. Nothing is assumed of the client, Jaeger or docker.
* Discovery: weak fairness of `Start` (compose), of the client, and of the write
  that follows the creation of a file. No server is assumed to come up. The
  guard of `Settle` is a timing assumption: three seconds are longer than the time
  between os.WriteFile's creation of a file and its write.
* Router, dial-back, trackers, session and results: safety only, none.

## 5. Proofs

Assumptions are the named ones of the modules (`ConstantsAssumption`,
`MockAssumption`, `DialBackAssumption`, `RunnerAssumption`, `DiscoveryAssumption`,
`TrackerAssumption`, `SessionAssumption`, `ResultsAssumption`): NAT types, membership of addresses,
bounds in Nat, and that what a scenario file and the options give is a list or a
number where the code needs one. Numbers of servers, ports, requests, addresses, spans, toggles and
sessions are arbitrary, and so are the scenario files.

* `NatRouterProofs`. The inductive invariant is
  `IInv == TypeOK /\ FlowShape /\ TuplesUnique`. `TuplesUnique` (a packet matches one
  flow, in one direction) is what connection tracking is and no claim about this code;
  the others rest on it. It is not inductive alone: a new flow's tuples have to differ from those of flows that go out, come
  in or end at the router, which needs `FlowShape`, the direction of each flow and
  the address it was translated to. The lemmas `NewOutFlow`, `NewInFlow`,
  `NewLocalFlow` say that a flow added with a free port keeps it.
  - `TypeCorrect`: a part of the invariant.
  - `TogglesAreWhole`, from `InStep`: as long as no command of a toggle has failed, the
    four rules have changed alike up to the command at hand.
  - `FilteringIsKept`: the router implements `NatPromise`, for every NAT type
    (for the address-restricted one if servers do not use the direct route, which
    the run `nat_adf_direct` shows to be needed). Each action maps to a contact, a
    hearing, a forgetting, a toggle or a stutter; `AcceptedIsAdmitted` is the heart:
    what the chains accept, the promise admits.
  - `FullConeMapping`, `FullConeReachable`: with the additional invariant `PortKept`
    (flows of a plain full cone keep their source port) mapping is
    endpoint-independent, and anybody reaches the mapped endpoint.
* `MockServerProofs`. `IInv == TypeOK /\ DialsAsked /\ NothingLeftBehind`, where
  `DialsAsked` says that a handler past its decision to dial back has an address to dial.
  - `TypeCorrect`, and `NothingIsLeftBehind`: whatever handlers overlap, a
    connection or an address in the dialling host has a handler that will remove it.
  - `PromiseIsKept`: every step is one of `MockPromise` or leaves its variables, whatever
    overlaps and fails. The promise allows an error for every dial-back, and OK only if
    the address can be dialled or, for a request under way with another, one of theirs
    can. `PInv` says why: what the dialling host holds is explained (`Host`) by the one
    handler under way, or by requests that were under way together; and what a handler
    has before, during and after its dial (`Kept`) follows from it. An action of one
    handler disturbs the others only by what `Bystander` lists.
  - `AloneDialBacks`, from the same invariant: OK to a request that no other overlapped is
    of an address that can be dialled, whatever the requests before it have left. That the
    nonce was read does not follow, even for one request (`OkIsDelivered` of `mock_more`).
* `DialBackProofs`. `DialInv` adds to the router's invariant that ports of dialling
  hosts and of listeners never mix (`PortsApart`), what address and port a flow of
  the client shows (`Shown`), and of the dial-back at hand what its packet looks
  like (`Asked`) and that, if it met no flow at first, the only flow it may meet is
  one it made by ending at the router itself (`Stray`).
  - `FreshVerdict`: a verdict is justified by what the NAT promised at some moment
    of the probe. Without `Stray` this fails, as `dialback_stale` shows.
  - `FalsePositive`: behind a NAT that filters by address, or not at all, every
    verdict is "reachable" (`ConeLooksPublic`).
* `RunnerProofs`. `IInv == TypeOK /\ Progress`: what has been toggled, reported and
  written at each place of run_scenario.
  - `TypeCorrect`, `OneResultPerToggle` from it, and `RunKeepsPromise`, the
    refinement of `RunPromise`: each step begins, writes, finishes, aborts or stutters;
    `violated` carries over what the assertions say of the file, so that a failed verdict
    is one of the trace.
  - `ObservingLosesNothing`, `DetectedIsKept` assume that the client emits no more
    than a query returns (`MaxSpans <= Depth`), which `runner_depth` shows to be needed.
* `DiscoveryProofs`. `IInv == TypeOK /\ RequiredOnTheWay`: a required server exists,
  then is listed, then is read, skipped or still to be read.
  - `TypeCorrect`; `RequiredIsFound`, but for files that could not be read; and `ListenersAreReady` for one interface and
    finitely many transports: as many events as transports are all transports.
* `AnalysisProofs`. `LatestVerdict` is nearly inductive; for the JavaScript client
  `JsInv` relates what was announced, what is remembered and what was written last.
  `SpansInv` says that a change is written with both sets, and that for each address
  the Go client holds or writes as reachable there is a probe span (`GoInv`); `FileInv`
  that the lines of a file are spans of the trace, and no more.
  - `TypeCorrect`, `LatestVerdictIsWritten`, `AnnouncedIsWritten` about the clients;
    `Observes` carries them over: analysing takes no part in what a client does.
  - `AnalysisTyped`. `GoFalsePositivesAreLosses`: a line that says reachable has a probe
    span in the trace, so that it is the file that lacks it. `FirstsAgree`: both programs
    show the first line that has a reachable address (`LinesOfBoth`: they look for the same
    lines; `Smallest`: a set of numbers has a least one, by the pigeonhole principle).
* `SessionProofs`. `SessionInv` has four parts. `Control`: where the session is on its
  agenda, which is a list of valid scenarios (`AgendaList`, from what `FlattenSeq` and
  `expand_matrix` return, `FlattenList` and `MatrixList`). `UncleanInv`: a run that can
  go on is not unclean. `UpInv`: what runs is of unclean runs, but for what the run at
  hand has started itself, which is all that it needs. `Recorded`: everything is recorded
  under the number of a run. `EnvInv`: the environment never has a key that build_env
  does not set.
  - `TypeCorrect`; `NothingIsInherited`; `StrangersAreExplained` from `UpInv` alone.
  - `ClientsAreExplained`: which client the profiles of a scenario start (`ClientsOf`).
  - `ThresholdIsInReach`: counting the servers that they start.
  - `VerdictsAreOwn` and `NothingIsOverwritten`, for plain names (below), from
    `FilesInv`: a file in the session's own directory, or with anything of the session
    inside, is the file of a run before the one at hand. With `Fresh` it is not the one
    that is written now: `OneLabel` reads the identity of a run off its label. Where a
    label's base ends can be seen (`SameBase`), since no base ends in a part that is
    added to one, then the added parts and the base tell the rest.

`PlainNames` is the hypothesis of these two: a scenario's name does not end in a part
that build_run_label adds (`rust`, `js`, `loss5`, `lat10`, `run2`) and is not the label
of a scenario without a name (`none-tcp-7`). Without it the statement is false: "a" with
the Rust client and "a-rust" with the Go client, alike in all else, share a file. All
names in `scenarios/` are plain, and `NamesArePlain` has TLC see to those of the runs.

  - `EveryCombinationIsRun`, from `DoneInv`: the agenda is that of the command, and a
    session that ended well has done all of it. `MatrixComplete`: by induction on the
    fields, every choice of a value for each is one combination, once. `FilterPicks`
    and `AgendaSchedules`: a scenario that is kept is on the agenda once for each of its
    runs (`FlattenIndex` finds a place of a flattened list), which `CountNumbered` counts.

`MatricesAsWritten` is the hypothesis of this one: in a matrix no field and no value of
one is given twice, no value is missing, and none of the fields that main changes
afterwards (`runs`, `timeout_s`, `dynamic_toggles`) is among them; `--runs` is not
negative; a filter names fields of the matrix, or something that no scenario has. All
matrices in `scenarios/` are like that, and `MatricesAreAsWritten` has TLC see to those
of the runs. Without it the statement is false, as `session_more` shows for `--runs=-1`.

* `ResultsProofs`. The inductive invariant is `SavedInv /\ OnDisk`: of each run so far
  that had spans, the file under its label holds them, and there are no other traces
  (`OnDiskInvariant`). What a program reads from a directory is then what its runs left
  (`Traces`, `OwnTraces`).
  - `RunsArePoints` and `FiguresAreOfSeven`: the name that a figure expects is the label
    that build_run_label gives (`Label`, `Seven`), and of the runs of one NAT type and
    transport the one with seven servers is last (`LastIsSeven`), or first to be
    looked for (`MaxIsSeven`).
  - `BarsAreOfRuns`: taking a label apart gives the conditions of its run (`Roundtrip`),
    so that the files a bar counts are one for one the runs under its condition.
  - `BytesAgree`: for a probe of which nothing is lost with its events (`Inferred`) the two
    estimates, each with its own rules, come to one number (`EstimatesAgree`).
  - `MetricsAreInOrder`: files without a trace are in no count (`NoTrace`); the k-th
    of a sorted list exists and grows with k (`RankedIsThere`, `RanksInOrder`), and the
    index of the p95 is not below the middle unless there are two values.

`AsWritten(Plans)` is the hypothesis of these five: the directories of the sweeps hold
runs like those of matrix.yaml, high-latency.yaml and packet-loss.yaml (Go client,
no name, one run each, a loss only in packet-loss, a latency other than 10 ms only in
high-latency), each run has a file of its own, runs of a gap directory are behind
a full cone, and the first v1 event of a trace says public or private. Latencies, losses,
times and verdicts are arbitrary. TLC sees to it that the plans of the runs satisfy it
(`SweepsAreAsWritten`).

The library's induction theorems take an operator as a parameter, which no installed
prover can instantiate. What a recursive definition returns for every list is proved
all the same where it is needed, by `Induct` of `SessionProofs`: induction stated with
a set, which follows from the pigeonhole principle for finite sets.

Only model-checked: the liveness properties (`EveryRequestAnswered`, `EveryHandlerEnds`,
`EventIsFound`, `EveryRunEnds`, `DiscoveryEnds`), as liveness under fairness and ENABLED
are beyond the prover.

## 6. What is left out

UPnP (miniupnpd is external), link latency and loss (netem; loss appears as
dials that may fail), IPv6, relays and DCUtR, AutoNAT v1's own verdict, the
OpenTelemetry set-up, the drawing of figures and the gap timeline, the nebula
analysis (SQL over a crawler's database that is not in the repository), the
legacy shell runner and the test script: no state of this code, or straight lines.
The text that run.py, analyze.py and eval-assertions.py print is left out as well,
but for the exit status. Of analyze.py, refresh cycles and session durations are
left out: they are counted and given to the same `stats`. PROJECT.json has a row for each.

## 7. Plan

1. Router and mock server, with abstract specifications and proofs: done.
2. Runner, discovery, trackers, analysis: done.
3. `Scenario`, `Session`, `Results`, `DialBack`: done, with proofs.
4. Next: a second client of the same host in `DialBack`.
