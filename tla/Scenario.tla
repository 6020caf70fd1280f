------------------------------ MODULE Scenario ------------------------------
(***************************************************************************)
(* From a scenario file to what is started (testbed/run.py): the expansion  *)
(* of a YAML document into scenarios, their validation, the filter, and     *)
(* what a scenario means for docker compose: profiles, environment, client  *)
(* container and result file.                                               *)
(*                                                                          *)
(* A mapping of the document is a function, a list is a sequence.  A name   *)
(* or label is the sequence of the parts between its dashes, a part is      *)
(* <<text>> or <<text, number>>.  Numbers are read as numbers, whether      *)
(* quoted or not, and probabilities are in percent.                         *)
(***************************************************************************)
EXTENDS Integers, Sequences, FiniteSets, TLC, SequencesExt

CONSTANT None      \* Python's None

IsList(l) == Len(l) \in Nat /\ l = [i \in 1..Len(l) |-> l[i]]

-----------------------------------------------------------------------------
(* Scenarios. *)

Builtin ==
  [nat_type |-> "none", transport |-> "both", server_count |-> 7,
   packet_loss |-> 0, latency_ms |-> 10, timeout_s |-> 120, runs |-> 1,
   name |-> <<>>, client_impl |-> "go", tcp_block_port |-> None, port_remap |-> None,
   port_forward |-> None, upnp |-> None, obs_addr_thresh |-> None,
   unreliable_servers |-> None, observe_after_convergence_s |-> None,
   autonat_refresh |-> None, mock_behaviors |-> None, mock_delays |-> None,
   mock_jitters |-> None, mock_probabilities |-> None, mock_tcp_behaviors |-> None,
   mock_quic_behaviors |-> None, dynamic_toggles |-> None, assertions |-> None]

Fields == DOMAIN Builtin
Toggle == [wait_for |-> "converged", sleep_s |-> 30, timeout_s |-> 180]

\* The scenario's own fields before the file's defaults before the built-in
\* ones; a key that is no field is dropped without a word.
parse_scenario(raw, defaults) ==
  LET d == [f \in Fields |->
              IF f \in DOMAIN raw /\ raw[f] # None THEN raw[f]
              ELSE IF f \in DOMAIN defaults THEN defaults[f] ELSE Builtin[f]]
  IN IF d.dynamic_toggles = None THEN d
     ELSE LET Given(toggle) == toggle @@ Toggle IN
          [d EXCEPT !.dynamic_toggles = [i \in DOMAIN d.dynamic_toggles |->
                                           Given(d.dynamic_toggles[i])]]

MutExpandMatrix(matrix) ==      \* mutant: the values side by side, no product
  [i \in 1..Len(matrix[1][2]) |->
     [k \in {matrix[j][1] : j \in DOMAIN matrix} |->
        LET j == CHOOSE j \in DOMAIN matrix : matrix[j][1] = k
        IN matrix[j][2][((i - 1) % Len(matrix[j][2])) + 1]]]

\* The Cartesian product of the fields <<key, values>>, the last one fastest.
expand_matrix(matrix) ==
  LET Extend(combo, key, value) ==
        [k \in DOMAIN combo \cup {key} |-> IF k = key THEN value ELSE combo[k]]
      Combine(combos, key, values) ==
        [i \in 1..Len(combos) * Len(values) |->
           Extend(combos[((i - 1) \div Len(values)) + 1], key,
                  values[((i - 1) % Len(values)) + 1])]
      Product[j \in 0..Len(matrix)] ==
        IF j = 0 THEN << <<>> >>
        ELSE Combine(Product[j - 1], matrix[j][1], matrix[j][2])
  IN Product[Len(matrix)]

\* A document has a matrix or scenarios, not both and not neither.
WellFormed(document) == (document.matrix = None) # (document.scenarios = None)

expand_scenarios(document) ==
  LET raw_list == IF document.matrix # None THEN expand_matrix(document.matrix)
                  ELSE document.scenarios
  IN [i \in DOMAIN raw_list |-> parse_scenario(raw_list[i], document.defaults)]

-----------------------------------------------------------------------------
(* Validation. *)

Impls == {"go", "rust", "js"}
NatTypes == {"none", "full-cone", "address-restricted", "port-restricted", "symmetric"}
MockBehaviors ==
  {"reject", "refuse", "force-unreachable", "internal-error", "timeout",
   "force-reachable", "wrong-nonce", "no-dialback-msg", "probabilistic", "actual"}

Percentage == 0..100
Ports == 1..65535

\* A list with an entry for each of the three mock servers, if it is given.
PerServer(list, allowed) == list # None => Len(list) = 3 /\ ToSet(list) \subseteq allowed

Valid(s) ==
  /\ s.client_impl \in Impls
  /\ s.nat_type \in NatTypes
  /\ s.transport \in {"tcp", "quic", "both"}
  /\ s.mock_behaviors = None => s.server_count \in 3..7
  /\ s.packet_loss \in Percentage /\ s.timeout_s \in Nat \ {0} /\ s.runs \in Nat \ {0}
  /\ s.port_remap # None => Len(s.port_remap) = 2
  /\ s.tcp_block_port # None => s.tcp_block_port \in Ports
  /\ PerServer(s.mock_behaviors, MockBehaviors)
  /\ PerServer(s.mock_delays, Int) /\ PerServer(s.mock_jitters, Int)
  /\ PerServer(s.mock_probabilities, Percentage)
  /\ PerServer(s.mock_tcp_behaviors, MockBehaviors \cup {""})
  /\ PerServer(s.mock_quic_behaviors, MockBehaviors \cup {""})
  /\ s.dynamic_toggles # None => \A i \in DOMAIN s.dynamic_toggles :
       /\ s.dynamic_toggles[i].action \in {"add_port_forward", "remove_port_forward"}
       /\ s.dynamic_toggles[i].wait_for \in {"converged", "sleep"}
  /\ s.assertions # None =>
       ToSet(s.assertions) \subseteq {"no_event", "has_event", "info"}

validate(scenarios) == \A i \in DOMAIN scenarios : Valid(scenarios[i])

\* The pairs of --filter are compared one by one; a scenario has no other
\* attributes than its fields, and an unknown one reads as "".
Matches(s, filter) ==
  \A k \in DOMAIN filter : IF k \in Fields THEN s[k] = filter[k] ELSE filter[k] = ""

apply_filter(scenarios, filter) ==
  FlattenSeq([i \in DOMAIN scenarios |->
                IF Matches(scenarios[i], filter) THEN <<scenarios[i]>> ELSE <<>>])

-----------------------------------------------------------------------------
(* Docker compose. *)

\* compose.yml: the services with their profiles; router and jaeger have none.
\* The client of an implementation behind the NAT, without one, or with the mock
\* servers is a service of its own, in a profile of its own: "local" is that of
\* the Go client behind the NAT, "mock" that of the Go client with the mock
\* servers, "rust-nonat" that of the Rust client without a NAT.
Kinds == {"nat", "nonat", "mock"}
Clients == {<<"client", impl, kind>> : impl \in Impls, kind \in Kinds}

compose ==
  {<<<<"server", i>>, <<impl, kind>>>> :
     i \in 1..3, impl \in Impls, kind \in {"nat", "nonat"}}
  \cup ({<<"server", 4>>, <<"server", 5>>} \X {<<"5servers">>, <<"7servers">>})
  \cup ({<<"server", 6>>, <<"server", 7>>} \X {<<"7servers">>})
  \cup {<<<<"unreliable", i>>, <<"unreliable">>>> : i \in 1..5}
  \cup {<<<<"mock", i>>, <<"go", "mock">>>> : i \in 1..3}
  \cup {<<c, <<c[2], c[3]>>>> : c \in Clients}

Services == {e[1] : e \in compose}
Servers == Services \ Clients

\* What up starts and down stops, given the profiles.
Enabled(profiles) ==
  {<<"router">>, <<"jaeger">>} \cup {c \in Services : \E p \in profiles : <<c, p>> \in compose}

\* Clients that have one address (ipv4_address), of which one can run.
Places ==
  {{<<"client", impl, "nat">> : impl \in Impls}}
  \cup {{<<"client", impl, kind>> : kind \in {"nonat", "mock"}} : impl \in Impls}

HasMock(s) == s.mock_behaviors # None
Kind(s) == IF HasMock(s) THEN "mock" ELSE IF s.nat_type = "none" THEN "nonat" ELSE "nat"

MutGetProfiles(s) ==            \* mutant: more servers from six on only
  {<<s.client_impl, Kind(s)>>}
  \cup {p \in {<<"go", "mock">>} : HasMock(s)}
  \cup {p \in {<<"5servers">>} : ~HasMock(s) /\ s.server_count > 5}

\* The profile of the client, which the servers share, and what is added to it.
get_profiles(s) ==
  {<<s.client_impl, Kind(s)>>}
  \cup {p \in {<<"go", "mock">>} : HasMock(s)}
  \cup {p \in {<<"5servers">>} : ~HasMock(s) /\ s.server_count >= 5}
  \cup {p \in {<<"7servers">>} : ~HasMock(s) /\ s.server_count >= 7}
  \cup {p \in {<<"unreliable">>} : s.unreliable_servers # None /\ s.unreliable_servers > 0}

get_client_container(s) == <<"client", s.client_impl, Kind(s)>>

\* activation threshold for observed addresses
get_obs_thresh(s) ==
  IF s.obs_addr_thresh # None THEN s.obs_addr_thresh
  ELSE IF HasMock(s) \/ s.server_count < 4 THEN 2 ELSE 4

\* The texts of the environment; str(None or 0) and the like are given as text.
Text(value, unset) == IF value = None THEN unset ELSE ToString(value)
Flag(value) == IF value = TRUE THEN "true" ELSE ""
Entry(list, i, unset) == IF list = None THEN unset ELSE ToString(list[i])

MutBuildEnv(s) ==               \* mutant: only what the scenario gives is set
  (IF s.port_forward = TRUE THEN "PORT_FORWARD" :> "true" ELSE <<>>) @@
  [NAT_TYPE |-> s.nat_type, TRANSPORT |-> s.transport]

build_env(s) ==
  [NAT_TYPE |-> s.nat_type, TRANSPORT |-> s.transport,
   PACKET_LOSS |-> ToString(s.packet_loss), LATENCY_MS |-> ToString(s.latency_ms),
   TCP_BLOCK_PORT |-> Text(s.tcp_block_port, ""),
   PORT_REMAP |-> IF s.port_remap = None THEN ""
                  ELSE ToString(s.port_remap[1]) \o ":" \o ToString(s.port_remap[2]),
   PORT_FORWARD |-> Flag(s.port_forward), UPNP |-> Flag(s.upnp),
   OBS_ADDR_THRESH |-> ToString(get_obs_thresh(s)),
   AUTONAT_REFRESH |-> Text(s.autonat_refresh, "0"),
   MOCK_BEHAVIOR |-> [i \in 1..3 |-> Entry(s.mock_behaviors, i, "")],
   MOCK_DELAY |-> [i \in 1..3 |-> Entry(s.mock_delays, i, "0")],
   MOCK_JITTER |-> [i \in 1..3 |-> Entry(s.mock_jitters, i, "0")],
   MOCK_PROBABILITY |-> [i \in 1..3 |-> Entry(s.mock_probabilities, i, "50")],
   MOCK_TCP_BEHAVIOR |-> [i \in 1..3 |-> Entry(s.mock_tcp_behaviors, i, "")],
   MOCK_QUIC_BEHAVIOR |-> [i \in 1..3 |-> Entry(s.mock_quic_behaviors, i, "")]]

\* "address-restricted" is two parts of a label.
NatParts ==
  [t \in NatTypes |->
     CASE t = "full-cone" -> <<<<"full">>, <<"cone">>>>
       [] t = "address-restricted" -> <<<<"address">>, <<"restricted">>>>
       [] t = "port-restricted" -> <<<<"port">>, <<"restricted">>>>
       [] OTHER -> <<<<t>>>>]

\* The label of a scenario that has no name.
Unnamed(s) ==
  NatParts[s.nat_type]
  \o <<<<s.transport>>, IF HasMock(s) THEN <<"mock">> ELSE <<"servers", s.server_count>>>>

MutBuildRunLabel(s, run_num) ==  \* mutant: without the number of the run
  IF s.name # <<>> THEN s.name ELSE Unnamed(s)

build_run_label(s, run_num) ==
  (IF s.name # <<>> THEN s.name ELSE Unnamed(s))
  \o (IF s.client_impl # "go" THEN <<<<s.client_impl>>>> ELSE <<>>)
  \o (IF s.packet_loss # 0 THEN <<<<"loss", s.packet_loss>>>> ELSE <<>>)
  \o (IF s.latency_ms # 0 THEN <<<<"lat", s.latency_ms>>>> ELSE <<>>)
  \o (IF s.runs > 1 THEN <<<<"run", run_num>>>> ELSE <<>>)
=============================================================================
