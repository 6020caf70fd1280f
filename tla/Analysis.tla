------------------------------ MODULE Analysis ------------------------------
(***************************************************************************)
(* What the testbed concludes from the trace of a client.  run.py exports   *)
(* the spans that Jaeger holds to a file, one per line; analyze.py computes *)
(* its metrics from the file and eval-assertions.py evaluates the           *)
(* scenario's assertions on it.  Neither sorts: "first" is the first line,  *)
(* and Jaeger promises neither an order of the spans nor all of them.       *)
(*                                                                          *)
(* A metric is computed here for one trace; analyze.py counts its traces.   *)
(***************************************************************************)
EXTENDS Tracker, SequencesExt, FiniteSetsExt

VARIABLE file       \* the lines of the result file

avars == <<vars, file>>

Missing == 0        \* Python's None; every elapsed_ms is above it

-----------------------------------------------------------------------------
(* The result file. *)

\* The spans as Jaeger returns them: each is a trace of its own, they come in any
\* order, and some may be missing; no spans, no file.
Export ==
  /\ file = <<>> /\ trace # <<>>
  /\ \E n \in DOMAIN trace : \E order \in Injection(1..n, DOMAIN trace) :
       file' = [k \in 1..n |-> trace[order[k]]]
  /\ UNCHANGED vars

AnalysisTypeOK == TypeOK /\ ToSet(file) \subseteq ToSet(trace)

AnalysisInit == Init /\ file = <<>>
AnalysisNext ==
  \/ file = <<>> /\ Next /\ UNCHANGED file
  \/ Export

AnalysisSpec == AnalysisInit /\ [][AnalysisNext]_avars

-----------------------------------------------------------------------------
(* analyze.py *)

\* The lines that parse_trace sorts into probes and session events; a list of
\* events is the set of their lines.
_session_events(name) == {k \in DOMAIN file : file[k].name = name}
Verdicts == _session_events("reachable_addrs_changed")

\* An attribute that a span has not is an empty list.
_list_attr(s, key) == IF key \in DOMAIN s.attrs THEN s.attrs[key] ELSE {}

NonEmpty(key) == {k \in Verdicts : _list_attr(file[k], key) # {}}
FirstOf(key) ==
  IF NonEmpty(key) = {} THEN Missing ELSE file[Min(NonEmpty(key))].elapsed_ms

\* A probe that the server answered with "public".
AnyPublic == \E k \in _session_events("autonatv2.probe") : _list_attr(file[k], "public") # {}

FalseNegative == AnyPublic /\ NonEmpty("reachable") = {}

MutFalsePositive == NonEmpty("reachable") # {}  \* mutant: probes not asked
FalsePositive == ~AnyPublic /\ NonEmpty("reachable") # {}

MutTimeToConfidence ==          \* mutant: unreachable is looked at first
  IF FirstOf("unreachable") # Missing
  THEN [group |-> "unreachable", elapsed_ms |-> FirstOf("unreachable")]
  ELSE [group |-> "reachable", elapsed_ms |-> FirstOf("reachable")]

\* The group that the trace is counted in, and its time.
TimeToConfidence ==
  IF FirstOf("reachable") # Missing
  THEN [group |-> "reachable", elapsed_ms |-> FirstOf("reachable")]
  ELSE IF FirstOf("unreachable") # Missing
       THEN [group |-> "unreachable", elapsed_ms |-> FirstOf("unreachable")]
       ELSE [group |-> "no_convergence", elapsed_ms |-> Missing]

Before(k) == {j \in Verdicts : j < k}
Flips == {k \in Verdicts : Before(k) # {} /\
            (k \in NonEmpty("reachable")) # (Max(Before(k)) \in NonEmpty("reachable"))}

\* The first change between reachable and not, or none.
TimeToUpdate ==
  IF Flips = {} THEN [direction |-> "no_flip", elapsed_ms |-> Missing]
  ELSE LET k == Min(Flips) IN
       [direction |-> IF k \in NonEmpty("reachable") THEN "unreachable to reachable"
                      ELSE "reachable to unreachable",
        elapsed_ms |-> file[k].elapsed_ms]

-----------------------------------------------------------------------------
(* eval-assertions.py *)

\* A filter is a pair of its key and its value.  The addresses that contain
\* "73." are the external ones; the text of an event is the JSON of its fields,
\* in which an attribute appears as "name": and never as name=.
matches(s, event, filter) ==
  /\ s.name = event
  /\ CASE filter[1] = "none" -> TRUE
       [] filter[1] = "address_contains" ->
            _list_attr(s, "addresses") \cap External # {}
       [] filter[1] = "message_contains" ->
            filter[2] \in {<<a, ":">> : a \in DOMAIN s.attrs}
       [] filter[1] = "not_empty" -> _list_attr(s, filter[2]) # {}
       [] filter[1] = "is_empty" -> _list_attr(s, filter[2]) = {}

Matched(event, filter) == {k \in DOMAIN file : matches(file[k], event, filter)}

HasEvent(event, filter) == Matched(event, filter) # {}
NoEvent(event, filter) == Matched(event, filter) = {}

\* type: info, extract: elapsed_ms, select: first.
Info(event, filter) ==
  IF Matched(event, filter) = {} THEN Missing
  ELSE file[Min(Matched(event, filter))].elapsed_ms

-----------------------------------------------------------------------------
(* Properties. *)

\* A trace is counted as a false positive only if no address that it calls
\* reachable was last answered to be reachable.
FalsePositiveIsWrong ==
  file # <<>> /\ FalsePositive =>
    \A a \in UNION {trace[k].attrs.reachable : k \in Changes} :
      verdict[a] # "public"

\* The client that has spans for its probes is counted as a false positive only
\* when the span of a probe that a server answered with "public" is not in the
\* file: its order is of no account.
GoFalsePositiveIsLoss ==
  impl = "go" /\ FalsePositive =>
    \E k \in DOMAIN trace :
      /\ trace[k].name = "autonatv2.probe" /\ trace[k].attrs.public # {}
      /\ trace[k] \notin ToSet(file)

ShownFirst == Info("reachable_addrs_changed", <<"not_empty", "reachable">>)
SaysReachable == {k \in Changes : trace[k].attrs.reachable # {}}

\* The time that an assertion shows as time_to_first_reachable_ms and the one
\* analyze.py counts are one, and are of a span of the client that says so: the
\* two parsers of the file agree, in whatever order its lines are.
ParsersAgree ==
  file # <<>> =>
    /\ TimeToConfidence.group = "reachable" <=> ShownFirst # Missing
    /\ ShownFirst # Missing =>
         /\ TimeToConfidence.elapsed_ms = ShownFirst
         /\ \E k \in SaysReachable : trace[k].elapsed_ms = ShownFirst

\* It is the first of them.
FirstIsFirst ==
  file # <<>> /\ ShownFirst # Missing =>
    ShownFirst = trace[Min(SaysReachable)].elapsed_ms

\* A flip from unreachable to reachable is of a client that was unreachable.
FlipIsFlip ==
  file # <<>> /\ TimeToUpdate.direction = "unreachable to reachable" =>
    \E k \in NonEmpty("unreachable") :
      file[k].elapsed_ms < TimeToUpdate.elapsed_ms

\* flight-wifi.yaml, "No public address activated": the assertion that no
\* addresses_updated event has an address with "73." fails when one has.
NoneActivated ==
  file # <<>> /\ NoEvent("addresses_updated", <<"address_contains", "73.">>) =>
    \A k \in DOMAIN trace : trace[k].name = "addresses_updated" =>
      trace[k].attrs.current \cap External = {}

\* mock-server.yaml, "Addresses should be marked unreachable": the assertion
\* passes on the trace of a client that marked one.
MarkedUnreachable ==
  file # <<>> /\ (\E k \in Changes : trace[k].attrs.unreachable # {}) =>
    HasEvent("reachable_addrs_changed",
             <<"message_contains", <<"unreachable", "=">>>>)
=============================================================================
