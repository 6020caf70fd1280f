------------------------------ MODULE Results -------------------------------
(***************************************************************************)
(* From finished runs to figures and statistics.  The runner leaves one     *)
(* file per run, whose conditions are told by its name alone.  Two programs *)
(* read the directories: results/generate_figures.py finds files by the     *)
(* names it expects or takes the names apart, testbed/analyze.py reads the  *)
(* files it is given.                                                       *)
(*                                                                          *)
(* A line of a file is a span with its attributes; of lists of addresses    *)
(* only the length is kept, of those of a probe the length of their text,   *)
(* in characters and encoded.  A rate is in whole percent.                  *)
(***************************************************************************)
EXTENDS Scenario

CONSTANT Plans      \* sequences of runs: [dir, scenario, run_num, outcomes]

ASSUME ResultsAssumption == None \notin NatTypes \cup Nat

VARIABLES
  plan,         \* the runs
  disk,         \* <<directory, label, kind>> -> what is in the file
  saved         \* history: the outcome of each run so far

vars == <<plan, disk, saved>>

Files(dir, kinds) == {f \in DOMAIN disk : f[1] = dir /\ f[3] \in kinds}

Init == plan \in Plans /\ disk = <<>> /\ saved = <<>>

File(run, kind) == <<run.dir, build_run_label(run.scenario, run.run_num), kind>>

\* The files that run_scenario leaves of a run: its spans if there are any, the
\* results of its toggles, and of its assertions if there is a trace.
Left(run, outcome) ==
  {File(run, kind) : kind \in
    {k \in {"json"} : outcome.spans # <<>>}
    \cup {k \in {"toggles.json"} : outcome.toggles # <<>>}
    \cup {k \in {"assertions.json"} :
            /\ run.scenario.assertions # None
            /\ outcome.spans # <<>> \/ File(run, "json") \in DOMAIN disk}}

Content(outcome, kind) ==
  CASE kind = "json" -> outcome.spans
    [] kind = "toggles.json" -> outcome.toggles
    [] OTHER -> <<>>

Save ==
  /\ Len(saved) < Len(plan)
  /\ LET run == plan[Len(saved) + 1] IN
     \E outcome \in run.outcomes :
       /\ disk' = [f \in DOMAIN disk \cup Left(run, outcome) |->
                    IF f \in Left(run, outcome) THEN Content(outcome, f[3]) ELSE disk[f]]
       /\ saved' = Append(saved, outcome)
  /\ UNCHANGED plan

Spec == Init /\ [][Save]_vars

-----------------------------------------------------------------------------
(* generate_figures.py: helpers. *)

\* The events of a span, which are not attributes, are left behind.
parse_spans(f) ==
  [i \in DOMAIN disk[f] |-> [name |-> disk[f][i].Name, attrs |-> disk[f][i].Attributes]]

Attr(s, key, unset) == IF key \in DOMAIN s.attrs THEN s.attrs[key] ELSE unset
Elapsed(s) == Attr(s, "elapsed_ms", 0)

get_convergence(spans) ==
  [v1 |-> SelectSeq(spans, LAMBDA s : s.name = "reachability_changed"),
   v2 |-> SelectSeq(spans, LAMBDA s : s.name = "reachable_addrs_changed")]

\* The first v2 event that says anything, if there is one.
Decided(c) == SelectSeq(c.v2, LAMBDA e : Attr(e, "reachable", 0) > 0
                                           \/ Attr(e, "unreachable", 0) > 0)

first_convergence_ms(spans) ==
  LET c == get_convergence(spans)
      times == {Elapsed(events[1]) : events \in {c.v1, Decided(c)} \ {<<>>}}
  IN IF times = {} THEN None ELSE Min(times)

MutParseScenarioName(label) ==  \* mutant: a NAT type is one part
  [nat |-> label[1][1], transport |-> label[2][1], latency_ms |-> None, loss_pct |-> None]

\* A label taken apart; the last part that begins with lat or loss counts.
parse_scenario_name(label) ==
  LET types == {n \in NatTypes : NatParts[n][1] = label[1]}
      rest == IF label[1][1] \in {"none", "symmetric"} THEN 2 ELSE 3
      Extra(text) == LET found == {i \in DOMAIN label : i > rest /\ label[i][1] = text}
                     IN IF found = {} THEN None ELSE label[Max(found)][2]
  IN IF types = {} THEN [nat |-> None]
     ELSE [nat |-> CHOOSE n \in types : TRUE, transport |-> label[rest][1],
           latency_ms |-> Extra("lat"), loss_pct |-> Extra("loss")]

Parsed(f) == parse_scenario_name(f[2])
Listed(dir) == {f \in Files(dir, {"json"}) : Parsed(f).nat # None}

-----------------------------------------------------------------------------
(* generate_figures.py: figures. *)

FullMatrix == "full-matrix"
HighLatency == "high-latency"
PacketLoss == "packet-loss"

MutExpected(nat, transport, servers, loss, lat) ==  \* mutant: latency first
  NatParts[nat] \o <<<<transport>>, <<"servers", servers>>, <<"lat", lat>>>>
    \o (IF loss = 0 THEN <<>> ELSE <<<<"loss", loss>>>>)

\* The name that a figure expects for a run with 7 (or 5, 3) servers.
Expected(nat, transport, servers, loss, lat) ==
  NatParts[nat] \o <<<<transport>>, <<"servers", servers>>>>
    \o (IF loss = 0 THEN <<>> ELSE <<<<"loss", loss>>>>) \o <<<<"lat", lat>>>>

Convergence(f) ==
  IF f \in DOMAIN disk THEN first_convergence_ms(parse_spans(f)) ELSE None

\* A point of fig_latency_impact, of fig_packet_loss_impact, and a cell of
\* fig_convergence_heatmap; with the default latency it is in the baseline.
LatencyPoint(nat, transport, lat) ==
  Convergence(<<IF lat = 10 THEN FullMatrix ELSE HighLatency,
                Expected(nat, transport, 7, 0, lat), "json">>)
LossPoint(nat, transport, loss) ==
  Convergence(<<IF loss = 0 THEN FullMatrix ELSE PacketLoss,
                Expected(nat, transport, 7, loss, 10), "json">>)
HeatmapCell(nat, transport, loss, lat) ==
  LET ms == IF loss # 0 THEN LossPoint(nat, transport, loss) ELSE LatencyPoint(nat, transport, lat)
  IN IF ms = None THEN 0 ELSE ms

ServersOf(f) == CHOOSE n \in 3..7 : <<"servers", n>> \in ToSet(f[2])

\* The figures go through the sorted names, in which more servers come later, and
\* a file overwrites what an earlier one had, in fig_convergence if it has an event.
LastOf(files) == CHOOSE f \in files : \A g \in files : ServersOf(g) <= ServersOf(f)
Of(nat, transport) ==
  {f \in Listed(FullMatrix) : Parsed(f).nat = nat /\ Parsed(f).transport = transport}

Bar(version, nat, transport) ==
  LET Events(f) == LET c == get_convergence(parse_spans(f)) IN
                   IF version = "v1" THEN c.v1 ELSE Decided(c)
      having == {f \in Of(nat, transport) : Events(f) # <<>>}
  IN IF having = {} THEN None ELSE Elapsed(Events(LastOf(having))[1])

ReachableNats == {"none", "full-cone"}

MutFound(candidates) == Min(candidates)  \* mutant: the fewest servers first
Found(candidates) == Max(candidates)

\* A cell of fig_detection_correctness: the first file there is of 7, 5 and 3
\* servers, and its first v1 event.
Cell(nat, transport) ==
  LET Named(n) == <<FullMatrix, Expected(nat, transport, n, 0, 10), "json">>
      candidates == {n \in {7, 5, 3} : Named(n) \in DOMAIN disk}
      v1 == get_convergence(parse_spans(Named(Found(candidates)))).v1
      expected == IF nat \in ReachableNats THEN "public" ELSE "private"
  IN IF candidates = {} THEN "NO DATA"
     ELSE IF v1 = <<>> THEN "NOT TRIGGERED"
     ELSE IF Attr(v1[1], "reachability", "?") = expected THEN "CORRECT"
     ELSE IF nat \in ReachableNats THEN "FALSE NEGATIVE" ELSE "FALSE POSITIVE"

-----------------------------------------------------------------------------
(* generate_figures.py: rates. *)

\* What a trace says in the end of all: its first v1 event, or its first v2
\* event that says anything; no event is not reachable.
Reported(version, spans) ==
  LET c == get_convergence(spans) IN
  IF version = "v1" THEN c.v1 # <<>> /\ Attr(c.v1[1], "reachability", "?") = "public"
  ELSE Decided(c) # <<>> /\ Attr(Decided(c)[1], "reachable", 0) > 0

Percent(n, total) == IF total = 0 THEN 0 ELSE (n * 100) \div total

\* Of files, those of reachable are expected to report that.
Rates(files, reachable) ==
  [version \in {"v1", "v2"} |->
    LET Count(expected, reported) == Cardinality({f \in files :
          (f \in reachable) = expected /\ Reported(version, parse_spans(f)) = reported})
    IN [fnr |-> Percent(Count(TRUE, FALSE), Count(TRUE, FALSE) + Count(TRUE, TRUE)),
        fpr |-> Percent(Count(FALSE, TRUE), Count(FALSE, TRUE) + Count(FALSE, FALSE))]]

\* The labels of fig_fnr_fpr_summary, by what _compute_fnr_fpr looks for in them.
Conditions ==
  {[local |-> FALSE, latency_ms |-> lat, loss_pct |-> None] : lat \in {200, 500}}
  \cup {[local |-> FALSE, latency_ms |-> None, loss_pct |-> loss] : loss \in {1, 5, 10}}
Baseline == [local |-> TRUE, latency_ms |-> None, loss_pct |-> None]
DirOf(c) == IF c.local THEN FullMatrix ELSE IF c.latency_ms # None THEN HighLatency ELSE PacketLoss

Passes(extra, c) ==
  /\ c.latency_ms # None => extra.latency_ms = c.latency_ms
  /\ c.loss_pct # None => extra.loss_pct = c.loss_pct
  /\ c.local => extra.latency_ms \in {None, 0} /\ extra.loss_pct \in {None, 0}

_compute_fnr_fpr(c) ==
  LET files == {f \in Listed(DirOf(c)) : Passes(Parsed(f), c)}
  IN Rates(files, {f \in files : Parsed(f).nat \in ReachableNats})

\* The gap directories, in which every run is behind a full cone; the results of
\* toggles and assertions are passed over.
Gaps == {"v1-v2-gap-1", "v1-v2-gap-2"}
_compute_fnr_fpr_gap ==
  LET files == UNION {Files(d, {"json"}) : d \in Gaps}
      rates == Rates(files, files)
  IN [version \in {"v1", "v2"} |-> [fnr |-> rates[version].fnr, fpr |-> 0]]

\* fig_time_to_update: each toggle is drawn with a detection after its time.
Timeline(f) ==
  [i \in DOMAIN disk[f] |-> [after |-> disk[f][i].time_to_detect_s, shown |-> "detected"]]

-----------------------------------------------------------------------------
(* Protocol overhead, in both programs. *)

Probes(spans) == SelectSeq(spans, LAMBDA s : s.Name = "autonatv2.probe")
Event(events, name) == \E i \in DOMAIN events : events[i].Name = name

\* The bytes that dial_data_requested asked for, in the first such event.
Amplification(events) ==
  IF ~Event(events, "dial_data_requested") THEN 0
  ELSE SelectSeq(events, LAMBDA e : e.Name = "dial_data_requested")[1].num_bytes

\* The dial-back, which is inferred where there are no events.
DialBackBytes(attrs, events) ==
  IF IF events = <<>> THEN attrs.reachability = "public"
     ELSE Event(events, "dial_back_received") THEN 12 ELSE 0

\* analyze.py: request and response, the request for dial data if there was one,
\* the dial data and the dial-back; the addresses count as they are sent.
probe_bytes(probe) ==
  LET attrs == probe.Attributes  events == probe.Events IN
  12 + attrs.addr_bytes + 12
  + (IF Event(events, "dial_data_requested") THEN 16 ELSE 0)
  + Amplification(events) + DialBackBytes(attrs, events)

MutProbeByteEstimate(attrs, events) ==  \* mutant: the dial-back is not inferred
  12 + attrs.addr_chars + 12
  + (IF Amplification(events) > 0 THEN 16 ELSE 0) + Amplification(events)
  + (IF Event(events, "dial_back_received") THEN 12 ELSE 0)

\* generate_figures.py: the addresses count by their characters, the request for
\* dial data if any were sent.
_probe_byte_estimate(attrs, events) ==
  12 + attrs.addr_chars + 12
  + (IF Amplification(events) > 0 THEN 16 ELSE 0)
  + Amplification(events) + DialBackBytes(attrs, events)

SumOf(numbers) == FoldLeft(LAMBDA sum, n : sum + n, 0, numbers)

\* fig_protocol_overhead calls it without the events; the last file counts.
FigureBytes(nat, transport) ==
  LET probes == Probes(disk[LastOf(Of(nat, transport))])
  IN SumOf([i \in DOMAIN probes |-> _probe_byte_estimate(probes[i].Attributes, <<>>)])

-----------------------------------------------------------------------------
(* analyze.py: its metrics over the files that it is given. *)

\* A file of results is read as a trace without a span.
parse_trace(f) == IF f[3] = "json" THEN disk[f] ELSE <<>>

\* The lines of a probe that was public, and of an event that lists addresses of key.
Public(f) == {i \in DOMAIN parse_trace(f) : LET s == parse_trace(f)[i] IN
               s.Name = "autonatv2.probe" /\ s.Attributes.reachability = "public"}
Lists(f, key) == {i \in DOMAIN parse_trace(f) : LET s == parse_trace(f)[i] IN
                   s.Name = "reachable_addrs_changed" /\ s.Attributes[key] > 0}

\* The files in which no probe, or some, was public, and reachable was reported.
Judged(files, public, reported) ==
  {f \in files : (Public(f) # {}) = public /\ (Lists(f, "reachable") # {}) = reported}
compute_fnr(files) == [false |-> Cardinality(Judged(files, TRUE, FALSE)), total |-> Cardinality(files)]
compute_fpr(files) == [false |-> Cardinality(Judged(files, FALSE, TRUE)), total |-> Cardinality(files)]

\* The traces of a group, and the times of the first such event: who ever said
\* reachable is there.
Group(files, group) ==
  LET reachable == {f \in files : Lists(f, "reachable") # {}} IN
  IF group = "reachable" THEN reachable
  ELSE {f \in files \ reachable : Lists(f, "unreachable") # {}}
Times(files, group) ==
  LET fs == SetToSeq(Group(files, group)) IN
  [i \in DOMAIN fs |-> parse_trace(fs[i])[Min(Lists(fs[i], group))].Attributes.elapsed_ms]

MutStats(values) ==             \* mutant: the values are not sorted
  LET n == Len(values)
      p95_idx == Max({0, (n * 95) \div 100 - 1})
  IN [n |-> n, median2 |-> values[(n + 1) \div 2] + values[n \div 2 + 1],
      p95 |-> values[p95_idx + 1], min |-> values[1], max |-> values[n]]

\* Of the values in order, the k-th: fewer are below it, and k are not above.
Ranked(values, k) ==
  CHOOSE v \in ToSet(values) :
    /\ Cardinality({i \in DOMAIN values : values[i] < v}) < k
    /\ Cardinality({i \in DOMAIN values : values[i] <= v}) >= k

\* stats, of values that there are; median2 is twice the median.
stats(values) ==
  LET n == Len(values)
      sorted == [k \in 1..n |-> Ranked(values, k)]
      p95_idx == Max({0, (n * 95) \div 100 - 1})
  IN [n |-> n, median2 |-> sorted[(n + 1) \div 2] + sorted[n \div 2 + 1],
      p95 |-> sorted[p95_idx + 1], min |-> sorted[1], max |-> sorted[n]]

total_bytes_per_session(spans) ==
  LET probes == Probes(spans)
  IN SumOf([i \in DOMAIN probes |-> probe_bytes(probes[i])])
compute_protocol_overhead(files) ==
  LET probed == SetToSeq({f \in files : Probes(parse_trace(f)) # <<>>}) IN
  [i \in DOMAIN probed |-> total_bytes_per_session(parse_trace(probed[i]))]

-----------------------------------------------------------------------------
(* Properties. *)

\* The runs of a directory that left a trace, and those with seven servers.
Runs(dir) == {k \in DOMAIN saved : plan[k].dir = dir /\ saved[k].spans # <<>>}
Sevens(dir) == {k \in Runs(dir) : plan[k].scenario.server_count = 7}
Scene(k) == plan[k].scenario
Plain(spans) == [i \in DOMAIN spans |-> [name |-> spans[i].Name, attrs |-> spans[i].Attributes]]

\* The directories of the sweeps were made by the Go client from matrix.yaml,
\* high-latency.yaml and packet-loss.yaml, which name no scenario and run each once.
Sweeps == {FullMatrix, HighLatency, PacketLoss}
SweepRun(run) ==
  LET s == run.scenario IN
  /\ s.name = <<>> /\ s.client_impl = "go" /\ s.runs = 1 /\ ~HasMock(s)
  /\ s.nat_type \in NatTypes /\ s.server_count \in {3, 5, 7}
  /\ s.packet_loss \in Nat /\ (s.packet_loss # 0 <=> run.dir = PacketLoss)
  /\ s.latency_ms \in Nat \ {0} /\ (s.latency_ms # 10 <=> run.dir = HighLatency)

\* Plans like theirs and that of v1-v2-gap.yaml: every run has a file of its own,
\* a run of a gap directory is behind a full cone, and a client's first v1 event
\* says one or the other, and times are in whole milliseconds.
AsWritten(plans) ==
  \A p \in plans :
    /\ IsList(p)
    /\ \A j, k \in DOMAIN p : File(p[j], "json") = File(p[k], "json") => j = k
    /\ \A k \in DOMAIN p :
         /\ p[k].dir \in Sweeps => SweepRun(p[k])
         /\ p[k].dir \in Gaps => p[k].scenario.nat_type = "full-cone"
         /\ \A outcome \in p[k].outcomes :
              LET v1 == get_convergence(Plain(outcome.spans)).v1 IN
              /\ v1 # <<>> => Attr(v1[1], "reachability", "?") \in {"public", "private"}
              /\ IsList(outcome.spans)
              /\ \A i \in DOMAIN outcome.spans : LET s == outcome.spans[i] IN
                   s.Name = "reachable_addrs_changed" => s.Attributes.elapsed_ms \in Nat

\* The rates that the runs have, by the scenarios they were started with.
TrueRates(runs) ==
  [version \in {"v1", "v2"} |->
    LET Wrong(nats) == {k \in runs : Scene(k).nat_type \in nats /\
                         Reported(version, Plain(saved[k].spans)) # (Scene(k).nat_type \in ReachableNats)}
        All(nats) == {k \in runs : Scene(k).nat_type \in nats}
        Restricted == DOMAIN NatParts \ ReachableNats
    IN [fnr |-> Percent(Cardinality(Wrong(ReachableNats)), Cardinality(All(ReachableNats))),
        fpr |-> Percent(Cardinality(Wrong(Restricted)), Cardinality(All(Restricted)))]]

\* fig_fnr_fpr_summary, "FNR/FPR per experiment condition": a bar shows the
\* rates of the runs that were made under its condition.
RatesAreRuns ==
  /\ \A c \in Conditions :
       _compute_fnr_fpr(c) = TrueRates({k \in Runs(DirOf(c)) :
         /\ c.latency_ms # None => Scene(k).latency_ms = c.latency_ms
         /\ c.loss_pct # None => Scene(k).packet_loss = c.loss_pct})
  /\ _compute_fnr_fpr_gap = TrueRates(UNION {Runs(d) : d \in Gaps})

\* ... and so does the first bar, "Baseline (local)".
BaselineIsRuns == _compute_fnr_fpr(Baseline) = TrueRates(Runs(FullMatrix))

\* Every run of a sweep with seven servers is a point of its figure and a cell of
\* the heatmap, at its own conditions and with its own time.
PointsAreRuns ==
  \A k \in UNION {Sevens(d) : d \in {FullMatrix, HighLatency, PacketLoss}} :
    LET s == Scene(k)
        ms == first_convergence_ms(Plain(saved[k].spans))
    IN /\ IF s.packet_loss = 0 THEN LatencyPoint(s.nat_type, s.transport, s.latency_ms) = ms
          ELSE LossPoint(s.nat_type, s.transport, s.packet_loss) = ms
       /\ HeatmapCell(s.nat_type, s.transport, s.packet_loss, s.latency_ms)
            = IF ms = None THEN 0 ELSE ms

\* "Local Testbed, 7 Servers": where the run with seven servers has a v1 event,
\* the bar of the first figure and the cell of the correctness figure are of it.
FiguresAgree ==
  \A k \in Sevens(FullMatrix) :
    LET s == Scene(k)
        v1 == get_convergence(Plain(saved[k].spans)).v1
    IN /\ v1 # <<>> => Bar("v1", s.nat_type, s.transport) = Elapsed(v1[1])
       /\ v1 # <<>> => (Cell(s.nat_type, s.transport) = "CORRECT" <=>
            Reported("v1", Plain(saved[k].spans)) = (s.nat_type \in ReachableNats))
       /\ v1 = <<>> => Cell(s.nat_type, s.transport) = "NOT TRIGGERED"

\* ... and where it has none, there is no bar.
BarsAreSeven ==
  \A k \in Sevens(FullMatrix) :
    get_convergence(Plain(saved[k].spans)).v1 = <<>> =>
      Bar("v1", Scene(k).nat_type, Scene(k).transport) = None

\* A false verdict is one of a run, whichever files are given; what is in a group
\* is a run with an event; and a group's statistics are in order, its median not
\* above its p95, unless there are two values only.
MetricsInOrder ==
  \A d \in {plan[k].dir : k \in DOMAIN plan} :
    LET files == Files(d, {"json", "toggles.json", "assertions.json"})
        groups == {"reachable", "unreachable"}
    IN /\ compute_fnr(files).false + compute_fpr(files).false <= Cardinality(Runs(d))
       /\ \A g \in groups : LET times == Times(files, g) IN times # <<>> =>
            /\ stats(times).n <= Cardinality(Runs(d))
            /\ stats(times).min <= stats(times).p95 /\ stats(times).p95 <= stats(times).max
            /\ stats(times).n # 2 => stats(times).median2 <= 2 * stats(times).p95

\* p95 is not below the median.
P95AboveMedian ==
  \A d \in {plan[k].dir : k \in DOMAIN plan} :
    LET times == Times(Files(d, {"json"}), "reachable") IN
    times # <<>> => stats(times).median2 <= 2 * stats(times).p95

\* reachable-forwarded.yaml, "analyze.py ... results/reachable-forwarded-*/*.json":
\* the total of a metric is the number of runs that left a trace.
TotalIsRuns ==
  \A d \in {plan[k].dir : k \in DOMAIN plan} :
    compute_fnr(Files(d, {"json", "toggles.json", "assertions.json"})).total
      = Cardinality(Runs(d))

\* generate_figures.py:985, "mirrors analyze.py logic": the bytes of a session
\* are the same in the figure and in the analysis ...
OverheadMirrors ==
  \A k \in Sevens(FullMatrix) :
    FigureBytes(Scene(k).nat_type, Scene(k).transport) = total_bytes_per_session(saved[k].spans)

\* ... which the two estimates come to, each in its own way, where addresses are
\* ASCII, no dial data were asked for, and what the events say of a dial-back is
\* what the figure infers without them; and the figure is of the last file.
Inferred(probe) ==
  /\ probe.Attributes.addr_chars = probe.Attributes.addr_bytes
  /\ ~Event(probe.Events, "dial_data_requested")
  /\ DialBackBytes(probe.Attributes, probe.Events) = DialBackBytes(probe.Attributes, <<>>)
OverheadAgrees ==
  \A k \in Sevens(FullMatrix) :
    LET probes == Probes(saved[k].spans) IN
    (\A i \in DOMAIN probes : Inferred(probes[i])) =>
      FigureBytes(Scene(k).nat_type, Scene(k).transport) = total_bytes_per_session(saved[k].spans)

\* fig_time_to_update draws what was detected.
TimelineIsDetected ==
  \A f \in DOMAIN disk : f[3] = "toggles.json" =>
    \A i \in DOMAIN disk[f] : Timeline(f)[i].shown = "detected" <=> disk[f][i].detected
=============================================================================
