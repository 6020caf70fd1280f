------------------------------ MODULE Session ------------------------------
(***************************************************************************)
(* Sessions of the experiment runner (testbed/run.py, main): a scenario     *)
(* file and its options become an agenda of runs, each of which starts and  *)
(* stops containers and leaves files, in a directory that an earlier        *)
(* session may have used.  What happens inside a run is in Runner; here a   *)
(* run has the outcomes that RunPromise admits.                             *)
(*                                                                          *)
(* External: compose stops the services of the profiles it is given and     *)
(* those without a profile, and no others (--remove-orphans means services  *)
(* that the file has not), and starts again those whose configuration has   *)
(* changed; up, down and exec may fail, and a query of Jaeger may raise.    *)
(* Queries ask for spans since the run began.                               *)
(***************************************************************************)
EXTENDS Scenario

CONSTANTS
  Commands,     \* [document, options] that may be given
  MaxSessions,  \* bound: sessions
  Parts,        \* sets of services that a call of compose may fail to start or stop
  MaxUnclean    \* bound: runs that docker or Jaeger fail; 0 if they never do

\* What the YAML file and the arguments are, before anything is validated.
WellTyped(c) ==
  /\ c.document.scenarios # None => IsList(c.document.scenarios)
  /\ c.document.matrix # None =>
       /\ IsList(c.document.matrix)
       /\ \A i \in DOMAIN c.document.matrix : IsList(c.document.matrix[i][2])
  /\ c.options.runs # None => c.options.runs \in Int

ASSUME SessionAssumption ==
  /\ MaxSessions \in Nat /\ MaxUnclean \in Nat
  /\ {} \in Parts /\ Parts \subseteq SUBSET Services
  /\ \A c \in Commands : WellTyped(c)

VARIABLES
  pc,           \* "shell", "between" two runs, or "running"
  session,      \* number of the session
  command,      \* its document and options
  agenda,       \* its runs, in order: [scenario, run_num]
  at,           \* the run at hand
  environ,      \* os.environ, of what build_env sets
  up,           \* the containers that run, with the run that started each
  disk,         \* result files, with the runs whose spans or results are inside
  report,       \* per finished run: the runs it was judged on, and run_pass
  exit,         \* exit status of the last session
  unclean       \* history: the runs that ended in an exception, or whose final
                \* down left containers

progress == <<session, command, agenda>>
vars == <<pc, progress, at, environ, up, disk, report, exit, unclean>>

Run == <<session, at>>
Scene == agenda[at].scenario
Profiles == get_profiles(Scene)
NoEnv == <<>>

TypeOK ==
  /\ pc \in {"shell", "between", "running"}
  /\ session \in 0..MaxSessions
  /\ pc # "shell" => command \in Commands
  /\ at \in 1..Len(agenda) + 1 /\ Len(report) <= at
  /\ DOMAIN up \subseteq Enabled({e[2] : e \in compose})
  /\ \A c \in DOMAIN up : up[c] \in (1..session) \X Nat
  /\ \A f \in DOMAIN disk : disk[f] # {} /\ disk[f] \subseteq (1..session) \X Nat
  /\ unclean \subseteq (1..session) \X Nat
  /\ exit \in {0, 1}

-----------------------------------------------------------------------------
(* The start of main. *)

\* A zero, as none, overrides nothing; what overrides is not validated.
Override(s, options) ==
  [s EXCEPT !.timeout_s = IF options.timeout \in {None, 0} THEN @ ELSE options.timeout,
            !.runs = IF options.runs \in {None, 0} THEN @ ELSE options.runs]

Selected(c) ==
  LET scenarios == expand_scenarios(c.document) IN
  apply_filter([i \in DOMAIN scenarios |-> Override(scenarios[i], c.options)],
               c.options.filter)

Agenda(scenarios) ==
  FlattenSeq([i \in DOMAIN scenarios |->
    [n \in 1..scenarios[i].runs |-> [scenario |-> scenarios[i], run_num |-> n]]])

MutResultDir ==                 \* mutant: one directory for all
  IF command.options.output = 0 THEN <<"own", 0>>
  ELSE <<"given", command.options.output>>

\* A directory of the session's own, by its time, or the one that is given.
result_dir ==
  IF command.options.output = 0 THEN <<"own", session>>
  ELSE <<"given", command.options.output>>

File(k, kind) ==
  <<result_dir, build_run_label(agenda[k].scenario, agenda[k].run_num), kind>>

Accepted(c) == WellFormed(c.document) /\ validate(expand_scenarios(c.document))

Init ==
  /\ pc = "shell" /\ session = 0 /\ command = None /\ agenda = <<>> /\ at = 1
  /\ environ = NoEnv /\ up = <<>> /\ disk = <<>> /\ report = <<>>
  /\ exit = 0 /\ unclean = {}

MutCall(c) ==                   \* mutant: the count of runs goes on
  /\ pc = "shell" /\ session < MaxSessions
  /\ session' = session + 1 /\ command' = c
  /\ report' = <<>> /\ environ' = NoEnv
  /\ UNCHANGED <<at, up, disk, unclean>>

Call(c) ==
  /\ pc = "shell" /\ session < MaxSessions
  /\ session' = session + 1 /\ command' = c
  /\ at' = 1 /\ report' = <<>> /\ environ' = NoEnv
  /\ UNCHANGED <<up, disk, unclean>>

\* A document that is not accepted, a dry run, nothing that matches, or no docker.
Decline ==
  \E c \in Commands :
    /\ Call(c) /\ agenda' = <<>> /\ pc' = "shell"
    /\ \/ ~Accepted(c) /\ exit' = 1
       \/ Accepted(c) /\ (c.options.dry_run \/ Selected(c) = <<>>) /\ exit' = 0
       \/ /\ MaxUnclean > 0 /\ Accepted(c) /\ ~c.options.dry_run /\ Selected(c) # <<>>
          /\ exit' = 1

Begin ==
  \E c \in Commands :
    /\ Call(c) /\ Accepted(c) /\ ~c.options.dry_run /\ Selected(c) # <<>>
    /\ agenda' = Agenda(Selected(c)) /\ pc' = "between" /\ exit' = 0

-----------------------------------------------------------------------------
(* The runs. *)

MayFail == Cardinality(unclean) < MaxUnclean

MutStopped(profiles, spared) == \* mutant: down is not told the profiles
  [c \in DOMAIN up \ (Enabled({}) \ spared) |-> up[c]]

\* down, whose failure nobody looks at.
Stopped(profiles, spared) == [c \in DOMAIN up \ (Enabled(profiles) \ spared) |-> up[c]]

\* down and then up, for which some of what down has spared is as it should be.
Started(services, spared, same) ==
  LET left == Stopped(Profiles, spared) IN
  [c \in services \cup DOMAIN left |->
     IF c \in DOMAIN left /\ (c \in services => c \in same) THEN left[c] ELSE Run]

\* A client that an earlier run left behind holds the address of this one's.
Clash == \E place \in Places :
  place \cap Enabled(Profiles) # {} /\ ~(place \cap DOMAIN up \subseteq Enabled(Profiles))

\* The exception leaves main with the containers as they are.
Raise == unclean' = unclean \cup {Run} /\ pc' = "shell" /\ exit' = 1

update(env, new) ==
  [k \in DOMAIN env \cup DOMAIN new |-> IF k \in DOMAIN new THEN new[k] ELSE env[k]]

\* run_scenario up to dc.up, which may raise at any container.
StartRun ==
  /\ pc = "between" /\ at <= Len(agenda)
  /\ environ' = update(environ, build_env(Scene))
  /\ \E spared, same, failed \in Parts :
       /\ spared # {} => MaxUnclean > 0
       /\ up' = Started(Enabled(Profiles) \ failed, spared, same)
       /\ \/ /\ ~Clash /\ failed = {}
             /\ pc' = "running" /\ UNCHANGED <<exit, unclean>>
          \/ /\ MayFail \/ Clash
             /\ Clash => failed # {}
             /\ Raise
  /\ UNCHANGED <<progress, at, disk, report>>

Toggles == Scene.dynamic_toggles \notin {None, <<>>}
Asserts == Scene.assertions \notin {None, <<>>}

\* A toggle that docker refuses, or a query of Jaeger in which urllib raises.
RunRaises ==
  /\ pc = "running" /\ MayFail
  /\ Raise
  /\ UNCHANGED <<progress, at, environ, up, disk, report>>

\* The runs whose spans a query may find: of clients that have emitted any.
Heard == {{up[c] : c \in clients} : clients \in SUBSET (DOMAIN up \cap Clients)}

\* A file of the run at hand is written, over one of its name.
Store(files, kind, runs) == update(files, [f \in {File(at, kind)} |-> runs])

\* The rest of run_scenario: the trace, if there are spans, and the toggle
\* results are written; the assertions are evaluated on the result file, if
\* there is one, whoever wrote it; an evaluator that fails finds no failure; down.
FinishRun ==
  /\ pc = "running"
  /\ \E heard \in Heard, failed \in BOOLEAN :
       LET exported == IF heard = {} THEN disk ELSE Store(disk, "json", heard)
           written == IF Toggles THEN Store(exported, "toggles.json", {Run}) ELSE exported
           judged == Asserts /\ File(at, "json") \in DOMAIN written
       IN /\ failed => judged
          /\ disk' = IF judged THEN Store(written, "assertions.json", {Run}) ELSE written
          /\ report' = Append(report,
               [judged |-> IF judged THEN written[File(at, "json")] ELSE {},
                pass |-> ~failed])
  /\ \E spared \in Parts :
       /\ spared # {} => MayFail
       /\ up' = Stopped(Profiles, spared)
       /\ unclean' = IF spared = {} THEN unclean ELSE unclean \cup {Run}
  /\ pc' = "between" /\ at' = at + 1
  /\ UNCHANGED <<progress, environ, exit>>

Summary ==
  /\ pc = "between" /\ at > Len(agenda)
  /\ exit' = IF \E k \in DOMAIN report : ~report[k].pass THEN 1 ELSE 0
  /\ pc' = "shell"
  /\ UNCHANGED <<progress, at, environ, up, disk, report, unclean>>

Next == Decline \/ Begin \/ StartRun \/ RunRaises \/ FinishRun \/ Summary

Spec == Init /\ [][Next]_vars

-----------------------------------------------------------------------------
(* Properties. *)

Here == {c \in DOMAIN up \cap Clients : up[c] = Run}

\* run.py:564, "This avoids starting the Go client": a run has one client, the
\* one whose log is shown.
OnlyItsClient == pc = "running" => Here = {get_client_container(Scene)}

\* A container of another run is there only because that run raised, or its final
\* down left it.
StrangersExplained ==
  pc = "running" => \A c \in DOMAIN up : up[c] \in {Run} \cup unclean

\* The client whose log is shown runs, and the run has started no other where the Rust
\* and JavaScript clients do not meet the mock servers; what else runs is explained.
ClientsExplained ==
  /\ pc = "running" =>
       /\ get_client_container(Scene) \in DOMAIN up
       /\ \/ HasMock(Scene) /\ Scene.client_impl # "go"
          \/ Here \subseteq {get_client_container(Scene)}
  /\ StrangersExplained

Serving == DOMAIN up \cap Servers \cap Enabled(Profiles)

\* docs/scenario-schema.md, "AutoNAT servers to use", and v1-v2-gap.yaml, "2
\* reliable servers + 5 unreliable servers" of server_count 7: as many servers
\* are started as the scenario asks for, the unreliable ones among them.
ServersAsAsked ==
  pc = "running" /\ ~HasMock(Scene) => Cardinality(Serving) = Scene.server_count

\* threshold-sensitivity.yaml, "only 3 distinct observers exist": unless the
\* scenario says otherwise, there are observers enough for the threshold.
ThresholdAlways ==
  pc = "running" /\ Scene.obs_addr_thresh = None =>
    Cardinality(Serving) >= get_obs_thresh(Scene)

\* A count of four, for which three servers are started, is the only exception.
ThresholdInReach == ~ThresholdAlways => ~HasMock(Scene) /\ Scene.server_count = 4

\* A run's containers have the environment that they would have in a session of
\* its own: nothing is left of the scenarios before.
EnvironmentIsOwn == pc = "running" => environ = build_env(Scene)

\* What a user may tell the runs of a file apart by: the "unique label" (docs/
\* scenario-schema.md) or the fields of a matrix.
Identity(k) ==
  LET s == agenda[k].scenario IN
  <<s.name, IF s.name # <<>> THEN {} ELSE
      {<<s.nat_type, s.transport, IF HasMock(s) THEN 0 ELSE s.server_count>>},
    s.client_impl, s.packet_loss, s.latency_ms, agenda[k].run_num>>
Distinct == \A i, j \in DOMAIN agenda : Identity(i) = Identity(j) => i = j

Written == {r \in UNION {disk[f] : f \in DOMAIN disk} : r[1] = session}

\* A name that does not read like the label of another scenario: it ends in none
\* of the parts that build_run_label adds, and is not what an unnamed scenario gets.
PlainName(name) ==
  name # <<>> =>
    /\ IsList(name) /\ name[Len(name)][1] \notin {"rust", "js", "loss", "lat", "run"}
    /\ \A nat_type \in NatTypes, transport \in {"tcp", "quic", "both"},
          last \in {<<"mock">>} \cup {<<"servers", n>> : n \in 3..7} :
         name # NatParts[nat_type] \o <<<<transport>>, last>>

PlainNames ==
  \A c \in Commands : Accepted(c) =>
    \A i \in DOMAIN Selected(c) : PlainName(Selected(c)[i].name)

\* Where the runs are distinct and the directory is new, a run is judged on its
\* own spans, and on those of a client that a run which raised, or whose final down
\* failed, has left behind.
JudgedOnOwn ==
  command # None /\ command.options.output = 0 /\ Distinct =>
    \A k \in DOMAIN report : report[k].judged \subseteq {<<session, k>>} \cup unclean

\* As above without the conditions: the verdict of a run is about that run.
VerdictIsOwn ==
  \A k \in DOMAIN report : report[k].judged \subseteq {<<session, k>>} \cup unclean

\* A session of distinct runs overwrites no file that it has written.
ResultsAreKept ==
  [][pc = "running" /\ Distinct =>
       \A f \in DOMAIN disk :
         disk[f] \cap Written # {} => f \in DOMAIN disk' /\ disk'[f] = disk[f]]_vars

\* A matrix like those of scenarios/: no field and no value of one is given twice,
\* and main changes none of them; --runs is not negative; and a filter names
\* fields of the matrix, or something that no scenario has.
MatrixAsWritten(c) ==
  LET m == c.document.matrix IN
  /\ \A i, j \in DOMAIN m : m[i][1] = m[j][1] => i = j
  /\ \A i \in DOMAIN m :
       /\ m[i][1] \in Fields \ {"runs", "timeout_s", "dynamic_toggles"}
       /\ \A a, b \in DOMAIN m[i][2] :
            m[i][2][a] # None /\ (m[i][2][a] = m[i][2][b] => a = b)
  /\ c.options.runs # None => c.options.runs \in Nat
  /\ \A key \in DOMAIN c.options.filter :
       IF key \in Fields THEN \E i \in DOMAIN m : m[i][1] = key ELSE c.options.filter[key] # ""

\* How often each scenario is to be run.
Asked(c) ==
  IF c.options.runs \notin {None, 0} THEN c.options.runs
  ELSE IF "runs" \in DOMAIN c.document.defaults THEN c.document.defaults.runs ELSE 1

\* "Cartesian product expansion": when a session of a matrix ends without a
\* failure, each combination of its values that the filter admits has been run
\* as often as was asked, and nothing else.
EveryComboRan ==
  (pc = "shell" /\ exit = 0 /\ command # None /\ ~command.options.dry_run
   /\ Accepted(command) /\ command.document.matrix # None) =>
    LET m == command.document.matrix
        wanted == command.options.filter
        combos == {c \in [DOMAIN m -> UNION {DOMAIN m[i][2] : i \in DOMAIN m}] :
                    \A i \in DOMAIN m :
                      /\ c[i] \in DOMAIN m[i][2]
                      /\ m[i][1] \in DOMAIN wanted => m[i][2][c[i]] = wanted[m[i][1]]}
        RunsOf(c) == {k \in DOMAIN report : \A i \in DOMAIN m :
                        agenda[k].scenario[m[i][1]] = m[i][2][c[i]]}
        known == DOMAIN wanted \subseteq Fields
    IN /\ known => \A c \in combos : Cardinality(RunsOf(c)) = Asked(command)
       /\ Len(report) = IF known THEN Cardinality(UNION {RunsOf(c) : c \in combos}) ELSE 0
=============================================================================
