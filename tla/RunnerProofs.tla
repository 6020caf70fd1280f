---------------------------- MODULE RunnerProofs ----------------------------
(***************************************************************************)
(* Invariance and refinement proofs about a run of the experiment runner,   *)
(* for any scenario, number of toggles, time-outs and search depth.         *)
(***************************************************************************)
EXTENDS Runner, FiniteSetTheorems, SequenceTheorems, TLAPS

\* What each place of run_scenario has reached: the toggles that are applied and
\* the ones that are reported, and when there is a result file and a verdict.
Progress ==
  /\ pc = "detecting" => Len(results) = toggled - 1
  /\ pc = "aborted" => Len(results) \in {toggled - 1, toggled}
  /\ pc \notin {"detecting", "aborted"} => Len(results) = toggled
  /\ pc = "detecting" => toggled > 0
  /\ pc \in {"start", "converging", "observing"} => toggled = 0
  /\ pc \in {"counting_v1", "counting_v2", "toggling"} => toggled < Len(Toggles)
  /\ pc \in {"exporting", "asserting", "done"} => toggled = Len(Toggles)
  /\ file # NoFile => pc \in {"asserting", "done"}
  /\ verdict # "none" => pc = "done"
  /\ pc = "start" => ~up
  /\ pc \notin {"start", "done", "aborted"} => up

IInv == TypeOK /\ Progress

-----------------------------------------------------------------------------
(* Queries. *)

LEMMA TogglesAreNat ==
  ASSUME TypeOK
  PROVE  Toggles \in Seq({"converged", "sleep"}) /\ Len(Toggles) \in Nat
<1>1. scenario \in [toggles : Seq({"converged", "sleep"}), observes : BOOLEAN,
                    fails : SUBSET {"jaeger", "docker", "evaluator"}]
  BY RunnerAssumption DEF TypeOK
<1> QED
  BY <1>1 DEF Toggles

\* The scenario does not change.
LEMMA SceneStays ==
  ASSUME [Next]_vars
  PROVE  UNCHANGED <<scenario, Toggles, Span>>
<1>1. scenario' = scenario
  BY DEF Next, Runs, Start, PollConvergence, Observe, AwaitPhase, CountV1, CountV2, Count,
     Toggle, Detect, Export, QueryRaises, Assert, ClientProbes, ClientEmits, BatchExported,
     vars
<1> QED
  BY <1>1 DEF Toggles, Span

\* A query returns a stretch of what the client has emitted.
LEMMA QueriedType ==
  ASSUME TypeOK, NEW q \in Queried
  PROVE  q \in Seq(Span) /\ Len(q) <= MaxSpans
<1> DEFINE first == IF exported > Depth THEN exported - Depth + 1 ELSE 1
<1>1. exported \in Nat /\ exported <= Len(spans) /\ Len(spans) \in Nat /\ Depth \in Nat
      /\ MaxSpans \in Nat /\ Len(spans) <= MaxSpans /\ spans \in Seq(Span)
  BY RunnerAssumption DEF TypeOK
<1>2. first \in 1..Len(spans) + 1 /\ exported \in first - 1..Len(spans)
  BY <1>1
<1>3. SubSeq(spans, first, exported) \in Seq(Span)
      /\ Len(SubSeq(spans, first, exported)) <= MaxSpans
  BY <1>1, <1>2, SubSeqProperties
<1>4. Held = SubSeq(spans, first, exported)
  BY DEF Held
<1>5. CASE q = Held
  BY <1>3, <1>4, <1>5
<1>6. CASE q = <<>>
  BY <1>1, <1>6
<1> QED
  BY <1>5, <1>6 DEF Queried

\* As many spans of a name are counted as there are positions of them.
LEMMA CountType ==
  ASSUME NEW name, NEW q \in Seq(Span)
  PROVE  /\ IsFiniteSet({i \in DOMAIN q : q[i].name = name})
         /\ count_spans(name, q) \in Nat /\ count_spans(name, q) <= Len(q)
<1>1. DOMAIN q = 1..Len(q) /\ Len(q) \in Nat
  OBVIOUS
<1>2. IsFiniteSet(1..Len(q)) /\ Cardinality(1..Len(q)) = Len(q)
  BY <1>1, FS_Interval
<1>3. {i \in DOMAIN q : q[i].name = name} \in SUBSET (1..Len(q))
  BY <1>1
<1> QED
  BY <1>2, <1>3, FS_Subset, FS_CardinalityType DEF count_spans

-----------------------------------------------------------------------------
(* The invariant. *)

LEMMA InitIInv == Init => IInv
<1> SUFFICES ASSUME Init PROVE IInv
  OBVIOUS
<1>1. Len(Toggles) \in Nat /\ scenario \in Scenarios
  <2>1. scenario \in [toggles : Seq({"converged", "sleep"}), observes : BOOLEAN,
                      fails : SUBSET {"jaeger", "docker", "evaluator"}]
    BY RunnerAssumption DEF Init
  <2> QED
    BY <2>1 DEF Init, Toggles
<1>2. <<>> \in Seq(Span) /\ <<>> \in Seq(BOOLEAN) /\ Len(<<>>) = 0
  OBVIOUS
<1>3. Patience \in Nat /\ MaxSpans \in Nat
  BY RunnerAssumption
<1>4. [n \in {Reachability, ReachableAddrs} |-> 0]
        \in [{Reachability, ReachableAddrs} -> 0..MaxSpans]
  BY <1>3
<1>5. spans \in Seq(Span) /\ Len(spans) = 0 /\ observed \in Seq(Span) /\ file \in Seq(Span)
  BY <1>2 DEF Init, NoFile
<1>6. results \in Seq(BOOLEAN) /\ Len(results) = 0
  BY <1>2 DEF Init
<1>7. pc = "start" /\ up \in BOOLEAN /\ ~up /\ exported = 0 /\ toggled = 0 /\ probed = 0 /\ polls = 0
      /\ file = NoFile /\ verdict = "none"
      /\ baseline \in [{Reachability, ReachableAddrs} -> 0..MaxSpans]
  BY <1>4 DEF Init
<1> QED
  BY <1>1, <1>3, <1>4, <1>5, <1>6, <1>7 DEF IInv, TypeOK, Progress

LEMMA StepIInv == IInv /\ [Next]_vars => IInv'
<1> SUFFICES ASSUME IInv, [Next]_vars PROVE IInv'
  OBVIOUS
<1> USE DEF IInv
<1>0. /\ Len(Toggles) \in Nat /\ Patience \in Nat /\ MaxSpans \in Nat
      /\ scenario' = scenario /\ Toggles' = Toggles /\ Span' = Span
  BY TogglesAreNat, SceneStays, RunnerAssumption
<1>1. CASE Start
  <2>1. \/ pc' = "converging" /\ up'
        \/ pc' = "aborted"
    BY <1>1 DEF Start, Go
  <2>2. pc = "start" /\ polls' = 0 /\ up' \in BOOLEAN
        /\ UNCHANGED <<scenario, client, toggled, baseline, kept>>
    BY <1>1 DEF Start, Go
  <2> QED
    BY <1>0, <2>1, <2>2 DEF client, kept, TypeOK, Progress
<1>2. CASE PollConvergence
  BY <1>0, <1>2 DEF PollConvergence, Poll, TimesOut, AfterConvergence, Go, client,
     kept, TypeOK, Progress
<1>3. CASE Observe
  <2>1. observed' \in Seq(Span)
    BY <1>3, QueriedType DEF Observe, TypeOK
  <2> QED
    BY <1>0, <1>3, <2>1 DEF Observe, Poll, Go, client, TypeOK, Progress
<1>4. CASE AwaitPhase
  BY <1>0, <1>4 DEF AwaitPhase, NextPhase, Poll, TimesOut, Go, client, kept, TypeOK,
     Progress
<1>5. ASSUME NEW name \in {Reachability, ReachableAddrs}, Count(name)
      PROVE  baseline' \in [{Reachability, ReachableAddrs} -> 0..MaxSpans]
  <2>1. PICK q \in Queried : baseline' = [baseline EXCEPT ![name] = count_spans(name, q)]
    BY <1>5 DEF Count
  <2>2. count_spans(name, q) \in 0..MaxSpans
    <3>1. q \in Seq(Span) /\ Len(q) <= MaxSpans
      BY QueriedType
    <3>2. count_spans(name, q) \in Nat /\ count_spans(name, q) <= Len(q)
      BY <3>1, CountType
    <3> QED
      BY <1>0, <3>1, <3>2
  <2> QED
    BY <2>1, <2>2 DEF TypeOK
<1>6. CASE CountV1
  <2>1. baseline' \in [{Reachability, ReachableAddrs} -> 0..MaxSpans]
    BY <1>5, <1>6 DEF CountV1
  <2> QED
    BY <1>0, <1>6, <2>1 DEF CountV1, Count, Go, client, kept, TypeOK, Progress
<1>7. CASE CountV2
  <2>1. baseline' \in [{Reachability, ReachableAddrs} -> 0..MaxSpans]
    BY <1>5, <1>7 DEF CountV2
  <2> QED
    BY <1>0, <1>7, <2>1 DEF CountV2, Count, Go, client, kept, TypeOK, Progress
<1>8. CASE Toggle
  BY <1>0, <1>8 DEF Toggle, Go, client, kept, TypeOK, Progress
<1>9. CASE Detect
  <2>1. pc = "detecting" /\ UNCHANGED <<scenario, client, up, toggled, baseline,
                                      observed, file, verdict>>
    BY <1>9, Zenon DEF Detect, Poll, TimesOut, Go
  <2>2. /\ pc' \in {"detecting", "waiting"} /\ polls' \in 0..Patience
        /\ IF pc' = "detecting" THEN results' = results
           ELSE \E d \in BOOLEAN : results' = Append(results, d)
    <3>1. ASSUME NEW detected \in BOOLEAN, Poll("detecting", detected, "waiting"),
                 results' = IF detected THEN Append(results, TRUE) ELSE results
          PROVE  <2>2
      <4>1. CASE detected
        <5>1. pc' = "waiting" /\ polls' \in 0..Patience
          BY <1>0, <3>1, <4>1 DEF Poll, Go
        <5>2. results' = Append(results, TRUE)
          BY <3>1, <4>1
        <5> QED
          BY <5>1, <5>2
      <4>2. CASE ~detected
        <5>1. pc' = "detecting" /\ polls' \in 0..Patience
          BY <1>0, <2>1, <3>1, <4>2 DEF Poll, TypeOK
        <5>2. results' = results
          BY <3>1, <4>2
        <5> QED
          BY <5>1, <5>2
      <4> QED
        BY <4>1, <4>2
    <3>2. ASSUME TimesOut("detecting", "waiting"), results' = Append(results, FALSE)
          PROVE  <2>2
      <4>1. pc' = "waiting" /\ polls' \in 0..Patience
        BY <1>0, <3>2 DEF TimesOut, Go
      <4> QED
        BY <3>2, <4>1
    <3> QED
      BY <1>9, <3>1, <3>2, Zenon DEF Detect
  <2>3. results' \in Seq(BOOLEAN)
        /\ Len(results') = IF pc' = "detecting" THEN toggled - 1 ELSE toggled
    <3>1. /\ results \in Seq(BOOLEAN) /\ Len(results) = toggled - 1 /\ toggled \in Nat
      BY <1>0, <2>1 DEF TypeOK, Progress
    <3>2. \A d \in BOOLEAN : Append(results, d) \in Seq(BOOLEAN)
                           /\ Len(Append(results, d)) = toggled
      BY <3>1
    <3> QED
      BY <2>2, <3>1, <3>2
  <2>4. pc' \in {"detecting", "waiting"} /\ polls' \in 0..Patience
    BY <2>2
  <2> QED
    BY <1>0, <2>1, <2>3, <2>4 DEF client, TypeOK, Progress
<1>10. CASE Export
  <2>1. file' \in Seq(Span)
    BY <1>10, QueriedType DEF Export, TypeOK
  <2>2. /\ pc = "exporting" /\ pc' = "asserting" /\ polls' = 0
        /\ UNCHANGED <<scenario, client, up, toggled, baseline, results, observed, verdict>>
    BY <1>10 DEF Export, Go
  <2> QED
    BY <1>0, <2>1, <2>2 DEF client, TypeOK, Progress
<1>11. CASE Assert
  <2>1. /\ pc = "asserting" /\ pc' = "done" /\ polls' = 0
        /\ UNCHANGED <<scenario, client, toggled, baseline, results, observed, file>>
    BY <1>11 DEF Assert, Go
  <2>2. verdict' \in {"pass", "fail"} /\ up' \in BOOLEAN
    BY <1>11 DEF Assert, TypeOK
  <2> QED
    BY <1>0, <2>1, <2>2 DEF client, TypeOK, Progress
<1>12. CASE ClientProbes
  BY <1>0, <1>12 DEF ClientProbes, kept, TypeOK, Progress
<1>13. CASE ClientEmits
  <2>1. PICK n \in SpanName : spans' = Append(spans, [name |-> n, shows |-> probed])
    BY <1>13 DEF ClientEmits
  <2>2. [name |-> n, shows |-> probed] \in Span
    BY <1>0 DEF Span, TypeOK
  <2>3. spans' \in Seq(Span) /\ Len(spans') = Len(spans) + 1
    BY <2>1, <2>2 DEF TypeOK
  <2> QED
    BY <1>0, <1>13, <2>3 DEF ClientEmits, kept, TypeOK, Progress
<1>14. CASE BatchExported
  BY <1>0, <1>14 DEF BatchExported, kept, TypeOK, Progress
<1>15. CASE QueryRaises
  BY <1>0, <1>15 DEF QueryRaises, Querying, Go, client, kept, TypeOK, Progress
<1>16. CASE UNCHANGED vars
  BY <1>0, <1>16 DEF vars, client, kept, TypeOK, Progress
<1> QED
  BY <1>1, <1>2, <1>3, <1>4, <1>6, <1>7, <1>8, <1>9, <1>10, <1>11, <1>12, <1>13,
     <1>14, <1>15, <1>16 DEF Next, Runs

\* IInv is inductive.
LEMMA Invariance == Spec => []IInv
BY InitIInv, StepIInv, PTL DEF Spec

\* A run keeps its types.
THEOREM TypeCorrect == Spec => []TypeOK
<1>1. IInv => TypeOK
  BY DEF IInv
<1> QED
  BY <1>1, Invariance, PTL

\* run_toggles appends one result for each toggle that it applies, before the next
\* one, and a run that ends has one for every toggle of the scenario.
THEOREM OneResultPerToggle == Spec => []ResultPerToggle
<1>1. IInv => ResultPerToggle
  <2> SUFFICES ASSUME IInv PROVE ResultPerToggle
    OBVIOUS
  <2>1. Len(Toggles) \in Nat
    BY TogglesAreNat DEF IInv
  <2> QED
    BY <2>1 DEF IInv, TypeOK, Progress, ResultPerToggle
<1> QED
  BY <1>1, Invariance, PTL

-----------------------------------------------------------------------------
(* The refinement. *)

\* Every step of a run is one that RunPromise admits, or leaves its view alone.
LEMMA StepPromise == IInv /\ [Next]_vars => [Promise!Next]_(Promise!vars)
<1> SUFFICES ASSUME IInv, [Next]_vars PROVE [Promise!Next]_(Promise!vars)
  OBVIOUS
<1> DEFINE Same == UNCHANGED <<phase, up, file, verdict>>
<1>0. file' = file => violated' = violated
  BY DEF violated, Holds, count_spans
<1> USE DEF IInv, Go
<1>1. Same => UNCHANGED Promise!vars
  BY <1>0 DEF Promise!vars
<1>2. CASE Start
  <2>1. CASE pc' = "converging"
    <3>1. phase = "start" /\ phase' = "running" /\ up' = TRUE /\ UNCHANGED <<file, verdict>>
      BY <1>2, <2>1 DEF Start, kept, phase
    <3>2. Promise!Begin
      BY <1>0, <3>1 DEF Promise!Begin
    <3> QED
      BY <3>2 DEF Promise!Next
  <2>2. CASE pc' = "aborted"
    <3>1. /\ phase = "start" /\ phase' = "aborted" /\ up' \in BOOLEAN
          /\ UNCHANGED <<file, verdict>>
      BY <1>2, <2>2 DEF Start, kept, phase
    <3>2. Promise!Abort
      BY <1>0, <3>1 DEF Promise!Abort
    <3> QED
      BY <3>2 DEF Promise!Next
  <2> QED
    BY <1>2, <2>1, <2>2 DEF Start
<1>3. CASE PollConvergence
  <2>1. Same
    BY <1>3 DEF PollConvergence, Poll, TimesOut, AfterConvergence, kept, phase
  <2> QED
    BY <1>1, <2>1
<1>4. CASE Observe
  <2>1. Same
    BY <1>4 DEF Observe, Poll, phase
  <2> QED
    BY <1>1, <2>1
<1>5. CASE AwaitPhase
  <2>1. Same
    BY <1>5 DEF AwaitPhase, Poll, TimesOut, kept, phase
  <2> QED
    BY <1>1, <2>1
<1>6. CASE CountV1 \/ CountV2
  <2>1. Same
    BY <1>6 DEF CountV1, CountV2, Count, kept, phase
  <2> QED
    BY <1>1, <2>1
<1>7. CASE Toggle
  <2>1. CASE pc' = "detecting"
    <3>1. Same
      BY <1>7, <2>1 DEF Toggle, kept, phase
    <3> QED
      BY <1>1, <3>1
  <2>2. CASE pc' = "aborted"
    <3>1. phase = "running" /\ phase' = "aborted" /\ UNCHANGED <<up, file, verdict>>
      BY <1>7, <2>2 DEF Toggle, kept, phase
    <3>2. Promise!Abort
      BY <1>0, <3>1 DEF Promise!Abort
    <3> QED
      BY <3>2 DEF Promise!Next
  <2> QED
    BY <1>7, <2>1, <2>2 DEF Toggle
<1>8. CASE Detect
  <2>1. Same
    BY <1>8 DEF Detect, Poll, TimesOut, phase
  <2> QED
    BY <1>1, <2>1
<1>9. CASE Export
  <2>1. phase = "running" /\ UNCHANGED <<phase, up, verdict>>
    BY <1>9 DEF Export, phase
  <2>2. CASE file' = file
    BY <1>1, <2>1, <2>2
  <2>3. CASE file' # file
    <3>1. (file # NoFile)' = TRUE
      BY <1>9, <2>3 DEF Export, NoFile
    <3>2. violated' \in {Assertions # {}, FALSE}
      BY DEF violated
    <3>3. Promise!Write
      BY <2>1, <3>1, <3>2 DEF Promise!Write
    <3> QED
      BY <3>3 DEF Promise!Next
  <2> QED
    BY <2>2, <2>3
<1>10. CASE Assert
  <2>1. phase = "running" /\ phase' = "done" /\ up' \in BOOLEAN /\ UNCHANGED file
    BY <1>10 DEF Assert, TypeOK, phase
  <2>2. verdict' = "pass" \/ (verdict' = "fail" /\ violated)
    <3>1. Fails => violated
      BY DEF Fails, violated
    <3>2. CASE Fails
      BY <1>10, <3>1, <3>2 DEF Assert
    <3>3. CASE ~Fails
      <4>1. verdict' = "pass"
        BY <1>10, <3>3, Zenon DEF Assert
      <4> QED
        BY <4>1
    <3> QED
      BY <3>2, <3>3
  <2>3. Promise!Finish
    BY <1>0, <2>1, <2>2 DEF Promise!Finish
  <2> QED
    BY <2>3 DEF Promise!Next
<1>11. CASE ClientProbes \/ ClientEmits \/ BatchExported
  <2>1. Same
    BY <1>11 DEF ClientProbes, ClientEmits, BatchExported, kept, phase
  <2> QED
    BY <1>1, <2>1
<1>12. CASE QueryRaises
  <2>1. phase = "running" /\ phase' = "aborted" /\ UNCHANGED <<up, file, verdict>>
    BY <1>12 DEF QueryRaises, Querying, kept, phase
  <2>2. Promise!Abort
    BY <1>0, <2>1 DEF Promise!Abort
  <2> QED
    BY <2>2 DEF Promise!Next
<1>13. CASE UNCHANGED vars
  <2>1. Same
    BY <1>13 DEF vars, kept, phase
  <2> QED
    BY <1>1, <2>1
<1> QED
  BY <1>2, <1>3, <1>4, <1>5, <1>6, <1>7, <1>8, <1>9, <1>10, <1>11, <1>12, <1>13 DEF Next, Runs

\* Every run of run_scenario is one that main may rely on, whatever raises or fails:
\* it ends once, with a verdict or an exception, and its verdict is "fail" only if
\* the spans that it leaves violate one of its assertions.
THEOREM RunKeepsPromise == Spec => PromiseKept
<1>1. Init => Promise!Init
  BY DEF Init, Promise!Init, phase, NoFile, violated
<1> QED
  BY <1>1, StepPromise, Invariance, PTL DEF Spec, PromiseKept, Promise!Spec
-----------------------------------------------------------------------------
(* What the traces hold.  A query returns no more traces than search_depth; as *)
(* long as the client has emitted no more than these, it returns all that      *)
(* Jaeger holds.                                                               *)

\* With a depth that suffices a query returns all that Jaeger holds.
LEMMA DeepQuery ==
  ASSUME TypeOK, MaxSpans <= Depth
  PROVE  /\ Held \in Seq(Span) /\ Len(Held) = exported /\ exported \in Nat
         /\ \A i \in 1..exported : Held[i] = spans[i]
<1>1. /\ spans \in Seq(Span) /\ Len(spans) \in Nat /\ exported \in 0..Len(spans)
      /\ Len(spans) <= MaxSpans /\ MaxSpans \in Nat /\ Depth \in Nat
  BY RunnerAssumption DEF TypeOK
<1>2. Held = SubSeq(spans, 1, exported)
  BY <1>1 DEF Held
<1>3. 1 \in 1..Len(spans) + 1 /\ exported \in 1 - 1..Len(spans)
  BY <1>1
<1>4. /\ SubSeq(spans, 1, exported) \in Seq(Span)
      /\ Len(SubSeq(spans, 1, exported)) = exported
      /\ \A i \in 1..exported : SubSeq(spans, 1, exported)[i] = spans[i]
  BY <1>1, <1>3, SubSeqProperties
<1> QED
  BY <1>1, <1>2, <1>4

\* The answers to queries only grow.
LEMMA HeldGrows ==
  ASSUME IInv, [Next]_vars, MaxSpans <= Depth
  PROVE  /\ Len(Held) <= Len(Held')
         /\ \A i \in 1..Len(Held) : Held'[i] = Held[i]
<1>1. TypeOK /\ TypeOK' /\ Span' = Span
  BY StepIInv, SceneStays DEF IInv
<1>2. /\ Held \in Seq(Span) /\ Len(Held) = exported /\ exported \in Nat
      /\ \A i \in 1..exported : Held[i] = spans[i]
  BY <1>1, DeepQuery
<1>3. (/\ Held \in Seq(Span) /\ Len(Held) = exported /\ exported \in Nat
       /\ \A i \in 1..exported : Held[i] = spans[i])'
  BY <1>1, DeepQuery, PTL
<1>4. exported <= exported' /\ \A i \in 1..exported : spans'[i] = spans[i]
  <2>1. /\ spans \in Seq(Span) /\ Len(spans) \in Nat /\ exported \in 0..Len(spans)
    BY <1>1 DEF TypeOK
  <2>2. CASE UNCHANGED <<spans, exported>>
    BY <2>1, <2>2
  <2>3. CASE ClientEmits
    <3>1. exported' = exported
          /\ \E n \in SpanName : spans' = Append(spans, [name |-> n, shows |-> probed])
      BY <2>3 DEF ClientEmits
    <3> QED
      BY <2>1, <3>1
  <2>4. CASE BatchExported
    BY <2>1, <2>4 DEF BatchExported
  <2> QED
    BY <2>2, <2>3, <2>4 DEF Next, Runs, Start, PollConvergence, Observe, AwaitPhase,
       CountV1, CountV2, Count, Toggle, Detect, Export, QueryRaises, Assert, ClientProbes,
       client, vars
<1> QED
  BY <1>2, <1>3, <1>4

\* A sequence that another begins with has no more spans of a name.
LEMMA CountGrows ==
  ASSUME NEW name, NEW q \in Seq(Span), NEW r \in Seq(Span), Len(q) <= Len(r),
         \A i \in 1..Len(q) : r[i] = q[i]
  PROVE  count_spans(name, q) <= count_spans(name, r)
<1> DEFINE At(s) == {i \in DOMAIN s : s[i].name = name}
<1>1. At(q) \in SUBSET At(r)
  OBVIOUS
<1>2. IsFiniteSet(At(r))
  BY CountType
<1>3. Cardinality(At(q)) <= Cardinality(At(r))
  BY <1>1, <1>2, FS_Subset
<1> QED
  BY <1>3 DEF count_spans

\* What was observed is the beginning of what Jaeger holds.
Observed ==
  Len(observed) <= Len(Held) /\ \A i \in 1..Len(observed) : Held[i] = observed[i]

LEMMA StepObserved ==
  ASSUME MaxSpans <= Depth, IInv, Observed, [Next]_vars
  PROVE  /\ Observed'
         /\ \A i \in DOMAIN observed : \E j \in DOMAIN observed' : observed'[j] = observed[i]
<1>1. /\ Held \in Seq(Span) /\ Held' \in Seq(Span) /\ observed \in Seq(Span)
      /\ Len(Held) <= Len(Held') /\ \A i \in 1..Len(Held) : Held'[i] = Held[i]
  <2>1. TypeOK /\ TypeOK' /\ Span' = Span
    BY StepIInv, SceneStays DEF IInv
  <2>2. Held \in Seq(Span)
    BY <2>1, DeepQuery
  <2>3. (Held \in Seq(Span))'
    BY <2>1, DeepQuery, PTL
  <2> QED
    BY <2>1, <2>2, <2>3, HeldGrows DEF TypeOK
<1>2. CASE observed' = observed
  BY <1>1, <1>2 DEF Observed
<1>3. CASE observed' = Held /\ Held' = Held
  BY <1>1, <1>3 DEF Observed
<1>4. observed' = observed \/ (observed' = Held /\ Held' = Held)
  <2>1. CASE Observe
    <3>1. Held' = Held
      BY <2>1 DEF Observe, client, Held
    <3>2. \A q \in Queried : q = Held \/ q = <<>>
      BY DEF Queried
    <3>3. PICK q \in Queried : observed' = IF q # <<>> THEN q ELSE observed
      BY <2>1 DEF Observe
    <3>4. CASE q # <<>>
      BY <3>1, <3>2, <3>3, <3>4
    <3>5. CASE q = <<>>
      BY <3>3, <3>5
    <3> QED
      BY <3>4, <3>5
  <2> QED
    BY <2>1 DEF Next, Runs, Start, PollConvergence, AwaitPhase, CountV1, CountV2,
       Count, Toggle, Detect, Export, QueryRaises, Assert, ClientProbes, ClientEmits,
       BatchExported, kept, vars
<1> QED
  BY <1>2, <1>3, <1>4

\* accumulate_traces, "latest query has all spans": observing never loses a span
\* that is already collected, while search_depth suffices.
THEOREM ObservingLosesNothing ==
  ASSUME MaxSpans <= Depth
  PROVE  Spec => ObservationGrows
<1>1. Init => Observed
  <2> SUFFICES ASSUME Init PROVE Observed
    OBVIOUS
  <2>1. Held \in Seq(Span) /\ Len(observed) = 0
    <3>1. TypeOK
      BY InitIInv DEF IInv
    <3>2. Len(observed) = 0
      BY DEF Init
    <3> QED
      BY <3>1, <3>2, DeepQuery
  <2> QED
    BY <2>1 DEF Observed
<1>2. IInv /\ Observed /\ [Next]_vars => Observed'
  BY StepObserved
<1>3. IInv /\ Observed /\ [Next]_vars =>
        [\A i \in DOMAIN observed : \E j \in DOMAIN observed' :
           observed'[j] = observed[i]]_vars
  BY StepObserved
<1> QED
  BY <1>1, <1>2, <1>3, Invariance, PTL DEF Spec, ObservationGrows

-----------------------------------------------------------------------------
(* The event by which the last toggle was detected is in the trace. *)

Unobserved == ~Observes /\ "jaeger" \notin scenario.fails

\* There are more spans in q than when the last toggle was applied.
More(q) == \E n \in {Reachability, ReachableAddrs} : count_spans(n, q) > baseline[n]
LastDetected == Len(results) > 0 /\ results[Len(results)]

Traced ==
  Unobserved =>
    /\ Len(observed) = 0 /\ pc # "observing"
    /\ pc \in {"waiting", "exporting"} /\ LastDetected => More(Held)
    /\ pc \in {"asserting", "done"} /\ LastDetected => More(file)

LEMMA BaselineType ==
  ASSUME IInv, NEW n \in {Reachability, ReachableAddrs}
  PROVE  baseline[n] \in Nat
<1>1. baseline[n] \in 0..MaxSpans
  BY DEF IInv, TypeOK
<1> QED
  BY <1>1

LEMMA MoreStays ==
  ASSUME IInv, [Next]_vars, MaxSpans <= Depth, UNCHANGED baseline, More(Held)
  PROVE  More(Held)'
<1>1. Held \in Seq(Span) /\ Held' \in Seq(Span)
  <2>1. TypeOK /\ TypeOK' /\ Span' = Span
    BY StepIInv, SceneStays DEF IInv
  <2>2. Held \in Seq(Span)
    BY <2>1, DeepQuery
  <2>3. (Held \in Seq(Span))'
    BY <2>1, DeepQuery, PTL
  <2> QED
    BY <2>1, <2>2, <2>3
<1>2. PICK n \in {Reachability, ReachableAddrs} : count_spans(n, Held) > baseline[n]
  BY DEF More
<1>3. count_spans(n, Held) <= count_spans(n, Held')
  BY <1>1, HeldGrows, CountGrows
<1>4. count_spans(n, Held) \in Nat /\ count_spans(n, Held') \in Nat /\ baseline[n] \in Nat
  BY <1>1, BaselineType, CountType
<1>5. count_spans(n, Held') > baseline'[n]
  BY <1>2, <1>3, <1>4
<1>6. count_spans(n, Held)' = count_spans(n, Held')
  BY DEF count_spans
<1> QED
  BY <1>5, <1>6 DEF More

LEMMA StepTraced ==
  ASSUME MaxSpans <= Depth, IInv, Traced, [Next]_vars, Unobserved
  PROVE  Traced'
<1> USE DEF IInv
<1>1. /\ Len(observed) = 0 /\ pc # "observing"
      /\ (pc \in {"waiting", "exporting"} /\ LastDetected) => More(Held)
      /\ (pc \in {"asserting", "done"} /\ LastDetected) => More(file)
  BY DEF Traced
<1>2. CASE Start \/ Toggle \/ QueryRaises
  BY <1>1, <1>2 DEF Start, Toggle, QueryRaises, Go, kept, Traced
<1>3. CASE PollConvergence
  <2>1. Len(results') = 0
    BY <1>3 DEF PollConvergence, Poll, TimesOut, Go, kept, TypeOK, Progress
  <2> QED
    BY <1>1, <1>3, <2>1 DEF PollConvergence, Poll, TimesOut, Go, AfterConvergence, kept,
       Traced, LastDetected, Unobserved
<1>4. CASE Observe
  BY <1>1, <1>4 DEF Observe, Poll, Go
<1>5. CASE AwaitPhase
  <2>1. pc = "waiting" /\ pc' \in {"waiting", "exporting", "counting_v1"}
        /\ UNCHANGED <<baseline, observed, results>>
    BY <1>5 DEF AwaitPhase, Poll, TimesOut, Go, kept
  <2> QED
    BY <1>1, <2>1, MoreStays DEF Traced, LastDetected
<1>6. CASE CountV1 \/ CountV2
  BY <1>1, <1>6 DEF CountV1, CountV2, Count, Go, kept, Traced
<1>7. CASE Detect
  <2>1. \A q \in Queried : q = Held
    BY DEF Queried, Unobserved
  <2>2. pc = "detecting" /\ UNCHANGED <<spans, exported, baseline, observed>>
    BY <1>7, Zenon DEF Detect, Poll, TimesOut, Go, client
  <2>3. More(Held)' = More(Held)
    BY <2>2 DEF More, Held, count_spans
  <2>4. pc' = "detecting" \/ (pc' = "waiting" /\ (LastDetected' => More(Held)))
    <3>1. results \in Seq(BOOLEAN)
      BY DEF TypeOK
    <3>2. ASSUME NEW q1 \in Queried, NEW q2 \in Queried, NEW detected \in BOOLEAN,
                 detected <=> \/ count_spans(Reachability, q1) > baseline[Reachability]
                              \/ count_spans(ReachableAddrs, q2) > baseline[ReachableAddrs],
                 Poll("detecting", detected, "waiting")
          PROVE  pc' = "detecting" \/ (pc' = "waiting" /\ More(Held))
      <4>1. CASE detected
        <5>1. pc' = "waiting"
          BY <3>2, <4>1 DEF Poll, Go
        <5>2. q1 = Held /\ q2 = Held
          BY <2>1
        <5> QED
          BY <3>2, <4>1, <5>1, <5>2 DEF More
      <4>2. CASE ~detected
        BY <2>2, <3>2, <4>2 DEF Poll
      <4> QED
        BY <4>1, <4>2
    <3>3. ASSUME TimesOut("detecting", "waiting"), results' = Append(results, FALSE)
          PROVE  pc' = "waiting" /\ ~LastDetected'
      <4>1. Len(Append(results, FALSE)) > 0
            /\ Append(results, FALSE)[Len(Append(results, FALSE))] = FALSE
        BY <3>1
      <4> QED
        BY <3>3, <4>1 DEF TimesOut, Go, LastDetected
    <3> QED
      BY <1>7, <3>2, <3>3, Zenon DEF Detect
  <2> QED
    BY <1>1, <2>2, <2>3, <2>4 DEF Traced
<1>8. CASE Export
  <2>1. pc = "exporting" /\ pc' = "asserting" /\ UNCHANGED <<baseline, results, observed>>
    BY <1>8 DEF Export, Go
  <2>2. file' = IF Held # <<>> THEN Held ELSE file
    <3>1. \A q \in Queried : q = Held
      BY DEF Queried, Unobserved
    <3>2. observed = <<>>
      BY <1>1 DEF TypeOK
    <3> QED
      BY <1>8, <3>1, <3>2 DEF Export
  <2>3. ASSUME LastDetected, More(Held) PROVE More(file)'
    <3>1. PICK n \in {Reachability, ReachableAddrs} : count_spans(n, Held) > baseline[n]
      BY <2>3 DEF More
    <3>2. Held \in Seq(Span) /\ count_spans(n, Held) \in Nat /\ baseline[n] \in Nat
          /\ count_spans(n, Held) <= Len(Held)
      BY DeepQuery, BaselineType, CountType
    <3>3. Held # <<>>
      BY <3>1, <3>2
    <3>4. file' = Held
      BY <2>2, <3>3
    <3>5. count_spans(n, file)' = count_spans(n, Held)
      BY <3>4 DEF count_spans
    <3> QED
      BY <2>1, <3>1, <3>5 DEF More
  <2> QED
    BY <1>1, <2>1, <2>3 DEF Traced, LastDetected
<1>9. CASE Assert
  <2>1. More(file)' = More(file) /\ LastDetected' = LastDetected
    BY <1>9 DEF Assert, More, count_spans, LastDetected
  <2> QED
    BY <1>1, <1>9, <2>1 DEF Assert, Go, Traced
<1>10. CASE ClientProbes \/ ClientEmits \/ BatchExported \/ UNCHANGED vars
  <2>1. UNCHANGED <<pc, baseline, results, observed, file>>
    BY <1>10 DEF ClientProbes, ClientEmits, BatchExported, kept, vars
  <2>2. More(file)' = More(file) /\ LastDetected' = LastDetected
    BY <2>1 DEF More, count_spans, LastDetected
  <2> QED
    BY <1>1, <2>1, <2>2, MoreStays DEF Traced
<1> QED
  BY <1>2, <1>3, <1>4, <1>5, <1>6, <1>7, <1>8, <1>9, <1>10 DEF Next, Runs

\* "TTU ... extracted from the same trace data" (run_toggles, export_traces): where
\* no observation fixes the trace first, Jaeger answers and search_depth suffices,
\* the event by which the last toggle was detected is in the trace that is kept.
THEOREM DetectedIsKept ==
  ASSUME MaxSpans <= Depth
  PROVE  Spec => []DetectedIsInTrace
<1>1. Init => Traced
  <2> SUFFICES ASSUME Init, Unobserved PROVE Traced
    BY DEF Traced
  <2>1. Len(observed) = 0 /\ pc = "start"
    BY DEF Init
  <2> QED
    BY <2>1 DEF Traced
<1>2. IInv /\ Traced /\ [Next]_vars => Traced'
  <2> SUFFICES ASSUME IInv, Traced, [Next]_vars, Unobserved' PROVE Traced'
    BY DEF Traced
  <2>1. Unobserved
    BY SceneStays DEF Unobserved, Observes
  <2> QED
    BY <2>1, StepTraced
<1>3. IInv /\ Traced => DetectedIsInTrace
  <2> SUFFICES ASSUME IInv, Traced, Unobserved, pc = "done", results # <<>>,
                      results[Len(results)]
               PROVE  More(file)
    BY DEF DetectedIsInTrace, ToggleIsInTrace, Unobserved, More
  <2>1. Len(results) > 0
    BY DEF IInv, TypeOK
  <2> QED
    BY <2>1 DEF Traced, LastDetected
<1> QED
  BY <1>1, <1>2, <1>3, Invariance, PTL DEF Spec
=============================================================================
