---------------------------- MODULE ResultsProofs ----------------------------
(***************************************************************************)
(* Invariance proofs about the figures and rates, for any plan of runs in   *)
(* the manner of the scenario files, with any latencies, losses, server     *)
(* counts and outcomes.                                                     *)
(***************************************************************************)
EXTENDS Results, FiniteSetTheorems, SequenceTheorems, TLAPS

-----------------------------------------------------------------------------
(* Labels. *)

LEMMA NatPart ==
  /\ NatParts["none"] = <<<<"none">>>> /\ NatParts["symmetric"] = <<<<"symmetric">>>>
  /\ NatParts["full-cone"] = <<<<"full">>, <<"cone">>>>
  /\ NatParts["address-restricted"] = <<<<"address">>, <<"restricted">>>>
  /\ NatParts["port-restricted"] = <<<<"port">>, <<"restricted">>>>
BY DEF NatParts, NatTypes

\* The first part of a label tells the NAT type and where the transport is.
LEMMA NatTold ==
  ASSUME NEW n \in NatTypes
  PROVE  LET N == NatParts[n] IN
         /\ N \in Seq({N[1], N[2]})
         /\ Len(N) = IF N[1][1] \in {"none", "symmetric"} THEN 1 ELSE 2
         /\ \A m \in NatTypes : NatParts[m][1] = N[1] => m = n
<1> DEFINE N == NatParts[n]
<1>1. N \in Seq({N[1], N[2]}) /\ Len(N) = IF N[1][1] \in {"none", "symmetric"} THEN 1 ELSE 2
  <2>1. \/ \E x : N = <<x>> /\ x[1] \in {"none", "symmetric"}
        \/ \E x, y : N = <<x, y>> /\ x[1] \notin {"none", "symmetric"}
    BY NatPart DEF NatTypes
  <2> HIDE DEF N
  <2>2. ASSUME NEW x, N = <<x>> PROVE N \in Seq({N[1], N[2]}) /\ Len(N) = 1 /\ N[1] = x
    BY <2>2
  <2>3. ASSUME NEW x, NEW y, N = <<x, y>>
        PROVE  N \in Seq({N[1], N[2]}) /\ Len(N) = 2 /\ N[1] = x
    BY <2>3
  <2> QED BY <2>1, <2>2, <2>3
<1>2. ASSUME NEW m \in NatTypes, NatParts[m][1] = N[1] PROVE m = n
  BY <1>2, NatPart DEF NatTypes
<1> QED
  BY <1>1, <1>2

\* What two lists that are put together have.
Joins(r, p, q) ==
  /\ Len(r) = Len(p) + Len(q)
  /\ \A i \in 1..Len(p) + Len(q) : r[i] = IF i <= Len(p) THEN p[i] ELSE q[i - Len(p)]

LEMMA Joined ==
  ASSUME NEW S, NEW p \in Seq(S), NEW q \in Seq(S), NEW r, r = p \o q
  PROVE  r \in Seq(S) /\ Joins(r, p, q)
<1>1. /\ p \o q \in Seq(S) /\ Len(p \o q) = Len(p) + Len(q)
      /\ \A i \in 1..Len(p) + Len(q) :
           (p \o q)[i] = IF i <= Len(p) THEN p[i] ELSE q[i - Len(p)]
  BY ONLY p \in Seq(S), q \in Seq(S), ConcatProperties, Zenon
<1> QED
  BY <1>1, Zenon DEF Joins

\* The label of a sweep's run, part by part.
LEMMA Label ==
  ASSUME NEW run, SweepRun(run)
  PROVE  LET s == run.scenario
             N == NatParts[s.nat_type]
             L == build_run_label(s, run.run_num)
             n == Len(N)
         IN  /\ \E S : L \in Seq(S)
             /\ L[1] = N[1] /\ L[n + 1] = <<s.transport>> /\ L[n + 2] = <<"servers", s.server_count>>
             /\ IF s.packet_loss = 0
                THEN Len(L) = n + 3 /\ L[n + 3] = <<"lat", s.latency_ms>>
                ELSE /\ Len(L) = n + 4 /\ L[n + 3] = <<"loss", s.packet_loss>>
                     /\ L[n + 4] = <<"lat", s.latency_ms>>
             /\ n \in 1..2 /\ \A i \in 1..n : L[i] = N[i]
             /\ L = Expected(s.nat_type, s.transport, s.server_count, s.packet_loss, s.latency_ms)
<1> DEFINE s == run.scenario
           N == NatParts[s.nat_type]
           L == build_run_label(s, run.run_num)
           n == Len(N)
           a == <<s.transport>>
           b == <<"servers", s.server_count>>
           c == <<"loss", s.packet_loss>>
           d == <<"lat", s.latency_ms>>
           S == {N[1], N[2], a, b, c, d}
           C == IF s.packet_loss # 0 THEN <<c>> ELSE <<>>
           r1 == N \o <<a, b>>
           r2 == r1 \o <<>>
           r3 == r2 \o C
           r4 == r3 \o <<d>>
           r5 == r4 \o <<>>
<1>0. /\ s.name = <<>> /\ s.client_impl = "go" /\ s.runs = 1 /\ HasMock(s) = FALSE
      /\ s.nat_type \in NatTypes /\ s.latency_ms # 0
  BY DEF SweepRun, HasMock
<1>1. L = r5
  <2>1. /\ (IF s.name # <<>> THEN s.name ELSE Unnamed(s)) = Unnamed(s)
        /\ (IF s.client_impl # "go" THEN <<<<s.client_impl>>>> ELSE <<>>) = <<>>
        /\ (IF s.latency_ms # 0 THEN <<d>> ELSE <<>>) = <<d>>
        /\ (IF s.runs > 1 THEN <<<<"run", run.run_num>>>> ELSE <<>>) = <<>>
    <3> HIDE DEF s, d
    <3> QED BY <1>0
  <2>2. Unnamed(s) = r1
    BY <1>0, Zenon DEF Unnamed
  <2> QED BY <2>1, <2>2, Zenon DEF build_run_label
<1>2. N \in Seq(S) /\ n \in 1..2
  <2>1. N \in Seq({N[1], N[2]}) /\ n \in 1..2
    <3>1. N \in Seq({N[1], N[2]}) /\ Len(N) = IF N[1][1] \in {"none", "symmetric"} THEN 1 ELSE 2
      BY <1>0, NatTold, Zenon
    <3> HIDE DEF N
    <3> QED BY <3>1
  <2>2. {N[1], N[2]} \subseteq S
    OBVIOUS
  <2> HIDE DEF N, S
  <2> QED BY <2>1, <2>2
<1>3. /\ <<a, b>> \in Seq(S) /\ Len(<<a, b>>) = 2 /\ <<a, b>>[1] = a /\ <<a, b>>[2] = b
      /\ <<c>> \in Seq(S) /\ Len(<<c>>) = 1 /\ <<c>>[1] = c
      /\ <<d>> \in Seq(S) /\ Len(<<d>>) = 1 /\ <<d>>[1] = d
      /\ <<>> \in Seq(S) /\ Len(<<>>) = 0
  <2> HIDE DEF N, a, b, c, d
  <2> QED OBVIOUS
<1> DEFINE ab == <<a, b>>
           dd == <<d>>
           e == <<>>
<1>4. /\ C \in Seq(S) /\ Len(C) = (IF s.packet_loss = 0 THEN 0 ELSE 1)
      /\ s.packet_loss # 0 => C[1] = c
  BY <1>3
<1>5. r1 = N \o ab /\ r2 = r1 \o e /\ r3 = r2 \o C /\ r4 = r3 \o dd /\ r5 = r4 \o e
  OBVIOUS
<1>6. /\ ab \in Seq(S) /\ Len(ab) = 2 /\ ab[1] = a /\ ab[2] = b
      /\ dd \in Seq(S) /\ Len(dd) = 1 /\ dd[1] = d /\ e \in Seq(S) /\ Len(e) = 0
  BY <1>3
<1>16. Expected(s.nat_type, s.transport, s.server_count, s.packet_loss, s.latency_ms)
         = (r1 \o C) \o dd
  <2>1. C = IF s.packet_loss = 0 THEN <<>> ELSE <<c>>
    OBVIOUS
  <2> QED BY <2>1, Zenon DEF Expected
<1> HIDE DEF L, N, a, b, c, d, S, C, r1, r2, r3, r4, r5, ab, dd, e
<1>7. r1 \in Seq(S) /\ Joins(r1, N, ab)
  BY ONLY <1>2, <1>5, <1>6, Joined, Zenon
<1>8. r2 = r1
  BY ONLY <1>5, <1>7, ConcatEmptySeq, Zenon DEF e
<1>9. r3 \in Seq(S) /\ Joins(r3, r1, C)
  BY ONLY <1>4, <1>5, <1>7, <1>8, Joined, Zenon
<1>10. r4 \in Seq(S) /\ Joins(r4, r3, dd)
  BY ONLY <1>5, <1>6, <1>9, Joined, Zenon
<1>11. L = r4
  BY ONLY <1>1, <1>5, <1>10, ConcatEmptySeq, Zenon DEF e
<1>12. /\ n \in 1..2 /\ Len(r4) = n + 3 + Len(C) /\ \A i \in 1..n : r4[i] = N[i]
       /\ r4[n + 1] = a /\ r4[n + 2] = b /\ r4[n + Len(C) + 3] = d
       /\ s.packet_loss # 0 => Len(C) = 1 /\ r4[n + 3] = c
       /\ s.packet_loss = 0 => Len(C) = 0
  <2>1. n \in 1..2 /\ Len(C) \in 0..1
    BY <1>2, <1>4
  <2>2. /\ Len(r1) = n + 2 /\ \A i \in 1..n : r1[i] = N[i]
        /\ r1[n + 1] = a /\ r1[n + 2] = b
    BY ONLY <1>6, <1>7, <2>1 DEF Joins, n
  <2>3. /\ Len(r3) = n + 2 + Len(C) /\ \A i \in 1..n : r3[i] = N[i]
        /\ r3[n + 1] = a /\ r3[n + 2] = b /\ (Len(C) = 1 => r3[n + 3] = C[1])
    BY ONLY <1>9, <2>1, <2>2 DEF Joins
  <2>4. /\ Len(r4) = n + 3 + Len(C) /\ \A i \in 1..n : r4[i] = N[i]
        /\ r4[n + 1] = a /\ r4[n + 2] = b /\ (Len(C) = 1 => r4[n + 3] = C[1])
        /\ r4[n + Len(C) + 3] = d
    BY ONLY <1>6, <1>10, <2>1, <2>3 DEF Joins
  <2> QED BY <1>4, <2>1, <2>4
<1>13. L \in Seq(S)
  BY <1>10, <1>11
<1>14. IF s.packet_loss = 0 THEN Len(L) = n + 3 /\ L[n + 3] = d
       ELSE Len(L) = n + 4 /\ L[n + 3] = c /\ L[n + 4] = d
  <2>1. /\ n + 0 + 3 = n + 3 /\ n + 1 + 3 = n + 4 /\ n + 3 + 0 = n + 3 /\ n + 3 + 1 = n + 4
    BY <1>12
  <2> QED BY ONLY <1>11, <1>12, <2>1, Zenon
<1>15. /\ n \in 1..2 /\ L[1] = N[1] /\ L[n + 1] = a /\ L[n + 2] = b
       /\ \A i \in 1..n : L[i] = N[i]
  BY ONLY <1>11, <1>12
<1>17. L = Expected(s.nat_type, s.transport, s.server_count, s.packet_loss, s.latency_ms)
  BY ONLY <1>5, <1>8, <1>11, <1>16, Zenon
<1> QED
  BY <1>13, <1>14, <1>15, <1>17, Zenon DEF a, b, c, d, L, N, n

LEMMA MaxOfOne == ASSUME NEW n \in Int PROVE Max({n}) = n
BY DEF Max

\* What generate_figures.py reads off a sweep's file name is what run.py wrote.
LEMMA Roundtrip ==
  ASSUME NEW run, SweepRun(run)
  PROVE  LET s == run.scenario
             L == build_run_label(s, run.run_num)
             p == parse_scenario_name(L)
         IN  /\ p.nat = s.nat_type /\ p.transport = s.transport /\ p.latency_ms = s.latency_ms
             /\ p.loss_pct = IF s.packet_loss = 0 THEN None ELSE s.packet_loss
             /\ \A m \in 3..7 : <<"servers", m>> \in ToSet(L) <=> m = s.server_count
<1> DEFINE s == run.scenario
           N == NatParts[s.nat_type]
           L == build_run_label(s, run.run_num)
           n == Len(N)
           types == {t \in NatTypes : NatParts[t][1] = L[1]}
           rest == IF L[1][1] \in {"none", "symmetric"} THEN 2 ELSE 3
           lat == {i \in DOMAIN L : i > rest /\ L[i][1] = "lat"}
           loss == {i \in DOMAIN L : i > rest /\ L[i][1] = "loss"}
           Extra(found) == IF found = {} THEN None ELSE L[Max(found)][2]
<1>1. /\ \E S : L \in Seq(S)
      /\ L[1] = N[1] /\ L[n + 1] = <<s.transport>> /\ L[n + 2] = <<"servers", s.server_count>>
      /\ IF s.packet_loss = 0
         THEN Len(L) = n + 3 /\ L[n + 3] = <<"lat", s.latency_ms>>
         ELSE /\ Len(L) = n + 4 /\ L[n + 3] = <<"loss", s.packet_loss>>
              /\ L[n + 4] = <<"lat", s.latency_ms>>
      /\ n \in 1..2 /\ \A i \in 1..n : L[i] = N[i]
  BY Label, Zenon
<1>2. s.nat_type \in NatTypes /\ s.packet_loss \in Nat
  BY DEF SweepRun
<1>3. /\ n = IF N[1][1] \in {"none", "symmetric"} THEN 1 ELSE 2
      /\ \A t \in NatTypes : NatParts[t][1] = N[1] => t = s.nat_type
  BY <1>2, NatTold, Zenon
<1>4. types = {s.nat_type}
  BY <1>1, <1>2, <1>3, Zenon
<1>5. rest = n + 1
  <2> HIDE DEF N, L
  <2> QED BY <1>1, <1>3
<1>6. DOMAIN L = 1..Len(L)
  <2> HIDE DEF L
  <2> QED BY <1>1
<1>7. /\ lat = {Len(L)} /\ L[Len(L)][2] = s.latency_ms
      /\ loss = IF s.packet_loss = 0 THEN {} ELSE {n + 3}
      /\ s.packet_loss # 0 => L[n + 3][2] = s.packet_loss
  <2> HIDE DEF L, N, rest
  <2>1. CASE s.packet_loss = 0
    <3>1. /\ DOMAIN L = 1..n + 3
          /\ L[n + 2][1] = "servers" /\ L[n + 3][1] = "lat" /\ L[n + 3][2] = s.latency_ms
      BY <1>1, <1>6, <2>1
    <3> QED BY ONLY <1>1, <1>5, <2>1, <3>1
  <2>2. CASE s.packet_loss # 0
    <3>1. /\ DOMAIN L = 1..n + 4
          /\ L[n + 2][1] = "servers" /\ L[n + 3][1] = "loss" /\ L[n + 3][2] = s.packet_loss
          /\ L[n + 4][1] = "lat" /\ L[n + 4][2] = s.latency_ms
      BY <1>1, <1>6, <2>2
    <3> QED BY ONLY <1>1, <1>5, <2>2, <3>1
  <2> QED BY <2>1, <2>2
<1>8. Extra(lat) = s.latency_ms /\ Extra(loss) = IF s.packet_loss = 0 THEN None ELSE s.packet_loss
  <2>1. Len(L) \in Int /\ n + 3 \in Int
    <3> HIDE DEF L, N
    <3> QED BY <1>1
  <2> HIDE DEF L, N, lat, loss
  <2> QED BY <1>7, <2>1, MaxOfOne
<1>9. L[rest][1] = s.transport
  <2> HIDE DEF L, N, rest
  <2> QED BY <1>1, <1>5
<1>10. parse_scenario_name(L) =
         [nat |-> CHOOSE t \in types : TRUE, transport |-> L[rest][1],
          latency_ms |-> Extra(lat), loss_pct |-> Extra(loss)]
  <2>1. types # {}
    BY <1>4
  <2> QED BY <2>1, Zenon DEF parse_scenario_name
<1>11. ASSUME NEW m \in 3..7 PROVE <<"servers", m>> \in ToSet(L) <=> m = s.server_count
  <2>1. N[1][1] # "servers" /\ (n = 2 => N[2][1] # "servers")
    BY <1>2, NatPart DEF NatTypes
  <2>2. ToSet(L) = {L[i] : i \in 1..Len(L)}
    BY <1>6 DEF ToSet
  <2> HIDE DEF L, N
  <2>3. ASSUME NEW i \in 1..Len(L), L[i] = <<"servers", m>> PROVE m = s.server_count
    <3>1. CASE i <= n
      <4>1. L[i] = N[i] /\ (i = 1 \/ (i = 2 /\ n = 2))
        BY <1>1, <3>1
      <4>2. <<"servers", m>>[1] = "servers"
        OBVIOUS
      <4> QED BY <2>1, <2>3, <4>1, <4>2
    <3>2. CASE i = n + 1
      <4>1. Len(<<s.transport>>) # Len(<<"servers", m>>)
        OBVIOUS
      <4> QED BY ONLY <1>1, <2>3, <3>2, <4>1
    <3>3. CASE i = n + 2
      BY <1>1, <2>3, <3>3
    <3>4. CASE i > n + 2
      <4>1. i = n + 3 \/ i = n + 4
        BY <1>1, <3>4
      <4>2. L[i][1] \in {"loss", "lat"}
        BY <1>1, <4>1
      <4> QED BY <2>3, <4>2
    <3> QED BY <1>1, <3>1, <3>2, <3>3, <3>4
  <2>4. n + 2 \in 1..Len(L)
    BY <1>1
  <2> QED BY <1>1, <2>2, <2>3, <2>4
<1> QED
  <2> HIDE DEF L, types, rest, Extra, lat, loss
  <2> QED BY <1>4, <1>8, <1>9, <1>10, <1>11 DEF L
-----------------------------------------------------------------------------
(* What is on the disk. *)

Outcomes == UNION {plan[k].outcomes : k \in DOMAIN plan}

SavedInv ==
  /\ plan \in Plans
  /\ saved \in Seq(Outcomes) /\ Len(saved) <= Len(plan)
  /\ \A k \in DOMAIN saved : saved[k] \in plan[k].outcomes

\* A run that had spans has them in its file, and there are no other traces.
OnDisk ==
  /\ \A k \in DOMAIN saved : saved[k].spans # <<>> =>
       /\ File(plan[k], "json") \in DOMAIN disk
       /\ disk[File(plan[k], "json")] = saved[k].spans
  /\ \A f \in DOMAIN disk : f[3] = "json" =>
       \E k \in DOMAIN saved : f = File(plan[k], "json") /\ saved[k].spans # <<>>

LEMMA LeftFiles ==
  ASSUME NEW run, NEW outcome
  PROVE  /\ \A f \in Left(run, outcome) : f = File(run, f[3])
         /\ File(run, "json") \in Left(run, outcome) <=> outcome.spans # <<>>
<1>1. \A kind : File(run, kind)[3] = kind
  BY DEF File
<1> DEFINE kinds == {k \in {"json"} : outcome.spans # <<>>}
                    \cup {k \in {"toggles.json"} : outcome.toggles # <<>>}
                    \cup {k \in {"assertions.json"} :
                            /\ run.scenario.assertions # None
                            /\ outcome.spans # <<>> \/ File(run, "json") \in DOMAIN disk}
<1>2. Left(run, outcome) = {File(run, kind) : kind \in kinds}
  BY Zenon DEF Left
<1>3. "json" \in kinds <=> outcome.spans # <<>>
  OBVIOUS
<1> HIDE DEF kinds
<1> QED
  BY <1>1, <1>2, <1>3

LEMMA StepOnDisk ==
  AsWritten(Plans) /\ SavedInv /\ OnDisk /\ [Save]_vars => SavedInv' /\ OnDisk'
<1> SUFFICES ASSUME AsWritten(Plans), SavedInv, OnDisk, [Save]_vars
             PROVE  SavedInv' /\ OnDisk'
  OBVIOUS
<1>1. CASE UNCHANGED vars
  BY <1>1 DEF vars, SavedInv, OnDisk, Outcomes
<1>2. CASE Save
  <2> DEFINE n == Len(saved) + 1
             run == plan[n]
  <2>1. IsList(plan) /\ \A j, k \in DOMAIN plan : File(plan[j], "json") = File(plan[k], "json") => j = k
    BY Zenon DEF AsWritten, SavedInv
  <2>2. PICK outcome \in run.outcomes :
          /\ disk' = [f \in DOMAIN disk \cup Left(run, outcome) |->
                       IF f \in Left(run, outcome) THEN Content(outcome, f[3]) ELSE disk[f]]
          /\ saved' = Append(saved, outcome)
    BY <1>2, Zenon DEF Save
  <2>3. plan' = plan /\ Outcomes' = Outcomes /\ Len(saved) < Len(plan)
    BY <1>2 DEF Save, Outcomes
  <2>4. /\ DOMAIN plan = 1..Len(plan) /\ Len(plan) \in Nat
        /\ DOMAIN saved = 1..Len(saved) /\ Len(saved) \in Nat
    BY <2>1 DEF IsList, SavedInv
  <2>5. n \in DOMAIN plan /\ n \notin DOMAIN saved /\ DOMAIN saved \subseteq DOMAIN plan
    BY <2>3, <2>4
  <2>6. /\ saved' \in Seq(Outcomes) /\ Len(saved') = n /\ DOMAIN saved' = DOMAIN saved \cup {n}
        /\ saved'[n] = outcome /\ \A k \in DOMAIN saved : saved'[k] = saved[k]
    <3>1. outcome \in Outcomes
      BY <2>2, <2>5 DEF Outcomes
    <3>2. saved \in Seq(Outcomes)
      BY DEF SavedInv
    <3> QED BY <2>2, <2>4, <3>1, <3>2
  <2> HIDE DEF n, run
  <2>7. SavedInv'
    <3>1. n <= Len(plan)
      BY <2>4, <2>5
    <3> QED BY <2>2, <2>3, <2>6, <3>1 DEF SavedInv, run
  <2>8. \A k \in DOMAIN saved : File(plan[k], "json") \notin Left(run, outcome)
    <3> SUFFICES ASSUME NEW k \in DOMAIN saved, File(plan[k], "json") \in Left(run, outcome)
                 PROVE  FALSE
      OBVIOUS
    <3>1. File(plan[k], "json")[3] = "json"
      BY DEF File
    <3>2. File(plan[k], "json") = File(plan[n], "json")
      BY <3>1, LeftFiles DEF run
    <3> QED BY <2>1, <2>5, <3>2
  <2>9. ASSUME NEW k \in DOMAIN saved', saved'[k].spans # <<>>
        PROVE  /\ File(plan[k], "json") \in DOMAIN disk'
               /\ disk'[File(plan[k], "json")] = saved'[k].spans
    <3>1. CASE k = n
      <4>1. File(run, "json") \in Left(run, outcome)
        BY <2>6, <2>9, <3>1, LeftFiles
      <4>2. Content(outcome, File(run, "json")[3]) = outcome.spans
        BY DEF File, Content
      <4> QED BY <2>2, <2>6, <3>1, <4>1, <4>2 DEF run
    <3>2. CASE k \in DOMAIN saved
      BY <2>2, <2>6, <2>8, <2>9, <3>2 DEF OnDisk
    <3> QED BY <2>6, <3>1, <3>2
  <2>10. ASSUME NEW f \in DOMAIN disk', f[3] = "json"
         PROVE  \E k \in DOMAIN saved' : f = File(plan[k], "json") /\ saved'[k].spans # <<>>
    <3>1. CASE f \in Left(run, outcome)
      <4>1. f = File(plan[n], "json") /\ outcome.spans # <<>>
        BY <2>10, <3>1, LeftFiles DEF run
      <4> QED BY <2>6, <4>1
    <3>2. CASE f \in DOMAIN disk
      BY <2>6, <2>10, <3>2 DEF OnDisk
    <3> QED BY <2>2, <3>1, <3>2
  <2> QED BY <2>3, <2>7, <2>9, <2>10 DEF OnDisk
<1> QED
  BY <1>1, <1>2

LEMMA OnDiskInvariant == AsWritten(Plans) => (Spec => [](SavedInv /\ OnDisk))
<1> SUFFICES ASSUME AsWritten(Plans) PROVE Spec => [](SavedInv /\ OnDisk)
  OBVIOUS
<1>1. Init => SavedInv /\ OnDisk
  <2> SUFFICES ASSUME Init PROVE SavedInv /\ OnDisk
    OBVIOUS
  <2>1. IsList(plan)
    BY Zenon DEF Init, AsWritten
  <2> QED BY <2>1 DEF Init, SavedInv, OnDisk, IsList
<1>2. SavedInv /\ OnDisk /\ [Save]_vars => SavedInv' /\ OnDisk'
  BY StepOnDisk
<1> QED
  BY <1>1, <1>2, PTL DEF Spec
\* The traces of a directory are those of its runs that had spans.
LEMMA Traces ==
  ASSUME AsWritten(Plans), SavedInv, OnDisk, NEW dir
  PROVE  /\ Files(dir, {"json"}) = {File(plan[k], "json") : k \in Runs(dir)}
         /\ Runs(dir) \subseteq DOMAIN saved /\ IsFiniteSet(DOMAIN saved)
         /\ DOMAIN saved \subseteq DOMAIN plan
<1>1. DOMAIN saved = 1..Len(saved) /\ Len(saved) \in Nat /\ DOMAIN saved \subseteq DOMAIN plan
  <2>1. IsList(plan)
    BY Zenon DEF AsWritten, SavedInv
  <2> QED BY <2>1 DEF SavedInv, IsList
<1>2. IsFiniteSet(DOMAIN saved)
  BY <1>1, FS_Interval
<1>3. \A k : File(plan[k], "json")[1] = plan[k].dir /\ File(plan[k], "json")[3] = "json"
  BY DEF File
<1> QED
  BY <1>1, <1>2, <1>3 DEF Files, Runs, OnDisk

\* Each trace is of one run, and what is read from it are the run's spans.
LEMMA OwnTraces ==
  ASSUME AsWritten(Plans), SavedInv, OnDisk
  PROVE  /\ \A j, k \in DOMAIN saved :
              File(plan[j], "json") = File(plan[k], "json") => j = k
         /\ \A k \in DOMAIN saved : saved[k].spans # <<>> =>
              /\ File(plan[k], "json") \in DOMAIN disk
              /\ disk[File(plan[k], "json")] = saved[k].spans
              /\ parse_spans(File(plan[k], "json")) = Plain(saved[k].spans)
<1>1. \A j, k \in DOMAIN plan : File(plan[j], "json") = File(plan[k], "json") => j = k
  BY Zenon DEF AsWritten, SavedInv
<1> QED
  BY <1>1, Traces DEF OnDisk, parse_spans, Plain

\* A sweep's run with seven servers is in the file that the figures expect.
LEMMA Seven ==
  ASSUME AsWritten(Plans), SavedInv, OnDisk,
         NEW d \in Sweeps, NEW k \in Sevens(d)
  PROVE  LET s == Scene(k) IN
         /\ k \in DOMAIN saved /\ saved[k].spans # <<>> /\ plan[k].dir = d
         /\ SweepRun(plan[k]) /\ s.server_count = 7
         /\ File(plan[k], "json") =
              <<d, Expected(s.nat_type, s.transport, 7, s.packet_loss, s.latency_ms), "json">>
<1>1. k \in Runs(d) /\ Scene(k).server_count = 7
  BY DEF Sevens, Scene
<1>2. k \in DOMAIN saved /\ saved[k].spans # <<>> /\ plan[k].dir = d /\ k \in DOMAIN plan
  BY <1>1, Traces DEF Runs
<1>3. SweepRun(plan[k])
  BY <1>2, Zenon DEF AsWritten, SavedInv
<1> QED
  BY <1>1, <1>2, <1>3, Label, Zenon DEF Scene, File

\* fig_latency_impact, fig_packet_loss_impact, fig_convergence_heatmap: whatever
\* the latencies, losses and times, each run of the sweeps that has seven servers
\* and left a trace is the point and the cell at its own conditions.
THEOREM RunsArePoints == AsWritten(Plans) => (Spec => []PointsAreRuns)
<1> SUFFICES ASSUME AsWritten(Plans) PROVE Spec => []PointsAreRuns
  OBVIOUS
<1>1. SavedInv /\ OnDisk => PointsAreRuns
  <2> SUFFICES ASSUME SavedInv, OnDisk, NEW d \in Sweeps, NEW k \in Sevens(d)
               PROVE  LET s == Scene(k)
                          ms == first_convergence_ms(Plain(saved[k].spans))
                      IN /\ IF s.packet_loss = 0
                            THEN LatencyPoint(s.nat_type, s.transport, s.latency_ms) = ms
                            ELSE LossPoint(s.nat_type, s.transport, s.packet_loss) = ms
                         /\ HeatmapCell(s.nat_type, s.transport, s.packet_loss, s.latency_ms)
                              = IF ms = None THEN 0 ELSE ms
    BY Zenon DEF PointsAreRuns, Sweeps
  <2> DEFINE s == Scene(k)
             ms == first_convergence_ms(Plain(saved[k].spans))
             f == <<d, Expected(s.nat_type, s.transport, 7, s.packet_loss, s.latency_ms), "json">>
  <2>1. SweepRun(plan[k]) /\ plan[k].dir = d /\ f = File(plan[k], "json")
        /\ k \in DOMAIN saved /\ saved[k].spans # <<>>
    BY Seven, Zenon
  <2>2. Convergence(f) = ms
    BY <2>1, OwnTraces, Zenon DEF Convergence
  <2>3. /\ s.packet_loss # 0 <=> d = PacketLoss
        /\ s.latency_ms # 10 <=> d = HighLatency
        /\ d \in {FullMatrix, HighLatency, PacketLoss} /\ PacketLoss # HighLatency
    BY <2>1 DEF SweepRun, Scene, Sweeps, PacketLoss, HighLatency
  <2>4. CASE s.packet_loss = 0
    <3>1. f = <<IF s.latency_ms = 10 THEN FullMatrix ELSE HighLatency,
                Expected(s.nat_type, s.transport, 7, 0, s.latency_ms), "json">>
      BY <2>3, <2>4, Zenon
    <3>2. LatencyPoint(s.nat_type, s.transport, s.latency_ms) = ms
      BY <2>2, <3>1, Zenon DEF LatencyPoint
    <3> QED BY <2>4, <3>2, Zenon DEF HeatmapCell
  <2>5. CASE s.packet_loss # 0
    <3>1. f = <<PacketLoss, Expected(s.nat_type, s.transport, 7, s.packet_loss, 10), "json">>
      BY <2>3, <2>5, Zenon
    <3>2. LossPoint(s.nat_type, s.transport, s.packet_loss) = ms
      BY <2>2, <2>5, <3>1, Zenon DEF LossPoint
    <3> QED BY <2>5, <3>2, Zenon DEF HeatmapCell
  <2> QED BY <2>4, <2>5
<1> QED
  BY <1>1, OnDiskInvariant, PTL
-----------------------------------------------------------------------------
(* The figures of the full matrix. *)

LEMMA ServersRead ==
  ASSUME NEW run, SweepRun(run)
  PROVE  ServersOf(File(run, "json")) = run.scenario.server_count
<1>1. \A n \in 3..7 : <<"servers", n>> \in ToSet(build_run_label(run.scenario, run.run_num))
                         <=> n = run.scenario.server_count
  BY Roundtrip, Zenon
<1>2. run.scenario.server_count \in 3..7
  BY DEF SweepRun
<1>3. File(run, "json")[2] = build_run_label(run.scenario, run.run_num)
  BY DEF File
<1> QED
  BY <1>1, <1>2, <1>3, Zenon DEF ServersOf

\* What fig_convergence and fig_protocol_overhead take for a NAT type and a
\* transport is of the runs with these, and of those one at most had seven servers.
LEMMA OfRuns ==
  ASSUME AsWritten(Plans), SavedInv, OnDisk, NEW k \in Sevens(FullMatrix)
  PROVE  LET s == Scene(k)
             f == File(plan[k], "json")
             all == Of(s.nat_type, s.transport)
         IN  /\ f \in all /\ ServersOf(f) = 7
             /\ \A g \in all : ServersOf(g) \in {3, 5, 7} /\ (ServersOf(g) = 7 => g = f)
<1> DEFINE s == Scene(k)
           f == File(plan[k], "json")
           all == Of(s.nat_type, s.transport)
<1>1. FullMatrix \in Sweeps /\ FullMatrix # PacketLoss /\ FullMatrix # HighLatency
  BY DEF Sweeps, FullMatrix, PacketLoss, HighLatency
<1>2. /\ k \in Runs(FullMatrix) /\ SweepRun(plan[k]) /\ s.server_count = 7
      /\ f = <<FullMatrix, Expected(s.nat_type, s.transport, 7, s.packet_loss, s.latency_ms), "json">>
  BY <1>1, Seven, Zenon DEF Sevens
<1>3. ASSUME NEW j \in Runs(FullMatrix)
      PROVE  LET t == Scene(j)
                 g == File(plan[j], "json")
             IN  /\ SweepRun(plan[j]) /\ t.packet_loss = 0 /\ t.latency_ms = 10
                 /\ ServersOf(g) = t.server_count /\ g \in Files(FullMatrix, {"json"})
                 /\ Parsed(g).nat = t.nat_type /\ Parsed(g).nat # None
                 /\ Parsed(g).transport = t.transport
                 /\ g = <<FullMatrix, Expected(t.nat_type, t.transport, t.server_count, 0, 10), "json">>
  <2>1. j \in DOMAIN plan /\ plan[j].dir = FullMatrix
    BY Traces DEF Runs
  <2>2. SweepRun(plan[j])
    BY <1>1, <2>1, Zenon DEF AsWritten, SavedInv
  <2>3. Scene(j).packet_loss = 0 /\ Scene(j).latency_ms = 10 /\ Scene(j).nat_type # None
    BY <1>1, <2>1, <2>2, ResultsAssumption DEF SweepRun, Scene
  <2>4. File(plan[j], "json")[2] = build_run_label(Scene(j), plan[j].run_num)
    BY DEF File, Scene
  <2>5. /\ Parsed(File(plan[j], "json")).nat = Scene(j).nat_type
        /\ Parsed(File(plan[j], "json")).transport = Scene(j).transport
    BY <2>2, <2>4, Roundtrip, Zenon DEF Parsed, Scene
  <2>6. File(plan[j], "json") \in Files(FullMatrix, {"json"})
    BY Traces
  <2>7. build_run_label(Scene(j), plan[j].run_num) =
          Expected(Scene(j).nat_type, Scene(j).transport, Scene(j).server_count, 0, 10)
    BY <2>2, <2>3, Label, Zenon DEF Scene
  <2>8. ServersOf(File(plan[j], "json")) = Scene(j).server_count
    BY <2>2, ServersRead, Zenon DEF Scene
  <2> QED BY <2>1, <2>2, <2>3, <2>5, <2>6, <2>7, <2>8, Zenon DEF File, Scene
<1>4. f \in all /\ ServersOf(f) = 7
  BY <1>2, <1>3, Zenon DEF Of, Listed
<1>5. ASSUME NEW g \in all
      PROVE  ServersOf(g) \in {3, 5, 7} /\ (ServersOf(g) = 7 => g = f)
  <2>1. /\ g \in Files(FullMatrix, {"json"})
        /\ Parsed(g).nat = s.nat_type /\ Parsed(g).transport = s.transport
    BY Zenon DEF Of, Listed
  <2>2. PICK j \in Runs(FullMatrix) : g = File(plan[j], "json")
    BY <2>1, Traces
  <2>3. ServersOf(g) = Scene(j).server_count /\ Scene(j).server_count \in {3, 5, 7}
    BY <1>3, <2>2 DEF SweepRun, Scene
  <2>4. ASSUME Scene(j).server_count = 7 PROVE g = f
    BY <1>2, <1>3, <2>1, <2>2, <2>4, Zenon
  <2> QED BY <2>3, <2>4
<1> QED
  BY <1>4, <1>5

\* ... so that the file with seven servers is the last one, wherever it is.
LEMMA LastIsSeven ==
  ASSUME AsWritten(Plans), SavedInv, OnDisk, NEW k \in Sevens(FullMatrix),
         NEW files \in SUBSET Of(Scene(k).nat_type, Scene(k).transport),
         File(plan[k], "json") \in files
  PROVE  LastOf(files) = File(plan[k], "json")
<1> DEFINE f == File(plan[k], "json")
<1>1. f \in files /\ ServersOf(f) = 7
      /\ \A g \in files : ServersOf(g) \in {3, 5, 7} /\ (ServersOf(g) = 7 => g = f)
  BY OfRuns, Zenon
<1> HIDE DEF f
<1>2. \A g \in files : ServersOf(g) <= ServersOf(f)
  BY <1>1
<1>3. \A h \in files : (\A g \in files : ServersOf(g) <= ServersOf(h)) => h = f
  BY <1>1
<1> QED
  BY <1>1, <1>2, <1>3, Zenon DEF LastOf, f

\* The two estimates come to one number for a probe of which nothing is lost with
\* its events.
LEMMA EstimatesAgree ==
  ASSUME NEW probe, Inferred(probe)
  PROVE  _probe_byte_estimate(probe.Attributes, <<>>) = probe_bytes(probe)
<1> DEFINE attrs == probe.Attributes
           events == probe.Events
<1>1. ~Event(<<>>, "dial_data_requested")
  BY DEF Event
<1>2. Amplification(<<>>) = 0 /\ Amplification(events) = 0
  BY <1>1, Zenon DEF Amplification, Inferred
<1>3. (IF Amplification(<<>>) > 0 THEN 16 ELSE 0) = 0
  BY <1>2
<1>4. (IF Event(events, "dial_data_requested") THEN 16 ELSE 0) = 0
  BY Zenon DEF Inferred
<1>5. attrs.addr_chars = attrs.addr_bytes
      /\ DialBackBytes(attrs, events) = DialBackBytes(attrs, <<>>)
  BY Zenon DEF Inferred
<1> QED
  BY <1>2, <1>3, <1>4, <1>5, Zenon DEF _probe_byte_estimate, probe_bytes

\* fig_protocol_overhead, analyze.py: the figure's bytes of a session with seven
\* servers are those of the analysis where the events tell no more than it infers.
THEOREM BytesAgree == AsWritten(Plans) => (Spec => []OverheadAgrees)
<1> SUFFICES ASSUME AsWritten(Plans) PROVE Spec => []OverheadAgrees
  OBVIOUS
<1>1. SavedInv /\ OnDisk => OverheadAgrees
  <2> SUFFICES ASSUME SavedInv, OnDisk, NEW k \in Sevens(FullMatrix),
                      LET probes == Probes(saved[k].spans) IN
                      \A i \in DOMAIN probes : Inferred(probes[i])
               PROVE  FigureBytes(Scene(k).nat_type, Scene(k).transport)
                        = total_bytes_per_session(saved[k].spans)
    BY Zenon DEF OverheadAgrees
  <2> DEFINE probes == Probes(saved[k].spans)
             f == File(plan[k], "json")
  <2>1. k \in DOMAIN saved /\ saved[k].spans # <<>>
    BY Seven, Zenon DEF Sweeps
  <2>2. LastOf(Of(Scene(k).nat_type, Scene(k).transport)) = f
    BY LastIsSeven, OfRuns, Zenon
  <2>3. disk[f] = saved[k].spans
    BY <2>1, OwnTraces, Zenon
  <2>4. [i \in DOMAIN probes |-> _probe_byte_estimate(probes[i].Attributes, <<>>)]
        = [i \in DOMAIN probes |-> probe_bytes(probes[i])]
    <3>1. \A i \in DOMAIN probes :
             _probe_byte_estimate(probes[i].Attributes, <<>>) = probe_bytes(probes[i])
      BY EstimatesAgree, Zenon
    <3> HIDE DEF probes
    <3> QED BY <3>1, Zenon
  <2> QED BY <2>2, <2>3, <2>4, Zenon DEF FigureBytes, total_bytes_per_session
<1> QED
  BY <1>1, OnDiskInvariant, PTL
LEMMA MaxIsSeven == \A T \in SUBSET {7, 5, 3} : 7 \in T => Max(T) = 7
<1> SUFFICES ASSUME NEW T \in SUBSET {7, 5, 3}, 7 \in T PROVE Max(T) = 7
  OBVIOUS
<1>1. \A y \in T : 7 >= y
  OBVIOUS
<1>2. \A x \in T : (\A y \in T : x >= y) => x = 7
  OBVIOUS
<1> QED
  BY <1>1, <1>2, Zenon DEF Max

\* fig_convergence, fig_detection_correctness: both figures are of the run with
\* seven servers, if it has a v1 event, whichever other runs left a trace.
THEOREM FiguresAreOfSeven == AsWritten(Plans) => (Spec => []FiguresAgree)
<1> SUFFICES ASSUME AsWritten(Plans) PROVE Spec => []FiguresAgree
  OBVIOUS
<1>1. SavedInv /\ OnDisk => FiguresAgree
  <2> SUFFICES ASSUME SavedInv, OnDisk, NEW k \in Sevens(FullMatrix)
               PROVE  LET s == Scene(k)
                          v1 == get_convergence(Plain(saved[k].spans)).v1
                      IN /\ v1 # <<>> => Bar("v1", s.nat_type, s.transport) = Elapsed(v1[1])
                         /\ v1 # <<>> => (Cell(s.nat_type, s.transport) = "CORRECT" <=>
                              Reported("v1", Plain(saved[k].spans)) = (s.nat_type \in ReachableNats))
                         /\ v1 = <<>> => Cell(s.nat_type, s.transport) = "NOT TRIGGERED"
    BY Zenon DEF FiguresAgree
  <2> DEFINE s == Scene(k)
             spans == Plain(saved[k].spans)
             v1 == get_convergence(spans).v1
             f == File(plan[k], "json")
             public == Attr(v1[1], "reachability", "?") = "public"
             private == Attr(v1[1], "reachability", "?") = "private"
             open == s.nat_type \in ReachableNats
  <2>1. /\ k \in DOMAIN saved /\ saved[k].spans # <<>> /\ SweepRun(plan[k]) /\ plan[k].dir = FullMatrix
        /\ f = <<FullMatrix, Expected(s.nat_type, s.transport, 7, s.packet_loss, s.latency_ms), "json">>
    <3>1. FullMatrix \in Sweeps
      BY DEF Sweeps
    <3> QED BY <3>1, Seven, Zenon
  <2>2. s.packet_loss = 0 /\ s.latency_ms = 10
    BY <2>1 DEF SweepRun, Scene, FullMatrix, HighLatency, PacketLoss
  <2>3. f \in DOMAIN disk /\ parse_spans(f) = spans
    BY <2>1, OwnTraces, Zenon
  <2>4. ASSUME v1 # <<>> PROVE Bar("v1", s.nat_type, s.transport) = Elapsed(v1[1])
    <3> DEFINE Events(g) == get_convergence(parse_spans(g)).v1
               having == {g \in Of(s.nat_type, s.transport) : Events(g) # <<>>}
    <3>1. f \in having /\ having \in SUBSET Of(s.nat_type, s.transport)
      BY <2>3, <2>4, OfRuns, Zenon
    <3>2. LastOf(having) = f
      BY <3>1, LastIsSeven, Zenon
    <3>3. Bar("v1", s.nat_type, s.transport)
            = IF having = {} THEN None ELSE Elapsed(Events(LastOf(having))[1])
      BY Zenon DEF Bar
    <3> QED BY <2>3, <3>1, <3>2, <3>3, Zenon
  <2> DEFINE Named(n) == <<FullMatrix, Expected(s.nat_type, s.transport, n, 0, 10), "json">>
             candidates == {n \in {7, 5, 3} : Named(n) \in DOMAIN disk}
  <2>5. 7 \in candidates /\ Named(7) = f
    <3>1. Named(7) = f
      BY <2>1, <2>2, Zenon
    <3> HIDE DEF Named
    <3> QED BY <2>3, <3>1
  <2>6. Found(candidates) = 7
    <3> HIDE DEF Named
    <3>1. candidates \in SUBSET {7, 5, 3}
      OBVIOUS
    <3> QED BY <2>5, <3>1, MaxIsSeven, Zenon DEF Found
  <2>7. get_convergence(parse_spans(Named(Found(candidates)))).v1 = v1
    BY <2>3, <2>5, <2>6, Zenon
  <2>8. Cell(s.nat_type, s.transport) =
          IF candidates = {} THEN "NO DATA"
          ELSE IF v1 = <<>> THEN "NOT TRIGGERED"
          ELSE IF Attr(v1[1], "reachability", "?") = (IF open THEN "public" ELSE "private")
               THEN "CORRECT" ELSE IF open THEN "FALSE NEGATIVE" ELSE "FALSE POSITIVE"
    BY <2>7, Zenon DEF Cell
  <2>9. v1 # <<>> => Attr(v1[1], "reachability", "?") \in {"public", "private"}
    <3>1. saved[k] \in plan[k].outcomes /\ k \in DOMAIN plan /\ plan \in Plans
      BY <2>1, Traces DEF SavedInv
    <3> QED BY <3>1, Zenon DEF AsWritten
  <2>10. Reported("v1", spans) = (v1 # <<>> /\ public)
    BY DEF Reported
  <2> HIDE DEF candidates, v1, spans, open, s
  <2>11. v1 = <<>> => Cell(s.nat_type, s.transport) = "NOT TRIGGERED"
    BY <2>5, <2>8
  <2>12. v1 # <<>> => (Cell(s.nat_type, s.transport) = "CORRECT" <=>
                         Reported("v1", spans) = (s.nat_type \in ReachableNats))
    <3>1. CASE open
      BY <2>5, <2>8, <2>9, <2>10, <3>1 DEF open
    <3>2. CASE ~open
      <4>1. v1 # <<>> => (Cell(s.nat_type, s.transport) = "CORRECT" <=> ~public)
        BY <2>5, <2>8, <2>9, <3>2 DEF open
      <4>2. v1 # <<>> => (Reported("v1", spans) <=> public) /\ Reported("v1", spans) \in BOOLEAN
        BY <2>10
      <4>3. (s.nat_type \in ReachableNats) = FALSE
        BY <3>2 DEF open
      <4> HIDE DEF public
      <4> QED BY <4>1, <4>2, <4>3
    <3> QED BY <3>1, <3>2
  <2> QED BY <2>4, <2>11, <2>12 DEF v1, spans, s
<1> QED
  BY <1>1, OnDiskInvariant, PTL
-----------------------------------------------------------------------------
(* Rates. *)

\* A set of files has as many as there are runs whose files they are.
LEMMA SameNumber ==
  ASSUME NEW S, IsFiniteSet(S), NEW F, \A x, y \in S : F[x] = F[y] => x = y
  PROVE  Cardinality({F[x] : x \in S}) = Cardinality(S)
<1> DEFINE T == {F[x] : x \in S}
           g == [x \in S |-> F[x]]
<1>1. g \in Bijection(S, T)
  BY DEF Bijection, Injection, Surjection, IsInjective
<1> QED
  BY <1>1, FS_Bijection DEF ExistsBijection

LEMMA ReportedOrNot == \A version, spans : Reported(version, spans) \in BOOLEAN
<1> SUFFICES ASSUME NEW version, NEW spans PROVE Reported(version, spans) \in BOOLEAN
  OBVIOUS
<1> DEFINE c == get_convergence(spans)
<1>1. CASE version = "v1"
  BY <1>1, Zenon DEF Reported
<1>2. CASE version # "v1"
  BY <1>2, Zenon DEF Reported
<1> QED
  BY <1>1, <1>2

LEMMA Apart ==
  ASSUME NEW S, NEW T, IsFiniteSet(S), IsFiniteSet(T), S \cap T = {}
  PROVE  Cardinality(S \cup T) = Cardinality(S) + Cardinality(T)
<1>1. Cardinality(S \cup T) = Cardinality(S) + Cardinality(T) - Cardinality(S \cap T)
  BY FS_Union
<1>2. Cardinality(S \cap T) = 0 /\ Cardinality(S) \in Nat /\ Cardinality(T) \in Nat
  BY FS_EmptySet, FS_CardinalityType
<1> QED
  BY ONLY <1>1, <1>2

\* Rates of files are those of the runs that they are of.
LEMMA RatesOfRuns ==
  ASSUME AsWritten(Plans), SavedInv, OnDisk,
         NEW runs \in SUBSET {k \in DOMAIN saved : saved[k].spans # <<>>},
         \A k \in runs : Scene(k).nat_type \in NatTypes,
         NEW files, files = {File(plan[k], "json") : k \in runs},
         NEW reachable, \A k \in runs :
           File(plan[k], "json") \in reachable <=> Scene(k).nat_type \in ReachableNats
  PROVE  Rates(files, reachable) = TrueRates(runs)
<1> DEFINE F == [k \in runs |-> File(plan[k], "json")]
           Says(v, k) == Reported(v, Plain(saved[k].spans))
           open(k) == Scene(k).nat_type \in ReachableNats
           C(v, e, r) == {f \in files : (f \in reachable) = e /\ Reported(v, parse_spans(f)) = r}
           D(v, e, r) == {k \in runs : open(k) = e /\ Says(v, k) = r}
           Wrong(v, nats) == {k \in runs : Scene(k).nat_type \in nats /\ Says(v, k) # open(k)}
           All(nats) == {k \in runs : Scene(k).nat_type \in nats}
           Restricted == DOMAIN NatParts \ ReachableNats
<1>1. IsFiniteSet(runs) /\ \A T \in SUBSET runs : IsFiniteSet(T)
  BY Traces, FS_Subset
<1>2. \A v, k : Says(v, k) \in BOOLEAN /\ open(k) \in BOOLEAN
  <2>1. \A v, k : Says(v, k) \in BOOLEAN
    BY ReportedOrNot, Zenon
  <2>2. \A k : open(k) \in BOOLEAN
    OBVIOUS
  <2> QED BY <2>1, <2>2
<1>3. \A k \in runs : parse_spans(F[k]) = Plain(saved[k].spans)
                       /\ (F[k] \in reachable <=> open(k)) /\ F[k] \in files
  BY OwnTraces, Zenon
<1>4. \A j, k \in runs : F[j] = F[k] => j = k
  BY OwnTraces, Zenon
<1>5. files = {F[k] : k \in runs}
  OBVIOUS
<1> HIDE DEF F
<1>6. ASSUME NEW v, NEW e \in BOOLEAN, NEW r \in BOOLEAN
      PROVE  Cardinality(C(v, e, r)) = Cardinality(D(v, e, r))
  <2> DEFINE In(f) == (f \in reachable) = e /\ Reported(v, parse_spans(f)) = r
             Is(k) == open(k) = e /\ Says(v, k) = r
  <2>0. \A k \in runs : In(F[k]) <=> Is(k)
    <3> SUFFICES ASSUME NEW k \in runs PROVE In(F[k]) <=> Is(k)
      OBVIOUS
    <3>1. (F[k] \in reachable) = open(k)
      BY <1>3
    <3> QED BY <1>3, <3>1, Zenon
  <2> HIDE DEF In, Is
  <2>1. C(v, e, r) = {F[k] : k \in D(v, e, r)}
    <3>1. C(v, e, r) = {f \in files : In(f)} /\ D(v, e, r) = {k \in runs : Is(k)}
      BY Zenon DEF In, Is
    <3> HIDE DEF C, D
    <3> QED BY <1>5, <2>0, <3>1
  <2>2. D(v, e, r) \in SUBSET runs
    OBVIOUS
  <2> HIDE DEF C, D
  <2> QED BY <1>1, <1>4, <2>1, <2>2, SameNumber
<1>7. Restricted = NatTypes \ ReachableNats
  BY DEF NatParts
<1>8. ASSUME NEW v PROVE Wrong(v, ReachableNats) = D(v, TRUE, FALSE) /\ Wrong(v, Restricted) = D(v, FALSE, TRUE)
  BY <1>2, <1>7
<1>9. ASSUME NEW v
      PROVE  /\ Cardinality(All(ReachableNats))
                  = Cardinality(D(v, TRUE, FALSE)) + Cardinality(D(v, TRUE, TRUE))
             /\ Cardinality(All(Restricted))
                  = Cardinality(D(v, FALSE, TRUE)) + Cardinality(D(v, FALSE, FALSE))
  <2>1. /\ All(ReachableNats) = D(v, TRUE, FALSE) \cup D(v, TRUE, TRUE)
        /\ All(Restricted) = D(v, FALSE, TRUE) \cup D(v, FALSE, FALSE)
        /\ D(v, TRUE, FALSE) \cap D(v, TRUE, TRUE) = {}
        /\ D(v, FALSE, TRUE) \cap D(v, FALSE, FALSE) = {}
    BY <1>2, <1>7
  <2>2. \A e, r : D(v, e, r) \in SUBSET runs
    OBVIOUS
  <2> HIDE DEF D, All
  <2>3. \A e, r : IsFiniteSet(D(v, e, r))
    BY <1>1, <2>2
  <2> QED BY ONLY <2>1, <2>3, Apart, Zenon
<1>10. Rates(files, reachable) =
         [v \in {"v1", "v2"} |->
           [fnr |-> Percent(Cardinality(C(v, TRUE, FALSE)),
                            Cardinality(C(v, TRUE, FALSE)) + Cardinality(C(v, TRUE, TRUE))),
            fpr |-> Percent(Cardinality(C(v, FALSE, TRUE)),
                            Cardinality(C(v, FALSE, TRUE)) + Cardinality(C(v, FALSE, FALSE)))]]
  BY Zenon DEF Rates
<1>11. TrueRates(runs) =
         [v \in {"v1", "v2"} |->
           [fnr |-> Percent(Cardinality(Wrong(v, ReachableNats)), Cardinality(All(ReachableNats))),
            fpr |-> Percent(Cardinality(Wrong(v, Restricted)), Cardinality(All(Restricted)))]]
  BY Zenon DEF TrueRates
<1> HIDE DEF C, D, Wrong, All, Restricted
<1>12. ASSUME NEW v
       PROVE  /\ Cardinality(C(v, TRUE, FALSE)) = Cardinality(Wrong(v, ReachableNats))
              /\ Cardinality(C(v, FALSE, TRUE)) = Cardinality(Wrong(v, Restricted))
              /\ Cardinality(C(v, TRUE, FALSE)) + Cardinality(C(v, TRUE, TRUE))
                   = Cardinality(All(ReachableNats))
              /\ Cardinality(C(v, FALSE, TRUE)) + Cardinality(C(v, FALSE, FALSE))
                   = Cardinality(All(Restricted))
  <2>1. TRUE \in BOOLEAN /\ FALSE \in BOOLEAN
    OBVIOUS
  <2> QED BY <1>6, <1>8, <1>9, <2>1, Zenon
<1> DEFINE Seen(v) == [fnr |-> Percent(Cardinality(C(v, TRUE, FALSE)),
                                       Cardinality(C(v, TRUE, FALSE)) + Cardinality(C(v, TRUE, TRUE))),
                       fpr |-> Percent(Cardinality(C(v, FALSE, TRUE)),
                                       Cardinality(C(v, FALSE, TRUE)) + Cardinality(C(v, FALSE, FALSE)))]
           Made(v) == [fnr |-> Percent(Cardinality(Wrong(v, ReachableNats)), Cardinality(All(ReachableNats))),
                       fpr |-> Percent(Cardinality(Wrong(v, Restricted)), Cardinality(All(Restricted)))]
<1>13. \A v : Seen(v) = Made(v)
  BY <1>12, Zenon
<1>14. Rates(files, reachable) = [v \in {"v1", "v2"} |-> Seen(v)]
       /\ TrueRates(runs) = [v \in {"v1", "v2"} |-> Made(v)]
  BY <1>10, <1>11, Zenon
<1> HIDE DEF Seen, Made
<1> QED
  BY <1>13, <1>14
\* A bar's files are those of the runs under its condition.
LEMMA ConditionRates ==
  ASSUME AsWritten(Plans), SavedInv, OnDisk, NEW c \in Conditions
  PROVE  _compute_fnr_fpr(c) = TrueRates({k \in Runs(DirOf(c)) :
           /\ c.latency_ms # None => Scene(k).latency_ms = c.latency_ms
           /\ c.loss_pct # None => Scene(k).packet_loss = c.loss_pct})
<1> DEFINE d == DirOf(c)
           Under(k) == /\ c.latency_ms # None => Scene(k).latency_ms = c.latency_ms
                       /\ c.loss_pct # None => Scene(k).packet_loss = c.loss_pct
           runs == {k \in Runs(d) : Under(k)}
           files == {f \in Listed(d) : Passes(Parsed(f), c)}
           reachable == {f \in files : Parsed(f).nat \in ReachableNats}
           F(k) == File(plan[k], "json")
<1>1. c.local = FALSE /\ c.loss_pct \in Nat \cup {None} /\ (c.loss_pct # None => c.loss_pct # 0)
  BY ResultsAssumption DEF Conditions
<1>2. d \in Sweeps
  BY <1>1 DEF DirOf, Sweeps
<1>3. Files(d, {"json"}) = {F(k) : k \in Runs(d)} /\ Runs(d) \subseteq DOMAIN saved
      /\ DOMAIN saved \subseteq DOMAIN plan
  BY Traces, Zenon
<1>4. ASSUME NEW k \in Runs(d)
      PROVE  /\ saved[k].spans # <<>> /\ Scene(k).nat_type \in NatTypes
             /\ Parsed(F(k)).nat = Scene(k).nat_type /\ Scene(k).nat_type # None
             /\ Passes(Parsed(F(k)), c) <=> Under(k)
  <2>1. k \in DOMAIN plan /\ plan[k].dir = d /\ saved[k].spans # <<>>
    BY <1>3 DEF Runs
  <2>2. SweepRun(plan[k])
    BY <1>2, <2>1, Zenon DEF AsWritten, SavedInv
  <2>3. F(k)[2] = build_run_label(Scene(k), plan[k].run_num)
    BY DEF File, Scene
  <2>4. /\ Parsed(F(k)).nat = Scene(k).nat_type
        /\ Parsed(F(k)).latency_ms = Scene(k).latency_ms
        /\ Parsed(F(k)).loss_pct = IF Scene(k).packet_loss = 0 THEN None ELSE Scene(k).packet_loss
    BY <2>2, <2>3, Roundtrip, Zenon DEF Parsed, Scene
  <2>5. Scene(k).nat_type \in NatTypes /\ Scene(k).nat_type # None
    BY <2>2, ResultsAssumption DEF SweepRun, Scene
  <2> HIDE DEF F, d
  <2>6. Passes(Parsed(F(k)), c) <=> Under(k)
    BY <1>1, <2>4 DEF Passes
  <2> QED BY <2>1, <2>4, <2>5, <2>6
<1> HIDE DEF F, d, Under
<1>5. Listed(d) = Files(d, {"json"})
  BY <1>3, <1>4 DEF Listed
<1>6. files = {F(k) : k \in runs}
  BY <1>3, <1>4, <1>5
<1>7. \A k \in runs : F(k) \in reachable <=> Scene(k).nat_type \in ReachableNats
  BY <1>4, <1>6
<1>8. runs \in SUBSET {k \in DOMAIN saved : saved[k].spans # <<>>}
      /\ \A k \in runs : Scene(k).nat_type \in NatTypes
  BY <1>3, <1>4
<1>9. _compute_fnr_fpr(c) = Rates(files, reachable)
  BY Zenon DEF _compute_fnr_fpr, d
<1> HIDE DEF files, reachable, runs
<1>10. Rates(files, reachable) = TrueRates(runs)
  BY <1>6, <1>7, <1>8, RatesOfRuns, Zenon DEF F
<1> QED
  BY <1>9, <1>10, Zenon DEF runs, Under, d

LEMMA GapRates ==
  ASSUME AsWritten(Plans), SavedInv, OnDisk
  PROVE  _compute_fnr_fpr_gap = TrueRates(UNION {Runs(d) : d \in Gaps})
<1> DEFINE runs == UNION {Runs(d) : d \in Gaps}
           files == UNION {Files(d, {"json"}) : d \in Gaps}
           F(k) == File(plan[k], "json")
           true == TrueRates(runs)
<1>1. \A d : /\ Files(d, {"json"}) = {F(k) : k \in Runs(d)} /\ Runs(d) \subseteq DOMAIN saved
             /\ DOMAIN saved \subseteq DOMAIN plan
  BY Traces, Zenon
<1>2. ASSUME NEW k \in runs
      PROVE  k \in DOMAIN saved /\ saved[k].spans # <<>> /\ Scene(k).nat_type = "full-cone"
  <2>1. PICK d \in Gaps : k \in Runs(d)
    OBVIOUS
  <2>2. k \in DOMAIN saved /\ k \in DOMAIN plan /\ plan[k].dir = d /\ saved[k].spans # <<>>
    BY <1>1, <2>1 DEF Runs
  <2>3. Scene(k).nat_type = "full-cone"
    BY <2>2, Zenon DEF AsWritten, SavedInv, Scene
  <2> QED BY <2>2, <2>3
<1> HIDE DEF F
<1>3. files = {F(k) : k \in runs}
  BY <1>1
<1>4. /\ runs \in SUBSET {k \in DOMAIN saved : saved[k].spans # <<>>}
      /\ \A k \in runs : Scene(k).nat_type \in NatTypes
      /\ \A k \in runs : F(k) \in files <=> Scene(k).nat_type \in ReachableNats
  BY <1>2, <1>3 DEF NatTypes, ReachableNats
<1> HIDE DEF runs, files
<1>5. Rates(files, files) = true
  BY <1>3, <1>4, RatesOfRuns, Zenon DEF F
<1>6. {k \in runs : Scene(k).nat_type \in DOMAIN NatParts \ ReachableNats} = {}
  BY <1>2 DEF ReachableNats
<1> DEFINE Restricted == DOMAIN NatParts \ ReachableNats
           Wrong(v, nats) == {k \in runs : Scene(k).nat_type \in nats /\
                                Reported(v, Plain(saved[k].spans)) # (Scene(k).nat_type \in ReachableNats)}
           All(nats) == {k \in runs : Scene(k).nat_type \in nats}
           fnr(v) == Percent(Cardinality(Wrong(v, ReachableNats)), Cardinality(All(ReachableNats)))
           fpr(v) == Percent(Cardinality(Wrong(v, Restricted)), Cardinality(All(Restricted)))
<1>7. true = [v \in {"v1", "v2"} |-> [fnr |-> fnr(v), fpr |-> fpr(v)]]
  BY Zenon DEF TrueRates
<1>8. \A v : fpr(v) = 0
  <2>1. Cardinality(All(Restricted)) = 0
    BY <1>6, FS_EmptySet
  <2> QED BY <2>1, Zenon DEF Percent
<1> HIDE DEF fnr, fpr, true
<1>9. true = [v \in {"v1", "v2"} |-> [fnr |-> true[v].fnr, fpr |-> 0]]
  BY <1>7, <1>8
<1>10. _compute_fnr_fpr_gap = [v \in {"v1", "v2"} |-> [fnr |-> Rates(files, files)[v].fnr, fpr |-> 0]]
  BY Zenon DEF _compute_fnr_fpr_gap, files
<1> QED
  BY <1>5, <1>9, <1>10, Zenon DEF true, runs

\* fig_fnr_fpr_summary: whatever the verdicts, every bar but that of the baseline
\* shows the rates of exactly the runs that were made under its condition.
THEOREM BarsAreOfRuns == AsWritten(Plans) => (Spec => []RatesAreRuns)
<1> SUFFICES ASSUME AsWritten(Plans) PROVE Spec => []RatesAreRuns
  OBVIOUS
<1>1. SavedInv /\ OnDisk => RatesAreRuns
  BY ConditionRates, GapRates, Zenon DEF RatesAreRuns
<1> QED
  BY <1>1, OnDiskInvariant, PTL
-----------------------------------------------------------------------------
(* Statistics. *)

\* A set of natural numbers has a smallest, and a list of them a largest.
LEMMA Smallest ==
  ASSUME NEW T \in SUBSET Nat, T # {}
  PROVE  Min(T) \in T /\ \A y \in T : Min(T) <= y
<1>1. \E x \in T : \A y \in T : ~ (<<y, x>> \in OpToRel(<, Nat))
  BY WFMin, NatLessThanWellFounded, Zenon
<1>2. \A x, y \in T : ~ (<<y, x>> \in OpToRel(<, Nat)) => x <= y
  <2> SUFFICES ASSUME NEW x \in T, NEW y \in T PROVE ~ (<<y, x>> \in OpToRel(<, Nat)) => x <= y
    OBVIOUS
  <2> DEFINE pair == <<y, x>>
             before == pair \in OpToRel(<, Nat)
  <2>1. ASSUME y < x PROVE before
    <3>1. pair \in Nat \X Nat /\ pair[1] < pair[2]
      BY <2>1
    <3> HIDE DEF pair
    <3> QED BY <3>1 DEF OpToRel
  <2> HIDE DEF before
  <2>2. ~ before => x <= y
    BY <2>1
  <2> QED BY <2>2, Zenon DEF before
<1>3. \E x \in T : \A y \in T : x <= y
  BY <1>1, <1>2, Zenon
<1> QED
  BY <1>3, Zenon DEF Min

LEMMA Largest ==
  ASSUME NEW n \in Nat \ {0}, NEW values \in [1..n -> Nat]
  PROVE  \E b \in Nat : \A j \in 1..n : values[j] <= b
<1> DEFINE Above(i) == {j \in 1..n : values[j] > values[i]}
           T == {Above(i) : i \in 1..n}
           R == StrictSubsetOrdering(1..n)
<1>1. T \subseteq FiniteSubsetsOf(1..n) /\ T # {}
  <2>1. IsFiniteSet(1..n)
    BY FS_Interval
  <2>2. \A i \in 1..n : Above(i) \in SUBSET (1..n)
    OBVIOUS
  <2>3. FiniteSubsetsOf(1..n) = SUBSET (1..n)
    BY <2>1, FS_FiniteSubsetsOfFinite
  <2>4. Above(1) \in T
    OBVIOUS
  <2> HIDE DEF Above
  <2> QED BY <2>2, <2>3, <2>4
<1>2. IsWellFoundedOn(R, FiniteSubsetsOf(1..n))
  BY FS_StrictSubsetOrderingWellFounded
<1>3. \E x \in T : \A y \in T : ~ (<<y, x>> \in R)
  <2> HIDE DEF T, R
  <2> QED BY <1>1, <1>2, WFMin, Zenon
<1>4. PICK i \in 1..n : \A j \in 1..n : ~ (<<Above(j), Above(i)>> \in R)
  <2> HIDE DEF Above, R
  <2> QED BY <1>3
<1>5. \A j \in 1..n : values[j] <= values[i]
  <2> SUFFICES ASSUME NEW j \in 1..n, values[j] > values[i] PROVE FALSE
    OBVIOUS
  <2>1. Above(j) \subseteq Above(i) /\ j \in Above(i) /\ j \notin Above(j)
    OBVIOUS
  <2>2. <<Above(j), Above(i)>> \in (SUBSET (1..n)) \X (SUBSET (1..n))
    OBVIOUS
  <2> HIDE DEF Above
  <2>3. <<Above(j), Above(i)>> \in R
    BY <2>1, <2>2 DEF StrictSubsetOrdering
  <2> QED BY <1>4, <2>3
<1> QED
  BY <1>5

\* The k-th of a list is there, and what comes later is not below it.
LEMMA RankedIsThere ==
  ASSUME NEW n \in Nat, NEW values \in [1..n -> Nat], NEW k \in 1..n
  PROVE  LET v == Ranked(values, k) IN
         /\ v \in Nat
         /\ Cardinality({i \in 1..n : values[i] < v}) < k
         /\ Cardinality({i \in 1..n : values[i] <= v}) >= k
<1> DEFINE Below(v) == {i \in 1..n : values[i] < v}
           UpTo(v) == {i \in 1..n : values[i] <= v}
           T == {v \in Nat : Cardinality(UpTo(v)) >= k}
           m == Min(T)
<1>1. T # {}
  <2>1. PICK b \in Nat : \A j \in 1..n : values[j] <= b
    BY n \in Nat \ {0}, Largest
  <2>2. UpTo(b) = 1..n
    BY <2>1
  <2>3. Cardinality(1..n) = n
    BY FS_Interval
  <2>4. Cardinality(UpTo(b)) >= k
    <3>1. k <= n
      OBVIOUS
    <3> QED BY <2>2, <2>3, <3>1, Zenon
  <2>5. b \in T
    <3> HIDE DEF UpTo
    <3> QED BY <2>1, <2>4
  <2> QED BY <2>5
<1>2. m \in T /\ \A v \in T : m <= v
  <2>1. T \in SUBSET Nat
    OBVIOUS
  <2> HIDE DEF T
  <2> QED BY <1>1, <2>1, Smallest
<1>3. m \in Nat /\ Cardinality(UpTo(m)) >= k
  BY <1>2
<1> HIDE DEF m
<1>4. Cardinality(Below(m)) < k
  <2>1. IsFiniteSet(1..n)
    BY FS_Interval
  <2>2. Cardinality(Below(m)) \in Nat
    BY <2>1, FS_Subset, FS_CardinalityType
  <2> SUFFICES ASSUME Cardinality(Below(m)) >= k PROVE FALSE
    BY <2>2
  <2>3. m # 0
    <3>1. m = 0 => Below(m) = {}
      OBVIOUS
    <3>2. m = 0 => Cardinality(Below(m)) = 0
      <4> HIDE DEF Below
      <4> QED BY <3>1, FS_EmptySet
    <3> HIDE DEF Below
    <3> QED BY <3>2
  <2>4. m - 1 \in Nat /\ Below(m) = UpTo(m - 1)
    BY <1>3, <2>3
  <2>5. m - 1 \in T
    BY <2>4
  <2> QED BY <1>2, <1>3, <2>5
<1>5. m \in ToSet(values)
  <2>1. Below(m) # UpTo(m)
    <3>1. Cardinality(UpTo(m)) \in Nat /\ Cardinality(Below(m)) \in Nat
      <4>1. IsFiniteSet(1..n)
        BY FS_Interval
      <4>2. UpTo(m) \in SUBSET (1..n) /\ Below(m) \in SUBSET (1..n)
        OBVIOUS
      <4> HIDE DEF UpTo, Below
      <4> QED BY <4>1, <4>2, FS_Subset, FS_CardinalityType
    <3> HIDE DEF UpTo, Below
    <3> QED BY <1>3, <1>4, <3>1
  <2>2. PICK i \in 1..n : values[i] = m
    BY <1>3, <2>1
  <2> QED BY <2>2 DEF ToSet
<1>6. DOMAIN values = 1..n /\ ToSet(values) \subseteq Nat
  BY DEF ToSet
<1>7. \E v \in ToSet(values) : /\ Cardinality({i \in DOMAIN values : values[i] < v}) < k
                               /\ Cardinality({i \in DOMAIN values : values[i] <= v}) >= k
  BY <1>3, <1>4, <1>5, <1>6, Zenon
<1>8. /\ Ranked(values, k) \in ToSet(values)
      /\ Cardinality({i \in DOMAIN values : values[i] < Ranked(values, k)}) < k
      /\ Cardinality({i \in DOMAIN values : values[i] <= Ranked(values, k)}) >= k
  BY <1>7, Zenon DEF Ranked
<1> QED
  BY <1>6, <1>8, Zenon

LEMMA RanksInOrder ==
  ASSUME NEW n \in Nat, NEW values \in [1..n -> Nat], NEW k \in 1..n, NEW l \in k..n
  PROVE  Ranked(values, k) \in Nat /\ Ranked(values, k) <= Ranked(values, l)
<1> DEFINE v == Ranked(values, k)
           w == Ranked(values, l)
           Below == {i \in 1..n : values[i] < v}
           UpTo == {i \in 1..n : values[i] <= w}
<1>0. l \in 1..n /\ k <= l
  OBVIOUS
<1>1. v \in Nat /\ Cardinality(Below) < k
  BY RankedIsThere
<1>2. w \in Nat /\ Cardinality(UpTo) >= l
  BY <1>0, RankedIsThere
<1> HIDE DEF v, w
<1>3. IsFiniteSet(1..n) /\ Below \in SUBSET (1..n)
  BY FS_Interval
<1>4. IsFiniteSet(Below) /\ Cardinality(Below) \in Nat
  <2> HIDE DEF Below
  <2> QED BY <1>3, FS_Subset, FS_CardinalityType
<1>5. ASSUME w < v PROVE FALSE
  <2>1. UpTo \in SUBSET Below
    BY <1>1, <1>2, <1>5
  <2> HIDE DEF UpTo, Below
  <2>2. Cardinality(UpTo) <= Cardinality(Below) /\ Cardinality(UpTo) \in Nat
    BY <1>4, <2>1, FS_Subset, FS_CardinalityType
  <2> QED BY ONLY <1>0, <1>1, <1>2, <1>4, <2>2, k \in Nat, l \in Nat
<1> QED
  BY <1>1, <1>2, <1>5 DEF v, w

LEMMA MaxOfTwo == ASSUME NEW a \in Int, NEW b \in Int PROVE Max({a, b}) = IF a >= b THEN a ELSE b
<1> DEFINE big == IF a >= b THEN a ELSE b
<1>1. \E x \in {a, b} : \A y \in {a, b} : x >= y
  <2>1. big \in {a, b} /\ \A y \in {a, b} : big >= y
    OBVIOUS
  <2> QED BY <2>1
<1>2. Max({a, b}) \in {a, b} /\ \A y \in {a, b} : Max({a, b}) >= y
  BY <1>1, Zenon DEF Max
<1> QED
  BY <1>2

\* The statistics of a list are in order.
LEMMA StatsInOrder ==
  ASSUME NEW n \in Nat \ {0}, NEW values \in [1..n -> Nat]
  PROVE  /\ stats(values).n = n
         /\ stats(values).min <= stats(values).p95 /\ stats(values).p95 <= stats(values).max
         /\ n # 2 => stats(values).median2 <= 2 * stats(values).p95
<1> DEFINE sorted == [k \in 1..n |-> Ranked(values, k)]
           p95_idx == Max({0, (n * 95) \div 100 - 1})
           p == p95_idx + 1
           low == (n + 1) \div 2
           high == n \div 2 + 1
<1>1. Len(values) = n
  OBVIOUS
<1>2. stats(values) = [n |-> n, median2 |-> sorted[low] + sorted[high],
                       p95 |-> sorted[p], min |-> sorted[1], max |-> sorted[n]]
  BY <1>1, Zenon DEF stats
<1>3. p = IF 0 >= (n * 95) \div 100 - 1 THEN 1 ELSE (n * 95) \div 100
  BY MaxOfTwo, (n * 95) \div 100 - 1 \in Int, 0 \in Int
<1>4. p \in 1..n
  BY ONLY <1>3, n \in Nat \ {0}
<1>5. n # 2 => low \in 1..p /\ high \in 1..p
  BY ONLY <1>3, n \in Nat \ {0}
<1>6. \A k \in 1..n : \A l \in k..n : sorted[k] \in Nat /\ sorted[k] <= sorted[l]
  <2> SUFFICES ASSUME NEW k \in 1..n, NEW l \in k..n
               PROVE  sorted[k] \in Nat /\ sorted[k] <= sorted[l]
    OBVIOUS
  <2>1. Ranked(values, k) \in Nat /\ Ranked(values, k) <= Ranked(values, l)
    BY RanksInOrder
  <2> QED BY <2>1
<1> HIDE DEF sorted, p, low, high
<1>7. sorted[1] <= sorted[p] /\ sorted[p] <= sorted[n] /\ sorted[p] \in Nat
  BY <1>4, <1>6
<1>8. ASSUME n # 2 PROVE sorted[low] + sorted[high] <= 2 * sorted[p]
  <2>1. low \in 1..n /\ high \in 1..n /\ p \in low..n /\ p \in high..n
    BY <1>4, <1>5, <1>8
  <2>2. sorted[low] \in Nat /\ sorted[low] <= sorted[p]
    BY <1>6, <2>1
  <2>3. sorted[high] \in Nat /\ sorted[high] <= sorted[p]
    BY <1>6, <2>1
  <2> QED BY ONLY <1>7, <2>2, <2>3
<1> QED
  BY <1>2, <1>7, <1>8

\* A set in some order is a list.
LEMMA SeqOfSet ==
  ASSUME NEW S, IsFiniteSet(S)
  PROVE  SetToSeq(S) \in [1..Cardinality(S) -> S]
<1>1. ExistsBijection(1..Cardinality(S), S)
  BY FS_CardinalityType
<1>2. \E f \in [1..Cardinality(S) -> S] : IsInjective(f)
  BY <1>1, Zenon DEF ExistsBijection, Bijection, Injection
<1> QED
  BY <1>2, Zenon DEF SetToSeq

\* Without a trace nothing is public or listed: the metrics are of the runs.
LEMMA OfTraces ==
  ASSUME AsWritten(Plans), SavedInv, OnDisk, NEW d,
         NEW G \in SUBSET Files(d, {"json", "toggles.json", "assertions.json"}),
         \A f \in G : f[3] = "json"
  PROVE  IsFiniteSet(G) /\ Cardinality(G) <= Cardinality(Runs(d)) /\ Cardinality(Runs(d)) \in Nat
<1> DEFINE F == [k \in Runs(d) |-> File(plan[k], "json")]
<1>1. Files(d, {"json"}) = {F[k] : k \in Runs(d)} /\ IsFiniteSet(Runs(d))
  <2>1. /\ Files(d, {"json"}) = {File(plan[k], "json") : k \in Runs(d)}
        /\ Runs(d) \subseteq DOMAIN saved /\ IsFiniteSet(DOMAIN saved)
    BY Traces
  <2> QED BY <2>1, FS_Subset
<1>2. \A j, k \in Runs(d) : F[j] = F[k] => j = k
  BY Traces, OwnTraces
<1>3. G \in SUBSET {F[k] : k \in Runs(d)}
  BY <1>1 DEF Files
<1>4. F \in Surjection(Runs(d), {F[k] : k \in Runs(d)})
  BY DEF Surjection
<1> HIDE DEF F
<1>5. IsFiniteSet({F[k] : k \in Runs(d)}) /\ Cardinality({F[k] : k \in Runs(d)}) <= Cardinality(Runs(d))
  BY <1>1, <1>4, FS_Surjection
<1>6. IsFiniteSet(G) /\ Cardinality(G) <= Cardinality({F[k] : k \in Runs(d)})
  BY <1>3, <1>5, FS_Subset
<1>7. /\ Cardinality(G) \in Nat /\ Cardinality(Runs(d)) \in Nat
      /\ Cardinality({F[k] : k \in Runs(d)}) \in Nat
  BY <1>1, <1>5, <1>6, FS_CardinalityType
<1> QED
  BY ONLY <1>5, <1>6, <1>7

LEMMA NoTrace ==
  ASSUME NEW f, f[3] # "json"
  PROVE  Public(f) = {} /\ \A key : Lists(f, key) = {}
<1>1. parse_trace(f) = <<>>
  BY DEF parse_trace
<1> QED
  BY <1>1 DEF Public, Lists

\* The first event of a trace that lists addresses has a time.
LEMMA TimesAreNat ==
  ASSUME AsWritten(Plans), SavedInv, OnDisk, NEW f \in DOMAIN disk, NEW key, Lists(f, key) # {}
  PROVE  parse_trace(f)[Min(Lists(f, key))].Attributes.elapsed_ms \in Nat
<1>1. f[3] = "json" /\ parse_trace(f) = disk[f]
  BY NoTrace DEF parse_trace
<1>2. PICK k \in DOMAIN saved : f = File(plan[k], "json") /\ saved[k].spans # <<>>
  BY <1>1 DEF OnDisk
<1>3. disk[f] = saved[k].spans
  BY <1>2, OwnTraces
<1>4. k \in DOMAIN plan /\ saved[k] \in plan[k].outcomes /\ plan \in Plans
  BY <1>2, Traces DEF SavedInv
<1> DEFINE spans == saved[k].spans
<1>5. /\ IsList(spans)
      /\ \A i \in DOMAIN spans :
           spans[i].Name = "reachable_addrs_changed" => spans[i].Attributes.elapsed_ms \in Nat
  BY <1>4, Zenon DEF AsWritten
<1> HIDE DEF spans
<1>6. parse_trace(f) = spans
  BY <1>1, <1>3 DEF spans
<1>7. DOMAIN spans = 1..Len(spans) /\ Len(spans) \in Nat
  BY <1>5 DEF IsList
<1>8. Lists(f, key) \in SUBSET (DOMAIN spans) /\ Lists(f, key) \in SUBSET Nat
  BY <1>6, <1>7 DEF Lists
<1>9. Min(Lists(f, key)) \in Lists(f, key)
  BY <1>8, Smallest
<1>10. /\ Min(Lists(f, key)) \in DOMAIN spans
       /\ spans[Min(Lists(f, key))].Name = "reachable_addrs_changed"
  BY <1>6, <1>9, Zenon DEF Lists
<1> QED
  BY <1>5, <1>6, <1>10, Zenon

\* analyze.py: whatever files are left in a directory, false verdicts are of different
\* runs, the statistics are of runs and the smallest, p95 and largest time are in order,
\* as is the median unless there are two.
THEOREM MetricsAreInOrder == AsWritten(Plans) => (Spec => []MetricsInOrder)
<1> SUFFICES ASSUME AsWritten(Plans) PROVE Spec => []MetricsInOrder
  OBVIOUS
<1>1. SavedInv /\ OnDisk => MetricsInOrder
  <2> SUFFICES ASSUME SavedInv, OnDisk, NEW d
               PROVE  LET files == Files(d, {"json", "toggles.json", "assertions.json"}) IN
                      /\ compute_fnr(files).false + compute_fpr(files).false <= Cardinality(Runs(d))
                      /\ \A g \in {"reachable", "unreachable"} :
                           LET times == Times(files, g) IN times # <<>> =>
                           /\ stats(times).n <= Cardinality(Runs(d))
                           /\ stats(times).min <= stats(times).p95
                           /\ stats(times).p95 <= stats(times).max
                           /\ stats(times).n # 2 => stats(times).median2 <= 2 * stats(times).p95
    BY Zenon DEF MetricsInOrder
  <2> DEFINE files == Files(d, {"json", "toggles.json", "assertions.json"})
             fn == Judged(files, TRUE, FALSE)
             fp == Judged(files, FALSE, TRUE)
             m == Cardinality(Runs(d))
  <2>1. compute_fnr(files).false + compute_fpr(files).false <= m
    <3>1. fn \cup fp \in SUBSET files /\ fn \in SUBSET (fn \cup fp) /\ fp \in SUBSET (fn \cup fp)
          /\ fn \cap fp = {} /\ \A f \in fn \cup fp : f[3] = "json"
      <4> HIDE DEF files
      <4>1. \A f \in fn : f \in files /\ (Public(f) # {}) = TRUE
        BY DEF Judged
      <4>2. \A f \in fp : f \in files /\ (Public(f) # {}) = FALSE /\ (Lists(f, "reachable") # {}) = TRUE
        BY DEF Judged
      <4> HIDE DEF fn, fp
      <4> QED BY <4>1, <4>2, NoTrace
    <3>2. IsFiniteSet(fn \cup fp) /\ Cardinality(fn \cup fp) <= m
      <4> HIDE DEF fn, fp
      <4> QED BY <3>1, OfTraces
    <3>3. Cardinality(fn \cup fp) = Cardinality(fn) + Cardinality(fp)
      <4> HIDE DEF fn, fp
      <4> QED BY <3>1, <3>2, FS_Subset, Apart
    <3>4. compute_fnr(files).false = Cardinality(fn) /\ compute_fpr(files).false = Cardinality(fp)
      BY DEF compute_fnr, compute_fpr
    <3> HIDE DEF fn, fp, files, m
    <3> QED BY <3>2, <3>3, <3>4
  <2>2. ASSUME NEW g \in {"reachable", "unreachable"}, Times(files, g) # <<>>
        PROVE  LET times == Times(files, g) IN
               /\ stats(times).n <= m
               /\ stats(times).min <= stats(times).p95 /\ stats(times).p95 <= stats(times).max
               /\ stats(times).n # 2 => stats(times).median2 <= 2 * stats(times).p95
    <3> DEFINE G == Group(files, g)
               fs == SetToSeq(G)
               times == Times(files, g)
    <3>1. G \in SUBSET files /\ \A f \in G : Lists(f, g) # {}
      <4> HIDE DEF files
      <4> QED BY DEF Group
    <3>2. \A f \in G : f \in DOMAIN disk /\ f[3] = "json"
      <4>1. files \subseteq DOMAIN disk
        BY DEF Files
      <4> HIDE DEF files, G
      <4> QED BY <3>1, <4>1, NoTrace
    <3>3. IsFiniteSet(G) /\ Cardinality(G) <= m
      <4> HIDE DEF G
      <4> QED BY <3>1, <3>2, OfTraces
    <3>4. Cardinality(G) \in Nat
      BY <3>3, FS_CardinalityType
    <3>5. fs \in [1..Cardinality(G) -> G]
      BY <3>3, SeqOfSet
    <3>6. times = [i \in DOMAIN fs |-> parse_trace(fs[i])[Min(Lists(fs[i], g))].Attributes.elapsed_ms]
      BY Zenon DEF Times
    <3>7. \A f \in G : parse_trace(f)[Min(Lists(f, g))].Attributes.elapsed_ms \in Nat
      <4> HIDE DEF G
      <4> QED BY <3>1, <3>2, TimesAreNat
    <3> HIDE DEF G, fs, times
    <3>8. times \in [1..Cardinality(G) -> Nat]
      BY <3>5, <3>6, <3>7
    <3>9. Cardinality(G) # 0
      <4>1. times # <<>>
        BY <2>2 DEF times
      <4>2. Cardinality(G) = 0 => times = <<>>
        BY <3>8
      <4> QED BY <4>1, <4>2
    <3>10. /\ stats(times).n = Cardinality(G)
           /\ stats(times).min <= stats(times).p95 /\ stats(times).p95 <= stats(times).max
           /\ Cardinality(G) # 2 => stats(times).median2 <= 2 * stats(times).p95
      BY <3>4, <3>8, <3>9, StatsInOrder
    <3> QED
      BY <3>3, <3>10, Zenon DEF times
  <2> QED
    <3> HIDE DEF files, m
    <3> QED BY <2>1, <2>2, Zenon DEF files, m
<1> QED
  BY <1>1, OnDiskInvariant, PTL
=============================================================================
