---------------------------- MODULE AnalysisProofs ----------------------------
(***************************************************************************)
(* Invariance proofs about what the clients write into their traces and     *)
(* what is concluded from them, for any addresses and any number of         *)
(* answers, announcements and spans.                                        *)
(***************************************************************************)
EXTENDS Analysis, FiniteSetTheorems, TLAPS

Lists == UNION {[S -> SUBSET Addr] : S \in SUBSET Attributes}
Span == [name : Names, attrs : Lists, elapsed_ms : Nat \ {0}]

TraceOK ==
  /\ trace \in Seq(Span)
  /\ \A k \in DOMAIN trace : trace[k].elapsed_ms <= k

\* The JavaScript client remembers what it announced and what it wrote of it last,
\* and has never written an address that is not external.
JsInv ==
  impl = "js" =>
    /\ previous = host \cap External
    /\ \A k \in DOMAIN trace :
         /\ trace[k].name = "reachable_addrs_changed"
         /\ trace[k].attrs.reachable \subseteq External
    /\ trace # <<>> => trace[Len(trace)].attrs.reachable = reachable
    /\ trace = <<>> => reachable = {}

IInv == TypeOK /\ TraceOK /\ LatestVerdict /\ JsInv /\ AnnouncedIsReachable

-----------------------------------------------------------------------------
(* Spans. *)

\* What emitSpan leaves of the trace.
LEMMA Emits ==
  ASSUME TypeOK, TraceOK, NEW name \in Names, NEW attrs \in Lists, emitSpan(name, attrs)
  PROVE  /\ TraceOK'
         /\ Len(trace') = Len(trace) + 1 /\ Len(trace') <= MaxSpans
         /\ trace'[Len(trace')].name = name /\ trace'[Len(trace')].attrs = attrs
         /\ \A k \in DOMAIN trace : k \in DOMAIN trace' /\ trace'[k] = trace[k]
         /\ \A k \in DOMAIN trace' : k \in DOMAIN trace \/ k = Len(trace')
         /\ trace' # <<>>
<1> DEFINE span == [name |-> name, attrs |-> attrs, elapsed_ms |-> Len(trace) + 1]
<1>1. trace \in Seq(Span) /\ Len(trace) \in Nat /\ DOMAIN trace = 1..Len(trace)
  BY DEF TraceOK
<1>2. span \in Span
  BY <1>1 DEF Span
<1>3. trace' = Append(trace, span) /\ Len(trace) < MaxSpans
  BY DEF emitSpan
<1>4. span.name = name /\ span.attrs = attrs /\ span.elapsed_ms = Len(trace) + 1
  OBVIOUS
<1> HIDE DEF span
<1>5. /\ trace' \in Seq(Span) /\ Len(trace') = Len(trace) + 1
      /\ DOMAIN trace' = 1..Len(trace) + 1
      /\ trace'[Len(trace) + 1] = span
      /\ \A k \in 1..Len(trace) : trace'[k] = trace[k]
  BY <1>1, <1>2, <1>3
<1>6. Len(trace') <= MaxSpans
  BY <1>1, <1>3, <1>5, TrackerAssumption
<1>7. \A k \in DOMAIN trace' : trace'[k].elapsed_ms <= k
  BY <1>1, <1>4, <1>5 DEF TraceOK
<1>8. TraceOK'
  <2>1. (trace \in Seq(Span))'
    BY <1>5
  <2> QED
    BY <1>7, <2>1 DEF TraceOK
<1> QED
  BY <1>1, <1>4, <1>5, <1>6, <1>8

\* The lists of each kind of span.
LEMMA ListsType ==
  ASSUME NEW a \in SUBSET Addr, NEW b \in SUBSET Addr, NEW c \in SUBSET Addr
  PROVE  /\ [public |-> a] \in Lists
         /\ [current |-> a, removed |-> b] \in Lists
         /\ [reachable |-> a, unreachable |-> b, unknown |-> c] \in Lists
<1>1. [public |-> a] \in [{"public"} -> SUBSET Addr]
  OBVIOUS
<1>2. [current |-> a, removed |-> b] \in [{"current", "removed"} -> SUBSET Addr]
  OBVIOUS
<1>3. [reachable |-> a, unreachable |-> b, unknown |-> c]
        \in [{"reachable", "unreachable", "unknown"} -> SUBSET Addr]
  OBVIOUS
<1> QED
  BY <1>1, <1>2, <1>3 DEF Lists, Attributes

\* The types of the trace say what TypeOK asks of it.
LEMMA Typed ==
  ASSUME TraceOK, Len(trace) <= MaxSpans, impl \in Impls, host \subseteq Addr,
         verdict \in [Addr -> {"none", "public", "private"}],
         reachable \subseteq Addr, unreachable \subseteq Addr, previous \subseteq External
  PROVE  TypeOK
<1>1. ASSUME NEW k \in DOMAIN trace
      PROVE  /\ trace[k].name \in Names /\ trace[k].elapsed_ms \in 1..k
             /\ DOMAIN trace[k].attrs \subseteq Attributes
             /\ \A a \in DOMAIN trace[k].attrs : trace[k].attrs[a] \subseteq Addr
  <2>1. trace[k] \in Span /\ trace[k].elapsed_ms <= k /\ k \in Nat
    BY DEF TraceOK
  <2>2. trace[k].name \in Names /\ trace[k].attrs \in Lists
        /\ trace[k].elapsed_ms \in Nat \ {0}
    BY <2>1 DEF Span
  <2> QED
    BY <2>1, <2>2 DEF Lists
<1> QED
  BY <1>1 DEF TypeOK

-----------------------------------------------------------------------------
(* The invariant of the clients. *)

LEMMA InitIInv == Init => IInv
<1> SUFFICES ASSUME Init PROVE IInv
  OBVIOUS
<1>1. trace \in Seq(Span) /\ Len(trace) = 0 /\ DOMAIN trace = {} /\ trace = <<>>
  BY DEF Init
<1>2. TypeOK /\ TraceOK
  BY <1>1, TrackerAssumption DEF Init, TypeOK, TraceOK
<1>3. LatestVerdict
  BY <1>1 DEF Init, LatestVerdict
<1>4. JsInv /\ AnnouncedIsReachable
  BY <1>1 DEF Init, JsInv, AnnouncedIsReachable, Changes, EverReachable
<1> QED
  BY <1>2, <1>3, <1>4 DEF IInv

\* The Go client: only the types are asked of it.
LEMMA StepGo ==
  ASSUME IInv, impl = "go",
         \/ \E a \in Addr, ok \in BOOLEAN : ProbeSpan(a, ok)
         \/ \E S \in SUBSET Addr : AddressesUpdated(S)
         \/ \E r, u \in SUBSET Addr : HostReachableAddrsChanged(r, u)
  PROVE  IInv'
<1> USE DEF IInv
<1>1. ASSUME NEW name \in Names, NEW attrs \in Lists, emitSpan(name, attrs), impl' = impl,
             host' \subseteq Addr, verdict' \in [Addr -> {"none", "public", "private"}],
             reachable' \subseteq Addr, unreachable' \subseteq Addr,
             previous' = previous
      PROVE  IInv'
  <2>1. TraceOK' /\ Len(trace') <= MaxSpans
    BY <1>1, Emits
  <2>2. (/\ TraceOK /\ Len(trace) <= MaxSpans /\ impl \in Impls /\ host \subseteq Addr
         /\ verdict \in [Addr -> {"none", "public", "private"}]
         /\ reachable \subseteq Addr /\ unreachable \subseteq Addr
         /\ previous \subseteq External)'
    BY <1>1, <2>1 DEF TypeOK
  <2>3. TypeOK'
    BY <2>2, Typed, PTL
  <2> QED
    BY <1>1, <2>1, <2>3 DEF LatestVerdict, JsInv, AnnouncedIsReachable
<1>2. ASSUME NEW a \in Addr, NEW ok \in BOOLEAN, ProbeSpan(a, ok) PROVE IInv'
  <2> DEFINE public == IF ok THEN {a} ELSE {}
  <2>1. "autonatv2.probe" \in Names /\ [public |-> public] \in Lists
    BY ListsType DEF Names
  <2>2. verdict' \in [Addr -> {"none", "public", "private"}]
    BY <1>2 DEF ProbeSpan, Answered, TypeOK
  <2>3. emitSpan("autonatv2.probe", [public |-> public])
    BY <1>2 DEF ProbeSpan
  <2>4. UNCHANGED <<impl, host, reachable, unreachable, previous>>
    BY <1>2 DEF ProbeSpan
  <2> HIDE DEF public
  <2> QED
    BY <1>1, <2>1, <2>2, <2>3, <2>4 DEF TypeOK
<1>3. ASSUME NEW S \in SUBSET Addr, AddressesUpdated(S) PROVE IInv'
  <2>1. "addresses_updated" \in Names /\ [current |-> S, removed |-> host \ S] \in Lists
    BY ListsType DEF Names, TypeOK
  <2>2. emitSpan("addresses_updated", [current |-> S, removed |-> host \ S])
    BY <1>3 DEF AddressesUpdated
  <2>3. host' = S /\ UNCHANGED <<impl, verdict, reachable, unreachable, previous>>
    BY <1>3 DEF AddressesUpdated
  <2> QED
    BY <1>1, <2>1, <2>2, <2>3 DEF TypeOK
<1>4. ASSUME NEW r \in SUBSET Addr, NEW u \in SUBSET Addr, HostReachableAddrsChanged(r, u)
      PROVE  IInv'
  <2> DEFINE lists == [reachable |-> reachable', unreachable |-> unreachable',
                       unknown |-> host \ (r \cup u)]
  <2>1. reachable' = r /\ unreachable' = u /\ UNCHANGED <<impl, host, verdict, previous>>
    BY <1>4 DEF HostReachableAddrsChanged
  <2>2. "reachable_addrs_changed" \in Names /\ lists \in Lists
    BY <2>1, ListsType DEF Names, TypeOK
  <2>3. emitSpan("reachable_addrs_changed", lists)
    BY <1>4 DEF HostReachableAddrsChanged, ReachableAddrsChanged
  <2> HIDE DEF lists
  <2> QED
    BY <1>1, <2>1, <2>2, <2>3 DEF TypeOK
<1> QED
  BY <1>2, <1>3, <1>4

\* The Rust client: its sets and its span move with the answer.
LEMMA StepRust ==
  ASSUME IInv, NEW a \in Addr, NEW ok \in BOOLEAN, AutonatEvent(a, ok)
  PROVE  IInv'
<1> USE DEF IInv
<1> DEFINE lists == [reachable |-> reachable', unreachable |-> unreachable', unknown |-> {}]
<1>1. /\ impl = "rust" /\ UNCHANGED <<impl, host, previous>>
      /\ verdict' = [verdict EXCEPT ![a] = IF ok THEN "public" ELSE "private"]
      /\ reachable' = IF ok THEN reachable \cup {a} ELSE reachable \ {a}
      /\ unreachable' = IF ok THEN unreachable \ {a} ELSE unreachable \cup {a}
      /\ emitSpan("reachable_addrs_changed", lists)
  BY DEF AutonatEvent, Answered, ReachableAddrsChanged
<1>2. reachable' \in SUBSET Addr /\ unreachable' \in SUBSET Addr
      /\ verdict' \in [Addr -> {"none", "public", "private"}]
  BY <1>1 DEF TypeOK
<1>3. "reachable_addrs_changed" \in Names /\ lists \in Lists
  BY <1>2, ListsType DEF Names
<1>4. lists.reachable = reachable' /\ lists.unreachable = unreachable'
  OBVIOUS
<1> HIDE DEF lists
<1>5. /\ TraceOK' /\ Len(trace') <= MaxSpans
      /\ trace'[Len(trace')].attrs = lists
  BY <1>1, <1>3, Emits
<1>6. TypeOK'
  <2>1. (/\ TraceOK /\ Len(trace) <= MaxSpans /\ impl \in Impls /\ host \subseteq Addr
         /\ verdict \in [Addr -> {"none", "public", "private"}]
         /\ reachable \subseteq Addr /\ unreachable \subseteq Addr
         /\ previous \subseteq External)'
    BY <1>1, <1>2, <1>5 DEF TypeOK
  <2> QED
    BY <2>1, Typed, PTL
<1>7. \A b \in Addr : /\ verdict'[b] = "public" <=> b \in reachable'
                      /\ verdict'[b] = "private" <=> b \in unreachable'
  BY <1>1 DEF LatestVerdict, TypeOK
<1>8. reachable' \cup unreachable' = Known'
  BY <1>2, <1>7 DEF Known
<1>9. LatestVerdict'
  BY <1>4, <1>5, <1>7, <1>8 DEF LatestVerdict
<1> QED
  BY <1>1, <1>5, <1>6, <1>9 DEF JsInv, AnnouncedIsReachable

\* The addresses of all the client's spans.
Written == UNION {trace[k].attrs.reachable : k \in DOMAIN trace}

LEMMA AllAreChanges ==
  ASSUME impl = "js", JsInv
  PROVE  Changes = DOMAIN trace /\ EverReachable = Written /\ Written \subseteq External
<1>1. Changes = DOMAIN trace
  BY DEF Changes, JsInv
<1>2. EverReachable = Written
  BY <1>1 DEF EverReachable, Written
<1>3. Written \subseteq External
  BY DEF Written, JsInv
<1> QED
  BY <1>1, <1>2, <1>3

\* The JavaScript client: nothing is written, as nothing external has changed ...
LEMMA StepJsQuiet ==
  ASSUME IInv, NEW all \in SUBSET Addr, PeerUpdate(all), all \cap External = previous
  PROVE  IInv'
<1> USE DEF IInv
<1>1. /\ impl = "js" /\ host' = all
      /\ UNCHANGED <<impl, verdict, reachable, unreachable, previous, trace>>
  BY DEF PeerUpdate
<1>2. TypeOK' /\ TraceOK' /\ LatestVerdict' /\ JsInv'
  BY <1>1 DEF TypeOK, TraceOK, LatestVerdict, JsInv
<1>3. Changes' = Changes /\ EverReachable' = EverReachable
  BY <1>1 DEF Changes, EverReachable
<1>4. Written \subseteq External /\ EverReachable = Written /\ unreachable = EverReachable \ host
  BY <1>1, AllAreChanges DEF AnnouncedIsReachable
<1>5. unreachable = EverReachable \ all /\ reachable = all \cap External
  BY <1>1, <1>4 DEF JsInv, AnnouncedIsReachable
<1>6. \A k \in Changes \ {1} : trace[k].attrs # trace[k - 1].attrs
  BY <1>1 DEF AnnouncedIsReachable
<1>7. (unreachable = EverReachable \ host)' /\ (reachable = host \cap External)'
  BY <1>1, <1>3, <1>5
<1>8. (\A k \in Changes \ {1} : trace[k].attrs # trace[k - 1].attrs)'
  BY <1>1, <1>3, <1>6
<1>9. AnnouncedIsReachable'
  BY <1>7, <1>8 DEF AnnouncedIsReachable
<1> QED
  BY <1>2, <1>9

\* ... or a span that differs from the one before.
LEMMA StepJsWrites ==
  ASSUME IInv, NEW all \in SUBSET Addr, PeerUpdate(all), all \cap External # previous
  PROVE  IInv'
<1> USE DEF IInv
<1> DEFINE external == all \cap External
           lists == [reachable |-> reachable', unreachable |-> unreachable', unknown |-> {}]
<1>1. /\ impl = "js" /\ host' = all /\ previous' = external /\ UNCHANGED <<impl, verdict>>
      /\ reachable' = (reachable \cup (external \ previous)) \ (previous \ external)
      /\ unreachable' = (unreachable \ (external \ previous)) \cup (previous \ external)
      /\ emitSpan("reachable_addrs_changed", lists)
  BY DEF PeerUpdate, ReachableAddrsChanged
<1>2. reachable = previous /\ previous = host \cap External /\ External \subseteq Addr
  BY <1>1, TrackerAssumption DEF JsInv, AnnouncedIsReachable
<1>3. reachable' = external /\ reachable' # reachable
  BY <1>1, <1>2
<1>4. reachable' \in SUBSET Addr /\ unreachable' \in SUBSET Addr
  BY <1>1, <1>2 DEF TypeOK
<1>5. "reachable_addrs_changed" \in Names /\ lists \in Lists
  BY <1>4, ListsType DEF Names
<1>6. lists.reachable = reachable'
  OBVIOUS
<1> HIDE DEF lists
<1>7. /\ TraceOK' /\ Len(trace') = Len(trace) + 1 /\ Len(trace') <= MaxSpans
      /\ trace'[Len(trace')].name = "reachable_addrs_changed"
      /\ trace'[Len(trace')].attrs = lists
      /\ \A k \in DOMAIN trace : k \in DOMAIN trace' /\ trace'[k] = trace[k]
      /\ \A k \in DOMAIN trace' : k \in DOMAIN trace \/ k = Len(trace')
      /\ trace' # <<>>
  BY <1>1, <1>5, Emits
<1>8. TypeOK'
  <2>1. (/\ TraceOK /\ Len(trace) <= MaxSpans /\ impl \in Impls /\ host \subseteq Addr
         /\ verdict \in [Addr -> {"none", "public", "private"}]
         /\ reachable \subseteq Addr /\ unreachable \subseteq Addr
         /\ previous \subseteq External)'
    BY <1>1, <1>4, <1>7 DEF TypeOK
  <2> QED
    BY <2>1, Typed, PTL
<1>9. JsInv'
  BY <1>1, <1>3, <1>6, <1>7 DEF JsInv
<1>10. /\ Changes = DOMAIN trace /\ EverReachable = Written /\ Written \subseteq External
       /\ (Changes = DOMAIN trace /\ EverReachable = Written /\ Written \subseteq External)'
  <2>1. (impl = "js")'
    BY <1>1
  <2> QED
    BY <1>1, <1>9, <2>1, AllAreChanges, PTL
<1>11. /\ DOMAIN trace = 1..Len(trace) /\ Len(trace) \in Nat
       /\ DOMAIN trace' = 1..Len(trace) + 1
  BY <1>7 DEF TraceOK
<1>12. Written' = Written \cup external
  <2>1. Written' = UNION {trace'[k].attrs.reachable : k \in DOMAIN trace'}
    BY DEF Written
  <2>2. trace'[Len(trace) + 1].attrs.reachable = external
    BY <1>3, <1>6, <1>7
  <2>3. \A k \in 1..Len(trace) : trace'[k] = trace[k]
    BY <1>7, <1>11
  <2> QED
    BY <1>11, <2>1, <2>2, <2>3 DEF Written
<1>13. Written \subseteq External /\ unreachable = Written \ host /\ previous \subseteq Written
  <2>1. Written \subseteq External /\ unreachable = Written \ host
    BY <1>1, <1>10 DEF AnnouncedIsReachable
  <2>2. CASE trace = <<>>
    BY <1>1, <1>2, <2>1, <2>2 DEF JsInv
  <2>3. CASE trace # <<>>
    <3>1. Len(trace) \in DOMAIN trace
      BY <1>11, <2>3 DEF TraceOK
    <3>2. trace[Len(trace)].attrs.reachable = reachable
      BY <1>1, <2>3 DEF JsInv
    <3> QED
      BY <1>2, <2>1, <3>1, <3>2 DEF Written
  <2> QED
    BY <2>2, <2>3
<1>14. unreachable' = Written' \ all
  BY <1>1, <1>2, <1>12, <1>13
<1>15. \A k \in DOMAIN trace' \ {1} : trace'[k].attrs # trace'[k - 1].attrs
  <2> SUFFICES ASSUME NEW k \in DOMAIN trace' \ {1}
               PROVE  trace'[k].attrs # trace'[k - 1].attrs
    OBVIOUS
  <2>1. CASE k \in DOMAIN trace
    <3>1. k - 1 \in DOMAIN trace /\ trace[k].attrs # trace[k - 1].attrs
      BY <1>1, <1>10, <1>11, <2>1 DEF AnnouncedIsReachable
    <3> QED
      BY <1>7, <2>1, <3>1
  <2>2. CASE k = Len(trace')
    <3>1. Len(trace) \in DOMAIN trace /\ k - 1 = Len(trace) /\ trace # <<>>
      BY <1>7, <1>11, <2>2
    <3>2. trace[Len(trace)].attrs.reachable = reachable
      BY <1>1, <3>1 DEF JsInv
    <3>3. trace'[k].attrs.reachable # trace'[k - 1].attrs.reachable
      BY <1>3, <1>6, <1>7, <2>2, <3>1, <3>2
    <3> QED
      BY <3>3
  <2> QED
    BY <1>7, <2>1, <2>2
<1>16. AnnouncedIsReachable'
  <2>1. (reachable = host \cap External)'
    BY <1>1, <1>3
  <2>2. (unreachable = EverReachable \ host)'
    BY <1>1, <1>10, <1>14
  <2> QED
    BY <1>10, <1>15, <2>1, <2>2 DEF AnnouncedIsReachable
<1>17. LatestVerdict'
  BY <1>1 DEF LatestVerdict
<1> QED
  BY <1>7, <1>8, <1>9, <1>16, <1>17

\* IInv is inductive.
LEMMA StepIInv == IInv /\ [Next]_vars => IInv'
<1> SUFFICES ASSUME IInv, [Next]_vars PROVE IInv'
  OBVIOUS
<1>1. ASSUME NEW a \in Addr, NEW ok \in BOOLEAN, ProbeSpan(a, ok) PROVE IInv'
  BY <1>1, StepGo DEF ProbeSpan
<1>2. ASSUME NEW a \in Addr, NEW ok \in BOOLEAN, AutonatEvent(a, ok) PROVE IInv'
  BY <1>2, StepRust
<1>3. ASSUME NEW S \in SUBSET Addr, AddressesUpdated(S) PROVE IInv'
  BY <1>3, StepGo DEF AddressesUpdated
<1>4. ASSUME NEW S \in SUBSET Addr, PeerUpdate(S) PROVE IInv'
  BY <1>4, StepJsQuiet, StepJsWrites
<1>5. ASSUME NEW r \in SUBSET Addr, NEW u \in SUBSET Addr,
             HostReachableAddrsChanged(r, u)
      PROVE  IInv'
  BY <1>5, StepGo DEF HostReachableAddrsChanged
<1>6. CASE UNCHANGED vars
  BY <1>6 DEF vars, tracked, IInv, TypeOK, TraceOK, LatestVerdict, Known, JsInv,
     AnnouncedIsReachable, Changes, EverReachable
<1> QED
  BY <1>1, <1>2, <1>3, <1>4, <1>5, <1>6 DEF Next

LEMMA Invariance == Spec => []IInv
BY StepIInv, InitIInv, PTL DEF Spec

-----------------------------------------------------------------------------
(* The theorems about the clients. *)

\* The three clients keep their types, and elapsed_ms never runs ahead.
THEOREM TypeCorrect == Spec => []TypeOK
<1>1. IInv => TypeOK
  BY DEF IInv
<1> QED
  BY <1>1, Invariance, PTL

\* handle_autonat_event: in whatever order answers arrive, the Rust client's sets
\* and its last span hold each address under the latest answer about it.
THEOREM LatestVerdictIsWritten == Spec => []LatestVerdict
<1>1. IInv => LatestVerdict
  BY DEF IInv
<1> QED
  BY <1>1, Invariance, PTL

\* index.ts, self:peer:update: what the JavaScript client calls reachable is what
\* its node announces, unreachable is what it once announced, and no two spans in
\* a row are the same.
THEOREM AnnouncedIsWritten == Spec => []AnnouncedIsReachable
<1>1. IInv => AnnouncedIsReachable
  BY DEF IInv
<1> QED
  BY <1>1, Invariance, PTL
-----------------------------------------------------------------------------
(* What a trace tells of the client. *)

\* A span of the trace says that a server answered "public" for a.
Probed(a) ==
  \E k \in DOMAIN trace :
    /\ trace[k].name = "autonatv2.probe"
    /\ "public" \in DOMAIN trace[k].attrs /\ a \in trace[k].attrs.public

\* The Go client has a span for each answer that an address is reachable, and calls
\* no other address reachable.
GoInv ==
  impl = "go" =>
    /\ \A a \in Addr : verdict[a] = "public" => Probed(a)
    /\ \A a \in reachable : Probed(a)
    /\ \A k \in Changes : \A a \in trace[k].attrs.reachable : Probed(a)

\* A change is written with both sets.
SpansInv ==
  /\ \A k \in Changes : {"reachable", "unreachable"} \subseteq DOMAIN trace[k].attrs
  /\ GoInv

LEMMA EmitsSpan ==
  ASSUME IInv, SpansInv, UNCHANGED impl,
         NEW name \in Names, NEW attrs \in Lists, emitSpan(name, attrs),
         name = "reachable_addrs_changed" =>
           /\ {"reachable", "unreachable"} \subseteq DOMAIN attrs
           /\ attrs["reachable"] = reachable',
         impl = "go" => \A a \in Addr : verdict'[a] = "public" =>
           \/ verdict[a] = "public"
           \/ name = "autonatv2.probe" /\ "public" \in DOMAIN attrs /\ a \in attrs["public"],
         impl = "go" => \A a \in reachable' : a \in reachable \/ verdict[a] = "public",
         reachable \subseteq Addr, reachable' \subseteq Addr
  PROVE  SpansInv'
<1>1. /\ trace'[Len(trace')].name = name /\ trace'[Len(trace')].attrs = attrs
      /\ \A k \in DOMAIN trace : k \in DOMAIN trace' /\ trace'[k] = trace[k]
      /\ \A k \in DOMAIN trace' : k \in DOMAIN trace \/ k = Len(trace')
      /\ Len(trace') \in DOMAIN trace'
  <2>1. TypeOK /\ TraceOK
    BY DEF IInv
  <2>2. TraceOK' /\ Len(trace') = Len(trace) + 1
    BY <2>1, Emits
  <2>3. Len(trace) \in Nat /\ DOMAIN trace' = 1..Len(trace')
    BY <2>1, <2>2 DEF TraceOK
  <2> QED BY <2>1, <2>2, <2>3, Emits
<1>2. (\A k \in Changes : {"reachable", "unreachable"} \subseteq DOMAIN trace[k].attrs)'
  BY <1>1 DEF SpansInv, Changes
<1>3. ASSUME NEW a, Probed(a) PROVE Probed(a)'
  BY <1>1, <1>3 DEF Probed
<1>4. ASSUME impl' = "go" PROVE GoInv'
  <2>0. impl = "go" /\ GoInv
    BY <1>4 DEF SpansInv
  <2>1. ASSUME NEW a \in Addr, verdict'[a] = "public" PROVE Probed(a)'
    <3>1. CASE verdict[a] = "public"
      BY <1>3, <2>0, <3>1 DEF GoInv
    <3>2. CASE name = "autonatv2.probe" /\ "public" \in DOMAIN attrs /\ a \in attrs["public"]
      BY <1>1, <3>2 DEF Probed
    <3> QED BY <2>0, <2>1, <3>1, <3>2
  <2>2. ASSUME NEW a \in reachable' PROVE Probed(a)'
    BY <1>3, <2>0, <2>2 DEF GoInv
  <2>3. ASSUME NEW k \in Changes', NEW a \in trace'[k].attrs.reachable PROVE Probed(a)'
    <3>1. k \in DOMAIN trace' /\ trace'[k].name = "reachable_addrs_changed"
      BY <2>3 DEF Changes
    <3>2. CASE k \in DOMAIN trace
      <4>1. k \in Changes /\ a \in trace[k].attrs.reachable
        BY <1>1, <2>3, <3>1, <3>2 DEF Changes
      <4> QED BY <1>3, <2>0, <4>1 DEF GoInv
    <3>3. CASE k = Len(trace')
      <4>1. a \in reachable'
        BY <1>1, <2>3, <3>1, <3>3
      <4> QED BY <2>2, <4>1
    <3> QED BY <1>1, <3>1, <3>2, <3>3
  <2>4. (\A a \in Addr : verdict[a] = "public" => Probed(a))'
    BY <2>1
  <2>5. (\A a \in reachable : Probed(a))'
    BY <2>2
  <2>6. (\A k \in Changes : \A a \in trace[k].attrs.reachable : Probed(a))'
    BY <2>3
  <2> QED BY <2>4, <2>5, <2>6 DEF GoInv
<1>5. GoInv'
  BY <1>4 DEF GoInv
<1> QED
  BY <1>2, <1>5 DEF SpansInv

LEMMA StepSpans == IInv /\ SpansInv /\ [Next]_vars => SpansInv'
<1> SUFFICES ASSUME IInv, SpansInv, [Next]_vars PROVE SpansInv'
  OBVIOUS
<1>0. /\ reachable \subseteq Addr /\ unreachable \subseteq Addr /\ host \subseteq Addr
      /\ verdict \in [Addr -> {"none", "public", "private"}]
      /\ reachable' \subseteq Addr /\ unreachable' \subseteq Addr /\ host' \subseteq Addr
  <2>1. IInv'
    BY StepIInv
  <2> QED BY <2>1 DEF IInv, TypeOK
<1>1. ASSUME NEW a \in Addr, NEW ok \in BOOLEAN, ProbeSpan(a, ok) PROVE SpansInv'
  <2> DEFINE attrs == [public |-> IF ok THEN {a} ELSE {}]
  <2>1. emitSpan("autonatv2.probe", attrs) /\ attrs \in Lists /\ UNCHANGED impl
    BY <1>1, ListsType DEF ProbeSpan
  <2>2. \A b \in Addr : verdict'[b] = "public" =>
          \/ verdict[b] = "public"
          \/ "public" \in DOMAIN attrs /\ b \in attrs["public"]
    BY <1>0, <1>1 DEF ProbeSpan, Answered
  <2>3. "autonatv2.probe" \in Names /\ reachable' = reachable
    BY <1>1 DEF Names, ProbeSpan
  <2> HIDE DEF attrs
  <2> QED BY <1>0, <2>1, <2>2, <2>3, EmitsSpan
<1>2. ASSUME NEW S \in SUBSET Addr, AddressesUpdated(S) PROVE SpansInv'
  <2> DEFINE attrs == [current |-> S, removed |-> host \ S]
  <2>1. emitSpan("addresses_updated", attrs) /\ attrs \in Lists /\ UNCHANGED <<impl, verdict, reachable>>
    BY <1>0, <1>2, ListsType DEF AddressesUpdated
  <2>2. "addresses_updated" \in Names
    BY DEF Names
  <2> HIDE DEF attrs
  <2> QED BY <1>0, <2>1, <2>2, EmitsSpan
<1>3. ASSUME NEW unknown \in SUBSET Addr, ReachableAddrsChanged(unknown), UNCHANGED impl,
             impl = "go" =>
               /\ UNCHANGED verdict
               /\ \A a \in reachable' : a \in reachable \/ verdict[a] = "public"
      PROVE  SpansInv'
  <2> DEFINE attrs == [reachable |-> reachable', unreachable |-> unreachable',
                       unknown |-> unknown]
  <2>1. emitSpan("reachable_addrs_changed", attrs) /\ attrs \in Lists
    BY <1>0, <1>3, ListsType DEF ReachableAddrsChanged
  <2>2. "reachable_addrs_changed" \in Names /\ {"reachable", "unreachable"} \subseteq DOMAIN attrs
        /\ attrs["reachable"] = reachable'
    BY DEF Names
  <2> HIDE DEF attrs
  <2> QED BY <1>0, <1>3, <2>1, <2>2, EmitsSpan
<1>4. ASSUME UNCHANGED <<impl, verdict, reachable, trace>> PROVE SpansInv'
  BY <1>4 DEF SpansInv, GoInv, Probed, Changes
<1>5. ASSUME NEW r \in SUBSET Addr, NEW u \in SUBSET Addr, HostReachableAddrsChanged(r, u)
      PROVE  SpansInv'
  BY <1>0, <1>3, <1>5 DEF HostReachableAddrsChanged
<1>6. ASSUME NEW a \in Addr, NEW ok \in BOOLEAN, AutonatEvent(a, ok) PROVE SpansInv'
  BY <1>3, <1>6 DEF AutonatEvent
<1>7. ASSUME NEW S \in SUBSET Addr, PeerUpdate(S) PROVE SpansInv'
  <2>1. CASE UNCHANGED <<reachable, unreachable, previous, trace>>
    BY <1>4, <1>7, <2>1 DEF PeerUpdate
  <2>2. CASE ~UNCHANGED <<reachable, unreachable, previous, trace>>
    BY <1>3, <1>7, <2>2 DEF PeerUpdate
  <2> QED BY <2>1, <2>2
<1> QED
  BY <1>1, <1>2, <1>4, <1>5, <1>6, <1>7 DEF Next, vars, tracked

LEMMA SpansInvariant == Spec => []SpansInv
<1>1. Init => SpansInv
  BY DEF Init, SpansInv, GoInv, Changes
<1> QED
  BY <1>1, StepSpans, Invariance, PTL DEF Spec

-----------------------------------------------------------------------------
(* The theorems about the analysis. *)

\* A set of numbers has a least one: without it, what lies between a member and the
\* members below could be shifted down by one and lose none.
LEMMA Smallest ==
  ASSUME NEW T \in SUBSET Nat, T # {}
  PROVE  Min(T) \in T
<1> SUFFICES ASSUME \A n \in T : \E m \in T : m < n PROVE FALSE
  <2>1. ASSUME NEW n \in T, \A m \in T : n <= m PROVE Min(T) \in T
    BY <2>1 DEF Min
  <2> QED BY <2>1
<1>1. PICK x \in T : TRUE
  OBVIOUS
<1> DEFINE Left == {n \in 0..x : \E m \in T : m <= n}
           Shift == [n \in Left |-> n - 1]
<1>2. IsFiniteSet(0..x) /\ Left \in SUBSET (0..x) /\ x \in Left
  <2>1. x \in 0..x /\ x <= x
    BY <1>1
  <2>2. IsFiniteSet(0..x)
    BY <1>1, FS_Interval
  <2> QED BY <1>1, <2>1, <2>2
<1>3. IsFiniteSet(Left) /\ IsFiniteSet(Left \ {x})
  <2> HIDE DEF Left
  <2> QED BY <1>2, FS_Subset, FS_RemoveElement
<1>4. Cardinality(Left \ {x}) < Cardinality(Left)
  <2> HIDE DEF Left, Shift
  <2> QED BY <1>2, <1>3, FS_RemoveElement, FS_CardinalityType
<1>5. ASSUME NEW n \in Left PROVE n - 1 \in Left \ {x}
  <2>1. PICK m \in T, k \in T : m <= n /\ k < m
    OBVIOUS
  <2>2. k <= n - 1 /\ n - 1 \in 0..x /\ n - 1 # x
    BY <1>1, <2>1
  <2> QED BY <2>1, <2>2
<1>6. Shift \in [Left -> Left \ {x}]
  BY <1>5
<1>7. PICK i, j \in Left : i # j /\ Shift[i] = Shift[j]
  <2> HIDE DEF Left, Shift
  <2> QED BY <1>3, <1>4, <1>6, FS_PigeonHole
<1> QED
  BY <1>7

\* run.py exports spans of the trace, when the client has stopped.
FileInv ==
  /\ DOMAIN file \subseteq Nat
  /\ \A k \in DOMAIN file : \E j \in DOMAIN trace : file[k] = trace[j]

\* Exporting and analysing a trace takes no part in what the client does.
LEMMA Observes == AnalysisSpec => Spec /\ []FileInv
<1>1. AnalysisInit => Init /\ FileInv
  BY DEF AnalysisInit, FileInv
<1>2. [AnalysisNext]_avars => [Next]_vars
  BY DEF AnalysisNext, Export, avars
<1>3. FileInv /\ [AnalysisNext]_avars => FileInv'
  <2> SUFFICES ASSUME FileInv, [AnalysisNext]_avars PROVE FileInv'
    OBVIOUS
  <2>1. CASE file = <<>> /\ UNCHANGED file
    BY <2>1 DEF FileInv
  <2>2. CASE Export
    <3>1. PICK n \in DOMAIN trace : \E order \in Injection(1..n, DOMAIN trace) :
            file' = [k \in 1..n |-> trace[order[k]]]
      BY <2>2 DEF Export
    <3>2. PICK order \in Injection(1..n, DOMAIN trace) :
            file' = [k \in 1..n |-> trace[order[k]]]
      BY <3>1
    <3>3. order \in [1..n -> DOMAIN trace] /\ trace' = trace
      BY <2>2, <3>2 DEF Export, Injection, vars
    <3> QED BY <3>2, <3>3 DEF FileInv
  <2>3. CASE UNCHANGED avars
    BY <2>3 DEF FileInv, avars, vars
  <2> QED BY <2>1, <2>2, <2>3 DEF AnalysisNext
<1> QED
  BY <1>1, <1>2, <1>3, PTL DEF AnalysisSpec, Spec

AnalysisInv == IInv /\ SpansInv /\ FileInv

LEMMA AnalysisInvariant == AnalysisSpec => []AnalysisInv
BY Observes, Invariance, SpansInvariant, PTL DEF AnalysisInv

\* run.py: the lines of the file are spans of the clients.
THEOREM AnalysisTyped == AnalysisSpec => []AnalysisTypeOK
<1>1. AnalysisInv => AnalysisTypeOK
  BY DEF AnalysisInv, IInv, FileInv, AnalysisTypeOK, ToSet
<1> QED
  BY <1>1, AnalysisInvariant, PTL

\* The lines that either parser takes for the first are spans that say reachable.
LEMMA LinesOfBoth ==
  ASSUME AnalysisInv
  PROVE  /\ Matched("reachable_addrs_changed", <<"not_empty", "reachable">>)
              = NonEmpty("reachable")
         /\ \A k \in NonEmpty("reachable") :
              \E j \in SaysReachable : file[k] = trace[j]
<1>1. \A s : matches(s, "reachable_addrs_changed", <<"not_empty", "reachable">>) <=>
        s.name = "reachable_addrs_changed" /\ _list_attr(s, "reachable") # {}
  BY DEF matches
<1>2. Matched("reachable_addrs_changed", <<"not_empty", "reachable">>)
        = NonEmpty("reachable")
  BY <1>1 DEF Matched, NonEmpty, Verdicts, _session_events
<1>3. ASSUME NEW k \in NonEmpty("reachable")
      PROVE  \E j \in SaysReachable : file[k] = trace[j]
  <2>1. /\ k \in DOMAIN file /\ file[k].name = "reachable_addrs_changed"
        /\ _list_attr(file[k], "reachable") # {}
    BY <1>3 DEF NonEmpty, Verdicts, _session_events
  <2>2. PICK j \in DOMAIN trace : file[k] = trace[j]
    BY <2>1 DEF AnalysisInv, FileInv
  <2>3. j \in Changes
    BY <2>1, <2>2 DEF Changes
  <2>4. "reachable" \in DOMAIN trace[j].attrs
    BY <2>3 DEF AnalysisInv, SpansInv
  <2> QED BY <2>1, <2>2, <2>3, <2>4 DEF SaysReachable, _list_attr
<1> QED
  BY <1>2, <1>3

\* compute_fpr: as each answer that an address is reachable has left a span that is
\* looked for, the Go client is counted as a false positive only where Jaeger has
\* lost one, in whatever order it returns the others.
THEOREM GoFalsePositivesAreLosses == AnalysisSpec => []GoFalsePositiveIsLoss
<1>1. ASSUME AnalysisInv, impl = "go", FalsePositive
      PROVE  \E k \in DOMAIN trace :
               /\ trace[k].name = "autonatv2.probe" /\ trace[k].attrs.public # {}
               /\ trace[k] \notin ToSet(file)
  <2>1. ~AnyPublic /\ NonEmpty("reachable") # {}
    BY <1>1 DEF FalsePositive
  <2>2. PICK j \in SaysReachable : TRUE
    BY <1>1, <2>1, LinesOfBoth
  <2>3. PICK a \in trace[j].attrs.reachable : j \in Changes
    BY <2>2 DEF SaysReachable
  <2>4. Probed(a)
    BY <1>1, <2>3 DEF AnalysisInv, SpansInv, GoInv
  <2>5. PICK k \in DOMAIN trace :
          /\ trace[k].name = "autonatv2.probe"
          /\ "public" \in DOMAIN trace[k].attrs /\ a \in trace[k].attrs.public
    BY <2>4 DEF Probed
  <2>6. trace[k] \notin ToSet(file)
    BY <2>1, <2>5 DEF ToSet, AnyPublic, _session_events, _list_attr
  <2> QED BY <2>5, <2>6
<1>2. AnalysisInv => GoFalsePositiveIsLoss
  BY <1>1 DEF GoFalsePositiveIsLoss
<1> QED
  BY <1>2, AnalysisInvariant, PTL

\* compute_time_to_confidence, evaluate: the two parsers of a result file show one
\* time, and it is of a span in which the client calls an address reachable.
THEOREM FirstsAgree == AnalysisSpec => []ParsersAgree
<1> DEFINE said == NonEmpty("reachable")
<1>1. ASSUME AnalysisInv
      PROVE  /\ FirstOf("reachable") = ShownFirst
             /\ said = {} => ShownFirst = Missing
             /\ said # {} => \E k \in SaysReachable : trace[k].elapsed_ms = ShownFirst
             /\ said # {} => ShownFirst # Missing
  <2>1. /\ FirstOf("reachable") = ShownFirst
        /\ ShownFirst = IF said = {} THEN Missing ELSE file[Min(said)].elapsed_ms
    BY <1>1, LinesOfBoth DEF FirstOf, ShownFirst, Info
  <2>2. ASSUME said # {}
        PROVE  \E k \in SaysReachable : file[Min(said)] = trace[k]
    <3>1. said \subseteq Nat
      BY <1>1 DEF AnalysisInv, FileInv, NonEmpty, Verdicts, _session_events
    <3>2. Min(said) \in said
      <4> HIDE DEF said
      <4> QED BY <2>2, <3>1, Smallest
    <3> QED BY <1>1, <3>2, LinesOfBoth
  <2>3. \A k \in SaysReachable : trace[k].elapsed_ms # 0
    BY <1>1 DEF AnalysisInv, IInv, TypeOK, SaysReachable, Changes
  <2> HIDE DEF said
  <2> QED BY <2>1, <2>2, <2>3 DEF Missing
<1>2. ASSUME AnalysisInv PROVE ParsersAgree
  <2>1. TimeToConfidence.group = "reachable" <=> FirstOf("reachable") # Missing
    BY DEF TimeToConfidence
  <2>2. FirstOf("reachable") # Missing => TimeToConfidence.elapsed_ms = FirstOf("reachable")
    BY DEF TimeToConfidence
  <2> HIDE DEF said
  <2> QED BY <1>1, <1>2, <2>1, <2>2 DEF ParsersAgree
<1> QED
  BY <1>2, AnalysisInvariant, PTL
=============================================================================
