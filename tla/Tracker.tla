------------------------------ MODULE Tracker -------------------------------
(***************************************************************************)
(* What the three clients write into the trace about the reachability of    *)
(* their addresses.                                                         *)
(*   "go"    main.go handleEvent writes what go-libp2p's event bus says;    *)
(*           the patched library adds a span for every probe                *)
(*   "rust"  main.rs handle_autonat_event keeps two sets of its own and     *)
(*           writes them after every probe                                  *)
(*   "js"    index.ts infers reachability from the external addresses that  *)
(*           the node announces, and writes when they changed               *)
(***************************************************************************)
EXTENDS Naturals, Sequences

CONSTANTS
  Impls,        \* the clients
  Addr,         \* addresses the client may have or be told of
  External,     \* those of the public network
  MaxSpans      \* bound: spans of a trace

ASSUME TrackerAssumption ==
  /\ Impls \subseteq {"go", "rust", "js"}
  /\ External \subseteq Addr
  /\ MaxSpans \in Nat

VARIABLES
  impl,         \* the client at hand
  host,         \* addresses of the host, as it last announced them
  verdict,      \* the last answer to a probe of each address
  reachable,    \* reachable, reachable_addrs, reachableAddrs
  unreachable,  \* unreachable, unreachable_addrs, unreachableAddrs
  previous,     \* index.ts previousExternalAddrs
  trace         \* the spans, as they were emitted

tracked == <<host, verdict, reachable, unreachable, previous>>
vars == <<impl, tracked, trace>>

Names == {"autonatv2.probe", "reachable_addrs_changed", "addresses_updated"}
Attributes == {"public", "reachable", "unreachable",
               "unknown", "current", "removed"}

TypeOK ==
  /\ impl \in Impls
  /\ host \subseteq Addr
  /\ verdict \in [Addr -> {"none", "public", "private"}]
  /\ reachable \subseteq Addr /\ unreachable \subseteq Addr
  /\ previous \subseteq External
  /\ Len(trace) <= MaxSpans
  /\ \A k \in DOMAIN trace :
       /\ trace[k].name \in Names /\ trace[k].elapsed_ms \in 1..k
       /\ DOMAIN trace[k].attrs \subseteq Attributes
       /\ \A a \in DOMAIN trace[k].attrs : trace[k].attrs[a] \subseteq Addr

Init ==
  /\ impl \in Impls
  /\ host = {} /\ verdict = [a \in Addr |-> "none"]
  /\ reachable = {} /\ unreachable = {} /\ previous = {} /\ trace = <<>>

MutEmitSpan(name, attrs) ==      \* mutant: the start time is taken at each span
  /\ Len(trace) < MaxSpans
  /\ trace' = Append(trace, [name |-> name, attrs |-> attrs, elapsed_ms |-> 0])

\* One span; attrs holds its lists of addresses, elapsed_ms grows with it.
emitSpan(name, attrs) ==
  /\ Len(trace) < MaxSpans
  /\ trace' = Append(trace, [name |-> name, attrs |-> attrs,
                             elapsed_ms |-> Len(trace) + 1])

ReachableAddrsChanged(unknown) ==
  emitSpan("reachable_addrs_changed",
    [reachable |-> reachable', unreachable |-> unreachable', unknown |-> unknown])

Known == {a \in Addr : verdict[a] # "none"}
Answered(a, ok) ==
  verdict' = [verdict EXCEPT ![a] = IF ok THEN "public" ELSE "private"]

-----------------------------------------------------------------------------
(* The Go client. *)

\* The patched library: a probe of an address of the host is answered.
ProbeSpan(a, ok) ==
  /\ impl = "go" /\ a \in host
  /\ Answered(a, ok)
  /\ emitSpan("autonatv2.probe", [public |-> IF ok THEN {a} ELSE {}])
  /\ UNCHANGED <<impl, host, reachable, unreachable, previous>>

\* EvtLocalAddressesUpdated.
AddressesUpdated(current) ==
  /\ impl = "go" /\ current # host
  /\ host' = current
  /\ emitSpan("addresses_updated",
       [current |-> current, removed |-> host \ current])
  /\ UNCHANGED <<impl, verdict, reachable, unreachable, previous>>

\* EvtHostReachableAddrsChanged: the library's opinion of the host's addresses,
\* which it changes only upon an answer; it may wait for more of them, and what
\* it has no opinion of is unknown.
HostReachableAddrsChanged(r, u) ==
  /\ impl = "go"
  /\ r \cup u \subseteq host /\ r \cap u = {}
  /\ \A a \in r \ reachable : verdict[a] = "public"
  /\ \A a \in u \ unreachable : verdict[a] = "private"
  /\ reachable' = r /\ unreachable' = u
  /\ ReachableAddrsChanged(host \ (r \cup u))
  /\ UNCHANGED <<impl, host, verdict, previous>>

-----------------------------------------------------------------------------
(* The Rust client. *)

MutAutonatEvent(a, ok) ==       \* mutant: the other set keeps the address
  /\ impl = "rust"
  /\ Answered(a, ok)
  /\ reachable' = IF ok THEN reachable \cup {a} ELSE reachable
  /\ unreachable' = IF ok THEN unreachable ELSE unreachable \cup {a}
  /\ ReachableAddrsChanged({})
  /\ UNCHANGED <<impl, host, previous>>

\* The result of a probe moves the address to its set; both are written.
AutonatEvent(a, ok) ==
  /\ impl = "rust"
  /\ Answered(a, ok)
  /\ reachable' = IF ok THEN reachable \cup {a} ELSE reachable \ {a}
  /\ unreachable' = IF ok THEN unreachable \ {a} ELSE unreachable \cup {a}
  /\ ReachableAddrsChanged({})
  /\ UNCHANGED <<impl, host, previous>>

-----------------------------------------------------------------------------
(* The JavaScript client. *)

MutPeerUpdate(all) ==           \* mutant: the set announced last is not kept
  /\ impl = "js"
  /\ host' = all
  /\ LET external == all \cap External IN
     /\ external # previous
     /\ reachable' = (reachable \cup external) \ (previous \ external)
     /\ unreachable' = (unreachable \ external) \cup (previous \ external)
     /\ ReachableAddrsChanged({})
  /\ UNCHANGED <<impl, verdict, previous>>

\* self:peer:update with the addresses the node now announces.  What joins the
\* external ones is reachable, what leaves them unreachable.
PeerUpdate(all) ==
  /\ impl = "js"
  /\ host' = all
  /\ LET external == all \cap External
         added == external \ previous
         removed == previous \ external IN
     IF added \cup removed = {}
     THEN UNCHANGED <<reachable, unreachable, previous, trace>>
     ELSE /\ reachable' = (reachable \cup added) \ removed
          /\ unreachable' = (unreachable \ added) \cup removed
          /\ previous' = external
          /\ ReachableAddrsChanged({})
  /\ UNCHANGED <<impl, verdict>>

Next ==
  \/ \E a \in Addr, ok \in BOOLEAN : ProbeSpan(a, ok) \/ AutonatEvent(a, ok)
  \/ \E S \in SUBSET Addr : AddressesUpdated(S) \/ PeerUpdate(S)
  \/ \E r, u \in SUBSET Addr : HostReachableAddrsChanged(r, u)

Spec == Init /\ [][Next]_vars

-----------------------------------------------------------------------------
(* Properties. *)

Changes == {k \in DOMAIN trace : trace[k].name = "reachable_addrs_changed"}

\* The Rust client's sets and its last span hold each address under the latest
\* answer of a server, whatever the order of the probes was.
LatestVerdict ==
  impl = "rust" =>
    /\ \A a \in Addr :
         /\ verdict[a] = "public" <=> a \in reachable
         /\ verdict[a] = "private" <=> a \in unreachable
    /\ trace # <<>> => LET last == trace[Len(trace)].attrs IN
         last.reachable \cup last.unreachable = Known

EverReachable == UNION {trace[k].attrs.reachable : k \in Changes}

\* The JavaScript client writes each change once: what is reachable is what the
\* node announces, an address is unreachable when it was announced before, and
\* two spans in a row are never the same.
AnnouncedIsReachable ==
  impl = "js" =>
    /\ reachable = host \cap External
    /\ unreachable = EverReachable \ host
    /\ \A k \in Changes \ {1} : trace[k].attrs # trace[k - 1].attrs
=============================================================================
