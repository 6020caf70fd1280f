----------------------------- MODULE Discovery ------------------------------
(***************************************************************************)
(* How a client finds its AutoNAT servers: every server writes its          *)
(* addresses to a file of the shared volume peer-addrs once it listens      *)
(* (main.go writeAddrFile); compose starts the client when the first three  *)
(* are healthy, which means that their files exist (outside compose it may  *)
(* start at any time); the client reads the directory once and dials what   *)
(* it found.  The three clients differ:                                     *)
(*   "go"    main.go discoverFromDir dials one server after the other       *)
(*   "rust"  main.rs waits for its listeners first, dials all servers at    *)
(*           once and learns of the connections in its event loop           *)
(*   "js"    index.ts connectFromDir dials one address after the other      *)
(*                                                                          *)
(* Timing: the three seconds that a client waits after it saw a file are    *)
(* longer than the time between the creation of a file and its write, and   *)
(* nothing else is assumed of them.  The volume is fresh, which it is when  *)
(* docker compose down --volumes of the run before has not failed.         *)
(***************************************************************************)
EXTENDS Naturals, FiniteSets

CONSTANTS
  Setup,        \* the clients, and how they are started
  Server,
  DependsOn,    \* servers that compose waits for
  Transport,    \* transports of --transport; servers and client listen on each
  Interface,    \* interfaces of the client's host besides the loopback
  Dialable,     \* transports on which a server can be dialled from the client
  Patience      \* bound: looks at the directory before the time-out

ASSUME DiscoveryAssumption ==
  /\ Setup \subseteq [impl : {"go", "rust", "js"}, compose : BOOLEAN,
                     diskFails : BOOLEAN]
  /\ DependsOn \subseteq Server
  /\ Dialable \subseteq Transport
  /\ "lo" \notin Interface
  /\ Patience \in Nat

VARIABLES
  setup,        \* the client at hand, started by compose or not, and whether
                \* its reading of the directory may fail
  file,         \* the address file of each server
  pc,           \* where the client is
  listening,    \* NewListenAddr events the Rust client has seen
  polls,        \* looks at the directory
  entries,      \* the last listing of the directory
  unread,       \* files of the listing not read yet
  skipped,      \* history: files that could not be read
  found,        \* servers with an address in peerAddrs
  dialing,      \* servers still to be dialled, or being dialled
  connected,    \* servers the client is connected to
  report        \* the span about each server: "", connected, connect_failed

vars == <<setup, file, pc, listening, polls, entries, unread, skipped, found,
          dialing, connected, report>>

\* The servers whose health the client's start waits for.
Required == IF setup.compose THEN DependsOn ELSE {}

dials == <<skipped, found, dialing, connected, report>>
progress == <<entries, unread, dials>>

Event == Transport \X (Interface \cup {"lo"})

TypeOK ==
  /\ setup \in Setup
  /\ file \in [Server -> {"absent", "empty", "written"}]
  /\ pc \in {"blocked", "listening", "polling", "settling", "reading",
             "dialing", "done", "gave_up"}
  /\ listening \subseteq Event
  /\ polls \in 0..Patience
  /\ entries \subseteq Server /\ unread \subseteq entries
  /\ found \subseteq entries /\ skipped \subseteq entries \ found
  /\ dialing \subseteq found
  /\ connected \subseteq found
  /\ report \in [Server -> {"", "connected", "connect_failed"}]

Exists == {s \in Server : file[s] # "absent"}

Init ==
  /\ setup \in Setup
  /\ file = [s \in Server |-> "absent"]
  /\ pc = "blocked" /\ listening = {} /\ polls = 0
  /\ entries = {} /\ unread = {} /\ skipped = {} /\ found = {}
  /\ dialing = {} /\ connected = {} /\ report = [s \in Server |-> ""]

-----------------------------------------------------------------------------
\* os.WriteFile creates the file, then writes it.
Create(s) ==
  /\ file[s] = "absent"
  /\ file' = [file EXCEPT ![s] = "empty"]
  /\ UNCHANGED <<setup, pc, listening, polls, progress>>

Write(s) ==
  /\ file[s] = "empty"
  /\ file' = [file EXCEPT ![s] = "written"]
  /\ UNCHANGED <<setup, pc, listening, polls, progress>>

Go(from, to) == pc = from /\ pc' = to

\* compose starts the client: test -f holds of an empty file as well.
Start ==
  /\ Required \subseteq Exists
  /\ Go("blocked", IF setup.impl = "rust" THEN "listening" ELSE "polling")
  /\ UNCHANGED <<setup, file, listening, polls, progress>>

MutReady(seen) == Cardinality(seen) >= Cardinality(Transport)   \* mutant: the
                                                 \* loopback addresses count

\* Listeners counted as ready: one for every address but the loopback's.
Ready(seen) == Cardinality({e \in seen : e[2] # "lo"}) >= Cardinality(Transport)

\* A NewListenAddr event in the loop before connect_from_dir.
NewListenAddr(e) ==
  /\ e \notin listening
  /\ listening' = listening \cup {e}
  /\ Go("listening", IF Ready(listening') THEN "polling" ELSE "listening")
  /\ UNCHANGED <<setup, file, polls, progress>>

MutPoll ==                      \* mutant: the time-out is not looked at
  /\ entries' = Exists
  /\ IF Exists # {} THEN Go("polling", "settling") /\ UNCHANGED polls
     ELSE pc = "polling" /\ polls' = polls + 1 /\ UNCHANGED pc
  /\ UNCHANGED <<setup, file, listening, unread, dials>>

\* One look at the directory; the first file that is seen ends the wait.
Poll ==
  /\ polls < Patience
  /\ entries' = Exists
  /\ IF Exists # {} THEN Go("polling", "settling") /\ UNCHANGED polls
     ELSE pc = "polling" /\ polls' = polls + 1 /\ UNCHANGED pc
  /\ UNCHANGED <<setup, file, listening, unread, dials>>

MutTimesOut == FALSE /\ UNCHANGED vars  \* mutant: the loop has no way out

\* The time-out, after a last look: what appears later is not seen.
TimesOut ==
  /\ polls = Patience
  /\ Go("polling", "gave_up")
  /\ UNCHANGED <<setup, file, listening, polls, progress>>

MutSettle ==                    \* mutant: no delay before the listing
  /\ Go("settling", "reading")
  /\ entries' = Exists /\ unread' = Exists
  /\ UNCHANGED <<setup, file, listening, polls, dials>>

\* Three seconds later the directory is listed again, or cannot be.
Settle ==
  /\ \A s \in entries : file[s] = "written"
  /\ \/ /\ Go("settling", "reading")
        /\ entries' = Exists /\ unread' = Exists
     \/ /\ setup.diskFails
        /\ Go("settling", "gave_up")
        /\ UNCHANGED <<entries, unread>>
  /\ UNCHANGED <<setup, file, listening, polls, dials>>

\* One file of the listing.  An error skips the file, but ends the JS client.
ReadFile(s) ==
  /\ s \in unread
  /\ unread' = unread \ {s}
  /\ \/ /\ pc = "reading" /\ UNCHANGED pc
        /\ found' = IF file[s] = "written" THEN found \cup {s} ELSE found
        /\ UNCHANGED skipped
     \/ /\ setup.diskFails
        /\ Go("reading", IF setup.impl = "js" THEN "gave_up" ELSE "reading")
        /\ skipped' = skipped \cup {s}
        /\ UNCHANGED found
  /\ UNCHANGED <<setup, file, listening, polls, entries, dialing, connected,
                 report>>

\* Every file is read.  The Rust client hands all dials to the swarm, which may
\* refuse some of them, and is done; the others begin to dial.
StartDialing ==
  /\ unread = {}
  /\ IF setup.impl = "rust"
     THEN /\ Go("reading", "done")
          /\ \E refused \in SUBSET found :
               /\ dialing' = found \ refused
               /\ report' = [s \in Server |->
                    IF s \in refused THEN "connect_failed" ELSE report[s]]
     ELSE Go("reading", "dialing") /\ dialing' = found /\ UNCHANGED report
  /\ UNCHANGED <<setup, file, listening, polls, entries, unread, skipped, found,
                 connected>>

\* What a failed dial leaves in the trace.
ReportFailure(s) ==
  IF setup.impl = "go" THEN [report EXCEPT ![s] = "connect_failed"] ELSE report

\* A dial ends: Go and JS are in their loop, Rust in its event loop.
DialEnds(s) ==
  /\ s \in dialing
  /\ pc = IF setup.impl = "rust" THEN "done" ELSE "dialing"
  /\ dialing' = dialing \ {s}
  /\ \/ /\ Dialable # {}
        /\ connected' = connected \cup {s}
        /\ report' = [report EXCEPT ![s] = "connected"]
     \/ report' = ReportFailure(s) /\ UNCHANGED connected
  /\ UNCHANGED <<setup, file, pc, listening, polls, entries, unread, skipped, found>>

FinishDialing ==
  /\ dialing = {}
  /\ Go("dialing", "done")
  /\ UNCHANGED <<setup, file, listening, polls, progress>>

Client ==
  \/ \E e \in Event : NewListenAddr(e)
  \/ Poll \/ TimesOut \/ Settle
  \/ \E s \in Server : ReadFile(s) \/ DialEnds(s)
  \/ StartDialing \/ FinishDialing

Next ==
  \/ \E s \in Server : Create(s) \/ Write(s)
  \/ Start
  \/ Client

\* Servers come up and write what they created, compose starts what may start,
\* the listeners come up, and a client that can go on does.
Spec ==
  /\ Init /\ [][Next]_vars
  /\ WF_vars(Start) /\ WF_vars(Client)
  /\ \A s \in Server : WF_vars(Write(s))

-----------------------------------------------------------------------------
(* Properties. *)

\* A client that was started dials or gives up; it does not wait for ever.
DiscoveryEnds ==
  pc # "blocked" ~> pc \in {"done", "gave_up"} /\ dialing = {}

\* The servers that compose waits for are found, but for those whose files could
\* not be read, though a server is healthy from the moment its file exists and
\* the client reads each file once.
RequiredFound ==
  pc \in {"dialing", "done"} => Required \subseteq found \cup skipped

\* "Wait for all listeners to be ready before dialing peers": each transport
\* has an address that can be dialled before the Rust client goes on.
ListenersReady ==
  setup.impl = "rust" /\ pc \notin {"blocked", "listening"} =>
    \A t \in Transport : \E i \in Interface : <<t, i>> \in listening

\* "let all servers write their files": every server is found.
AllServersFound == pc \in {"dialing", "done"} => found = Server

\* peer_discovery_done, "connected to servers from ...": no dial is under way.
DoneIsConnected == pc = "done" => dialing = {}
=============================================================================
