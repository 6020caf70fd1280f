------------------------------ MODULE NatRouter ------------------------------
(***************************************************************************)
(* The NAT router of the testbed: the netfilter rules that                  *)
(* docker/router/entrypoint.sh installs for one NAT_TYPE, with PORT_REMAP,  *)
(* TCP_BLOCK_PORT and PORT_FORWARD, the port-forward toggles that           *)
(* run.py exec_toggle applies while traffic flows, and what connection      *)
(* tracking (external: the kernel) does with them.                          *)
(*                                                                          *)
(* A packet is its 5-tuple.  The nat table is consulted for the first       *)
(* packet of a flow only; later packets are translated by the flow they     *)
(* match.  The filter table (FORWARD) is consulted for every packet.        *)
(***************************************************************************)
EXTENDS Naturals, FiniteSets

CONSTANTS
  Server,           \* public hosts (73.0.0.0/24)
  Client,           \* CLIENT_PRIVATE_IP (10.0.1.10)
  Router,           \* ROUTER_PUBLIC_IP (73.0.0.2)
  Port, Proto,
  NatType,
  ForwardPort,      \* PORT_FORWARD_PORT
  StaticForward,    \* PORT_FORWARD=true
  Remap,            \* <<internal, external>> of PORT_REMAP, or <<>>
  TcpBlocked,       \* ports of TCP_BLOCK_PORT: none or one
  DirectRoute,      \* servers address the client by its private IP as well
  CommandsFail,     \* a command of a toggle may fail
  MaxFlows,         \* bound: flows tracked at once
  MaxRules          \* bound: copies of one forward rule

NatTypes == {"none", "full-cone", "address-restricted", "port-restricted",
             "symmetric"}

ASSUME ConstantsAssumption ==
  /\ NatType \in NatTypes
  /\ Proto \subseteq {"tcp", "udp"}
  /\ Client \notin Server /\ Router \notin Server /\ Client # Router
  /\ ForwardPort \in Port
  /\ Remap = <<>> \/ Remap \in Port \X Port
  /\ TcpBlocked \subseteq Port
  /\ StaticForward \in BOOLEAN /\ DirectRoute \in BOOLEAN /\ CommandsFail \in BOOLEAN
  /\ MaxFlows \in Nat /\ MaxRules \in Nat \ {0}

VARIABLES
  flows,            \* conntrack entries
  contacted,        \* xt_recent list "contacted": addresses
  rules,            \* copies of each forward rule
  script,           \* the exec_toggle script: its flag and its next command;
                    \* history, which no action reads: no command has failed yet
  wire              \* history: the conversation that crossed the router last

vars == <<flows, contacted, rules, script, wire>>

Addr == Server \cup {Client, Router}
Packet == [proto : Proto, src : Addr, sport : Port, dst : Addr, dport : Port]
Reverse(p) == [proto |-> p.proto, src |-> p.dst, sport |-> p.dport,
               dst |-> p.src, dport |-> p.sport]
Flow == [orig : Packet, reply : Packet, seen : BOOLEAN]

Rule == {"dnat", "accept"} \X {"tcp", "udp"}
MutCommand(n) ==                \* mutant: the last command names TCP again
  CASE n = 1 -> <<"dnat", "tcp">> [] n = 2 -> <<"dnat", "udp">>
    [] OTHER -> <<"accept", "tcp">>

\* The four iptables commands of exec_toggle, in order.
Command(n) == CASE n = 1 -> <<"dnat", "tcp">>   [] n = 2 -> <<"dnat", "udp">>
                [] n = 3 -> <<"accept", "tcp">> [] OTHER -> <<"accept", "udp">>

\* The conversation that a packet of the client, and one to the client, is of.
Conversation == [proto : Proto, cport : Port, server : Server, sport : Port]
Sent(p) == [proto |-> p.proto, cport |-> p.sport, server |-> p.dst,
            sport |-> p.dport]
Got(p) == Sent(Reverse(p))

Filtering == CASE NatType \in {"none", "full-cone"} -> "EIF"
               [] NatType = "address-restricted"    -> "ADF"
               [] OTHER                             -> "APDF"

TypeOK ==
  /\ flows \subseteq Flow
  /\ contacted \subseteq Server
  /\ rules \in [Rule -> Nat]
  /\ script \in [flag : {"-I", "-D"}, next : 1..5, ok : BOOLEAN]
  /\ wire \in {<<>>} \cup ({"out", "in"} \X Conversation)

-----------------------------------------------------------------------------
(* The rule chains. *)

MutDnatToClient(p) ==           \* mutant: the list is not consulted
  \/ p.dport = ForwardPort /\ rules[<<"dnat", p.proto>>] > 0
  \/ NatType \in {"full-cone", "address-restricted"}
MutDnatForward(p) ==            \* mutant: no DNAT rule but the forwarded port's
  p.dport = ForwardPort /\ rules[<<"dnat", p.proto>>] > 0

\* PREROUTING (-i PUB_IFACE): where a first packet from outside is sent.
DnatToClient(p) ==
  \/ p.dport = ForwardPort /\ rules[<<"dnat", p.proto>>] > 0
  \/ NatType = "full-cone"
  \/ NatType = "address-restricted" /\ p.src \in contacted

\* FORWARD, private to public: everything but the blocked TCP port.
AcceptOut(p) == ~(p.proto = "tcp" /\ p.dport \in TcpBlocked)

MutAcceptIn(q, established) == TRUE     \* mutant: the DROP rule is missing

\* FORWARD, public to private, for a packet whose translation is q.
AcceptIn(q, established) ==
  \/ q.dport = ForwardPort /\ rules[<<"accept", q.proto>>] > 0
  \/ NatType \in {"none", "full-cone", "address-restricted"}
  \/ established

Taken(t) == \E f \in flows : t = f.orig \/ t = f.reply
FreePorts(q) == {n \in Port : ~Taken(Reverse([q EXCEPT !.sport = n]))}

\* The kernel's choice of a source port for q when no rule names one: the
\* port itself when its reply tuple is free, otherwise any free one.
KeepPort(q) == IF q.sport \in FreePorts(q) THEN {q.sport} ELSE FreePorts(q)

\* Ports the same source endpoint is already mapped to.
Mapped(p) == {f.reply.dport : f \in {g \in flows :
                /\ g.orig.proto = p.proto /\ g.orig.src = p.src
                /\ g.orig.sport = p.sport /\ g.reply.dst = Router}}

\* POSTROUTING (-o PUB_IFACE): the source a first packet of the client leaves
\* with.  PORT_REMAP is inserted before the rule of the NAT type.
Remapped(p) == Remap # <<>> /\ p.sport = Remap[1]
SourceOut(p) == IF NatType # "none" \/ Remapped(p) THEN Router ELSE Client
MutRandomPorts(p) ==            \* mutant: MASQUERADE --random for every NAT type
  FreePorts([p EXCEPT !.src = SourceOut(p)])

PortsOut(p) ==
  LET q == [p EXCEPT !.src = SourceOut(p)]
      kept == Mapped(p) \cap FreePorts(q)
  IN IF Remapped(p) THEN {Remap[2]} \cap FreePorts(q)
     ELSE IF NatType = "symmetric" THEN FreePorts(q)
     ELSE kept \cup (IF Mapped(p) # {} /\ Mapped(p) = kept
                     THEN {} ELSE KeepPort(q))

-----------------------------------------------------------------------------
Init ==
  /\ flows = {}
  /\ contacted = {}
  /\ rules = [r \in Rule |-> IF StaticForward THEN 1 ELSE 0]
  /\ script = [flag |-> "-I", next |-> 5, ok |-> TRUE]
  /\ wire = <<>>

ClientPacket == {p \in Packet : p.src = Client /\ p.dst \in Server}
ServerPacket == {p \in Packet :
  /\ p.src \in Server
  /\ p.dst = Router \/ (DirectRoute /\ p.dst = Client)}

MutLeave(t) ==                  \* mutant: --rsource for --rdest
  /\ wire' = <<"out", t>>
  /\ contacted' = IF NatType = "address-restricted"
                  THEN contacted \cup {Client} ELSE contacted

\* What FORWARD does for a packet of the client that it accepts: the address
\* restricted rule records the destination of every one of them.
Leave(t) ==
  /\ wire' = <<"out", t>>
  /\ contacted' = IF NatType = "address-restricted"
                  THEN contacted \cup {t.server} ELSE contacted

Arrive(t) == wire' = <<"in", t>> /\ UNCHANGED contacted

Dropped == UNCHANGED <<wire, contacted>>

\* The flow a first packet p begins: of the client, to the client (source port
\* n after translation), and to the router itself.
OutFlow(p, n) == [orig |-> p, seen |-> FALSE, reply |->
                  Reverse([p EXCEPT !.src = SourceOut(p), !.sport = n])]
InFlow(p, n) == [orig |-> p, seen |-> FALSE, reply |->
                 Reverse([p EXCEPT !.dst = Client, !.sport = n])]
LocalFlow(p) == [orig |-> p, seen |-> FALSE, reply |-> Reverse(p)]

\* The client opens a flow.  With no port left the packet is lost after FORWARD.
ClientOpens(p) ==
  /\ ~Taken(p)
  /\ AcceptOut(p)
  /\ Cardinality(flows) < MaxFlows
  /\ \/ \E n \in PortsOut(p) : flows' = flows \cup {OutFlow(p, n)}
     \/ PortsOut(p) = {} /\ UNCHANGED flows
  /\ Leave(Sent(p))
  /\ UNCHANGED <<rules, script>>

\* A later packet of the client, in either direction of its flow.
ClientContinues(p, f) ==
  /\ p \in {f.orig, f.reply}
  /\ flows' = IF p = f.reply
              THEN (flows \ {f}) \cup {[f EXCEPT !.seen = TRUE]} ELSE flows
  /\ IF AcceptOut(p) THEN Leave(Sent(p)) ELSE Dropped
  /\ UNCHANGED <<rules, script>>

\* A server's first packet: to the client when DNAT or the address says so and
\* FORWARD accepts it, to the router itself otherwise (INPUT accepts and the
\* flow is tracked all the same).
ServerOpens(p) ==
  /\ ~Taken(p)
  /\ Cardinality(flows) < MaxFlows
  /\ LET q == [p EXCEPT !.dst = Client] IN
     IF p.dst = Client \/ DnatToClient(p)
     THEN /\ AcceptIn(q, FALSE)
          /\ \E n \in KeepPort(q) : /\ flows' = flows \cup {InFlow(p, n)}
                                    /\ Arrive(Sent(InFlow(p, n).reply))
     ELSE flows' = flows \cup {LocalFlow(p)} /\ Dropped
  /\ UNCHANGED <<rules, script>>

\* A later packet of a server: a reply establishes the flow, and FORWARD is
\* consulted again in either direction.
ServerContinues(p, f) ==
  /\ p \in {f.orig, f.reply}
  /\ LET q == IF p = f.reply THEN Reverse(f.orig) ELSE Reverse(f.reply) IN
     IF q.dst = Client /\ AcceptIn(q, p = f.reply \/ f.seen)
     THEN Arrive(Got(q)) ELSE Dropped
  /\ flows' = IF p = f.reply
              THEN (flows \ {f}) \cup {[f EXCEPT !.seen = TRUE]} ELSE flows
  /\ UNCHANGED <<rules, script>>

\* conntrack times a flow out; an entry of the list gets older than 300 s.
FlowExpires(f) ==
  /\ flows' = flows \ {f}
  /\ UNCHANGED <<contacted, rules, script, wire>>

ContactAges(s) ==
  /\ contacted' = contacted \ {s}
  /\ UNCHANGED <<flows, rules, script, wire>>

\* run.py starts a toggle; its four commands run one at a time between packets.
ToggleStarts(flag) ==
  /\ script.next = 5
  /\ flag = "-I" => \A r \in Rule : rules[r] < MaxRules
  /\ script' = [flag |-> flag, next |-> 1, ok |-> script.ok]
  /\ UNCHANGED <<flows, contacted, rules, wire>>

\* A command inserts or deletes its rule (there may be none to delete), or fails:
\* the script goes on, as its commands are not joined and -D has "|| true".
ToggleCommand ==
  /\ script.next < 5
  /\ \/ /\ rules' = [rules EXCEPT ![Command(script.next)] =
                       IF script.flag = "-I" THEN @ + 1
                       ELSE IF @ > 0 THEN @ - 1 ELSE @]
        /\ script' = [script EXCEPT !.next = @ + 1]
     \/ /\ CommandsFail
        /\ script' = [flag |-> script.flag, next |-> script.next + 1, ok |-> FALSE]
        /\ UNCHANGED rules
  /\ UNCHANGED <<flows, contacted, wire>>

Next ==
  \/ \E p \in ClientPacket :
       ClientOpens(p) \/ \E f \in flows : ClientContinues(p, f)
  \/ \E p \in ServerPacket :
       ServerOpens(p) \/ \E f \in flows : ServerContinues(p, f)
  \/ \E f \in flows : FlowExpires(f)
  \/ \E s \in contacted : ContactAges(s)
  \/ \E flag \in {"-I", "-D"} : ToggleStarts(flag)
  \/ ToggleCommand

Spec == Init /\ [][Next]_vars
-----------------------------------------------------------------------------
(* Properties. *)

\* The forward rules of the four commands change together, though a toggle adds to
\* a static forward or takes it away: between two toggles, as long as no command
\* failed, no protocol is left with a DNAT rule and no FORWARD rule, or the reverse.
ForwardWhole ==
  script.ok /\ script.next = 5 => \A r, s \in Rule : rules[r] = rules[s]

\* Endpoint-independent mapping (docs/testbed.md, EIM): the flows of one client
\* endpoint are mapped to one external endpoint, whatever their destinations.
MappingIndependent ==
  \A f, g \in flows :
    /\ f.orig.src = Client /\ g.orig.src = Client
    /\ f.orig.sport = g.orig.sport /\ f.orig.proto = g.orig.proto
    => f.reply.dst = g.reply.dst /\ f.reply.dport = g.reply.dport

\* "Any external host can reach the client through the mapped address": a first
\* packet of anybody to the external endpoint of a client's flow is translated
\* to the very endpoint that owns the flow and accepted.
MappedReachable ==
  \A f \in flows : f.orig.src = Client =>
    \A p \in ServerPacket :
      /\ p.proto = f.orig.proto /\ ~Taken(p)
      /\ p.dst = f.reply.dst /\ p.dport = f.reply.dport
      => /\ DnatToClient(p)
         /\ AcceptIn([p EXCEPT !.dst = Client], FALSE)
         /\ p.dport = f.orig.sport

\* "forces a different source port for each destination" (the symmetric case).
MappingPerDestination ==
  \A f, g \in flows :
    /\ f.orig.src = Client /\ g.orig.src = Client
    /\ f.orig.sport = g.orig.sport /\ f.orig.proto = g.orig.proto
    /\ f.orig.dst # g.orig.dst
    => f.reply.dport # g.reply.dport

\* The rules keep the promise of their NAT type, through toggles, expiry of
\* flows and of list entries, and port collisions.
Talks == {Sent(f.orig) : f \in {g \in flows : g.orig.src = Client}} \cup
         {Sent(f.reply) : f \in {g \in flows : g.reply.src = Client}}
Promise == INSTANCE NatPromise WITH
  talks <- Talks, peers <- contacted,
  open <- {p \in Proto : rules[<<"dnat", p>>] + rules[<<"accept", p>>] > 0}
FilterPromise == Promise!PromiseSpec
=============================================================================
