------------------------------ MODULE DialBack ------------------------------
(***************************************************************************)
(* How a verdict of AutoNAT comes about behind the router: the client asks  *)
(* a server to which it is connected about an external endpoint of its      *)
(* listening port, and the server dials that endpoint from another port     *)
(* (mock_server.go performDialBack, with a dialling host of its own), while *)
(* flows expire and toggles are applied.  NatRouter says what happens to    *)
(* each packet.  What MockServer has as the constant Reachable, and Tracker *)
(* as the answer to a probe, is decided here.                               *)
(*                                                                          *)
(* External: libp2p dials from its listening port, so the endpoint that a   *)
(* server observes is that of the mapped flow; a dial sends its first       *)
(* packet again until it is answered or times out.  A dial-back takes       *)
(* seconds, an entry of the contacted list lasts 300 of them.               *)
(***************************************************************************)
EXTENDS NatRouter

ASSUME DialBackAssumption == NatType = "none" => DirectRoute

VARIABLES
  phase,        \* of the dial-back: "idle", "asked", "tried", "answered"
  packet,       \* its first packet
  fresh,        \* was it no packet of a tracked flow when it was sent first?
  verdict,      \* "none", "reachable", "unreachable"
  admitted      \* history: what the NAT has promised about it since it was asked

router == <<flows, contacted, rules, script, wire>>
dial == <<phase, packet, fresh, verdict>>
dialVars == <<router, dial, admitted>>

Listen == ForwardPort           \* 4001, of the client and of the servers
Probing == phase \in {"asked", "tried"}

DialInit ==
  /\ Init
  /\ phase = "idle" /\ packet = <<>> /\ fresh = FALSE /\ verdict = "none"
  /\ admitted = {}

\* What the NAT promises: the filter of its type, or the forwarded port, lets
\* the packet in.
Promised(p) ==
  \/ Filtering = "EIF"
  \/ Filtering = "ADF" /\ p.src \in contacted
  \/ p.dport = Listen /\ \A kind \in {"dnat", "accept"} : rules[<<kind, p.proto>>] > 0

\* Over the connection f the client asks about the endpoint that the flow g of
\* its listening port is mapped to; the dialling host's port is d.
Ask(f, g, d) ==
  /\ ~Probing /\ f.seen /\ AcceptOut(f.orig) /\ d # Listen
  /\ ClientContinues(f.orig, f)
  /\ phase' = "asked" /\ fresh' = TRUE /\ verdict' = "none"
  /\ packet' = [proto |-> g.orig.proto, src |-> f.orig.dst, sport |-> d,
                dst |-> g.reply.dst, dport |-> g.reply.dport]
  /\ admitted' = {Promised(packet)'}

\* Does a packet from outside reach the client's listening port?
First(p) == [p EXCEPT !.dst = Client]
Passes(p) ==
  IF Taken(p)
  THEN \E f \in flows :
         LET q == IF p = f.reply THEN Reverse(f.orig) ELSE Reverse(f.reply) IN
         /\ p \in {f.orig, f.reply}
         /\ q.dst = Client /\ q.dport = Listen /\ AcceptIn(q, p = f.reply \/ f.seen)
  ELSE /\ p.dst = Client \/ DnatToClient(p)
       /\ p.dport = Listen /\ AcceptIn(First(p), FALSE)

\* The router takes the packet, or translates it and then drops it, which leaves
\* no flow.
Crosses(p) ==
  \/ ServerOpens(p) \/ \E f \in flows : ServerContinues(p, f)
  \/ ~Taken(p) /\ DnatToClient(p) /\ ~AcceptIn(First(p), FALSE) /\ UNCHANGED router

\* The server dials, once or again: a packet that reaches the client is answered
\* with a connection over which the nonce comes.
Attempt ==
  /\ Probing /\ packet \in ServerPacket
  /\ Crosses(packet) /\ UNCHANGED packet
  /\ fresh' = IF phase = "asked" THEN ~Taken(packet) ELSE fresh
  /\ IF Passes(packet) THEN phase' = "answered" /\ verdict' = "reachable"
     ELSE phase' = "tried" /\ UNCHANGED verdict
  /\ admitted' = admitted \cup {Promised(packet)'}

\* E_DIAL_ERROR.
DialFails ==
  /\ phase = "tried"
  /\ phase' = "answered" /\ verdict' = "unreachable"
  /\ UNCHANGED <<router, packet, fresh, admitted>>

\* The rest: packets of the client and of the servers it is connected to, expiry,
\* toggles.
Network ==
  /\ \/ \E p \in ClientPacket :
          (p.dport = Listen /\ ClientOpens(p)) \/ \E f \in flows : ClientContinues(p, f)
     \/ \E p \in ServerPacket, f \in flows : (Probing => p # packet) /\ ServerContinues(p, f)
     \/ \E f \in flows : FlowExpires(f)
     \/ \E s \in contacted : (Probing => s # packet.src) /\ ContactAges(s)
     \/ \E flag \in {"-I", "-D"} : ToggleStarts(flag)
     \/ ToggleCommand
  /\ UNCHANGED dial
  /\ admitted' = IF Probing THEN admitted \cup {Promised(packet)'} ELSE admitted

Connections == {f \in flows : f.orig.src = Client /\ f.orig.sport = Listen}

DialNext ==
  \/ \E f, g \in Connections, d \in Port : Ask(f, g, d)
  \/ Attempt \/ DialFails \/ Network

DialSpec == DialInit /\ [][DialNext]_dialVars

-----------------------------------------------------------------------------
(* Properties. *)

\* A verdict is one that the NAT type and the forwarded port justified at some
\* moment of the dial-back, between any two commands of a toggle: AutoNAT sees
\* what the experiment set up, if no flow is tracked for the port it dials from.
FreshVerdictIsJustified ==
  phase = "answered" /\ fresh /\ Remap = <<>> => (verdict = "reachable") \in admitted

\* As above for any port: a dial-back that follows a toggle shows it.
VerdictIsJustified ==
  phase = "answered" /\ Remap = <<>> => (verdict = "reachable") \in admitted

\* adf-false-positive.yaml, "v2 reports reachable due to ADF": whoever asks a
\* server has contacted it, so a NAT that filters by address, as one that does
\* not filter, looks like none.
ConeLooksPublic ==
  phase = "answered" /\ Filtering # "APDF" /\ Remap = <<>> => verdict = "reachable"
=============================================================================
