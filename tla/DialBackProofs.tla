--------------------------- MODULE DialBackProofs ---------------------------
(***************************************************************************)
(* Theorems about dial-backs through the router, for every NAT type, any    *)
(* servers, ports and toggles.                                              *)
(***************************************************************************)
EXTENDS DialBack, NatRouterProofs

\* A server opens flows from its dialling host's port only, and the client to
\* the servers' port only.
PortsApart == \A f \in flows :
  /\ f.orig.src \in Server => f.orig.sport # Listen
  /\ f.orig.src = Client => f.orig.dport = Listen

\* A flow of the client leaves with the address its NAT type gives it; where the
\* type filters by address or not at all, with the client's own port.
Shown == \A f \in flows : f.orig.src = Client =>
  /\ f.reply.dst = IF NatType = "none" THEN Client ELSE Router
  /\ Filtering # "APDF" => f.reply.dport = f.orig.sport

\* Such a type leads every dial-back to the client.
NoneIsLocal == Filtering # "APDF" => \A f \in flows : ~Local(f)

\* What the dial-back at hand looks like.
Asked ==
  /\ packet \in Packet /\ packet.src \in Server /\ packet.sport # Listen
  /\ packet.dst = IF NatType = "none" THEN Client ELSE Router
  /\ Filtering # "APDF" => packet.dport = Listen
  /\ Filtering = "ADF" => packet.src \in contacted
  /\ Promised(packet) \in admitted

\* A dial-back that began with a packet of no flow has only met the router.
Stray == \A f \in flows : packet \in {f.orig, f.reply} => Local(f)

DialInv ==
  /\ IInv /\ PortsApart /\ Shown /\ NoneIsLocal
  /\ phase \in {"idle", "asked", "tried", "answered"}
  /\ Probing => Asked
  /\ phase = "tried" => Filtering = "APDF"
  /\ phase = "tried" /\ fresh => Stray /\ FALSE \in admitted
  /\ FreshVerdictIsJustified /\ ConeLooksPublic
-----------------------------------------------------------------------------
(* What a step does to the flows. *)

LEMMA FilteringOf ==
  /\ Filtering = "EIF" <=> NatType \in {"none", "full-cone"}
  /\ Filtering = "ADF" <=> NatType = "address-restricted"
  /\ Filtering \in {"EIF", "ADF", "APDF"}
BY DEF Filtering

\* A flow of the client is outward, one of a server is not, and a local flow is
\* a server's to the router.
LEMMA Kinds ==
  ASSUME IInv, NEW f \in flows
  PROVE  /\ f.orig \in Packet /\ f.reply \in Packet
         /\ f.orig.src = Client => Outward(f) /\ f.orig \in ClientPacket
         /\ f.orig.src # Client => f.orig.src \in Server
         /\ f.reply.src \in Server => Outward(f)
<1>1. f \in Flow /\ (Outward(f) \/ Inward(f) \/ Local(f))
  BY DEF IInv, TypeOK, FlowShape
<1>2. CASE Outward(f)
  BY <1>1, <1>2, ConstantsAssumption DEF Outward, ClientPacket, Flow
<1>3. CASE Inward(f)
  BY <1>1, <1>3, ConstantsAssumption DEF Inward, ServerPacket, Flow
<1>4. CASE Local(f)
  <2>1. f.reply.src = Router
    BY <1>4 DEF Local, Reverse
  <2> QED
    BY <1>1, <1>4, <2>1, ConstantsAssumption DEF Local, ServerPacket, Flow
<1> QED
  BY <1>1, <1>2, <1>3, <1>4

\* Steps that track no new flow.
Fewer == \A h \in flows' : \E f \in flows : h.orig = f.orig /\ h.reply = f.reply

LEMMA FewerFlows ==
  ASSUME Fewer, PortsApart, Shown, NoneIsLocal
  PROVE  /\ PortsApart' /\ Shown' /\ NoneIsLocal'
         /\ packet' = packet /\ Stray => Stray'
<1>1. PortsApart' /\ Shown'
  BY DEF Fewer, PortsApart, Shown
<1>2. \A h \in flows' : \E f \in flows : Local(h) <=> Local(f)
  BY DEF Fewer, Local
<1>3. NoneIsLocal'
  BY <1>2 DEF NoneIsLocal, Local
<1>4. ASSUME packet' = packet, Stray PROVE Stray'
  <2> SUFFICES ASSUME NEW h \in flows', packet \in {h.orig, h.reply}
               PROVE  Local(h)
    BY <1>4 DEF Stray, Local
  <2>1. PICK f \in flows : h.orig = f.orig /\ h.reply = f.reply
    BY DEF Fewer
  <2>2. Local(f)
    BY <1>4, <2>1 DEF Stray
  <2> QED
    BY <2>1, <2>2 DEF Local
<1> QED
  BY <1>1, <1>3, <1>4

LEMMA MarkedIsFewer ==
  ASSUME IInv, NEW f \in flows,
         flows' \in {flows, flows \ {f}, (flows \ {f}) \cup {[f EXCEPT !.seen = TRUE]}}
  PROVE  Fewer
<1> DEFINE h == [f EXCEPT !.seen = TRUE]
<1>1. h.orig = f.orig /\ h.reply = f.reply
  BY DEF IInv, TypeOK, Flow
<1> HIDE DEF h
<1>2. flows' \in {flows, flows \ {f}, (flows \ {f}) \cup {h}}
  BY DEF h
<1> QED
  BY <1>1, <1>2 DEF Fewer

\* A flow that the client opens is shown at the client's own port.
LEMMA OpensShown ==
  ASSUME Remap = <<>>, IInv, PortsApart, Shown,
         NEW p \in ClientPacket, p.dport = Listen, ~Taken(p),
         NEW n \in PortsOut(p), Filtering # "APDF"
  PROVE  n = p.sport
<1> DEFINE q == [p EXCEPT !.src = SourceOut(p)]
           t == Reverse([q EXCEPT !.sport = p.sport])
           host == IF NatType = "none" THEN Client ELSE Router
<1>1. ~Remapped(p) /\ SourceOut(p) = host
  BY DEF Remapped, SourceOut
<1>2. p \in Packet /\ p.src = Client /\ p.dst \in Server /\ host \in Addr
  BY DEF ClientPacket, Addr
<1>3. t = [proto |-> p.proto, src |-> p.dst, sport |-> Listen,
           dst |-> host, dport |-> p.sport] /\ q.sport = p.sport
  BY <1>1, <1>2 DEF Reverse, Packet
<1>4. ~Taken(t)
  <2> SUFFICES ASSUME NEW f \in flows, t = f.orig \/ t = f.reply PROVE FALSE
    BY DEF Taken
  <2>1. t.src \in Server /\ t.sport = Listen
    BY <1>2, <1>3
  <2>2. t = f.reply
    BY <2>1 DEF PortsApart
  <2>3. Outward(f) /\ f.orig.src = Client /\ f.orig \in Packet
    BY <2>1, <2>2, Kinds DEF Outward, ClientPacket
  <2>4. f.reply.dport = f.orig.sport
    BY <2>3 DEF Shown
  <2>5. /\ f.orig.proto = p.proto /\ f.orig.dst = p.dst
        /\ f.orig.dport = Listen /\ f.orig.sport = p.sport
    BY <1>3, <2>2, <2>3, <2>4 DEF Outward
  <2>6. f.orig = p
    BY <1>2, <2>3, <2>5 DEF Packet
  <2> QED
    BY <2>6 DEF Taken
<1>5. p.sport \in FreePorts(q)
  BY <1>2, <1>3, <1>4 DEF FreePorts, Packet
<1>6. KeepPort(q) = {p.sport}
  BY <1>3, <1>5 DEF KeepPort
<1>7. Mapped(p) \subseteq {p.sport}
  <2> SUFFICES ASSUME NEW g \in flows, g.orig.src = p.src, g.orig.sport = p.sport
               PROVE  g.reply.dport = p.sport
    BY DEF Mapped
  <2> QED
    BY <1>2 DEF Shown
<1>8. NatType # "symmetric"
  BY FilteringOf
<1> QED
  BY <1>1, <1>6, <1>7, <1>8 DEF PortsOut

LEMMA OpensFlows ==
  ASSUME Remap = <<>>, IInv, PortsApart, Shown, NoneIsLocal,
         NEW p \in ClientPacket, p.dport = Listen, ClientOpens(p)
  PROVE  /\ PortsApart' /\ Shown' /\ NoneIsLocal'
         /\ Asked /\ packet' = packet /\ Stray => Stray'
<1>1. CASE UNCHANGED flows
  BY <1>1, FewerFlows DEF Fewer
<1>2. ASSUME NEW n \in PortsOut(p), flows' = flows \cup {OutFlow(p, n)}
      PROVE  /\ PortsApart' /\ Shown' /\ NoneIsLocal'
             /\ Asked /\ packet' = packet /\ Stray => Stray'
  <2> DEFINE h == OutFlow(p, n)
  <2>1. h.orig = p /\ p.src = Client /\ Client \notin Server /\ p \in Packet
    BY NewOutFlow, ConstantsAssumption DEF ClientPacket
  <2>2. Filtering # "APDF" => n = p.sport
    BY OpensShown DEF ClientOpens
  <2>3. h.reply.dst = (IF NatType = "none" THEN Client ELSE Router) /\ h.reply.dport = n
    BY <2>1 DEF OutFlow, Reverse, SourceOut, Remapped, Packet
  <2>4. h.reply.src \in Server /\ h.reply.sport = Listen
    BY NewOutFlow DEF Outward, ClientPacket
  <2> HIDE DEF h
  <2>5. flows' = flows \cup {h}
    BY <1>2 DEF h
  <2>6. PortsApart' /\ Shown'
    BY <2>1, <2>2, <2>3, <2>5 DEF PortsApart, Shown
  <2>7. ~Local(h)
    BY <2>1 DEF Local, ServerPacket
  <2>8. NoneIsLocal'
    BY <2>5, <2>7 DEF NoneIsLocal, Local
  <2>9. ASSUME Asked, packet' = packet, Stray PROVE Stray'
    <3>1. packet # h.orig /\ packet # h.reply
      BY <2>1, <2>4, <2>9 DEF Asked
    <3> QED
      BY <2>5, <2>9, <3>1 DEF Stray, Local
  <2> QED
    BY <2>6, <2>8, <2>9
<1> QED
  BY <1>1, <1>2 DEF ClientOpens
\* The answer of the router to a dial-back is what the NAT has promised, when
\* its packet is of no flow ...
LEMMA FirstAsPromised ==
  ASSUME Asked, ~Taken(packet)
  PROVE  Passes(packet) <=> Promised(packet)
<1>1. /\ packet \in Packet /\ First(packet).dport = packet.dport
      /\ First(packet).proto = packet.proto
  BY DEF Asked, First, Packet
<1>2. CASE Filtering # "APDF"
  <2>1. Promised(packet)
    BY <1>2, FilteringOf DEF Asked, Promised
  <2>2. packet.dport = Listen /\ AcceptIn(First(packet), FALSE)
    BY <1>2, FilteringOf DEF Asked, AcceptIn
  <2>3. packet.dst = Client \/ DnatToClient(packet)
    BY <1>2, FilteringOf DEF Asked, DnatToClient
  <2> QED
    BY <2>1, <2>2, <2>3 DEF Passes
<1>3. CASE Filtering = "APDF"
  <2>1. NatType \notin {"none", "full-cone", "address-restricted"}
    BY <1>3, FilteringOf
  <2>2. packet.dst # Client
    BY <2>1, ConstantsAssumption DEF Asked
  <2>3. DnatToClient(packet) <=>
          packet.dport = Listen /\ rules[<<"dnat", packet.proto>>] > 0
    BY <2>1 DEF DnatToClient, Listen
  <2>4. AcceptIn(First(packet), FALSE) <=>
          packet.dport = Listen /\ rules[<<"accept", packet.proto>>] > 0
    BY <1>1, <2>1 DEF AcceptIn, Listen
  <2>5. Promised(packet) <=>
          /\ packet.dport = Listen
          /\ rules[<<"dnat", packet.proto>>] > 0 /\ rules[<<"accept", packet.proto>>] > 0
    BY <1>3 DEF Promised
  <2> QED
    BY <2>2, <2>3, <2>4, <2>5 DEF Passes
<1> QED
  BY <1>2, <1>3

\* ... not the client, when it is of a flow that ends at the router ...
LEMMA StrayFails ==
  ASSUME IInv, Asked, Stray, Taken(packet)
  PROVE  ~Passes(packet)
<1> SUFFICES ASSUME NEW f \in flows, packet \in {f.orig, f.reply}
             PROVE  (IF packet = f.reply THEN Reverse(f.orig) ELSE Reverse(f.reply)).dst # Client
  BY DEF Passes
<1>1. Local(f) /\ f.orig \in Packet
  BY Kinds DEF Stray
<1>2. f.reply.src = Router /\ Reverse(f.reply) = f.orig
  BY <1>1, ReverseTwice DEF Local, Reverse
<1>3. packet # f.reply
  BY <1>2, ConstantsAssumption DEF Asked
<1> QED
  BY <1>1, <1>2, <1>3, ConstantsAssumption DEF Local

\* ... and the client in any case, where the type does not filter by port.
LEMMA ConePasses ==
  ASSUME IInv, PortsApart, NoneIsLocal, Asked, Filtering # "APDF"
  PROVE  Passes(packet)
<1>1. CASE ~Taken(packet)
  <2>1. Promised(packet)
    BY FilteringOf DEF Asked, Promised
  <2> QED
    BY <1>1, <2>1, FirstAsPromised
<1>2. CASE Taken(packet)
  <2>1. PICK f \in flows : packet \in {f.orig, f.reply}
    BY <1>2 DEF Taken
  <2>2. packet # f.reply
    <3> SUFFICES ASSUME packet = f.reply PROVE FALSE
      OBVIOUS
    <3>1. Outward(f)
      BY Kinds DEF Asked
    <3>2. f.orig.src = Client /\ f.reply.sport = f.orig.dport
      BY <3>1 DEF Outward, ClientPacket
    <3> QED
      BY <3>2 DEF Asked, PortsApart
  <2>3. packet = f.orig /\ f.orig.src \in Server
    BY <2>1, <2>2 DEF Asked
  <2>4. Inward(f)
    BY <2>3, ConstantsAssumption
    DEF IInv, FlowShape, NoneIsLocal, Outward, ClientPacket
  <2>5. Reverse(f.reply).dst = Client /\ Reverse(f.reply).dport = Listen
    BY <2>3, <2>4 DEF Inward, Reverse, Asked
  <2>6. AcceptIn(Reverse(f.reply), packet = f.reply \/ f.seen)
    BY FilteringOf DEF AcceptIn
  <2> QED
    BY <1>2, <2>1, <2>2, <2>5, <2>6 DEF Passes
<1> QED
  BY <1>1, <1>2

\* A dial-back that does not pass leaves no flow but one to the router.
LEMMA DialsFlows ==
  ASSUME IInv, PortsApart, Shown, NoneIsLocal, Asked,
         packet \in ServerPacket, Crosses(packet), packet' = packet
  PROVE  /\ PortsApart' /\ Shown' /\ NoneIsLocal'
         /\ ~Passes(packet) /\ (Stray \/ ~Taken(packet)) => Stray'
<1> DEFINE Goal == /\ PortsApart' /\ Shown' /\ NoneIsLocal'
                   /\ ~Passes(packet) /\ (Stray \/ ~Taken(packet)) => Stray'
<1>1. ASSUME Fewer PROVE Goal
  BY <1>1, FewerFlows DEF Stray, Taken
<1>2. ASSUME NEW f \in flows, ServerContinues(packet, f) PROVE Goal
  BY <1>1, <1>2, MarkedIsFewer DEF ServerContinues
<1>3. ASSUME UNCHANGED router PROVE Goal
  BY <1>1, <1>3 DEF router, Fewer
<1>4. ASSUME NEW h, h.orig = packet, flows' = flows \cup {h}, ~Taken(packet),
             Local(h) => Filtering = "APDF", Passes(packet) \/ Local(h)
      PROVE  Goal
  <2>1. packet.src \in Server /\ packet.src # Client /\ packet.sport # Listen
    BY ConstantsAssumption DEF Asked
  <2>2. PortsApart' /\ Shown'
    BY <1>4, <2>1 DEF PortsApart, Shown
  <2>3. NoneIsLocal'
    BY <1>4 DEF NoneIsLocal, Local
  <2>4. ASSUME ~Passes(packet) PROVE Stray'
    BY <1>4, <2>4 DEF Stray, Local, Taken
  <2> QED
    BY <2>2, <2>3, <2>4
<1>5. ASSUME ServerOpens(packet), packet.dst = Client \/ DnatToClient(packet) PROVE Goal
  <2>1. PICK n \in KeepPort(First(packet)) : flows' = flows \cup {InFlow(packet, n)}
    BY <1>5 DEF ServerOpens, First
  <2>2. InFlow(packet, n).orig = packet /\ Inward(InFlow(packet, n))
    BY <2>1, NewInFlow DEF First
  <2>3. ~Local(InFlow(packet, n))
    <3>1. InFlow(packet, n).reply.src = Client
      BY <2>2 DEF Inward
    <3>2. ASSUME Local(InFlow(packet, n)) PROVE InFlow(packet, n).reply.src = Router
      BY <3>2 DEF Local, Reverse
    <3> QED
      BY <3>1, <3>2, ConstantsAssumption
  <2>4. ~Taken(packet) /\ AcceptIn(First(packet), FALSE)
    BY <1>5 DEF ServerOpens, First
  <2>5. packet.dport = Listen
    <3>1. CASE Filtering # "APDF"
      BY <3>1 DEF Asked
    <3>2. CASE Filtering = "APDF"
      BY <1>5, <3>2, FilteringOf, ConstantsAssumption DEF Asked, DnatToClient, Listen
    <3> QED
      BY <3>1, <3>2
  <2>6. Passes(packet)
    BY <1>5, <2>4, <2>5 DEF Passes
  <2> QED
    BY <1>4, <2>1, <2>2, <2>3, <2>4, <2>6
<1>6. ASSUME ServerOpens(packet), packet.dst # Client, ~DnatToClient(packet) PROVE Goal
  <2>1. flows' = flows \cup {LocalFlow(packet)} /\ ~Taken(packet)
    BY <1>6 DEF ServerOpens
  <2>2. LocalFlow(packet).orig = packet /\ Local(LocalFlow(packet))
    BY <1>6, <2>1, NewLocalFlow DEF IInv
  <2>3. Filtering = "APDF"
    BY <1>6, FilteringOf DEF Asked, DnatToClient
  <2> QED
    BY <1>4, <2>1, <2>2, <2>3
<1> QED
  BY <1>2, <1>3, <1>5, <1>6 DEF Crosses
-----------------------------------------------------------------------------
(* The steps. *)

LEMMA MemberOf ==
  ASSUME NEW b \in BOOLEAN, NEW S, b \in S
  PROVE  IF b THEN TRUE \in S ELSE FALSE \in S
OBVIOUS

LEMMA AskContinues ==
  ASSUME IInv, NEW f \in Connections
  PROVE  f \in flows /\ f.orig \in ClientPacket /\ f.orig.src = Client /\ Outward(f)
BY Kinds DEF Connections

\* Every step of a dial-back is one of the router or leaves it alone.
LEMMA StepRouter ==
  ASSUME IInv, [DialNext]_dialVars
  PROVE  [Next]_vars
<1>1. ASSUME NEW f \in Connections, NEW g \in Connections, NEW d \in Port, Ask(f, g, d)
      PROVE  Next
  BY <1>1, AskContinues DEF Ask, Next
<1>2. ASSUME Attempt PROVE [Next]_vars
  <2>1. packet \in ServerPacket /\ Crosses(packet)
    BY <1>2 DEF Attempt
  <2> QED
    BY <2>1 DEF Crosses, Next, vars, router
<1>3. ASSUME DialFails PROVE UNCHANGED vars
  BY <1>3 DEF DialFails, router, vars
<1>4. ASSUME Network PROVE Next
  BY <1>4 DEF Network, Next
<1> QED
  BY <1>1, <1>2, <1>3, <1>4 DEF DialNext, dialVars, router, vars

\* The client that asks is a contact of the server that it asks.
LEMMA StepAsk ==
  ASSUME Remap = <<>>, DialInv,
         NEW f \in Connections, NEW g \in Connections, NEW d \in Port, Ask(f, g, d)
  PROVE  PortsApart' /\ Shown' /\ NoneIsLocal' /\ Asked'
<1> USE DEF DialInv
<1>1. f \in flows /\ f.orig \in ClientPacket /\ f.orig.src = Client
  BY AskContinues
<1>2. g \in flows /\ g.orig.src = Client /\ Outward(g) /\ g.orig.sport = Listen
  BY AskContinues DEF Connections
<1>3. PortsApart' /\ Shown' /\ NoneIsLocal'
  BY <1>1, MarkedIsFewer, FewerFlows DEF Ask, ClientContinues
<1>4. /\ packet' = [proto |-> g.orig.proto, src |-> f.orig.dst, sport |-> d,
                    dst |-> g.reply.dst, dport |-> g.reply.dport]
      /\ d # Listen /\ AcceptOut(f.orig) /\ ClientContinues(f.orig, f)
      /\ admitted' = {Promised(packet)'}
  BY DEF Ask
<1>5. g.orig \in Packet /\ g.reply \in Packet /\ f.orig.dst \in Server
  BY <1>1, <1>2, Kinds DEF ClientPacket
<1>6. /\ packet' \in Packet /\ packet'.src = f.orig.dst /\ packet'.sport # Listen
      /\ packet'.dst = g.reply.dst /\ packet'.dport = g.reply.dport
  BY <1>4, <1>5 DEF Packet, Addr
<1>7. packet'.dst = IF NatType = "none" THEN Client ELSE Router
  BY <1>2, <1>6 DEF Shown
<1>8. Filtering # "APDF" => packet'.dport = Listen
  BY <1>2, <1>6 DEF Shown
<1>9. Filtering = "ADF" => packet'.src \in contacted'
  <2>1. NatType = "address-restricted" => contacted' = contacted \cup {f.orig.dst}
    BY <1>4 DEF ClientContinues, Leave, Sent
  <2> QED
    BY <1>6, <2>1, FilteringOf
<1> QED
  BY <1>3, <1>4, <1>5, <1>6, <1>7, <1>8, <1>9 DEF Asked

LEMMA StepDialInv ==
  ASSUME Remap = <<>>, DialInv, [DialNext]_dialVars
  PROVE  DialInv'
<1> USE DEF DialInv
<1>0. IInv'
  BY StepRouter, StepIInv
<1>1. ASSUME NEW f \in Connections, NEW g \in Connections, NEW d \in Port, Ask(f, g, d)
      PROVE  DialInv'
  <2>1. PortsApart' /\ Shown' /\ NoneIsLocal' /\ Asked'
    BY <1>1, StepAsk
  <2>2. phase' = "asked"
    BY <1>1 DEF Ask
  <2> QED
    BY <1>0, <2>1, <2>2 DEF Probing, FreshVerdictIsJustified, ConeLooksPublic
<1>2. ASSUME Attempt PROVE DialInv'
  <2>1. /\ Asked /\ packet \in ServerPacket /\ Crosses(packet) /\ packet' = packet
        /\ phase \in {"asked", "tried"}
        /\ admitted' = admitted \cup {Promised(packet)'}
        /\ fresh' = IF phase = "asked" THEN ~Taken(packet) ELSE fresh
    BY <1>2 DEF Attempt, Probing
  <2>2. /\ PortsApart' /\ Shown' /\ NoneIsLocal'
        /\ ~Passes(packet) /\ (Stray \/ ~Taken(packet)) => Stray'
    BY <2>1, DialsFlows
  <2>3. contacted \subseteq contacted'
    BY <2>1 DEF Crosses, ServerOpens, ServerContinues, Arrive, Dropped, router
  <2>4. Asked'
    BY <2>1, <2>3 DEF Asked
  <2>5. ASSUME fresh'
        PROVE  IF Passes(packet) THEN TRUE \in admitted' ELSE Stray' /\ FALSE \in admitted'
    <3>1. ASSUME ~Taken(packet)
          PROVE  IF Passes(packet) THEN TRUE \in admitted' ELSE Stray' /\ FALSE \in admitted'
      <4>1. Passes(packet) <=> Promised(packet)
        BY <2>1, <3>1, FirstAsPromised
      <4>2. Promised(packet) \in BOOLEAN /\ Promised(packet) \in admitted'
        <5>1. Promised(packet) \in admitted
          BY <2>1 DEF Asked
        <5> QED
          BY <2>1, <5>1 DEF Promised
      <4>3. IF Promised(packet) THEN TRUE \in admitted' ELSE FALSE \in admitted'
        BY <4>2, MemberOf
      <4> QED
        BY <2>2, <3>1, <4>1, <4>3
    <3>2. CASE Taken(packet)
      <4>1. Stray /\ FALSE \in admitted
        BY <2>1, <2>5, <3>2
      <4>2. ~Passes(packet)
        BY <2>1, <3>2, <4>1, StrayFails
      <4>3. FALSE \in admitted'
        BY <2>1, <4>1
      <4> QED
        BY <2>2, <4>1, <4>2, <4>3
    <3> QED
      BY <3>1, <3>2
  <2>6. CASE Passes(packet)
    <3>1. phase' = "answered" /\ verdict' = "reachable"
      BY <1>2, <2>6 DEF Attempt
    <3>2. fresh' => TRUE \in admitted'
      BY <2>5, <2>6
    <3> QED
      BY <1>0, <2>2, <3>1, <3>2 DEF Probing, FreshVerdictIsJustified, ConeLooksPublic
  <2>7. CASE ~Passes(packet)
    <3>1. phase' = "tried"
      BY <1>2, <2>7 DEF Attempt
    <3>2. Filtering = "APDF"
      BY <2>1, <2>7, ConePasses
    <3>3. fresh' => Stray' /\ FALSE \in admitted'
      BY <2>5, <2>7
    <3> QED
      BY <1>0, <2>2, <2>4, <3>1, <3>2, <3>3
      DEF Probing, FreshVerdictIsJustified, ConeLooksPublic
  <2> QED
    BY <2>6, <2>7
<1>3. ASSUME DialFails PROVE DialInv'
  <2>1. /\ phase = "tried" /\ phase' = "answered" /\ verdict' = "unreachable"
        /\ UNCHANGED <<router, packet, fresh, admitted>>
    BY <1>3 DEF DialFails
  <2>2. PortsApart' /\ Shown' /\ NoneIsLocal'
    BY <2>1, FewerFlows DEF router, Fewer
  <2> QED
    BY <1>0, <2>1, <2>2 DEF Probing, FreshVerdictIsJustified, ConeLooksPublic
<1>4. ASSUME Network PROVE DialInv'
  <2>1. /\ UNCHANGED dial
        /\ admitted' = IF Probing THEN admitted \cup {Promised(packet)'} ELSE admitted
    BY <1>4 DEF Network
  <2>2. /\ PortsApart' /\ Shown' /\ NoneIsLocal'
        /\ Asked /\ Stray => Stray'
    <3>1. ASSUME NEW p \in ClientPacket, p.dport = Listen, ClientOpens(p) PROVE <2>2
      BY <2>1, <3>1, OpensFlows DEF dial
    <3>2. ASSUME NEW p, NEW f \in flows, ClientContinues(p, f) \/ ServerContinues(p, f)
          PROVE  Fewer
      BY <3>2, MarkedIsFewer DEF ClientContinues, ServerContinues
    <3>3. ASSUME NEW f \in flows, FlowExpires(f) PROVE Fewer
      BY <3>3, MarkedIsFewer DEF FlowExpires
    <3>4. ASSUME UNCHANGED flows PROVE Fewer
      BY <3>4 DEF Fewer
    <3>5. ASSUME Fewer PROVE <2>2
      BY <2>1, <3>5, FewerFlows DEF dial
    <3> QED
      BY <1>4, <3>1, <3>2, <3>3, <3>4, <3>5
      DEF Network, ContactAges, ToggleStarts, ToggleCommand
  <2>3. ASSUME Probing, Filtering = "ADF" PROVE packet.src \in contacted'
    <3>1. packet.src \in contacted
      BY <2>3 DEF Asked
    <3>2. ASSUME NEW s \in contacted, Probing => s # packet.src, ContactAges(s)
          PROVE  packet.src \in contacted'
      BY <2>3, <3>1, <3>2 DEF ContactAges
    <3>3. ASSUME contacted \subseteq contacted' PROVE packet.src \in contacted'
      BY <3>1, <3>3
    <3> QED
      BY <1>4, <3>2, <3>3
      DEF Network, ClientOpens, ClientContinues, ServerContinues, Leave, Arrive, Dropped,
          FlowExpires, ToggleStarts, ToggleCommand
  <2>4. Probing => Asked'
    BY <2>1, <2>3 DEF Asked, dial
  <2>5. admitted \subseteq admitted'
    BY <2>1
  <2>6. FreshVerdictIsJustified' /\ ConeLooksPublic'
    BY <2>1, <2>5 DEF dial, FreshVerdictIsJustified, ConeLooksPublic
  <2> QED
    BY <1>0, <2>1, <2>2, <2>4, <2>5, <2>6 DEF dial, Probing
<1>5. CASE UNCHANGED dialVars
  <2>1. UNCHANGED <<router, dial, admitted>>
    BY <1>5 DEF dialVars
  <2>2. PortsApart' /\ Shown' /\ NoneIsLocal' /\ (Stray => Stray')
    BY <2>1, FewerFlows DEF router, dial, Fewer
  <2>3. Asked => Asked'
    BY <2>1 DEF router, dial, Asked, Promised
  <2> QED
    BY <1>0, <2>1, <2>2, <2>3
    DEF router, dial, Probing, FreshVerdictIsJustified, ConeLooksPublic
<1> QED
  BY <1>1, <1>2, <1>3, <1>4, <1>5 DEF DialNext

LEMMA DialInvHolds == Remap = <<>> => (DialSpec => []DialInv)
<1> SUFFICES ASSUME Remap = <<>> PROVE DialSpec => []DialInv
  OBVIOUS
<1>1. DialInit => DialInv
  <2> SUFFICES ASSUME DialInit PROVE DialInv
    OBVIOUS
  <2>1. IInv /\ flows = {} /\ phase = "idle"
    BY InitIInv DEF DialInit, Init
  <2> QED
    BY <2>1 DEF DialInv, PortsApart, Shown, NoneIsLocal, Probing,
                FreshVerdictIsJustified, ConeLooksPublic
<1>2. DialInv /\ [DialNext]_dialVars => DialInv'
  BY StepDialInv
<1> QED
  BY <1>1, <1>2, PTL DEF DialSpec

\* Whatever the NAT type and however toggles, packets and expiry interleave, a
\* dial-back from a port without a flow finds what the NAT promised meanwhile.
THEOREM FreshVerdict == DialSpec => []FreshVerdictIsJustified
<1>1. CASE Remap = <<>>
  <2>1. DialInv => FreshVerdictIsJustified
    BY DEF DialInv
  <2> QED
    BY <1>1, <2>1, DialInvHolds, PTL
<1>2. CASE Remap # <<>>
  <2>1. FreshVerdictIsJustified
    BY <1>2 DEF FreshVerdictIsJustified
  <2> QED
    BY <2>1, PTL
<1> QED
  BY <1>1, <1>2

\* The false positive of the address-restricted NAT: every dial-back through a
\* NAT that does not filter by port succeeds.
THEOREM FalsePositive == DialSpec => []ConeLooksPublic
<1>1. CASE Remap = <<>>
  <2>1. DialInv => ConeLooksPublic
    BY DEF DialInv
  <2> QED
    BY <1>1, <2>1, DialInvHolds, PTL
<1>2. CASE Remap # <<>>
  <2>1. ConeLooksPublic
    BY <1>2 DEF ConeLooksPublic
  <2> QED
    BY <2>1, PTL
<1> QED
  BY <1>1, <1>2
=============================================================================
