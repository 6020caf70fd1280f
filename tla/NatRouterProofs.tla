--------------------------- MODULE NatRouterProofs ---------------------------
(***************************************************************************)
(* Theorems about the NAT router, for every set of servers and ports, every *)
(* NAT type, remapping, blocked port and number of rules.                   *)
(***************************************************************************)
EXTENDS NatRouter, TLAPS

\* What a tracked flow can be: opened by the client and seen outside as the
\* client or the router; opened by a server and led to the client; or opened
\* by a server and ended at the router.
Outward(f) == /\ f.orig \in ClientPacket
              /\ f.reply.src = f.orig.dst /\ f.reply.sport = f.orig.dport
              /\ f.reply.proto = f.orig.proto
              /\ f.reply.dst \in {Client, Router}
Inward(f) == /\ f.orig \in ServerPacket
             /\ f.reply.dst = f.orig.src /\ f.reply.sport = f.orig.dport
             /\ f.reply.proto = f.orig.proto
             /\ f.reply.src = Client
Local(f) == /\ f.orig \in ServerPacket
            /\ f.orig.dst = Router
            /\ f.reply = Reverse(f.orig)
FlowShape == \A f \in flows : Outward(f) \/ Inward(f) \/ Local(f)

Script == [flag : {"-I", "-D"}, next : 1..5, ok : BOOLEAN]

\* A packet matches at most one flow, in one direction: a strengthening that the
\* other invariants rest on, true by what connection tracking is.
TuplesUnique ==
  \A f, g \in flows :
    /\ f.orig # f.reply
    /\ f # g => {f.orig, f.reply} \cap {g.orig, g.reply} = {}

IInv == TypeOK /\ FlowShape /\ TuplesUnique

\* Reversing a packet twice gives it back.
LEMMA ReverseTwice ==
  ASSUME NEW p \in Packet
  PROVE  Reverse(p) \in Packet /\ Reverse(Reverse(p)) = p
BY DEF Reverse, Packet

\* A source port the chains choose is a port whose reply tuple is free.
LEMMA PortsOutFree ==
  ASSUME NEW p, NEW n \in PortsOut(p)
  PROVE  n \in FreePorts([p EXCEPT !.src = SourceOut(p)])
BY DEF PortsOut, KeepPort

LEMMA KeepPortFree ==
  ASSUME NEW q, NEW n \in KeepPort(q)
  PROVE  n \in FreePorts(q)
BY DEF KeepPort

\* The three kinds of new flow are flows of their kind, and free tuples.
LEMMA NewOutFlow ==
  ASSUME NEW p \in ClientPacket, NEW n \in PortsOut(p)
  PROVE  /\ OutFlow(p, n) \in Flow
         /\ Outward(OutFlow(p, n))
         /\ OutFlow(p, n).orig = p
         /\ ~Taken(OutFlow(p, n).reply)
<1> DEFINE q == [p EXCEPT !.src = SourceOut(p)]
           r == [q EXCEPT !.sport = n]
<1>1. n \in FreePorts(q)
  BY PortsOutFree
<1>2. n \in Port /\ ~Taken(Reverse(r))
  BY <1>1 DEF FreePorts
<1>3. SourceOut(p) \in {Client, Router}
  BY DEF SourceOut
<1>4. p \in Packet /\ p.dst \in Server
  BY DEF ClientPacket
<1>5. /\ r \in Packet
      /\ r = [p EXCEPT !.src = SourceOut(p), !.sport = n]
      /\ r.src = SourceOut(p) /\ r.dst = p.dst /\ r.dport = p.dport
      /\ r.proto = p.proto
  BY <1>2, <1>3, <1>4 DEF Packet, Addr
<1>6. OutFlow(p, n) = [orig |-> p, seen |-> FALSE, reply |-> Reverse(r)]
  BY <1>5 DEF OutFlow
<1> HIDE DEF r
<1>7. Reverse(r) \in Packet
  BY <1>5, ReverseTwice
<1>8. OutFlow(p, n) \in Flow
  BY <1>4, <1>6, <1>7 DEF Flow
<1>9. Outward(OutFlow(p, n))
  BY <1>3, <1>5, <1>6 DEF Outward, Reverse
<1> QED
  BY <1>2, <1>6, <1>8, <1>9

LEMMA NewInFlow ==
  ASSUME NEW p \in ServerPacket, NEW n \in KeepPort([p EXCEPT !.dst = Client])
  PROVE  /\ InFlow(p, n) \in Flow
         /\ Inward(InFlow(p, n))
         /\ InFlow(p, n).orig = p
         /\ ~Taken(InFlow(p, n).reply)
<1> DEFINE q == [p EXCEPT !.dst = Client]
           r == [q EXCEPT !.sport = n]
<1>1. n \in FreePorts(q)
  BY KeepPortFree
<1>2. n \in Port /\ ~Taken(Reverse(r))
  BY <1>1 DEF FreePorts
<1>4. p \in Packet /\ p.src \in Server
  BY DEF ServerPacket
<1>5. /\ r \in Packet
      /\ r = [p EXCEPT !.dst = Client, !.sport = n]
      /\ r.src = p.src /\ r.dst = Client /\ r.dport = p.dport
      /\ r.proto = p.proto
  BY <1>2, <1>4 DEF Packet, Addr
<1>6. InFlow(p, n) = [orig |-> p, seen |-> FALSE, reply |-> Reverse(r)]
  BY <1>5 DEF InFlow
<1> HIDE DEF r
<1>7. Reverse(r) \in Packet
  BY <1>5, ReverseTwice
<1>8. InFlow(p, n) \in Flow
  BY <1>4, <1>6, <1>7 DEF Flow
<1>9. Inward(InFlow(p, n))
  BY <1>5, <1>6 DEF Inward, Reverse
<1> QED
  BY <1>2, <1>6, <1>8, <1>9

LEMMA NewLocalFlow ==
  ASSUME TypeOK, FlowShape,
         NEW p \in ServerPacket, p.dst # Client, ~Taken(p)
  PROVE  /\ LocalFlow(p) \in Flow
         /\ Local(LocalFlow(p))
         /\ LocalFlow(p).orig = p
         /\ ~Taken(LocalFlow(p).reply)
<1>1. p \in Packet /\ p.src \in Server /\ p.dst = Router
  BY DEF ServerPacket
<1>2. LocalFlow(p) = [orig |-> p, seen |-> FALSE, reply |-> Reverse(p)]
  BY DEF LocalFlow
<1>3. Reverse(p) \in Packet /\ Reverse(Reverse(p)) = p /\ Reverse(p).src = Router
  BY <1>1, ReverseTwice DEF Reverse
<1>4. ASSUME NEW g \in flows, Reverse(p) = g.orig \/ Reverse(p) = g.reply
      PROVE  FALSE
  <2>1. CASE Outward(g)
    BY <1>3, <1>4, <2>1, ConstantsAssumption DEF Outward, ClientPacket
  <2>2. CASE Inward(g)
    BY <1>3, <1>4, <2>2, ConstantsAssumption DEF Inward, ServerPacket
  <2>3. CASE Local(g)
    <3>1. g.orig \in Packet /\ g.orig.src \in Server
      BY <2>3 DEF Local, ServerPacket
    <3>2. Reverse(Reverse(g.orig)) = g.orig
      BY <3>1, ReverseTwice
    <3>3. g.orig # Reverse(p)
      BY <3>1, <1>3, ConstantsAssumption
    <3>4. g.orig = p
      BY <3>2, <3>3, <1>4, <1>3, <2>3 DEF Local
    <3> QED
      BY <3>4 DEF Taken
  <2> QED
    BY <2>1, <2>2, <2>3 DEF FlowShape
<1>5. Local(LocalFlow(p))
  BY <1>1, <1>2 DEF Local
<1>6. LocalFlow(p) \in Flow
  BY <1>1, <1>2, <1>3 DEF Flow
<1>7. ~Taken(Reverse(p))
  BY <1>4 DEF Taken
<1> QED
  BY <1>2, <1>5, <1>6, <1>7

\* The two directions of a flow are different packets.
LEMMA DirectionsDiffer ==
  ASSUME NEW f, Outward(f) \/ Inward(f) \/ Local(f)
  PROVE  f.orig # f.reply
<1>1. CASE Outward(f)
  BY <1>1, ConstantsAssumption DEF Outward, ClientPacket
<1>2. CASE Inward(f)
  BY <1>2, ConstantsAssumption DEF Inward, ServerPacket
<1>3. CASE Local(f)
  BY <1>3, ConstantsAssumption DEF Local, ServerPacket, Reverse
<1> QED
  BY <1>1, <1>2, <1>3

\* Adding a flow of one of the kinds whose two tuples are free, marking a flow
\* as established and dropping flows keep the shape and the uniqueness.
LEMMA AddFlow ==
  ASSUME flows \subseteq Flow, FlowShape, TuplesUnique,
         NEW h \in Flow, Outward(h) \/ Inward(h) \/ Local(h),
         ~Taken(h.orig), ~Taken(h.reply),
         flows' = flows \cup {h}
  PROVE  flows' \subseteq Flow /\ FlowShape' /\ TuplesUnique'
<1>1. FlowShape'
  <2> SUFFICES ASSUME NEW f \in flows'
               PROVE  Outward(f) \/ Inward(f) \/ Local(f)
    BY DEF FlowShape, Outward, Inward, Local, ClientPacket, ServerPacket
  <2> QED
    BY DEF FlowShape
<1>2. h.orig # h.reply
  BY DirectionsDiffer
<1>3. TuplesUnique'
  BY <1>2 DEF TuplesUnique, Taken
<1> QED
  BY <1>1, <1>3

LEMMA MarkFlow ==
  ASSUME flows \subseteq Flow, FlowShape, TuplesUnique, NEW f \in flows,
         flows' = (flows \ {f}) \cup {[f EXCEPT !.seen = TRUE]}
  PROVE  flows' \subseteq Flow /\ FlowShape' /\ TuplesUnique'
<1> DEFINE h == [f EXCEPT !.seen = TRUE]
<1>1. h \in Flow /\ h.orig = f.orig /\ h.reply = f.reply
  BY DEF Flow
<1>2. Outward(h) \/ Inward(h) \/ Local(h)
  BY <1>1 DEF FlowShape, Outward, Inward, Local
<1> HIDE DEF h
<1>3. flows' = (flows \ {f}) \cup {h}
  BY DEF h
<1>4. FlowShape'
  BY <1>2, <1>3 DEF FlowShape, Outward, Inward, Local
<1>5. TuplesUnique'
  BY <1>1, <1>3 DEF TuplesUnique
<1> QED
  BY <1>1, <1>3, <1>4, <1>5

LEMMA DropFlows ==
  ASSUME flows \subseteq Flow, FlowShape, TuplesUnique, flows' \subseteq flows
  PROVE  flows' \subseteq Flow /\ FlowShape' /\ TuplesUnique'
BY DEF FlowShape, TuplesUnique, Outward, Inward, Local

\* What a packet of a known flow carries belongs to a conversation under way.
LEMMA SpeakingTalks ==
  ASSUME NEW p \in ClientPacket, NEW f \in flows, p \in {f.orig, f.reply}
  PROVE  Sent(p) \in Talks /\ Sent(p) \in Conversation
<1>1. p.src = Client /\ p \in Packet /\ p.dst \in Server
  BY DEF ClientPacket
<1>2. Sent(p) \in Conversation
  BY <1>1 DEF Sent, Conversation, Packet
<1> QED
  BY <1>1, <1>2 DEF Talks

LEMMA HearingTalks ==
  ASSUME flows \subseteq Flow, FlowShape,
         NEW p \in ServerPacket, NEW f \in flows, p \in {f.orig, f.reply},
         NEW q, q = IF p = f.reply THEN Reverse(f.orig) ELSE Reverse(f.reply),
         q.dst = Client
  PROVE  Got(q) \in Talks /\ Got(q) \in Conversation
<1>1. p.src \in Server
  BY DEF ServerPacket
<1>2. f.orig \in Packet /\ f.reply \in Packet
  BY DEF Flow
<1>3. CASE p = f.reply
  <2>1. q = Reverse(f.orig) /\ Reverse(q) = f.orig
    BY <1>2, <1>3, ReverseTwice
  <2>2. f.orig.src = Client
    BY <2>1 DEF Reverse
  <2>3. f.orig.dst \in Server
    BY <1>1, <1>3, <2>2, ConstantsAssumption
    DEF FlowShape, Outward, Inward, Local, ClientPacket, ServerPacket
  <2>4. Sent(f.orig) \in Conversation
    BY <1>2, <2>3 DEF Sent, Conversation, Packet
  <2> QED
    BY <2>1, <2>2, <2>4 DEF Got, Talks
<1>4. CASE p # f.reply
  <2>1. q = Reverse(f.reply) /\ Reverse(q) = f.reply /\ p = f.orig
    BY <1>2, <1>4, ReverseTwice
  <2>2. f.reply.src = Client
    BY <2>1 DEF Reverse
  <2>3. f.reply.dst \in Server
    <3>1. ~Outward(f)
      BY <1>1, <2>1, ConstantsAssumption DEF Outward, ClientPacket
    <3>2. ~Local(f)
      BY <2>2, ConstantsAssumption DEF Local, Reverse
    <3> QED
      BY <1>1, <2>1, <3>1, <3>2 DEF FlowShape, Inward
  <2>4. Sent(f.reply) \in Conversation
    BY <1>2, <2>3 DEF Sent, Conversation, Packet
  <2> QED
    BY <2>1, <2>2, <2>4 DEF Got, Talks
<1> QED
  BY <1>3, <1>4

LEMMA InTalks ==
  ASSUME NEW p \in ServerPacket, NEW n \in KeepPort([p EXCEPT !.dst = Client])
  PROVE  /\ Sent(InFlow(p, n).reply) \in Conversation
         /\ InFlow(p, n).reply.src = Client
         /\ Sent(InFlow(p, n).reply) =
              [proto |-> p.proto, cport |-> p.dport, server |-> p.src, sport |-> n]
<1>1. InFlow(p, n) \in Flow /\ Inward(InFlow(p, n)) /\ InFlow(p, n).orig = p
  BY NewInFlow
<1>2. p.src \in Server
  BY DEF ServerPacket
<1>3. InFlow(p, n).reply \in Packet /\ InFlow(p, n).reply.dst \in Server
  BY <1>1, <1>2 DEF Inward, Flow
<1>4. p \in Packet
  BY DEF ServerPacket
<1>5. /\ InFlow(p, n).reply.proto = p.proto
      /\ InFlow(p, n).reply.sport = p.dport
      /\ InFlow(p, n).reply.dst = p.src
  BY <1>1 DEF Inward
<1>6. InFlow(p, n).reply.dport = n
  BY <1>4 DEF InFlow, Reverse, Packet
<1>7. Sent(InFlow(p, n).reply) \in Conversation
  BY <1>3 DEF Sent, Conversation, Packet
<1> QED
  BY <1>1, <1>5, <1>6, <1>7 DEF Inward, Sent

-----------------------------------------------------------------------------
LEMMA InitIInv == Init => IInv
<1> SUFFICES ASSUME Init PROVE IInv
  OBVIOUS
<1>1. rules \in [Rule -> Nat]
  BY DEF Init
<1> QED
  BY <1>1 DEF Init, IInv, TypeOK, FlowShape, TuplesUnique

LEMMA StepIInv == IInv /\ [Next]_vars => IInv'
<1> SUFFICES ASSUME IInv, [Next]_vars PROVE IInv'
  OBVIOUS
<1> USE DEF IInv
<1>s. script \in Script
  BY DEF TypeOK, Script
<1>1. ASSUME NEW p \in ClientPacket, ClientOpens(p)
      PROVE  IInv'
  <2>1. flows' \subseteq Flow /\ FlowShape' /\ TuplesUnique'
    <3>1. CASE UNCHANGED flows
      BY <3>1, DropFlows DEF TypeOK
    <3>2. ASSUME NEW n \in PortsOut(p), flows' = flows \cup {OutFlow(p, n)}
          PROVE  flows' \subseteq Flow /\ FlowShape' /\ TuplesUnique'
      BY <1>1, <3>2, NewOutFlow, AddFlow DEF TypeOK, ClientOpens
    <3> QED
      BY <1>1, <3>1, <3>2 DEF ClientOpens
  <2>2. Sent(p) \in Conversation /\ Sent(p).server \in Server
    BY DEF ClientPacket, Packet, Sent, Conversation
  <2> QED
    BY <1>1, <2>1, <2>2 DEF TypeOK, ClientOpens, Leave
<1>2. ASSUME NEW p \in ClientPacket, NEW f \in flows, ClientContinues(p, f)
      PROVE  IInv'
  <2>1. flows' \subseteq Flow /\ FlowShape' /\ TuplesUnique'
    BY <1>2, MarkFlow, DropFlows DEF TypeOK, ClientContinues
  <2>2. Sent(p) \in Conversation /\ Sent(p).server \in Server
    BY DEF ClientPacket, Packet, Sent, Conversation
  <2>3. (wire' = <<"out", Sent(p)>> \/ wire' = wire) /\ contacted' \subseteq Server
    BY <1>2, <2>2 DEF TypeOK, ClientContinues, Leave, Dropped
  <2>4. UNCHANGED <<rules, script>>
    BY <1>2 DEF ClientContinues
  <2> QED
    BY <2>1, <2>2, <2>3, <2>4 DEF TypeOK
<1>3. ASSUME NEW p \in ServerPacket, ServerOpens(p)
      PROVE  IInv'
  <2>1. CASE p.dst = Client \/ DnatToClient(p)
    <3>1. PICK n \in KeepPort([p EXCEPT !.dst = Client]) :
            /\ flows' = flows \cup {InFlow(p, n)}
            /\ Arrive(Sent(InFlow(p, n).reply))
      BY <1>3, <2>1 DEF ServerOpens
    <3>2. flows' \subseteq Flow /\ FlowShape' /\ TuplesUnique'
      BY <1>3, <3>1, NewInFlow, AddFlow DEF TypeOK, ServerOpens
    <3>3. Sent(InFlow(p, n).reply) \in Conversation
      BY InTalks
    <3>4. UNCHANGED <<rules, script>>
      BY <1>3 DEF ServerOpens
    <3> QED
      BY <3>1, <3>2, <3>3, <3>4 DEF TypeOK, Arrive
  <2>2. CASE ~(p.dst = Client \/ DnatToClient(p))
    <3>1. flows' = flows \cup {LocalFlow(p)} /\ Dropped /\ UNCHANGED <<rules, script>>
      BY <1>3, <2>2 DEF ServerOpens
    <3>2. flows' \subseteq Flow /\ FlowShape' /\ TuplesUnique'
      BY <1>3, <2>2, <3>1, NewLocalFlow, AddFlow DEF TypeOK, ServerOpens
    <3> QED
      BY <3>1, <3>2 DEF TypeOK, Dropped
  <2> QED
    BY <2>1, <2>2
<1>4. ASSUME NEW p \in ServerPacket, NEW f \in flows, ServerContinues(p, f)
      PROVE  IInv'
  <2> DEFINE q == IF p = f.reply THEN Reverse(f.orig) ELSE Reverse(f.reply)
  <2>1. flows' \subseteq Flow /\ FlowShape' /\ TuplesUnique'
    BY <1>4, MarkFlow, DropFlows DEF TypeOK, ServerContinues
  <2>2. (q.dst = Client /\ Arrive(Got(q))) \/ Dropped
    BY <1>4 DEF ServerContinues
  <2>3. q.dst = Client => Got(q) \in Conversation
    BY <1>4, HearingTalks DEF TypeOK, ServerContinues
  <2>4. UNCHANGED <<rules, script>>
    BY <1>4 DEF ServerContinues
  <2> HIDE DEF q
  <2> QED
    BY <2>1, <2>2, <2>3, <2>4 DEF TypeOK, Arrive, Dropped
<1>5. ASSUME NEW f \in flows, FlowExpires(f) PROVE IInv'
  BY <1>5, DropFlows DEF FlowExpires, TypeOK
<1>6. ASSUME NEW s \in contacted, ContactAges(s) PROVE IInv'
  BY <1>6, DropFlows DEF ContactAges, TypeOK
<1>7. ASSUME NEW flag \in {"-I", "-D"}, ToggleStarts(flag) PROVE IInv'
  <2>1. script' \in Script
    <3>1. script' = [flag |-> flag, next |-> 1, ok |-> script.ok]
      BY <1>7 DEF ToggleStarts
    <3> QED
      BY <1>s, <3>1 DEF Script
  <2> QED
    BY <1>7, <2>1, DropFlows DEF ToggleStarts, TypeOK, Script
<1>8. ASSUME ToggleCommand PROVE IInv'
  <2>1. Command(script.next) \in Rule
    BY DEF Command, Rule
  <2>2. rules' \in [Rule -> Nat]
    BY <1>8, <2>1 DEF ToggleCommand, TypeOK
  <2>3. script' \in Script
    <3>1. \/ script' = [script EXCEPT !.next = @ + 1]
          \/ script' = [flag |-> script.flag, next |-> script.next + 1, ok |-> FALSE]
      BY <1>8 DEF ToggleCommand
    <3>2. script.next \in 1..4
      BY <1>8, <1>s DEF ToggleCommand, Script
    <3>3. CASE script' = [script EXCEPT !.next = @ + 1]
      BY <1>s, <3>2, <3>3 DEF Script
    <3>4. CASE script' = [flag |-> script.flag, next |-> script.next + 1, ok |-> FALSE]
      BY <1>s, <3>2, <3>4 DEF Script
    <3> QED
      BY <3>1, <3>3, <3>4
  <2> QED
    BY <1>8, <2>2, <2>3, DropFlows DEF ToggleCommand, TypeOK, Script
<1>9. CASE UNCHANGED vars
  BY <1>9, DropFlows DEF vars, TypeOK
<1> QED
  BY <1>1, <1>2, <1>3, <1>4, <1>5, <1>6, <1>7, <1>8, <1>9 DEF Next

LEMMA IInvHolds == Spec => []IInv
BY InitIInv, StepIInv, PTL DEF Spec

\* Type correctness of the router, for every rule set and every interleaving.
THEOREM TypeCorrect == Spec => []TypeOK
<1>1. IInv => TypeOK
  BY DEF IInv
<1> QED
  BY <1>1, IInvHolds, PTL

-----------------------------------------------------------------------------
(* The rules keep the filtering promise of their NAT type. *)

Opened == {p \in Proto : rules[<<"dnat", p>>] + rules[<<"accept", p>>] > 0}

\* What a step does to the conversations under way.
LEMMA TalksGrow ==
  ASSUME NEW h, flows' = flows \cup {h}
  PROVE  /\ h.orig.src = Client /\ h.reply.src # Client
              => Talks' = Talks \cup {Sent(h.orig)}
         /\ h.orig.src # Client /\ h.reply.src = Client
              => Talks' = Talks \cup {Sent(h.reply)}
         /\ h.orig.src # Client /\ h.reply.src # Client => Talks' = Talks
BY DEF Talks

LEMMA TalksKept ==
  ASSUME flows \subseteq Flow, NEW f \in flows,
         flows' \in {flows, (flows \ {f}) \cup {[f EXCEPT !.seen = TRUE]}}
  PROVE  Talks' = Talks
<1> DEFINE h == [f EXCEPT !.seen = TRUE]
<1>1. h.orig = f.orig /\ h.reply = f.reply
  BY DEF Flow
<1> HIDE DEF h
<1>2. flows' = flows \/ flows' = (flows \ {f}) \cup {h}
  BY DEF h
<1> QED
  BY <1>1, <1>2 DEF Talks

LEMMA TalksShrink ==
  ASSUME flows' \subseteq flows
  PROVE  Talks' \subseteq Talks
BY DEF Talks

\* A packet accepted on its way in is of a conversation the promise admits.
LEMMA AcceptedIsAdmitted ==
  ASSUME IInv, NatType = "address-restricted" => ~DirectRoute,
         NEW p \in ServerPacket, p.dst = Client \/ DnatToClient(p),
         NEW q, q = [p EXCEPT !.dst = Client], AcceptIn(q, FALSE),
         NEW n \in KeepPort(q)
  PROVE  Promise!Admits(Sent(InFlow(p, n).reply))
<1> DEFINE t == Sent(InFlow(p, n).reply)
<1>1. t = [proto |-> p.proto, cport |-> p.dport, server |-> p.src, sport |-> n]
  BY InTalks
<1>2. p \in Packet /\ p.proto \in Proto /\ p.src \in Server
  BY DEF ServerPacket, Packet
<1>3. q.dport = p.dport /\ q.proto = p.proto
  BY <1>2 DEF Packet
<1>4. <<"dnat", p.proto>> \in Rule /\ <<"accept", p.proto>> \in Rule
  BY <1>2, ConstantsAssumption DEF Rule
<1>5. /\ rules[<<"dnat", p.proto>>] \in Nat
      /\ rules[<<"accept", p.proto>>] \in Nat
  BY <1>4 DEF IInv, TypeOK
<1>6. ASSUME p.dport = ForwardPort,
             rules[<<"dnat", p.proto>>] > 0 \/ rules[<<"accept", p.proto>>] > 0
      PROVE  Promise!Admits(t)
  <2>1. p.proto \in Opened
    BY <1>2, <1>5, <1>6 DEF Opened
  <2> QED
    BY <1>1, <1>6, <2>1 DEF Promise!Admits, Opened
<1>7. CASE NatType \in {"none", "full-cone"}
  BY <1>7 DEF Promise!Admits, Filtering
<1>8. CASE NatType = "address-restricted"
  <2>1. p.dst # Client
    BY <1>8, ConstantsAssumption DEF ServerPacket
  <2>2. \/ p.dport = ForwardPort /\ rules[<<"dnat", p.proto>>] > 0
        \/ p.src \in contacted
    BY <1>8, <2>1 DEF DnatToClient
  <2>3. Filtering = "ADF"
    BY <1>8 DEF Filtering
  <2> QED
    BY <1>1, <1>6, <2>2, <2>3 DEF Promise!Admits
<1>9. CASE NatType \notin {"none", "full-cone", "address-restricted"}
  BY <1>3, <1>6, <1>9 DEF AcceptIn
<1> QED
  BY <1>7, <1>8, <1>9

LEMMA InitPromise == Init => Promise!PromiseInit
<1> SUFFICES ASSUME Init PROVE Promise!PromiseInit
  OBVIOUS
<1>1. \A p \in Proto : /\ <<"dnat", p>> \in Rule
                       /\ <<"accept", p>> \in Rule
  BY ConstantsAssumption DEF Rule
<1>2. Opened = IF StaticForward THEN Proto ELSE {}
  BY <1>1 DEF Init, Opened
<1>3. Talks = {}
  BY DEF Init, Talks
<1> QED
  BY <1>2, <1>3 DEF Init, Promise!PromiseInit, Opened

LEMMA StepPromise ==
  ASSUME NatType = "address-restricted" => ~DirectRoute, IInv, [Next]_vars
  PROVE  [Promise!PromiseNext]_(Promise!promiseVars)
<1> USE DEF IInv
<1> DEFINE Goal == [Promise!PromiseNext]_(Promise!promiseVars)
<1>a. flows \subseteq Flow
  BY DEF TypeOK
<1>b. ASSUME UNCHANGED rules PROVE Opened' = Opened
  BY <1>b DEF Opened
\* The client speaks.
<1>c. ASSUME NEW t \in Conversation, Leave(t), UNCHANGED rules,
             Talks' \in {Talks, Talks \cup {t}}
      PROVE  Goal
  <2>1. contacted' = IF Filtering = "ADF" THEN contacted \cup {t.server}
                     ELSE contacted
    BY <1>c DEF Leave, Filtering
  <2>2. Promise!Contact(t)
    BY <1>b, <1>c, <2>1 DEF Leave, Promise!Contact, Opened
  <2> QED
    BY <2>2 DEF Promise!PromiseNext, Promise!Conversation, Conversation
\* The client hears.
<1>d. ASSUME NEW t \in Conversation, Arrive(t), UNCHANGED rules,
             Promise!Admits(t), Talks' = Talks \cup {t}
      PROVE  Goal
  <2>1. Promise!Hear(t)
    BY <1>b, <1>d DEF Arrive, Promise!Hear, Opened
  <2> QED
    BY <2>1 DEF Promise!PromiseNext, Promise!Conversation, Conversation
\* Nothing crosses the router.
<1>e. ASSUME Dropped, UNCHANGED rules, Talks' = Talks
      PROVE  Goal
  BY <1>b, <1>e DEF Dropped, Opened, Promise!promiseVars
<1>f. ASSUME UNCHANGED <<wire, rules>>, Talks' \subseteq Talks,
             contacted' \subseteq contacted
      PROVE  Goal
  BY <1>b, <1>f DEF Promise!Forget, Promise!PromiseNext, Opened
<1>1. ASSUME NEW p \in ClientPacket, ClientOpens(p)
      PROVE  Goal
  <2>1. Sent(p) \in Conversation
    BY DEF ClientPacket, Packet, Sent, Conversation
  <2>2. Talks' \in {Talks, Talks \cup {Sent(p)}}
    <3>1. CASE UNCHANGED flows
      BY <3>1 DEF Talks
    <3>2. ASSUME NEW n \in PortsOut(p), flows' = flows \cup {OutFlow(p, n)}
          PROVE  Talks' = Talks \cup {Sent(p)}
      <4>1. /\ OutFlow(p, n).orig = p /\ p.src = Client
            /\ OutFlow(p, n).reply.src # Client
        BY NewOutFlow, ConstantsAssumption DEF Outward, ClientPacket
      <4> QED
        BY <3>2, <4>1, TalksGrow
    <3> QED
      BY <1>1, <3>1, <3>2 DEF ClientOpens
  <2> QED
    BY <1>1, <1>c, <2>1, <2>2 DEF ClientOpens
<1>2. ASSUME NEW p \in ClientPacket, NEW f \in flows, ClientContinues(p, f)
      PROVE  Goal
  <2>1. Talks' = Talks
    BY <1>2, <1>a, TalksKept DEF ClientContinues
  <2>2. Sent(p) \in Conversation
    BY <1>2, SpeakingTalks DEF ClientContinues
  <2> QED
    BY <1>2, <1>c, <1>e, <2>1, <2>2 DEF ClientContinues
<1>3. ASSUME NEW p \in ServerPacket, ServerOpens(p)
      PROVE  Goal
  <2>1. CASE p.dst = Client \/ DnatToClient(p)
    <3> DEFINE q == [p EXCEPT !.dst = Client]
    <3>1. PICK n \in KeepPort(q) :
            /\ flows' = flows \cup {InFlow(p, n)}
            /\ Arrive(Sent(InFlow(p, n).reply))
      BY <1>3, <2>1 DEF ServerOpens
    <3>2. AcceptIn(q, FALSE) /\ UNCHANGED rules
      BY <1>3, <2>1 DEF ServerOpens
    <3>3. Promise!Admits(Sent(InFlow(p, n).reply))
      BY <2>1, <3>2, AcceptedIsAdmitted
    <3>4. /\ InFlow(p, n).reply.src = Client
          /\ Sent(InFlow(p, n).reply) \in Conversation
      BY InTalks
    <3>5. InFlow(p, n).orig.src # Client
      BY NewInFlow, ConstantsAssumption DEF ServerPacket
    <3>6. Talks' = Talks \cup {Sent(InFlow(p, n).reply)}
      BY <3>1, <3>4, <3>5, TalksGrow
    <3> QED
      BY <3>1, <3>2, <3>3, <3>4, <3>6, <1>d
  <2>2. CASE ~(p.dst = Client \/ DnatToClient(p))
    <3>1. flows' = flows \cup {LocalFlow(p)} /\ Dropped /\ UNCHANGED rules
      BY <1>3, <2>2 DEF ServerOpens
    <3>2. /\ LocalFlow(p).orig = p /\ p.src # Client
          /\ LocalFlow(p).reply.src # Client
      BY <2>2, ConstantsAssumption DEF LocalFlow, Reverse, ServerPacket
    <3>3. Talks' = Talks
      BY <3>1, <3>2, TalksGrow
    <3> QED
      BY <3>1, <3>3, <1>e
  <2> QED
    BY <2>1, <2>2
<1>4. ASSUME NEW p \in ServerPacket, NEW f \in flows, ServerContinues(p, f)
      PROVE  Goal
  <2> DEFINE q == IF p = f.reply THEN Reverse(f.orig) ELSE Reverse(f.reply)
  <2>1. Talks' = Talks
    BY <1>4, <1>a, TalksKept DEF ServerContinues
  <2>2. (q.dst = Client /\ Arrive(Got(q))) \/ Dropped
    BY <1>4 DEF ServerContinues
  <2>3. UNCHANGED rules /\ p \in {f.orig, f.reply}
    BY <1>4 DEF ServerContinues
  <2>4. q.dst = Client => Got(q) \in Talks /\ Got(q) \in Conversation
    BY <1>a, <2>3, HearingTalks
  <2> HIDE DEF q
  <2>5. Got(q) \in Talks => Promise!Admits(Got(q)) /\ Talks' = Talks \cup {Got(q)}
    BY <2>1 DEF Promise!Admits
  <2> QED
    BY <2>1, <2>2, <2>3, <2>4, <2>5, <1>d, <1>e
<1>5. ASSUME NEW f \in flows, FlowExpires(f) PROVE Goal
  BY <1>5, <1>f, TalksShrink DEF FlowExpires
<1>6. ASSUME NEW s \in contacted, ContactAges(s) PROVE Goal
  BY <1>6, <1>f, TalksShrink DEF ContactAges
<1>7. ASSUME NEW flag \in {"-I", "-D"}, ToggleStarts(flag) PROVE Goal
  BY <1>7, <1>f, TalksShrink DEF ToggleStarts
<1>8. ASSUME ToggleCommand PROVE Goal
  <2> DEFINE c == Command(script.next)
  <2>1. /\ c \in Rule
        /\ \A r \in Rule : r # c => rules'[r] = rules[r]
    BY <1>8 DEF ToggleCommand, TypeOK, Command, Rule
  <2>2. PICK x \in {"tcp", "udp"} : \A y \in {"tcp", "udp"} \ {x} :
          <<"dnat", y>> # c /\ <<"accept", y>> # c
    BY DEF Command
  <2>3. \A y \in Proto : y # x => (y \in Opened' <=> y \in Opened)
    <3> SUFFICES ASSUME NEW y \in Proto, y # x
                 PROVE  y \in Opened' <=> y \in Opened
      OBVIOUS
    <3>1. y \in {"tcp", "udp"} \ {x}
      BY ConstantsAssumption
    <3>2. <<"dnat", y>> \in Rule /\ <<"accept", y>> \in Rule
      BY <3>1 DEF Rule
    <3>3. /\ rules'[<<"dnat", y>>] = rules[<<"dnat", y>>]
          /\ rules'[<<"accept", y>>] = rules[<<"accept", y>>]
      BY <2>1, <2>2, <3>1, <3>2
    <3> QED
      BY <3>3 DEF Opened
  <2>4. Opened' \subseteq Proto /\ Opened \subseteq Proto
    BY DEF Opened
  <2>5. Talks' = Talks /\ UNCHANGED <<wire, contacted>>
    BY <1>8 DEF ToggleCommand, Talks
  <2>6. CASE x \in Proto
    <3>1. Opened' \in {Opened \cup {x}, Opened \ {x}}
      BY <2>3, <2>4
    <3>2. Promise!Toggle(x)
      BY <2>5, <3>1 DEF Promise!Toggle, Opened
    <3> QED
      BY <2>6, <3>2 DEF Promise!PromiseNext
  <2>7. CASE x \notin Proto
    <3>1. Opened' = Opened
      BY <2>3, <2>4, <2>7
    <3> QED
      BY <2>5, <3>1 DEF Promise!promiseVars, Opened
  <2> QED
    BY <2>6, <2>7
<1>9. CASE UNCHANGED vars
  BY <1>9, <1>f, TalksShrink DEF vars
<1> QED
  BY <1>1, <1>2, <1>3, <1>4, <1>5, <1>6, <1>7, <1>8, <1>9 DEF Next

\* Every NAT type filters as promised, through toggles, time-outs and port
\* collisions; the address-restricted one on condition that no server uses the
\* route to the private network (see the run nat_adf_direct).
THEOREM FilteringIsKept ==
  (NatType = "address-restricted" => ~DirectRoute) => (Spec => FilterPromise)
<1> SUFFICES ASSUME NatType = "address-restricted" => ~DirectRoute
             PROVE  Spec => FilterPromise
  OBVIOUS
<1>1. IInv /\ [Next]_vars => [Promise!PromiseNext]_(Promise!promiseVars)
  BY StepPromise
<1> QED
  BY <1>1, InitPromise, IInvHolds, PTL DEF Spec, FilterPromise, Promise!PromiseSpec

-----------------------------------------------------------------------------
(* The full-cone rules map a client port to itself, whoever speaks first. *)

PlainFullCone == NatType = "full-cone" /\ Remap = <<>> /\ ~DirectRoute

\* The reply tuple of a flow that kept its port.
KeptReply(p) ==
  IF p.src = Client
  THEN [proto |-> p.proto, src |-> p.dst, sport |-> p.dport,
        dst |-> Router, dport |-> p.sport]
  ELSE [proto |-> p.proto, src |-> Client, sport |-> p.dport,
        dst |-> p.src, dport |-> p.sport]

PortKept == \A f \in flows : /\ f.reply = KeptReply(f.orig)
                             /\ f.orig \in ClientPacket \cup ServerPacket

LEMMA KeptPort ==
  ASSUME PortKept, NEW f \in flows, f.orig.src = Client
  PROVE  f.reply.dst = Router /\ f.reply.dport = f.orig.sport
<1>1. f.reply = KeptReply(f.orig)
  BY DEF PortKept
<1>2. KeptReply(f.orig) = [proto |-> f.orig.proto, src |-> f.orig.dst,
                           sport |-> f.orig.dport, dst |-> Router,
                           dport |-> f.orig.sport]
  BY DEF KeptReply
<1> QED
  BY <1>1, <1>2

\* Without the route to the private network the two first packets that could
\* claim a reply tuple are the two directions of one flow.
LEMMA KeptReplyFree ==
  ASSUME PlainFullCone, PortKept,
         NEW p \in ClientPacket \cup ServerPacket, ~Taken(p)
  PROVE  ~Taken(KeptReply(p))
<1> SUFFICES ASSUME NEW f \in flows, KeptReply(p) = f.orig \/ KeptReply(p) = f.reply
             PROVE  FALSE
  BY DEF Taken
<1> USE ConstantsAssumption DEF PlainFullCone, ClientPacket, ServerPacket
<1>1. f.reply = KeptReply(f.orig) /\ f.orig \in ClientPacket \cup ServerPacket
  BY DEF PortKept
<1>2. CASE KeptReply(p) = f.orig
  <2>1. KeptReply(f.orig) = p
    BY <1>2 DEF KeptReply, Packet
  <2> QED
    BY <1>1, <2>1 DEF Taken
<1>3. CASE KeptReply(p) = KeptReply(f.orig)
  <2>1. p = f.orig
    BY <1>1, <1>3 DEF KeptReply, Packet
  <2> QED
    BY <2>1 DEF Taken
<1> QED
  BY <1>1, <1>2, <1>3

LEMMA StepPortKept ==
  ASSUME PlainFullCone, IInv, PortKept, [Next]_vars
  PROVE  PortKept'
<1> USE DEF PlainFullCone
<1>1. ASSUME NEW p \in ClientPacket, ClientOpens(p)
      PROVE  PortKept'
  <2> DEFINE q == [p EXCEPT !.src = Router]
  <2>1. SourceOut(p) = Router /\ ~Remapped(p)
    BY DEF SourceOut, Remapped
  <2>2. p \in Packet /\ p.src = Client /\ p.dst \in Server
    BY DEF ClientPacket
  <2>3. Reverse([q EXCEPT !.sport = p.sport]) = KeptReply(p)
    BY <2>2 DEF Reverse, KeptReply, Packet
  <2>4. ~Taken(KeptReply(p))
    BY <1>1, KeptReplyFree DEF ClientOpens
  <2>5. p.sport \in FreePorts(q) /\ q.sport = p.sport
    BY <2>2, <2>3, <2>4 DEF FreePorts, Packet
  <2>6. KeepPort(q) = {p.sport}
    BY <2>5 DEF KeepPort
  <2>7. Mapped(p) \subseteq {p.sport}
    <3> SUFFICES ASSUME NEW g \in flows, g.orig.src = p.src, g.orig.sport = p.sport
                 PROVE  g.reply.dport = p.sport
      BY DEF Mapped
    <3> QED
      BY <2>2, KeptPort
  <2>8. PortsOut(p) \subseteq {p.sport}
    BY <2>1, <2>6, <2>7 DEF PortsOut
  <2>9. ASSUME NEW n \in PortsOut(p), flows' = flows \cup {OutFlow(p, n)}
        PROVE  PortKept'
    <3>1. n = p.sport
      BY <2>8
    <3>2. OutFlow(p, n).orig = p /\ OutFlow(p, n).reply = KeptReply(p)
      BY <2>1, <2>2, <3>1 DEF OutFlow, KeptReply, Reverse, Packet
    <3> QED
      BY <2>9, <3>2 DEF PortKept
  <2>10. CASE UNCHANGED flows
    BY <2>10 DEF PortKept
  <2> QED
    BY <1>1, <2>9, <2>10 DEF ClientOpens
<1>2. ASSUME NEW f \in flows,
             flows' \in {flows, (flows \ {f}) \cup {[f EXCEPT !.seen = TRUE]}}
      PROVE  PortKept'
  <2> DEFINE h == [f EXCEPT !.seen = TRUE]
  <2>1. h.orig = f.orig /\ h.reply = f.reply
    BY DEF IInv, TypeOK, Flow
  <2> HIDE DEF h
  <2>2. flows' = flows \/ flows' = (flows \ {f}) \cup {h}
    BY <1>2 DEF h
  <2> QED
    BY <2>1, <2>2 DEF PortKept
<1>3. ASSUME NEW p \in ServerPacket, ServerOpens(p)
      PROVE  PortKept'
  <2> DEFINE q == [p EXCEPT !.dst = Client]
  <2>1. DnatToClient(p)
    BY DEF DnatToClient
  <2>2. p \in Packet /\ p.src \in Server /\ p.src # Client /\ p.dst = Router
    BY ConstantsAssumption DEF ServerPacket
  <2>3. Reverse([q EXCEPT !.sport = p.sport]) = KeptReply(p)
    BY <2>2 DEF Reverse, KeptReply, Packet
  <2>4. ~Taken(KeptReply(p))
    BY <1>3, KeptReplyFree DEF ServerOpens
  <2>5. p.sport \in FreePorts(q) /\ q.sport = p.sport
    BY <2>2, <2>3, <2>4 DEF FreePorts, Packet
  <2>6. KeepPort(q) = {p.sport}
    BY <2>5 DEF KeepPort
  <2>7. flows' = flows \cup {InFlow(p, p.sport)}
    BY <1>3, <2>1, <2>6 DEF ServerOpens
  <2>8. InFlow(p, p.sport).orig = p /\ InFlow(p, p.sport).reply = KeptReply(p)
    BY <2>2 DEF InFlow, KeptReply, Reverse, Packet
  <2> QED
    BY <2>7, <2>8 DEF PortKept
<1>4. ASSUME flows' \subseteq flows PROVE PortKept'
  BY <1>4 DEF PortKept
<1> QED
  BY <1>1, <1>2, <1>3, <1>4
  DEF Next, vars, ClientContinues, ServerContinues, FlowExpires, ContactAges,
      ToggleStarts, ToggleCommand

LEMMA PortKeptHolds == PlainFullCone => (Spec => []PortKept)
<1> SUFFICES ASSUME PlainFullCone PROVE Spec => []PortKept
  OBVIOUS
<1>1. Init => PortKept
  BY DEF Init, PortKept
<1>2. IInv /\ PortKept /\ [Next]_vars => PortKept'
  BY StepPortKept
<1> QED
  BY <1>1, <1>2, IInvHolds, PTL DEF Spec

\* The full-cone rules give an endpoint-independent mapping for every order in
\* which client and servers open flows.
THEOREM FullConeMapping == PlainFullCone => (Spec => []MappingIndependent)
<1> SUFFICES ASSUME PlainFullCone PROVE Spec => []MappingIndependent
  OBVIOUS
<1>1. PortKept => MappingIndependent
  BY KeptPort DEF MappingIndependent
<1> QED
  BY <1>1, PortKeptHolds, PTL

\* Anybody reaches the client through the external endpoint of any of its flows.
THEOREM FullConeReachable == PlainFullCone => (Spec => []MappedReachable)
<1> SUFFICES ASSUME PlainFullCone PROVE Spec => []MappedReachable
  OBVIOUS
<1>1. PortKept => MappedReachable
  BY KeptPort DEF PlainFullCone, MappedReachable, DnatToClient, AcceptIn
<1> QED
  BY <1>1, PortKeptHolds, PTL

-----------------------------------------------------------------------------
(* The commands of a toggle. *)

\* Copies of a rule after the toggle at hand, when there were n before.
After(n) == IF script.flag = "-I" THEN n + 1 ELSE IF n > 0 THEN n - 1 ELSE n

\* Of the four rules, those whose command has run have changed alike, if no
\* command has failed.
InStep ==
  script.ok =>
    IF script.next = 5 THEN \A r, s \in Rule : rules[r] = rules[s]
    ELSE \E n \in Nat : \A k \in 1..4 :
           rules[Command(k)] = IF k < script.next THEN After(n) ELSE n

\* Each rule has one of the commands.
LEMMA CommandsAreRules ==
  /\ \A k \in 1..4 : Command(k) \in Rule
  /\ \A r \in Rule : \E k \in 1..4 : r = Command(k)
  /\ \A j, k \in 1..4 : Command(j) = Command(k) => j = k
<1>1. /\ Command(1) = <<"dnat", "tcp">> /\ Command(2) = <<"dnat", "udp">>
      /\ Command(3) = <<"accept", "tcp">> /\ Command(4) = <<"accept", "udp">>
  BY DEF Command
<1>2. \A k \in 1..4 : k = 1 \/ k = 2 \/ k = 3 \/ k = 4
  OBVIOUS
<1>3. \A r \in Rule : r \in {Command(1), Command(2), Command(3), Command(4)}
  BY <1>1 DEF Rule
<1>4. {Command(1), Command(2), Command(3), Command(4)} \subseteq Rule
  BY <1>1 DEF Rule
<1> HIDE DEF Command
<1> QED
  BY <1>1, <1>2, <1>3, <1>4

LEMMA StepInStep == TypeOK /\ InStep /\ [Next]_vars => InStep'
<1> SUFFICES ASSUME TypeOK, InStep, [Next]_vars PROVE InStep'
  OBVIOUS
<1>1. ASSUME UNCHANGED <<rules, script>> PROVE InStep'
  BY <1>1 DEF InStep, After
<1>2. ASSUME NEW flag \in {"-I", "-D"}, ToggleStarts(flag) PROVE InStep'
  <2> SUFFICES ASSUME script.ok PROVE InStep'
    BY <1>2 DEF InStep, ToggleStarts, TypeOK
  <2>1. PICK n \in Nat : \A r \in Rule : rules[r] = n
    <3>1. <<"dnat", "tcp">> \in Rule
      BY DEF Rule
    <3>2. rules[<<"dnat", "tcp">>] \in Nat
      BY <3>1 DEF TypeOK
    <3> QED
      BY <1>2, <3>1, <3>2 DEF InStep, ToggleStarts
  <2>2. rules' = rules /\ script'.next = 1
    BY <1>2 DEF ToggleStarts, TypeOK
  <2>3. \A k \in 1..4 : rules'[Command(k)] = n /\ ~(k < 1)
    BY <2>1, <2>2, CommandsAreRules
  <2> QED
    BY <2>2, <2>3 DEF InStep
<1>3. ASSUME ToggleCommand PROVE InStep'
  <2> DEFINE c == script.next
  <2>0. SUFFICES ASSUME script.ok, script'.ok PROVE InStep'
    BY <1>3 DEF InStep, ToggleCommand, TypeOK
  <2>1. c \in 1..4 /\ script'.next = c + 1 /\ script'.flag = script.flag
    <3>1. script \in Script
      BY DEF TypeOK, Script
    <3>2. \/ script' = [script EXCEPT !.next = @ + 1]
          \/ script' = [flag |-> script.flag, next |-> script.next + 1, ok |-> FALSE]
      BY <1>3 DEF ToggleCommand
    <3>3. c < 5
      BY <1>3 DEF ToggleCommand
    <3> QED
      BY <3>1, <3>2, <3>3 DEF Script
  <2>2. PICK n \in Nat : \A k \in 1..4 : rules[Command(k)] = IF k < c THEN After(n) ELSE n
    BY <2>0, <2>1 DEF InStep
  <2>3. rules' = [rules EXCEPT ![Command(c)] = After(n)]
    <3>1. rules[Command(c)] = n
      BY <2>1, <2>2
    <3>2. script' # [flag |-> script.flag, next |-> script.next + 1, ok |-> FALSE]
      BY <2>0
    <3>3. rules' = [rules EXCEPT ![Command(c)] = After(rules[Command(c)])]
      BY <1>3, <3>2 DEF ToggleCommand, After
    <3> QED
      BY <3>1, <3>3
  <2>4. After(n)' = After(n)
    BY <2>1 DEF After
  <2>5. \A k \in 1..4 : rules'[Command(k)] = IF k < c + 1 THEN After(n) ELSE n
    BY <2>1, <2>2, <2>3, CommandsAreRules DEF TypeOK
  <2>6. CASE c = 4
    <3>1. \A k \in 1..4 : rules'[Command(k)] = After(n)
      BY <2>5, <2>6
    <3> QED
      BY <2>1, <2>6, <3>1, CommandsAreRules DEF InStep
  <2>7. CASE c # 4
    BY <2>1, <2>4, <2>5, <2>7 DEF InStep
  <2> QED
    BY <2>6, <2>7
<1> QED
  BY <1>1, <1>2, <1>3
  DEF Next, vars, ClientOpens, ClientContinues, ServerOpens, ServerContinues,
      FlowExpires, ContactAges

\* As long as no command has failed, a toggle of the forwarded port is whole once its
\* four commands have run, on top of whatever forward there was and whatever toggles
\* came before.
THEOREM TogglesAreWhole == Spec => []ForwardWhole
<1>1. Init => InStep
  BY DEF Init, InStep
<1>2. InStep => ForwardWhole
  BY DEF InStep, ForwardWhole
<1> QED
  BY <1>1, <1>2, StepInStep, TypeCorrect, PTL DEF Spec
=============================================================================
