-------------------------- MODULE MockServerProofs --------------------------
(***************************************************************************)
(* Invariance proofs about the mock server, for any number of requests      *)
(* under way, any addresses and every configuration of behaviours.          *)
(***************************************************************************)
EXTENDS MockServer, FiniteSetTheorems, TLAPS

\* Only an address that was asked about is ever dialled: what the types of the
\* peerstore rest on.
DialsAsked ==
  \A r \in Request :
    /\ pc[r] = "delaying" => target[r] \in Addr \cup {NoAddr}
    /\ pc[r] = "connecting" => target[r] \in Addr

IInv == TypeOK /\ DialsAsked /\ NothingLeftBehind

\* A behaviour that is resolved is one of the table.
LEMMA DetermineType ==
  ASSUME NEW a
  PROVE  determineBehavior(a) \subseteq Behaviors
<1>1. Draw(Behavior) \subseteq Behaviors
  BY MockAssumption DEF Draw, Behaviors
<1> QED
  BY <1>1, MockAssumption DEF determineBehavior

\* The types hold at the start.
LEMMA InitIInv == Init => IInv
BY MockAssumption DEF Init, IInv, DialsAsked, NothingLeftBehind, TypeOK, Places,
   Nonce, DialStatus, Response, NoAnswer

\* A response that a handler sends is a response.
LEMMA CannedType == \A b : Canned(b) \in Response
BY DEF Canned, Response, DialStatus

\* Every action keeps the types.
LEMMA StepType == TypeOK /\ DialsAsked /\ [Next]_vars => TypeOK'
<1> SUFFICES ASSUME TypeOK, DialsAsked, [Next]_vars PROVE TypeOK'
  OBVIOUS
<1> USE DEF TypeOK, Go
<1>1. ASSUME NEW r \in Request, Receive(r) PROVE TypeOK'
  BY <1>1 DEF Receive, Places, Active
<1>2. ASSUME NEW r \in Request, Act(r) PROVE TypeOK'
  <2>1. acting' \in [Request -> Behaviors]
    BY <1>2, DetermineType DEF Act
  <2>2. pc' \in [Request -> Places]
    BY <1>2 DEF Act, Places
  <2>3. answer' \in [Request -> Response]
    BY <1>2, CannedType DEF Act, Respond
  <2> QED
    BY <1>2, <2>1, <2>2, <2>3 DEF Act
<1>3. ASSUME NEW r \in Request, Connect(r) PROVE TypeOK'
  <2>1. target[r] \in Addr
    BY <1>3 DEF Connect, DialsAsked
  <2> QED
    BY <1>3, <2>1 DEF Connect, Places
<1>4. ASSUME NEW r \in Request, FinishDial(r) PROVE TypeOK'
  BY <1>4 DEF FinishDial, Places, DialStatus
<1>5. ASSUME NEW r \in Request, NewStream(r) PROVE TypeOK'
  BY <1>5 DEF NewStream, Places, DialStatus
<1>6. ASSUME NEW r \in Request, WriteNonce(r) PROVE TypeOK'
  BY <1>6 DEF WriteNonce, Places, DialStatus, Nonce
<1>7. ASSUME NEW r \in Request, FinishRead(r) PROVE TypeOK'
  BY <1>7 DEF FinishRead, Places, DialStatus
<1>8. ASSUME NEW r \in Request, FinishHold(r) PROVE TypeOK'
  BY <1>8 DEF FinishHold, Places
<1>9. ASSUME NEW r \in Request, ClosePeer(r) PROVE TypeOK'
  BY <1>9 DEF ClosePeer, Places, Nonce
<1>10. ASSUME NEW r \in Request, ClearAddrs(r) PROVE TypeOK'
  BY <1>10 DEF ClearAddrs, Places
<1>11. ASSUME NEW r \in Request, Reply(r) PROVE TypeOK'
  <2>1. <<"OK", IF acting[r] = "no-dialback-msg" THEN "OK" ELSE status[r]>> \in Response
    BY DEF Response, DialStatus
  <2> QED
    BY <1>11, <2>1 DEF Reply, Respond, Places
<1>12. ASSUME NEW r \in Request, FinishHang(r) PROVE TypeOK'
  BY <1>12 DEF FinishHang, Places
<1>13. ASSUME NEW r \in Request, ClientReads(r) PROVE TypeOK'
  BY <1>13 DEF ClientReads, Nonce
<1>14. ASSUME NEW r \in Request, ClientLeaves(r) PROVE TypeOK'
  BY <1>14 DEF ClientLeaves
<1>15. ASSUME ConnectionLost PROVE TypeOK'
  BY <1>15 DEF ConnectionLost, Nonce
<1>16. CASE UNCHANGED vars
  BY <1>16 DEF vars
<1> QED
  BY <1>1, <1>2, <1>3, <1>4, <1>5, <1>6, <1>7, <1>8, <1>9, <1>10, <1>11, <1>12,
     <1>13, <1>14, <1>15, <1>16 DEF Next, Handler

\* Every action keeps the requests that are dialled among those asked.
LEMMA StepAsked == TypeOK /\ DialsAsked /\ [Next]_vars => DialsAsked'
<1> SUFFICES ASSUME TypeOK, DialsAsked, [Next]_vars PROVE DialsAsked'
  OBVIOUS
<1> USE DEF TypeOK, DialsAsked, Go
<1>1. ASSUME NEW r \in Request, Receive(r) PROVE DialsAsked'
  BY <1>1 DEF Receive
<1>2. ASSUME NEW r \in Request, Act(r) PROVE DialsAsked'
  <2>1. UNCHANGED target /\ pc[r] = "delaying"
    BY <1>2 DEF Act
  <2>2. \/ pc' = [pc EXCEPT ![r] = "hanging"] \/ pc' = [pc EXCEPT ![r] = "done"]
        \/ target[r] # NoAddr /\ pc' = [pc EXCEPT ![r] = "connecting"]
    BY <1>2 DEF Act, DialsBack
  <2> QED
    BY <2>1, <2>2
<1>3. ASSUME NEW r \in Request,
             Connect(r) \/ FinishDial(r) \/ NewStream(r) \/ WriteNonce(r) \/ FinishRead(r)
      PROVE DialsAsked'
  BY <1>3 DEF Connect, FinishDial, NewStream, WriteNonce, FinishRead
<1>4. ASSUME NEW r \in Request,
             FinishHold(r) \/ ClosePeer(r) \/ ClearAddrs(r) \/ Reply(r) \/ FinishHang(r)
      PROVE DialsAsked'
  BY <1>4 DEF FinishHold, ClosePeer, ClearAddrs, Reply, FinishHang
<1>5. ASSUME NEW r \in Request, ClientReads(r) \/ ClientLeaves(r) PROVE DialsAsked'
  BY <1>5 DEF ClientReads, ClientLeaves
<1>6. ASSUME ConnectionLost PROVE DialsAsked'
  BY <1>6 DEF ConnectionLost
<1>7. CASE UNCHANGED vars
  BY <1>7 DEF vars
<1> QED
  BY <1>1, <1>2, <1>3, <1>4, <1>5, <1>6, <1>7 DEF Next, Handler

\* A step that only moves a handler which uses neither connection nor peerstore,
\* or that moves no handler, leaves nothing behind.
LEMMA KeepsBehind ==
  ASSUME TypeOK, NothingLeftBehind, UNCHANGED <<store, conn>>,
         \A r \in Request : Using(r) => Using(r)',
         \A r \in Request : pc[r] \in {"dialing", "clearing"} =>
           Using(r)' \/ pc'[r] \in {"dialing", "clearing"}
  PROVE  NothingLeftBehind'
BY DEF NothingLeftBehind

\* Every action that touches the dialerHost belongs to a handler that will clear it.
LEMMA StepBehind == TypeOK /\ NothingLeftBehind /\ [Next]_vars => NothingLeftBehind'
<1> SUFFICES ASSUME TypeOK, NothingLeftBehind, [Next]_vars PROVE NothingLeftBehind'
  OBVIOUS
<1> USE DEF TypeOK, Go, Using
<1>1. ASSUME NEW r \in Request, Receive(r) PROVE NothingLeftBehind'
  BY <1>1, KeepsBehind DEF Receive
<1>2. ASSUME NEW r \in Request, Act(r) PROVE NothingLeftBehind'
  <2>1. UNCHANGED <<store, conn>> /\ pc[r] = "delaying"
        /\ \E p \in {"hanging", "done", "connecting"} : pc' = [pc EXCEPT ![r] = p]
    BY <1>2 DEF Act
  <2> QED
    BY <2>1, KeepsBehind
<1>3. ASSUME NEW r \in Request, Connect(r) PROVE NothingLeftBehind'
  BY <1>3 DEF Connect, NothingLeftBehind
<1>4. ASSUME NEW r \in Request, FinishDial(r) PROVE NothingLeftBehind'
  BY <1>4 DEF FinishDial, NothingLeftBehind
<1>5. ASSUME NEW r \in Request, NewStream(r) PROVE NothingLeftBehind'
  BY <1>5 DEF NewStream, NothingLeftBehind
<1>6. ASSUME NEW r \in Request, WriteNonce(r) PROVE NothingLeftBehind'
  BY <1>6, KeepsBehind DEF WriteNonce
<1>7. ASSUME NEW r \in Request, FinishRead(r) PROVE NothingLeftBehind'
  BY <1>7, KeepsBehind DEF FinishRead
<1>8. ASSUME NEW r \in Request, FinishHold(r) PROVE NothingLeftBehind'
  BY <1>8, KeepsBehind DEF FinishHold
<1>9. ASSUME NEW r \in Request, ClosePeer(r) PROVE NothingLeftBehind'
  BY <1>9 DEF ClosePeer, NothingLeftBehind
<1>10. ASSUME NEW r \in Request, ClearAddrs(r) PROVE NothingLeftBehind'
  BY <1>10 DEF ClearAddrs, NothingLeftBehind
<1>11. ASSUME NEW r \in Request, Reply(r) PROVE NothingLeftBehind'
  BY <1>11, KeepsBehind DEF Reply
<1>12. ASSUME NEW r \in Request, FinishHang(r) PROVE NothingLeftBehind'
  BY <1>12, KeepsBehind DEF FinishHang
<1>13. ASSUME NEW r \in Request, ClientReads(r) \/ ClientLeaves(r) PROVE NothingLeftBehind'
  BY <1>13, KeepsBehind DEF ClientReads, ClientLeaves
<1>14. ASSUME ConnectionLost PROVE NothingLeftBehind'
  BY <1>14 DEF ConnectionLost, NothingLeftBehind
<1>15. CASE UNCHANGED vars
  BY <1>15, KeepsBehind DEF vars
<1> QED
  BY <1>1, <1>2, <1>3, <1>4, <1>5, <1>6, <1>7, <1>8, <1>9, <1>10, <1>11, <1>12,
     <1>13, <1>14, <1>15 DEF Next, Handler

\* IInv is inductive.
LEMMA Invariance == Spec => []IInv
<1>1. IInv /\ [Next]_vars => IInv'
  BY StepType, StepAsked, StepBehind DEF IInv
<1> QED
  BY <1>1, InitIInv, PTL DEF Spec

\* The state of the mock server keeps its types, for every configuration.
THEOREM TypeCorrect == Spec => []TypeOK
<1>1. IInv => TypeOK
  BY DEF IInv
<1> QED
  BY <1>1, Invariance, PTL

\* Whatever handlers dial back at the same time, the dialerHost holds a
\* connection or an address of the client only while a handler that will close
\* and clear it is on its way: the deferred calls leave nothing behind.
THEOREM NothingIsLeftBehind == Spec => []NothingLeftBehind
<1>1. IInv => NothingLeftBehind
  BY DEF IInv
<1> QED
  BY <1>1, Invariance, PTL

-----------------------------------------------------------------------------
(* The promise, whatever handlers overlap. *)

\* Handlers that have decided to dial back.
Dialling == {"connecting", "dialing", "opening", "writing", "awaiting", "holding",
             "closing", "clearing", "replying"}

\* Address x was asked about by r, or by a request of those under way with others
\* as r was.
Explained(r, x) ==
  \/ x = target[r]
  \/ r \in shared /\ \E q \in shared : target[q] = x

\* What the dialerHost holds and what a handler dials is explained for each handler
\* under way: an unshared one is alone, and finds what it put there itself.
Host ==
  /\ \A r \in Active : r \notin shared => Active = {r}
  /\ conn # NoConn => conn \in Reachable
  /\ \A r \in Active :
       /\ conn # NoConn => Explained(r, conn)
       /\ \A x \in store \cup dialing[r] : Explained(r, x)

\* What a handler has before and while it dials ...
Before(r) ==
  /\ pc[r] = "idle" => target[r] = Unasked /\ r \notin shared
  /\ pc[r] # "idle" => target[r] # Unasked
  /\ pc[r] # "dialing" => dialing[r] = {}
  /\ pc[r] \in Dialling \cup {"delaying"} => target[r] \in Addr \cup {NoAddr}
  /\ pc[r] \notin {"awaiting", "closing", "clearing", "replying", "done"} => heard[r] = "none"
  /\ pc[r] # "done" => answer[r] = NoAnswer
  /\ pc[r] \in Dialling =>
       acting[r] \in determineBehavior(target[r]) /\ DialsBack(acting[r], target[r])

\* ... its stream, once it is connected ...
Meanwhile(r) ==
  /\ pc[r] \in {"opening", "writing", "awaiting", "holding"} => Promise!Connectable(r)
  /\ pc[r] \in {"writing", "awaiting"} => acting[r] # "no-dialback-msg"
  /\ pc[r] = "holding" => acting[r] = "no-dialback-msg"
  /\ inflight[r] # "none" =>
       /\ pc[r] = "awaiting" /\ heard[r] = "none" /\ stream[r] = "open"
       /\ inflight[r] = IF acting[r] = "wrong-nonce" THEN "wrong" ELSE "right"

\* ... and what it reports and has reported.
After(r) ==
  /\ pc[r] \in {"closing", "clearing", "replying"} /\ acting[r] # "no-dialback-msg" =>
       \/ status[r] = "OK" /\ Promise!Connectable(r)
       \/ status[r] = "E_DIAL_ERROR" /\ heard[r] = "none"
       \/ status[r] = "E_DIAL_BACK_ERROR" /\ heard[r] = "none" /\ Promise!Connectable(r)
  /\ acting[r] \in {"force-reachable", "wrong-nonce"} /\ answer[r] # NoAnswer =>
       (answer[r] = <<"OK", "OK">> => Promise!Connectable(r))

Kept(r) == Before(r) /\ Meanwhile(r) /\ After(r)

PInv == Host /\ \A r \in Request : Kept(r)

\* What is explained stays so: an address that was asked about is not asked again,
\* and requests that were shared remain so.
LEMMA StaysExplained ==
  ASSUME TypeOK, PInv, [Next]_vars,
         NEW r \in Request, pc[r] # "idle"
  PROVE  /\ target'[r] = target[r] /\ shared \subseteq shared'
         /\ \A q \in shared : q \in Request /\ target'[q] = target[q]
         /\ \A x : Explained(r, x) => Explained(r, x)'
         /\ Promise!Connectable(r) => Promise!Connectable(r)'
<1> USE DEF TypeOK, Go
<1>1. ASSUME NEW q \in Request, Receive(q)
      PROVE  /\ q \notin shared /\ q # r /\ shared \subseteq shared'
             /\ \A p \in Request : p # q => target'[p] = target[p]
  BY <1>1 DEF Receive, PInv, Kept, Before
<1>2. ASSUME NEW q \in Request, Handler(q) \/ ClientReads(q) \/ ClientLeaves(q)
      PROVE  UNCHANGED <<target, shared>>
  BY <1>2 DEF Handler, Act, Connect, FinishDial, NewStream, WriteNonce, FinishRead,
     FinishHold, ClosePeer, ClearAddrs, Reply, FinishHang, ClientReads, ClientLeaves
<1>3. ASSUME ConnectionLost PROVE UNCHANGED <<target, shared>>
  BY <1>3 DEF ConnectionLost
<1>4. /\ target'[r] = target[r] /\ shared \subseteq shared'
      /\ \A q \in shared : q \in Request /\ target'[q] = target[q]
  BY <1>1, <1>2, <1>3 DEF Next, vars
<1> QED
  BY <1>4 DEF Explained, Promise!Connectable

\* A reachable address that is explained makes a request connectable.
LEMMA ExplainedConnects ==
  ASSUME NEW r, NEW x \in Reachable, Explained(r, x)
  PROVE  Promise!Connectable(r)
BY DEF Explained, Promise!Connectable

\* A request that is received finds an empty dialerHost, or shares it.
LEMMA ReceiveHost ==
  ASSUME IInv, PInv, NEW r \in Request, Receive(r)
  PROVE  Host'
<1> USE DEF IInv, TypeOK, Go, PInv, Host
<1>1. /\ pc[r] = "idle" /\ dialing[r] = {} /\ r \notin Active
      /\ UNCHANGED <<store, conn, dialing>>
  BY DEF Receive, Kept, Before, Active
<1>2. PICK a \in Addr \cup {NoAddr, Malformed} :
        /\ target' = [target EXCEPT ![r] = a]
        /\ pc' = [pc EXCEPT ![r] = IF a = Malformed THEN "done" ELSE "delaying"]
        /\ shared' = IF a = Malformed \/ Active = {} THEN shared ELSE shared \cup Active \cup {r}
  BY DEF Receive
<1>0. [Next]_vars
  BY DEF Next
<1>3. \A p \in Active : \A x : Explained(p, x) => Explained(p, x)'
  BY <1>0, StaysExplained DEF Active
<1>4. CASE a = Malformed
  <2>1. Active' = Active
    BY <1>1, <1>2, <1>4 DEF Active
  <2> QED
    BY <1>1, <1>2, <1>3, <1>4, <2>1
<1>5. CASE a # Malformed /\ Active = {}
  <2>1. Active' = {r}
    BY <1>1, <1>2, <1>5 DEF Active
  <2>2. store = {} /\ conn = NoConn
    BY <1>5 DEF NothingLeftBehind, Using, Active
  <2> QED
    BY <1>1, <1>2, <2>1, <2>2
<1>6. CASE a # Malformed /\ Active # {}
  <2>1. Active' = Active \cup {r} /\ Active' \subseteq shared' /\ r \in shared'
    BY <1>1, <1>2, <1>6 DEF Active
  <2>2. PICK p \in Active : TRUE
    BY <1>6
  <2>3. p \in shared' /\ target'[p] = target[p]
    BY <1>1, <1>2, <2>1, <2>2 DEF Active
  <2>4. \A x : Explained(p, x) => \E q \in shared' : target'[q] = x
    BY <1>0, <2>1, <2>2, <2>3, StaysExplained DEF Explained, Active
  <2>5. \A x : Explained(p, x) => Explained(r, x)'
    BY <2>1, <2>4 DEF Explained
  <2> QED
    BY <1>1, <1>3, <2>1, <2>2, <2>5
<1> QED
  BY <1>4, <1>5, <1>6

\* What a handler adds to the dialerHost is explained for the others: they share it.
LEMMA AddsExplained ==
  ASSUME IInv, PInv, NEW r \in Active, NEW p \in Active, NEW x, Explained(r, x)
  PROVE  Explained(p, x)
<1>1. CASE p = r
  BY <1>1
<1>2. CASE p # r
  <2>1. p \in shared /\ r \in shared
    BY <1>2 DEF PInv, Host
  <2> QED
    BY <2>1 DEF Explained
<1> QED
  BY <1>1, <1>2

\* A step of a handler, of the client or of the network keeps the dialerHost explained.
LEMMA StepHost ==
  ASSUME IInv, PInv, [Next]_vars
  PROVE  Host'
<1> USE DEF IInv, TypeOK, Go, PInv
<1>1. ASSUME NEW r \in Request, Receive(r) PROVE Host'
  BY <1>1, ReceiveHost
<1>2. ASSUME Active' \subseteq Active, UNCHANGED <<target, shared>>,
             conn' \in {conn, NoConn}, store' \subseteq store,
             \A p \in Active : dialing'[p] \subseteq dialing[p]
      PROVE  Host'
  BY <1>2 DEF Host, Explained
<1>3. ASSUME NEW r \in Request, Connect(r) PROVE Host'
  <2>1. r \in Active /\ Active' = Active /\ UNCHANGED <<target, shared, conn>>
    BY <1>3 DEF Connect, Active
  <2>2. store' = store \cup {target[r]}
        /\ \A p \in Active : dialing'[p] \subseteq dialing[p] \cup store'
    BY <1>3, <2>1 DEF Connect, Active
  <2>3. \A p \in Active : Explained(p, target[r])
    BY <2>1, AddsExplained DEF Explained
  <2> QED
    BY <2>1, <2>2, <2>3 DEF Host, Explained
<1>4. ASSUME NEW r \in Request, FinishDial(r) \/ NewStream(r) PROVE Host'
  <2>1. r \in Active /\ Active' = Active /\ UNCHANGED <<target, shared, store>>
        /\ \A p \in Active : dialing'[p] \subseteq dialing[p]
    BY <1>4 DEF FinishDial, NewStream, Active
  <2>2. conn' \in {conn, NoConn} \/ conn' \in (store \cup dialing[r]) \cap Reachable
    BY <1>4 DEF FinishDial, NewStream
  <2>3. conn' # NoConn /\ conn' # conn =>
          \A p \in Active : Explained(p, conn')
    BY <2>1, <2>2, AddsExplained DEF Host
  <2> QED
    BY <2>1, <2>2, <2>3 DEF Host, Explained
<1>5. ASSUME NEW r \in Request,
             \/ Act(r) \/ WriteNonce(r) \/ FinishRead(r) \/ FinishHold(r) \/ ClosePeer(r)
             \/ ClearAddrs(r) \/ Reply(r) \/ FinishHang(r) \/ ClientReads(r) \/ ClientLeaves(r)
      PROVE Host'
  BY <1>2, <1>5 DEF Act, WriteNonce, FinishRead, FinishHold, ClosePeer, ClearAddrs, Reply,
     FinishHang, ClientReads, ClientLeaves, Active
<1>6. ASSUME ConnectionLost PROVE Host'
  BY <1>2, <1>6 DEF ConnectionLost, Active
<1>7. CASE UNCHANGED vars
  BY <1>2, <1>7 DEF vars, Active
<1> QED
  BY <1>1, <1>3, <1>4, <1>5, <1>6, <1>7 DEF Next, Handler

\* A handler that a step does not move, and of which it changes nothing but that its
\* stream may be reset with what is on its way.
LEMMA Bystander ==
  ASSUME TypeOK, PInv, [Next]_vars, NEW p \in Request,
         pc'[p] = pc[p], target'[p] = target[p], heard'[p] = heard[p],
         acting'[p] = acting[p], answer'[p] = answer[p], status'[p] = status[p],
         dialing'[p] = dialing[p],
         pc[p] = "idle" => (p \in shared' => p \in shared),
         inflight'[p] = "none" \/ (inflight'[p] = inflight[p] /\ stream'[p] = stream[p])
  PROVE  Kept(p)'
<1>1. CASE pc[p] = "idle"
  BY <1>1 DEF PInv, Kept, Before, Meanwhile, After, Dialling
<1>2. CASE pc[p] # "idle"
  <2>1. Promise!Connectable(p) => Promise!Connectable(p)'
    BY <1>2, StaysExplained
  <2> QED
    BY <1>2, <2>1 DEF PInv, Kept, Before, Meanwhile, After, Dialling
<1> QED
  BY <1>1, <1>2

\* A step of one handler keeps the others as they are.
LEMMA OthersKept ==
  ASSUME TypeOK, PInv, NEW r \in Request,
         Receive(r) \/ Handler(r) \/ ClientReads(r) \/ ClientLeaves(r),
         NEW p \in Request, p # r
  PROVE  Kept(p)'
<1> USE DEF TypeOK, Go
<1>0. [Next]_vars
  BY DEF Next
<1>1. CASE Act(r) \/ Reply(r)
  BY <1>0, <1>1, Bystander DEF Act, Reply, Respond
<1>2. CASE Connect(r) \/ FinishDial(r) \/ NewStream(r) \/ WriteNonce(r)
  BY <1>0, <1>2, Bystander DEF Connect, FinishDial, NewStream, WriteNonce
<1>3. CASE FinishRead(r) \/ FinishHold(r) \/ ClosePeer(r) \/ ClearAddrs(r) \/ FinishHang(r)
  BY <1>0, <1>3, Bystander DEF FinishRead, FinishHold, ClosePeer, ClearAddrs, FinishHang
<1>4. CASE ClientReads(r) \/ ClientLeaves(r)
  BY <1>0, <1>4, Bystander DEF ClientReads, ClientLeaves
<1>5. CASE Receive(r)
  BY <1>0, <1>5, Bystander DEF Receive, Active
<1> QED
  BY <1>1, <1>2, <1>3, <1>4, <1>5 DEF Handler

\* A step of a handler keeps what is said of it.
LEMMA OneKept ==
  ASSUME IInv, PInv, NEW r \in Request,
         Receive(r) \/ Handler(r) \/ ClientReads(r) \/ ClientLeaves(r)
  PROVE  Kept(r)'
<1>1. Kept(r)
  BY DEF PInv
<1>2. ASSUME pc[r] # "idle" PROVE Promise!Connectable(r) => Promise!Connectable(r)'
  BY <1>2, StaysExplained DEF IInv, Next
<1> USE DEF IInv, TypeOK, Go, Kept, Before, Meanwhile, After, Dialling
<1>3. CASE Act(r)
  BY <1>1, <1>2, <1>3, MockAssumption DEF Act, Respond, Canned, DialsBack
<1>4. CASE Connect(r)
  <2>1. conn # NoConn => Promise!Connectable(r)
    BY <1>4, ExplainedConnects DEF Connect, PInv, Host, Active
  <2> QED
    BY <1>1, <1>2, <1>4, <2>1 DEF Connect
<1>5. CASE FinishDial(r)
  <2>1. conn' # NoConn => Promise!Connectable(r)
    BY <1>5, ExplainedConnects DEF FinishDial, PInv, Host, Active
  <2>2. pc'[r] = "opening" => conn' # NoConn
    BY <1>5, MockAssumption DEF FinishDial
  <2> QED
    BY <1>1, <1>2, <1>5, <2>1, <2>2 DEF FinishDial
<1>6. CASE NewStream(r)
  BY <1>1, <1>2, <1>6 DEF NewStream
<1>7. CASE WriteNonce(r)
  BY <1>1, <1>2, <1>7 DEF WriteNonce
<1>8. CASE FinishRead(r)
  BY <1>1, <1>2, <1>8 DEF FinishRead
<1>9. CASE FinishHold(r)
  BY <1>1, <1>2, <1>9 DEF FinishHold
<1>10. CASE ClosePeer(r)
  BY <1>1, <1>2, <1>10 DEF ClosePeer
<1>11. CASE ClearAddrs(r)
  BY <1>1, <1>2, <1>11 DEF ClearAddrs
<1>12. CASE Reply(r)
  BY <1>1, <1>2, <1>12 DEF Reply, Respond
<1>13. CASE FinishHang(r)
  BY <1>1, <1>2, <1>13 DEF FinishHang
<1>14. CASE ClientReads(r)
  BY <1>1, <1>2, <1>14 DEF ClientReads, Nonce
<1>15. CASE ClientLeaves(r)
  BY <1>1, <1>2, <1>15 DEF ClientLeaves
<1>16. CASE Receive(r)
  BY <1>1, <1>16, MockAssumption DEF Receive
<1> QED
  BY <1>3, <1>4, <1>5, <1>6, <1>7, <1>8, <1>9, <1>10, <1>11, <1>12, <1>13, <1>14,
     <1>15, <1>16 DEF Handler

LEMMA InitPInv == Init => PInv
BY DEF Init, PInv, Host, Active, Kept, Before, Meanwhile, After, Dialling, NoAnswer

LEMMA StepPInv ==
  ASSUME IInv, PInv, [Next]_vars
  PROVE  PInv'
<1>1. Host'
  BY StepHost
<1>2. ASSUME NEW p \in Request, NEW r \in Request,
             Receive(r) \/ Handler(r) \/ ClientReads(r) \/ ClientLeaves(r)
      PROVE  Kept(p)'
  BY <1>2, OneKept, OthersKept DEF IInv
<1>3. ASSUME NEW p \in Request, ConnectionLost PROVE Kept(p)'
  BY <1>3, Bystander DEF IInv, ConnectionLost, Next
<1>4. ASSUME NEW p \in Request, UNCHANGED vars PROVE Kept(p)'
  BY <1>4, Bystander DEF IInv, vars
<1> QED
  BY <1>1, <1>2, <1>3, <1>4 DEF PInv, Next

\* Each step of the server is a step of the promise: a request is asked, a nonce is
\* heard, an answer is given, or the client sees nothing.
LEMMA StepPromise ==
  ASSUME IInv, PInv, [Next]_vars
  PROVE  [Promise!PromiseNext]_(Promise!promiseVars)
<1> USE DEF IInv, TypeOK, Go, Promise!promiseVars
<1>1. ASSUME NEW r \in Request, Receive(r) PROVE Promise!Ask(r)
  <2>1. target[r] = Unasked /\ UNCHANGED <<heard, answer>>
    BY <1>1 DEF Receive, PInv, Kept, Before
  <2>2. Active \subseteq Promise!Unanswered
    BY MockAssumption
       DEF Active, PInv, Kept, Before, Dialling, Places, Promise!Unanswered, Promise!NoAnswer, NoAnswer
  <2> QED
    BY <1>1, <2>1, <2>2 DEF Receive, Promise!Ask
<1>2. ASSUME NEW r \in Request, Act(r)
      PROVE  Promise!Answer(r) \/ UNCHANGED Promise!promiseVars
  <2>1. Before(r) /\ pc[r] = "delaying"
    BY <1>2 DEF Act, PInv, Kept
  <2>2. PICK b \in determineBehavior(target[r]) :
          \/ UNCHANGED answer
          \/ /\ b \notin {"timeout", "probabilistic"} /\ ~DialsBack(b, target[r])
             /\ Respond(r, Canned(b))
    BY <1>2 DEF Act
  <2>3. CASE b \notin {"timeout", "probabilistic"} /\ ~DialsBack(b, target[r]) /\ ~gone[r]
             /\ Respond(r, Canned(b))
    <3>1. answer' = [answer EXCEPT ![r] = Canned(b)] /\ UNCHANGED <<target, heard, shared>>
      BY <1>2, <2>3 DEF Respond, Act
    <3>2. /\ b \in Behaviors /\ heard[r] = "none"
          /\ b \in {"force-reachable", "wrong-nonce", "no-dialback-msg"} => target[r] = NoAddr
      BY <2>1, <2>3, DetermineType DEF Before, DialsBack
    <3>3. Canned(b) \in Promise!Answers(b, r)
      BY <2>3, <3>2 DEF Canned, Behaviors, Promise!Answers
    <3> QED
      BY <2>1, <3>1, <3>3 DEF Before, Dialling, Promise!Answer, Promise!NoAnswer, NoAnswer
  <2> QED
    BY <1>2, <2>2, <2>3 DEF Act, Respond
<1>3. ASSUME NEW r \in Request, Reply(r)
      PROVE  Promise!Answer(r) \/ UNCHANGED Promise!promiseVars
  <2>1. Before(r) /\ After(r) /\ pc[r] = "replying"
    BY <1>3 DEF Reply, PInv, Kept
  <2> DEFINE v == <<"OK", IF acting[r] = "no-dialback-msg" THEN "OK" ELSE status[r]>>
  <2>2. v \in Promise!Answers(acting[r], r)
    BY <2>1, MockAssumption DEF Before, After, Dialling, DialsBack, Promise!Answers
  <2>3. \/ UNCHANGED answer
        \/ answer' = [answer EXCEPT ![r] = v]
    BY <1>3 DEF Reply, Respond
  <2> QED
    BY <1>3, <2>1, <2>2, <2>3
       DEF Reply, Before, Dialling, Promise!Answer, Promise!NoAnswer, NoAnswer
<1>4. ASSUME NEW r \in Request, ClientReads(r) PROVE Promise!HearNonce(r)
  <2>1. Before(r) /\ Meanwhile(r) /\ inflight[r] # "none"
    BY <1>4 DEF ClientReads, PInv, Kept
  <2>2. inflight[r] \in Promise!Nonces(acting[r])
    BY <2>1 DEF Before, Meanwhile, Dialling, DialsBack, Promise!Nonces
  <2> QED
    BY <1>4, <2>1, <2>2
       DEF ClientReads, Before, Meanwhile, Dialling, Promise!HearNonce, Promise!NoAnswer, NoAnswer
<1>5. ASSUME NEW r \in Request,
             \/ Connect(r) \/ FinishDial(r) \/ NewStream(r) \/ WriteNonce(r) \/ FinishRead(r)
             \/ FinishHold(r) \/ ClosePeer(r) \/ ClearAddrs(r) \/ FinishHang(r) \/ ClientLeaves(r)
      PROVE  UNCHANGED Promise!promiseVars
  BY <1>5 DEF Connect, FinishDial, NewStream, WriteNonce, FinishRead, FinishHold,
     ClosePeer, ClearAddrs, FinishHang, ClientLeaves
<1>6. ASSUME ConnectionLost PROVE UNCHANGED Promise!promiseVars
  BY <1>6 DEF ConnectionLost
<1>7. CASE UNCHANGED vars
  BY <1>7 DEF vars
<1> QED
  BY <1>1, <1>2, <1>3, <1>4, <1>5, <1>6, <1>7 DEF Next, Handler, Promise!PromiseNext

\* handleDialRequest: whatever a client asks, however many requests it has under way,
\* whenever it stops waiting, and whatever dials, streams, writes and connections
\* fail, the server keeps the promise of its table.
THEOREM PromiseIsKept == Spec => MockPromiseKept
<1>1. Init => PInv /\ Promise!PromiseInit
  BY InitPInv DEF Init, Promise!PromiseInit, Promise!NoAnswer, NoAnswer
<1>2. IInv /\ PInv /\ [Next]_vars => PInv'
  BY StepPInv
<1>3. IInv /\ PInv /\ [Next]_vars => [Promise!PromiseNext]_(Promise!promiseVars)
  BY StepPromise
<1> QED
  BY <1>1, <1>2, <1>3, Invariance, PTL DEF Spec, MockPromiseKept, Promise!PromiseSpec

\* performDialBack of a request that is never under way with another: OK is reported
\* only for an address the client can be dialled at.
AloneOkIsReachable ==
  \A r \in Request \ shared : acting[r] \in {"force-reachable", "wrong-nonce"} =>
    (answer[r] = <<"OK", "OK">> => target[r] \in Reachable)

\* "connects to the remote peer on the given address": what a dial-back finds left of
\* earlier requests, with failures of any kind in them, never makes an address look
\* reachable that cannot be dialled; only a request under way at the same time does.
THEOREM AloneDialBacks == Spec => []AloneOkIsReachable
<1>1. Init => PInv
  BY InitPInv
<1>2. IInv /\ PInv /\ [Next]_vars => PInv'
  BY StepPInv
<1>3. PInv => AloneOkIsReachable
  BY DEF PInv, Kept, After, AloneOkIsReachable, Promise!Connectable, NoAnswer
<1> QED
  BY <1>1, <1>2, <1>3, Invariance, PTL DEF Spec

=============================================================================
