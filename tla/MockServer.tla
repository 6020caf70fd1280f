----------------------------- MODULE MockServer ------------------------------
(***************************************************************************)
(* The mock AutoNAT v2 server (testbed/mock_server.go): one goroutine per   *)
(* dial request of a client, all of them dialling back through the one      *)
(* dialerHost, whose peerstore and connection to the client they share.     *)
(*                                                                          *)
(* State per client is independent, so one client is modelled, with any     *)
(* number of requests.  External: libp2p (a connection carries streams; a   *)
(* dial tries the addresses the peerstore holds when it starts; closing the *)
(* connection resets its streams and loses what was not read), the network, *)
(* which may fail any dial, stream or write and end the connection at any   *)
(* time, and the client, which reads a dial-back, closes its stream, and    *)
(* stops waiting for a response after a time of its own.                    *)
(***************************************************************************)
EXTENDS Naturals, FiniteSets

CONSTANTS
  Request, Addr, Reachable, NoAddr, Unasked, Malformed,
  TcpAddr, QuicAddr,      \* the addresses of each transport
  Behavior,               \* --behavior
  TcpBehavior,            \* --tcp-behavior, or NoOverride
  QuicBehavior,           \* --quic-behavior, or NoOverride
  NoOverride,
  Probability,            \* --probability: "0", "between" or "1"
  NoConn,
  MaxConcurrent           \* bound: requests one client has under way

Behaviors == {"reject", "refuse", "force-unreachable", "internal-error",
              "timeout", "force-reachable", "wrong-nonce", "no-dialback-msg",
              "probabilistic"}

ASSUME MockAssumption ==
  /\ Reachable \subseteq Addr
  /\ TcpAddr \subseteq Addr /\ QuicAddr \subseteq Addr /\ TcpAddr \cap QuicAddr = {}
  /\ NoAddr \notin Addr /\ Unasked \notin Addr /\ Malformed \notin Addr
  /\ NoAddr # Unasked /\ NoAddr # Malformed /\ Unasked # Malformed
  /\ NoConn \notin Addr
  /\ Behavior \in Behaviors /\ NoOverride \notin Behaviors
  /\ TcpBehavior \in Behaviors \cup {NoOverride}
  /\ QuicBehavior \in Behaviors \cup {NoOverride}
  /\ Probability \in {"0", "between", "1"}
  /\ MaxConcurrent \in Nat

VARIABLES
  pc,          \* where each handler is
  target,      \* the first address of each request
  acting,      \* the behaviour each handler resolved
  store,       \* dialerHost's peerstore: addresses of the client
  conn,        \* dialerHost's connection to the client: its remote address
  dialing,     \* addresses each handler's dial in progress tries
  stream,      \* the dial-back stream: none, open, closed (at either end)
  inflight,    \* a nonce written and not read yet
  heard,       \* the nonce the client read
  status,      \* the dial status the handler will report
  answer,      \* the response written to the client
  gone         \* the client no longer waits for the response

\* History, which no action reads: the requests that were under way together
\* with another one.
VARIABLE shared

vars == <<pc, target, acting, store, conn, dialing, stream, inflight, heard,
          status, answer, gone, shared>>

Places == {"idle", "delaying", "connecting", "dialing", "opening", "writing",
           "awaiting", "holding", "closing", "clearing", "replying", "hanging",
           "done"}
NoAnswer == <<>>
Nonce == {"none", "right", "wrong"}
DialStatus == {"UNUSED", "OK", "E_DIAL_ERROR", "E_DIAL_BACK_ERROR"}
Response == {NoAnswer} \cup
  ({"OK", "E_REQUEST_REJECTED", "E_DIAL_REFUSED", "E_INTERNAL_ERROR"} \X DialStatus)

TypeOK ==
  /\ pc \in [Request -> Places]
  /\ target \in [Request -> Addr \cup {NoAddr, Unasked, Malformed}]
  /\ acting \in [Request -> Behaviors]
  /\ store \subseteq Addr
  /\ conn \in Addr \cup {NoConn}
  /\ dialing \in [Request -> SUBSET Addr]
  /\ stream \in [Request -> {"none", "open", "closed"}]
  /\ inflight \in [Request -> Nonce]
  /\ heard \in [Request -> Nonce]
  /\ status \in [Request -> DialStatus]
  /\ answer \in [Request -> Response]
  /\ gone \in [Request -> BOOLEAN]
  /\ shared \subseteq Request

-----------------------------------------------------------------------------
\* determineBehavior: an override is returned as it is, and only the base
\* behaviour is drawn; a probability of zero counts as one half.
Draw(b) ==
  IF b # "probabilistic" THEN {b}
  ELSE IF Probability = "1" THEN {"force-reachable"}
  ELSE {"force-reachable", "force-unreachable"}

determineBehavior(a) ==
  IF a \in TcpAddr /\ TcpBehavior # NoOverride THEN {TcpBehavior}
  ELSE IF a \in QuicAddr /\ QuicBehavior # NoOverride THEN {QuicBehavior}
  ELSE Draw(Behavior)

MutDialsBack(b, a) ==           \* mutant: the missing address is not looked at
  b \in {"force-reachable", "wrong-nonce", "no-dialback-msg"}

\* The behaviours that dial back do so when the request names an address.
DialsBack(b, a) ==
  a # NoAddr /\ b \in {"force-reachable", "wrong-nonce", "no-dialback-msg"}

\* The response of a behaviour that needs no dial-back.
Canned(b) ==
  CASE b = "reject"         -> <<"E_REQUEST_REJECTED", "UNUSED">>
    [] b = "refuse"         -> <<"E_DIAL_REFUSED", "UNUSED">>
    [] b = "internal-error" -> <<"E_INTERNAL_ERROR", "UNUSED">>
    [] OTHER                -> <<"OK", "E_DIAL_ERROR">>

Go(r, from, to) == pc[r] = from /\ pc' = [pc EXCEPT ![r] = to]

Init ==
  /\ pc = [r \in Request |-> "idle"]
  /\ target = [r \in Request |-> Unasked]
  /\ acting = [r \in Request |-> Behavior]
  /\ store = {}
  /\ conn = NoConn
  /\ dialing = [r \in Request |-> {}]
  /\ stream = [r \in Request |-> "none"]
  /\ inflight = [r \in Request |-> "none"]
  /\ heard = [r \in Request |-> "none"]
  /\ status = [r \in Request |-> "UNUSED"]
  /\ answer = [r \in Request |-> NoAnswer]
  /\ gone = [r \in Request |-> FALSE]
  /\ shared = {}

Active == {r \in Request : pc[r] \notin {"idle", "done"}}

\* handleDialRequest up to the delay: a message that is no dial request ends it.
Receive(r) ==
  /\ Cardinality(Active) < MaxConcurrent
  /\ \E a \in Addr \cup {NoAddr, Malformed} :
       /\ target' = [target EXCEPT ![r] = a]
       /\ Go(r, "idle", IF a = Malformed THEN "done" ELSE "delaying")
       /\ shared' = IF a = Malformed \/ Active = {} THEN shared
                    ELSE shared \cup Active \cup {r}
  /\ UNCHANGED <<acting, store, conn, dialing, stream, inflight, heard, status,
                 answer, gone>>

\* The response reaches a client that still waits, and the handler returns.
Respond(r, v) == answer' = IF gone[r] THEN answer ELSE [answer EXCEPT ![r] = v]

\* The delay is over: determineBehavior and the switch.  A behaviour without a
\* case, or the end of the switch, sends nothing.
Act(r) ==
  /\ \E b \in determineBehavior(target[r]) :
       /\ acting' = [acting EXCEPT ![r] = b]
       /\ \/ /\ b = "timeout"
             /\ Go(r, "delaying", "hanging") /\ UNCHANGED answer
          \/ /\ b = "probabilistic"
             /\ Go(r, "delaying", "done") /\ UNCHANGED answer
          \/ /\ DialsBack(b, target[r])
             /\ Go(r, "delaying", "connecting") /\ UNCHANGED answer
          \/ /\ b \notin {"timeout", "probabilistic"}
             /\ ~DialsBack(b, target[r])
             /\ Go(r, "delaying", "done") /\ Respond(r, Canned(b))
  /\ UNCHANGED <<target, store, conn, dialing, stream, inflight, heard, status, gone, shared>>

\* AddAddr, then Connect: an open connection will do, whatever its address.
Connect(r) ==
  /\ store' = store \cup {target[r]}
  /\ IF conn # NoConn
     THEN Go(r, "connecting", "opening") /\ UNCHANGED dialing
     ELSE /\ Go(r, "connecting", "dialing")
          /\ dialing' = [dialing EXCEPT ![r] = store']
  /\ UNCHANGED <<target, acting, conn, stream, inflight, heard, status, answer, gone, shared>>

\* The dial ends: on a connection somebody else made, on one of its own, or in
\* an error, for which ten seconds, a lost packet or a refusal will do
\* (performConnectOnly ignores it).
FinishDial(r) ==
  /\ \/ /\ IF conn # NoConn THEN UNCHANGED conn ELSE conn' \in dialing[r] \cap Reachable
        /\ Go(r, "dialing", "opening")
        /\ UNCHANGED status
     \/ /\ Go(r, "dialing", "closing")
        /\ status' = [status EXCEPT ![r] = "E_DIAL_ERROR"]
        /\ UNCHANGED conn
  /\ dialing' = [dialing EXCEPT ![r] = {}]
  /\ UNCHANGED <<target, acting, store, stream, inflight, heard, answer, gone, shared>>

\* NewStream dials again when the connection is no longer there.  It opens a
\* stream or fails.
NewStream(r) ==
  /\ IF conn # NoConn THEN UNCHANGED conn ELSE conn' \in {NoConn} \cup (store \cap Reachable)
  /\ \/ /\ conn' # NoConn
        /\ stream' = [stream EXCEPT ![r] = "open"]
        /\ Go(r, "opening", IF acting[r] = "no-dialback-msg" THEN "holding" ELSE "writing")
        /\ UNCHANGED status
     \/ /\ Go(r, "opening", "closing")
        /\ status' = [status EXCEPT ![r] = "E_DIAL_BACK_ERROR"]
        /\ UNCHANGED stream
  /\ UNCHANGED <<target, acting, store, dialing, inflight, heard, answer, gone, shared>>

\* WriteMsg and CloseWrite.  A write that fails, as it must on a stream that was
\* reset, sends nothing and resets the stream.
WriteNonce(r) ==
  /\ \/ /\ stream[r] = "open"
        /\ Go(r, "writing", "awaiting")
        /\ inflight' = [inflight EXCEPT ![r] =
             IF acting[r] = "wrong-nonce" THEN "wrong" ELSE "right"]
        /\ UNCHANGED <<stream, status>>
     \/ /\ Go(r, "writing", "closing")
        /\ stream' = [stream EXCEPT ![r] = "closed"]
        /\ status' = [status EXCEPT ![r] = "E_DIAL_BACK_ERROR"]
        /\ UNCHANGED inflight
  /\ UNCHANGED <<target, acting, store, conn, dialing, heard, answer, gone, shared>>

\* External: the client reads the dial-back message and closes the stream.
ClientReads(r) ==
  /\ stream[r] = "open" /\ inflight[r] # "none"
  /\ heard' = [heard EXCEPT ![r] = inflight[r]]
  /\ inflight' = [inflight EXCEPT ![r] = "none"]
  /\ stream' = [stream EXCEPT ![r] = "closed"]
  /\ UNCHANGED <<pc, target, acting, store, conn, dialing, status, answer, gone, shared>>

\* External: the connection ends by itself.
ConnectionLost ==
  /\ conn # NoConn
  /\ conn' = NoConn
  /\ stream' = [q \in Request |-> IF stream[q] = "open" THEN "closed" ELSE stream[q]]
  /\ inflight' = [q \in Request |-> "none"]
  /\ UNCHANGED <<pc, target, acting, store, dialing, heard, status, answer, gone, shared>>

\* The one-byte Read returns when the stream ends, for whatever reason: its
\* error is dropped, and the report is OK.
FinishRead(r) ==
  /\ stream[r] = "closed"
  /\ Go(r, "awaiting", "closing")
  /\ status' = [status EXCEPT ![r] = "OK"]
  /\ UNCHANGED <<target, acting, store, conn, dialing, stream, inflight, heard,
                 answer, gone, shared>>

\* performConnectOnly holds the stream for two seconds and closes it.
FinishHold(r) ==
  /\ Go(r, "holding", "closing")
  /\ stream' = [stream EXCEPT ![r] = "closed"]
  /\ UNCHANGED <<target, acting, store, conn, dialing, inflight, heard, status,
                 answer, gone, shared>>

MutClosePeer(r) ==              \* mutant: the connection is kept
  /\ Go(r, "closing", "clearing")
  /\ UNCHANGED <<target, acting, store, conn, dialing, stream, inflight, heard,
                 status, answer, gone, shared>>

\* The deferred calls: ClosePeer resets every stream of the connection, of
\* other handlers too ...
ClosePeer(r) ==
  /\ Go(r, "closing", "clearing")
  /\ conn' = NoConn
  /\ stream' = [q \in Request |-> IF stream[q] = "open" THEN "closed" ELSE stream[q]]
  /\ inflight' = [q \in Request |-> "none"]
  /\ UNCHANGED <<target, acting, store, dialing, heard, status, answer, gone, shared>>

MutClearAddrs(r) ==             \* mutant: the peerstore is not cleared
  /\ Go(r, "clearing", "replying")
  /\ UNCHANGED <<target, acting, store, conn, dialing, stream, inflight, heard,
                 status, answer, gone, shared>>

\* ... and ClearAddrs and RemovePeer empty the peerstore.
ClearAddrs(r) ==
  /\ Go(r, "clearing", "replying")
  /\ store' = {}
  /\ UNCHANGED <<target, acting, conn, dialing, stream, inflight, heard, status,
                 answer, gone, shared>>

MutReply(r) ==                  \* mutant: after a failed dial-back nothing is sent
  /\ Go(r, "replying", "done")
  /\ IF status[r] = "OK" THEN Respond(r, <<"OK", "OK">>) ELSE UNCHANGED answer
  /\ UNCHANGED <<target, acting, store, conn, dialing, stream, inflight, heard,
                 status, gone, shared>>

\* sendResponse: no-dialback-msg reports OK, whatever became of its connection.
Reply(r) ==
  /\ Go(r, "replying", "done")
  /\ Respond(r, <<"OK", IF acting[r] = "no-dialback-msg" THEN "OK" ELSE status[r]>>)
  /\ UNCHANGED <<target, acting, store, conn, dialing, stream, inflight, heard,
                 status, gone, shared>>

\* External: the client's own time-out resets the request stream ...
ClientLeaves(r) ==
  /\ r \in Active /\ ~gone[r]
  /\ gone' = [gone EXCEPT ![r] = TRUE]
  /\ UNCHANGED <<pc, target, acting, store, conn, dialing, stream, inflight,
                 heard, status, answer, shared>>

MutFinishHang(r) == FALSE /\ UNCHANGED vars     \* mutant: it hangs for ever

\* ... which is what ends the Read of the timeout behaviour.
FinishHang(r) ==
  /\ gone[r]
  /\ Go(r, "hanging", "done")
  /\ UNCHANGED <<target, acting, store, conn, dialing, stream, inflight, heard,
                 status, answer, gone, shared>>

Handler(r) ==
  \/ Act(r) \/ Connect(r) \/ FinishDial(r) \/ NewStream(r) \/ WriteNonce(r)
  \/ FinishRead(r) \/ FinishHold(r) \/ ClosePeer(r) \/ ClearAddrs(r)
  \/ Reply(r) \/ FinishHang(r)

Next ==
  \/ \E r \in Request : Receive(r) \/ Handler(r) \/ ClientReads(r) \/ ClientLeaves(r)
  \/ ConnectionLost

\* The Go scheduler runs every goroutine that can run; a live client reads
\* what it is sent and does not wait for ever.
Fairness == \A r \in Request :
  WF_vars(Handler(r)) /\ WF_vars(ClientReads(r)) /\ WF_vars(ClientLeaves(r))

Spec == Init /\ [][Next]_vars /\ Fairness

-----------------------------------------------------------------------------
(* Properties. *)

\* The deferred calls of the last handler leave nothing behind: a connection
\* or an address in the dialerHost belongs to a handler that will remove it.
Using(r) == pc[r] \in {"opening", "writing", "awaiting", "holding", "closing"}
NothingLeftBehind ==
  /\ conn # NoConn => \E r \in Request : Using(r)
  /\ store # {} =>
       \E r \in Request : Using(r) \/ pc[r] \in {"dialing", "clearing"}

\* Every handler ends, whatever the client asked and whenever it left.
EveryHandlerEnds ==
  \A r \in Request : pc[r] # "idle" ~> pc[r] = "done"

\* A client that keeps waiting for a request it made is answered.
EveryRequestAnswered ==
  \A r \in Request : target[r] \in Addr /\ pc[r] # "idle" ~> answer[r] # NoAnswer \/ gone[r]

\* "connects to the remote peer on the given address" (performDialBack): OK is
\* reported only for an address the client can be dialled at.  Lost where
\* handlers overlap.
OkIsReachable ==
  \A r \in Request : acting[r] \in {"force-reachable", "wrong-nonce"} =>
    (answer[r] = <<"OK", "OK">> => target[r] \in Reachable)

\* "Ensure message delivery": OK is reported only when the nonce was read.  Lost
\* with a single request, as the error of the Read is dropped.
OkIsDelivered ==
  \A r \in Request : acting[r] \in {"force-reachable", "wrong-nonce"} =>
    (answer[r] = <<"OK", "OK">> => heard[r] # "none")

\* "P(reachable) for probabilistic behavior, 0.0-1.0": at zero nothing is ever
\* acted on as reachable.
ZeroIsNever ==
  Behavior = "probabilistic" /\ Probability = "0" =>
    \A r \in Request : acting[r] # "force-reachable"

\* The server keeps the promise of its table, whatever fails on the way: a
\* dial-back whose nonce was read is reported as OK, and none is for an address
\* that cannot be dialled unless the request was under way together with one
\* for an address that can.
Promise == INSTANCE MockPromise WITH Choices <- determineBehavior
MockPromiseKept == Promise!PromiseSpec
=============================================================================
