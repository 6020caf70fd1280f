----------------------------- MODULE MockPromise -----------------------------
(***************************************************************************)
(* What a mock AutoNAT v2 server promises a client about one dial request,  *)
(* whatever else the server is doing: the table of mock server behaviours   *)
(* with the connections, peerstore and streams left out.                    *)
(***************************************************************************)
EXTENDS FiniteSets

CONSTANTS
  Request,            \* dial requests
  Addr,               \* addresses a client can ask about
  Reachable,          \* those the client can be dialled at
  NoAddr,             \* a request whose first address is missing or unparsable
  Unasked,            \* a request not made yet
  Malformed,          \* a stream that carries no dial request
  Choices(_)          \* behaviours the configuration allows for an address

VARIABLES
  target,             \* the address each request asks about
  heard,              \* the nonce the client was sent back: none, right, wrong
  answer,             \* the dial response the client was sent
  shared              \* requests that were under way together with another

promiseVars == <<target, heard, answer, shared>>

NoAnswer == <<>>

\* A dial-back may get through: to the address that was asked about, or to that
\* of another request under way.
Connectable(r) ==
  \/ target[r] \in Reachable
  \/ r \in shared /\ \E q \in shared : target[q] \in Reachable

\* What may be answered to request r under behaviour b.
Answers(b, r) ==
  CASE b = "reject"            -> {<<"E_REQUEST_REJECTED", "UNUSED">>}
    [] b = "refuse"            -> {<<"E_DIAL_REFUSED", "UNUSED">>}
    [] b = "internal-error"    -> {<<"E_INTERNAL_ERROR", "UNUSED">>}
    [] b = "force-unreachable" -> {<<"OK", "E_DIAL_ERROR">>}
    [] b = "timeout"           -> {}
    [] b = "no-dialback-msg"   ->
         IF target[r] = NoAddr THEN {<<"OK", "E_DIAL_ERROR">>} ELSE {<<"OK", "OK">>}
    [] OTHER                   ->
         \* a real dial-back: what was read is reported, and what cannot be
         \* dialled is never more than a dial error
         IF heard[r] # "none" THEN {<<"OK", "OK">>}
         ELSE IF Connectable(r)
         THEN {<<"OK", "OK">>, <<"OK", "E_DIAL_ERROR">>, <<"OK", "E_DIAL_BACK_ERROR">>}
         ELSE {<<"OK", "E_DIAL_ERROR">>}

Nonces(b) == CASE b = "force-reachable" -> {"right"}
               [] b = "wrong-nonce"     -> {"wrong"}
               [] OTHER                 -> {}

PromiseInit ==
  /\ target = [r \in Request |-> Unasked]
  /\ heard = [r \in Request |-> "none"]
  /\ answer = [r \in Request |-> NoAnswer]
  /\ shared = {}

Unanswered == {q \in Request : target[q] # Unasked /\ answer[q] = NoAnswer}

\* A request is made, alone or while others are unanswered.
Ask(r) ==
  /\ target[r] = Unasked
  /\ \E a \in Addr \cup {NoAddr, Malformed} : target' = [target EXCEPT ![r] = a]
  /\ \/ UNCHANGED shared
     \/ \E others \in SUBSET Unanswered : shared' = shared \cup others \cup {r}
  /\ UNCHANGED <<heard, answer>>

HearNonce(r) ==
  /\ Connectable(r) /\ heard[r] = "none" /\ answer[r] = NoAnswer
  /\ \E b \in Choices(target[r]) : \E n \in Nonces(b) :
       heard' = [heard EXCEPT ![r] = n]
  /\ UNCHANGED <<target, answer, shared>>

Answer(r) ==
  /\ target[r] \in Addr \cup {NoAddr} /\ answer[r] = NoAnswer
  /\ \E b \in Choices(target[r]) : \E v \in Answers(b, r) :
       answer' = [answer EXCEPT ![r] = v]
  /\ UNCHANGED <<target, heard, shared>>

PromiseNext == \E r \in Request : Ask(r) \/ HearNonce(r) \/ Answer(r)
PromiseSpec == PromiseInit /\ [][PromiseNext]_promiseVars
=============================================================================
