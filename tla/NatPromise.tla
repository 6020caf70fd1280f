----------------------------- MODULE NatPromise -----------------------------
(***************************************************************************)
(* What each NAT type promises about filtering, with no rule chain, no      *)
(* connection tracking and no port translation: which remote endpoints may  *)
(* be heard by the client.  A conversation is named by the protocol, the    *)
(* client's port and the server's endpoint.                                 *)
(*                                                                          *)
(*   EIF   none, full-cone       anybody is heard                           *)
(*   ADF   address-restricted    a server whose address was contacted       *)
(*                               recently                                   *)
(*   APDF  port-restricted,      exactly a contacted endpoint, on the       *)
(*         symmetric             client port that contacted it              *)
(*                                                                          *)
(* A forwarded port is open to anybody while its rules are there, and a     *)
(* conversation may go on until it is forgotten.                            *)
(***************************************************************************)

CONSTANTS
  Server, Port, Proto,
  ForwardPort,          \* the port of PORT_FORWARD and of the toggles
  Filtering             \* "EIF", "ADF" or "APDF"

VARIABLES
  wire,                 \* what crossed last: <<direction, conversation>>
  talks,                \* conversations under way
  peers,                \* addresses contacted recently (ADF)
  open                  \* protocols whose forward is (partly) in place

promiseVars == <<wire, talks, peers, open>>

Conversation == [proto : Proto, cport : Port, server : Server, sport : Port]

PromiseInit ==
  /\ wire = <<>>
  /\ talks = {}
  /\ peers = {}
  /\ open \in {{}, Proto}

Contact(t) ==
  /\ wire' = <<"out", t>>
  /\ talks' \in {talks, talks \cup {t}}
  /\ peers' = IF Filtering = "ADF" THEN peers \cup {t.server} ELSE peers
  /\ UNCHANGED open

Admits(t) ==
  \/ t \in talks
  \/ t.cport = ForwardPort /\ t.proto \in open
  \/ Filtering = "EIF"
  \/ Filtering = "ADF" /\ t.server \in peers

Hear(t) ==
  /\ Admits(t)
  /\ wire' = <<"in", t>>
  /\ talks' = talks \cup {t}
  /\ UNCHANGED <<peers, open>>

Forget ==
  /\ talks' \subseteq talks
  /\ peers' \subseteq peers
  /\ UNCHANGED <<wire, open>>

Toggle(p) ==
  /\ open' \in {open \cup {p}, open \ {p}}
  /\ UNCHANGED <<wire, talks, peers>>

PromiseNext ==
  \/ \E t \in Conversation : Contact(t) \/ Hear(t)
  \/ Forget
  \/ \E p \in Proto : Toggle(p)

PromiseSpec == PromiseInit /\ [][PromiseNext]_promiseVars
=============================================================================
