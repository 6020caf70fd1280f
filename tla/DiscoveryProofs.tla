--------------------------- MODULE DiscoveryProofs ---------------------------
(***************************************************************************)
(* Invariance proofs about server discovery, for any number of servers,     *)
(* transports and looks at the directory, and any way to start the client.  *)
(***************************************************************************)
EXTENDS Discovery, FiniteSetTheorems, FunctionTheorems, TLAPS

\* What is required exists from the client's start on, is written when it is
\* listed for the second time, and is then read or still to be read.
RequiredOnTheWay ==
  /\ pc # "blocked" => Required \subseteq Exists
  /\ pc = "settling" => Required \subseteq entries
  /\ pc \in {"reading", "dialing", "done"} =>
       /\ Required \subseteq unread \cup found \cup skipped
       /\ \A s \in Required : file[s] = "written"
  /\ pc \in {"dialing", "done"} => unread = {}
  /\ pc \in {"blocked", "listening", "polling", "settling"} =>
       unread = {} /\ found = {} /\ skipped = {}
  /\ skipped \cap unread = {} /\ found \cap unread = {}

IInv == TypeOK /\ RequiredOnTheWay

LEMMA RequiredType ==
  ASSUME TypeOK
  PROVE  Required \subseteq Server
BY DiscoveryAssumption DEF Required

LEMMA InitIInv == Init => IInv
<1> SUFFICES ASSUME Init PROVE IInv
  OBVIOUS
<1>1. Patience \in Nat
  BY DiscoveryAssumption
<1>2. file \in [Server -> {"absent", "empty", "written"}]
      /\ report \in [Server -> {"", "connected", "connect_failed"}]
      /\ setup \in Setup /\ pc = "blocked" /\ polls = 0
      /\ listening = {} /\ entries = {} /\ unread = {} /\ skipped = {} /\ found = {}
      /\ dialing = {} /\ connected = {}
  BY DEF Init
<1>3. TypeOK
  <2>1. pc \in {"blocked", "listening", "polling", "settling", "reading", "dialing",
               "done", "gave_up"}
    BY <1>2
  <2>2. listening \subseteq Event /\ polls \in 0..Patience
    <3>1. listening = {} /\ polls = 0
      BY DEF Init
    <3> QED
      BY <1>1, <3>1
  <2>3. entries \subseteq Server /\ unread \subseteq entries /\ found \subseteq entries
        /\ skipped \subseteq entries \ found /\ dialing \subseteq found /\ connected \subseteq found
    BY <1>2
  <2> QED
    BY <1>2, <2>1, <2>2, <2>3 DEF TypeOK
<1>4. RequiredOnTheWay
  BY DEF Init, RequiredOnTheWay
<1> QED
  BY <1>3, <1>4 DEF IInv

\* The setup does not change, and a file is never taken away.
LEMMA SetupStays ==
  ASSUME TypeOK, [Next]_vars
  PROVE  /\ setup' = setup /\ Required' = Required
         /\ file' \in [Server -> {"absent", "empty", "written"}]
         /\ \A s \in Server : /\ file[s] # "absent" => file'[s] # "absent"
                              /\ file[s] = "written" => file'[s] = "written"
<1>1. setup' = setup
  BY DEF Next, Client, Create, Write, Start, NewListenAddr, Poll, TimesOut, Settle,
     ReadFile, StartDialing, DialEnds, FinishDialing, vars
<1>2. CASE file' = file
  BY <1>1, <1>2 DEF Required, TypeOK
<1>3. ASSUME NEW s \in Server, Create(s) \/ Write(s)
      PROVE  /\ file' \in [Server -> {"absent", "empty", "written"}]
             /\ \A r \in Server : /\ file[r] # "absent" => file'[r] # "absent"
                                  /\ file[r] = "written" => file'[r] = "written"
  BY <1>3 DEF Create, Write, TypeOK
<1>4. file' = file \/ \E s \in Server : Create(s) \/ Write(s)
  BY DEF Next, Client, Start, NewListenAddr, Poll, TimesOut, Settle,
     ReadFile, StartDialing, DialEnds, FinishDialing, progress, dials, vars
<1> QED
  BY <1>1, <1>2, <1>3, <1>4 DEF Required

LEMMA StepIInv == IInv /\ [Next]_vars => IInv'
<1> SUFFICES ASSUME IInv, [Next]_vars PROVE IInv'
  OBVIOUS
<1> USE DEF IInv
<1>0. /\ setup' = setup /\ Required' = Required /\ Required \subseteq Server
      /\ file' \in [Server -> {"absent", "empty", "written"}] /\ Patience \in Nat
      /\ \A s \in Server : /\ file[s] # "absent" => file'[s] # "absent"
                           /\ file[s] = "written" => file'[s] = "written"
  BY SetupStays, RequiredType, DiscoveryAssumption
<1>1. ASSUME UNCHANGED <<pc, listening, polls, progress>> PROVE IInv'
  BY <1>0, <1>1 DEF progress, dials, TypeOK, RequiredOnTheWay, Exists
<1>2. ASSUME NEW s \in Server, Create(s) \/ Write(s) PROVE IInv'
  BY <1>1, <1>2 DEF Create, Write
<1>3. CASE Start
  BY <1>0, <1>3 DEF Start, Go, progress, dials, TypeOK, RequiredOnTheWay, Exists
<1>4. ASSUME NEW e \in Event, NewListenAddr(e) PROVE IInv'
  BY <1>0, <1>4 DEF NewListenAddr, Go, progress, dials, TypeOK, RequiredOnTheWay, Exists
<1>5. CASE Poll
  <2>1. /\ pc = "polling" /\ pc' \in {"polling", "settling"} /\ polls' \in 0..Patience
        /\ entries' = Exists /\ UNCHANGED <<setup, file, listening, unread, dials>>
    <3>1. polls \in 0..Patience
      BY DEF TypeOK
    <3>2. CASE Exists # {}
      BY <1>5, <3>1, <3>2 DEF Poll, Go
    <3>3. CASE Exists = {}
      <4>1. pc = "polling" /\ polls < Patience /\ polls' = polls + 1
        BY <1>5, <3>3 DEF Poll
      <4>2. polls' \in 0..Patience
        BY <1>0, <3>1, <4>1
      <4> QED
        BY <1>5, <3>3, <4>1, <4>2 DEF Poll
    <3> QED
      BY <3>2, <3>3
  <2> QED
    BY <1>0, <2>1 DEF dials, TypeOK, RequiredOnTheWay, Exists
<1>6. CASE TimesOut
  BY <1>0, <1>6 DEF TimesOut, Go, progress, dials, TypeOK, RequiredOnTheWay, Exists
<1>7. CASE Settle
  BY <1>0, <1>7 DEF Settle, Go, dials, TypeOK, RequiredOnTheWay, Exists
<1>8. ASSUME NEW s \in Server, ReadFile(s) PROVE IInv'
  BY <1>0, <1>8 DEF ReadFile, Go, TypeOK, RequiredOnTheWay, Exists
<1>9. CASE StartDialing
  BY <1>0, <1>9 DEF StartDialing, Go, TypeOK, RequiredOnTheWay, Exists
<1>10. ASSUME NEW s \in Server, DialEnds(s) PROVE IInv'
  <2>1. /\ UNCHANGED <<setup, file, pc, listening, polls, entries, unread, skipped, found>>
        /\ dialing' \subseteq dialing
    BY <1>10 DEF DialEnds
  <2>2. connected' \subseteq found
    <3>1. s \in dialing /\ (connected' = connected \cup {s} \/ connected' = connected)
      BY <1>10, Zenon DEF DialEnds
    <3>2. s \in found /\ connected \subseteq found
      BY <3>1 DEF TypeOK
    <3> QED
      BY <3>1, <3>2
  <2>3. report' \in [Server -> {"", "connected", "connect_failed"}]
    BY <1>10 DEF DialEnds, ReportFailure, TypeOK
  <2> QED
    BY <1>0, <2>1, <2>2, <2>3 DEF TypeOK, RequiredOnTheWay, Exists
<1>11. CASE FinishDialing
  BY <1>0, <1>11 DEF FinishDialing, Go, progress, dials, TypeOK, RequiredOnTheWay, Exists
<1>12. CASE UNCHANGED vars
  BY <1>1, <1>12 DEF vars, progress, dials
<1> QED
  BY <1>2, <1>3, <1>4, <1>5, <1>6, <1>7, <1>8, <1>9, <1>10, <1>11, <1>12 DEF Next, Client

\* IInv is inductive.
LEMMA Invariance == Spec => []IInv
BY InitIInv, StepIInv, PTL DEF Spec

\* A client keeps its types: it dials what it found, and found what it listed.
THEOREM TypeCorrect == Spec => []TypeOK
<1>1. IInv => TypeOK
  BY DEF IInv
<1> QED
  BY <1>1, Invariance, PTL

\* discoverFromDir, connect_from_dir, connectFromDir: the servers that compose
\* waits for are found by every client, but for those whose files it could not read,
\* though a server is healthy before its file is written and each is read once.
THEOREM RequiredIsFound == Spec => []RequiredFound
<1>1. IInv => RequiredFound
  BY DEF IInv, RequiredOnTheWay, RequiredFound
<1> QED
  BY <1>1, Invariance, PTL

-----------------------------------------------------------------------------
(* Listeners. *)

Here(i) == Transport \X {i}

\* On a host with one interface, as many addresses as transports are one of each.
LEMMA AllAreReady ==
  ASSUME IsFiniteSet(Transport), NEW i, Interface = {i},
         NEW seen \in SUBSET Event, Ready(seen)
  PROVE  Here(i) \subseteq seen
<1> DEFINE Far == {e \in seen : e[2] # "lo"}
           f == [t \in Transport |-> <<t, i>>]
<1>1. f \in Bijection(Transport, Here(i))
  <2>1. f \in [Transport -> Here(i)]
    BY DEF Here
  <2>2. \A s, t \in Transport : f[s] = f[t] => s = t
    OBVIOUS
  <2>3. \A h \in Here(i) : \E t \in Transport : f[t] = h
    BY DEF Here
  <2> QED
    BY <2>1, <2>2, <2>3, Fun_IsBij
<1>2. IsFiniteSet(Here(i)) /\ Cardinality(Here(i)) = Cardinality(Transport)
  BY <1>1, FS_Bijection DEF ExistsBijection
<1>3. Far \in SUBSET Here(i)
  BY DEF Event, Here
<1>4. Cardinality(Far) >= Cardinality(Transport)
  BY DEF Ready
<1>5. Cardinality(Far) = Cardinality(Here(i))
  BY <1>2, <1>3, <1>4, FS_Subset, FS_CardinalityType
<1>6. Far = Here(i)
  BY <1>2, <1>3, <1>5, FS_Subset
<1> QED
  BY <1>6

\* main.rs, "Wait for all listeners to be ready before dialing peers": with one
\* interface, as in compose, each transport has an address that can be dialled
\* before the Rust client goes on, whichever events come first.
THEOREM ListenersAreReady ==
  ASSUME IsFiniteSet(Transport), NEW CONSTANT i, Interface = {i}
  PROVE  Spec => []ListenersReady
<1> DEFINE Inv == setup.impl = "rust" /\ pc \notin {"blocked", "listening"} =>
                    Here(i) \subseteq listening
<1>1. Init => Inv
  BY DEF Init
<1>2. IInv /\ Inv /\ [Next]_vars => Inv'
  <2> SUFFICES ASSUME IInv, Inv, [Next]_vars, setup'.impl = "rust",
                      pc' \notin {"blocked", "listening"}
               PROVE  Here(i) \subseteq listening'
    BY DEF Here
  <2>1. setup' = setup
    BY SetupStays DEF IInv
  <2>2. CASE Start
    BY <2>1, <2>2 DEF Start, Go
  <2>3. ASSUME NEW e \in Event, NewListenAddr(e) PROVE Here(i) \subseteq listening'
    <3>1. Ready(listening') /\ listening' \in SUBSET Event
      BY <2>3 DEF NewListenAddr, Go, IInv, TypeOK
    <3> QED
      BY <3>1, AllAreReady
  <2>4. ASSUME listening' = listening, pc \notin {"blocked", "listening"}
        PROVE  Here(i) \subseteq listening'
    BY <2>1, <2>4
  <2> QED
    BY <2>2, <2>3, <2>4 DEF Next, Client, Create, Write, Poll, TimesOut, Settle,
       ReadFile, StartDialing, DialEnds, FinishDialing, Go, progress, dials, vars
<1>3. Inv => ListenersReady
  BY DEF ListenersReady, Here
<1> HIDE DEF Inv
<1> QED
  BY <1>1, <1>2, <1>3, Invariance, PTL DEF Spec
=============================================================================
