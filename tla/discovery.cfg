SPECIFICATION Spec
CONSTANTS
  Setup <- EverySetup
  Server = {s1, s2, s3}
  DependsOn = {s1, s2}
  Transport = {"tcp", "quic"}
  Interface = {eth0}
  Dialable = {"tcp"}
  Patience = 2
INVARIANTS TypeOK RequiredFound ListenersReady
PROPERTY DiscoveryEnds
CHECK_DEADLOCK FALSE
