SPECIFICATION DialSpec
CONSTANTS
  Server = {s1, s2}
  Client = client
  Router = router
  Port = {1, 2}
  Proto = {"udp"}
  NatType = "port-restricted"
  ForwardPort = 1
  StaticForward = FALSE
  Remap <- NoRemap
  TcpBlocked = {}
  DirectRoute = FALSE
  CommandsFail = FALSE
  MaxFlows = 3
  MaxRules = 1
SYMMETRY Symmetry
INVARIANTS FreshVerdictIsJustified
CHECK_DEADLOCK FALSE
