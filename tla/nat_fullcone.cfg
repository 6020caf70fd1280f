SPECIFICATION Spec
CONSTANTS
  Server = {s1, s2}
  Client = client
  Router = router
  Port = {1, 2}
  Proto = {"udp"}
  NatType = "full-cone"
  ForwardPort = 1
  StaticForward = TRUE
  Remap <- NoRemap
  TcpBlocked = {}
  DirectRoute = FALSE
  CommandsFail = TRUE
  MaxFlows = 2
  MaxRules = 2
SYMMETRY Symmetry
INVARIANTS ForwardWhole MappingIndependent MappedReachable
CHECK_DEADLOCK FALSE
