SPECIFICATION Spec
CONSTANTS
  Server = {s1, s2}
  Client = client
  Router = router
  Port = {1, 2}
  Proto = {"udp"}
  NatType = "address-restricted"
  ForwardPort = 1
  StaticForward = TRUE
  Remap <- NoRemap
  TcpBlocked = {}
  DirectRoute = FALSE
  CommandsFail = FALSE
  MaxFlows = 2
  MaxRules = 1
INVARIANT TypeOK
PROPERTY FilterPromise
CHECK_DEADLOCK FALSE
