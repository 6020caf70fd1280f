SPECIFICATION Spec
CONSTANTS
  Request = {r1, r2}
  Addr = {webrtcOpen, webrtcShut, tcpOpen, quicOpen}
  TcpAddr = {tcpOpen}
  QuicAddr = {quicOpen}
  Reachable = {webrtcOpen, tcpOpen, quicOpen}
  NoAddr = NoAddr
  Unasked = Unasked
  Malformed = Malformed
  NoOverride = NoOverride
  NoConn = NoConn
  Behavior = "force-reachable"
  TcpBehavior = "no-dialback-msg"
  QuicBehavior = "timeout"
  Probability = "between"
  MaxConcurrent = 2
INVARIANTS TypeOK NothingLeftBehind
PROPERTIES MockPromiseKept EveryRequestAnswered EveryHandlerEnds
CHECK_DEADLOCK FALSE
