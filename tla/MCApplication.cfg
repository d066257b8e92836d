SPECIFICATION AppFairSpec
CONSTANTS
  s1 = s1
  s2 = s2
  c1 = c1
  c2 = c2
  Socks <- MCSocks
  TcpConns <- MCTcpConns
  Registered <- MCRegistered
  Order <- MCOrder
  Pipeline <- MCPipeline
  Components <- MCComponents
  Loads <- MCLoads
  Interval = 1
  PingTimeout = 0
  MaxDue = 1
INVARIANTS
  ConnectionsCounted
  FilteredBothWays
PROPERTIES
  ConnectionsClose
  ShutdownCompletes
CHECK_DEADLOCK FALSE
