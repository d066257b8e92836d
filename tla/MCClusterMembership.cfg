SPECIFICATION FairSpec
CONSTANTS
  Workers = {w1, w2}
  Trusted = {w1}
  Conns = {s1, s2}
  MaxMissed = 1
  MaxFrames = 1
  MaxFaults = 2
  NoWorker = NoWorker
  NoConn = NoConn
INVARIANTS
  MembersGenuine
PROPERTIES
  GoneIsNoticed
  WorkerReconnects
CHECK_DEADLOCK FALSE
