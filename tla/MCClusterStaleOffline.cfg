SPECIFICATION Spec
CONSTANTS
  Workers = {w1}
  Trusted = {w1}
  Conns = {s1, s2}
  MaxMissed = 1
  MaxFrames = 1
  MaxFaults = 0
  NoWorker = NoWorker
  NoConn = NoConn
SYMMETRY ConnSymmetry
INVARIANTS
  ActiveConnectionIsOnline
CHECK_DEADLOCK FALSE
