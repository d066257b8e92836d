SPECIFICATION FairSpec
CONSTANTS
  Nodes = {n1, n2}
  Ids = {r, o}
  OneShot = {o}
  ClusterScope = {r, o}
  Loops = {l1, l2}
  MaxConcurrent = 1
  MaxTriggers = 1
  MaxFaults = 1
  NoLoop = NoLoop
  NoNode = NoNode
  NoId = NoId
INVARIANTS
  LoopsAccounted
  SingleRunner
PROPERTIES
  TurnEnds
CHECK_DEADLOCK FALSE
