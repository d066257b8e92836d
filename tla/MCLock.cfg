SPECIFICATION LockFairSpec
CONSTANTS
  Clients = {c1, c2}
  Keys = {k1}
  MaxTtl = 2
  MaxWait = 1
  Tokens = {1, 2, 3, 4, 5}
  NoToken = 0
  Nobody = Nobody
INVARIANTS
  LeaseHonoured
  MutualExclusion
PROPERTIES
  ImplementsLeaseLock
  AcquireReturns
  OrphanExpires
