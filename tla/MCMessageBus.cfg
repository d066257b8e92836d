SPECIFICATION BusSpec
CONSTANTS
  Topics = {t1, t2}
  Publishers = {p1, p2}
  Subscribers = {s1, s2}
  Capacity = 1
  Nobody = Nobody
  NoTopic = NoTopic
  MaxMsgs = 2
  Readers = {r1, r2}
  BatchSize = 2
  MaxLen = 1
  MaxFaults = 1
INVARIANTS
  Distributed
PROPERTIES
  PublishReturns
  PublishedReceived
CHECK_DEADLOCK FALSE
