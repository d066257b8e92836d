SPECIFICATION ClientSpec
CONSTANTS
  Callers = {c1, c2}
  Clients = {h1}
  FailureThreshold = 3
  SuccessThreshold = 2
  OpenDuration = 2
  MaxAttempts = 4
  MaxRetries = 2
  U32 = 4
  Width = 2
INVARIANTS
  CountersMatchStatus
  DelayMatchesFormula
  OvershootBounded
PROPERTIES
  TripsOnConsecutiveFailures
  ClosesOnConsecutiveSuccesses
  CoolsDown
  CallsRecover
