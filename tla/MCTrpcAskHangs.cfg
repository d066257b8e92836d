SPECIFICATION FairSpec
CONSTANTS
  Callers = {c1}
  MaxAsks = 1
  MaxId = 1
  Capacity = 1
  MaxWire = 1
PROPERTIES
  AskReturns
CHECK_DEADLOCK FALSE
