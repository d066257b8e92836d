SPECIFICATION AdminSpec
CONSTANTS
  q1 = q1
  q2 = q2
  Reqs <- MCReqs
  MaxTokens = 3
  MaxFaults = 1
  None = None
SYMMETRY Symmetry
INVARIANTS
  AnsweredSurvives
  AuthHolds
CHECK_DEADLOCK FALSE
