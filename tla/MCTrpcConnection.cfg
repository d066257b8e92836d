SPECIFICATION Spec
CONSTANTS
  Callers = {c1, c2}
  MaxAsks = 2
  MaxId = 3
  Capacity = 1
  MaxWire = 1
SYMMETRY CallerSymmetry
INVARIANTS
  AnswersReach
CHECK_DEADLOCK FALSE
