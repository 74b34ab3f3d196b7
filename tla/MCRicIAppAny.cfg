SPECIFICATION Spec
CONSTANTS
  XApps = {x1, x2}
  XId <- XIdFirst
  Nodes = {n1}
  RanFunc <- RanFuncOwn
  MaxId = 2
  MaxLocal = 1
  MaxInd = 1
  XAppsMayDie = TRUE
  NodesMayLeave = TRUE
  LateAnswers = TRUE
SYMMETRY XAppSymmetry
INVARIANTS TypeOK PendingAccounted FailuresForeseen
CHECK_DEADLOCK FALSE
