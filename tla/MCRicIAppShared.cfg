SPECIFICATION Spec
CONSTANTS
  XApps = {x1, x2}
  XId <- XIdFirst
  Nodes = {n1}
  RanFunc <- RanFuncShared
  MaxId = 4
  MaxLocal = 2
  MaxInd = 1
  XAppsMayDie = FALSE
  NodesMayLeave = FALSE
  LateAnswers = FALSE
INVARIANTS DeleteFindsOwn
CHECK_DEADLOCK FALSE
