SPECIFICATION FairSpec
CONSTANTS
  XApps = {x1, x2}
  XId <- XIdFirst
  Nodes = {n1}
  RanFunc <- RanFuncOwn
  MaxId = 4
  MaxLocal = 2
  MaxInd = 0
  XAppsMayDie = FALSE
  NodesMayLeave = FALSE
  LateAnswers = FALSE
INVARIANTS NoAbort HeldIsServed
PROPERTIES CallsAnswered ImplementsService
CHECK_DEADLOCK FALSE
