SPECIFICATION FairSpec
CONSTANTS
  Reports = {r1, r2}
  MaxInd = 2
INVARIANTS TypeOK FailuresForeseen CallbacksExact
PROPERTIES IndicationsCalled StopEnds
CHECK_DEADLOCK FALSE
