SPECIFICATION FairSpec
CONSTANTS
  LenThr = 2
  Submitters = {s1}
  Closer = closer
  NoThread = none
  MaxBatch = 2
  MaxTasks = 3
INVARIANTS TypeOK ExactlyOnce NoLostWakeup
PROPERTIES ImplementsPool ImplementsFairPool FreeReturns
CHECK_DEADLOCK FALSE
