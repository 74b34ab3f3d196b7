SPECIFICATION FairSpec
CONSTANTS
  MaxId = 1
  Funcs = {"kpm", "rc"}
  Aperiodic = {"rc"}
  Digits <- FourDigits
  MaxCalls = 2
  MaxRestarts = 1
  Deletes = TRUE
  MayStop = TRUE
INVARIANT TypeOK
PROPERTIES RequestsAnswered SetupAsked IndicationsLeave
CHECK_DEADLOCK FALSE
