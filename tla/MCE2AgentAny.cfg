SPECIFICATION Spec
CONSTANTS
  MaxId = 2
  Funcs = {"kpm", "rc"}
  Aperiodic = {"rc"}
  Digits <- FourDigits
  MaxCalls = 2
  MaxRestarts = 0
  Deletes = TRUE
  MayStop = FALSE
INVARIANTS FailuresForeseen HeldIsRegistered PipeMatchesQueue SentInOrder
CHECK_DEADLOCK FALSE
