SPECIFICATION Spec
CONSTANTS
  UIs = {ui}
  MaxReq = 2
  MaxDelay = 4
  PromptDelay = 4
INVARIANT UiDeadlineUnforeseen
CHECK_DEADLOCK FALSE
