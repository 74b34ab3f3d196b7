SPECIFICATION FairSpec
CONSTANTS
  UIs = {ui}
  MaxReq = 3
  MaxDelay = 10
  PromptDelay = 4
INVARIANTS TypeOK PendingIsRegistered SubscriptionsAgree RegistryAssertsHold NoAbort
PROPERTY CallsReturn
CHECK_DEADLOCK FALSE
