CONSTANTS
  Prescale = 2
  Threshold = 1
  MaxCalls = 8
  RealTime = TRUE
  Torn = torn
SPECIFICATION FairSpec
INVARIANTS TypeOK NothingLost NoWakeupIsLost
PROPERTIES ImplementsLog EndReturns EndWritesBacklog
CHECK_DEADLOCK FALSE
