CONSTANTS
  Prescale = 1
  Threshold = 0
  MaxCalls = 1
  RealTime = FALSE
  Torn = torn
SPECIFICATION FairSpec
PROPERTY EndReturns
CHECK_DEADLOCK FALSE
