CONSTANTS
  Prescale = 1
  Threshold = 0
  MaxCalls = 2
  RealTime = FALSE
  Torn = torn
SPECIFICATION Spec
INVARIANT NothingLost
CHECK_DEADLOCK FALSE
