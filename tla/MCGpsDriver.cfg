CONSTANTS
  Payloads <- AllPayloads
  CkA <- SumsA
  CkB <- SumsB
  Noises = {208, 221, 32}
  IdleTimeout = 1
  MaxFaults = 1
SPECIFICATION FairSpec
INVARIANTS TypeOK StatusMatchesFix
PROPERTIES StepIsKept WholeIsAccepted OnlyPayloads SilenceIsNoticed Recovers
