CONSTANTS
  Payloads <- SomePayloads
  Crc <- CrcFast
  MaxLost = 2
  MaxErrors = 1
SPECIFICATION FairSpec
INVARIANT TypeOK
PROPERTIES SyncIsKept WholeIsAccepted OnlyWholeFrames KeepsTaking
