CONSTANTS
  N = 3
  Zero = zero
  NoByte = none
  Byte = {zero, one}
  MaxChunk = 2
SPECIFICATION FairSpec
INVARIANTS RingInv BatchNeverRunsDry
PROPERTIES ImplementsFifo EveryByteIsRead
CHECK_DEADLOCK FALSE
