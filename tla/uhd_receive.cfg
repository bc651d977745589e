SPECIFICATION FairSpec
CONSTANTS
  BufLen = 9
  ReadLen = 3
  MaxPacket = 2
  TsOffset = 1
  MaxGap = 3
  MaxJumps = 1
  LastTime = 20
INVARIANTS RingHoldsReceived ReadIsValid
PROPERTIES ReadsGoOn ImplementsStore
CHECK_DEADLOCK FALSE
