SPECIFICATION FairSpec
CONSTANTS
  GMaxFrames = 6
  GMaxTimeslots = 2
  TNWord = 4
  FNWord = 16
  Bursts = {b1}
  NoBurst = NoBurst
  Freed = Freed
  Modulus26 = 1
  Modulus51 = 1
  Modulus102 = 1
  InitialLatency = 1
  UnderrunInterval = 1
  UpdateInterval = 1
  Usrp1Window = TRUE
  SlotTypes = {}
  Inputs = {}
  CommandSlots = {0}
  MaxLag = 1
  BurstBehind = 1
  BurstAhead = 1
  MaxArrivals = 1
  MaxLatency = 2

INVARIANTS DeadlineWithinLatency
PROPERTIES QueueDrains

