SPECIFICATION Spec
CONSTANTS
  GMaxFrames = 4
  GMaxTimeslots = 2
  TNWord = 4
  FNWord = 8
  Bursts = {b1, b2}
  NoBurst = NoBurst
  Freed = Freed
  Modulus26 = 1
  Modulus51 = 2
  Modulus102 = 2
  InitialLatency = 1
  UnderrunInterval = 1
  UpdateInterval = 2
  Usrp1Window = FALSE
  SlotTypes = {"IGPRS", "VII"}
  Inputs = {"OTHER"}
  CommandSlots = {0}
  MaxLag = 1
  BurstBehind = 1
  BurstAhead = 1
  MaxArrivals = 1
  MaxLatency = 0

SYMMETRY BurstSymmetry
INVARIANTS TypeOK BurstOwnership FillerEntryPresent

