SPECIFICATION Spec
CONSTANTS
  GMaxFrames = 4
  GMaxTimeslots = 2
  TNWord = 4
  FNWord = 8
  Bursts = {b1, b2}
  NoBurst = NoBurst
  Freed = Freed
  Modulus26 = 1
  Modulus51 = 1
  Modulus102 = 1
  InitialLatency = 1
  UnderrunInterval = 1
  UpdateInterval = 2
  Usrp1Window = FALSE
  SlotTypes = {}
  Inputs = {"FILLER", "MALFORMED"}
  CommandSlots = {0}
  MaxLag = 2
  BurstBehind = 1
  BurstAhead = 1
  MaxArrivals = 1
  MaxLatency = 0
SYMMETRY BurstSymmetry

PROPERTIES MissOnlyBehindStale ImplementsSchedule
