SPECIFICATION Spec
CONSTANTS
  NoiseCount = 1
  Combinations = {"I"}
  BurstFrames = {4}
  BadSlot = 255
  Timeslots = {0}
  Codes = {0, 8}
  Energies = {1}
  Delays = {0}
  Gains = {0}
  Frequencies = {1}
  Powers = {0}
  Steps = {0}
CHECK_DEADLOCK FALSE
INVARIANTS ReportedWasDetected
