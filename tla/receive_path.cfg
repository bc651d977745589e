SPECIFICATION Spec
CONSTANTS
  NoiseCount = 2
  Combinations = {"V", "VII"}
  BurstFrames = {4, 12}
  BadSlot = 255
  Timeslots = {0}
  Codes = {0, 8}
  Energies = {0, 1}
  Delays = {0, 1}
  Gains = {0}
  Frequencies = {1}
  Powers = {0}
  Steps = {0}
INVARIANTS
  TypeOK SequenceInPlace AckedInForce CorrelatedAsAsked RingIsRecent
