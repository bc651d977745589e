SPECIFICATION HalvesSpec
CONSTANTS
  GMaxFrames = 2
  GMaxTimeslots = 8
  TNWord = 256
  FNWord = 4
  ReceiveOffset = 3
  FifoLimit = 8
  DropPackets = 4
INVARIANTS
  ReceiveTypeOK SamplesMatchSlot ClockFollowsSamples RecvBufferFits FifoBounded
  SendFits SendFollowsSlots BurstsAreWhole GapIsFixed
PROPERTIES ReceptionGoesOn ErrorResynchronizes TransmissionResumes
