SPECIFICATION ReceiveSpec
CONSTANTS
  GMaxFrames = 2
  GMaxTimeslots = 8
  TNWord = 256
  FNWord = 4
  ReceiveOffset = 3
  FifoLimit = 8
INVARIANTS RxTimeslotInRange
