SPECIFICATION LibrarySpec
CONSTANTS
  GMaxFrames = 12
  GMaxTimeslots = 8
  TNWord = 256
  FNWord = 64
  Window = 39
  FilterUses <- MCFilterUses
  Delays <- MCDelays
  TxSps = {1, 4}
  RxSps = {1, 4}
  MaxDelays = {0, 5}
  Ratios <- MCRatios
  FiltLen = 4
  ChunkOf = 2
  Chunks = {1, 2}
  MaxBlocks = 3
  Lengths = {0, 1, 7, 8, 9, 16, 23, 24, 31, 32, 40}
  Scales = {1, 3}
  Offsets <- MCOffsets
  ShortWidth = 64
  FieldSize = 5
  PackWords <- MCPackWords
  DataSizes = {1, 4}
  Generators <- MCGenerators
  Vectors = {v1, v2, v3}
  Blocks = {b1, b2, b3}
  Nowhere = Nowhere
  Values = {p1, p2}
  MaxNodes = 4
  NULL = NULL
  Threads = {t1, t2, t3}
  Keys = {k1, k2}
  Marks = {0, 1}
  MaxItems = 2
  Lockers = {t1, t2, t3}
  Nobody = Nobody
INVARIANTS
  OrderIsDistance FilterIsConvolution BurstsStayInside DelayIsMeasured
  ResamplesStream ConvertsInPlace CodesInvert OneOwner NoWakeupLost NoDeadlock
PROPERTIES ImplementsFifo CallsEnd
