SPECIFICATION ModemSpec
CONSTANTS
  TxSps = {1, 4}
  RxSps = {1, 4}
  MaxDelays = {0, 5}
INVARIANTS RatioReadsCorrelation
