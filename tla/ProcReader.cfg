SPECIFICATION ReaderSpec
CONSTANTS
  Contents <- AnyLength
  Matching = {0, 1, 2}
  MayExit = TRUE
INVARIANT LinesInOrder
PROPERTIES GoodReadsEnd ReadAdvances
CHECK_DEADLOCK FALSE
