SPECIFICATION ReaderSpec
CONSTANTS
  Contents <- Short
  Matching = {0}
  MayExit = TRUE
PROPERTY ReaderTerminates
CHECK_DEADLOCK FALSE
