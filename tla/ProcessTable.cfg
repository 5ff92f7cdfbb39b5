SPECIFICATION Spec
CONSTANTS
  Pids = {1, 2}
  Programs = {"daemon", "web tool"}
  First <- Daemon
  Looks <- ToolOrThread
  Busy = {2}
  MaxChanges = 2
  MaxTicks = 2
  Total = 4
  Word = 1000
  Words = {"daemon", "web"}
  FirstWord <- WordsOf
  Private = {0}
  Users = {0, 1}
  Groups = {0}
  Faults = {"getifaddrs", "open_stat", "open_proc"}
  MaxInits = 1
  MaxUpdates = 2
  MaxMisses = 1
INVARIANTS TableTypeOK ReportedAsIs  DeltaSound ShareBounded
CHECK_DEADLOCK FALSE
