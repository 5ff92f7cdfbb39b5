SPECIFICATION InodeRefreshSpec
CONSTANTS
  Pids = {1, 2, 3}
  Self = 1
  Inodes = {1, 2}
  Row <- RowDistinct
  Faults = {}
  Unreadable = {}
  DeviceLists <- OneDevice
INVARIANT LookupTotal
