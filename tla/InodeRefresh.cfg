SPECIFICATION FairRefreshSpec
CONSTANTS
  Pids = {1, 2}
  Self = 1
  Inodes = {1, 2, 3}
  Row <- RowColliding
  Faults = {"open_net"}
  Unreadable = {}
  DeviceLists <- TwoDevices
INVARIANTS HelperTypeOK KeysMatch LookupComplete PacketAttributed
PROPERTY RefreshReturns
