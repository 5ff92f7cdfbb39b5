SPECIFICATION Spec
CONSTANTS
  Pids = {1, 2, 3}
  Self = 1
  Inodes = {1}
  Row <- Rows
  Unreadable = {}
  Faults = {"getifaddrs", "open_live", "nonblock", "opendir", "open_net", "dispatch", "open_stat"}
  Interfaces <- Tunnel
  LinkType <- LinkTypes
  Frames <- NearFrames
  Callbacks = {{"process", "packet"}}
  Counts = {1}
  MaxInits = 1
  MaxBytes = 1
  RingSize = 2
INVARIANTS TypeOK OwnersListed MergeInUpdate
PROPERTIES RefinesFeed CreditToOwner CallAdvances
