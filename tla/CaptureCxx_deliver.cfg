SPECIFICATION Spec
CONSTANTS
  Pids = {1}
  Self = 1
  Inodes = {1}
  Row <- Rows
  Unreadable = {}
  Faults = {}
  Interfaces <- Tunnel
  LinkType <- LinkTypes
  Frames <- TcpFrames
  Callbacks = {{"process", "packet"}}
  Counts <- All
  MaxInits = 1
  MaxBytes = 2
  RingSize = 2
INVARIANT DeliversRound
