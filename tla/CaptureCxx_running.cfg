SPECIFICATION Spec
CONSTANTS
  Pids = {1, 2, 3}
  Self = 1
  Inodes = {1}
  Row <- Rows
  Unreadable = {}
  Faults = {}
  Interfaces <- Tunnel
  LinkType <- LinkTypes
  Frames <- TcpFrames
  Callbacks = {{"process", "packet"}}
  Counts <- All
  MaxInits = 1
  MaxBytes = 1
  RingSize = 2
INVARIANT OnlyKilledRemoved
