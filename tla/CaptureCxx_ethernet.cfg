SPECIFICATION Spec
CONSTANTS
  Pids = {1}
  Self = 1
  Inodes = {1}
  Row <- Rows
  Unreadable = {}
  Faults = {}
  Interfaces <- Ethernet
  LinkType <- LinkTypes
  Frames <- EthernetFrames
  Callbacks = {{"process", "packet"}}
  Counts <- All
  MaxInits = 1
  MaxBytes = 1
  RingSize = 2
INVARIANT CountedOnce
