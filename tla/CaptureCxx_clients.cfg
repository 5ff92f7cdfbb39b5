SPECIFICATION Spec
CONSTANTS
  Pids = {1, 2}
  Self = 1
  Inodes = {1}
  Row <- Rows
  Unreadable = {}
  Faults = {"filter", "dispatch"}
  Interfaces <- Tunnel
  LinkType <- LinkTypes
  Frames <- TcpAndUdp
  Callbacks = {{}, {"process", "packet"}}
  Counts <- All
  MaxInits = 2
  MaxBytes = 1
  RingSize = 2
INVARIANTS  TrafficBounded DescriptorsBounded NeverStuck
PROPERTIES CountersKept CallAdvances
