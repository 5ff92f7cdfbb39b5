----------------------------- MODULE CaptureCxx -----------------------------
(***************************************************************************)
(* The capture engine (capturecxx.cpp): CaptureInit and CaptureUpdate run  *)
(* on the caller's thread, one at a time.  The operating system and the    *)
(* network move between any two of their steps.  pc names the part of the  *)
(* call that runs next; "idle" is outside of any call.                     *)
(***************************************************************************)
EXTENDS PidMerge, CapInodeHelper, CapProtocol

CONSTANTS
    Interfaces,     \* what getifaddrs returns, a sequence
    LinkType,       \* pcap_datalink of an interface, by name
    Frames,         \* the frames that may be seen on the interfaces
    Callbacks,      \* the callback sets a client may pass to CaptureInit
    Counts,         \* the cnt arguments of CaptureUpdate
    MaxInits,       \* bound: calls of CaptureInit
    MaxBytes,       \* bound: bytes seen on the interfaces
    RingSize        \* frames the kernel buffers for a handle

ASSUME EngineAssumption ==
    /\ IsFiniteSet(Pids)
    /\ Interfaces \in Seq(Device)
    /\ Frames \subseteq FrameType
    /\ Callbacks \subseteq SUBSET {"process", "packet"}
    /\ Counts \subseteq Int
    /\ MaxInits \in Nat /\ MaxBytes \in Nat /\ RingSize \in Nat

VARIABLES
    pc, op,         \* where the running call is, and which call it is
    cnt, idx, left, ret,    \* its locals; left counts packets of a dispatch
    inits,          \* calls of CaptureInit so far
    cbs,            \* the callbacks that are set: "process", "packet"
    handles,        \* the interface each open handle captures on
    ring,           \* the frames buffered for each handle
    leaked,         \* pcap descriptors that are open and that no handle knows of
    wire,           \* history: bytes of all frames seen since a handle opened
    processData, packetData, packetIdx,
    view,           \* the process rows the client holds
    round           \* history: the packets stored for the client in this Update

callVars == <<pc, op, cnt, idx, left, ret>>
capVars == <<inits, cbs, handles, ring, leaked, wire>>
packetVars == <<packetData, packetIdx, round>>
outVars == <<processData, view, packetVars>>
vars == <<osVars, devices, helperVars, mergeVars, callVars, capVars, outVars>>

\* Leaving a call: its locals are gone.
Return ==
    /\ pc' = "idle" /\ op' = "none"
    /\ cnt' = 0 /\ idx' = 0 /\ left' = 0 /\ ret' = 0
    /\ pidIt' = {} /\ procIt' = {} /\ before' = {}

Goto(label, i) == pc' = label /\ idx' = i /\ UNCHANGED <<op, cnt, left, ret>>
-----------------------------------------------------------------------------
(* CaptureInit                                                             *)

InitCall(callbacks) ==
    /\ pc = "idle" /\ inits < MaxInits
    /\ inits' = inits + 1
    /\ cbs' = callbacks
    /\ view' = {}
    /\ pc' = "ifaddrs" /\ op' = "init"
    /\ UNCHANGED <<cnt, idx, left, ret, osVars, devices, helperVars, mergeVars,
                   handles, ring, leaked, wire, processData, packetVars>>

\* InitDevice, one entry of the list.  devices is never cleared, so that a
\* second CaptureInit adds to it.
NextDevice ==
    /\ pc = "ifaddrs" /\ idx < Len(Interfaces)
    /\ LET device == Interfaces[idx + 1]
       IN  devices' = IF device.family # "null" /\ UpRunning(device)
                      THEN Append(devices, device) ELSE devices
    /\ Goto("ifaddrs", idx + 1)
    /\ UNCHANGED <<osVars, helperVars, mergeVars, capVars, outVars>>

\* InitDevice is over, or getifaddrs failed; without devices Init returns.
DevicesDone ==
    /\ pc = "ifaddrs"
    /\ idx = Len(Interfaces) \/ (idx = 0 /\ "getifaddrs" \in Faults)
    /\ IF devices = <<>>
       THEN Return /\ UNCHANGED <<pids, processes>>
       ELSE Goto("open", 0) /\ UNCHANGED mergeVars
    /\ UNCHANGED <<osVars, devices, helperVars, capVars, outVars>>

\* What becomes of the descriptor of pcap_open_live when the set-up of a handle
\* ends: OpenLive forgets it, still open, if the filter cannot be compiled or set;
\* the destructor closes it if SetNonBlock fails.
PcapAfter == [ok |-> "kept", open_live |-> "none", filter |-> "leaked", nonblock |-> "closed"]

\* Seeded fault: a device that fails is tried again.
OpenDeviceRetry(outcome) ==
    /\ pc = "open" /\ idx < Len(devices)
    /\ outcome = "ok" \/ outcome \in Faults
    /\ LET kept == PcapAfter[outcome] = "kept"
       IN  /\ handles' = IF kept THEN Append(handles, devices[idx + 1].name) ELSE handles
           /\ ring' = IF kept THEN Append(ring, <<>>) ELSE ring
           /\ Goto("open", IF kept THEN idx + 1 ELSE idx)
    /\ leaked' = IF PcapAfter[outcome] = "leaked" THEN leaked + 1 ELSE leaked
    /\ UNCHANGED <<osVars, devices, helperVars, mergeVars, inits, cbs, wire, outVars>>

\* OpenLive, SetCallback and SetNonBlock for one device; a device that cannot
\* be opened, filtered or switched to non-blocking mode is skipped.
OpenDevice(outcome) ==
    /\ pc = "open" /\ idx < Len(devices)
    /\ outcome = "ok" \/ outcome \in Faults
    /\ LET kept == PcapAfter[outcome] = "kept"
       IN  /\ handles' = IF kept THEN Append(handles, devices[idx + 1].name) ELSE handles
           /\ ring' = IF kept THEN Append(ring, <<>>) ELSE ring
    /\ leaked' = IF PcapAfter[outcome] = "leaked" THEN leaked + 1 ELSE leaked
    /\ Goto("open", idx + 1)
    /\ UNCHANGED <<osVars, devices, helperVars, mergeVars, inits, cbs, wire, outVars>>

OpenDone ==
    /\ pc = "open" /\ idx = Len(devices)
    /\ Goto("pids", 0)
    /\ UNCHANGED <<osVars, devices, helperVars, mergeVars, capVars, outVars>>

\* The last loop of Init: every listed process gets a new record.
AdoptPids ==
    /\ pc = "adopt"
    /\ processes' = [p \in tracked \cup pids |->
                        IF p \in pids THEN NewProcess ELSE processes[p]]
    /\ Return
    /\ UNCHANGED <<pids, osVars, devices, helperVars, capVars, outVars>>
-----------------------------------------------------------------------------
(* Listing and refreshing, common to both calls                            *)

\* Seeded fault: the listing gives every process a new record.
UpdatePidsAnew ==
    /\ pc = "pids"
    /\ pids' = alive \/ (pids' = {} /\ "opendir" \in Faults)
    /\ processes' = [p \in tracked \cup pids' |-> IF p \in pids' THEN NewProcess ELSE processes[p]]
    /\ RefreshBegin(pids')
    /\ Goto("refresh", 0)
    /\ UNCHANGED <<osVars, devices, pidIt, procIt, before, capVars, outVars>>

\* UpdatePids, then the start of Refresh.  The listing stays empty when /proc
\* cannot be opened; nobody looks at the result.
UpdatePids ==
    /\ pc = "pids"
    /\ pids' = alive \/ (pids' = {} /\ "opendir" \in Faults)
    /\ RefreshBegin(pids')
    /\ Goto("refresh", 0)
    /\ UNCHANGED <<osVars, devices, processes, pidIt, procIt, before, capVars, outVars>>

RefreshMaps ==
    /\ pc = "refresh"
    /\ RefreshStep
    /\ UNCHANGED <<osVars, devices, mergeVars, callVars, capVars, outVars>>

\* Refresh returns; its result is ignored.
RefreshDone ==
    /\ pc = "refresh" /\ RefreshOver
    /\ Goto(IF op = "init" THEN "adopt" ELSE "dispatch", 0)
    /\ UNCHANGED <<osVars, devices, helperVars, mergeVars, capVars, outVars>>
-----------------------------------------------------------------------------
(* CaptureUpdate: capturing                                                *)

\* Seeded fault: packetIdx is not reset.
UpdateCallStale(c) ==
    /\ pc = "idle"
    /\ pc' = "pids" /\ op' = "update" /\ cnt' = c
    /\ round' = <<>>
    /\ UNCHANGED <<idx, left, ret, osVars, devices, helperVars, mergeVars, capVars,
                   processData, packetData, packetIdx, view>>

UpdateCall(c) ==
    /\ pc = "idle"
    /\ pc' = "pids" /\ op' = "update" /\ cnt' = c
    /\ packetIdx' = 0 /\ round' = <<>>
    /\ UNCHANGED <<idx, left, ret, osVars, devices, helperVars, mergeVars, capVars,
                   processData, packetData, view>>

\* CapHandle::Dispatch: pcap_dispatch hands over some of the buffered frames,
\* at most cnt of them if cnt is positive.
Dispatch(n) ==
    /\ pc = "dispatch" /\ idx < Len(handles)
    /\ n <= Len(ring[idx + 1]) /\ (cnt <= 0 \/ n <= cnt)
    /\ pc' = "packets" /\ ret' = n /\ left' = n
    /\ UNCHANGED <<op, cnt, idx, osVars, devices, helperVars, mergeVars, capVars, outVars>>

\* Seeded fault: the error code is taken for a number of packets.
DispatchFailsAsCount ==
    /\ pc = "dispatch" /\ idx < Len(handles)
    /\ "dispatch" \in Faults
    /\ ret' = -1 /\ left' = -1 /\ pc' = "packets"
    /\ UNCHANGED <<op, cnt, idx, osVars, devices, helperVars, mergeVars, capVars, outVars>>

\* pcap_dispatch fails; the loop goes on and ret keeps the error.
DispatchFails ==
    /\ pc = "dispatch" /\ idx < Len(handles)
    /\ "dispatch" \in Faults
    /\ ret' = -1 /\ idx' = idx + 1
    /\ UNCHANGED <<pc, op, cnt, left, osVars, devices, helperVars, mergeVars, capVars, outVars>>

\* The family a slot of packetData gets.  A new slot gets the one of the
\* packet, a reused slot always P_TCP, from ProcessUdp too.
SlotFamily(proto, reused) == IF proto = "tcp" \/ reused THEN "P_TCP" ELSE "P_UDP"

\* The packet part of ProcessTcp and ProcessUdp: the slots left over from
\* earlier rounds are overwritten first.
StorePacket(packet, proto) ==
    LET reused == packetIdx < Len(packetData)
        slot == [hash |-> Link(packet), family |-> SlotFamily(proto, reused),
                 size |-> packet.len]
    IN  /\ packetData' = IF reused THEN [packetData EXCEPT ![packetIdx + 1] = slot]
                                   ELSE Append(packetData, slot)
        /\ packetIdx' = packetIdx + 1
        /\ round' = Append(round, [hash |-> Link(packet), proto |-> proto,
                                   size |-> packet.len])

\* The process part of them: an unknown pid gets a record first.
CreditProcess(pid, packet) ==
    processes' = [q \in tracked \cup {pid} |->
                    IF q # pid THEN processes[q]
                    ELSE AddPacket(IF pid \in tracked THEN processes[pid] ELSE NewProcess,
                                   IsOutgoing(packet), packet.len)]

Frame == Head(ring[idx + 1])

\* The pcap callback for one frame: HandlePacket, CapProtocol::Parse and
\* ProcessTcp or ProcessUdp, which drop what they cannot attribute.
Attributed(frame) ==
    Supported(LinkType[handles[idx + 1]], frame) /\ Found(Hash(PacketOf(devices, frame)))

HandlePacket ==
    /\ pc = "packets" /\ left > 0
    /\ ring' = [ring EXCEPT ![idx + 1] = Tail(@)]
    /\ left' = left - 1
    /\ LET packet == PacketOf(devices, Frame)
       IN  IF Attributed(Frame)
           THEN /\ CreditProcess(PidByIp(Hash(packet)), packet)
                /\ IF "packet" \in cbs THEN StorePacket(packet, Frame.proto)
                                       ELSE UNCHANGED packetVars
           ELSE UNCHANGED <<processes, packetVars>>
    /\ UNCHANGED <<pc, op, cnt, idx, ret, osVars, devices, helperVars, pids, pidIt,
                   procIt, before, inits, cbs, handles, leaked, wire, processData, view>>

\* Seeded fault: the loop over the handles does not advance.
DispatchDoneStuck ==
    /\ pc = "packets" /\ left = 0
    /\ Goto("dispatch", idx)
    /\ UNCHANGED <<osVars, devices, helperVars, mergeVars, capVars, outVars>>

DispatchDone ==
    /\ pc = "packets" /\ left = 0
    /\ Goto("dispatch", idx + 1)
    /\ UNCHANGED <<osVars, devices, helperVars, mergeVars, capVars, outVars>>
-----------------------------------------------------------------------------
(* CaptureUpdate: reconciling and reporting                                *)

\* Seeded fault: the loop starts at the second listed pid.
GetCpuTotalLate(opened) ==
    /\ pc = "dispatch" /\ idx = Len(handles)
    /\ opened \/ "open_stat" \in Faults
    /\ IF opened
       THEN /\ Goto(IF SizesDiffer THEN "merge" ELSE "report", 0)
            /\ pidIt' = {p \in pids : \E c \in pids : c < p}
            /\ procIt' = tracked /\ before' = tracked
       ELSE Return
    /\ UNCHANGED <<pids, processes, osVars, devices, helperVars, capVars, outVars>>

\* GetCpuTotal after the last handle: Update returns if /proc/stat does not
\* open, otherwise the loop over pids and processes is entered or skipped.
GetCpuTotal(opened) ==
    /\ pc = "dispatch" /\ idx = Len(handles)
    /\ opened \/ "open_stat" \in Faults
    /\ IF opened
       THEN /\ Goto(IF SizesDiffer THEN "merge" ELSE "report", 0)
            /\ pidIt' = pids /\ procIt' = tracked /\ before' = tracked
       ELSE Return
    /\ UNCHANGED <<pids, processes, osVars, devices, helperVars, capVars, outVars>>

\* Seeded fault: the entry is erased without ACTION_REMOVE.
MergeEraseSilent(q) ==
    /\ pc = "merge" /\ Erase(q)
    /\ UNCHANGED <<osVars, devices, helperVars, callVars, capVars, outVars>>

\* One iteration that erases, with the ACTION_REMOVE callback before it.
MergeErase(q) ==
    /\ pc = "merge" /\ Erase(q)
    /\ view' = IF "process" \in cbs THEN {r \in view : r.pid # q} ELSE view
    /\ UNCHANGED <<osVars, devices, helperVars, callVars, capVars, processData, packetVars>>

MergeKeep(q) ==
    /\ pc = "merge" /\ Keep(q)
    /\ UNCHANGED <<osVars, devices, helperVars, callVars, capVars, outVars>>

MergeDone ==
    /\ pc = "merge" /\ MergeOver
    /\ Goto("report", 0)
    /\ procIt' = tracked
    /\ UNCHANGED <<pids, processes, pidIt, before, osVars, devices, helperVars, capVars, outVars>>

\* One row: the first loop overwrites what processData holds, the second one
\* appends the rest.
CopyRow(q) ==
    /\ pc = "report" /\ "process" \in cbs
    /\ PointsTo(procIt, q)
    /\ LET row == [pid |-> q, send |-> processes[q].send, recv |-> processes[q].recv]
       IN  processData' = IF idx < Len(processData)
                          THEN [processData EXCEPT ![idx + 1] = row]
                          ELSE Append(processData, row)
    /\ procIt' = procIt \ {q}
    /\ Goto("report", idx + 1)
    /\ UNCHANGED <<pids, processes, pidIt, before, osVars, devices, helperVars, capVars,
                   view, packetVars>>

\* The ACTION_UPDATE callback with the first processes.size() rows.
PublishRows ==
    /\ pc = "report" /\ (procIt = {} \/ "process" \notin cbs)
    /\ view' = IF "process" \in cbs
               THEN {processData[i] : i \in 1..Cardinality(tracked)} ELSE view
    /\ Goto("deliver", 0)
    /\ UNCHANGED <<mergeVars, osVars, devices, helperVars, capVars, processData, packetVars>>

\* The packet callback, with ret packets, is called in this state.
Delivers == pc = "deliver" /\ "packet" \in cbs /\ ret > 0 /\ packetData # <<>>

DeliverPackets ==
    /\ pc = "deliver"
    /\ Return
    /\ UNCHANGED <<pids, processes, osVars, devices, helperVars, capVars, outVars>>
-----------------------------------------------------------------------------
(* The environment                                                         *)

SystemStep ==
    /\ OsStep
    /\ UNCHANGED <<mergeVars, callVars, capVars, outVars>>

\* A frame passes an interface; every handle open on it that has room gets it.
FrameArrives(frame) ==
    /\ \E h \in 1..Len(handles) : handles[h] = frame.iface
    /\ wire + frame.len <= MaxBytes
    /\ wire' = wire + frame.len
    /\ ring' = [h \in 1..Len(handles) |->
                  IF handles[h] = frame.iface /\ Len(ring[h]) < RingSize
                  THEN Append(ring[h], frame) ELSE ring[h]]
    /\ UNCHANGED <<osVars, devices, helperVars, mergeVars, callVars, inits, cbs, handles,
                   leaked, outVars>>
-----------------------------------------------------------------------------
Init ==
    /\ OsInit
    /\ devices = <<>> /\ netToInodes = NoEntries /\ inodeToPids = NoEntries
    /\ refresh = "fds" /\ fdIt = {} /\ stable = {}
    /\ pids = {} /\ processes = [p \in {} |-> NewProcess]
    /\ pidIt = {} /\ procIt = {} /\ before = {}
    /\ pc = "idle" /\ op = "none" /\ cnt = 0 /\ idx = 0 /\ left = 0 /\ ret = 0
    /\ inits = 0 /\ cbs = {} /\ handles = <<>> /\ ring = <<>> /\ leaked = 0 /\ wire = 0
    /\ processData = <<>> /\ packetData = <<>> /\ packetIdx = 0
    /\ view = {} /\ round = <<>>

\* The library's own steps inside a call.
CallStep ==
    \/ NextDevice \/ DevicesDone \/ OpenDone \/ AdoptPids
    \/ \E outcome \in DOMAIN PcapAfter : OpenDevice(outcome)
    \/ \E opened \in BOOLEAN : GetCpuTotal(opened)
    \/ UpdatePids \/ RefreshMaps \/ RefreshDone
    \/ \E n \in 0..RingSize : Dispatch(n)
    \/ DispatchFails \/ HandlePacket \/ DispatchDone
    \/ \E q \in Pids : MergeErase(q) \/ MergeKeep(q) \/ CopyRow(q)
    \/ MergeDone \/ PublishRows \/ DeliverPackets

ClientStep ==
    \/ \E callbacks \in Callbacks : InitCall(callbacks)
    \/ \E c \in Counts : UpdateCall(c)

Next == CallStep \/ ClientStep \/ SystemStep \/ \E frame \in Frames : FrameArrives(frame)

Spec == Init /\ [][Next]_vars

\* A call runs on as long as it has something to do: each read of /proc that is
\* a step here is taken to return.
FairSpec == Spec /\ WF_vars(CallStep)

\* A client that also keeps calling CaptureUpdate.
PollingSpec == FairSpec /\ WF_vars(\E c \in Counts : UpdateCall(c))
-----------------------------------------------------------------------------
ProcessRow == [pid : Pids, send : Nat, recv : Nat]

Labels == {"idle", "ifaddrs", "open", "pids", "refresh", "adopt", "dispatch",
           "packets", "merge", "report", "deliver"}

CallTypeOK ==
    /\ pc \in Labels /\ op \in {"none", "init", "update"}
    /\ cnt \in Int /\ idx \in Nat /\ left \in Nat /\ ret \in Int

CapTypeOK ==
    /\ inits \in 0..MaxInits /\ cbs \in SUBSET {"process", "packet"}
    /\ handles \in Seq(STRING) /\ ring \in Seq(Seq(Frames)) /\ Len(ring) = Len(handles)
    /\ leaked \in Nat /\ wire \in Nat

PacketTypeOK ==
    /\ packetData \in Seq([hash : Key, family : {"P_TCP", "P_UDP"}, size : Nat])
    /\ round \in Seq([hash : Key, proto : {"tcp", "udp"}, size : Nat])
    /\ packetIdx \in Nat

RowTypeOK == processData \in Seq(ProcessRow) /\ view \in SUBSET ProcessRow

TypeOK ==
    /\ HelperTypeOK /\ devices \in Seq(Device)
    /\ MergeTypeOK /\ CallTypeOK /\ CapTypeOK /\ PacketTypeOK /\ RowTypeOK

\* The slots of packetData below packetIdx are exactly the packets attributed
\* in this Update, in order, whatever earlier rounds left in the buffer.  A UDP
\* packet may be marked P_TCP, a TCP packet is never marked P_UDP.
PacketPrefix ==
    /\ packetIdx = Len(round)
    /\ packetIdx <= Len(packetData)
    /\ \A i \in 1..packetIdx :
         /\ packetData[i].hash = round[i].hash /\ packetData[i].size = round[i].size
         /\ round[i].proto = "tcp" => packetData[i].family = "P_TCP"

\* Packets are only credited to processes of the listing that Refresh was given:
\* the owners never outlive the pids of their round.
OwnersListed == \A i \in DOMAIN inodeToPids : inodeToPids[i] \in pids

\* Inside Update, too, the loop ends with the reference set, although the table
\* has taken in processes since the listing.
MergeInUpdate == pc = "merge" => MergeResult /\ RemovalNeedsNewcomer

\* The engine keeps the promise of ProcessFeed: the client's view changes by
\* removals and by complete snapshots of the table only, and a counter is never
\* lost without an ACTION_REMOVE.
Feed == INSTANCE ProcessFeed WITH table <- processes, shown <- view,
                                  Lengths <- {frame.len : frame \in Frames}

RefinesFeed == Feed!FeedSpec

\* The counters of a process that stays in the table never go back, except in
\* a further CaptureInit, whose last loop tells nobody.
CountersKept ==
    [][op # "init" =>
         \A p \in tracked \cap tracked' :
             processes'[p].send >= processes[p].send /\ processes'[p].recv >= processes[p].recv]_vars

\* CaptureInit never clears devices, and each call opens all of them once more:
\* the k-th call opens up to k descriptors per usable interface, and the filters
\* that fail, whose descriptors are lost, do not add to that.
DescriptorsBounded ==
    LET usable == {i \in DOMAIN Interfaces :
                     Interfaces[i].family # "null" /\ UpRunning(Interfaces[i])}
    IN  2 * (Len(handles) + leaked) <= Cardinality(usable) * inits * (inits + 1)

\* The packet belongs to the connection of the row: the port of its local end and
\* the address and port of the other end are the row's, or read like them.
PacketOfRow(packet, row) ==
    IF IsOutgoing(packet)
    THEN /\ packet.sport = row.lport
         /\ \/ SamePeer(Ntop(packet.dst, 49), packet.dport, row)
            \/ GluedPeer(Ntop(packet.src, 49), Ntop(packet.dst, 49), packet.dport, row)
    ELSE /\ packet.dport = row.lport
         /\ \/ SamePeer(Ntop(packet.src, 49), packet.sport, row)
            \/ GluedPeer(Ntop(packet.dst, 49), Ntop(packet.src, 49), packet.sport, row)

\* A process is credited only for a packet of a socket that Refresh found in one
\* of the fd directories it read: one with the local port and the peer that the
\* decoded packet has, up to the IPv6 peers whose last group and port run
\* together; and the process is in the listing of this round.
CreditToOwner ==
    [][\A p \in tracked' :
         pc = "packets" /\ (p \in tracked => processes'[p] # processes[p]) =>
             \E i \in DOMAIN inodeToPids :
                 /\ inodeToPids[i] = p /\ p \in pids
                 /\ PacketOfRow(PacketOf(devices, Frame), Row[i])]_vars

\* How far a call is: the part it is in, the turns left in the loop of that
\* part, and the iterations left in the loop inside of a turn.
Part == [ifaddrs |-> 9, open |-> 8, pids |-> 7, refresh |-> 6, adopt |-> 5, dispatch |-> 4,
         packets |-> 4, merge |-> 3, report |-> 2, deliver |-> 1, idle |-> 0]

FilesLeft == [tcp |-> 4, tcp6 |-> 3, udp |-> 2, udp6 |-> 1, fds |-> 0, error |-> 0]

Turns ==
    CASE pc = "ifaddrs" -> Len(Interfaces) - idx
      [] pc = "open" -> Len(devices) - idx
      [] pc = "refresh" -> FilesLeft[refresh]
      [] pc \in {"dispatch", "packets"} -> Len(handles) - idx
      [] pc \in {"merge", "report"} -> Cardinality(procIt)
      [] OTHER -> 0

Inner ==
    CASE pc = "refresh" -> Cardinality(fdIt)
      [] pc = "dispatch" -> RingSize + 1
      [] pc = "packets" -> left
      [] OTHER -> 0

Closer ==
    \/ Part[pc'] < Part[pc]
    \/ Part[pc'] = Part[pc] /\ Turns' < Turns
    \/ Part[pc'] = Part[pc] /\ Turns' = Turns /\ Inner' < Inner

\* Every step of a call brings it closer to its return, in a measure that cannot
\* fall for ever, and nothing that processes or the network do takes it back.
CallAdvances ==
    [][/\ CallStep => Closer /\ Turns' \in Nat /\ Inner' \in Nat
       /\ pc # "idle" => Closer \/ UNCHANGED <<pc, Turns, Inner>>]_vars

\* A call that runs can always go on, whatever exits, failures and frames it has
\* met: with CallAdvances, every call of CaptureInit and CaptureUpdate returns,
\* provided that each of the reads it makes does.
NeverStuck == pc # "idle" => ENABLED CallStep

\* The comment above the loop of Update: what it deletes are killed processes.
OnlyKilledRemoved == pc = "merge" => RemovedAreKilled

\* The same comment: a process that is gone is deleted, there being no need to
\* monitor it any longer.
KilledRemoved == \A p \in Pids : <>[](p \notin alive) => <>[](p \notin tracked)

\* The packet callback reads *size packets: those of this round.
DeliversRound == Delivers => ret = packetIdx
=============================================================================
