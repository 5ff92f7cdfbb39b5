-------------------------- MODULE CaptureCxxProofs --------------------------
(***************************************************************************)
(* Invariants of the capture engine, for every number of processes,        *)
(* sockets, interfaces and frames.                                         *)
(***************************************************************************)
EXTENDS CaptureCxx, PidMergeProofs, CapInodeHelperProofs, FiniteSetTheorems

(***************************************************************************)
(* Which steps touch which part of the state.                              *)
(***************************************************************************)
\* The helper's maps and the devices change in four kinds of step.
LEMMA HelperFrame ==
    ASSUME [Next]_vars
    PROVE  \/ SystemStep \/ UpdatePids \/ RefreshMaps \/ NextDevice
           \/ UNCHANGED <<osVars, devices, helperVars>>
  BY DEF Next, CallStep, ClientStep, vars, InitCall, DevicesDone, OpenDevice, OpenDone,
         AdoptPids, RefreshDone, UpdateCall, Dispatch, DispatchFails, HandlePacket,
         DispatchDone, GetCpuTotal, MergeErase, MergeKeep, MergeDone, CopyRow,
         PublishRows, DeliverPackets, FrameArrives

\* The packet buffer is reset by UpdateCall and filled by HandlePacket.
LEMMA PacketFrame ==
    ASSUME [Next]_vars
    PROVE  HandlePacket \/ (\E c \in Counts : UpdateCall(c)) \/ UNCHANGED packetVars
  BY DEF Next, CallStep, ClientStep, vars, InitCall, NextDevice, DevicesDone, OpenDevice,
         OpenDone, AdoptPids, UpdatePids, RefreshMaps, RefreshDone, Dispatch,
         DispatchFails, DispatchDone, GetCpuTotal, MergeErase, MergeKeep, MergeDone,
         CopyRow, PublishRows, DeliverPackets, SystemStep, FrameArrives, outVars

\* Handles and rings change in four kinds of step.
LEMMA CapFrame ==
    ASSUME [Next]_vars
    PROVE  \/ \E callbacks \in Callbacks : InitCall(callbacks)
           \/ \E outcome \in DOMAIN PcapAfter : OpenDevice(outcome)
           \/ HandlePacket
           \/ \E frame \in Frames : FrameArrives(frame)
           \/ UNCHANGED capVars
  BY DEF Next, CallStep, ClientStep, vars, NextDevice, DevicesDone,
         OpenDone, AdoptPids, UpdatePids, RefreshMaps, RefreshDone, UpdateCall, Dispatch,
         DispatchFails, DispatchDone, GetCpuTotal, MergeErase, MergeKeep, MergeDone,
         CopyRow, PublishRows, DeliverPackets, SystemStep

\* The rows of the report change in four kinds of step.
LEMMA RowFrame ==
    ASSUME [Next]_vars
    PROVE  \/ \E callbacks \in Callbacks : InitCall(callbacks)
           \/ \E q \in Pids : MergeErase(q) \/ CopyRow(q)
           \/ PublishRows
           \/ UNCHANGED <<processData, view>>
  BY DEF Next, CallStep, ClientStep, vars, NextDevice, DevicesDone, OpenDevice, OpenDone,
         AdoptPids, UpdatePids, RefreshMaps, RefreshDone, UpdateCall, Dispatch,
         DispatchFails, HandlePacket, DispatchDone, GetCpuTotal, MergeKeep, MergeDone,
         DeliverPackets, SystemStep, FrameArrives, outVars

\* The table changes when processes are adopted, credited or erased.
LEMMA TableFrame ==
    ASSUME [Next]_vars
    PROVE  \/ AdoptPids \/ HandlePacket
           \/ \E q \in Pids : MergeErase(q)
           \/ UNCHANGED processes
  BY DEF Next, CallStep, ClientStep, vars, InitCall, NextDevice, DevicesDone, OpenDevice,
         OpenDone, UpdatePids, RefreshMaps, RefreshDone, UpdateCall, Dispatch,
         DispatchFails, DispatchDone, GetCpuTotal, MergeKeep, Keep, MergeDone, CopyRow,
         PublishRows, DeliverPackets, SystemStep, FrameArrives, mergeVars
-----------------------------------------------------------------------------
(* Types                                                                   *)

\* Overwriting an element of a sequence.
LEMMA SeqUpdate ==
    ASSUME NEW S, NEW s \in Seq(S), NEW i \in 1..Len(s), NEW e \in S
    PROVE  LET t == [s EXCEPT ![i] = e]
           IN  t \in Seq(S) /\ Len(t) = Len(s) /\ t[i] = e
                 /\ \A j \in 1..Len(s) : j # i => t[j] = s[j]
  OBVIOUS

\* Appending an element to a sequence.
LEMMA SeqAppend ==
    ASSUME NEW S, NEW s \in Seq(S), NEW e \in S
    PROVE  LET t == Append(s, e)
           IN  t \in Seq(S) /\ Len(t) = Len(s) + 1 /\ t[Len(s) + 1] = e
                 /\ \A j \in 1..Len(s) : t[j] = s[j]
  OBVIOUS

\* A frame of the instance decodes to a packet with well-formed keys.
LEMMA PacketType ==
    ASSUME NEW frame \in Frames
    PROVE  LET packet == PacketOf(devices, frame)
           IN  /\ Link(packet) \in Key /\ Hash(packet) \in Key
               /\ packet.len \in Nat /\ IsOutgoing(packet) \in BOOLEAN
               /\ packet.len = frame.len
  <1>1. frame \in FrameType
    BY EngineAssumption
  <1>2. \A a \in Addr, n \in Nat : Ntop(a, n) \in Text
    BY DEF Ntop, Addr, Text, NoText
  <1> QED
    BY <1>1, <1>2 DEF PacketOf, NewPacket, Link, Hash, IsOutgoing, KeyText, Key, FrameType, Ports

\* A pid that GetPidByIp finds is a pid, and one of this round's owners.
LEMMA FoundPid ==
    ASSUME HelperTypeOK, NEW key, Found(key)
    PROVE  /\ PidByIp(key) \in Pids
           /\ \E i \in DOMAIN inodeToPids : PidByIp(key) = inodeToPids[i]
  BY DEF HelperTypeOK, Found, PidByIp

\* The frame at the head of the ring is a frame of the instance.
LEMMA HeadFrame ==
    ASSUME CapTypeOK, idx \in Nat, idx < Len(handles), ring[idx + 1] # <<>>
    PROVE  Frame \in Frames /\ Tail(ring[idx + 1]) \in Seq(Frames)
  <1>1. ring[idx + 1] \in Seq(Frames)
    BY DEF CapTypeOK
  <1> QED
    BY <1>1 DEF Frame

\* AddPacket keeps the counters natural numbers.
LEMMA AddPacketType ==
    ASSUME NEW r \in Process, NEW o \in BOOLEAN, NEW n \in Nat
    PROVE  AddPacket(r, o, n) \in Process
  BY DEF AddPacket, Process
-----------------------------------------------------------------------------
(***************************************************************************)
(* The inductive invariant.  Besides the types it says that a dispatch     *)
(* never takes more than the ring holds, that the owners in the map come   *)
(* from the listing, that the loop over pids and processes is in one of    *)
(* its own states, and that the rows copied so far are those of the        *)
(* processes the iterator has passed.  Without the last part the callback  *)
(* could read rows that were never written.                                *)
(***************************************************************************)
DispatchInv == pc = "packets" => idx < Len(handles) /\ left <= Len(ring[idx + 1])

OwnerInv == fdIt \subseteq pids /\ OwnersListed

LoopInv == pc = "merge" => MergeInv

ProcessRowOf(p) == [pid |-> p, send |-> processes[p].send, recv |-> processes[p].recv]

ReportInv ==
    pc = "report" /\ "process" \in cbs =>
        /\ procIt \subseteq tracked
        /\ idx + Cardinality(procIt) = Cardinality(tracked)
        /\ idx <= Len(processData)
        /\ {processData[i] : i \in 1..idx} = {ProcessRowOf(p) : p \in tracked \ procIt}

IndInv == TypeOK /\ DispatchInv /\ PacketPrefix /\ OwnerInv /\ LoopInv /\ ReportInv

\* The helper's part of the types.
LEMMA HelperTypeNext ==
    ASSUME TypeOK, [Next]_vars
    PROVE  HelperTypeOK' /\ (devices \in Seq(Device))'
  <1> USE DEF TypeOK
  <1>1. CASE SystemStep
    <2>1. OsTypeOK' /\ stable' \subseteq stable
      BY <1>1, OsTypeStep DEF SystemStep, OsStep, HelperTypeOK
    <2> QED
      BY <1>1, <2>1 DEF SystemStep, OsStep, HelperTypeOK
  <1>2. CASE UpdatePids
    <2>1. pids' \in SUBSET Pids
      BY <1>2 DEF UpdatePids, HelperTypeOK, OsTypeOK
    <2> QED
      BY <1>2, <2>1, HelperTypeBegin DEF UpdatePids
  <1>3. CASE RefreshMaps
    BY <1>3, HelperTypeRefresh DEF RefreshMaps
  <1>4. CASE NextDevice
    <2>1. (devices \in Seq(Device))'
      BY <1>4, EngineAssumption DEF NextDevice, CallTypeOK
    <2> QED
      BY <1>4, <2>1 DEF NextDevice, helperVars, osVars, HelperTypeOK, OsTypeOK
  <1>5. CASE UNCHANGED <<osVars, devices, helperVars>>
    BY <1>5 DEF helperVars, osVars, HelperTypeOK, OsTypeOK
  <1> QED
    BY <1>1, <1>2, <1>3, <1>4, <1>5, HelperFrame

\* The locals of a call.
LEMMA CallTypeNext ==
    ASSUME TypeOK, [Next]_vars
    PROVE  CallTypeOK'
  <1>1. CASE UNCHANGED callVars
    BY <1>1 DEF TypeOK, CallTypeOK, callVars
  <1>2. CASE ClientStep
    BY <1>2, EngineAssumption DEF TypeOK, CallTypeOK, ClientStep, InitCall, UpdateCall, Labels
  <1>3. CASE Return
    BY <1>3 DEF CallTypeOK, Return, Labels
  <1>4. ASSUME NEW l \in Labels, NEW i \in Nat, Goto(l, i) PROVE CallTypeOK'
    BY <1>4 DEF TypeOK, CallTypeOK, Goto
  <1>5. ASSUME NEW n \in 0..RingSize, Dispatch(n) PROVE CallTypeOK'
    BY <1>5, EngineAssumption DEF TypeOK, CallTypeOK, Dispatch, Labels
  <1>6. CASE DispatchFails
    BY <1>6 DEF TypeOK, CallTypeOK, DispatchFails
  <1>7. CASE HandlePacket
    BY <1>7 DEF TypeOK, CallTypeOK, HandlePacket
  <1>8. idx \in Nat
    BY DEF TypeOK, CallTypeOK
  <1>9. CASE CallStep
    <2> USE <1>3, <1>4, <1>8 DEF Labels
    <2>1. CASE NextDevice \/ DevicesDone \/ OpenDone \/ AdoptPids \/ UpdatePids \/ RefreshDone
      BY <2>1 DEF NextDevice, DevicesDone, OpenDone, AdoptPids, UpdatePids, RefreshDone
    <2>2. CASE \/ \E outcome \in DOMAIN PcapAfter : OpenDevice(outcome)
               \/ \E opened \in BOOLEAN : GetCpuTotal(opened)
      BY <2>2 DEF OpenDevice, GetCpuTotal
    <2>3. CASE RefreshMaps
      BY <1>1, <2>3 DEF RefreshMaps
    <2>4. CASE DispatchDone \/ MergeDone \/ PublishRows \/ DeliverPackets
      BY <2>4 DEF DispatchDone, MergeDone, PublishRows, DeliverPackets
    <2>5. ASSUME NEW q \in Pids, MergeErase(q) \/ MergeKeep(q) \/ CopyRow(q)
          PROVE  CallTypeOK'
      BY <1>1, <2>5 DEF MergeErase, MergeKeep, CopyRow
    <2> QED
      BY <1>5, <1>6, <1>7, <1>9, <2>1, <2>2, <2>3, <2>4, <2>5 DEF CallStep
  <1>10. CASE SystemStep \/ \E frame \in Frames : FrameArrives(frame)
    BY <1>1, <1>10 DEF SystemStep, FrameArrives
  <1>11. CASE UNCHANGED vars
    BY <1>1, <1>11 DEF vars
  <1> QED
    BY <1>2, <1>9, <1>10, <1>11 DEF Next

\* Handles, rings and callbacks.
LEMMA CapTypeNext ==
    ASSUME TypeOK, DispatchInv, [Next]_vars
    PROVE  CapTypeOK'
  <1> USE EngineAssumption DEF TypeOK, CapTypeOK, CallTypeOK
  <1>1. ASSUME NEW callbacks \in Callbacks, InitCall(callbacks) PROVE CapTypeOK'
    BY <1>1 DEF InitCall
  <1>2. ASSUME NEW outcome, OpenDevice(outcome) PROVE CapTypeOK'
    <2>1. idx + 1 \in 1..Len(devices)
      BY <1>2 DEF OpenDevice
    <2>2. devices[idx + 1] \in Device
      BY <2>1
    <2>3. devices[idx + 1].name \in STRING
      BY <2>2 DEF Device
    <2>4. /\ Append(handles, devices[idx + 1].name) \in Seq(STRING)
          /\ Len(Append(handles, devices[idx + 1].name)) = Len(handles) + 1
      BY <2>3, SeqAppend
    <2>5. Append(ring, <<>>) \in Seq(Seq(Frames)) /\ Len(Append(ring, <<>>)) = Len(ring) + 1
      <3>1. <<>> \in Seq(Frames)
        OBVIOUS
      <3> QED
        BY <3>1, SeqAppend
    <2>6. leaked' \in Nat
      BY <1>2 DEF OpenDevice
    <2>7. CASE PcapAfter[outcome] = "kept"
      BY <1>2, <2>4, <2>5, <2>6, <2>7 DEF OpenDevice
    <2>8. CASE PcapAfter[outcome] # "kept"
      BY <1>2, <2>6, <2>8 DEF OpenDevice
    <2> QED BY <2>7, <2>8
  <1>3. CASE HandlePacket
    <2>1. Tail(ring[idx + 1]) \in Seq(Frames)
      BY <1>3, HeadFrame DEF HandlePacket, DispatchInv
    <2>2. idx + 1 \in 1..Len(ring)
      BY <1>3 DEF HandlePacket, DispatchInv
    <2>3. ring' \in Seq(Seq(Frames)) /\ Len(ring') = Len(ring)
      BY <1>3, <2>1, <2>2, SeqUpdate DEF HandlePacket
    <2> QED
      BY <1>3, <2>3 DEF HandlePacket
  <1>4. ASSUME NEW frame \in Frames, FrameArrives(frame) PROVE CapTypeOK'
    <2>1. ring' \in Seq(Seq(Frames)) /\ Len(ring') = Len(handles)
      <3>1. \A h \in 1..Len(handles) : ring[h] \in Seq(Frames)
        OBVIOUS
      <3>2. \A h \in 1..Len(handles) :
              (IF handles[h] = frame.iface /\ Len(ring[h]) < RingSize
               THEN Append(ring[h], frame) ELSE ring[h]) \in Seq(Frames)
        BY <3>1
      <3>3. Len(handles) \in Nat
        OBVIOUS
      <3> QED
        BY <1>4, <3>2, <3>3 DEF FrameArrives
    <2>2. wire' \in Nat
      BY <1>4 DEF FrameArrives, FrameType
    <2> QED
      BY <1>4, <2>1, <2>2 DEF FrameArrives
  <1>5. CASE UNCHANGED capVars
    BY <1>5 DEF capVars
  <1> QED
    BY <1>1, <1>2, <1>3, <1>4, <1>5, CapFrame

\* A dispatch never takes more frames than the ring holds.
LEMMA DispatchInvNext ==
    ASSUME TypeOK, DispatchInv, [Next]_vars
    PROVE  DispatchInv'
  <1> SUFFICES ASSUME pc' = "packets"
               PROVE  (idx < Len(handles) /\ left <= Len(ring[idx + 1]))'
    BY DEF DispatchInv
  <1> USE DEF TypeOK, CallTypeOK, CapTypeOK
  <1>1. \/ \E n \in 0..RingSize : Dispatch(n)
        \/ HandlePacket
        \/ \E frame \in Frames : FrameArrives(frame)
        \/ pc = "packets" /\ UNCHANGED <<idx, left, handles, ring>>
    BY DEF Next, CallStep, ClientStep, vars, callVars, capVars, InitCall, NextDevice,
           DevicesDone, OpenDevice, OpenDone, AdoptPids, UpdatePids, RefreshMaps,
           RefreshDone, UpdateCall, DispatchFails, DispatchDone, GetCpuTotal, MergeErase,
           MergeKeep, MergeDone, CopyRow, PublishRows, DeliverPackets, SystemStep,
           Goto, Return
  <1>2. ASSUME NEW n \in 0..RingSize, Dispatch(n)
        PROVE  (idx < Len(handles) /\ left <= Len(ring[idx + 1]))'
    BY <1>2 DEF Dispatch, capVars
  <1>3. CASE HandlePacket
    <2>1. idx < Len(handles) /\ left <= Len(ring[idx + 1]) /\ left > 0
      BY <1>3 DEF HandlePacket, DispatchInv
    <2>2. ring[idx + 1] \in Seq(Frames) /\ idx + 1 \in 1..Len(ring)
      BY <2>1
    <2>3. ring'[idx + 1] = Tail(ring[idx + 1])
      BY <1>3, <2>2 DEF HandlePacket
    <2>4. Len(Tail(ring[idx + 1])) = Len(ring[idx + 1]) - 1
      BY <2>1, <2>2
    <2> QED
      BY <1>3, <2>1, <2>3, <2>4 DEF HandlePacket
  <1>4. ASSUME NEW frame \in Frames, FrameArrives(frame)
        PROVE  (idx < Len(handles) /\ left <= Len(ring[idx + 1]))'
    <2>1. pc = "packets" /\ UNCHANGED <<idx, left, handles>>
      BY <1>4 DEF FrameArrives, callVars
    <2>2. idx + 1 \in 1..Len(handles) /\ left <= Len(ring[idx + 1]) /\ ring[idx + 1] \in Seq(Frames)
      BY <2>1 DEF DispatchInv
    <2>3. Len(ring'[idx + 1]) >= Len(ring[idx + 1])
      BY <1>4, <2>2 DEF FrameArrives
    <2>4. ring'[idx + 1] \in Seq(Frames)
      BY <1>4, <2>2 DEF FrameArrives
    <2> QED
      BY <2>1, <2>2, <2>3, <2>4
  <1>5. CASE pc = "packets" /\ UNCHANGED <<idx, left, handles, ring>>
    BY <1>5 DEF DispatchInv
  <1> QED
    BY <1>1, <1>2, <1>3, <1>4, <1>5

\* The packet buffer: its types, and the prefix that belongs to this round.
LEMMA PacketNext ==
    ASSUME TypeOK, DispatchInv, PacketPrefix, [Next]_vars
    PROVE  PacketTypeOK' /\ PacketPrefix'
  <1> USE DEF TypeOK, PacketTypeOK
  <1>1. CASE HandlePacket
    <2>1. CASE UNCHANGED packetVars
      BY <2>1 DEF packetVars, PacketPrefix
    <2>2. CASE Attributed(Frame) /\ StorePacket(PacketOf(devices, Frame), Frame.proto)
      <3> DEFINE packet == PacketOf(devices, Frame)
                 slot == [hash |-> Link(packet),
                          family |-> SlotFamily(Frame.proto, packetIdx < Len(packetData)),
                          size |-> packet.len]
                 entry == [hash |-> Link(packet), proto |-> Frame.proto, size |-> packet.len]
                 Slots == [hash : Key, family : {"P_TCP", "P_UDP"}, size : Nat]
                 Entries == [hash : Key, proto : {"tcp", "udp"}, size : Nat]
      <3>1. ring[idx + 1] # <<>> /\ idx < Len(handles)
        <4>1. idx < Len(handles) /\ left <= Len(ring[idx + 1]) /\ left > 0
          BY <1>1 DEF HandlePacket, DispatchInv
        <4> QED
          BY <4>1 DEF CallTypeOK
      <3>2. Frame \in Frames
        BY <3>1, HeadFrame DEF CallTypeOK
      <3>3. Link(packet) \in Key /\ packet.len \in Nat
        BY <3>2, PacketType
      <3>4. Frame.proto \in {"tcp", "udp"}
        BY <2>2 DEF Attributed, Supported
      <3>5. entry \in Entries /\ slot \in Slots
        BY <3>3, <3>4 DEF SlotFamily
      <3>6. /\ slot.hash = entry.hash /\ slot.size = entry.size
            /\ entry.proto = "tcp" => slot.family = "P_TCP"
        BY DEF SlotFamily
      <3>7. /\ round' = Append(round, entry) /\ packetIdx' = packetIdx + 1
            /\ packetData' = IF packetIdx < Len(packetData)
                             THEN [packetData EXCEPT ![packetIdx + 1] = slot]
                             ELSE Append(packetData, slot)
        BY <2>2 DEF StorePacket
      <3>8. packetData \in Seq(Slots) /\ round \in Seq(Entries) /\ packetIdx \in Nat
        OBVIOUS
      <3> HIDE DEF slot, entry, packet, Slots, Entries, PacketTypeOK, TypeOK
      <3>9. round' \in Seq(Entries) /\ Len(round') = Len(round) + 1
              /\ round'[Len(round) + 1] = entry
              /\ \A j \in 1..Len(round) : round'[j] = round[j]
        BY <3>5, <3>7, <3>8, SeqAppend
      <3>10. packetData' \in Seq(Slots) /\ Len(packetData') >= packetIdx + 1
              /\ packetData'[packetIdx + 1] = slot
              /\ \A j \in 1..packetIdx : packetData'[j] = packetData[j]
        <4>1. packetIdx <= Len(packetData) /\ Len(packetData) \in Nat
          BY <3>8 DEF PacketPrefix
        <4>2. CASE packetIdx < Len(packetData)
          <5>1. packetIdx + 1 \in 1..Len(packetData)
            BY <3>8, <4>1, <4>2
          <5> QED
            BY <3>5, <3>7, <3>8, <4>1, <4>2, <5>1
        <4>3. CASE ~(packetIdx < Len(packetData))
          <5>1. packetIdx = Len(packetData) /\ packetData' = Append(packetData, slot)
            BY <3>7, <3>8, <4>1, <4>3
          <5> QED
            BY <3>5, <3>8, <5>1
        <4> QED
          BY <4>2, <4>3
      <3>11. PacketPrefix'
        <4>1. packetIdx' = Len(round') /\ packetIdx' <= Len(packetData')
          BY <3>7, <3>8, <3>9, <3>10 DEF PacketPrefix
        <4>2. ASSUME NEW i \in 1..packetIdx'
              PROVE  /\ packetData'[i].hash = round'[i].hash /\ packetData'[i].size = round'[i].size
                     /\ round'[i].proto = "tcp" => packetData'[i].family = "P_TCP"
          <5>1. CASE i = packetIdx + 1
            BY <3>6, <3>9, <3>10, <5>1 DEF PacketPrefix
          <5>2. CASE i \in 1..packetIdx
            <6>1. packetData'[i] = packetData[i] /\ round'[i] = round[i]
              BY <3>9, <3>10, <5>2 DEF PacketPrefix
            <6> QED
              BY <5>2, <6>1 DEF PacketPrefix
          <5>3. packetIdx' = packetIdx + 1
            BY <3>7
          <5>4. i = packetIdx + 1 \/ i \in 1..packetIdx
            BY <3>8, <5>3
          <5> QED
            BY <5>1, <5>2, <5>4
        <4> QED
          BY <4>1, <4>2 DEF PacketPrefix
      <3> QED
        BY <3>7, <3>8, <3>9, <3>10, <3>11 DEF PacketTypeOK, Slots, Entries
    <2> QED
      BY <1>1, <2>1, <2>2 DEF HandlePacket, packetVars
  <1>2. ASSUME NEW c \in Counts, UpdateCall(c) PROVE PacketTypeOK' /\ PacketPrefix'
    BY <1>2 DEF UpdateCall, PacketPrefix
  <1>3. CASE UNCHANGED packetVars
    BY <1>3 DEF packetVars, PacketPrefix
  <1> QED
    BY <1>1, <1>2, <1>3, PacketFrame

\* The owners and the descriptors still to be read stay within the listing.
LEMMA OwnerInvNext ==
    ASSUME TypeOK, OwnerInv, [Next]_vars
    PROVE  OwnerInv'
  <1> USE DEF OwnerInv, OwnersListed
  <1>1. CASE UpdatePids
    BY <1>1 DEF UpdatePids, RefreshBegin, NoEntries
  <1>2. CASE RefreshMaps
    <2>1. pids' = pids
      BY <1>2 DEF RefreshMaps, mergeVars
    <2>2. ASSUME NEW p \in Pids, ScanPid(p) PROVE OwnerInv'
      <3>1. p \in pids
        BY <2>2 DEF ScanPid, PointsTo
      <3> QED
        BY <2>1, <2>2, <3>1 DEF ScanPid
    <2>3. CASE ParseFile \/ ParseFails \/ \E p \in Pids : ScanFails(p)
      BY <2>1, <2>3 DEF ParseFile, ParseFails, ScanFails
    <2> QED
      BY <1>2, <2>2, <2>3 DEF RefreshMaps, RefreshStep
  <1>3. \/ UpdatePids \/ RefreshMaps \/ UNCHANGED <<pids, fdIt, inodeToPids>>
    BY DEF Next, CallStep, ClientStep, vars, helperVars, mergeVars, OsStep, InitCall,
           NextDevice, DevicesDone, OpenDevice, OpenDone, AdoptPids, RefreshDone, UpdateCall,
           Dispatch, DispatchFails, HandlePacket, DispatchDone, GetCpuTotal, MergeErase,
           Erase, MergeKeep, Keep, MergeDone, CopyRow, PublishRows, DeliverPackets,
           SystemStep, FrameArrives, Return
  <1> QED
    BY <1>1, <1>2, <1>3

\* The containers and iterators of the reconciliation loop.
LEMMA MergeTypeNext ==
    ASSUME TypeOK, DispatchInv, [Next]_vars
    PROVE  MergeTypeOK'
  <1> USE DEF TypeOK
  <1>1. CASE AdoptPids
    <2>1. tracked' = tracked \cup pids
      BY <1>1 DEF AdoptPids, tracked
    <2>2. NewProcess \in Process
      BY DEF NewProcess, Process
    <2>3. processes' \in [tracked' -> Process]
      BY <1>1, <2>1, <2>2 DEF AdoptPids, MergeTypeOK
    <2> QED
      BY <1>1, <2>1, <2>3 DEF AdoptPids, Return, MergeTypeOK
  <1>2. CASE HandlePacket
    <2>1. CASE UNCHANGED processes
      BY <1>2, <2>1 DEF HandlePacket, MergeTypeOK, tracked
    <2>2. CASE Attributed(Frame) /\ CreditProcess(PidByIp(Hash(PacketOf(devices, Frame))),
                                                  PacketOf(devices, Frame))
      <3> DEFINE packet == PacketOf(devices, Frame)
                 pid == PidByIp(Hash(packet))
                 old == IF pid \in tracked THEN processes[pid] ELSE NewProcess
                 new == AddPacket(old, IsOutgoing(packet), packet.len)
      <3>1. ring[idx + 1] # <<>> /\ idx < Len(handles)
        <4>1. idx < Len(handles) /\ left <= Len(ring[idx + 1]) /\ left > 0
          BY <1>2 DEF HandlePacket, DispatchInv
        <4> QED
          BY <4>1 DEF CallTypeOK
      <3>2. Frame \in Frames
        BY <3>1, HeadFrame DEF CallTypeOK
      <3>3. packet.len \in Nat /\ IsOutgoing(packet) \in BOOLEAN
        BY <3>2, PacketType
      <3>4. pid \in Pids
        BY <2>2, FoundPid DEF Attributed
      <3>5. old \in Process
        BY DEF MergeTypeOK, NewProcess, Process
      <3>6. new \in Process
        BY <3>3, <3>5, AddPacketType
      <3>7. processes' = [q \in tracked \cup {pid} |-> IF q # pid THEN processes[q] ELSE new]
        BY <2>2 DEF CreditProcess
      <3> HIDE DEF new, old, pid, packet
      <3>8. tracked' = tracked \cup {pid}
        BY <3>7 DEF tracked
      <3>9. processes' \in [tracked' -> Process]
        BY <3>6, <3>7, <3>8 DEF MergeTypeOK
      <3> QED
        BY <1>2, <3>4, <3>8, <3>9 DEF HandlePacket, MergeTypeOK
    <2> QED
      BY <1>2, <2>1, <2>2 DEF HandlePacket
  <1>3. ASSUME NEW q \in Pids, MergeErase(q) PROVE MergeTypeOK'
    <2>1. tracked' = tracked \ {q}
      BY <1>3 DEF MergeErase, Erase, tracked
    <2> QED
      BY <1>3, <2>1 DEF MergeErase, Erase, MergeTypeOK
  <1>4. CASE UNCHANGED processes
    <2>1. pids' \in SUBSET Pids
      BY DEF MergeTypeOK, Next, CallStep, ClientStep, vars, mergeVars, InitCall,
         NextDevice, DevicesDone, OpenDevice, OpenDone, AdoptPids, UpdatePids, RefreshMaps,
         RefreshDone, UpdateCall, Dispatch, DispatchFails, HandlePacket, DispatchDone,
         GetCpuTotal, MergeErase, Erase, MergeKeep, Keep, MergeDone, CopyRow, PublishRows,
         DeliverPackets, SystemStep, FrameArrives, HelperTypeOK, OsTypeOK
    <2>2. /\ pidIt' \subseteq pidIt \cup pids
          /\ procIt' \subseteq procIt \cup tracked
          /\ before' \subseteq before \cup tracked
      BY DEF Next, CallStep, ClientStep, vars, mergeVars, InitCall,
         NextDevice, DevicesDone, OpenDevice, OpenDone, AdoptPids, UpdatePids, RefreshMaps,
         RefreshDone, UpdateCall, Dispatch, DispatchFails, HandlePacket, DispatchDone,
         GetCpuTotal, MergeErase, Erase, MergeKeep, Keep, MergeDone, CopyRow, PublishRows,
         DeliverPackets, SystemStep, FrameArrives, Return
    <2> QED
      BY <1>4, <2>1, <2>2 DEF MergeTypeOK, tracked
  <1> QED
    BY <1>1, <1>2, <1>3, <1>4, TableFrame

\* The loop is entered with fresh iterators and only its own steps move them.
LEMMA LoopInvNext ==
    ASSUME TypeOK, LoopInv, [Next]_vars
    PROVE  LoopInv'
  <1> SUFFICES ASSUME pc' = "merge" PROVE MergeInv'
    BY DEF LoopInv
  <1>1. \/ \E opened \in BOOLEAN : GetCpuTotal(opened)
        \/ \E q \in Pids : MergeErase(q) \/ MergeKeep(q)
        \/ pc = "merge" /\ UNCHANGED mergeVars
    BY DEF Next, CallStep, ClientStep, vars, callVars, InitCall, NextDevice, DevicesDone,
           OpenDevice, OpenDone, AdoptPids, UpdatePids, RefreshMaps, RefreshDone, UpdateCall,
           Dispatch, DispatchFails, HandlePacket, DispatchDone, MergeDone, CopyRow,
           PublishRows, DeliverPackets, SystemStep, FrameArrives, Goto, Return
  <1>2. ASSUME NEW opened \in BOOLEAN, GetCpuTotal(opened) PROVE MergeInv'
    <2>1. pidIt' = pids /\ procIt' = tracked /\ before' = tracked /\ UNCHANGED <<pids, processes>>
      BY <1>2 DEF GetCpuTotal, Return
    <2> QED
      BY <2>1 DEF TypeOK, MergeTypeOK, MergeInv, IterInv, MatchInv, ErasedInv, matched, tracked
  <1>3. ASSUME NEW q \in Pids, MergeErase(q) \/ MergeKeep(q) PROVE MergeInv'
    BY <1>3, MergeInvStep DEF MergeErase, MergeKeep, MergeNext, LoopInv
  <1>4. CASE pc = "merge" /\ UNCHANGED mergeVars
    BY <1>4, MergeInvStep DEF LoopInv
  <1> QED
    BY <1>1, <1>2, <1>3, <1>4

\* Sets of tracked pids are finite.
LEMMA TrackedFinite ==
    ASSUME MergeTypeOK, NEW S \in SUBSET tracked
    PROVE  IsFiniteSet(S) /\ Cardinality(S) \in Nat
  <1>1. IsFiniteSet(tracked)
    BY EngineAssumption, FS_Subset DEF MergeTypeOK
  <1>2. IsFiniteSet(S)
    BY <1>1, FS_Subset
  <1> QED
    BY <1>2, FS_CardinalityType

\* A report starts with nothing copied and all of the table ahead.
LEMMA ReportStart ==
    ASSUME TypeOK, idx' = 0, procIt' = tracked, UNCHANGED <<processes, processData>>
    PROVE  ReportInv'
  <1>1. tracked' = tracked /\ \A p : ProcessRowOf(p)' = ProcessRowOf(p)
    BY DEF tracked, ProcessRowOf
  <1>2. Cardinality(tracked) \in Nat
    BY TrackedFinite DEF TypeOK
  <1>3. Len(processData) \in Nat
    BY DEF TypeOK, RowTypeOK
  <1>4. {processData'[i] : i \in 1..idx'} = {} /\ {ProcessRowOf(p)' : p \in tracked' \ procIt'} = {}
    BY <1>1
  <1> QED
    BY <1>1, <1>2, <1>3, <1>4 DEF ReportInv

\* Copying a row: the rows written so far are those of the processes passed,
\* in slots that were reused or appended.
LEMMA ReportCopy ==
    ASSUME TypeOK, ReportInv, NEW q \in Pids, CopyRow(q)
    PROVE  ReportInv' /\ RowTypeOK'
  <1> DEFINE row == ProcessRowOf(q)
  <1> USE DEF TypeOK, RowTypeOK, CallTypeOK
  <1>1. /\ q \in procIt /\ procIt \subseteq tracked
        /\ idx + Cardinality(procIt) = Cardinality(tracked)
        /\ idx \in Nat /\ idx <= Len(processData)
        /\ {processData[i] : i \in 1..idx} = {ProcessRowOf(p) : p \in tracked \ procIt}
    BY DEF CopyRow, ReportInv, PointsTo
  <1>2. /\ idx' = idx + 1 /\ procIt' = procIt \ {q}
        /\ UNCHANGED <<processes, view, cbs>>
        /\ processData' = IF idx < Len(processData)
                          THEN [processData EXCEPT ![idx + 1] = row]
                          ELSE Append(processData, row)
    BY DEF CopyRow, Goto, ProcessRowOf, capVars
  <1>3. tracked' = tracked /\ \A p : ProcessRowOf(p)' = ProcessRowOf(p)
    BY <1>2 DEF tracked, ProcessRowOf
  <1>4. row \in ProcessRow
    BY <1>1 DEF ProcessRowOf, ProcessRow, MergeTypeOK, Process
  <1>5. idx' + Cardinality(procIt') = Cardinality(tracked')
    <2>1. IsFiniteSet(procIt) /\ Cardinality(procIt) \in Nat /\ Cardinality(tracked) \in Nat
      BY <1>1, TrackedFinite
    <2>2. Cardinality(procIt \ {q}) = Cardinality(procIt) - 1
      BY <1>1, <2>1, FS_RemoveElement
    <2> QED
      BY <1>1, <1>2, <1>3, <2>1, <2>2
  <1>6. processData \in Seq(ProcessRow) /\ Len(processData) \in Nat
    OBVIOUS
  <1> HIDE DEF row, TypeOK, RowTypeOK
  <1>7. /\ processData' \in Seq(ProcessRow) /\ Len(processData') >= idx + 1
        /\ processData'[idx + 1] = row
        /\ \A j \in 1..idx : processData'[j] = processData[j]
    <2>1. CASE idx < Len(processData)
      <3>1. idx + 1 \in 1..Len(processData)
        BY <1>1, <1>6, <2>1
      <3> QED
        BY <1>1, <1>2, <1>4, <1>6, <2>1, <3>1
    <2>2. CASE ~(idx < Len(processData))
      <3>1. idx = Len(processData) /\ processData' = Append(processData, row)
        BY <1>1, <1>2, <1>6, <2>2
      <3> QED
        BY <1>4, <1>6, <3>1
    <2> QED
      BY <2>1, <2>2
  <1>8. {processData'[i] : i \in 1..idx'} = {processData[i] : i \in 1..idx} \cup {row}
    <2>1. 1..idx' = (1..idx) \cup {idx + 1}
      BY <1>1, <1>2
    <2> QED
      BY <1>7, <2>1
  <1>9. {ProcessRowOf(p)' : p \in tracked' \ procIt'}
           = {ProcessRowOf(p) : p \in tracked \ procIt} \cup {row}
    <2>1. tracked' \ procIt' = (tracked \ procIt) \cup {q}
      BY <1>1, <1>2, <1>3
    <2> QED
      BY <1>3, <2>1 DEF row
  <1>10. ReportInv'
    BY <1>1, <1>2, <1>3, <1>5, <1>7, <1>8, <1>9 DEF ReportInv
  <1> QED
    BY <1>2, <1>7, <1>10 DEF RowTypeOK, TypeOK

\* The callback reads no row that this report has not written, and what it
\* reads is the table.
LEMMA PublishedRows ==
    ASSUME TypeOK, ReportInv, PublishRows, "process" \in cbs
    PROVE  /\ {processData[i] : i \in 1..Cardinality(tracked)} = {ProcessRowOf(p) : p \in tracked}
           /\ Cardinality(tracked) <= Len(processData)
  <1>1. /\ procIt = {} /\ idx + Cardinality(procIt) = Cardinality(tracked)
        /\ idx <= Len(processData)
        /\ {processData[i] : i \in 1..idx} = {ProcessRowOf(p) : p \in tracked \ procIt}
    BY DEF PublishRows, ReportInv
  <1>2. Cardinality({}) = 0
    BY FS_EmptySet
  <1>3. idx = Cardinality(tracked)
    BY <1>1, <1>2 DEF TypeOK, CallTypeOK
  <1>4. tracked \ procIt = tracked
    BY <1>1
  <1> QED
    BY <1>1, <1>3, <1>4

\* The report: the rows copied so far, and the types of rows and view.
LEMMA ReportNext ==
    ASSUME TypeOK, ReportInv, [Next]_vars
    PROVE  ReportInv' /\ RowTypeOK'
  <1>1. ASSUME NEW q \in Pids, CopyRow(q) PROVE ReportInv' /\ RowTypeOK'
    BY <1>1, ReportCopy
  <1>2. CASE PublishRows
    <2>1. pc' # "report"
      BY <1>2 DEF PublishRows, Goto
    <2>2. view' \subseteq ProcessRow
      <3>1. CASE "process" \in cbs
        <4>1. view' = {ProcessRowOf(p) : p \in tracked}
          BY <1>2, <3>1, PublishedRows DEF PublishRows
        <4>2. \A p \in tracked : ProcessRowOf(p) \in ProcessRow
          BY DEF TypeOK, MergeTypeOK, ProcessRowOf, ProcessRow, Process
        <4> QED
          BY <4>1, <4>2
      <3>2. CASE "process" \notin cbs
        BY <1>2, <3>2 DEF PublishRows, TypeOK, RowTypeOK
      <3> QED
        BY <3>1, <3>2
    <2> QED
      BY <1>2, <2>1, <2>2 DEF PublishRows, ReportInv, TypeOK, RowTypeOK
  <1>3. RowTypeOK' \/ (\E q \in Pids : CopyRow(q)) \/ PublishRows
    BY RowFrame DEF TypeOK, RowTypeOK, InitCall, MergeErase
  <1>4. ASSUME ~PublishRows, ~\E q \in Pids : CopyRow(q) PROVE ReportInv'
    <2> SUFFICES ASSUME pc' = "report" PROVE ReportInv'
      BY DEF ReportInv
    <2>1. \/ \E opened \in BOOLEAN : GetCpuTotal(opened)
          \/ MergeDone
          \/ pc = "report" /\ UNCHANGED <<idx, procIt, processes, processData, cbs>>
      BY <1>4 DEF Next, CallStep, ClientStep, vars, callVars, capVars, outVars, mergeVars,
             InitCall, NextDevice,
             DevicesDone, OpenDevice, OpenDone, AdoptPids, UpdatePids, RefreshMaps,
             RefreshDone, UpdateCall, Dispatch, DispatchFails, HandlePacket, DispatchDone,
             MergeErase, MergeKeep, DeliverPackets, SystemStep, FrameArrives, Goto, Return
    <2>2. CASE (\E opened \in BOOLEAN : GetCpuTotal(opened)) \/ MergeDone
      BY <2>2, ReportStart DEF GetCpuTotal, MergeDone, Goto, Return, outVars
    <2>3. CASE pc = "report" /\ UNCHANGED <<idx, procIt, processes, processData, cbs>>
      BY <2>3 DEF ReportInv, ProcessRowOf, tracked
    <2> QED
      BY <2>1, <2>2, <2>3
  <1> QED
    BY <1>1, <1>2, <1>3, <1>4
-----------------------------------------------------------------------------
\* The initial state satisfies the invariant.
LEMMA IndInvInit == Init => IndInv
  <1> SUFFICES ASSUME Init PROVE IndInv
    OBVIOUS
  <1>1. HelperTypeOK /\ devices \in Seq(Device) /\ CallTypeOK /\ PacketTypeOK /\ RowTypeOK
    BY SelfAssumption DEF Init, OsInit, OsTypeOK, HelperTypeOK, NoEntries, NextFile,
                          CallTypeOK, Labels, PacketTypeOK, RowTypeOK
  <1>2. MergeTypeOK /\ CapTypeOK
    BY EngineAssumption DEF Init, MergeTypeOK, tracked, CapTypeOK
  <1>3. PacketPrefix /\ OwnerInv
    BY DEF Init, PacketPrefix, OwnerInv, OwnersListed, NoEntries
  <1> QED
    BY <1>1, <1>2, <1>3 DEF Init, IndInv, TypeOK, DispatchInv, LoopInv, ReportInv

\* Every step preserves it.
LEMMA IndInvNext == IndInv /\ [Next]_vars => IndInv'
  <1> SUFFICES ASSUME IndInv, [Next]_vars PROVE IndInv'
    OBVIOUS
  <1> USE DEF IndInv
  <1>1. TypeOK'
    BY HelperTypeNext, CallTypeNext, CapTypeNext, PacketNext, MergeTypeNext, ReportNext
       DEF TypeOK
  <1> QED
    BY <1>1, DispatchInvNext, PacketNext, OwnerInvNext, LoopInvNext, ReportNext

\* The invariant holds in every reachable state.
LEMMA IndInvAlways == Spec => []IndInv
  BY IndInvInit, IndInvNext, PTL DEF Spec

\* Type correctness of the whole engine.
THEOREM TypeCorrect == Spec => []TypeOK
  <1>1. IndInv => TypeOK
    BY DEF IndInv
  <1> QED
    BY <1>1, IndInvAlways, PTL

\* Below packetIdx the reused buffer holds the packets of this round, for any
\* number of handles, frames and rounds.
THEOREM PacketsOfRound == Spec => []PacketPrefix
  <1>1. IndInv => PacketPrefix
    BY DEF IndInv
  <1> QED
    BY <1>1, IndInvAlways, PTL

\* Whatever processes fork, exit and reuse pids while Refresh runs, a packet is
\* credited to a pid of the listing only.
THEOREM OwnersAreListed == Spec => []OwnersListed
  <1>1. IndInv => OwnersListed
    BY DEF IndInv, OwnerInv
  <1> QED
    BY <1>1, IndInvAlways, PTL

\* Inside the engine, too, the reconciliation loop ends with the reference set.
THEOREM MergeCorrectInUpdate == Spec => []MergeInUpdate
  <1>1. IndInv => MergeInUpdate
    BY MergeInvResult, MergeInvSound DEF IndInv, LoopInv, MergeInUpdate
  <1> QED
    BY <1>1, IndInvAlways, PTL
-----------------------------------------------------------------------------
(***************************************************************************)
(* Attribution inside the engine.  CaptureInit adds devices while the maps *)
(* still hold the keys of the earlier ones, so that HelperInv is lost; the *)
(* Refresh that follows restores it before a packet is looked up.  That a  *)
(* key belongs to the row it leads to survives the new devices.            *)
(***************************************************************************)
Refreshed == pc \in {"refresh", "adopt", "dispatch", "packets"}

AttributionInv == KeysOfRows /\ (Refreshed => HelperInv)

\* What the helper's invariant speaks of is left alone.
LEMMA HelperUnchanged ==
    ASSUME UNCHANGED <<osVars, devices, helperVars>>
    PROVE  (KeysOfRows => KeysOfRows') /\ (HelperInv => HelperInv')
  <1>1. UNCHANGED <<alive, holder, devices, netToInodes, inodeToPids, refresh, fdIt, stable>>
    BY DEF osVars, helperVars
  <1>2. KeysOfRows => KeysOfRows'
    BY <1>1 DEF KeysOfRows, RowKeys, OwnKey, DeviceKey
  <1>3. HelperTypeOK => HelperTypeOK'
    BY <1>1 DEF HelperTypeOK, OsTypeOK
  <1>4. StableHeld /\ RowsEntered => (StableHeld /\ RowsEntered)'
    BY <1>1 DEF StableHeld, RowsEntered, ParsedFiles, RowKeys, OwnKey, DeviceKey
  <1>5. Unscanned /\ ScanOrdered /\ OwnersEntered => (Unscanned /\ ScanOrdered /\ OwnersEntered)'
    BY <1>1 DEF Unscanned, ScanOrdered, OwnersEntered
  <1> QED
    BY <1>1, <1>2, <1>3, <1>4, <1>5 DEF HelperInv

\* Every step preserves it.
LEMMA AttributionNext ==
    ASSUME TypeOK, AttributionInv, [Next]_vars
    PROVE  AttributionInv'
  <1>1. HelperTypeOK /\ devices \in Seq(Device) /\ KeysOfRows
    BY DEF TypeOK, AttributionInv
  <1>2. CASE UpdatePids
    <2>1. pids' \in SUBSET Pids
      BY <1>2 DEF UpdatePids, TypeOK, HelperTypeOK, OsTypeOK
    <2>2. HelperInv'
      BY <1>1, <1>2, <2>1, HelperInvBegin DEF UpdatePids
    <2> QED
      BY <2>2 DEF AttributionInv, HelperInv
  <1>3. CASE RefreshMaps
    <2>1. HelperInv
      BY <1>3 DEF RefreshMaps, AttributionInv, Refreshed
    <2>2. HelperInv'
      BY <1>3, <2>1, HelperInvRefresh DEF RefreshMaps
    <2> QED
      BY <2>2 DEF AttributionInv, HelperInv
  <1>4. CASE SystemStep
    <2>1. pc' = pc
      BY <1>4 DEF SystemStep, callVars
    <2>2. Refreshed => HelperInv'
      BY <1>4, HelperInvOs DEF SystemStep, AttributionInv
    <2>3. KeysOfRows'
      BY <1>1, <1>4 DEF SystemStep, OsStep, KeysOfRows, RowKeys, OwnKey, DeviceKey
    <2> QED
      BY <2>1, <2>2, <2>3 DEF AttributionInv, Refreshed
  <1>5. CASE NextDevice
    <2>1. pc' = "ifaddrs" /\ UNCHANGED netToInodes
      BY <1>5 DEF NextDevice, Goto, helperVars
    <2>2. /\ Len(devices') >= Len(devices) /\ Len(devices) \in Nat /\ Len(devices') \in Nat
          /\ \A d \in 1..Len(devices) : devices'[d] = devices[d]
      BY <1>1, <1>5, EngineAssumption DEF NextDevice, TypeOK, CallTypeOK
    <2>3. \A i \in Inodes : RowKeys(i) \subseteq RowKeys(i)'
      <3>1. SUFFICES ASSUME NEW i \in Inodes, NEW k \in RowKeys(i) PROVE k \in RowKeys(i)'
        OBVIOUS
      <3>2. CASE k = OwnKey(i)
        BY <3>2 DEF RowKeys, OwnKey
      <3>3. ASSUME NEW d \in 1..Len(devices), k = DeviceKey(devices[d], i)
            PROVE  k \in RowKeys(i)'
        <4>1. d \in 1..Len(devices') /\ devices'[d] = devices[d]
          BY <2>2
        <4> QED
          BY <3>3, <4>1 DEF RowKeys, DeviceKey
      <3> QED
        BY <3>1, <3>2, <3>3 DEF RowKeys
    <2>4. KeysOfRows'
      BY <1>1, <2>1, <2>3 DEF KeysOfRows, HelperTypeOK
    <2> QED
      BY <2>1, <2>4 DEF AttributionInv, Refreshed
  <1>6. ASSUME UNCHANGED <<osVars, devices, helperVars>>, ~UpdatePids PROVE AttributionInv'
    <2>1. Refreshed' => Refreshed
      BY <1>6 DEF Refreshed, Next, CallStep, ClientStep, vars, callVars, InitCall, NextDevice,
             DevicesDone, OpenDevice, OpenDone, AdoptPids, RefreshMaps, RefreshDone,
             UpdateCall, Dispatch, DispatchFails, HandlePacket, DispatchDone, GetCpuTotal,
             MergeErase, MergeKeep, MergeDone, CopyRow, PublishRows, DeliverPackets,
             SystemStep, FrameArrives, Goto, Return
    <2> QED
      BY <1>6, <2>1, HelperUnchanged DEF AttributionInv
  <1> QED
    BY <1>2, <1>3, <1>4, <1>5, <1>6, HelperFrame

\* The invariant of the attribution holds in every reachable state.
LEMMA AttributionAlways == Spec => [](IndInv /\ AttributionInv)
  <1>1. Init => AttributionInv
    BY DEF Init, AttributionInv, KeysOfRows, NoEntries, Refreshed
  <1>2. IndInv /\ AttributionInv /\ [Next]_vars => AttributionInv'
    BY AttributionNext DEF IndInv
  <1> QED
    BY <1>1, <1>2, IndInvAlways, PTL DEF Spec

\* Whenever a packet is looked up in CaptureUpdate, the maps are complete, for
\* the devices of all calls of CaptureInit, if the Refresh before it succeeded;
\* and whether it did or not, no key leads to a socket with another local port or
\* peer, up to the IPv6 peers whose last group and port run together.
THEOREM AttributionInUpdate ==
    Spec => [](pc = "packets" => LookupComplete /\ PacketAttributed /\ KeysMatch)
  <1>1. AttributionInv => (pc = "packets" => LookupComplete /\ PacketAttributed /\ KeysMatch)
    BY HelperInvComplete, HelperInvPackets, HelperInvKeys DEF AttributionInv, Refreshed
  <1> QED
    BY <1>1, AttributionAlways, PTL

\* A process is credited only for packets with the local port and the peer of a
\* socket that Refresh has seen in its fd directory, up to the IPv6 peers whose
\* last group and port run together, and only if it was listed in this round.
THEOREM CreditsOwner == Spec => CreditToOwner
  <1> DEFINE packet == PacketOf(devices, Frame)
             key == Hash(packet)
             Owned(p) == \E i \in DOMAIN inodeToPids :
                           /\ inodeToPids[i] = p /\ p \in pids
                           /\ PacketOfRow(packet, Row[i])
             Credited(p) == pc = "packets" /\ (p \in tracked => processes'[p] # processes[p])
             ToOwner == \A p \in tracked' : Credited(p) => Owned(p)
  <1>1. IndInv /\ AttributionInv /\ [Next]_vars => [ToOwner]_vars
    <2> SUFFICES ASSUME IndInv, AttributionInv, [Next]_vars,
                        NEW p \in tracked', Credited(p)
                 PROVE  Owned(p)
      OBVIOUS
    <2>1. processes' # processes
      BY DEF tracked
    <2>2. HandlePacket
      BY <2>1, TableFrame DEF AdoptPids, MergeErase
    <2>3. /\ Attributed(Frame)
          /\ CreditProcess(PidByIp(key), packet)
      BY <2>1, <2>2 DEF HandlePacket
    <2>4. p = PidByIp(key)
      BY <2>3 DEF CreditProcess, tracked
    <2>5. Found(key) /\ KeysMatch /\ OwnersListed
      BY <2>3, HelperInvKeys DEF Attributed, AttributionInv, Refreshed, IndInv, OwnerInv
    <2>8. ASSUME NEW row, key.lport = row.lport,
                 \/ SamePeer(key.remote, key.rport, row)
                 \/ GluedPeer(key.local, key.remote, key.rport, row)
          PROVE  PacketOfRow(packet, row)
      <3> HIDE DEF packet
      <3>1. CASE IsOutgoing(packet)
        BY <2>8, <3>1 DEF PacketOfRow, Hash, Link, KeyText
      <3>2. CASE ~IsOutgoing(packet)
        BY <2>8, <3>2 DEF PacketOfRow, Hash, KeyText
      <3> QED BY <3>1, <3>2
    <2> HIDE DEF key, packet
    <2>6. key \in DOMAIN netToInodes /\ netToInodes[key] \in DOMAIN inodeToPids
      BY <2>5 DEF Found
    <2>7. p = inodeToPids[netToInodes[key]] /\ p \in pids
      BY <2>4, <2>5, <2>6 DEF PidByIp, OwnersListed
    <2> QED
      BY <2>5, <2>6, <2>7, <2>8 DEF KeysMatch
  <1> QED
    BY <1>1, AttributionAlways, PTL DEF Spec, CreditToOwner
-----------------------------------------------------------------------------
(***************************************************************************)
(* Progress of a call, without fairness: what CallAdvances says of a step. *)
(***************************************************************************)
Advance ==
    /\ CallStep => Closer /\ Turns' \in Nat /\ Inner' \in Nat
    /\ pc # "idle" => Closer \/ UNCHANGED <<pc, Turns, Inner>>

\* The measure in each part of a call.
MeasureAt ==
    /\ pc = "ifaddrs" => Turns = Len(Interfaces) - idx /\ Inner = 0
    /\ pc = "open" => Turns = Len(devices) - idx /\ Inner = 0
    /\ pc = "refresh" => Turns = FilesLeft[refresh] /\ Inner = Cardinality(fdIt)
    /\ pc = "dispatch" => Turns = Len(handles) - idx /\ Inner = RingSize + 1
    /\ pc = "packets" => Turns = Len(handles) - idx /\ Inner = left
    /\ pc \in {"merge", "report"} => Turns = Cardinality(procIt) /\ Inner = 0
    /\ pc \in {"pids", "adopt", "deliver", "idle"} => Turns = 0 /\ Inner = 0

\* It is what the definitions of Turns and Inner say, before a step and after.
LEMMA MeasureValues == MeasureAt /\ MeasureAt'
  <1>1. MeasureAt
    BY DEF MeasureAt, Turns, Inner
  <1>2. MeasureAt'
    BY DEF MeasureAt, Turns, Inner
  <1> QED
    BY <1>1, <1>2

\* A set of pids is finite, and smaller without one of its elements.
LEMMA PidsRemove ==
    ASSUME NEW S \in SUBSET Pids
    PROVE  /\ Cardinality(S) \in Nat
           /\ \A q \in S : Cardinality(S \ {q}) = Cardinality(S) - 1
           /\ S # {} => Cardinality(S) > 0
           /\ Cardinality({}) = 0
  <1>1. IsFiniteSet(S)
    BY EngineAssumption, FS_Subset
  <1> QED
    BY <1>1, FS_CardinalityType, FS_RemoveElement, FS_EmptySet

\* The loops of CaptureInit.
LEMMA InitAdvances ==
    ASSUME TypeOK,
           NextDevice \/ DevicesDone \/ OpenDone \/ AdoptPids
             \/ \E outcome \in DOMAIN PcapAfter : OpenDevice(outcome)
    PROVE  Closer /\ Turns' \in Nat /\ Inner' \in Nat
  <1>1. /\ idx \in Nat /\ Len(Interfaces) \in Nat /\ Len(devices) \in Nat
    BY EngineAssumption DEF TypeOK, CallTypeOK
  <1>2. CASE NextDevice
    <2>1. pc = "ifaddrs" /\ pc' = "ifaddrs" /\ idx' = idx + 1 /\ idx < Len(Interfaces)
      BY <1>2 DEF NextDevice, Goto
    <2>2. /\ Turns = Len(Interfaces) - idx /\ Turns' = Len(Interfaces) - (idx + 1)
          /\ Inner' = 0
      BY <2>1, MeasureValues DEF MeasureAt
    <2> QED
      BY <1>1, <2>1, <2>2 DEF Closer, Part
  <1>3. CASE DevicesDone
    <2>1. pc = "ifaddrs" /\ (pc' = "idle" \/ (pc' = "open" /\ idx' = 0 /\ devices' = devices))
      BY <1>3 DEF DevicesDone, Goto, Return
    <2>2. Turns' \in Nat /\ Inner' = 0
      BY <1>1, <2>1, MeasureValues DEF MeasureAt
    <2> QED
      BY <2>1, <2>2 DEF Closer, Part
  <1>4. ASSUME NEW outcome, OpenDevice(outcome)
        PROVE  Closer /\ Turns' \in Nat /\ Inner' \in Nat
    <2>1. /\ pc = "open" /\ pc' = "open" /\ idx' = idx + 1 /\ idx < Len(devices)
          /\ devices' = devices
      BY <1>4 DEF OpenDevice, Goto
    <2>2. /\ Turns = Len(devices) - idx /\ Turns' = Len(devices) - (idx + 1)
          /\ Inner' = 0
      BY <2>1, MeasureValues DEF MeasureAt
    <2> QED
      BY <1>1, <2>1, <2>2 DEF Closer, Part
  <1>5. CASE OpenDone \/ AdoptPids
    <2>1. (pc = "open" /\ pc' = "pids") \/ (pc = "adopt" /\ pc' = "idle")
      BY <1>5 DEF OpenDone, AdoptPids, Goto, Return
    <2>2. Turns' = 0 /\ Inner' = 0
      BY <2>1, MeasureValues DEF MeasureAt
    <2> QED
      BY <2>1, <2>2 DEF Closer, Part
  <1> QED
    BY <1>2, <1>3, <1>4, <1>5

\* Listing and refreshing: a file or a process less.
LEMMA RefreshAdvances ==
    ASSUME TypeOK, UpdatePids \/ RefreshMaps \/ RefreshDone
    PROVE  Closer /\ Turns' \in Nat /\ Inner' \in Nat
  <1>1. /\ fdIt \in SUBSET Pids /\ refresh \in DOMAIN NextFile \cup {"fds", "error"}
        /\ alive \in SUBSET Pids /\ Len(handles) \in Nat
    BY DEF TypeOK, HelperTypeOK, OsTypeOK, CapTypeOK
  <1>2. CASE UpdatePids
    <2>1. /\ pc = "pids" /\ pc' = "refresh" /\ refresh' = "tcp"
          /\ fdIt' = pids' /\ pids' \in SUBSET Pids
      BY <1>1, <1>2 DEF UpdatePids, RefreshBegin, Goto
    <2>2. Turns' = 4 /\ Inner' = Cardinality(fdIt')
      BY <2>1, MeasureValues DEF MeasureAt, FilesLeft
    <2>3. Cardinality(fdIt') \in Nat
      BY <2>1, PidsRemove
    <2> QED
      BY <2>1, <2>2, <2>3 DEF Closer, Part
  <1>3. CASE RefreshMaps
    <2>1. pc = "refresh" /\ pc' = "refresh" /\ RefreshStep
      BY <1>3 DEF RefreshMaps, callVars
    <2>2. /\ Turns = FilesLeft[refresh] /\ Turns' = FilesLeft[refresh']
          /\ Inner = Cardinality(fdIt) /\ Inner' = Cardinality(fdIt')
      BY <2>1, MeasureValues DEF MeasureAt
    <2>3. Cardinality(fdIt) \in Nat /\ Cardinality({}) = 0
      BY <1>1, PidsRemove
    <2>4. CASE ParseFile \/ ParseFails
      <3>1. /\ refresh \in DOMAIN NextFile
            /\ (refresh' = NextFile[refresh] /\ fdIt' = fdIt) \/ (refresh' = "error" /\ fdIt' = {})
        BY <2>4 DEF ParseFile, ParseFails
      <3>2. FilesLeft[refresh'] < FilesLeft[refresh] /\ FilesLeft[refresh'] \in Nat
        BY <3>1 DEF NextFile, FilesLeft
      <3>3. Inner' \in Nat
        BY <2>2, <2>3, <3>1
      <3> QED
        BY <2>1, <2>2, <3>2, <3>3 DEF Closer
    <2>5. ASSUME NEW p \in Pids, ScanPid(p) \/ ScanFails(p)
          PROVE  Closer /\ Turns' \in Nat /\ Inner' \in Nat
      <3>1. /\ refresh = "fds" /\ p \in fdIt
            /\ (refresh' = "fds" /\ fdIt' = fdIt \ {p}) \/ (refresh' = "error" /\ fdIt' = {})
        BY <2>5 DEF ScanPid, ScanFails, PointsTo
      <3>2. Cardinality(fdIt') < Cardinality(fdIt) /\ Cardinality(fdIt') \in Nat
        <4>1. Cardinality(fdIt \ {p}) = Cardinality(fdIt) - 1 /\ Cardinality(fdIt) > 0
          BY <1>1, <3>1, PidsRemove
        <4> QED
          BY <2>3, <3>1, <4>1
      <3>3. Turns' = 0 /\ Turns = 0
        BY <2>2, <3>1 DEF FilesLeft
      <3> QED
        BY <2>1, <2>2, <3>2, <3>3 DEF Closer
    <2> QED
      BY <2>1, <2>4, <2>5 DEF RefreshStep
  <1>4. CASE RefreshDone
    <2>1. /\ pc = "refresh"
          /\ pc' = "adopt" \/ (pc' = "dispatch" /\ idx' = 0)
          /\ handles' = handles
      BY <1>4 DEF RefreshDone, Goto, capVars
    <2>2. Turns' \in Nat /\ Inner' \in Nat
      BY <1>1, <2>1, MeasureValues, EngineAssumption DEF MeasureAt
    <2> QED
      BY <2>1, <2>2 DEF Closer, Part
  <1> QED
    BY <1>2, <1>3, <1>4

\* Capturing: a frame less of this handle, or a handle less.
LEMMA DispatchAdvances ==
    ASSUME TypeOK, DispatchInv,
           (\E n \in 0..RingSize : Dispatch(n)) \/ DispatchFails \/ HandlePacket \/ DispatchDone
    PROVE  Closer /\ Turns' \in Nat /\ Inner' \in Nat
  <1>1. idx \in Nat /\ left \in Nat /\ Len(handles) \in Nat /\ RingSize \in Nat
    BY EngineAssumption DEF TypeOK, CallTypeOK, CapTypeOK
  <1>2. /\ pc \in {"dispatch", "packets"} /\ pc' \in {"dispatch", "packets"}
        /\ idx < Len(handles) /\ handles' = handles
    BY DEF Dispatch, DispatchFails, HandlePacket, DispatchDone, DispatchInv, Goto, capVars
  <1>3. Turns = Len(handles) - idx /\ Turns' = Len(handles) - idx'
    BY <1>2, MeasureValues DEF MeasureAt
  <1>4. Part[pc'] = Part[pc]
    BY <1>2 DEF Part
  <1>5. CASE DispatchFails \/ DispatchDone
    <2>1. idx' = idx + 1 /\ pc' = "dispatch"
      BY <1>5 DEF DispatchFails, DispatchDone, Goto
    <2>2. Inner' = RingSize + 1
      BY <2>1, MeasureValues DEF MeasureAt
    <2> QED
      BY <1>1, <1>2, <1>3, <1>4, <2>1, <2>2 DEF Closer
  <1>6. CASE (\E n \in 0..RingSize : Dispatch(n)) \/ HandlePacket
    <2>1. /\ idx' = idx /\ pc' = "packets"
          /\ \/ pc = "dispatch" /\ left' \in 0..RingSize
             \/ pc = "packets" /\ left > 0 /\ left' = left - 1
      BY <1>6 DEF Dispatch, HandlePacket
    <2>2. /\ Inner' = left'
          /\ Inner = IF pc = "dispatch" THEN RingSize + 1 ELSE left
      BY <1>2, <2>1, MeasureValues DEF MeasureAt
    <2>3. Inner' < Inner /\ Inner' \in Nat
      BY <1>1, <2>1, <2>2
    <2> QED
      BY <1>1, <1>2, <1>3, <1>4, <2>1, <2>3 DEF Closer
  <1> QED
    BY <1>5, <1>6

\* Reconciling and reporting: a process less.
LEMMA ReportAdvances ==
    ASSUME TypeOK,
           \/ \E opened \in BOOLEAN : GetCpuTotal(opened)
           \/ \E q \in Pids : MergeErase(q) \/ MergeKeep(q) \/ CopyRow(q)
           \/ MergeDone \/ PublishRows \/ DeliverPackets
    PROVE  Closer /\ Turns' \in Nat /\ Inner' \in Nat
  <1>1. procIt \in SUBSET Pids /\ tracked \in SUBSET Pids
    BY DEF TypeOK, MergeTypeOK
  <1>2. ASSUME NEW q \in Pids, MergeErase(q) \/ MergeKeep(q) \/ CopyRow(q)
        PROVE  Closer /\ Turns' \in Nat /\ Inner' \in Nat
    <2>1. /\ pc \in {"merge", "report"} /\ pc' = pc
          /\ q \in procIt /\ procIt' = procIt \ {q}
      BY <1>2 DEF MergeErase, MergeKeep, CopyRow, Erase, Keep, PointsTo, Goto, callVars
    <2>2. /\ Turns = Cardinality(procIt) /\ Turns' = Cardinality(procIt \ {q})
          /\ Inner' = 0
      BY <2>1, MeasureValues DEF MeasureAt
    <2>3. Turns' = Turns - 1 /\ Turns \in Nat /\ Turns > 0
      BY <1>1, <2>1, <2>2, PidsRemove
    <2> QED
      BY <2>1, <2>2, <2>3 DEF Closer
  <1>3. CASE (\E opened \in BOOLEAN : GetCpuTotal(opened)) \/ MergeDone
    <2>1. \/ pc = "dispatch" /\ pc' = "idle"
          \/ pc = "dispatch" /\ pc' \in {"merge", "report"} /\ procIt' = tracked
          \/ pc = "merge" /\ pc' = "report" /\ procIt' = tracked
      BY <1>3 DEF GetCpuTotal, MergeDone, Goto, Return
    <2>2. Turns' \in Nat /\ Inner' = 0
      <3>1. Cardinality(tracked) \in Nat
        BY <1>1, PidsRemove
      <3> QED
        BY <2>1, <3>1, MeasureValues DEF MeasureAt
    <2> QED
      BY <2>1, <2>2 DEF Closer, Part
  <1>4. CASE PublishRows \/ DeliverPackets
    <2>1. (pc = "report" /\ pc' = "deliver") \/ (pc = "deliver" /\ pc' = "idle")
      BY <1>4 DEF PublishRows, DeliverPackets, Goto, Return
    <2>2. Turns' = 0 /\ Inner' = 0
      BY <2>1, MeasureValues DEF MeasureAt
    <2> QED
      BY <2>1, <2>2 DEF Closer, Part
  <1> QED
    BY <1>2, <1>3, <1>4

\* Processes and the network do not touch the measure.
LEMMA EnvironmentWaits ==
    ASSUME SystemStep \/ (\E frame \in Frames : FrameArrives(frame)) \/ UNCHANGED vars
    PROVE  UNCHANGED <<pc, Turns, Inner>>
  <1>1. UNCHANGED <<pc, idx, left, procIt, devices, handles, refresh, fdIt>>
    BY DEF SystemStep, OsStep, FrameArrives, vars, callVars, capVars, mergeVars, helperVars
  <1>2. Turns' = Turns
    BY <1>1 DEF Turns
  <1>3. Inner' = Inner
    BY <1>1 DEF Inner
  <1> QED
    BY <1>1, <1>2, <1>3

\* Every step of a call lowers the measure, for any number of interfaces,
\* handles, processes and buffered frames, and no step of processes or of the
\* network raises it: a call takes finitely many steps of its own.
THEOREM CallsAdvance == Spec => CallAdvances
  <1>1. IndInv /\ [Next]_vars => [Advance]_vars
    <2> SUFFICES ASSUME IndInv, [Next]_vars PROVE Advance
      OBVIOUS
    <2>1. TypeOK /\ DispatchInv
      BY DEF IndInv
    <2>2. CallStep => Closer /\ Turns' \in Nat /\ Inner' \in Nat
      BY <2>1, InitAdvances, RefreshAdvances, DispatchAdvances, ReportAdvances DEF CallStep
    <2>3. ClientStep => pc = "idle"
      BY DEF ClientStep, InitCall, UpdateCall
    <2> QED
      BY <2>2, <2>3, EnvironmentWaits DEF Next, Advance
  <1> QED
    BY <1>1, IndInvAlways, PTL DEF Spec, CallAdvances, Advance
=============================================================================
