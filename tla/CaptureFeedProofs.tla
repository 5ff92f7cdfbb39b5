-------------------------- MODULE CaptureFeedProofs --------------------------
(***************************************************************************)
(* The engine implements ProcessFeed, for every number of processes,       *)
(* sockets, interfaces, frames and faults, when the client calls           *)
(* CaptureInit at most once; and what remains true when it calls it again. *)
(***************************************************************************)
EXTENDS CaptureCxxProofs

(***************************************************************************)
(* What the engine holds before and during its one initialisation: nothing *)
(* is tracked, so that AdoptPids takes in new processes only, and nothing  *)
(* is open, so that no packet is credited before.  A client without the    *)
(* process callback is never shown anything.                               *)
(***************************************************************************)
PhaseInv ==
    /\ pc \in {"ifaddrs", "open", "adopt"} => op = "init"
    /\ pc \in {"dispatch", "packets", "merge", "report", "deliver"} => op = "update"
    /\ pc \in {"pids", "refresh"} => op # "none"

StartInv ==
    /\ inits = 0 => cbs = {} /\ handles = <<>> /\ op # "init"
    /\ inits = 0 \/ op = "init" => tracked = {}
    /\ "process" \notin cbs => view = {}

FeedInv == PhaseInv /\ StartInv

\* Each phase of a call belongs to one of the two calls.
LEMMA PhaseNext ==
    ASSUME TypeOK, PhaseInv, [Next]_vars
    PROVE  PhaseInv'
  <1> USE DEF PhaseInv
  <1>1. CASE ClientStep
    BY <1>1 DEF ClientStep, InitCall, UpdateCall
  <1>2. CASE CallStep
    BY <1>2 DEF CallStep, callVars, NextDevice, DevicesDone, OpenDevice, OpenDone, AdoptPids,
       UpdatePids, RefreshMaps, RefreshDone, Dispatch, DispatchFails, HandlePacket,
       DispatchDone, GetCpuTotal, MergeErase, MergeKeep, MergeDone, CopyRow, PublishRows,
       DeliverPackets, Goto, Return, TypeOK, CallTypeOK
  <1>3. CASE SystemStep \/ (\E frame \in Frames : FrameArrives(frame)) \/ UNCHANGED vars
    BY <1>3 DEF SystemStep, FrameArrives, vars, callVars
  <1> QED
    BY <1>1, <1>2, <1>3 DEF Next

\* Only CaptureInit sets callbacks, only its first run finds nothing tracked.
LEMMA StartNext ==
    ASSUME MaxInits <= 1, IndInv, FeedInv, [Next]_vars
    PROVE  StartInv'
  <1> USE DEF IndInv, TypeOK, CapTypeOK, CallTypeOK, FeedInv
  <1>1. ASSUME NEW callbacks \in Callbacks, InitCall(callbacks) PROVE StartInv'
    <2>1. inits = 0 /\ inits' = 1
      BY <1>1, EngineAssumption DEF InitCall
    <2>2. tracked' = tracked
      BY <1>1 DEF InitCall, mergeVars, tracked
    <2> QED
      BY <1>1, <2>1, <2>2 DEF InitCall, StartInv
  <1>2. ASSUME ~\E callbacks \in Callbacks : InitCall(callbacks) PROVE StartInv'
    <2>1. UNCHANGED <<inits, cbs>>
      BY <1>2, CapFrame DEF OpenDevice, HandlePacket, FrameArrives, capVars
    <2>2. op' = "init" => op = "init"
      BY <1>2 DEF Next, CallStep, ClientStep, vars, callVars, NextDevice,
         DevicesDone, OpenDevice, OpenDone, AdoptPids, UpdatePids, RefreshMaps, RefreshDone,
         UpdateCall, Dispatch, DispatchFails, HandlePacket, DispatchDone, GetCpuTotal,
         MergeErase, MergeKeep, MergeDone, CopyRow, PublishRows, DeliverPackets, SystemStep,
         FrameArrives, Goto, Return
    <2>3. inits = 0 => handles' = <<>>
      BY <1>2, CapFrame DEF OpenDevice, HandlePacket, FrameArrives, capVars, StartInv, PhaseInv
    <2>4. inits = 0 \/ op' = "init" => tracked' = {}
      <3> SUFFICES ASSUME inits = 0 \/ op' = "init" PROVE tracked' = {}
        OBVIOUS
      <3>1. tracked = {}
        BY <2>2 DEF StartInv
      <3>2. CASE AdoptPids
        BY <3>2 DEF AdoptPids, Return, StartInv, PhaseInv
      <3>3. CASE HandlePacket
        <4>1. op = "update" /\ op' = op /\ idx < Len(handles)
          BY <3>3 DEF HandlePacket, PhaseInv, DispatchInv
        <4> QED
          BY <4>1 DEF StartInv
      <3>4. ASSUME NEW q \in Pids, MergeErase(q) PROVE FALSE
        <4>1. pc = "merge" /\ q \in procIt /\ procIt \subseteq tracked
          BY <3>4 DEF MergeErase, Erase, PointsTo, LoopInv, MergeInv, MatchInv
        <4> QED
          BY <3>1, <4>1
      <3>5. CASE UNCHANGED processes
        BY <3>1, <3>5 DEF tracked
      <3> QED
        BY <3>2, <3>3, <3>4, <3>5, TableFrame
    <2>5. "process" \notin cbs => view' = {}
      BY <1>2, RowFrame DEF MergeErase, CopyRow, PublishRows, StartInv
    <2> QED
      BY <2>1, <2>2, <2>3, <2>4, <2>5 DEF StartInv
  <1> QED
    BY <1>1, <1>2

\* Every step of the engine is a step of the feed or leaves it alone.
LEMMA FeedStep ==
    ASSUME MaxInits <= 1, IndInv, FeedInv, [Next]_vars
    PROVE  [Feed!FeedNext]_(Feed!feedVars)
  <1> USE DEF IndInv, FeedInv
  <1>1. CASE AdoptPids
    <2>1. pids \cap tracked = {}
      BY <1>1 DEF AdoptPids, StartInv, PhaseInv
    <2>2. Feed!Adopt(pids)
      BY <1>1, <2>1 DEF AdoptPids, Feed!Adopt, tracked, outVars, NewProcess, Feed!NewProcess
    <2> QED
      BY <2>2 DEF Feed!FeedNext, TypeOK, MergeTypeOK
  <1>2. CASE HandlePacket
    <2>1. CASE UNCHANGED processes
      BY <1>2, <2>1 DEF HandlePacket, Feed!feedVars
    <2>2. CASE Attributed(Frame) /\ CreditProcess(PidByIp(Hash(PacketOf(devices, Frame))),
                                                  PacketOf(devices, Frame))
      <3> DEFINE packet == PacketOf(devices, Frame)
                 pid == PidByIp(Hash(packet))
      <3>1. ring[idx + 1] # <<>> /\ idx < Len(handles)
        <4>1. idx < Len(handles) /\ left <= Len(ring[idx + 1]) /\ left > 0
          BY <1>2 DEF HandlePacket, DispatchInv
        <4> QED
          BY <4>1 DEF TypeOK, CallTypeOK
      <3>2. Frame \in Frames
        BY <3>1, HeadFrame DEF TypeOK, CallTypeOK
      <3>3. packet.len = Frame.len /\ IsOutgoing(packet) \in BOOLEAN
        BY <3>2, PacketType
      <3>4. pid \in Pids
        BY <2>2, FoundPid DEF Attributed, TypeOK
      <3>5. Feed!Credit(pid, IsOutgoing(packet), packet.len)
        BY <1>2, <2>2 DEF HandlePacket, CreditProcess, Feed!Credit, tracked, NewProcess,
               Feed!NewProcess, AddPacket, Feed!AddPacket
      <3>6. packet.len \in {frame.len : frame \in Frames}
        BY <3>2, <3>3
      <3> HIDE DEF packet, pid
      <3> QED
        BY <3>3, <3>4, <3>5, <3>6 DEF Feed!FeedNext
    <2> QED
      BY <1>2, <2>1, <2>2 DEF HandlePacket
  <1>3. ASSUME NEW q \in Pids, MergeErase(q) PROVE [Feed!FeedNext]_(Feed!feedVars)
    <2>1. q \in tracked
      BY <1>3 DEF MergeErase, Erase, PointsTo, LoopInv, MergeInv, MatchInv
    <2>2. view' = {r \in view : r.pid # q}
      BY <1>3 DEF MergeErase, StartInv
    <2>3. Feed!Remove(q)
      BY <1>3, <2>1, <2>2 DEF MergeErase, Erase, Feed!Remove, tracked
    <2> QED
      BY <2>3 DEF Feed!FeedNext
  <1>4. CASE PublishRows
    <2>1. UNCHANGED processes
      BY <1>4 DEF PublishRows, mergeVars
    <2>2. CASE "process" \in cbs
      <3>1. view' = {ProcessRowOf(p) : p \in tracked}
        BY <1>4, <2>2, PublishedRows DEF PublishRows
      <3>2. Feed!Publish
        BY <2>1, <3>1 DEF Feed!Publish, Feed!RowOf, ProcessRowOf, tracked
      <3> QED
        BY <3>2 DEF Feed!FeedNext
    <2>3. CASE "process" \notin cbs
      BY <1>4, <2>1, <2>3 DEF PublishRows, Feed!feedVars
    <2> QED
      BY <2>2, <2>3
  <1>5. ASSUME NEW callbacks \in Callbacks, InitCall(callbacks) PROVE UNCHANGED Feed!feedVars
    <2>1. inits = 0
      BY <1>5, EngineAssumption DEF InitCall, TypeOK, CapTypeOK
    <2> QED
      BY <1>5, <2>1 DEF InitCall, StartInv, mergeVars, Feed!feedVars
  <1>6. ASSUME UNCHANGED processes, ~PublishRows,
               ~\E callbacks \in Callbacks : InitCall(callbacks),
               ~\E q \in Pids : MergeErase(q)
        PROVE  UNCHANGED Feed!feedVars
    BY <1>6, RowFrame DEF CopyRow, Feed!feedVars
  <1> QED
    BY <1>1, <1>2, <1>3, <1>4, <1>5, <1>6, TableFrame

\* A client that calls CaptureInit once sees the feed ProcessFeed describes:
\* snapshots of the whole table and removals, and nothing else.
THEOREM ImplementsFeed == MaxInits <= 1 /\ Spec => RefinesFeed
  <1> SUFFICES ASSUME MaxInits <= 1 PROVE Spec => RefinesFeed
    OBVIOUS
  <1>1. Init => Feed!FeedInit /\ FeedInv
    BY DEF Init, Feed!FeedInit, FeedInv, PhaseInv, StartInv, tracked
  <1>2. IndInv /\ FeedInv /\ [Next]_vars => FeedInv' /\ [Feed!FeedNext]_(Feed!feedVars)
    BY PhaseNext, StartNext, FeedStep DEF FeedInv, IndInv
  <1> QED
    BY <1>1, <1>2, IndInvAlways, PTL DEF Spec, RefinesFeed, Feed!FeedSpec
-----------------------------------------------------------------------------
(* Any number of calls of CaptureInit                                      *)

LEMMA AddPacketGrows ==
    ASSUME NEW r \in Process, NEW o, NEW n \in Nat
    PROVE  AddPacket(r, o, n).send >= r.send /\ AddPacket(r, o, n).recv >= r.recv
  BY DEF AddPacket, Process

\* A packet adds to the counters of one process and leaves the others alone.
LEMMA CountersStep ==
    ASSUME IndInv, PhaseInv, [Next]_vars, op # "init", NEW p \in tracked \cap tracked'
    PROVE  processes'[p].send >= processes[p].send /\ processes'[p].recv >= processes[p].recv
  <1> USE DEF IndInv
  <1>0. processes[p] \in Process /\ processes[p].send \in Nat /\ processes[p].recv \in Nat
    BY DEF TypeOK, MergeTypeOK, Process
  <1>1. CASE AdoptPids
    BY <1>1 DEF AdoptPids, PhaseInv
  <1>2. CASE HandlePacket
    <2>1. CASE UNCHANGED processes
      BY <1>0, <2>1
    <2>2. CASE CreditProcess(PidByIp(Hash(PacketOf(devices, Frame))), PacketOf(devices, Frame))
      <3> DEFINE packet == PacketOf(devices, Frame)
                 pid == PidByIp(Hash(packet))
      <3>1. ring[idx + 1] # <<>> /\ idx < Len(handles)
        <4>1. idx < Len(handles) /\ left <= Len(ring[idx + 1]) /\ left > 0
          BY <1>2 DEF HandlePacket, DispatchInv
        <4> QED BY <4>1 DEF TypeOK, CallTypeOK
      <3>2. Frame \in Frames
        BY <3>1, HeadFrame DEF TypeOK, CallTypeOK
      <3>3. packet.len \in Nat
        BY <3>2, PacketType, EngineAssumption DEF FrameType
      <3>4. processes'[p] = IF p # pid THEN processes[p]
                            ELSE AddPacket(processes[p], IsOutgoing(packet), packet.len)
        BY <2>2 DEF CreditProcess
      <3> HIDE DEF packet, pid
      <3>5. CASE p = pid
        <4> DEFINE r == processes[p]
                   n == packet.len
                   o == IsOutgoing(packet)
        <4>1. r \in Process /\ n \in Nat /\ processes'[p] = AddPacket(r, o, n)
          BY <1>0, <3>3, <3>4, <3>5
        <4> HIDE DEF r, n, o
        <4>2. processes'[p].send >= r.send /\ processes'[p].recv >= r.recv
          BY <4>1, AddPacketGrows
        <4> QED BY <4>2 DEF r
      <3>6. CASE p # pid
        BY <1>0, <3>4, <3>6
      <3> QED BY <3>5, <3>6
    <2> QED BY <1>2, <2>1, <2>2 DEF HandlePacket
  <1>3. ASSUME NEW q \in Pids, MergeErase(q)
        PROVE  processes'[p] = processes[p]
    BY <1>3 DEF MergeErase, Erase, tracked
  <1>4. CASE UNCHANGED processes
    BY <1>0, <1>4
  <1> QED BY <1>0, <1>1, <1>2, <1>3, <1>4, TableFrame

\* Outside of CaptureInit the counters of a tracked process never go back.
THEOREM CountersCorrect == Spec => CountersKept
  <1>1. Init => PhaseInv
    BY DEF Init, PhaseInv
  <1>2. IndInv /\ PhaseInv /\ [Next]_vars => PhaseInv'
    BY PhaseNext DEF IndInv
  <1>3. IndInv /\ PhaseInv /\ [Next]_vars =>
          [op # "init" =>
             \A p \in tracked \cap tracked' :
                 processes'[p].send >= processes[p].send /\ processes'[p].recv >= processes[p].recv]_vars
    BY CountersStep
  <1> QED BY <1>1, <1>2, <1>3, IndInvAlways, PTL DEF Spec, CountersKept

(***************************************************************************)
(* Descriptors.  During the k-th CaptureInit devices grows to at most k    *)
(* entries per usable interface, and every entry is opened once.           *)
(***************************************************************************)
Usable(n) == {i \in 1..n : Interfaces[i].family # "null" /\ UpRunning(Interfaces[i])}

UsableTotal == Cardinality(Usable(Len(Interfaces)))

Opened == 2 * (Len(handles) + leaked)

\* Per usable interface: the entries of devices after k calls, and twice the
\* descriptors.
Entries(k) == UsableTotal * k
Twice(k) == UsableTotal * k * (k + 1)

DescriptorsInv ==
    /\ pc = "idle" => idx = 0
    /\ pc \in {"ifaddrs", "open"} => inits >= 1
    /\ pc = "ifaddrs" => /\ idx <= Len(Interfaces)
                         /\ Len(devices) <= Entries(inits - 1) + Cardinality(Usable(idx))
                         /\ Opened <= Twice(inits - 1)
    /\ pc # "ifaddrs" => Len(devices) <= Entries(inits)
    /\ pc = "open" => idx <= Len(devices) /\ Opened <= Twice(inits - 1) + 2 * idx
    /\ pc \notin {"ifaddrs", "open"} => Opened <= Twice(inits)

LEMMA UsableFinite ==
    ASSUME NEW n \in Nat
    PROVE  IsFiniteSet(Usable(n)) /\ Cardinality(Usable(n)) \in Nat
  <1>1. IsFiniteSet(1..n)
    BY FS_Interval
  <1>2. Usable(n) \subseteq 1..n
    BY DEF Usable
  <1> QED BY <1>1, <1>2, FS_Subset, FS_CardinalityType

LEMMA UsableGrows ==
    ASSUME NEW n \in Nat
    PROVE  /\ Cardinality(Usable(0)) = 0
           /\ LET next == Interfaces[n + 1]
              IN  Cardinality(Usable(n + 1)) =
                      IF next.family # "null" /\ UpRunning(next)
                      THEN Cardinality(Usable(n)) + 1 ELSE Cardinality(Usable(n))
           /\ n <= Len(Interfaces) => Cardinality(Usable(n)) <= UsableTotal
  <1>1. Usable(0) = {}
    BY DEF Usable
  <1>2. n + 1 \notin Usable(n)
    BY DEF Usable
  <1>3. ASSUME Interfaces[n + 1].family # "null" /\ UpRunning(Interfaces[n + 1])
        PROVE  Cardinality(Usable(n + 1)) = Cardinality(Usable(n)) + 1
    <2>1. Usable(n + 1) = Usable(n) \cup {n + 1}
      BY <1>3 DEF Usable
    <2> QED BY <1>2, <2>1, UsableFinite, FS_AddElement
  <1>4. ASSUME ~(Interfaces[n + 1].family # "null" /\ UpRunning(Interfaces[n + 1]))
        PROVE  Cardinality(Usable(n + 1)) = Cardinality(Usable(n))
    <2>1. Usable(n + 1) = Usable(n)
      BY <1>4 DEF Usable
    <2> QED BY <2>1
  <1>5. ASSUME n <= Len(Interfaces) PROVE Cardinality(Usable(n)) <= UsableTotal
    <2>1. Len(Interfaces) \in Nat
      BY EngineAssumption
    <2>2. Usable(n) \subseteq Usable(Len(Interfaces))
      BY <1>5, <2>1 DEF Usable
    <2> QED BY <2>1, <2>2, UsableFinite, FS_Subset DEF UsableTotal
  <1>6. Cardinality(Usable(0)) = 0
    BY <1>1, FS_EmptySet
  <1> QED BY <1>3, <1>4, <1>5, <1>6

LEMMA BoundFacts ==
    ASSUME NEW k \in Nat
    PROVE  /\ Entries(k) \in Nat /\ Twice(k) \in Nat
           /\ Entries(k + 1) = Entries(k) + UsableTotal
           /\ Twice(k + 1) = Twice(k) + 2 * Entries(k + 1)
           /\ UsableTotal \in Nat /\ Entries(0) = 0 /\ Twice(0) = 0
  <1>1. UsableTotal \in Nat
    BY UsableFinite, EngineAssumption DEF UsableTotal
  <1> DEFINE u == UsableTotal
  <1> HIDE DEF u
  <1>2. u \in Nat
    BY <1>1 DEF u
  <1>3. /\ u * k \in Nat /\ u * k * (k + 1) \in Nat
        /\ u * (k + 1) = u * k + u
        /\ u * (k + 1) * (k + 1 + 1) = u * k * (k + 1) + 2 * (u * (k + 1))
        /\ u * 0 = 0 /\ u * 0 * (0 + 1) = 0
    BY <1>2
  <1> QED BY <1>1, <1>3 DEF u, Entries, Twice

\* The steps that the descriptors and the devices do not notice.
LEMMA DescriptorsFrame ==
    ASSUME [Next]_vars
    PROVE  \/ \E callbacks \in Callbacks : InitCall(callbacks)
           \/ NextDevice \/ DevicesDone \/ OpenDone
           \/ \E outcome \in DOMAIN PcapAfter : OpenDevice(outcome)
           \/ UNCHANGED <<pc, idx, devices, handles, leaked, inits>>
           \/ /\ pc \notin {"ifaddrs", "open"} /\ pc' \notin {"ifaddrs", "open"}
              /\ pc' = "idle" => idx' = 0
              /\ UNCHANGED <<devices, handles, leaked, inits>>
  BY DEF Next, CallStep, ClientStep, vars, AdoptPids, UpdatePids, RefreshMaps, RefreshDone,
         UpdateCall, Dispatch, DispatchFails, HandlePacket, DispatchDone, GetCpuTotal,
         MergeErase, MergeKeep, MergeDone, CopyRow, PublishRows, DeliverPackets, SystemStep,
         OsStep, FrameArrives, Goto, Return, callVars, capVars

LEMMA DescriptorsNext ==
    ASSUME IndInv, DescriptorsInv, [Next]_vars
    PROVE  DescriptorsInv'
  <1>0. /\ idx \in Nat /\ inits \in Nat /\ leaked \in Nat /\ Len(handles) \in Nat
        /\ devices \in Seq(Device) /\ Len(devices) \in Nat /\ Len(Interfaces) \in Nat
        /\ handles \in Seq(STRING)
    BY EngineAssumption DEF IndInv, TypeOK, CallTypeOK, CapTypeOK
  <1>1. /\ UsableTotal \in Nat /\ Entries(inits) \in Nat /\ Twice(inits) \in Nat
    BY <1>0, BoundFacts
  <1>2. ASSUME NEW callbacks \in Callbacks, InitCall(callbacks) PROVE DescriptorsInv'
    <2>1. /\ pc = "idle" /\ pc' = "ifaddrs" /\ inits' = inits + 1
          /\ UNCHANGED <<idx, devices, handles, leaked>>
      BY <1>2 DEF InitCall
    <2>2. inits' - 1 = inits /\ Cardinality(Usable(0)) = 0
      BY <1>0, <2>1, UsableGrows
    <2>3. idx' = 0 /\ Cardinality(Usable(idx')) = 0 /\ Entries(inits' - 1) = Entries(inits)
          /\ Twice(inits' - 1) = Twice(inits) /\ Opened' = Opened
      BY <2>1, <2>2 DEF DescriptorsInv, Opened
    <2> QED BY <1>0, <1>1, <2>1, <2>3 DEF DescriptorsInv
  <1>3. CASE NextDevice
    <2>1. /\ pc = "ifaddrs" /\ idx < Len(Interfaces) /\ pc' = pc /\ idx' = idx + 1
          /\ UNCHANGED <<handles, leaked, inits>>
      BY <1>3 DEF NextDevice, Goto, capVars
    <2>2. /\ Cardinality(Usable(idx)) \in Nat /\ Cardinality(Usable(idx + 1)) \in Nat
          /\ inits >= 1 /\ inits - 1 \in Nat /\ Entries(inits - 1) \in Nat
      BY <1>0, <2>1, UsableFinite, BoundFacts DEF DescriptorsInv
    <2>3. Len(devices') <= Entries(inits - 1) + Cardinality(Usable(idx + 1))
      <3>1. CASE Interfaces[idx + 1].family # "null" /\ UpRunning(Interfaces[idx + 1])
        <4>1. Interfaces[idx + 1] \in Device
          BY <1>0, <2>1, EngineAssumption
        <4>2. Len(devices') = Len(devices) + 1
          BY <1>0, <1>3, <3>1, <4>1 DEF NextDevice
        <4>3. Cardinality(Usable(idx + 1)) = Cardinality(Usable(idx)) + 1
          BY <1>0, <3>1, UsableGrows
        <4>4. Len(devices) <= Entries(inits - 1) + Cardinality(Usable(idx))
          BY <2>1 DEF DescriptorsInv
        <4>5. Len(devices) \in Nat
          BY <1>0
        <4> QED BY ONLY <2>2, <4>2, <4>3, <4>4, <4>5
      <3>2. CASE ~(Interfaces[idx + 1].family # "null" /\ UpRunning(Interfaces[idx + 1]))
        <4>1. devices' = devices
          BY <1>3, <3>2 DEF NextDevice
        <4>2. Cardinality(Usable(idx + 1)) = Cardinality(Usable(idx))
          BY <1>0, <3>2, UsableGrows
        <4> QED BY <1>0, <2>1, <2>2, <4>1, <4>2 DEF DescriptorsInv
      <3> QED BY <3>1, <3>2
    <2>4. Opened' = Opened /\ Entries(inits' - 1) = Entries(inits - 1) /\ Twice(inits' - 1) = Twice(inits - 1)
          /\ Usable(idx') = Usable(idx + 1)
      BY <2>1 DEF Opened
    <2> QED BY <1>0, <2>1, <2>2, <2>3, <2>4 DEF DescriptorsInv
  <1>4. CASE DevicesDone
    <2>1. /\ pc = "ifaddrs" /\ UNCHANGED <<devices, handles, leaked, inits>> /\ idx' = 0
          /\ pc' \in {"idle", "open"}
      BY <1>4 DEF DevicesDone, Return, Goto, capVars
    <2> DEFINE k == inits - 1
    <2>2. k \in Nat /\ inits = k + 1 /\ inits >= 1
      BY <1>0, <2>1 DEF DescriptorsInv
    <2>3. /\ Entries(inits) = Entries(k) + UsableTotal /\ Twice(inits) = Twice(k) + 2 * Entries(inits)
          /\ Entries(k) \in Nat /\ Twice(k) \in Nat
      <3> HIDE DEF k
      <3> QED BY <2>2, BoundFacts
    <2>4. Cardinality(Usable(idx)) <= UsableTotal /\ Cardinality(Usable(idx)) \in Nat
      BY <1>0, <2>1, UsableGrows, UsableFinite DEF DescriptorsInv
    <2>5. Len(devices) <= Entries(k) + Cardinality(Usable(idx)) /\ Opened <= Twice(k)
      BY <2>1 DEF DescriptorsInv
    <2>6. Opened' = Opened /\ Opened \in Nat
      BY <1>0, <2>1 DEF Opened
    <2>7. Len(devices) <= Entries(inits) /\ Opened <= Twice(inits)
      <3>1. Len(devices) \in Nat /\ UsableTotal \in Nat /\ Entries(inits) \in Nat
        BY <1>0, <1>1
      <3> HIDE DEF k
      <3>2. Len(devices) <= Entries(inits)
        BY ONLY <2>3, <2>4, <2>5, <3>1
      <3>3. Opened <= Twice(inits)
        BY ONLY <2>3, <2>5, <2>6, <3>1
      <3> QED BY <3>2, <3>3
    <2>8. Entries(inits') = Entries(inits) /\ Twice(inits') = Twice(inits) /\ Twice(inits' - 1) = Twice(k)
      BY <2>1
    <2> QED BY <1>0, <2>1, <2>2, <2>3, <2>5, <2>6, <2>7, <2>8 DEF DescriptorsInv
  <1>5. ASSUME NEW outcome, OpenDevice(outcome) PROVE DescriptorsInv'
    <2>1. /\ pc = "open" /\ pc' = pc /\ idx < Len(devices) /\ idx' = idx + 1
          /\ UNCHANGED <<devices, inits>>
      BY <1>5 DEF OpenDevice, Goto
    <2>2. Len(handles') + leaked' <= Len(handles) + leaked + 1
          /\ Len(handles') \in Nat /\ leaked' \in Nat
      <3>1. devices[idx + 1].name \in STRING
        <4>1. idx + 1 \in 1..Len(devices)
          BY <1>0, <2>1
        <4>2. devices[idx + 1] \in Device
          BY <1>0, <4>1
        <4> QED BY <4>2 DEF Device
      <3>2. Len(Append(handles, devices[idx + 1].name)) = Len(handles) + 1
        BY <1>0, <3>1
      <3>3. CASE PcapAfter[outcome] = "kept"
        BY <1>0, <1>5, <3>2, <3>3 DEF OpenDevice
      <3>4. CASE PcapAfter[outcome] # "kept"
        BY <1>0, <1>5, <3>4 DEF OpenDevice
      <3> QED BY <3>3, <3>4
    <2>3. Opened' <= Opened + 2 /\ Opened' \in Nat /\ Opened \in Nat
      BY <1>0, <2>2 DEF Opened
    <2>4. inits - 1 \in Nat /\ Twice(inits - 1) \in Nat /\ Opened <= Twice(inits - 1) + 2 * idx
      BY <1>0, <2>1, BoundFacts DEF DescriptorsInv
    <2>5. Twice(inits' - 1) = Twice(inits - 1) /\ Entries(inits') = Entries(inits)
      BY <2>1
    <2>6. Opened' <= Twice(inits' - 1) + 2 * idx'
      <3>1. idx \in Nat
        BY <1>0
      <3> HIDE DEF Opened
      <3> QED BY ONLY <2>1, <2>3, <2>4, <2>5, <3>1
    <2>7. idx' <= Len(devices') /\ inits' >= 1
      BY <1>0, <2>1, <2>4
    <2>8. Len(devices') <= Entries(inits')
      BY <2>1, <2>5 DEF DescriptorsInv
    <2> QED BY <2>1, <2>6, <2>7, <2>8 DEF DescriptorsInv
  <1>6. CASE OpenDone
    <2>1. /\ pc = "open" /\ pc' = "pids" /\ idx = Len(devices)
          /\ UNCHANGED <<devices, handles, leaked, inits>>
      BY <1>6 DEF OpenDone, Goto, capVars
    <2> DEFINE k == inits - 1
    <2>2. k \in Nat /\ inits = k + 1
      BY <1>0, <2>1 DEF DescriptorsInv
    <2>3. Twice(inits) = Twice(k) + 2 * Entries(inits) /\ Twice(k) \in Nat
      <3> HIDE DEF k
      <3> QED BY <2>2, BoundFacts
    <2>4. Opened <= Twice(k) + 2 * idx /\ Len(devices) <= Entries(inits)
      BY <2>1 DEF DescriptorsInv
    <2>5. Opened' = Opened /\ Opened \in Nat
      BY <1>0, <2>1 DEF Opened
    <2>6. Opened <= Twice(inits)
      <3>1. idx \in Nat /\ Entries(inits) \in Nat
        BY <1>0, <1>1
      <3> HIDE DEF k
      <3> QED BY ONLY <2>1, <2>3, <2>4, <2>5, <3>1
    <2> QED BY <2>1, <2>4, <2>5, <2>6 DEF DescriptorsInv
  <1>7. CASE UNCHANGED <<pc, idx, devices, handles, leaked, inits>>
    BY <1>7 DEF DescriptorsInv, Opened
  <1>8. CASE /\ pc \notin {"ifaddrs", "open"} /\ pc' \notin {"ifaddrs", "open"}
             /\ pc' = "idle" => idx' = 0
             /\ UNCHANGED <<devices, handles, leaked, inits>>
    BY <1>8 DEF DescriptorsInv, Opened
  <1> QED BY <1>2, <1>3, <1>4, <1>5, <1>6, <1>7, <1>8, DescriptorsFrame

\* However often CaptureInit is called and whatever fails in it, the descriptors
\* stay within k per usable interface for the k-th call.
THEOREM DescriptorsCorrect == Spec => []DescriptorsBounded
  <1>1. Init => DescriptorsInv
    <2>1. Entries(0) = 0 /\ Twice(0) = 0
      BY BoundFacts
    <2> QED BY <2>1 DEF Init, DescriptorsInv, Opened
  <1>2. IndInv /\ DescriptorsInv /\ [Next]_vars => DescriptorsInv'
    BY DescriptorsNext
  <1>3. IndInv /\ DescriptorsInv => DescriptorsBounded
    <2> SUFFICES ASSUME IndInv, DescriptorsInv PROVE DescriptorsBounded
      OBVIOUS
    <2>0. /\ inits \in Nat /\ idx \in Nat /\ leaked \in Nat /\ Len(handles) \in Nat
          /\ Len(devices) \in Nat
      BY DEF IndInv, TypeOK, CallTypeOK, CapTypeOK
    <2>1. Opened <= Twice(inits)
      <3>1. CASE pc \notin {"ifaddrs", "open"}
        BY <3>1 DEF DescriptorsInv
      <3>2. CASE pc \in {"ifaddrs", "open"}
        <4> DEFINE k == inits - 1
        <4>1. k \in Nat /\ inits = k + 1
          BY <2>0, <3>2 DEF DescriptorsInv
        <4>2. /\ Twice(inits) = Twice(k) + 2 * Entries(inits) /\ Twice(k) \in Nat
              /\ Entries(inits) \in Nat
          <5> HIDE DEF k
          <5> QED BY <2>0, <4>1, BoundFacts
        <4>3. Opened <= Twice(k) \/ (Opened <= Twice(k) + 2 * idx /\ idx <= Entries(inits))
          BY <2>0, <3>2, <4>2 DEF DescriptorsInv
        <4>4. Opened \in Nat
          BY <2>0 DEF Opened
        <4> QED BY <2>0, <4>2, <4>3, <4>4
      <3> QED BY <3>1, <3>2
    <2>2. Usable(Len(Interfaces)) = {i \in DOMAIN Interfaces :
                                       Interfaces[i].family # "null" /\ UpRunning(Interfaces[i])}
      BY EngineAssumption DEF Usable
    <2> QED BY <2>1, <2>2 DEF DescriptorsBounded, Opened, Twice, UsableTotal
  <1> QED BY <1>1, <1>2, <1>3, IndInvAlways, PTL DEF Spec
==============================================================================
