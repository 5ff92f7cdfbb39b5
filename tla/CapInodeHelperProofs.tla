------------------------ MODULE CapInodeHelperProofs ------------------------
(***************************************************************************)
(* What each step of the inode helper preserves, for every number of       *)
(* processes, sockets and devices.  The lemmas are about the actions, so   *)
(* that both the helper by itself and the engine can use them.             *)
(***************************************************************************)
EXTENDS CapInodeHelper, FiniteSetTheorems, WellFoundedInduction, TLAPS

(***************************************************************************)
(* The inductive invariant behind LookupComplete.  A stable pair is held;  *)
(* the keys of its socket are in the map once its file was parsed; and     *)
(* once the fd directory of its process was read, the socket has an owner  *)
(* that is not smaller.  The last part needs that the directories are read *)
(* in the order of the pids.                                               *)
(***************************************************************************)
ParsedFiles ==
    CASE refresh = "tcp"  -> {}
      [] refresh = "tcp6" -> {"tcp"}
      [] refresh = "udp"  -> {"tcp", "tcp6"}
      [] refresh = "udp6" -> {"tcp", "tcp6", "udp"}
      [] OTHER            -> {"tcp", "tcp6", "udp", "udp6"}

KeysOfRows == \A k \in DOMAIN netToInodes : k \in RowKeys(netToInodes[k])

StableHeld == \A h \in stable : h.pid \in holder[h.inode]

RowsEntered ==
    refresh # "error" =>
        \A h \in stable : Row[h.inode].file \in ParsedFiles
                            => RowKeys(h.inode) \subseteq DOMAIN netToInodes

Unscanned == refresh \in DOMAIN NextFile => \A h \in stable : h.pid \in fdIt

ScanOrdered == \A h \in stable : h.pid \notin fdIt => \A q \in fdIt : h.pid < q

OwnersEntered ==
    refresh = "fds" =>
        \A h \in stable : h.pid \notin fdIt
                            => h.inode \in DOMAIN inodeToPids
                                 /\ inodeToPids[h.inode] >= h.pid

HelperInv ==
    /\ HelperTypeOK /\ devices \in Seq(Device)
    /\ KeysOfRows /\ StableHeld /\ RowsEntered
    /\ Unscanned /\ ScanOrdered /\ OwnersEntered

\* The keys ParseBuffer enters for a row are well formed.
LEMMA RowKeysType ==
    ASSUME devices \in Seq(Device), NEW i \in Inodes
    PROVE  RowKeys(i) \subseteq Key
  <1>1. Row[i] \in RowType
    BY RowAssumption
  <1>2. \A a \in Addr, n \in Nat : Ntop(a, n) \in Text
    BY DEF Ntop, Addr, Text, NoText
  <1>3. OwnKey(i) \in Key
    <2>1. /\ Ntop(Row[i].local, 49) \in Text /\ Ntop(Row[i].remote, 49) \in Text
          /\ Row[i].remote.stem \in Text /\ Row[i].remote.group \in Nat
          /\ Row[i].lport \in Nat /\ Row[i].rport \in Nat
      BY <1>1, <1>2 DEF RowType, Addr, Ports
    <2>2. Joined(Row[i].remote.group, Row[i].rport) \in Nat
      <3>1. Shift(Row[i].rport) \in {10, 100, 1000, 10000, 100000}
        BY <2>1 DEF Shift
      <3>2. \A g, m, p \in Nat : g * m + p \in Nat
        OBVIOUS
      <3>3. Shift(Row[i].rport) \in Nat
        BY <3>1
      <3> QED
        BY <2>1, <3>2, <3>3, Zenon DEF Joined
    <2> QED
      BY <2>1, <2>2 DEF OwnKey, KeyText, Key, Ports
  <1>4. ASSUME NEW d \in 1..Len(devices) PROVE DeviceKey(devices[d], i) \in Key
    <2>1. devices[d] \in Device
      OBVIOUS
    <2>2. GetLocalAddr(devices[d]) \in Text
      BY <1>2, <2>1 DEF GetLocalAddr, Device, Text, NoText
    <2> QED
      BY <1>1, <1>2, <2>2 DEF DeviceKey, KeyText, Key, RowType, Ports
  <1> QED
    BY <1>3, <1>4 DEF RowKeys

\* A key of a row has the row's local port and peer, or is the row's own key with
\* the last group of the peer and the port run together.
LEMMA RowKeysMatch ==
    ASSUME NEW i \in Inodes, NEW k \in RowKeys(i)
    PROVE  k.lport = Row[i].lport /\ (SamePeer(k.remote, k.rport, Row[i])
                                       \/ GluedPeer(k.local, k.remote, k.rport, Row[i]))
  <1>1. CASE k = OwnKey(i)
    BY <1>1 DEF OwnKey, KeyText, SamePeer, GluedPeer
  <1>2. CASE \E d \in 1..Len(devices) : k = DeviceKey(devices[d], i)
    BY <1>2 DEF DeviceKey, KeyText, SamePeer
  <1> QED
    BY <1>1, <1>2 DEF RowKeys

\* The own key of a row is not the key of its packets: a packet's key ends in ':'
\* and the port, and no text is its own stem.
LEMMA OwnKeyNotLookedUp ==
    ASSUME NEW i \in Inodes, NEW local
    PROVE  OwnKey(i) # KeyText(local, Row[i].lport, Ntop(Row[i].remote, 49), Row[i].rport)
  <1> DEFINE row == Row[i]
             key == KeyText(local, row.lport, Ntop(row.remote, 49), row.rport)
  <1>1. row.remote \in Addr
    BY RowAssumption DEF RowType
  <1>2. Ntop(row.remote, 49) = row.remote.id
    BY <1>1 DEF Ntop, Addr
  <1>3. key.colon = TRUE /\ key.remote = row.remote.id
    BY <1>2 DEF KeyText
  <1>4. CASE row.remote.stem = NoText
    <2>1. OwnKey(i).colon = FALSE
      BY <1>4 DEF OwnKey, KeyText
    <2> QED BY <1>3, <2>1
  <1>5. CASE row.remote.stem # NoText
    <2>1. OwnKey(i).remote = row.remote.stem
      BY <1>5 DEF OwnKey, KeyText
    <2>2. row.remote.stem # row.remote.id
      BY <1>1, <1>5 DEF Addr
    <2> QED BY <1>3, <2>1, <2>2
  <1> QED BY <1>4, <1>5

\* A key that some row of the file has leads to such a row: one of them is the
\* nearest to the end.
LEMMA LastRowHasKey ==
    ASSUME NEW rows \in SUBSET Inodes, NEW place \in [rows -> 1..Cardinality(rows)],
           NEW k, \E i \in rows : k \in RowKeys(i)
    PROVE  LastRow(rows, place, k) \in rows /\ k \in RowKeys(LastRow(rows, place, k))
  <1> DEFINE mine == {i \in rows : k \in RowKeys(i)}
             places == {place[i] : i \in mine}
             less == OpToRel(<, Nat)
  <1>1. Cardinality(rows) \in Nat
    BY RowAssumption, FS_Subset, FS_CardinalityType
  <1>2. places \subseteq Nat /\ places # {}
    BY <1>1
  <1>3. IsWellFoundedOn(less, Nat)
    BY NatLessThanWellFounded
  <1>4. \A x, y \in Nat : <<y, x>> \notin less => x <= y
    BY DEF OpToRel
  <1>5. \E x \in places : \A y \in places : ~(<<y, x>> \in less)
    <2> HIDE DEF places, less
    <2> QED BY <1>2, <1>3, WFMin
  <1>6. PICK i \in mine : \A j \in mine : <<place[j], place[i]>> \notin less
    BY <1>5
  <1>7. \A j \in rows : k \in RowKeys(j) => place[i] <= place[j]
    <2>1. \A j \in rows : place[j] \in Nat
      BY <1>1
    <2> HIDE DEF less
    <2> QED BY <1>4, <1>6, <2>1
  <1> QED BY <1>6, <1>7 DEF LastRow

\* A step of the operating system keeps the types of its own state.
LEMMA OsTypeStep == OsTypeOK /\ OsNext => OsTypeOK'
  <1> SUFFICES ASSUME OsTypeOK, OsNext PROVE OsTypeOK'
    OBVIOUS
  <1> USE SelfAssumption DEF OsTypeOK
  <1>1. ASSUME NEW p \in Pids, Spawn(p) PROVE OsTypeOK'
    BY <1>1 DEF Spawn
  <1>2. ASSUME NEW p \in Pids, Exit(p) PROVE OsTypeOK'
    BY <1>2 DEF Exit
  <1>3. ASSUME NEW p \in Pids, NEW q \in Pids, Fork(p, q) PROVE OsTypeOK'
    BY <1>3 DEF Fork
  <1>4. ASSUME NEW p \in Pids, NEW i \in Inodes, Socket(p, i) PROVE OsTypeOK'
    BY <1>4 DEF Socket
  <1>5. ASSUME NEW p \in Pids, NEW i \in Inodes, Close(p, i) PROVE OsTypeOK'
    BY <1>5 DEF Close
  <1> QED
    BY <1>1, <1>2, <1>3, <1>4, <1>5 DEF OsNext

\* Every step of Refresh keeps the types of the maps.
LEMMA HelperTypeRefresh ==
    ASSUME HelperTypeOK, devices \in Seq(Device), RefreshStep, UNCHANGED <<osVars, devices>>
    PROVE  HelperTypeOK'
  <1>1. UNCHANGED <<alive, holder, stable>>
    BY DEF RefreshStep, ParseFile, ParseFails, ScanPid, ScanFails, osVars
  <1>2. OsTypeOK'
    BY <1>1 DEF HelperTypeOK, OsTypeOK
  <1>3. CASE ParseFile
    <2> DEFINE rows == RowsOf(refresh)
               keys == UNION {RowKeys(i) : i \in rows}
    <2>1. PICK place \in [rows -> 1..Cardinality(rows)] :
            netToInodes' = [k \in DOMAIN netToInodes \cup keys |->
                              IF k \in keys THEN LastRow(rows, place, k)
                                            ELSE netToInodes[k]]
      BY <1>3 DEF ParseFile
    <2>2. rows \subseteq Inodes /\ keys \subseteq Key
      BY RowKeysType DEF RowsOf
    <2>5. \A k \in keys : LastRow(rows, place, k) \in rows
      <3> HIDE DEF rows
      <3> QED BY <2>2, LastRowHasKey
    <2>3. netToInodes' \in [DOMAIN netToInodes' -> Inodes] /\ DOMAIN netToInodes' \subseteq Key
      <3> HIDE DEF rows, keys
      <3> QED BY <2>1, <2>2, <2>5 DEF HelperTypeOK
    <2>4. refresh' \in DOMAIN NextFile \cup {"fds", "error"} /\ UNCHANGED <<inodeToPids, fdIt>>
      BY <1>3 DEF ParseFile, NextFile
    <2> QED
      BY <1>1, <1>2, <2>3, <2>4 DEF HelperTypeOK
  <1>4. CASE ParseFails
    BY <1>1, <1>2, <1>4 DEF HelperTypeOK, ParseFails
  <1>5. ASSUME NEW p \in Pids, ScanPid(p) PROVE HelperTypeOK'
    BY <1>1, <1>2, <1>5 DEF HelperTypeOK, ScanPid
  <1>6. ASSUME NEW p \in Pids, ScanFails(p) PROVE HelperTypeOK'
    BY <1>1, <1>2, <1>6 DEF HelperTypeOK, ScanFails
  <1> QED
    BY <1>3, <1>4, <1>5, <1>6 DEF RefreshStep

\* So does its beginning.
LEMMA HelperTypeBegin ==
    ASSUME HelperTypeOK, NEW listed \in SUBSET Pids, RefreshBegin(listed), UNCHANGED osVars
    PROVE  HelperTypeOK'
  BY DEF HelperTypeOK, OsTypeOK, RefreshBegin, NoEntries, NextFile, Held, osVars

\* Whatever the operating system does, the maps keep what they say of the
\* pairs that are still stable.
LEMMA HelperInvOs == HelperInv /\ OsStep => HelperInv'
  <1> SUFFICES ASSUME HelperInv, OsStep PROVE HelperInv'
    OBVIOUS
  <1>1. OsTypeOK'
    BY OsTypeStep DEF HelperInv, HelperTypeOK, OsStep
  <1>2. stable' \subseteq stable
    BY DEF OsStep
  <1>3. UNCHANGED <<devices, netToInodes, inodeToPids, refresh, fdIt>>
    BY DEF OsStep
  <1>4. HelperTypeOK' /\ (devices \in Seq(Device))'
    BY <1>1, <1>2, <1>3 DEF HelperInv, HelperTypeOK
  <1>5. KeysOfRows'
    BY <1>3 DEF HelperInv, KeysOfRows, RowKeys, OwnKey, DeviceKey
  <1>6. StableHeld'
    BY DEF OsStep, StableHeld
  <1>7. RowsEntered'
    BY <1>2, <1>3 DEF HelperInv, RowsEntered, ParsedFiles, RowKeys
  <1>8. Unscanned' /\ ScanOrdered' /\ OwnersEntered'
    BY <1>2, <1>3 DEF HelperInv, Unscanned, ScanOrdered, OwnersEntered
  <1> QED
    BY <1>4, <1>5, <1>6, <1>7, <1>8 DEF HelperInv

\* Refresh starts with empty maps and a listing that covers the stable pairs.
LEMMA HelperInvBegin ==
    ASSUME HelperTypeOK, devices \in Seq(Device), NEW listed \in SUBSET Pids,
           RefreshBegin(listed), UNCHANGED <<osVars, devices>>
    PROVE  HelperInv'
  <1> USE DEF RefreshBegin, NoEntries, osVars
  <1>1. HelperTypeOK' /\ (devices \in Seq(Device))'
    BY HelperTypeBegin
  <1>2. KeysOfRows' /\ RowsEntered'
    BY DEF KeysOfRows, RowsEntered, ParsedFiles
  <1>3. StableHeld' /\ Unscanned' /\ ScanOrdered' /\ OwnersEntered'
    BY DEF StableHeld, Unscanned, ScanOrdered, OwnersEntered, Held
  <1> QED
    BY <1>1, <1>2, <1>3 DEF HelperInv

\* Parsing a file enters the keys of every stable pair listed in it.
LEMMA HelperInvParse ==
    ASSUME HelperInv, ParseFile, UNCHANGED <<osVars, devices>>
    PROVE  HelperInv'
  <1> DEFINE rows == RowsOf(refresh)
             keys == UNION {RowKeys(i) : i \in rows}
  <1>8. PICK place \in [rows -> 1..Cardinality(rows)] :
          netToInodes' = [k \in DOMAIN netToInodes \cup keys |->
                            IF k \in keys THEN LastRow(rows, place, k)
                                          ELSE netToInodes[k]]
    BY DEF ParseFile
  <1>1. /\ DOMAIN netToInodes' = DOMAIN netToInodes \cup keys
        /\ \A k \in keys : k \in RowKeys(netToInodes'[k])
        /\ \A k \in DOMAIN netToInodes \ keys : netToInodes'[k] = netToInodes[k]
    <2>1. rows \in SUBSET Inodes
      BY DEF RowsOf
    <2>2. \A k \in keys : k \in RowKeys(LastRow(rows, place, k))
      <3> HIDE DEF rows
      <3> QED BY <2>1, LastRowHasKey
    <2> HIDE DEF rows, keys
    <2> QED BY <1>8, <2>2
  <1>2. /\ refresh \in DOMAIN NextFile
        /\ refresh' = NextFile[refresh]
        /\ UNCHANGED <<inodeToPids, fdIt, stable, alive, holder, devices>>
    BY DEF ParseFile, osVars
  <1>3. \A i \in Inodes : RowKeys(i)' = RowKeys(i)
    BY <1>2 DEF RowKeys, OwnKey, DeviceKey
  <1>4. HelperTypeOK' /\ (devices \in Seq(Device))'
    BY HelperTypeRefresh DEF HelperInv, RefreshStep, osVars
  <1>5. KeysOfRows'
    <2>1. ASSUME NEW k \in DOMAIN netToInodes'
          PROVE  k \in RowKeys(netToInodes'[k])
      <3>1. CASE k \in keys
        BY <1>1, <3>1
      <3>2. CASE k \notin keys
        BY <1>1, <3>2 DEF HelperInv, KeysOfRows
      <3> QED
        BY <3>1, <3>2
    <2> QED
      BY <1>2, <2>1 DEF KeysOfRows, RowKeys, OwnKey, DeviceKey
  <1>6. RowsEntered'
    <2> SUFFICES ASSUME NEW h \in stable', Row[h.inode].file \in ParsedFiles'
                 PROVE  RowKeys(h.inode)' \subseteq DOMAIN netToInodes'
      BY DEF RowsEntered
    <2>1. h \in stable /\ h.inode \in Inodes /\ holder[h.inode] # {}
      BY <1>2 DEF HelperInv, HelperTypeOK, StableHeld
    <2>2. ParsedFiles' = ParsedFiles \cup {refresh} /\ refresh # "error"
      BY <1>2 DEF ParsedFiles, NextFile
    <2>3. CASE Row[h.inode].file = refresh
      BY <1>1, <1>3, <2>1, <2>3 DEF RowsOf
    <2>4. CASE Row[h.inode].file # refresh
      BY <1>1, <1>3, <2>1, <2>2, <2>4 DEF HelperInv, RowsEntered
    <2> QED
      BY <2>3, <2>4
  <1>7. StableHeld' /\ Unscanned' /\ ScanOrdered' /\ OwnersEntered'
    BY <1>2 DEF HelperInv, StableHeld, Unscanned, ScanOrdered, OwnersEntered, NextFile
  <1> QED
    BY <1>4, <1>5, <1>6, <1>7 DEF HelperInv

\* Reading the fd directory of the next process gives its sockets an owner.
LEMMA HelperInvScan ==
    ASSUME HelperInv, NEW p \in Pids, ScanPid(p), UNCHANGED <<osVars, devices>>
    PROVE  HelperInv'
  <1> USE PidsAssumption
  <1> DEFINE mine == {i \in Inodes : p \in holder[i]}
  <1>1. /\ refresh = "fds" /\ PointsTo(fdIt, p) /\ fdIt' = fdIt \ {p}
        /\ inodeToPids' = [i \in DOMAIN inodeToPids \cup mine |->
                             IF i \in mine THEN p ELSE inodeToPids[i]]
        /\ UNCHANGED <<netToInodes, refresh, stable, alive, holder, devices>>
    BY DEF ScanPid, osVars
  <1>2. HelperTypeOK' /\ (devices \in Seq(Device))'
    BY HelperTypeRefresh DEF HelperInv, RefreshStep, osVars
  <1>3. KeysOfRows' /\ StableHeld' /\ RowsEntered'
    BY <1>1 DEF HelperInv, KeysOfRows, StableHeld, RowsEntered, ParsedFiles,
                RowKeys, OwnKey, DeviceKey
  <1>4. Unscanned'
    BY <1>1 DEF Unscanned, NextFile
  <1>5. ScanOrdered'
    BY <1>1 DEF HelperInv, HelperTypeOK, ScanOrdered, PointsTo
  <1>6. OwnersEntered'
    <2> SUFFICES ASSUME NEW h \in stable, h.pid \notin fdIt \ {p}
                 PROVE  h.inode \in DOMAIN inodeToPids' /\ inodeToPids'[h.inode] >= h.pid
      BY <1>1 DEF OwnersEntered
    <2>1. h.pid \in holder[h.inode] /\ h.inode \in Inodes /\ h.pid \in Nat /\ p \in Nat
      BY DEF HelperInv, HelperTypeOK, StableHeld
    <2>2. CASE h.pid = p
      BY <1>1, <2>1, <2>2
    <2>3. CASE h.pid # p
      <3>1. h.pid < p /\ h.inode \in DOMAIN inodeToPids /\ inodeToPids[h.inode] >= h.pid
        BY <1>1, <2>3 DEF HelperInv, ScanOrdered, OwnersEntered, PointsTo
      <3> QED
        BY <1>1, <2>1, <3>1
    <2> QED
      BY <2>2, <2>3
  <1> QED
    BY <1>2, <1>3, <1>4, <1>5, <1>6 DEF HelperInv

\* A call that fails ends the Refresh, and the invariant claims little then.
LEMMA HelperInvFails ==
    ASSUME HelperInv, ParseFails \/ \E p \in Pids : ScanFails(p),
           UNCHANGED <<osVars, devices>>
    PROVE  HelperInv'
  <1>1. /\ refresh' = "error" /\ fdIt' = {}
        /\ UNCHANGED <<netToInodes, inodeToPids, stable, alive, holder, devices>>
    BY DEF ParseFails, ScanFails, osVars
  <1>2. HelperTypeOK' /\ (devices \in Seq(Device))'
    BY HelperTypeRefresh DEF HelperInv, RefreshStep, osVars
  <1>3. KeysOfRows' /\ StableHeld' /\ RowsEntered'
    BY <1>1 DEF HelperInv, KeysOfRows, StableHeld, RowsEntered, RowKeys, OwnKey, DeviceKey
  <1>4. Unscanned' /\ ScanOrdered' /\ OwnersEntered'
    BY <1>1 DEF Unscanned, ScanOrdered, OwnersEntered, NextFile
  <1> QED
    BY <1>2, <1>3, <1>4 DEF HelperInv

\* Every step of Refresh preserves the invariant.
LEMMA HelperInvRefresh ==
    ASSUME HelperInv, RefreshStep, UNCHANGED <<osVars, devices>>
    PROVE  HelperInv'
  BY HelperInvParse, HelperInvScan, HelperInvFails DEF RefreshStep

\* The invariant gives completeness: with a key of its own, a stable socket is
\* found under every device, with an owner that is not smaller.
LEMMA HelperInvComplete == HelperInv => LookupComplete
  <1> SUFFICES ASSUME HelperInv, RefreshOk, NEW h \in stable, NEW d \in 1..Len(devices),
                      \A j \in Inodes : DeviceKey(devices[d], h.inode) \in RowKeys(j)
                                          => j = h.inode
               PROVE  LET key == DeviceKey(devices[d], h.inode)
                      IN  Found(key) /\ PidByIp(key) >= h.pid
    BY DEF LookupComplete
  <1> DEFINE key == DeviceKey(devices[d], h.inode)
  <1>1. h.inode \in Inodes /\ Row[h.inode].file \in ParsedFiles
    <2>1. h.inode \in Inodes
      BY DEF HelperInv, HelperTypeOK
    <2>2. Row[h.inode].file \in {"tcp", "tcp6", "udp", "udp6"}
      BY <2>1, RowAssumption DEF RowType
    <2> QED
      BY <2>1, <2>2 DEF ParsedFiles, RefreshOk
  <1>2. key \in DOMAIN netToInodes
    BY <1>1 DEF HelperInv, RowsEntered, RefreshOk, RowKeys
  <1>3. netToInodes[key] = h.inode
    BY <1>2 DEF HelperInv, HelperTypeOK, KeysOfRows
  <1>4. h.inode \in DOMAIN inodeToPids /\ inodeToPids[h.inode] >= h.pid
    BY DEF HelperInv, OwnersEntered, RefreshOk
  <1> QED
    BY <1>2, <1>3, <1>4 DEF Found, PidByIp

\* The invariant gives soundness of the keys up to the local address.
LEMMA HelperInvKeys == HelperInv => KeysMatch
  BY RowKeysMatch DEF HelperInv, HelperTypeOK, KeysOfRows, KeysMatch

\* Both packets have the key with the local end first.
LEMMA PacketKey ==
    ASSUME NEW i, NEW packet \in PacketsOf(i),
           IsLocal(devices, Row[i].family, Row[i].local), ~IsLocal(devices, Row[i].family, Row[i].remote)
    PROVE  Hash(packet) = KeyText(Ntop(Row[i].local, 49), Row[i].lport,
                                  Ntop(Row[i].remote, 49), Row[i].rport)
  <1> DEFINE row == Row[i]
  <1>1. CASE packet = NewPacket(devices, row.family, row.local, row.lport, row.remote, row.rport, 0)
    <2>1. /\ packet.src = row.local /\ packet.sport = row.lport /\ packet.dir = "Outgoing"
          /\ packet.dst = row.remote /\ packet.dport = row.rport
      BY <1>1 DEF NewPacket
    <2> QED BY <2>1 DEF Hash, IsOutgoing, Link
  <1>2. CASE packet = NewPacket(devices, row.family, row.remote, row.rport, row.local, row.lport, 0)
    <2>1. /\ packet.src = row.remote /\ packet.sport = row.rport /\ packet.dir = "Incoming"
          /\ packet.dst = row.local /\ packet.dport = row.lport
      BY <1>2 DEF NewPacket
    <2> QED BY <2>1 DEF Hash, IsOutgoing
  <1> QED BY <1>1, <1>2 DEF PacketsOf

\* The invariant and completeness give the attribution of packets: a key with its
\* colon is the key of a device.
LEMMA HelperInvPackets == HelperInv => PacketAttributed
  <1> SUFFICES ASSUME HelperInv, RefreshOk, NEW h \in stable, NEW packet \in PacketsOf(h.inode),
                      IsLocal(devices, Row[h.inode].family, Row[h.inode].local),
                      ~IsLocal(devices, Row[h.inode].family, Row[h.inode].remote),
                      \A j \in Inodes : Hash(packet) \in RowKeys(j) => j = h.inode
               PROVE  LET kept == \E d \in 1..Len(devices) :
                                     GetLocalAddr(devices[d]) = Ntop(Row[h.inode].local, 49)
                      IN  /\ Found(Hash(packet)) <=> kept
                          /\ kept => PidByIp(Hash(packet)) >= h.pid
    BY DEF PacketAttributed
  <1> DEFINE key == Hash(packet)
             row == Row[h.inode]
             a == Ntop(row.local, 49)
             b == Ntop(row.remote, 49)
  <1>1. key = KeyText(a, row.lport, b, row.rport)
    BY PacketKey
  <1>2. ASSUME NEW d \in 1..Len(devices), GetLocalAddr(devices[d]) = a
        PROVE  Found(key) /\ PidByIp(key) >= h.pid
    <2>1. DeviceKey(devices[d], h.inode) = key
      BY <1>1, <1>2 DEF DeviceKey
    <2> QED BY <2>1, HelperInvComplete DEF LookupComplete
  <1>3. ASSUME Found(key)
        PROVE  \E d \in 1..Len(devices) : GetLocalAddr(devices[d]) = a
    <2>1. PICK i \in Inodes : key \in RowKeys(i)
      BY <1>3 DEF Found, HelperInv, HelperTypeOK, KeysOfRows
    <2>2. key # OwnKey(i)
      <3>1. i = h.inode
        BY <2>1
      <3> QED BY <1>1, <3>1, OwnKeyNotLookedUp
    <2>3. PICK d \in 1..Len(devices) : key = DeviceKey(devices[d], i)
      BY <2>1, <2>2 DEF RowKeys
    <2>4. key.local = a
      BY <1>1 DEF KeyText
    <2>5. key.local = GetLocalAddr(devices[d])
      BY <2>3 DEF DeviceKey, KeyText
    <2> QED BY <2>4, <2>5
  <1> QED BY <1>2, <1>3
=============================================================================
