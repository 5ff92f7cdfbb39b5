------------------------- MODULE InodeRefreshProofs -------------------------
(***************************************************************************)
(* What Refresh guarantees, for every number of processes, sockets and     *)
(* devices and every behaviour of the operating system.                    *)
(***************************************************************************)
EXTENDS InodeRefresh, CapInodeHelperProofs

\* The helper starts with empty maps and no stable pair.
LEMMA RefreshInvInit == InodeRefreshInit => HelperInv
  <1> SUFFICES ASSUME InodeRefreshInit PROVE HelperInv
    OBVIOUS
  <1> USE SelfAssumption, DeviceAssumption DEF InodeRefreshInit, OsInit, NoEntries
  <1>1. HelperTypeOK /\ devices \in Seq(Device)
    BY DEF HelperTypeOK, OsTypeOK
  <1>2. KeysOfRows /\ StableHeld /\ RowsEntered
    BY DEF KeysOfRows, StableHeld, RowsEntered
  <1>3. Unscanned /\ ScanOrdered /\ OwnersEntered
    BY DEF Unscanned, ScanOrdered, OwnersEntered
  <1> QED
    BY <1>1, <1>2, <1>3 DEF HelperInv

\* Every step of the system or of the helper preserves the invariant.
LEMMA RefreshInvStep == HelperInv /\ [InodeRefreshNext]_refreshVars => HelperInv'
  <1> SUFFICES ASSUME HelperInv, [InodeRefreshNext]_refreshVars PROVE HelperInv'
    OBVIOUS
  <1>1. CASE OsStep
    BY <1>1, HelperInvOs
  <1>2. CASE CallRefresh
    <2>1. alive \in SUBSET Pids
      BY DEF HelperInv, HelperTypeOK, OsTypeOK
    <2> QED
      BY <1>2, <2>1, HelperInvBegin DEF CallRefresh, HelperInv
  <1>3. CASE RefreshStep /\ UNCHANGED <<osVars, devices>>
    BY <1>3, HelperInvRefresh
  <1>4. CASE UNCHANGED refreshVars
    <2>1. UNCHANGED <<alive, holder, devices, netToInodes, inodeToPids, refresh, fdIt, stable>>
      BY <1>4 DEF refreshVars, helperVars
    <2>2. HelperTypeOK' /\ (devices \in Seq(Device))'
      BY <2>1 DEF HelperInv, HelperTypeOK, OsTypeOK
    <2>3. KeysOfRows' /\ StableHeld' /\ RowsEntered'
      BY <2>1 DEF HelperInv, KeysOfRows, StableHeld, RowsEntered, ParsedFiles,
                  RowKeys, OwnKey, DeviceKey
    <2>4. Unscanned' /\ ScanOrdered' /\ OwnersEntered'
      BY <2>1 DEF HelperInv, Unscanned, ScanOrdered, OwnersEntered
    <2> QED
      BY <2>2, <2>3, <2>4 DEF HelperInv
  <1> QED
    BY <1>1, <1>2, <1>3, <1>4 DEF InodeRefreshNext

\* Type correctness of the maps and of the system they describe.
THEOREM RefreshTypeCorrect == InodeRefreshSpec => []HelperTypeOK
  <1>1. HelperInv => HelperTypeOK
    BY DEF HelperInv
  <1> QED
    BY <1>1, RefreshInvInit, RefreshInvStep, PTL DEF InodeRefreshSpec

\* CapInodeHelper::Refresh, when it succeeds, leads every socket that a listed
\* process held all along, and whose key is its own, to an owner.
THEOREM RefreshComplete == InodeRefreshSpec => []LookupComplete
  BY HelperInvComplete, RefreshInvInit, RefreshInvStep, PTL DEF InodeRefreshSpec

\* A key of CapInodeHelper never leads to a socket with another local port or
\* another peer.
THEOREM RefreshKeysMatch == InodeRefreshSpec => []KeysMatch
  BY HelperInvKeys, RefreshInvInit, RefreshInvStep, PTL DEF InodeRefreshSpec

\* The key of a packet, from CapPacket::Hash, and the keys of its socket, from
\* ParseBuffer, meet exactly if LocalAddr kept the text of the local address.
THEOREM RefreshAttributes == InodeRefreshSpec => []PacketAttributed
  BY HelperInvPackets, RefreshInvInit, RefreshInvStep, PTL DEF InodeRefreshSpec
=============================================================================
