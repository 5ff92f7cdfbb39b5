--------------------------- MODULE CapInodeHelper ---------------------------
(***************************************************************************)
(* The two maps that lead from a packet to a process                       *)
(* (cap_inode_helper.cpp).  Refresh reads /proc/net/{tcp,tcp6,udp,udp6},   *)
(* one file per step, and then /proc/<pid>/fd, one process per step; the   *)
(* operating system moves between the steps.                               *)
(***************************************************************************)
EXTENDS ProcFs, CapPacket, FiniteSets

CONSTANTS
    Row,        \* Row[i]: the row of socket i in /proc/net
    Unreadable  \* processes whose fd directory opendir may not open

\* A row of /proc/net with the fields ParseBuffer extracts.  The family and the
\* addresses are those after its unmapping of ::ffff:a.b.c.d.
RowType == [file : {"tcp", "tcp6", "udp", "udp6"}, family : {"inet", "inet6"},
            local : Addr, lport : Ports, remote : Addr, rport : Ports]

ASSUME RowAssumption ==
    /\ IsFiniteSet(Inodes) /\ \A i \in Inodes : Row[i] \in RowType
    /\ Unreadable \subseteq Pids

VARIABLES
    devices,      \* CaptureCxx::devices, read through GetDevices
    netToInodes,  \* std::unordered_map<std::string, uint32_t>
    inodeToPids,  \* std::unordered_map<uint32_t, pid_t>
    refresh,      \* the file Refresh parses next, "fds", or "error"
    fdIt,         \* pids whose fd directory is still to be read
    stable        \* history: [pid, inode] held since this Refresh began

helperVars == <<netToInodes, inodeToPids, refresh, fdIt, stable>>

Held == {h \in [pid : Pids, inode : Inodes] : h.pid \in holder[h.inode]}

NoEntries == [x \in {} |-> 0]

\* Seeded fault: udp6 is forgotten.
NextFileShort == [tcp |-> "tcp6", tcp6 |-> "udp", udp |-> "fds"]

\* The file that RefreshToInodes parses after this one.
NextFile == [tcp |-> "tcp6", tcp6 |-> "udp", udp |-> "udp6", udp6 |-> "fds"]

RefreshOk == refresh = "fds" /\ fdIt = {}

RefreshOver == RefreshOk \/ refresh = "error"

\* The number whose digits are those of group and then those of port.
Shift(port) ==
    CASE port < 10    -> 10
      [] port < 100   -> 100
      [] port < 1000  -> 1000
      [] port < 10000 -> 10000
      [] OTHER        -> 100000

Joined(group, port) == group * Shift(port) + port

\* The key made of the socket's own addresses, which lacks the ':' before the
\* remote port.  Behind an IPv6 peer that ends in a decimal group, the port runs
\* on from that group, and the text is the key of the peer that is left without it.
OwnKey(i) ==
    LET row == Row[i]
        local == Ntop(row.local, 49)
    IN  IF row.remote.stem = NoText
        THEN [KeyText(local, row.lport, Ntop(row.remote, 49), row.rport) EXCEPT !.colon = FALSE]
        ELSE KeyText(local, row.lport, row.remote.stem, Joined(row.remote.group, row.rport))

\* Seeded fault: the ports are swapped.
DeviceKeySwapped(device, i) ==
    KeyText(GetLocalAddr(device), Row[i].rport, Ntop(Row[i].remote, 49), Row[i].lport)

\* The key with the address of a device in place of the socket's own.
DeviceKey(device, i) ==
    KeyText(GetLocalAddr(device), Row[i].lport, Ntop(Row[i].remote, 49), Row[i].rport)

\* All keys that ParseBuffer enters for one row.
RowKeys(i) == {OwnKey(i)} \cup {DeviceKey(devices[d], i) : d \in 1..Len(devices)}

\* The rows of a file.  A socket that nobody holds any more is listed with
\* inode 0, which ParseBuffer skips.
RowsOf(file) == {i \in Inodes : Row[i].file = file /\ holder[i] # {}}

\* Seeded fault: a name of /proc that is no number is listed as pid 0.
RefreshBeginZero(listed) ==
    /\ netToInodes' = NoEntries
    /\ inodeToPids' = NoEntries
    /\ refresh' = "tcp"
    /\ fdIt' = listed \cup {0}
    /\ stable' = {h \in Held : h.pid \in listed}

\* Seeded fault: the owners of the last round are not cleared.
RefreshBeginStale(listed) ==
    /\ netToInodes' = NoEntries
    /\ refresh' = "tcp"
    /\ fdIt' = listed
    /\ stable' = {h \in Held : h.pid \in listed}
    /\ UNCHANGED inodeToPids

\* Refresh: both maps are cleared first.
RefreshBegin(listed) ==
    /\ netToInodes' = NoEntries
    /\ inodeToPids' = NoEntries
    /\ refresh' = "tcp"
    /\ fdIt' = listed
    /\ stable' = {h \in Held : h.pid \in listed}

\* Of the rows with a key the one nearest to the end of the file, which is where
\* the map leads to; place[i] is the place of row i, counted from the end.
LastRow(rows, place, k) ==
    CHOOSE i \in rows : /\ k \in RowKeys(i)
                        /\ \A j \in rows : k \in RowKeys(j) => place[i] <= place[j]

\* Parse of one file.  The kernel lists the rows in an order of its own.
ParseFile ==
    /\ refresh \in DOMAIN NextFile
    /\ LET rows == RowsOf(refresh)
           keys == UNION {RowKeys(i) : i \in rows}
       IN  \E place \in [rows -> 1..Cardinality(rows)] :
             /\ \A i, j \in rows : place[i] = place[j] => i = j
             /\ netToInodes' = [k \in DOMAIN netToInodes \cup keys |->
                                  IF k \in keys THEN LastRow(rows, place, k)
                                                ELSE netToInodes[k]]
    /\ refresh' = NextFile[refresh]
    /\ UNCHANGED <<inodeToPids, fdIt, stable>>

\* A file does not open: Refresh returns at once and reads no fd directory.
ParseFails ==
    /\ "open_net" \in Faults
    /\ refresh \in DOMAIN NextFile
    /\ refresh' = "error"
    /\ fdIt' = {}
    /\ UNCHANGED <<netToInodes, inodeToPids, stable>>

\* Seeded fault: the iterator over pids is not advanced.
ScanPidStuck(p) ==
    /\ refresh = "fds" /\ PointsTo(fdIt, p)
    /\ p \in alive \ Unreadable
    /\ LET mine == {i \in Inodes : p \in holder[i]}
       IN  inodeToPids' = [i \in DOMAIN inodeToPids \cup mine |->
                             IF i \in mine THEN p ELSE inodeToPids[i]]
    /\ UNCHANGED <<netToInodes, refresh, fdIt, stable>>

\* RefreshToPids, one process: its sockets are entered over earlier owners.
ScanPid(p) ==
    /\ refresh = "fds" /\ PointsTo(fdIt, p)
    /\ p \in alive \ Unreadable
    /\ LET mine == {i \in Inodes : p \in holder[i]}
       IN  inodeToPids' = [i \in DOMAIN inodeToPids \cup mine |->
                             IF i \in mine THEN p ELSE inodeToPids[i]]
    /\ fdIt' = fdIt \ {p}
    /\ UNCHANGED <<netToInodes, refresh, stable>>

\* opendir fails, for instance because the process is gone: the processes after
\* it are not read either.
ScanFails(p) ==
    /\ refresh = "fds" /\ PointsTo(fdIt, p)
    /\ p \notin alive \ Unreadable
    /\ refresh' = "error"
    /\ fdIt' = {}
    /\ UNCHANGED <<netToInodes, inodeToPids, stable>>

RefreshStep == ParseFile \/ ParseFails \/ \E p \in Pids : ScanPid(p) \/ ScanFails(p)

\* GetPidByIp: found or not, and the pid it stores.
Found(key) == key \in DOMAIN netToInodes
                /\ netToInodes[key] \in DOMAIN inodeToPids

PidByIp(key) == inodeToPids[netToInodes[key]]

\* A step of the operating system; a pair is stable while it is held.
OsStep ==
    /\ OsNext
    /\ stable' = {h \in stable : h.pid \in holder'[h.inode]}
    /\ UNCHANGED <<devices, netToInodes, inodeToPids, refresh, fdIt>>
-----------------------------------------------------------------------------
HelperTypeOK ==
    /\ OsTypeOK
    /\ DOMAIN netToInodes \subseteq Key
    /\ netToInodes \in [DOMAIN netToInodes -> Inodes]
    /\ DOMAIN inodeToPids \subseteq Inodes
    /\ inodeToPids \in [DOMAIN inodeToPids -> Pids]
    /\ refresh \in DOMAIN NextFile \cup {"fds", "error"}
    /\ fdIt \in SUBSET Pids
    /\ stable \in SUBSET [pid : Pids, inode : Inodes]

\* The peer of the row is the given one, or reads like it because its last group
\* and its port run together in the row's own key.
SamePeer(remote, rport, row) == remote = Ntop(row.remote, 49) /\ rport = row.rport

GluedPeer(local, remote, rport, row) ==
    /\ row.remote.stem # NoText
    /\ local = Ntop(row.local, 49)
    /\ remote = row.remote.stem /\ rport = Joined(row.remote.group, row.rport)

\* A key leads to a socket with the same local port and the same peer, however
\* the rows of the four files and the devices collide; the one exception is the
\* peer of an IPv6 socket whose last group and port run together.
KeysMatch ==
    \A k \in DOMAIN netToInodes :
        LET row == Row[netToInodes[k]]
        IN  /\ k.lport = row.lport
            /\ \/ SamePeer(k.remote, k.rport, row)
               \/ GluedPeer(k.local, k.remote, k.rport, row)

\* When Refresh succeeds, every packet of a socket that a listed process held
\* all along is attributed, unless another socket has the same key, and it goes
\* to the holder with the largest pid or to a later taker of the descriptor.
LookupComplete ==
    RefreshOk =>
        \A h \in stable : \A d \in 1..Len(devices) :
            LET key == DeviceKey(devices[d], h.inode)
            IN  (\A j \in Inodes : key \in RowKeys(j) => j = h.inode)
                    => Found(key) /\ PidByIp(key) >= h.pid

\* A packet that the holder of socket i sends, or one that it receives.
PacketsOf(i) ==
    LET row == Row[i]
    IN  {NewPacket(devices, row.family, row.local, row.lport, row.remote, row.rport, 0),
         NewPacket(devices, row.family, row.remote, row.rport, row.local, row.lport, 0)}

\* The packets of both directions of such a socket are attributed exactly if the
\* text of its local address fits the device: the key that CapPacket::Hash makes
\* of a packet and the ones that ParseBuffer makes of a row agree, except for an
\* address of 15 characters, for which LocalAddr keeps no text.
PacketAttributed ==
    RefreshOk =>
        \A h \in stable : \A packet \in PacketsOf(h.inode) :
            LET row == Row[h.inode]
                key == Hash(packet)
                kept == \E d \in 1..Len(devices) : GetLocalAddr(devices[d]) = Ntop(row.local, 49)
            IN  /\ IsLocal(devices, row.family, row.local)
                /\ ~IsLocal(devices, row.family, row.remote)
                /\ \A j \in Inodes : key \in RowKeys(j) => j = h.inode
                => /\ Found(key) <=> kept
                   /\ kept => PidByIp(key) >= h.pid

\* The README's chain from source, port, destination and port to inode to pid:
\* a socket that a listed process holds all along has an owner after Refresh.
LookupTotal ==
    RefreshOver => \A h \in stable : h.inode \in DOMAIN inodeToPids
=============================================================================
