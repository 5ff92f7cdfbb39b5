---------------------------- MODULE CapProtocol -----------------------------
(***************************************************************************)
(* Decoding of a captured frame (cap_protocol.cpp).  A frame is a record   *)
(*   iface       the interface it is seen on                               *)
(*   l3          what the EtherType, or the version nibble of a raw IP     *)
(*               link, says: "inet", "inet6" or "other"                    *)
(*   proto       the ip_p or ip6_nxt byte: "tcp", "udp" or "other"         *)
(*   src, dst    the network addresses                                     *)
(*   sport, dport  the ports of the transport header                       *)
(*   words       the two 16-bit words right after a header without options *)
(*   len         the length on the wire                                    *)
(***************************************************************************)
EXTENDS CapPacket

FrameType == [iface : STRING, l3 : {"inet", "inet6", "other"},
              proto : {"tcp", "udp", "other"}, src : Addr, dst : Addr,
              sport : Ports, dport : Ports, words : Ports \X Ports, len : Nat]

\* Parse, ProtocolEN10MB and ProtocolIp: the frames that reach ProcessTcp or
\* ProcessUdp; everything else is dropped with a log line.
Supported(linktype, frame) ==
    /\ linktype \in {"EN10MB", "RAW"}
    /\ frame.l3 \in {"inet", "inet6"}
    /\ frame.proto \in {"tcp", "udp"}

\* ProtocolIp4 and ProtocolIp6 step over a header of fixed size, so that the
\* ports are read from the first words behind it.
PacketOf(devices, frame) ==
    NewPacket(devices, frame.l3, frame.src, frame.words[1],
              frame.dst, frame.words[2], frame.len)
=============================================================================
