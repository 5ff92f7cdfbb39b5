----------------------------- MODULE CapPacket ------------------------------
(***************************************************************************)
(* A parsed packet (cap_packet.cpp), its lookup key and its link name.     *)
(* The key text "local:lport-remote:rport" is a record of its parts, which *)
(* are the texts of the addresses and the numbers behind the last ':' of   *)
(* either half; colon is FALSE for a text that has no such number in its   *)
(* second half, where remote and rport are the two texts that follow '-'.  *)
(***************************************************************************)
EXTENDS CapDevice

Ports == Nat

Key == [local : Text, lport : Ports, remote : Text, rport : Nat, colon : BOOLEAN]

\* Seeded fault: the key has no remote port.
KeyTextPortless(local, lport, remote, rport) ==
    [local |-> local, lport |-> lport, remote |-> remote, rport |-> 0, colon |-> TRUE]

KeyText(local, lport, remote, rport) ==
    [local |-> local, lport |-> lport, remote |-> remote, rport |-> rport,
     colon |-> TRUE]

\* CapPacket::Init: the direction is Unknown, and the call of Hash in Init
\* settles it, from the devices known at that moment.
NewPacket(devices, family, src, sport, dst, dport, len) ==
    [src |-> src, sport |-> sport, dst |-> dst, dport |-> dport, len |-> len,
     dir |-> IF IsLocal(devices, family, src) THEN "Outgoing" ELSE "Incoming"]

IsOutgoing(packet) == packet.dir = "Outgoing"

\* CapPacket::Link: source first.
Link(packet) ==
    KeyText(Ntop(packet.src, 49), packet.sport, Ntop(packet.dst, 49), packet.dport)

\* Seeded fault: the source first, whichever way the packet goes.
HashBySource(packet) == Link(packet)

\* CapPacket::Hash: the local end first, whichever way the packet goes.
Hash(packet) ==
    IF IsOutgoing(packet)
    THEN Link(packet)
    ELSE KeyText(Ntop(packet.dst, 49), packet.dport, Ntop(packet.src, 49), packet.sport)
=============================================================================
