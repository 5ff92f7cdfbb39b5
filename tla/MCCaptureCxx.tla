---------------------------- MODULE MCCaptureCxx ----------------------------
(***************************************************************************)
(* Instances of CaptureCxx and CaptureTraffic.                             *)
(***************************************************************************)
EXTENDS CaptureTraffic

Plain(id, len) == [id |-> id, len |-> len, stem |-> NoText, group |-> 0]

A == Plain(1, 8)        \* the address of this machine
R == Plain(2, 11)       \* a peer
Q == Plain(3, 11)       \* another one

Up == {"UP", "RUNNING"}

Entry(n, f, a, fl) == [name |-> n, family |-> f, addr |-> a, flags |-> fl]

\* A machine with a loopback and a tunnel.  A tunnel has no hardware address, so
\* that its link-layer entry comes with a null pointer.
Tunnel == <<Entry("lo", "packet", NoAddr, Up \cup {"LOOPBACK"}),
            Entry("tun0", "null", NoAddr, Up),
            Entry("tun0", "inet", A, Up)>>

\* A machine with an Ethernet card, which getifaddrs lists once for the link
\* layer and once for its IPv4 address.
Ethernet == <<Entry("eth0", "packet", NoAddr, Up), Entry("eth0", "inet", A, Up)>>

LinkTypes == [tun0 |-> "RAW", eth0 |-> "EN10MB"]

Sock(f, lp, rp) == [file |-> f, family |-> "inet", local |-> A, lport |-> lp, remote |-> R, rport |-> rp]

Rows == <<Sock("tcp", 1, 2), Sock("udp", 3, 4)>>

Out(i, p, lp, rp) == [iface |-> i, l3 |-> "inet", proto |-> p, src |-> A, dst |-> R,
                      sport |-> lp, dport |-> rp, words |-> <<lp, rp>>, len |-> 1]

In(i, p, lp, rp) == [iface |-> i, l3 |-> "inet", proto |-> p, src |-> R, dst |-> A,
                     sport |-> rp, dport |-> lp, words |-> <<rp, lp>>, len |-> 1]

\* A frame whose IPv4 header has options: the words behind 20 bytes are not ports.
Options(i) == [Out(i, "tcp", 1, 2) EXCEPT !.words = <<7, 4>>]

Tcp == Out("tun0", "tcp", 1, 2)

TcpFrames == {Tcp, Options("tun0")}

\* A datagram whose IPv4 header has options.  The words behind 20 bytes are those
\* of the ports of a socket that it does not belong to.
Misread == [In("tun0", "udp", 7, 4) EXCEPT !.words = <<2, 1>>]

TcpAndUdp == {Tcp, Misread}

\* A frame of the socket, and two that differ from it in the port and in the
\* address of the peer.
NearFrames == {In("tun0", "tcp", 1, 2), In("tun0", "tcp", 1, 3),
               [In("tun0", "tcp", 1, 2) EXCEPT !.src = Q]}

All == {-1}     \* CaptureUpdate(-1): no limit

EthernetFrames == {Out("eth0", "tcp", 1, 2)}
=============================================================================
