--------------------------- MODULE MCInodeRefresh ---------------------------
(***************************************************************************)
(* Instances of InodeRefresh.                                              *)
(***************************************************************************)
EXTENDS InodeRefresh

Plain(id, len) == [id |-> id, len |-> len, stem |-> NoText, group |-> 0]

A == Plain(1, 8)        \* the addresses of this machine
L == Plain(2, 15)       \* one whose text fills 15 characters
S == Plain(3, 19)       \* an IPv6 one
R == Plain(4, 11)       \* the peers: one of IPv4, and one of IPv6 whose text is that
V == [id |-> 6, len |-> 13, stem |-> 5, group |-> 1]    \* of address 5 and ":1"

Up == {"UP", "RUNNING"}

Dev(n, f, a) == [name |-> n, family |-> f, addr |-> a, flags |-> Up]

Link0 == Dev("eth0", "packet", NoAddr)

Sock(file, f, a, lp, b, rp) ==
    [file |-> file, family |-> f, local |-> a, lport |-> lp, remote |-> b, rport |-> rp]

\* A TCP and a UDP socket with keys of their own.
RowDistinct == <<Sock("tcp", "inet", A, 1, R, 2), Sock("udp6", "inet", A, 1, R, 3)>>

\* Two sockets that differ in their local address only, and one of IPv6 whose own
\* key is the text of a key of peer 5 and port 12.
RowColliding == <<Sock("tcp", "inet", A, 1, R, 2), Sock("tcp", "inet", L, 1, R, 2),
                  Sock("udp6", "inet6", S, 1, V, 2)>>

OneDevice == {<<Link0, Dev("eth0", "inet", A)>>}

TwoDevices == {<<Link0, Dev("eth0", "inet", A), Dev("eth0", "inet6", S)>>,
               <<Dev("tun0", "inet", L), Dev("tun0", "inet6", S)>>}
=============================================================================
