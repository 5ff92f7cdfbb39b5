----------------------------- MODULE CapDevice ------------------------------
(***************************************************************************)
(* A capture device (cap_device.cpp) and its local address (local_addr.h). *)
(*                                                                         *)
(* An address is a record: id tells the texts inet_ntop makes of addresses *)
(* apart, 0 being the empty text, and len is the length of the text.  Some *)
(* IPv6 texts are another IPv6 text, a ':' and the decimal digits of a     *)
(* positive number: stem is the id of that other text and group the        *)
(* number; stem is 0 for the rest.                                         *)
(* 2001:db8::1:1, for instance, has the stem 2001:db8::1 and the group 1.  *)
(* An entry of getifaddrs is [name, family, addr, flags]; family is "null" *)
(* when ifa_addr is a null pointer and "packet" for the link-layer entry.  *)
(***************************************************************************)
EXTENDS Integers, Sequences

Text == Nat

NoText == 0

Addr == {a \in [id : Text, len : 0..45, stem : Text, group : Nat] :
            a.stem # NoText => a.stem # a.id /\ a.group > 0}

NoAddr == [id |-> NoText, len |-> 0, stem |-> NoText, group |-> 0]

Families == {"null", "packet", "inet", "inet6"}

Flags == {"LOOPBACK", "UP", "RUNNING"}

Device == [name : STRING, family : Families, addr : Addr, flags : SUBSET Flags]

\* inet_ntop into a buffer of the given size: the text and its terminator have
\* to fit, otherwise the zeroed buffer is left as it is.
Ntop(a, size) == IF a.len < size THEN a.id ELSE NoText

\* LocalAddr::Init then GetStr: the IPv4 text gets 15 bytes, the IPv6 one 63;
\* a device of another family keeps the empty text.
GetLocalAddr(device) ==
    CASE device.family = "inet"  -> Ntop(device.addr, 15)
      [] device.family = "inet6" -> Ntop(device.addr, 63)
      [] OTHER                   -> NoText

UpRunning(device) == {"UP", "RUNNING"} \subseteq device.flags
                        /\ "LOOPBACK" \notin device.flags

\* LocalAddr::Contains: the binary addresses are compared within one family.
DeviceContains(device, family, a) == device.family = family /\ device.addr = a

\* CaptureCxx::Contains: some device has the address.
IsLocal(devices, family, a) ==
    \E d \in 1..Len(devices) : DeviceContains(devices[d], family, a)
=============================================================================
