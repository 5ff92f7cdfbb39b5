----------------------------- MODULE CapProcess -----------------------------
(***************************************************************************)
(* The per-process record the library keeps (cap_process.h), reduced to    *)
(* what AddPacket changes: the bytes sent and received since the record    *)
(* was created.  Parse only fills the descriptive fields and never touches *)
(* these two counters.                                                     *)
(***************************************************************************)
EXTENDS Integers

CONSTANT Pids           \* the process ids the kernel can hand out

ASSUME PidsAssumption == Pids \subseteq Nat

\* The pid an iterator of an ordered container points to, the iterator being
\* modelled by the set of elements it has not passed.
PointsTo(it, p) == p \in it /\ \A q \in it : p <= q

Process == [send : Nat, recv : Nat]

\* Seeded fault: a counter the constructor leaves uninitialised.
NewProcessUnset == [send |-> 0, recv |-> -1]

\* A freshly constructed CapProcess.
NewProcess == [send |-> 0, recv |-> 0]

\* Seeded fault: a missing else, both counters grow.
AddPacketBoth(process, outgoing, len) ==
    IF outgoing
    THEN [process EXCEPT !.send = @ + len, !.recv = @ + len]
    ELSE [process EXCEPT !.recv = @ + len]

\* CapProcess::AddPacket: the direction decides which counter grows.
AddPacket(process, outgoing, len) ==
    IF outgoing
    THEN [process EXCEPT !.send = @ + len]
    ELSE [process EXCEPT !.recv = @ + len]
=============================================================================
