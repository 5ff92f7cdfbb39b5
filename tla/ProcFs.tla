------------------------------- MODULE ProcFs -------------------------------
(***************************************************************************)
(* The operating system as the library sees it through /proc: which        *)
(* processes run and which sockets they have open.  External to the        *)
(* repository; every step of it may fall between any two reads.            *)
(***************************************************************************)
EXTENDS CapProcess

CONSTANTS
    Inodes,     \* socket inode numbers; 0 is none
    Self,       \* the process the library is loaded into; it outlives the model
    Faults      \* the calls into the system that may fail for want of resources

ASSUME SelfAssumption == Self \in Pids

ASSUME FaultsAssumption ==
    Faults \subseteq {"getifaddrs", "open_live", "filter", "nonblock", "opendir", "open_net",
                      "dispatch", "open_stat"}

VARIABLES
    alive,      \* the numeric directories of /proc
    holder      \* holder[i]: the processes with a descriptor of socket i

osVars == <<alive, holder>>

OsTypeOK ==
    /\ alive \in SUBSET Pids /\ Self \in alive
    /\ holder \in [Inodes -> SUBSET alive]

OsInit ==
    /\ alive \in {S \in SUBSET Pids : Self \in S}
    /\ holder = [i \in Inodes |-> {}]

\* A process starts; after an Exit this is the reuse of a pid.
Spawn(p) ==
    /\ p \notin alive
    /\ alive' = alive \cup {p}
    /\ UNCHANGED holder

\* A child inherits the descriptors of its parent.
Fork(p, q) ==
    /\ p \in alive /\ q \notin alive
    /\ \E i \in Inodes : p \in holder[i]
    /\ alive' = alive \cup {q}
    /\ holder' = [i \in Inodes |->
                    IF p \in holder[i] THEN holder[i] \cup {q} ELSE holder[i]]

Exit(p) ==
    /\ p \in alive \ {Self}
    /\ alive' = alive \ {p}
    /\ holder' = [i \in Inodes |-> holder[i] \ {p}]

\* A socket that nobody holds is created, with a possibly reused inode.
Socket(p, i) ==
    /\ p \in alive /\ holder[i] = {}
    /\ holder' = [holder EXCEPT ![i] = {p}]
    /\ UNCHANGED alive

Close(p, i) ==
    /\ p \in holder[i]
    /\ holder' = [holder EXCEPT ![i] = @ \ {p}]
    /\ UNCHANGED alive

OsNext ==
    \/ \E p \in Pids : Spawn(p) \/ Exit(p)
    \/ \E p, q \in Pids : Fork(p, q)
    \/ \E p \in Pids, i \in Inodes : Socket(p, i) \/ Close(p, i)
=============================================================================
