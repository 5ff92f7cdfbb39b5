----------------------------- MODULE ProcImage ------------------------------
(***************************************************************************)
(* What /proc shows of the running processes, and the clock behind         *)
(* /proc/stat.  External to the repository; every step of it may fall      *)
(* between any two reads.  A process has a life, which tells it from the   *)
(* earlier and later owners of its pid, and a version, which changes with  *)
(* everything it shows of itself except its cpu time.                      *)
(***************************************************************************)
EXTENDS CapProcess

CONSTANTS
    Programs,   \* the names of programs
    First,      \* what every process shows at first
    Looks,      \* what a process may show of itself
    Busy,       \* the pids whose processes use the processors
    MaxChanges, \* bound: starts and changes of processes
    MaxTicks    \* bound: the clock

\* prog is the program name; rss the resident memory, 0 for a kernel thread or a
\* zombie, which has no VmRSS line and an empty command line.
Look == [prog : Programs, uid : Nat, gid : Nat, rss : Nat]

ASSUME ImageAssumption ==
    /\ First \in Look /\ Looks \subseteq Look
    /\ Busy \subseteq Pids /\ MaxChanges \in Nat /\ MaxTicks \in Nat

VARIABLES
    image,      \* image[p]: what /proc/p shows, for the pids in use
    changes,    \* the number of lives and versions so far
    ticks       \* the cpu time of all processors, idle time included

imageVars == <<image, changes, ticks>>

running == DOMAIN image

Image == [life : Nat, version : Nat, look : Look, cpu : Nat]

Changed(shown, version, look) == [shown EXCEPT !.version = version, !.look = look]

Aged(shown) == [shown EXCEPT !.cpu = @ + 1]

\* Every pid is in use at first; which of them the library meets is up to Exit.
ImageInit ==
    /\ image = [p \in Pids |-> [life |-> 1, version |-> 1, look |-> First, cpu |-> 0]]
    /\ changes = 1 /\ ticks = 0

\* A process starts, perhaps under a pid that was in use before.
Start(p, look) ==
    /\ p \notin running /\ changes < MaxChanges
    /\ changes' = changes + 1
    /\ image' = [q \in running \cup {p} |->
                    IF q = p THEN [life |-> changes', version |-> changes', look |-> look, cpu |-> 0]
                    ELSE image[q]]
    /\ UNCHANGED ticks

\* exec, setuid, memory that grows, a process that becomes a zombie.
Become(p, look) ==
    /\ p \in running /\ look # image[p].look /\ changes < MaxChanges
    /\ changes' = changes + 1
    /\ image' = [image EXCEPT ![p] = Changed(image[p], changes', look)]
    /\ UNCHANGED ticks

Exit(p) ==
    /\ p \in running
    /\ image' = [q \in running \ {p} |-> image[q]]
    /\ UNCHANGED <<changes, ticks>>

\* A processor spends a tick on a process, or on none.
Run(p) ==
    /\ p \in running \cap Busy /\ ticks < MaxTicks
    /\ ticks' = ticks + 1
    /\ image' = [image EXCEPT ![p] = Aged(image[p])]
    /\ UNCHANGED changes

Idle ==
    /\ ticks < MaxTicks
    /\ ticks' = ticks + 1
    /\ UNCHANGED <<image, changes>>

ImageNext ==
    \/ \E p \in Pids, look \in Looks : Start(p, look) \/ Become(p, look)
    \/ \E p \in Pids : Exit(p) \/ Run(p)
    \/ Idle

ImageTypeOK ==
    /\ running \in SUBSET Pids /\ image \in [running -> Image]
    /\ changes \in Nat /\ ticks \in Nat
=============================================================================
