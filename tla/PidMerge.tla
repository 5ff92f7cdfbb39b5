------------------------------ MODULE PidMerge ------------------------------
(***************************************************************************)
(* The reconciliation loop of CaptureCxx::Update.  pids is the set of      *)
(* processes just listed from /proc, processes the map of tracked ones.    *)
(* Both containers are ordered by pid, so an iterator is modelled by the   *)
(* set of elements it has not passed: it points to the least of them.      *)
(***************************************************************************)
EXTENDS CapProcess, FiniteSets

VARIABLES
    pids,       \* std::set<pid_t> pids
    processes,  \* std::map<pid_t, CapProcess> processes
    pidIt,      \* elements of pids from pidIt to pids.end()
    procIt,     \* keys of processes from processesIt to processes.end()
    before      \* history: the tracked pids when the loop was entered

mergeVars == <<pids, processes, pidIt, procIt, before>>

tracked == DOMAIN processes

\* The loop is only entered when the two containers differ in size.
SizesDiffer == Cardinality(pids) # Cardinality(tracked)

MergeOver == pidIt = {} \/ procIt = {}

\* Seeded fault: pidIt advances past a pid that was not matched.
EraseBoth(q) ==
    /\ PointsTo(procIt, q)
    /\ \E p \in pidIt : PointsTo(pidIt, p) /\ p # q /\ pidIt' = pidIt \ {p}
    /\ processes' = [r \in tracked \ {q} |-> processes[r]]
    /\ procIt' = procIt \ {q}
    /\ UNCHANGED <<pids, before>>

\* Seeded fault: the iterator moves on but the entry stays.
EraseSkipped(q) ==
    /\ PointsTo(procIt, q)
    /\ \E p \in pidIt : PointsTo(pidIt, p) /\ p # q
    /\ procIt' = procIt \ {q}
    /\ UNCHANGED <<pids, processes, pidIt, before>>

\* *pidIt != processesIt->first: REMOVE is called back, the entry is erased
\* and pidIt stays where it is.
Erase(q) ==
    /\ PointsTo(procIt, q)
    /\ \E p \in pidIt : PointsTo(pidIt, p) /\ p # q
    /\ processes' = [r \in tracked \ {q} |-> processes[r]]
    /\ procIt' = procIt \ {q}
    /\ UNCHANGED <<pids, pidIt, before>>

\* Seeded fault: only pidIt advances after a match.
KeepOne(q) ==
    /\ PointsTo(procIt, q)
    /\ PointsTo(pidIt, q)
    /\ pidIt' = pidIt \ {q}
    /\ UNCHANGED <<pids, processes, procIt, before>>

\* Seeded fault: a continue before both increments.
KeepStuck(q) ==
    /\ PointsTo(procIt, q)
    /\ PointsTo(pidIt, q)
    /\ UNCHANGED mergeVars

\* The keys agree: the process is parsed again and both iterators advance.
Keep(q) ==
    /\ PointsTo(procIt, q)
    /\ PointsTo(pidIt, q)
    /\ pidIt' = pidIt \ {q}
    /\ procIt' = procIt \ {q}
    /\ UNCHANGED <<pids, processes, before>>
-----------------------------------------------------------------------------
(* The loop by itself, from any listing and any tracked set it can meet.   *)

MergeInit ==
    /\ pids \in SUBSET Pids
    /\ \E S \in SUBSET Pids : processes = [p \in S |-> NewProcess]
    /\ SizesDiffer
    /\ pidIt = pids
    /\ procIt = tracked
    /\ before = tracked

MergeNext == \E q \in Pids : Erase(q) \/ Keep(q)

MergeSpec == MergeInit /\ [][MergeNext]_mergeVars

FairMergeSpec == MergeSpec /\ WF_mergeVars(MergeNext)
-----------------------------------------------------------------------------
MergeTypeOK ==
    /\ pids \in SUBSET Pids
    /\ tracked \in SUBSET Pids
    /\ processes \in [tracked -> Process]
    /\ pidIt \in SUBSET Pids
    /\ procIt \in SUBSET Pids
    /\ before \in SUBSET Pids

\* What the loop computes, without iterators: a tracked pid survives if it is
\* listed and every smaller listed pid was tracked, or if everything listed
\* was tracked and is smaller than it.
Survivors(listed, known) ==
    {p \in known :
        \/ p \in listed /\ \A c \in listed : c < p => c \in known
        \/ listed \subseteq known /\ \A c \in listed : c < p}

\* The loop of CaptureCxx::Update ends with exactly the reference set, for
\* any listing and any tracked set.
MergeResult == MergeOver => tracked = Survivors(pids, before)

\* A listed (running) process is erased only when some listed process was not
\* tracked on entry: without new processes, REMOVE is only called for pids
\* that are gone from /proc.
RemovalNeedsNewcomer ==
    (before \ tracked) \cap pids # {} => ~(pids \subseteq before)

\* A pid that is gone from /proc survives only if it is larger than every
\* listed pid: the loop leaves behind nothing but that tail.
LeftoversAreTail ==
    MergeOver => \A p \in tracked \ pids : \A c \in pids : c < p

\* The loop ends: every iteration advances processesIt.
MergeTerminates == <>MergeOver

\* What the comment above the loop says: a mismatch means that a process was
\* killed, and what is deleted is such a process.
RemovedAreKilled == (before \ tracked) \cap pids = {}
=============================================================================
