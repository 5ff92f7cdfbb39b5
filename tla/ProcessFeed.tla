---------------------------- MODULE ProcessFeed -----------------------------
(***************************************************************************)
(* What the library promises to the owner of the process callback: a table *)
(* of traffic counters, and a view of it that only two notifications       *)
(* change.  ACTION_UPDATE replaces the view by the whole table,            *)
(* ACTION_REMOVE takes one process out of both.                            *)
(***************************************************************************)
EXTENDS CapProcess

CONSTANT Lengths        \* the lengths a packet may have

VARIABLES
    table,      \* tracked pid -> counters
    shown       \* the rows the client holds

feedVars == <<table, shown>>

RowOf(p) == [pid |-> p, send |-> table[p].send, recv |-> table[p].recv]

FeedInit == table = [p \in {} |-> NewProcess] /\ shown = {}

\* Processes are tracked from now on, with zeroed counters.
Adopt(new) ==
    /\ new \cap DOMAIN table = {}
    /\ table' = [p \in DOMAIN table \cup new |->
                    IF p \in new THEN NewProcess ELSE table[p]]
    /\ UNCHANGED shown

\* A packet is added to a process; one that is not tracked is taken in first.
Credit(p, outgoing, len) ==
    /\ table' = [q \in DOMAIN table \cup {p} |->
                    IF q # p THEN table[q]
                    ELSE AddPacket(IF p \in DOMAIN table THEN table[p] ELSE NewProcess,
                                   outgoing, len)]
    /\ UNCHANGED shown

\* ACTION_REMOVE: the process leaves the table and the client's view together.
Remove(p) ==
    /\ p \in DOMAIN table
    /\ table' = [q \in DOMAIN table \ {p} |-> table[q]]
    /\ shown' = {r \in shown : r.pid # p}

\* ACTION_UPDATE: the client holds a row for every tracked process and no other.
Publish ==
    /\ shown' = {RowOf(p) : p \in DOMAIN table}
    /\ UNCHANGED table

FeedNext ==
    \/ \E new \in SUBSET Pids : Adopt(new)
    \/ \E p \in Pids, outgoing \in BOOLEAN, len \in Lengths : Credit(p, outgoing, len)
    \/ \E p \in Pids : Remove(p)
    \/ Publish

FeedSpec == FeedInit /\ [][FeedNext]_feedVars
=============================================================================
