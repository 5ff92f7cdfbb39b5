---------------------------- MODULE InodeRefresh ----------------------------
(***************************************************************************)
(* The inode helper by itself: Refresh is called again and again with the  *)
(* processes that run at that moment, while the operating system goes on.  *)
(***************************************************************************)
EXTENDS CapInodeHelper

CONSTANT DeviceLists    \* the device vectors InitDevice may have left

ASSUME DeviceAssumption == DeviceLists \subseteq Seq(Device)

refreshVars == <<alive, holder, devices, helperVars>>

InodeRefreshInit ==
    /\ OsInit
    /\ devices \in DeviceLists
    /\ netToInodes = NoEntries
    /\ inodeToPids = NoEntries
    /\ refresh = "fds"
    /\ fdIt = {}
    /\ stable = {}

\* The caller lists /proc and calls Refresh.
CallRefresh ==
    /\ RefreshOver
    /\ RefreshBegin(alive)
    /\ UNCHANGED <<osVars, devices>>

InodeRefreshNext ==
    \/ OsStep
    \/ CallRefresh
    \/ RefreshStep /\ UNCHANGED <<osVars, devices>>

InodeRefreshSpec == InodeRefreshInit /\ [][InodeRefreshNext]_refreshVars

FairRefreshSpec ==
    InodeRefreshSpec /\ WF_refreshVars(RefreshStep /\ UNCHANGED <<osVars, devices>>)

\* A Refresh that was called returns, whatever the operating system does.
RefreshReturns == []<>RefreshOver
=============================================================================
