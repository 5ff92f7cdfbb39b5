--------------------------- MODULE PidMergeProofs ---------------------------
(***************************************************************************)
(* The reconciliation loop computes Survivors for every set of pids.       *)
(***************************************************************************)
EXTENDS PidMerge, TLAPS

(***************************************************************************)
(* The inductive invariant.  matched are the pids both iterators passed;   *)
(* what is still tracked is what matched or was not visited; what was      *)
(* erased is outside the reference set.  The last part is the one that     *)
(* makes it inductive: it remembers why the erased entries had to go.      *)
(***************************************************************************)
matched == pids \ pidIt

IterInv ==
    /\ pidIt \subseteq pids
    /\ procIt \subseteq before
    /\ \A x \in pids \ pidIt : \A y \in pidIt : x < y
    /\ \A x \in before \ procIt : \A y \in procIt : x < y

MatchInv ==
    /\ matched \subseteq before \ procIt
    /\ tracked = matched \cup procIt

ErasedInv ==
    \A e \in (before \ procIt) \ matched : e \notin Survivors(pids, before)

MergeInv == MergeTypeOK /\ IterInv /\ MatchInv /\ ErasedInv

\* An element the other iterator is stuck on was never tracked: if it had been,
\* it would have matched or be still ahead.
LEMMA CursorUntracked ==
    ASSUME MergeInv, NEW c, NEW q, PointsTo(pidIt, c), PointsTo(procIt, q),
           c < q \/ (c # q /\ q \notin pids)
    PROVE  c < q => c \notin before
  <1> SUFFICES ASSUME c < q, c \in before PROVE FALSE
    OBVIOUS
  <1> USE PidsAssumption DEF MergeInv, MergeTypeOK, IterInv, MatchInv, PointsTo
  <1>1. c \in Nat /\ q \in Nat
    OBVIOUS
  <1>2. c \notin procIt
    BY <1>1
  <1>3. c \in (before \ procIt) \ matched
    BY <1>2 DEF matched
  <1>4. c \notin Survivors(pids, before)
    BY <1>3 DEF ErasedInv
  <1>5. PICK b \in pids : b < c /\ b \notin before
    BY <1>4 DEF Survivors
  <1>6. CASE b \in pidIt
    BY <1>1, <1>5, <1>6
  <1>7. CASE b \notin pidIt
    BY <1>5, <1>7 DEF matched
  <1> QED
    BY <1>6, <1>7

\* The entry the loop erases is not one of the survivors.
LEMMA ErasedIsNoSurvivor ==
    ASSUME MergeInv, NEW q, Erase(q)
    PROVE  q \notin Survivors(pids, before)
  <1> USE PidsAssumption DEF MergeInv, MergeTypeOK, IterInv, MatchInv
  <1>1. PICK c \in pidIt : PointsTo(pidIt, c) /\ c # q
    BY DEF Erase
  <1>2. PointsTo(procIt, q)
    BY DEF Erase
  <1>3. c \in Nat /\ q \in Nat /\ c \in pids /\ q \in before
    BY <1>1, <1>2 DEF PointsTo
  <1>4. CASE q \in pids
    <2>1. q \in pidIt
      BY <1>2, <1>4 DEF matched, PointsTo
    <2>2. c < q
      BY <1>1, <1>3, <2>1 DEF PointsTo
    <2>3. c \notin before
      BY <1>1, <1>2, <2>2, CursorUntracked
    <2> QED
      BY <1>3, <2>2, <2>3 DEF Survivors
  <1>5. CASE q \notin pids
    <2>1. c < q => c \notin before
      BY <1>1, <1>2, <1>5, CursorUntracked
    <2> QED
      BY <1>3, <1>5, <2>1 DEF Survivors
  <1> QED
    BY <1>4, <1>5

\* Every loop iteration preserves the invariant.
LEMMA MergeInvStep == MergeInv /\ [MergeNext]_mergeVars => MergeInv'
  <1> SUFFICES ASSUME MergeInv, [MergeNext]_mergeVars PROVE MergeInv'
    OBVIOUS
  <1> USE PidsAssumption DEF MergeInv
  <1>1. ASSUME NEW q \in Pids, Erase(q) PROVE MergeInv'
    <2>1. q \notin Survivors(pids, before)
      BY <1>1, ErasedIsNoSurvivor
    <2>2. tracked' = tracked \ {q} /\ procIt' = procIt \ {q}
      BY <1>1 DEF Erase, tracked
    <2>3. UNCHANGED <<pids, pidIt, before, matched>>
      BY <1>1 DEF Erase, matched
    <2>4. MergeTypeOK'
      BY <1>1, <2>2, <2>3 DEF MergeTypeOK, Erase, tracked
    <2>5. IterInv'
      BY <1>1, <2>2, <2>3 DEF IterInv, MergeTypeOK, Erase, PointsTo
    <2>6. MatchInv'
      BY <1>1, <2>2, <2>3 DEF MatchInv, Erase, PointsTo
    <2>7. ErasedInv'
      BY <2>1, <2>2, <2>3 DEF ErasedInv, Survivors
    <2> QED
      BY <2>4, <2>5, <2>6, <2>7
  <1>2. ASSUME NEW q \in Pids, Keep(q) PROVE MergeInv'
    <2>1. UNCHANGED <<pids, processes, before, tracked>>
      BY <1>2 DEF Keep, tracked
    <2>2. procIt' = procIt \ {q} /\ pidIt' = pidIt \ {q}
      BY <1>2 DEF Keep
    <2>3. matched' = matched \cup {q} /\ q \in procIt /\ q \in pidIt
      BY <1>2, <2>1, <2>2 DEF matched, Keep, PointsTo, IterInv
    <2>4. MergeTypeOK'
      BY <2>1, <2>2 DEF MergeTypeOK, tracked
    <2>5. IterInv'
      BY <1>2, <2>1, <2>2, <2>3 DEF IterInv, MergeTypeOK, Keep, PointsTo
    <2>6. MatchInv'
      BY <2>1, <2>2, <2>3 DEF MatchInv, IterInv
    <2>7. ErasedInv'
      BY <2>1, <2>2, <2>3 DEF ErasedInv, Survivors
    <2> QED
      BY <2>4, <2>5, <2>6, <2>7
  <1>3. CASE UNCHANGED mergeVars
    BY <1>3 DEF mergeVars, MergeTypeOK, IterInv, MatchInv, ErasedInv,
                Survivors, matched, tracked
  <1> QED
    BY <1>1, <1>2, <1>3 DEF MergeNext

\* Entering the loop establishes the invariant: nothing has been passed yet.
LEMMA MergeInvInit == MergeInit => MergeInv
  <1> SUFFICES ASSUME MergeInit PROVE MergeInv
    OBVIOUS
  <1>1. MergeTypeOK
    BY DEF MergeInit, MergeTypeOK, tracked, Process, NewProcess
  <1> QED
    BY <1>1 DEF MergeInit, MergeInv, IterInv, MatchInv, ErasedInv, matched

\* At the end of the loop the invariant pins the tracked set down.
LEMMA MergeInvResult == MergeInv => MergeResult
  <1> SUFFICES ASSUME MergeInv, MergeOver
               PROVE  tracked = Survivors(pids, before)
    BY DEF MergeResult
  <1> USE PidsAssumption DEF MergeInv, MergeTypeOK, IterInv, MatchInv
  <1>1. matched \subseteq Survivors(pids, before)
    BY DEF matched, Survivors
  <1>2. Survivors(pids, before) \subseteq matched \cup procIt
    BY DEF Survivors, ErasedInv
  <1>3. CASE procIt = {}
    BY <1>1, <1>2, <1>3
  <1>4. CASE pidIt = {}
    <2>1. matched = pids
      BY <1>4 DEF matched
    <2>2. procIt \subseteq Survivors(pids, before)
      BY <2>1 DEF Survivors
    <2> QED
      BY <1>1, <1>2, <2>2
  <1> QED
    BY <1>3, <1>4 DEF MergeOver

\* Without newcomers nothing that is listed has been erased.
LEMMA MergeInvSound == MergeInv => RemovalNeedsNewcomer
  <1> SUFFICES ASSUME MergeInv, pids \subseteq before,
                      NEW p \in (before \ tracked) \cap pids
               PROVE  FALSE
    BY DEF RemovalNeedsNewcomer
  <1>1. p \in (before \ procIt) \ matched
    BY DEF MergeInv, MatchInv
  <1> QED
    BY <1>1 DEF MergeInv, ErasedInv, Survivors

\* Type correctness of the loop's containers and iterators.
THEOREM MergeTypeCorrect == MergeSpec => []MergeTypeOK
  BY MergeInvInit, MergeInvStep, PTL DEF MergeSpec, MergeInv

\* For every listing and every tracked set, CaptureCxx::Update's loop ends
\* with exactly the reference set.
THEOREM MergeCorrect == MergeSpec => []MergeResult
  <1>1. MergeInv => MergeResult
    BY MergeInvResult
  <1> QED
    BY <1>1, MergeInvInit, MergeInvStep, PTL DEF MergeSpec

\* A running process is dropped only when an untracked one is listed too.
THEOREM RemovalSound == MergeSpec => []RemovalNeedsNewcomer
  BY MergeInvSound, MergeInvInit, MergeInvStep, PTL DEF MergeSpec

\* What is gone from /proc but still tracked after the loop lies above every
\* listed pid.
THEOREM LeftoversBounded == MergeSpec => []LeftoversAreTail
  <1>1. MergeInv => LeftoversAreTail
    BY MergeInvResult DEF LeftoversAreTail, MergeResult, Survivors
  <1> QED
    BY <1>1, MergeInvInit, MergeInvStep, PTL DEF MergeSpec
=============================================================================
