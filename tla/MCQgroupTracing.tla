--------------------------- MODULE MCQgroupTracing ---------------------------
(***************************************************************************)
(* Instances of the traced qgroup life cycle for TLC.  @rescan_count grows *)
(* with each refused rescan ioctl and falls below zero when probes lower   *)
(* it at the same time, without bound either way; the runs follow it from  *)
(* MinRescanCount to MaxRescanCount.                                       *)
(***************************************************************************)
EXTENDS QgroupTracing, TLC

CONSTANTS t1, t2, t3, MinRescanCount, MaxRescanCount

TwoTasks   == {t1, t2}
ThreeTasks == {t1, t2, t3}

Below == -1

\* User threads are interchangeable; only used for invariants.
Symmetry == Permutations(UserTasks)

CountBound == rescanCount \in MinRescanCount..MaxRescanCount
=============================================================================
