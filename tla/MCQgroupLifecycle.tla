-------------------------- MODULE MCQgroupLifecycle --------------------------
(***************************************************************************)
(* Instances of the qgroup life cycle for TLC: two or three user threads   *)
(* and the worker.                                                         *)
(***************************************************************************)
EXTENDS QgroupLifecycle, TLC

CONSTANTS t1, t2, t3

TwoTasks   == {t1, t2}
ThreeTasks == {t1, t2, t3}

\* User threads are interchangeable; only used for invariants.
Symmetry == Permutations(UserTasks)
=============================================================================
