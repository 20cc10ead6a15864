---------------------------- MODULE MCQgroupReplay ----------------------------
(***************************************************************************)
(* An instance of the replay for TLC, with its traces.                     *)
(***************************************************************************)
EXTENDS QgroupReplay

CONSTANTS u1, u2

TwoTasks == {u1, u2}

\* Quotas are switched on, then a rescan begins, with its scan.
BegunAfterEnable ==
    <<E(u1, "QuotaEnable_Enter"), E(u1, "QuotaEnable_Done"),
      E(u2, "QgroupRescan_Enter"), E(u2, "RescanZeroTracking_Enter"),
      E(u1, "WaitRescanCompletion_Enter"), E(u2, "RescanZeroTracking_Done"),
      E(Worker, "RescanWorker_Enter"), E(u2, "QgroupRescan_Done"),
      E(u1, "WaitRescanCompletion_Done"), E(Worker, "RescanWorker_Done")>>

AllTraces == Lost(u1, u2) \cup {BegunAfterEnable}
=============================================================================
