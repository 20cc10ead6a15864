--------------------------- MODULE QgroupLifecycle ---------------------------
(***************************************************************************)
(* The btrfs quota-group life cycle: user threads enable and disable       *)
(* quotas, ask for a rescan, wait for it and unmount, while one work item  *)
(* (the rescan worker) scans the qgroup tree.                              *)
(*                                                                         *)
(* A thread is described by the handler it executes (op) and by the place  *)
(* in it (pc).  Code that several handlers share in the kernel - rescan    *)
(* initialisation, zero tracking, waiting for completion, freeing the      *)
(* configuration - is one action here, taken on behalf of its caller.      *)
(* qgroup_rescan_lock guards critical sections of one step only, so every  *)
(* such section is one atomic action and the mutex needs no variable.      *)
(***************************************************************************)
EXTENDS Naturals, FiniteSets

CONSTANTS
    UserTasks,              \* threads that issue quota ioctls or unmount
    FixFreeHoldsQgroupLock  \* TRUE: the free loop holds qgroup_lock

Worker == "worker"
NoTask == "none"
Tasks  == UserTasks \cup {Worker}

ASSUME TasksAssumption == Worker \notin UserTasks /\ NoTask \notin UserTasks
ASSUME FixAssumption == FixFreeHoldsQgroupLock \in BOOLEAN

VARIABLES
    quotaRoot, quotaEnabled, flagOn,            \* quota state of the fs
    flagRescan, rescanRunning, completionDone,  \* rescan state
    workerQueued, workerStopped,                \* the work item
    qgroupLock, subvolSem,                      \* lock holders, or NoTask
    iterating,                                  \* tasks inside the qgroup tree
    uafOccurred,                                \* records freed under a reader
    op, pc                                      \* handler and place, per task

quota  == <<quotaRoot, quotaEnabled, flagOn>>
rescan == <<flagRescan, rescanRunning, completionDone>>
work   == <<workerQueued, workerStopped>>
tree   == <<qgroupLock, iterating, uafOccurred>>
vars   == <<quota, rescan, work, tree, subvolSem, op, pc>>

Waiting == {"wait_read", "wait_block", "wait_done"}
Walking == {"zt_enter", "zt_iter", "zt_done", "queue"}
Freeing == {"free_enter", "free_lock", "free_do", "free_done"}

\* The places of each handler.
Stages ==
    ({"none"} \X {"idle"})
    \cup ({"enable"} \X ({"check", "create", "setroot", "rescaninit", "done"}
                         \cup Walking))
    \cup ({"disable"} \X ({"check", "clear_enabled", "wait_enter", "trans",
                           "clear_root", "clean", "done"} \cup Waiting \cup Freeing))
    \cup ({"rescan"} \X ({"rescaninit", "commit", "done"} \cup Walking))
    \cup ({"wait"} \X Waiting)
    \cup ({"umount"} \X (Waiting \cup Freeing))
    \cup ({"scan"} \X {"run", "scan", "finish", "exit"})

Ops    == {"none", "enable", "disable", "rescan", "wait", "umount", "scan"}
Places == {"idle", "check", "create", "setroot", "rescaninit", "commit",
           "clear_enabled", "wait_enter", "trans", "clear_root", "clean",
           "done", "run", "scan", "finish", "exit"}
          \cup Walking \cup Waiting \cup Freeing

DataOK ==
    /\ quotaRoot \in BOOLEAN /\ quotaEnabled \in BOOLEAN /\ flagOn \in BOOLEAN
    /\ flagRescan \in BOOLEAN /\ rescanRunning \in BOOLEAN
    /\ completionDone \in BOOLEAN
    /\ workerQueued \in BOOLEAN /\ workerStopped \in BOOLEAN
    /\ qgroupLock \in Tasks \cup {NoTask}
    /\ subvolSem \in UserTasks \cup {NoTask}
    /\ iterating \subseteq Tasks
    /\ uafOccurred \in BOOLEAN

ControlOK ==
    /\ op \in [Tasks -> Ops]
    /\ pc \in [Tasks -> Places]
    /\ \A t \in Tasks : <<op[t], pc[t]>> \in Stages

TypeOK == DataOK /\ ControlOK

Init ==
    /\ quotaRoot = FALSE /\ quotaEnabled = FALSE /\ flagOn = FALSE
    /\ flagRescan = FALSE /\ rescanRunning = FALSE /\ completionDone = FALSE
    /\ workerQueued = FALSE /\ workerStopped = FALSE
    /\ qgroupLock = NoTask /\ subvolSem = NoTask
    /\ iterating = {} /\ uafOccurred = FALSE
    /\ op = [t \in Tasks |-> "none"]
    /\ pc = [t \in Tasks |-> "idle"]

-----------------------------------------------------------------------------
(* Control flow.                                                           *)

At(t, ops, place) == op[t] \in ops /\ pc[t] = place

Goto(t, place) == pc' = [pc EXCEPT ![t] = place] /\ UNCHANGED op

Enter(t, o, place) ==
    /\ At(t, {"none"}, "idle")
    /\ op' = [op EXCEPT ![t] = o]
    /\ pc' = [pc EXCEPT ![t] = place]

Return(t) ==
    /\ op' = [op EXCEPT ![t] = "none"]
    /\ pc' = [pc EXCEPT ![t] = "idle"]

\* BTRFS_FS_CLOSING: some thread is inside close_ctree.
Closing == \E t \in UserTasks : op[t] = "umount"

-----------------------------------------------------------------------------
(* The ioctl wrapper: enable and disable hold subvol_sem throughout.       *)

QuotaCtlEnter(t, o) ==
    /\ o \in {"enable", "disable"}
    /\ subvolSem = NoTask /\ ~Closing
    /\ subvolSem' = t
    /\ Enter(t, o, "check")
    /\ UNCHANGED <<quota, rescan, work, tree>>

QuotaEnableEnter(t)  == QuotaCtlEnter(t, "enable")
QuotaDisableEnter(t) == QuotaCtlEnter(t, "disable")

QuotaCtlDone(t, o) ==
    /\ At(t, {o}, "done") /\ subvolSem = t
    /\ subvolSem' = NoTask
    /\ Return(t)
    /\ UNCHANGED <<quota, rescan, work, tree>>

QuotaEnableDone(t)  == QuotaCtlDone(t, "enable")
QuotaDisableDone(t) == QuotaCtlDone(t, "disable")

\* Both handlers return at once when the quota root is already as wanted.
CheckRoot(t) ==
    /\ \/ At(t, {"enable"}, "check")
          /\ Goto(t, IF quotaRoot THEN "done" ELSE "create")
       \/ At(t, {"disable"}, "check")
          /\ Goto(t, IF quotaRoot THEN "clear_enabled" ELSE "done")
    /\ UNCHANGED <<quota, rescan, work, tree, subvolSem>>

-----------------------------------------------------------------------------
(* btrfs_quota_enable                                                      *)

\* Writing the status item overwrites the flags: a FLAG_RESCAN left over
\* from a rescan that a disable stopped is lost here.
CreateRoot(t) ==
    /\ At(t, {"enable"}, "create")
    /\ flagOn' = TRUE /\ flagRescan' = FALSE
    /\ Goto(t, "setroot")
    /\ UNCHANGED <<quotaRoot, quotaEnabled, rescanRunning, completionDone,
                   work, tree, subvolSem>>

SetRoot(t) ==
    /\ At(t, {"enable"}, "setroot") /\ qgroupLock = NoTask
    /\ quotaRoot' = TRUE /\ quotaEnabled' = TRUE
    /\ Goto(t, "rescaninit")
    /\ UNCHANGED <<flagOn, rescan, work, tree, subvolSem>>

\* Simple quotas need no rescan; the ioctl's argument decides.
SimpleSkip(t) ==
    /\ At(t, {"enable"}, "rescaninit")
    /\ Goto(t, "done")
    /\ UNCHANGED <<quota, rescan, work, tree, subvolSem>>

\* Queueing from enable takes no rescan lock.
EnableQueue(t) ==
    /\ At(t, {"enable"}, "queue")
    /\ rescanRunning' = TRUE /\ workerQueued' = TRUE
    /\ Goto(t, "done")
    /\ UNCHANGED <<quota, flagRescan, completionDone, workerStopped, tree,
                   subvolSem>>

-----------------------------------------------------------------------------
(* Shared by enable and by the rescan ioctl: qgroup_rescan_init and        *)
(* qgroup_rescan_zero_tracking.                                            *)

RefusesRescan(t) == flagRescan \/ (op[t] = "rescan" /\ ~flagOn)

\* -EINPROGRESS or -ENOTCONN: the ioctl fails, enable goes on without.
RescanRefused(t) ==
    /\ At(t, {"enable", "rescan"}, "rescaninit") /\ RefusesRescan(t)
    /\ Goto(t, "done")
    /\ UNCHANGED <<quota, rescan, work, tree, subvolSem>>

\* Mutant: enable too commits the current transaction.
RescanInitCommits(t) ==
    /\ At(t, {"enable", "rescan"}, "rescaninit") /\ ~RefusesRescan(t)
    /\ flagRescan' = TRUE /\ completionDone' = FALSE
    /\ Goto(t, "commit")
    /\ UNCHANGED <<quota, rescanRunning, work, tree, subvolSem>>

RescanInit(t) ==
    /\ At(t, {"enable", "rescan"}, "rescaninit") /\ ~RefusesRescan(t)
    /\ flagRescan' = TRUE /\ completionDone' = FALSE
    /\ Goto(t, IF op[t] = "rescan" THEN "commit" ELSE "zt_enter")
    /\ UNCHANGED <<quota, rescanRunning, work, tree, subvolSem>>

ZeroTrackingEnter(t) ==
    /\ At(t, {"enable", "rescan"}, "zt_enter")
    /\ Goto(t, "zt_iter")
    /\ UNCHANGED <<quota, rescan, work, tree, subvolSem>>

\* Mutant: the walk does not take qgroup_lock.
ZeroTrackingBare(t) ==
    /\ At(t, {"enable", "rescan"}, "zt_iter") /\ t \notin iterating
    /\ iterating' = iterating \cup {t}
    /\ UNCHANGED <<quota, rescan, work, qgroupLock, uafOccurred, subvolSem, op, pc>>

ZeroTrackingLock(t) ==
    /\ At(t, {"enable", "rescan"}, "zt_iter")
    /\ qgroupLock = NoTask /\ t \notin iterating
    /\ qgroupLock' = t /\ iterating' = iterating \cup {t}
    /\ UNCHANGED <<quota, rescan, work, uafOccurred, subvolSem, op, pc>>

ZeroTrackingUnlock(t) ==
    /\ At(t, {"enable", "rescan"}, "zt_iter")
    /\ qgroupLock = t /\ t \in iterating
    /\ qgroupLock' = NoTask /\ iterating' = iterating \ {t}
    /\ Goto(t, "zt_done")
    /\ UNCHANGED <<quota, rescan, work, uafOccurred, subvolSem>>

ZeroTrackingDone(t) ==
    /\ At(t, {"enable", "rescan"}, "zt_done")
    /\ Goto(t, "queue")
    /\ UNCHANGED <<quota, rescan, work, tree, subvolSem>>

-----------------------------------------------------------------------------
(* btrfs_qgroup_rescan: the ioctl does not take subvol_sem.                *)

QgroupRescanEnter(t) ==
    /\ ~Closing
    /\ Enter(t, "rescan", "rescaninit")
    /\ UNCHANGED <<quota, rescan, work, tree, subvolSem>>

\* Mutant: tests QUOTA_ENABLED, which a disable clears before it waits.
RescanQueueIfEnabled(t) ==
    /\ At(t, {"rescan"}, "queue")
    /\ rescanRunning' = (rescanRunning \/ quotaEnabled)
    /\ workerQueued' = (workerQueued \/ quotaEnabled)
    /\ Goto(t, "done")
    /\ UNCHANGED <<quota, flagRescan, completionDone, workerStopped, tree,
                   subvolSem>>

\* The worker is queued only if quotas are still on; otherwise the ioctl
\* fails with -ENOTCONN and FLAG_RESCAN stays as RescanInit left it.
RescanQueue(t) ==
    /\ At(t, {"rescan"}, "queue")
    /\ rescanRunning' = (rescanRunning \/ flagOn)
    /\ workerQueued' = (workerQueued \/ flagOn)
    /\ Goto(t, "done")
    /\ UNCHANGED <<quota, flagRescan, completionDone, workerStopped, tree,
                   subvolSem>>

QgroupRescanDone(t) ==
    /\ At(t, {"rescan"}, "done")
    /\ Return(t)
    /\ UNCHANGED <<quota, rescan, work, tree, subvolSem>>

-----------------------------------------------------------------------------
(* btrfs_qgroup_wait_for_completion: called by the wait ioctl, by          *)
(* close_ctree, and (inlined) by disable.                                  *)

UserWaitEnter(t) ==
    /\ ~Closing
    /\ Enter(t, "wait", "wait_read")
    /\ UNCHANGED <<quota, rescan, work, tree, subvolSem>>

\* close_ctree: no ioctl is in flight, an open descriptor keeps the fs busy.
UmountBegin(t) ==
    /\ \A u \in UserTasks \ {t} : op[u] = "none"
    /\ Enter(t, "umount", "wait_read")
    /\ UNCHANGED <<quota, rescan, work, tree, subvolSem>>

\* Returns at once when rescan_running is false, even if FLAG_RESCAN is set.
WaitRead(t) ==
    /\ At(t, {"disable", "wait", "umount"}, "wait_read")
    /\ Goto(t, IF rescanRunning THEN "wait_block" ELSE "wait_done")
    /\ UNCHANGED <<quota, rescan, work, tree, subvolSem>>

WaitBlocked(t) ==
    /\ At(t, {"disable", "wait", "umount"}, "wait_block") /\ completionDone
    /\ Goto(t, "wait_done")
    /\ UNCHANGED <<quota, rescan, work, tree, subvolSem>>

UserWaitDone(t) ==
    /\ At(t, {"wait"}, "wait_done")
    /\ Return(t)
    /\ UNCHANGED <<quota, rescan, work, tree, subvolSem>>

UmountWaitDone(t) ==
    /\ At(t, {"umount"}, "wait_done")
    /\ Goto(t, "free_enter")
    /\ UNCHANGED <<quota, rescan, work, tree, subvolSem>>

-----------------------------------------------------------------------------
(* btrfs_quota_disable, and btrfs_free_qgroup_config that it shares with   *)
(* close_ctree.                                                            *)

ClearEnabled(t) ==
    /\ At(t, {"disable"}, "clear_enabled")
    /\ quotaEnabled' = FALSE
    /\ Goto(t, "wait_enter")
    /\ UNCHANGED <<quotaRoot, flagOn, rescan, work, tree, subvolSem>>

\* Mutant: FLAG_ON survives the disable.
ClearRootOnly(t) ==
    /\ At(t, {"disable"}, "clear_root") /\ qgroupLock = NoTask
    /\ quotaRoot' = FALSE
    /\ Goto(t, "free_enter")
    /\ UNCHANGED <<quotaEnabled, flagOn, rescan, work, tree, subvolSem>>

ClearRoot(t) ==
    /\ At(t, {"disable"}, "clear_root") /\ qgroupLock = NoTask
    /\ quotaRoot' = FALSE /\ flagOn' = FALSE
    /\ Goto(t, "free_enter")
    /\ UNCHANGED <<quotaEnabled, rescan, work, tree, subvolSem>>

FreeEnter(t) ==
    /\ At(t, {"disable", "umount"}, "free_enter")
    /\ Goto(t, IF FixFreeHoldsQgroupLock THEN "free_lock" ELSE "free_do")
    /\ UNCHANGED <<quota, rescan, work, tree, subvolSem>>

\* Mutant: a trylock whose failure is ignored.
FreeTryLock(t) ==
    /\ At(t, {"disable", "umount"}, "free_lock")
    /\ qgroupLock' = t
    /\ Goto(t, "free_do")
    /\ UNCHANGED <<quota, rescan, work, iterating, uafOccurred, subvolSem>>

FreeLock(t) ==
    /\ At(t, {"disable", "umount"}, "free_lock") /\ qgroupLock = NoTask
    /\ qgroupLock' = t
    /\ Goto(t, "free_do")
    /\ UNCHANGED <<quota, rescan, work, iterating, uafOccurred, subvolSem>>

FreeDo(t) ==
    /\ At(t, {"disable", "umount"}, "free_do")
    /\ FixFreeHoldsQgroupLock => qgroupLock = t
    /\ uafOccurred' = (uafOccurred \/ iterating \ {t} # {})
    /\ qgroupLock' = IF FixFreeHoldsQgroupLock THEN NoTask ELSE qgroupLock
    /\ Goto(t, "free_done")
    /\ UNCHANGED <<quota, rescan, work, iterating, subvolSem>>

DisableFreeDone(t) ==
    /\ At(t, {"disable"}, "free_done")
    /\ Goto(t, "clean")
    /\ UNCHANGED <<quota, rescan, work, tree, subvolSem>>

\* The fs_info goes away with the unmount: the next mount starts afresh.
UmountFreeDone(t) ==
    /\ At(t, {"umount"}, "free_done")
    /\ quotaRoot' = FALSE /\ quotaEnabled' = FALSE /\ flagOn' = FALSE
    /\ flagRescan' = FALSE /\ rescanRunning' = FALSE
    /\ completionDone' = FALSE /\ workerQueued' = FALSE
    /\ Return(t)
    /\ UNCHANGED <<workerStopped, tree, subvolSem>>

\* Steps that touch none of the modelled state but leave a window open:
\* the transaction commit of a rescan, the inlined wait's prologue, the
\* disable transaction and the removal of the quota tree.
Windows ==
    {<<"rescan", "commit", "zt_enter">>, <<"disable", "wait_enter", "wait_read">>,
     <<"disable", "wait_done", "trans">>, <<"disable", "trans", "clear_root">>,
     <<"disable", "clean", "done">>}

PassWindow(t) ==
    /\ \E w \in Windows : At(t, {w[1]}, w[2]) /\ Goto(t, w[3])
    /\ UNCHANGED <<quota, rescan, work, tree, subvolSem>>

-----------------------------------------------------------------------------
(* btrfs_qgroup_rescan_worker                                              *)

\* Mutant: the work item is executed again without having been queued.
WorkerRestarts ==
    /\ workerQueued' = FALSE
    /\ Enter(Worker, "scan", "run")
    /\ UNCHANGED <<quota, rescan, workerStopped, tree, subvolSem>>

WorkerStart ==
    /\ workerQueued
    /\ workerQueued' = FALSE
    /\ Enter(Worker, "scan", "run")
    /\ UNCHANGED <<quota, rescan, workerStopped, tree, subvolSem>>

\* Mutant: the worker walks a leaf without qgroup_lock.
ScanBare ==
    /\ At(Worker, {"scan"}, "run") /\ Worker \notin iterating
    /\ iterating' = iterating \cup {Worker}
    /\ Goto(Worker, "scan")
    /\ UNCHANGED <<quota, rescan, work, qgroupLock, uafOccurred, subvolSem>>

ScanLock ==
    /\ At(Worker, {"scan"}, "run")
    /\ qgroupLock = NoTask /\ Worker \notin iterating
    /\ qgroupLock' = Worker /\ iterating' = iterating \cup {Worker}
    /\ Goto(Worker, "scan")
    /\ UNCHANGED <<quota, rescan, work, uafOccurred, subvolSem>>

ScanUnlock ==
    /\ At(Worker, {"scan"}, "scan")
    /\ qgroupLock = Worker /\ Worker \in iterating
    /\ qgroupLock' = NoTask /\ iterating' = iterating \ {Worker}
    /\ Goto(Worker, "run")
    /\ UNCHANGED <<quota, rescan, work, uafOccurred, subvolSem>>

ExitLoop ==
    /\ At(Worker, {"scan"}, "run")
    /\ workerStopped' = (~quotaEnabled \/ Closing)
    /\ Goto(Worker, "finish")
    /\ UNCHANGED <<quota, rescan, workerQueued, tree, subvolSem>>

\* Mutants: rescan_running survives the scan; completion is not signalled.
FinishRunning ==
    /\ At(Worker, {"scan"}, "finish")
    /\ flagRescan' = (flagRescan /\ workerStopped) /\ completionDone' = TRUE
    /\ Goto(Worker, "exit")
    /\ UNCHANGED <<quota, rescanRunning, work, tree, subvolSem>>

FinishSilently ==
    /\ At(Worker, {"scan"}, "finish")
    /\ flagRescan' = (flagRescan /\ workerStopped) /\ rescanRunning' = FALSE
    /\ Goto(Worker, "exit")
    /\ UNCHANGED <<quota, completionDone, work, tree, subvolSem>>

\* A stopped worker keeps FLAG_RESCAN, so that the scan resumes later.
Finish ==
    /\ At(Worker, {"scan"}, "finish")
    /\ flagRescan' = (flagRescan /\ workerStopped)
    /\ rescanRunning' = FALSE /\ completionDone' = TRUE
    /\ Goto(Worker, "exit")
    /\ UNCHANGED <<quota, work, tree, subvolSem>>

WorkerDone ==
    /\ At(Worker, {"scan"}, "exit")
    /\ Return(Worker)
    /\ UNCHANGED <<quota, rescan, work, tree, subvolSem>>

-----------------------------------------------------------------------------
(* Steps that the tracer sees, under the name of the event it emits, and   *)
(* steps that it does not.                                                 *)

Observable(t, event) ==
    \/ event = "QuotaEnable_Enter" /\ QuotaEnableEnter(t)
    \/ event = "QuotaEnable_Done" /\ QuotaEnableDone(t)
    \/ event = "QuotaDisable_Enter" /\ QuotaDisableEnter(t)
    \/ event = "QuotaDisable_Done" /\ QuotaDisableDone(t)
    \/ event = "QgroupRescan_Enter" /\ QgroupRescanEnter(t)
    \/ event = "QgroupRescan_Done" /\ QgroupRescanDone(t)
    \/ event = "RescanZeroTracking_Enter" /\ ZeroTrackingEnter(t)
    \/ event = "RescanZeroTracking_Done" /\ ZeroTrackingDone(t)
    \/ event = "WaitRescanCompletion_Enter" /\ (UserWaitEnter(t) \/ UmountBegin(t))
    \/ event = "WaitRescanCompletion_Done" /\ (UserWaitDone(t) \/ UmountWaitDone(t))
    \/ event = "FreeQgroupConfig_Enter" /\ FreeEnter(t)
    \/ event = "FreeQgroupConfig_Done" /\ (DisableFreeDone(t) \/ UmountFreeDone(t))

ObservableWorker(event) ==
    \/ event = "RescanWorker_Enter" /\ WorkerStart
    \/ event = "RescanWorker_Done" /\ WorkerDone

ObservableNames ==
    {"QuotaEnable_Enter", "QuotaEnable_Done", "QuotaDisable_Enter",
     "QuotaDisable_Done", "QgroupRescan_Enter", "QgroupRescan_Done",
     "RescanZeroTracking_Enter", "RescanZeroTracking_Done",
     "WaitRescanCompletion_Enter", "WaitRescanCompletion_Done",
     "FreeQgroupConfig_Enter", "FreeQgroupConfig_Done",
     "RescanWorker_Enter", "RescanWorker_Done"}

InternalUser(t) ==
    \/ CheckRoot(t) \/ CreateRoot(t) \/ SetRoot(t) \/ SimpleSkip(t)
    \/ EnableQueue(t) \/ RescanRefused(t) \/ RescanInit(t)
    \/ ZeroTrackingLock(t) \/ ZeroTrackingUnlock(t) \/ RescanQueue(t)
    \/ WaitRead(t) \/ WaitBlocked(t) \/ ClearEnabled(t) \/ ClearRoot(t)
    \/ FreeLock(t) \/ FreeDo(t) \/ PassWindow(t)

InternalWorker == ScanLock \/ ScanUnlock \/ ExitLoop \/ Finish

Internal == (\E t \in UserTasks : InternalUser(t)) \/ InternalWorker

Next ==
    \/ Internal
    \/ \E event \in ObservableNames :
          (\E t \in UserTasks : Observable(t, event)) \/ ObservableWorker(event)

Spec == Init /\ [][Next]_vars

-----------------------------------------------------------------------------
(* Scheduling.  Every started handler and the queued worker keep running;  *)
(* qgroup_lock is a fair (queued) spin lock, so a task that spins on it    *)
(* gets it if it is free again and again; the scan visits finitely many    *)
(* leaves, so the worker leaves its loop.  Nothing forces an ioctl.        *)

AcquireQgroupLock(t) ==
    SetRoot(t) \/ ZeroTrackingLock(t) \/ ClearRoot(t) \/ FreeLock(t)

Proceed(t) ==
    \/ InternalUser(t)
    \/ QuotaEnableDone(t) \/ QuotaDisableDone(t) \/ QgroupRescanDone(t)
    \/ ZeroTrackingEnter(t) \/ ZeroTrackingDone(t) \/ UserWaitDone(t)
    \/ UmountWaitDone(t) \/ FreeEnter(t) \/ DisableFreeDone(t)
    \/ UmountFreeDone(t)

Fairness ==
    /\ \A t \in UserTasks : WF_vars(Proceed(t)) /\ SF_vars(AcquireQgroupLock(t))
    /\ WF_vars(WorkerStart) /\ WF_vars(ScanUnlock)
    /\ SF_vars(ExitLoop) /\ WF_vars(Finish) /\ WF_vars(WorkerDone)

FairSpec == Spec /\ Fairness

-----------------------------------------------------------------------------
(* Properties.                                                             *)

\* CVE-2025-39759: with the fix, btrfs_free_qgroup_config never frees the
\* records while zero tracking or the worker's scan walks the tree.
NoUAF == ~uafOccurred

\* The worker is the second possible victim: it is never in the middle of a
\* leaf while a disable or an unmount is in the free loop.
NoWorkerRaceWithFree ==
    ~(Worker \in iterating /\ \E t \in UserTasks : pc[t] = "free_do")

\* Whoever walks the tree holds qgroup_lock, and so does, with the fix,
\* whoever frees it.
LockDiscipline ==
    /\ \A t \in iterating : qgroupLock = t
    /\ FixFreeHoldsQgroupLock =>
          \A t \in UserTasks : pc[t] = "free_do" => qgroupLock = t

\* quota_root, QUOTA_ENABLED and FLAG_ON are written at different steps of
\* enable and disable; whenever no such handler runs they agree.
QuotaBitsAgree ==
    subvolSem = NoTask => quotaRoot = quotaEnabled /\ quotaRoot = flagOn

\* The worker is queued or has not yet signalled completion.
WorkerPending ==
    workerQueued \/ (op[Worker] = "scan" /\ pc[Worker] \in {"run", "scan", "finish"})

\* rescan_running promises a completion: it never stays set without a
\* worker that is going to clear it, whatever overlaps in between.
RunningHasWorker == rescanRunning => WorkerPending

\* A rescan that has reset the completion and not queued the worker yet.
InFlight(t) ==
    /\ op[t] \in {"enable", "rescan"}
    /\ pc[t] \in {"commit", "zt_enter", "zt_iter", "zt_done", "queue"}
RescanInFlight == \E t \in UserTasks : InFlight(t)

\* A rescan that starts after a disable or an unmount went to sleep resets
\* the completion under the sleeper; even so someone is left to wake it.
SleeperHasWaker ==
    \A t \in UserTasks :
        At(t, {"disable", "umount"}, "wait_block") =>
            completionDone \/ WorkerPending \/ RescanInFlight

\* Places where qgroup_lock is taken, and where it is given back.
TakesLock(t) ==
    \/ At(t, {"enable"}, "setroot") \/ At(t, {"disable"}, "clear_root")
    \/ At(t, {"disable", "umount"}, "free_lock")
    \/ At(t, {"enable", "rescan"}, "zt_iter") /\ t \notin iterating

GivesLock(t) ==
    \/ At(t, {"enable", "rescan"}, "zt_iter") /\ t \in iterating
    \/ At(t, {"disable", "umount"}, "free_do") /\ FixFreeHoldsQgroupLock
    \/ At(t, {"scan"}, "scan")

\* What a handler, or the worker, needs to take its next step.
MayGoOn(t) ==
    /\ TakesLock(t) => qgroupLock = NoTask
    /\ GivesLock(t) => qgroupLock = t
    /\ At(t, {"scan"}, "scan") => t \in iterating
    /\ At(t, {"disable", "wait", "umount"}, "wait_block") => completionDone
    /\ At(t, {"enable", "disable"}, "done") => subvolSem = t

Goes(t) == MayGoOn(t) /\ (op[t] # "none" \/ (t = Worker /\ workerQueued))

\* Whom t waits for: who is to signal the completion, or the holder of the lock.
WaitsFor(t) ==
    IF pc[t] = "wait_block"
    THEN {u \in UserTasks : InFlight(u)} \cup {w \in {Worker} : WorkerPending}
    ELSE {qgroupLock}

\* Every enable, disable, rescan and unmount can go on, or it waits for a task
\* that can, or for one that waits for one that can: nobody sleeps with the
\* spin lock held, and a rescan that starts after a disable or an unmount went
\* to sleep, and resets the completion under it, leaves someone to wake it.
NobodyHangs ==
    \A t \in UserTasks :
        op[t] \in {"enable", "disable", "rescan", "umount"} =>
            \/ Goes(t)
            \/ \E u \in WaitsFor(t) : Goes(u) \/ \E v \in WaitsFor(u) : Goes(v)

\* Every enable, disable, rescan and unmount that starts returns.  A plain
\* wait may not: others can keep restarting the rescan, and one that resets the
\* completion and then finds quotas off leaves nobody to signal it.
HandlersReturn ==
    \A t \in UserTasks :
        op[t] \in {"enable", "disable", "rescan", "umount"} ~> op[t] = "none"

\* The tree as an exclusive resource: every walk and every free has it alone.
TreeAccess == INSTANCE QgroupTreeAccess
                  WITH Tasks <- Tasks,
                       walking <- iterating,
                       freeing <- {t \in UserTasks : pc[t] = "free_do"}
TreeAccessSpec == TreeAccess!Spec

\* Enable sets rescan_running and queues the work item without the rescan
\* lock, "safe because enable holds subvol_sem": no one else queues it then.
EnableQueuesAlone ==
    [][\A t \in UserTasks : EnableQueue(t) => ~rescanRunning /\ ~workerQueued]_vars
=============================================================================
