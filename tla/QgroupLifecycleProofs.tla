------------------------ MODULE QgroupLifecycleProofs ------------------------
(***************************************************************************)
(* Proofs about the qgroup life cycle, for any set of user threads, with   *)
(* and without the fix.                                                    *)
(***************************************************************************)
EXTENDS QgroupLifecycle, TLAPS

\* The steps by which a handler starts.
Begin(t) ==
    \/ QuotaEnableEnter(t) \/ QuotaDisableEnter(t) \/ QgroupRescanEnter(t)
    \/ UserWaitEnter(t) \/ UmountBegin(t)

WorkerStep == WorkerStart \/ InternalWorker \/ WorkerDone

\* A step is a user thread's or the worker's; the event names play no part.
LEMMA NextCases ==
    ASSUME [Next]_vars
    PROVE  \/ \E t \in UserTasks : Proceed(t) \/ Begin(t)
           \/ WorkerStep
           \/ UNCHANGED vars
  BY DEF Next, Internal, Observable, ObservableWorker, Begin, Proceed, WorkerStep

-----------------------------------------------------------------------------
(* Types.                                                                  *)

\* A step of t to a place its handler has.
LEMMA GotoControl ==
    ASSUME ControlOK, NEW t \in Tasks, NEW place, Goto(t, place),
           <<op[t], place>> \in Stages
    PROVE  ControlOK'
<1>1. place \in Places
  BY DEF Stages, Places, Walking, Waiting, Freeing
<1> QED BY <1>1 DEF ControlOK, Goto

LEMMA EnterControl ==
    ASSUME ControlOK, NEW t \in Tasks, NEW o, NEW place, Enter(t, o, place),
           <<o, place>> \in Stages
    PROVE  ControlOK'
<1>1. place \in Places /\ o \in Ops
  BY DEF Stages, Places, Ops, Walking, Waiting, Freeing
<1> QED BY <1>1 DEF ControlOK, Enter

LEMMA ReturnControl ==
    ASSUME ControlOK, NEW t \in Tasks, Return(t) PROVE ControlOK'
<1>1. <<"none", "idle">> \in Stages /\ "idle" \in Places /\ "none" \in Ops
  BY DEF Stages, Places, Ops
<1> QED BY <1>1 DEF ControlOK, Return

\* A started handler moves between its own places.
LEMMA ControlUser ==
    ASSUME ControlOK, NEW t \in UserTasks, Proceed(t) PROVE ControlOK'
<1> USE DEF At, Tasks, Stages, Walking, Waiting, Freeing
<1>1. CASE CheckRoot(t)
  BY <1>1, GotoControl DEF CheckRoot
<1>2. CASE CreateRoot(t)
  BY <1>2, GotoControl DEF CreateRoot
<1>3. CASE SetRoot(t)
  BY <1>3, GotoControl DEF SetRoot
<1>4. CASE SimpleSkip(t)
  BY <1>4, GotoControl DEF SimpleSkip
<1>5. CASE EnableQueue(t)
  BY <1>5, GotoControl DEF EnableQueue
<1>6. CASE RescanRefused(t)
  BY <1>6, GotoControl DEF RescanRefused
<1>7. CASE RescanInit(t)
  BY <1>7, GotoControl DEF RescanInit
<1>8. CASE ZeroTrackingUnlock(t)
  BY <1>8, GotoControl DEF ZeroTrackingUnlock
<1>9. CASE RescanQueue(t)
  BY <1>9, GotoControl DEF RescanQueue
<1>10. CASE WaitRead(t)
  BY <1>10, GotoControl DEF WaitRead
<1>11. CASE WaitBlocked(t)
  BY <1>11, GotoControl DEF WaitBlocked
<1>12. CASE ClearEnabled(t)
  BY <1>12, GotoControl DEF ClearEnabled
<1>13. CASE ClearRoot(t)
  BY <1>13, GotoControl DEF ClearRoot
<1>14. CASE FreeEnter(t)
  BY <1>14, GotoControl DEF FreeEnter
<1>15. CASE FreeLock(t)
  BY <1>15, GotoControl DEF FreeLock
<1>16. CASE FreeDo(t)
  BY <1>16, GotoControl DEF FreeDo
<1>17. CASE ZeroTrackingEnter(t)
  BY <1>17, GotoControl DEF ZeroTrackingEnter
<1>18. CASE ZeroTrackingDone(t)
  BY <1>18, GotoControl DEF ZeroTrackingDone
<1>19. CASE UmountWaitDone(t)
  BY <1>19, GotoControl DEF UmountWaitDone
<1>20. CASE DisableFreeDone(t)
  BY <1>20, GotoControl DEF DisableFreeDone
<1>21. CASE ZeroTrackingLock(t)
  BY <1>21 DEF ZeroTrackingLock, ControlOK
<1>22. CASE PassWindow(t)
  <2>1. PICK w \in Windows : At(t, {w[1]}, w[2]) /\ Goto(t, w[3])
    BY <1>22 DEF PassWindow
  <2>2. <<op[t], w[3]>> \in Stages
    BY <2>1 DEF Windows
  <2> QED BY <2>1, <2>2, GotoControl
<1>23. CASE QuotaEnableDone(t) \/ QuotaDisableDone(t)
  BY <1>23, ReturnControl DEF QuotaEnableDone, QuotaDisableDone, QuotaCtlDone
<1>24. CASE QgroupRescanDone(t) \/ UserWaitDone(t) \/ UmountFreeDone(t)
  BY <1>24, ReturnControl DEF QgroupRescanDone, UserWaitDone, UmountFreeDone
<1> QED BY <1>1, <1>2, <1>3, <1>4, <1>5, <1>6, <1>7, <1>8, <1>9, <1>10,
           <1>11, <1>12, <1>13, <1>14, <1>15, <1>16, <1>17, <1>18, <1>19,
           <1>20, <1>21, <1>22, <1>23, <1>24
     DEF Proceed, InternalUser

\* A started handler keeps the types of the data.
LEMMA DataUser ==
    ASSUME DataOK, NEW t \in UserTasks, Proceed(t) PROVE DataOK'
<1> USE DEF DataOK, Tasks, quota, rescan, work, tree
<1>1. CASE CheckRoot(t) \/ SimpleSkip(t) \/ RescanRefused(t)
  BY <1>1 DEF CheckRoot, SimpleSkip, RescanRefused
<1>2. CASE CreateRoot(t)
  BY <1>2 DEF CreateRoot
<1>3. CASE SetRoot(t)
  BY <1>3 DEF SetRoot
<1>4. CASE EnableQueue(t)
  BY <1>4 DEF EnableQueue
<1>5. CASE RescanInit(t)
  BY <1>5 DEF RescanInit
<1>6. CASE ZeroTrackingLock(t)
  BY <1>6 DEF ZeroTrackingLock
<1>7. CASE ZeroTrackingUnlock(t)
  BY <1>7 DEF ZeroTrackingUnlock
<1>8. CASE RescanQueue(t)
  BY <1>8 DEF RescanQueue
<1>9. CASE WaitRead(t) \/ WaitBlocked(t) \/ UserWaitDone(t) \/ UmountWaitDone(t)
  BY <1>9 DEF WaitRead, WaitBlocked, UserWaitDone, UmountWaitDone
<1>10. CASE ClearEnabled(t)
  BY <1>10 DEF ClearEnabled
<1>11. CASE ClearRoot(t)
  BY <1>11 DEF ClearRoot
<1>12. CASE FreeEnter(t) \/ DisableFreeDone(t) \/ PassWindow(t)
  BY <1>12 DEF FreeEnter, DisableFreeDone, PassWindow
<1>13. CASE FreeLock(t)
  BY <1>13 DEF FreeLock
<1>14. CASE FreeDo(t)
  BY <1>14 DEF FreeDo
<1>15. CASE QgroupRescanDone(t) \/ ZeroTrackingEnter(t) \/ ZeroTrackingDone(t)
  BY <1>15 DEF QgroupRescanDone, ZeroTrackingEnter, ZeroTrackingDone
<1>16. CASE UmountFreeDone(t)
  BY <1>16 DEF UmountFreeDone
<1>17. CASE QuotaEnableDone(t) \/ QuotaDisableDone(t)
  BY <1>17 DEF QuotaEnableDone, QuotaDisableDone, QuotaCtlDone
<1> QED BY <1>1, <1>2, <1>3, <1>4, <1>5, <1>6, <1>7, <1>8, <1>9, <1>10,
           <1>11, <1>12, <1>13, <1>14, <1>15, <1>16, <1>17
     DEF Proceed, InternalUser

\* A starting handler keeps the types.
LEMMA TypeBegin ==
    ASSUME TypeOK, NEW t \in UserTasks, Begin(t) PROVE TypeOK'
<1> USE DEF Tasks, Begin, QuotaEnableEnter, QuotaDisableEnter, QuotaCtlEnter,
            QgroupRescanEnter, UserWaitEnter, UmountBegin
<1>1. ControlOK'
  BY EnterControl DEF TypeOK, Stages, Waiting
<1>2. DataOK'
  BY DEF TypeOK, DataOK, quota, rescan, work, tree
<1> QED BY <1>1, <1>2 DEF TypeOK

\* The worker keeps the types.
LEMMA TypeWorker == ASSUME TypeOK, WorkerStep PROVE TypeOK'
<1> USE DEF TypeOK, Tasks
<1>1. ControlOK'
  BY GotoControl, EnterControl, ReturnControl
     DEF Stages, At, WorkerStep, InternalWorker, WorkerStart, WorkerDone,
         ScanLock, ScanUnlock, ExitLoop, Finish
<1>2. DataOK'
  <2> USE DEF DataOK, quota, rescan, work, tree
  <2>1. CASE WorkerStart \/ WorkerDone \/ Finish
    BY <2>1 DEF WorkerStart, WorkerDone, Finish
  <2>2. CASE ScanLock \/ ScanUnlock
    BY <2>2 DEF ScanLock, ScanUnlock
  <2>3. CASE ExitLoop
    BY <2>3 DEF ExitLoop
  <2> QED BY <2>1, <2>2, <2>3 DEF WorkerStep, InternalWorker
<1> QED BY <1>1, <1>2

\* Every step keeps the types.
LEMMA TypeStep == ASSUME TypeOK, [Next]_vars PROVE TypeOK'
<1>1. CASE UNCHANGED vars
  BY <1>1 DEF vars, TypeOK, DataOK, ControlOK, quota, rescan, work, tree
<1>2. ASSUME NEW t \in UserTasks, Proceed(t) PROVE TypeOK'
  BY <1>2, ControlUser, DataUser DEF TypeOK
<1> QED BY <1>1, <1>2, NextCases, TypeBegin, TypeWorker

LEMMA TypeInit == Init => TypeOK
<1>1. Init => DataOK
  BY DEF Init, DataOK
<1>2. Init => ControlOK
  BY DEF Init, ControlOK, Stages, Ops, Places
<1> QED BY <1>1, <1>2 DEF TypeOK

\* The type invariant of the life cycle holds for any set of user threads.
THEOREM TypeCorrect == Spec => []TypeOK
<1>1. TypeOK /\ [Next]_vars => TypeOK'
  BY TypeStep
<1> QED BY <1>1, TypeInit, PTL DEF Spec

-----------------------------------------------------------------------------
(* The tree: with the fix nothing is freed under a reader.                 *)

\* Places in which a task may be walking the tree.
WalkPlaces == {"zt_iter", "scan"}

TreeInv ==
    /\ LockDiscipline
    /\ \A t \in iterating : pc[t] \in WalkPlaces
    /\ FixFreeHoldsQgroupLock => NoUAF

\* Steps that leave the tree's state alone, are not taken in the middle of a
\* walk or in the free loop, and do not enter the free loop.
Outside(t) ==
    /\ UNCHANGED tree
    /\ pc[t] \notin WalkPlaces \cup {"free_do"}
    /\ \E place \in Places \ {"free_do"} : pc' = [pc EXCEPT ![t] = place]

LEMMA OutsideKeepsTree ==
    ASSUME TypeOK, TreeInv, NEW t \in Tasks, Outside(t) PROVE TreeInv'
  BY DEF TypeOK, DataOK, ControlOK, TreeInv, LockDiscipline, NoUAF, Outside,
         WalkPlaces, tree, Tasks

LEMMA BeginOutside ==
    ASSUME NEW t \in UserTasks, Begin(t) PROVE Outside(t)
<1> USE DEF Outside, WalkPlaces, At, Enter, Places, Walking, Waiting, Freeing
<1>1. CASE QuotaEnableEnter(t) \/ QuotaDisableEnter(t)
  BY <1>1 DEF QuotaEnableEnter, QuotaDisableEnter, QuotaCtlEnter
<1>2. CASE QgroupRescanEnter(t) \/ UserWaitEnter(t) \/ UmountBegin(t)
  BY <1>2 DEF QgroupRescanEnter, UserWaitEnter, UmountBegin
<1> QED BY <1>1, <1>2 DEF Begin

\* Every step of a started handler is outside, except the five that take or
\* release qgroup_lock for a walk or for the free loop.
LEMMA ProceedOutside ==
    ASSUME NEW t \in UserTasks, Proceed(t)
    PROVE  \/ ZeroTrackingLock(t) \/ ZeroTrackingUnlock(t)
           \/ FreeEnter(t) \/ FreeLock(t) \/ FreeDo(t)
           \/ Outside(t)
<1> USE DEF Outside, WalkPlaces, At, Goto, Return, Places, Walking, Waiting, Freeing
<1>1. CASE CheckRoot(t) \/ CreateRoot(t) \/ SetRoot(t) \/ SimpleSkip(t) \/ EnableQueue(t)
  BY <1>1 DEF CheckRoot, CreateRoot, SetRoot, SimpleSkip, EnableQueue
<1>2. CASE RescanRefused(t) \/ RescanInit(t) \/ RescanQueue(t)
  BY <1>2 DEF RescanRefused, RescanInit, RescanQueue
<1>3. CASE WaitRead(t) \/ WaitBlocked(t) \/ ClearEnabled(t) \/ ClearRoot(t)
  BY <1>3 DEF WaitRead, WaitBlocked, ClearEnabled, ClearRoot
<1>4. CASE PassWindow(t)
  <2>1. PICK w \in Windows : At(t, {w[1]}, w[2]) /\ Goto(t, w[3])
    BY <1>4 DEF PassWindow
  <2>2. w[3] \in Places \ {"free_do"} /\ w[2] \notin WalkPlaces \cup {"free_do"}
    BY DEF Windows
  <2> QED BY <1>4, <2>1, <2>2 DEF PassWindow
<1>5. CASE QuotaEnableDone(t) \/ QuotaDisableDone(t)
  BY <1>5 DEF QuotaEnableDone, QuotaDisableDone, QuotaCtlDone
<1>6. CASE QgroupRescanDone(t) \/ UserWaitDone(t) \/ UmountFreeDone(t)
  BY <1>6 DEF QgroupRescanDone, UserWaitDone, UmountFreeDone
<1>7. CASE ZeroTrackingEnter(t) \/ ZeroTrackingDone(t) \/ UmountWaitDone(t)
           \/ DisableFreeDone(t)
  BY <1>7 DEF ZeroTrackingEnter, ZeroTrackingDone, UmountWaitDone, DisableFreeDone
<1> QED BY <1>1, <1>2, <1>3, <1>4, <1>5, <1>6, <1>7 DEF Proceed, InternalUser

LEMMA TreeStep == ASSUME TypeOK, TreeInv, [Next]_vars PROVE TreeInv'
<1> USE DEF TypeOK, DataOK, ControlOK, TreeInv, WalkPlaces, LockDiscipline, NoUAF, Tasks
<1>0. qgroupLock = NoTask => iterating = {}
  BY TasksAssumption DEF TasksAssumption, Worker, NoTask
<1>1. ASSUME NEW t \in UserTasks, Proceed(t) PROVE TreeInv'
  <2> USE DEF At, Goto
  <2>0. qgroupLock = NoTask /\ FixFreeHoldsQgroupLock
           => \A u \in UserTasks : pc[u] # "free_do"
    BY TasksAssumption DEF TasksAssumption
  <2>1. CASE ZeroTrackingLock(t)
    BY <1>0, <2>0, <2>1 DEF ZeroTrackingLock
  <2>2. CASE ZeroTrackingUnlock(t)
    BY <2>2 DEF ZeroTrackingUnlock
  <2>3. CASE FreeEnter(t)
    BY <2>3 DEF FreeEnter, tree
  <2>4. CASE FreeLock(t)
    BY <1>0, <2>0, <2>4 DEF FreeLock
  <2>5. CASE FreeDo(t)
    <3>1. FixFreeHoldsQgroupLock => iterating = {}
      BY <2>5 DEF FreeDo
    <3> QED BY <2>5, <3>1 DEF FreeDo
  <2>6. CASE Outside(t)
    BY <2>6, OutsideKeepsTree
  <2> QED BY <1>1, <2>1, <2>2, <2>3, <2>4, <2>5, <2>6, ProceedOutside
<1>2. ASSUME NEW t \in UserTasks, Begin(t) PROVE TreeInv'
  BY <1>2, BeginOutside, OutsideKeepsTree
<1>3. ASSUME WorkerStep PROVE TreeInv'
  <2> USE DEF At, Goto
  <2>1. CASE ScanLock
    BY <1>0, <2>1, TasksAssumption DEF TasksAssumption, ScanLock
  <2>2. CASE ScanUnlock
    BY <2>2 DEF ScanUnlock
  <2>3. CASE WorkerStart \/ WorkerDone \/ ExitLoop \/ Finish
    BY <2>3 DEF WorkerStart, WorkerDone, ExitLoop, Finish, Enter, Return, tree
  <2> QED BY <1>3, <2>1, <2>2, <2>3 DEF WorkerStep, InternalWorker
<1>4. CASE UNCHANGED vars
  BY <1>4 DEF vars, tree
<1> QED BY <1>1, <1>2, <1>3, <1>4, NextCases

LEMMA TreeInit == Init => TreeInv
  BY DEF Init, TreeInv, LockDiscipline, NoUAF, Tasks

\* qgroup_lock is held by whoever walks the tree and, with the fix, by
\* whoever frees it.
THEOREM LocksHeld == Spec => []LockDiscipline
<1>1. Init => TypeOK /\ TreeInv
  BY TreeInit, TypeInit
<1>2. TypeOK /\ TreeInv /\ [Next]_vars => (TypeOK /\ TreeInv)'
  BY TypeStep, TreeStep
<1>3. TreeInv => LockDiscipline
  BY DEF TreeInv
<1> QED BY <1>1, <1>2, <1>3, PTL DEF Spec

\* A kernel with the fix never frees qgroup records under a walk, whatever
\* the number of threads (CVE-2025-39759 is gone).
THEOREM UseAfterFreeExcluded == FixFreeHoldsQgroupLock => (Spec => []NoUAF)
<1> SUFFICES ASSUME FixFreeHoldsQgroupLock PROVE Spec => []NoUAF
  OBVIOUS
<1>1. Init => TypeOK /\ TreeInv
  BY TreeInit, TypeInit
<1>2. TypeOK /\ TreeInv /\ [Next]_vars => (TypeOK /\ TreeInv)'
  BY TypeStep, TreeStep
<1>3. TreeInv => NoUAF
  BY DEF TreeInv
<1> QED BY <1>1, <1>2, <1>3, PTL DEF Spec

\* With the fix the worker, the second possible victim, is never in the middle
\* of a leaf while a disable or an unmount is in the free loop.
THEOREM WorkerApartFromFree ==
    FixFreeHoldsQgroupLock => (Spec => []NoWorkerRaceWithFree)
<1> SUFFICES ASSUME FixFreeHoldsQgroupLock PROVE Spec => []NoWorkerRaceWithFree
  OBVIOUS
<1>1. LockDiscipline => NoWorkerRaceWithFree
  BY TasksAssumption DEF LockDiscipline, NoWorkerRaceWithFree
<1> QED BY <1>1, LocksHeld, PTL

-----------------------------------------------------------------------------
(* Who holds subvol_sem, and who moves.                                    *)

\* A user thread's step moves no other task.
MovesOnly(t) == \A u \in Tasks \ {t} : op'[u] = op[u] /\ pc'[u] = pc[u]

\* How a started handler's step changes the handlers and subvol_sem.
Stays(t)   == UNCHANGED <<op, subvolSem>>
Unlocks(t) == /\ op[t] \in {"enable", "disable"} /\ pc[t] = "done"
              /\ subvolSem = t
              /\ Return(t) /\ subvolSem' = NoTask
Leaves(t)  == op[t] \in {"rescan", "wait", "umount"} /\ Return(t) /\ UNCHANGED subvolSem

LEMMA ProceedHandlers ==
    ASSUME ControlOK, NEW t \in UserTasks, Proceed(t)
    PROVE  MovesOnly(t) /\ (Stays(t) \/ Unlocks(t) \/ Leaves(t))
<1> USE DEF MovesOnly, Stays, Unlocks, Leaves, At, Goto, Return, ControlOK, tree
<1>1. CASE CheckRoot(t) \/ CreateRoot(t) \/ SetRoot(t) \/ SimpleSkip(t)
  BY <1>1 DEF CheckRoot, CreateRoot, SetRoot, SimpleSkip
<1>2. CASE EnableQueue(t) \/ RescanQueue(t) \/ RescanRefused(t) \/ RescanInit(t)
  BY <1>2 DEF EnableQueue, RescanQueue, RescanRefused, RescanInit
<1>3. CASE ZeroTrackingLock(t) \/ ZeroTrackingUnlock(t)
  BY <1>3 DEF ZeroTrackingLock, ZeroTrackingUnlock
<1>4. CASE ZeroTrackingEnter(t) \/ ZeroTrackingDone(t)
  BY <1>4 DEF ZeroTrackingEnter, ZeroTrackingDone
<1>5. CASE WaitRead(t) \/ WaitBlocked(t) \/ UmountWaitDone(t) \/ PassWindow(t)
  BY <1>5 DEF WaitRead, WaitBlocked, UmountWaitDone, PassWindow
<1>6. CASE ClearEnabled(t) \/ ClearRoot(t)
  BY <1>6 DEF ClearEnabled, ClearRoot
<1>7. CASE FreeEnter(t) \/ FreeLock(t) \/ FreeDo(t) \/ DisableFreeDone(t)
  BY <1>7 DEF FreeEnter, FreeLock, FreeDo, DisableFreeDone
<1>8. CASE QuotaEnableDone(t) \/ QuotaDisableDone(t)
  BY <1>8 DEF QuotaEnableDone, QuotaDisableDone, QuotaCtlDone
<1>9. CASE QgroupRescanDone(t) \/ UserWaitDone(t) \/ UmountFreeDone(t)
  BY <1>9 DEF QgroupRescanDone, UserWaitDone, UmountFreeDone
<1> QED BY <1>1, <1>2, <1>3, <1>4, <1>5, <1>6, <1>7, <1>8, <1>9
     DEF Proceed, InternalUser

\* How a handler starts: with subvol_sem, alone, or next to the others.
Locks(t)   == /\ subvolSem = NoTask /\ subvolSem' = t /\ ~Closing
              /\ op' = [op EXCEPT ![t] = "enable"] \/ op' = [op EXCEPT ![t] = "disable"]
Joins(t)   == /\ UNCHANGED subvolSem /\ ~Closing
              /\ op' = [op EXCEPT ![t] = "rescan"] \/ op' = [op EXCEPT ![t] = "wait"]
Unmounts(t) == /\ UNCHANGED subvolSem /\ \A u \in UserTasks \ {t} : op[u] = "none"
               /\ op' = [op EXCEPT ![t] = "umount"]

LEMMA BeginHandlers ==
    ASSUME ControlOK, NEW t \in UserTasks, Begin(t)
    PROVE  /\ MovesOnly(t) /\ op[t] = "none"
           /\ Locks(t) \/ Joins(t) \/ Unmounts(t)
           /\ UNCHANGED <<quota, rescan, work>>
<1> USE DEF MovesOnly, Locks, Joins, Unmounts, At, Enter, ControlOK
<1>1. CASE QuotaEnableEnter(t) \/ QuotaDisableEnter(t)
  BY <1>1 DEF QuotaEnableEnter, QuotaDisableEnter, QuotaCtlEnter
<1>2. CASE QgroupRescanEnter(t) \/ UserWaitEnter(t) \/ UmountBegin(t)
  BY <1>2 DEF QgroupRescanEnter, UserWaitEnter, UmountBegin
<1> QED BY <1>1, <1>2 DEF Begin

LEMMA WorkerHandlers ==
    ASSUME ControlOK, WorkerStep
    PROVE  /\ \A u \in UserTasks : op'[u] = op[u] /\ pc'[u] = pc[u]
           /\ UNCHANGED <<quota, subvolSem>>
  BY TasksAssumption
     DEF TasksAssumption, Tasks, ControlOK, WorkerStep, InternalWorker,
         WorkerStart, WorkerDone, ScanLock, ScanUnlock, ExitLoop, Finish, Goto,
         Enter, Return

\* subvol_sem is held by exactly the task in enable or disable, and unmount
\* has the file system for itself.
HolderInv ==
    /\ \A t \in UserTasks : op[t] \in {"enable", "disable"} <=> subvolSem = t
    /\ \A t, u \in UserTasks : op[t] = "umount" /\ u # t => op[u] = "none"

LEMMA HolderStep == ASSUME TypeOK, HolderInv, [Next]_vars PROVE HolderInv'
<1> USE TasksAssumption DEF TasksAssumption, TypeOK, ControlOK, HolderInv, Tasks
<1>1. ASSUME NEW t \in UserTasks, Proceed(t) PROVE HolderInv'
  <2>1. CASE Stays(t)
    BY <2>1 DEF Stays
  <2>2. CASE Unlocks(t)
    BY <2>2 DEF Unlocks, Return
  <2>3. CASE Leaves(t)
    BY <2>3 DEF Leaves, Return
  <2> QED BY <1>1, <2>1, <2>2, <2>3, ProceedHandlers
<1>2. ASSUME NEW t \in UserTasks, Begin(t) PROVE HolderInv'
  <2>0. op[t] = "none"
    BY <1>2, BeginHandlers
  <2>1. CASE Locks(t)
    BY <2>0, <2>1 DEF Locks, Closing
  <2>2. CASE Joins(t)
    BY <2>0, <2>2 DEF Joins, Closing
  <2>3. CASE Unmounts(t)
    BY <2>0, <2>3 DEF Unmounts
  <2> QED BY <1>2, <2>1, <2>2, <2>3, BeginHandlers
<1>3. CASE WorkerStep
  BY <1>3, WorkerHandlers
<1>4. CASE UNCHANGED vars
  BY <1>4 DEF vars
<1> QED BY <1>1, <1>2, <1>3, <1>4, NextCases

LEMMA HolderInit == Init => HolderInv
  BY TasksAssumption DEF TasksAssumption, Init, HolderInv, Tasks

-----------------------------------------------------------------------------
(* The quota bits.                                                         *)

Agree == quotaRoot = quotaEnabled /\ quotaRoot = flagOn

DisableWaits == Waiting \cup {"wait_enter", "trans", "clear_root"}

\* What the bits are while t is in enable or disable.
BitsOf(t) ==
    /\ op[t] = "enable" /\ pc[t] # "setroot" => Agree
    /\ At(t, {"enable"}, "create") => ~quotaRoot
    /\ At(t, {"enable"}, "setroot") => ~quotaRoot /\ ~quotaEnabled /\ flagOn
    /\ op[t] = "disable" /\ pc[t] \notin DisableWaits => Agree
    /\ At(t, {"disable"}, "clear_enabled") => quotaRoot
    /\ op[t] = "disable" /\ pc[t] \in DisableWaits
          => quotaRoot /\ ~quotaEnabled /\ flagOn

BitsInv == QuotaBitsAgree /\ \A t \in UserTasks : BitsOf(t)

\* Five steps write the bits.
LEMMA QuotaWriters ==
    ASSUME NEW t \in UserTasks, Proceed(t)
    PROVE  \/ CreateRoot(t) \/ SetRoot(t) \/ ClearEnabled(t) \/ ClearRoot(t)
           \/ UmountFreeDone(t)
           \/ UNCHANGED quota
  BY DEF Proceed, InternalUser, CheckRoot, SimpleSkip, EnableQueue, RescanQueue,
         RescanRefused, RescanInit, ZeroTrackingLock, ZeroTrackingUnlock,
         ZeroTrackingEnter, ZeroTrackingDone, WaitRead, WaitBlocked,
         UmountWaitDone, PassWindow, FreeEnter, FreeLock, FreeDo,
         DisableFreeDone, QuotaEnableDone, QuotaDisableDone, QuotaCtlDone,
         QgroupRescanDone, UserWaitDone

\* The bits of the task that takes a step.
LEMMA OwnBits ==
    ASSUME TypeOK, HolderInv, BitsInv, NEW t \in UserTasks, Proceed(t)
    PROVE  BitsOf(t)'
<1> USE DEF TypeOK, ControlOK, BitsInv, BitsOf, Agree, DisableWaits, Waiting, At,
            Goto, Tasks, quota
<1>1. CASE CheckRoot(t) \/ SimpleSkip(t)
  BY <1>1 DEF CheckRoot, SimpleSkip
<1>2. CASE CreateRoot(t)
  BY <1>2 DEF CreateRoot
<1>3. CASE SetRoot(t)
  BY <1>3 DEF SetRoot
<1>4. CASE EnableQueue(t) \/ RescanQueue(t) \/ RescanRefused(t)
  BY <1>4 DEF EnableQueue, RescanQueue, RescanRefused
<1>5. CASE RescanInit(t)
  BY <1>5 DEF RescanInit
<1>6. CASE ZeroTrackingLock(t) \/ ZeroTrackingUnlock(t)
  BY <1>6 DEF ZeroTrackingLock, ZeroTrackingUnlock
<1>7. CASE ZeroTrackingEnter(t) \/ ZeroTrackingDone(t)
  BY <1>7 DEF ZeroTrackingEnter, ZeroTrackingDone
<1>8. CASE WaitRead(t) \/ WaitBlocked(t)
  BY <1>8 DEF WaitRead, WaitBlocked
<1>9. CASE PassWindow(t) \/ UmountWaitDone(t)
  BY <1>9 DEF PassWindow, Windows, UmountWaitDone
<1>10. CASE ClearEnabled(t)
  BY <1>10 DEF ClearEnabled
<1>11. CASE ClearRoot(t)
  BY <1>11 DEF ClearRoot, DataOK
<1>12. CASE FreeEnter(t) \/ FreeLock(t)
  BY <1>12 DEF FreeEnter, FreeLock
<1>13. CASE FreeDo(t) \/ DisableFreeDone(t)
  BY <1>13 DEF FreeDo, DisableFreeDone
<1>14. CASE QuotaEnableDone(t) \/ QuotaDisableDone(t) \/ QgroupRescanDone(t)
            \/ UserWaitDone(t) \/ UmountFreeDone(t)
  BY <1>14 DEF QuotaEnableDone, QuotaDisableDone, QuotaCtlDone,
               QgroupRescanDone, UserWaitDone, UmountFreeDone, Return
<1> QED BY <1>1, <1>2, <1>3, <1>4, <1>5, <1>6, <1>7, <1>8, <1>9, <1>10, <1>11,
           <1>12, <1>13, <1>14 DEF Proceed, InternalUser

LEMMA BitsStep ==
    ASSUME TypeOK, HolderInv, BitsInv, [Next]_vars PROVE BitsInv'
<1>1. ASSUME NEW t \in UserTasks, Proceed(t) PROVE BitsInv'
  <2>1. BitsOf(t)'
    BY <1>1, OwnBits
  <2>2. ASSUME NEW u \in UserTasks, u # t PROVE BitsOf(u)'
    <3>1. op'[u] = op[u] /\ pc'[u] = pc[u]
      BY <1>1, <2>2, ProceedHandlers DEF MovesOnly, TypeOK, Tasks
    <3>2. CASE UNCHANGED quota
      BY <3>1, <3>2 DEF quota, BitsInv, BitsOf, Agree, At
    <3>3. CASE op[u] \notin {"enable", "disable"}
      BY <3>1, <3>3 DEF BitsOf, At
    <3>4. CASE op[u] \in {"enable", "disable"}
      <4>1. op[t] \notin {"enable", "disable", "umount"}
        BY <2>2, <3>4 DEF HolderInv
      <4>2. UNCHANGED quota
        BY <1>1, <4>1, QuotaWriters
           DEF CreateRoot, SetRoot, ClearEnabled, ClearRoot, UmountFreeDone, At
      <4> QED BY <3>2, <4>2
    <3> QED BY <3>3, <3>4
  <2>3. QuotaBitsAgree'
    <3>1. CASE Stays(t) /\ op[t] \in {"enable", "disable"}
      BY <3>1, TasksAssumption
         DEF Stays, HolderInv, QuotaBitsAgree, TasksAssumption
    <3>2. CASE Unlocks(t)
      <4>1. Agree
        BY <3>2 DEF Unlocks, BitsInv, BitsOf, DisableWaits, Waiting
      <4>2. UNCHANGED quota
        BY <1>1, <3>2, QuotaWriters
           DEF Unlocks, CreateRoot, SetRoot, ClearEnabled, ClearRoot,
               UmountFreeDone, At
      <4> QED BY <4>1, <4>2 DEF Agree, QuotaBitsAgree, quota
    <3>3. CASE op[t] \notin {"enable", "disable"} /\ UNCHANGED subvolSem
      <4>1. UmountFreeDone(t) \/ UNCHANGED quota
        BY <1>1, <3>3, QuotaWriters
           DEF CreateRoot, SetRoot, ClearEnabled, ClearRoot, At
      <4>2. CASE UmountFreeDone(t)
        BY <4>2 DEF UmountFreeDone, QuotaBitsAgree
      <4>3. CASE UNCHANGED quota
        BY <3>3, <4>3 DEF BitsInv, QuotaBitsAgree, quota
      <4> QED BY <4>1, <4>2, <4>3
    <3> QED BY <1>1, <3>1, <3>2, <3>3, ProceedHandlers DEF Stays, Leaves, TypeOK
  <2> QED BY <2>1, <2>2, <2>3 DEF BitsInv
<1>2. ASSUME NEW t \in UserTasks, Begin(t) PROVE BitsInv'
  <2>1. MovesOnly(t) /\ UNCHANGED quota /\ op[t] = "none"
    BY <1>2, BeginHandlers DEF TypeOK
  <2>2. ASSUME NEW u \in UserTasks, u # t PROVE BitsOf(u)'
    BY <2>1, <2>2 DEF MovesOnly, BitsInv, BitsOf, Agree, At, Tasks, quota
  <2>3. BitsOf(t)'
    <3>1. CASE QuotaEnableEnter(t) \/ QuotaDisableEnter(t)
      BY <2>1, <3>1
         DEF QuotaEnableEnter, QuotaDisableEnter, QuotaCtlEnter, Enter, BitsInv,
             QuotaBitsAgree, BitsOf, Agree, At, DisableWaits, Waiting, TypeOK,
             ControlOK, Tasks, quota
    <3>2. CASE QgroupRescanEnter(t) \/ UserWaitEnter(t) \/ UmountBegin(t)
      BY <3>2 DEF QgroupRescanEnter, UserWaitEnter, UmountBegin, Enter, BitsOf,
                  At, TypeOK, ControlOK, Tasks
    <3> QED BY <1>2, <3>1, <3>2 DEF Begin
  <2>4. QuotaBitsAgree'
    BY <1>2, <2>1, BeginHandlers, TasksAssumption
       DEF TasksAssumption, Locks, Joins, Unmounts, QuotaBitsAgree, BitsInv,
           TypeOK, quota
  <2> QED BY <2>2, <2>3, <2>4 DEF BitsInv
<1>3. CASE WorkerStep
  BY <1>3, WorkerHandlers
     DEF TypeOK, BitsInv, BitsOf, QuotaBitsAgree, Agree, At, quota
<1>4. CASE UNCHANGED vars
  BY <1>4 DEF vars, BitsInv, BitsOf, QuotaBitsAgree, Agree, At, quota
<1> QED BY <1>1, <1>2, <1>3, <1>4, NextCases

LEMMA BitsInit == Init => BitsInv
  BY DEF Init, BitsInv, BitsOf, QuotaBitsAgree, Agree, At, Tasks

\* quota_root, QUOTA_ENABLED and FLAG_ON agree whenever no enable or disable
\* is running, although each of the two writes them in separate steps.
THEOREM BitsAgree == Spec => []QuotaBitsAgree
<1> DEFINE Inv == TypeOK /\ HolderInv /\ BitsInv
<1>1. Init => Inv
  BY TypeInit, HolderInit, BitsInit
<1>2. Inv /\ [Next]_vars => Inv'
  BY TypeStep, HolderStep, BitsStep
<1>3. Inv => QuotaBitsAgree
  BY DEF BitsInv
<1> QED BY <1>1, <1>2, <1>3, PTL DEF Spec

-----------------------------------------------------------------------------
(* Completion.                                                             *)

\* Four steps of user threads touch the running flag, the completion or the
\* queue.
LEMMA RescanWriters ==
    ASSUME NEW t \in UserTasks, Proceed(t)
    PROVE  \/ RescanInit(t) \/ EnableQueue(t) \/ RescanQueue(t) \/ UmountFreeDone(t)
           \/ UNCHANGED <<rescanRunning, completionDone, workerQueued>>
  BY DEF Proceed, InternalUser, CheckRoot, CreateRoot, SetRoot, SimpleSkip,
         RescanRefused, ZeroTrackingLock, ZeroTrackingUnlock, ZeroTrackingEnter,
         ZeroTrackingDone, WaitRead, WaitBlocked, UmountWaitDone, ClearEnabled,
         ClearRoot, PassWindow, FreeEnter, FreeLock, FreeDo, DisableFreeDone,
         QuotaEnableDone, QuotaDisableDone, QuotaCtlDone, QgroupRescanDone,
         UserWaitDone, rescan, work

LEMMA WorkerApart ==
    ASSUME TypeOK, NEW t \in UserTasks, Proceed(t) \/ Begin(t)
    PROVE  op'[Worker] = op[Worker] /\ pc'[Worker] = pc[Worker]
  BY TasksAssumption, ProceedHandlers, BeginHandlers
     DEF TasksAssumption, Tasks, MovesOnly, TypeOK

LEMMA RunningStep ==
    ASSUME TypeOK, RunningHasWorker, [Next]_vars PROVE RunningHasWorker'
<1> USE DEF RunningHasWorker, WorkerPending
<1>1. ASSUME NEW t \in UserTasks, Proceed(t) PROVE RunningHasWorker'
  <2>1. CASE RescanInit(t) \/ UmountFreeDone(t)
    BY <1>1, <2>1, WorkerApart DEF RescanInit, UmountFreeDone, work
  <2>2. CASE EnableQueue(t)
    BY <2>2 DEF EnableQueue
  <2>3. CASE RescanQueue(t)
    BY <1>1, <2>3, WorkerApart DEF RescanQueue, TypeOK, DataOK
  <2>4. CASE UNCHANGED <<rescanRunning, completionDone, workerQueued>>
    BY <1>1, <2>4, WorkerApart
  <2> QED BY <1>1, <2>1, <2>2, <2>3, <2>4, RescanWriters
<1>2. ASSUME NEW t \in UserTasks, Begin(t) PROVE RunningHasWorker'
  BY <1>2, WorkerApart, BeginHandlers DEF rescan, work, TypeOK
<1>3. CASE WorkerStep
  <2> USE DEF At, Goto, TypeOK, ControlOK, Tasks
  <2>1. CASE WorkerStart
    BY <2>1 DEF WorkerStart, Enter
  <2>2. CASE ScanLock \/ ScanUnlock \/ ExitLoop
    BY <2>2 DEF ScanLock, ScanUnlock, ExitLoop, rescan, work
  <2>3. CASE Finish
    BY <2>3 DEF Finish
  <2>4. CASE WorkerDone
    BY <2>4 DEF WorkerDone, rescan, work
  <2> QED BY <1>3, <2>1, <2>2, <2>3, <2>4 DEF WorkerStep, InternalWorker
<1>4. CASE UNCHANGED vars
  BY <1>4 DEF vars, rescan, work
<1> QED BY <1>1, <1>2, <1>3, <1>4, NextCases

\* rescan_running is never left set without a worker that will clear it,
\* however enables, rescans, disables and unmounts overlap.
THEOREM RunningRescanHasWorker == Spec => []RunningHasWorker
<1>1. Init => RunningHasWorker
  BY DEF Init, RunningHasWorker
<1>2. TypeOK /\ RunningHasWorker /\ [Next]_vars => RunningHasWorker'
  BY RunningStep
<1> QED BY <1>1, <1>2, TypeCorrect, PTL DEF Spec

\* A task falls asleep only while a rescan runs.
LEMMA FallsAsleep ==
    ASSUME ControlOK, NEW t \in UserTasks, Proceed(t), pc'[t] = "wait_block"
    PROVE  rescanRunning /\ UNCHANGED <<workerQueued>>
<1> USE DEF At, Goto, Return, ControlOK, Tasks
<1>1. CASE WaitRead(t)
  BY <1>1 DEF WaitRead, work
<1>2. CASE CheckRoot(t) \/ CreateRoot(t) \/ SetRoot(t) \/ SimpleSkip(t) \/ EnableQueue(t)
  BY <1>2 DEF CheckRoot, CreateRoot, SetRoot, SimpleSkip, EnableQueue
<1>3. CASE RescanQueue(t) \/ RescanRefused(t) \/ RescanInit(t)
  BY <1>3 DEF RescanQueue, RescanRefused, RescanInit
<1>4. CASE ZeroTrackingLock(t) \/ ZeroTrackingUnlock(t) \/ ZeroTrackingEnter(t)
           \/ ZeroTrackingDone(t)
  BY <1>4 DEF ZeroTrackingLock, ZeroTrackingUnlock, ZeroTrackingEnter, ZeroTrackingDone
<1>5. CASE WaitBlocked(t) \/ UmountWaitDone(t) \/ ClearEnabled(t) \/ ClearRoot(t)
  BY <1>5 DEF WaitBlocked, UmountWaitDone, ClearEnabled, ClearRoot
<1>6. CASE PassWindow(t)
  BY <1>6 DEF PassWindow, Windows
<1>7. CASE FreeEnter(t) \/ FreeLock(t) \/ FreeDo(t) \/ DisableFreeDone(t)
  BY <1>7 DEF FreeEnter, FreeLock, FreeDo, DisableFreeDone
<1>8. CASE QuotaEnableDone(t) \/ QuotaDisableDone(t)
  BY <1>8 DEF QuotaEnableDone, QuotaDisableDone, QuotaCtlDone
<1>9. CASE QgroupRescanDone(t) \/ UserWaitDone(t) \/ UmountFreeDone(t)
  BY <1>9 DEF QgroupRescanDone, UserWaitDone, UmountFreeDone
<1> QED BY <1>1, <1>2, <1>3, <1>4, <1>5, <1>6, <1>7, <1>8, <1>9
     DEF Proceed, InternalUser

\* A rescan in flight stays in flight until it queues the worker.
LEMMA FlightEnds ==
    ASSUME ControlOK, NEW t \in UserTasks, Proceed(t), InFlight(t)
    PROVE  InFlight(t)' \/ EnableQueue(t) \/ RescanQueue(t)
<1> USE DEF InFlight, At, Goto, ControlOK, Tasks
<1>1. CASE pc[t] = "commit" \/ pc[t] = "zt_enter" \/ pc[t] = "zt_done"
  <2>1. PassWindow(t) \/ ZeroTrackingEnter(t) \/ ZeroTrackingDone(t)
    BY <1>1 DEF Proceed, InternalUser, CheckRoot, CreateRoot, SetRoot,
         SimpleSkip, EnableQueue, RescanQueue, RescanRefused, RescanInit,
         ZeroTrackingLock, ZeroTrackingUnlock, WaitRead, WaitBlocked,
         UmountWaitDone, ClearEnabled, ClearRoot, FreeEnter, FreeLock, FreeDo,
         DisableFreeDone, QuotaEnableDone, QuotaDisableDone, QuotaCtlDone,
         QgroupRescanDone, UserWaitDone, UmountFreeDone
  <2> QED BY <1>1, <2>1 DEF PassWindow, Windows, ZeroTrackingEnter, ZeroTrackingDone
<1>2. CASE pc[t] = "zt_iter" \/ pc[t] = "queue"
  <2>1. ZeroTrackingLock(t) \/ ZeroTrackingUnlock(t) \/ EnableQueue(t) \/ RescanQueue(t)
    BY <1>2 DEF Proceed, InternalUser, CheckRoot, CreateRoot, SetRoot,
         SimpleSkip, RescanRefused, RescanInit, ZeroTrackingEnter,
         ZeroTrackingDone, WaitRead, WaitBlocked, UmountWaitDone, ClearEnabled,
         ClearRoot, FreeEnter, FreeLock, FreeDo, PassWindow, Windows,
         DisableFreeDone, QuotaEnableDone, QuotaDisableDone, QuotaCtlDone,
         QgroupRescanDone, UserWaitDone, UmountFreeDone
  <2> QED BY <2>1 DEF ZeroTrackingLock, ZeroTrackingUnlock
<1> QED BY <1>1, <1>2

\* The sleeper has someone to wake it, whichever task moves.
LEMMA SleeperStep ==
    ASSUME TypeOK, HolderInv, BitsInv, RunningHasWorker, SleeperHasWaker,
           [Next]_vars
    PROVE  SleeperHasWaker'
<1> DEFINE Awake == completionDone \/ WorkerPending \/ RescanInFlight
           Sleeps(u) == At(u, {"disable", "umount"}, "wait_block")
<1>a. RescanInFlight <=> \E v \in UserTasks : InFlight(v)
  BY DEF RescanInFlight, InFlight
<1>b. RescanInFlight' <=> \E v \in UserTasks : InFlight(v)'
  BY DEF RescanInFlight, InFlight
<1>1. ASSUME NEW t \in UserTasks, Proceed(t), NEW u \in UserTasks, Sleeps(u)'
      PROVE  Awake'
  <2>0. op'[Worker] = op[Worker] /\ pc'[Worker] = pc[Worker]
    BY <1>1, WorkerApart
  <2>1. CASE u = t
    BY <1>1, <2>0, <2>1, FallsAsleep
       DEF At, RunningHasWorker, WorkerPending, TypeOK
  <2>2. CASE u # t
    <3>1. Sleeps(u)
      BY <1>1, <2>2, ProceedHandlers DEF MovesOnly, At, TypeOK, Tasks
    <3>2. Awake
      BY <3>1 DEF SleeperHasWaker
    <3>3. op[t] # "umount" /\ (op[u] = "umount" => op[t] = "none")
      BY <2>2, <3>1 DEF HolderInv, At
    <3>4. ~UmountFreeDone(t)
      BY <3>3 DEF UmountFreeDone, At
    <3>5. CASE completionDone
      <4>1. CASE RescanInit(t)
        BY <4>1, <1>b DEF RescanInit, InFlight, At, Goto, TypeOK, ControlOK, Tasks
      <4>2. CASE EnableQueue(t) \/ RescanQueue(t)
        BY <3>5, <4>2 DEF EnableQueue, RescanQueue
      <4> QED BY <1>1, <3>4, <3>5, <4>1, <4>2, RescanWriters
    <3>6. CASE WorkerPending
      <4>1. workerQueued => workerQueued'
        BY <1>1, <3>4, RescanWriters DEF RescanInit, EnableQueue, RescanQueue, work
      <4> QED BY <2>0, <3>6, <4>1 DEF WorkerPending
    <3>7. CASE RescanInFlight
      <4>1. PICK v \in UserTasks : InFlight(v)
        BY <3>7, <1>a
      <4>2. CASE v # t
        BY <1>1, <1>b, <4>1, <4>2, ProceedHandlers
           DEF MovesOnly, InFlight, TypeOK, Tasks
      <4>3. CASE v = t /\ InFlight(t)'
        BY <1>b, <4>3
      <4>4. CASE EnableQueue(t)
        BY <4>4 DEF EnableQueue, WorkerPending
      <4>5. CASE RescanQueue(t)
        <5>1. op[u] = "disable" /\ pc[u] = "wait_block"
          BY <3>1, <3>3, <4>5 DEF RescanQueue, At
        <5>2. flagOn
          BY <5>1 DEF BitsInv, BitsOf, DisableWaits, Waiting
        <5> QED BY <4>5, <5>2 DEF RescanQueue, WorkerPending
      <4> QED BY <1>1, <4>1, <4>2, <4>3, <4>4, <4>5, FlightEnds DEF TypeOK
    <3> QED BY <3>2, <3>5, <3>6, <3>7
  <2> QED BY <2>1, <2>2
<1>2. ASSUME NEW t \in UserTasks, Begin(t), NEW u \in UserTasks, Sleeps(u)'
      PROVE  Awake'
  <2>1. /\ MovesOnly(t) /\ op[t] = "none" /\ UNCHANGED <<rescan, work>>
        /\ op'[Worker] = op[Worker] /\ pc'[Worker] = pc[Worker]
    BY <1>2, BeginHandlers, WorkerApart DEF TypeOK
  <2>2. pc'[t] # "wait_block"
    BY <1>2 DEF Begin, QuotaEnableEnter, QuotaDisableEnter, QuotaCtlEnter,
                QgroupRescanEnter, UserWaitEnter, UmountBegin, Enter, TypeOK,
                ControlOK, Tasks
  <2>3. Sleeps(u)
    BY <1>2, <2>1, <2>2 DEF At, MovesOnly, Tasks
  <2>4. Awake
    BY <2>3 DEF SleeperHasWaker
  <2>5. ASSUME NEW v \in UserTasks, InFlight(v) PROVE InFlight(v)'
    BY <2>1, <2>5 DEF InFlight, MovesOnly, Tasks
  <2> QED BY <1>a, <1>b, <2>1, <2>4, <2>5 DEF WorkerPending, rescan, work
<1>3. ASSUME WorkerStep, NEW u \in UserTasks, Sleeps(u)' PROVE Awake'
  <2>1. \A v \in UserTasks : op'[v] = op[v] /\ pc'[v] = pc[v]
    BY <1>3, WorkerHandlers DEF TypeOK
  <2>2. Awake
    BY <1>3, <2>1 DEF SleeperHasWaker, At
  <2>3. RescanInFlight => RescanInFlight'
    BY <1>a, <1>b, <2>1 DEF InFlight
  <2> USE DEF WorkerPending, At, Goto, TypeOK, ControlOK, Tasks
  <2>4. CASE WorkerStart
    BY <2>4 DEF WorkerStart, Enter
  <2>5. CASE ScanLock \/ ScanUnlock \/ ExitLoop
    BY <2>2, <2>3, <2>5 DEF ScanLock, ScanUnlock, ExitLoop, rescan, work
  <2>6. CASE Finish
    BY <2>6 DEF Finish
  <2>7. CASE WorkerDone
    BY <2>2, <2>3, <2>7 DEF WorkerDone, rescan, work
  <2> QED BY <1>3, <2>4, <2>5, <2>6, <2>7 DEF WorkerStep, InternalWorker
<1>4. CASE UNCHANGED vars
  BY <1>4 DEF vars, SleeperHasWaker, WorkerPending, RescanInFlight, InFlight, At, rescan, work
<1> QED BY <1>1, <1>2, <1>3, <1>4, NextCases DEF SleeperHasWaker

\* A disable or an unmount that sleeps for the completion is never deserted:
\* it has been signalled, or a worker or a rescan that will queue one exists.
\* Without subvol_sem and the order of disable's steps it would not hold: a
\* rescan that finds quotas off queues nobody.
THEOREM SleepersHaveWakers == Spec => []SleeperHasWaker
<1> DEFINE Inv == /\ TypeOK /\ HolderInv /\ BitsInv
                  /\ RunningHasWorker /\ SleeperHasWaker
<1>1. Init => Inv
  BY TypeInit, HolderInit, BitsInit
     DEF Init, RunningHasWorker, SleeperHasWaker, At, Tasks
<1>2. Inv /\ [Next]_vars => Inv'
  BY TypeStep, HolderStep, BitsStep, RunningStep, SleeperStep
<1>3. Inv => SleeperHasWaker
  OBVIOUS
<1> QED BY <1>1, <1>2, <1>3, PTL DEF Spec

-----------------------------------------------------------------------------
(* Nobody hangs.                                                           *)

\* The lock is not held anywhere but in a walk and, with the fix, in the free
\* loop, and the worker is inside the tree while it scans a leaf.
HeldInv ==
    /\ \A t \in Tasks :
          qgroupLock = t =>
              t \in iterating \/ (FixFreeHoldsQgroupLock /\ t \in UserTasks /\ pc[t] = "free_do")
    /\ pc[Worker] = "scan" => Worker \in iterating
    /\ \A t \in UserTasks : pc[t] = "free_lock" => FixFreeHoldsQgroupLock

\* Only the worker scans, and it does nothing else.
RolesInv ==
    /\ op[Worker] \in {"none", "scan"}
    /\ \A t \in UserTasks : op[t] # "scan"

LEMMA OutsideKeepsHeld ==
    ASSUME TypeOK, HeldInv, NEW t \in UserTasks, Outside(t), pc'[t] # "free_lock"
    PROVE  HeldInv'
  BY TasksAssumption
     DEF TasksAssumption, TypeOK, ControlOK, HeldInv, Outside, tree, Tasks, WalkPlaces

\* Only entering the free loop leads to its lock.
LEMMA NotToFreeLock ==
    ASSUME TypeOK, NEW t \in UserTasks, Proceed(t) \/ Begin(t), ~FreeEnter(t)
    PROVE  pc'[t] # "free_lock"
<1> USE DEF TypeOK, ControlOK, Tasks, Goto, Return
<1>1. CASE Begin(t)
  BY <1>1 DEF Begin, QuotaEnableEnter, QuotaDisableEnter, QuotaCtlEnter,
              QgroupRescanEnter, UserWaitEnter, UmountBegin, Enter
<1>2. CASE CheckRoot(t) \/ CreateRoot(t) \/ SetRoot(t) \/ SimpleSkip(t) \/ EnableQueue(t)
  BY <1>2 DEF CheckRoot, CreateRoot, SetRoot, SimpleSkip, EnableQueue
<1>3. CASE RescanRefused(t) \/ RescanInit(t) \/ RescanQueue(t) \/ ZeroTrackingUnlock(t)
  BY <1>3 DEF RescanRefused, RescanInit, RescanQueue, ZeroTrackingUnlock
<1>4. CASE ZeroTrackingLock(t)
  BY <1>4 DEF ZeroTrackingLock, At
<1>5. CASE WaitRead(t) \/ WaitBlocked(t) \/ ClearEnabled(t) \/ ClearRoot(t)
           \/ FreeLock(t) \/ FreeDo(t)
  BY <1>5 DEF WaitRead, WaitBlocked, ClearEnabled, ClearRoot, FreeLock, FreeDo
<1>6. CASE PassWindow(t)
  <2>1. PICK w \in Windows : Goto(t, w[3])
    BY <1>6 DEF PassWindow
  <2>2. w[3] # "free_lock"
    BY DEF Windows
  <2> QED BY <2>1, <2>2
<1>7. CASE QuotaEnableDone(t) \/ QuotaDisableDone(t) \/ QgroupRescanDone(t)
           \/ UserWaitDone(t) \/ UmountFreeDone(t)
  BY <1>7 DEF QuotaEnableDone, QuotaDisableDone, QuotaCtlDone, QgroupRescanDone,
              UserWaitDone, UmountFreeDone
<1>8. CASE ZeroTrackingEnter(t) \/ ZeroTrackingDone(t) \/ UmountWaitDone(t)
           \/ DisableFreeDone(t)
  BY <1>8 DEF ZeroTrackingEnter, ZeroTrackingDone, UmountWaitDone, DisableFreeDone
<1> QED BY <1>1, <1>2, <1>3, <1>4, <1>5, <1>6, <1>7, <1>8 DEF Proceed, InternalUser

LEMMA HeldStep == ASSUME TypeOK, TreeInv, HeldInv, [Next]_vars PROVE HeldInv'
<1> USE TasksAssumption
     DEF TasksAssumption, TypeOK, DataOK, ControlOK, HeldInv, At, Goto, Tasks, Worker, NoTask
<1>1. ASSUME NEW t \in UserTasks, Proceed(t) PROVE HeldInv'
  <2>1. CASE ZeroTrackingLock(t)
    BY <2>1 DEF ZeroTrackingLock
  <2>2. CASE ZeroTrackingUnlock(t)
    BY <2>2 DEF ZeroTrackingUnlock
  <2>3. CASE FreeEnter(t)
    BY <2>3 DEF FreeEnter, tree
  <2>4. CASE FreeLock(t)
    <3>1. FixFreeHoldsQgroupLock
      BY <2>4 DEF FreeLock
    <3> QED BY <2>4, <3>1 DEF FreeLock
  <2>5. CASE FreeDo(t)
    BY <2>5 DEF FreeDo
  <2>6. CASE Outside(t) /\ ~FreeEnter(t)
    BY <1>1, <2>6, OutsideKeepsHeld, NotToFreeLock
  <2> QED BY <1>1, <2>1, <2>2, <2>3, <2>4, <2>5, <2>6, ProceedOutside
<1>2. ASSUME NEW t \in UserTasks, Begin(t) PROVE HeldInv'
  <2>1. ~FreeEnter(t)
    BY <1>2, BeginHandlers DEF FreeEnter
  <2> QED BY <1>2, <2>1, BeginOutside, OutsideKeepsHeld, NotToFreeLock
<1>3. ASSUME WorkerStep PROVE HeldInv'
  <2>1. CASE ScanLock
    BY <2>1 DEF ScanLock
  <2>2. CASE ScanUnlock
    BY <2>2 DEF ScanUnlock
  <2>3. CASE WorkerStart \/ WorkerDone \/ ExitLoop \/ Finish
    BY <2>3 DEF WorkerStart, WorkerDone, ExitLoop, Finish, Enter, Return, tree
  <2> QED BY <1>3, <2>1, <2>2, <2>3 DEF WorkerStep, InternalWorker
<1>4. CASE UNCHANGED vars
  BY <1>4 DEF vars, tree
<1> QED BY <1>1, <1>2, <1>3, <1>4, NextCases

LEMMA HeldInit == Init => HeldInv
  BY TasksAssumption DEF TasksAssumption, Init, HeldInv, Tasks, Worker, NoTask

LEMMA RolesStep == ASSUME TypeOK, RolesInv, [Next]_vars PROVE RolesInv'
<1> USE DEF TypeOK, ControlOK, RolesInv, Tasks
<1>1. ASSUME NEW t \in UserTasks, Proceed(t) PROVE RolesInv'
  <2>1. op'[t] \in {op[t], "none"}
    BY <1>1, ProceedHandlers DEF Stays, Unlocks, Leaves, Return
  <2> QED BY <1>1, <2>1, ProceedHandlers, WorkerApart DEF MovesOnly
<1>2. ASSUME NEW t \in UserTasks, Begin(t) PROVE RolesInv'
  <2>1. op'[t] # "scan"
    BY <1>2, BeginHandlers DEF Locks, Joins, Unmounts
  <2> QED BY <1>2, <2>1, BeginHandlers, WorkerApart DEF MovesOnly
<1>3. CASE WorkerStep
  <2>1. op'[Worker] \in {op[Worker], "none", "scan"}
    BY <1>3 DEF WorkerStep, InternalWorker, WorkerStart, WorkerDone, ScanLock,
                ScanUnlock, ExitLoop, Finish, Goto, Enter, Return
  <2> QED BY <1>3, <2>1, WorkerHandlers
<1>4. CASE UNCHANGED vars
  BY <1>4 DEF vars
<1> QED BY <1>1, <1>2, <1>3, <1>4, NextCases

LEMMA RolesInit == Init => RolesInv
  BY DEF Init, RolesInv, Tasks

\* Whoever holds the spin lock goes on and gives it back.
LEMMA HolderGoes ==
    ASSUME TypeOK, TreeInv, HeldInv, qgroupLock # NoTask PROVE Goes(qgroupLock)
<1> DEFINE h == qgroupLock
<1>1. h \in Tasks /\ <<op[h], pc[h]>> \in Stages
  BY DEF TypeOK, DataOK, ControlOK
<1>2. CASE h \in iterating
  <2>1. pc[h] \in WalkPlaces
    BY <1>2 DEF TreeInv
  <2> QED BY <1>1, <1>2, <2>1
         DEF WalkPlaces, Stages, Walking, Waiting, Freeing, Goes, MayGoOn, TakesLock, GivesLock, At
<1>3. CASE pc[h] = "free_do"
  BY <1>1, <1>3 DEF Stages, Walking, Waiting, Freeing, Goes, MayGoOn, TakesLock, GivesLock, At
<1> QED BY <1>1, <1>2, <1>3 DEF HeldInv

\* Who does not sleep can go on, or spins on a lock whose holder can.
LEMMA SpinnerWaits ==
    ASSUME TypeOK, TreeInv, HeldInv, RolesInv, HolderInv, NEW t \in UserTasks,
           op[t] # "none", pc[t] # "wait_block"
    PROVE  Goes(t) \/ \E u \in WaitsFor(t) : Goes(u)
<1>1. CASE TakesLock(t) /\ qgroupLock # NoTask
  BY <1>1, HolderGoes DEF WaitsFor
<1>2. CASE ~(TakesLock(t) /\ qgroupLock # NoTask)
  <2>1. ~At(t, {"scan"}, "scan")
    BY DEF RolesInv, At
  <2>2. GivesLock(t) => qgroupLock = t
    BY <2>1 DEF GivesLock, TreeInv, LockDiscipline, At
  <2>3. At(t, {"enable", "disable"}, "done") => subvolSem = t
    BY DEF HolderInv, At
  <2> QED BY <1>2, <2>1, <2>2, <2>3 DEF Goes, MayGoOn, At
<1> QED BY <1>1, <1>2

\* A worker that is queued, or has not signalled completion, goes on.
LEMMA WorkerGoes ==
    ASSUME TypeOK, TreeInv, HeldInv, RolesInv, WorkerPending PROVE Goes(Worker)
<1>1. <<op[Worker], pc[Worker]>> \in Stages
  BY DEF TypeOK, ControlOK, Tasks
<1>2. op[Worker] = "none" => pc[Worker] = "idle"
  BY <1>1 DEF Stages, Walking, Waiting, Freeing
<1>3. op[Worker] = "scan" => pc[Worker] \in {"run", "scan", "finish", "exit"}
  BY <1>1 DEF Stages, Walking, Waiting, Freeing
<1>4. pc[Worker] = "scan" => Worker \in iterating /\ qgroupLock = Worker
  BY DEF HeldInv, TreeInv, LockDiscipline
<1>5. MayGoOn(Worker)
  BY <1>2, <1>3, <1>4 DEF RolesInv, MayGoOn, TakesLock, GivesLock, At
<1>6. op[Worker] # "none" \/ workerQueued
  BY DEF WorkerPending
<1> QED BY <1>5, <1>6 DEF Goes

\* The three ways a handler can stand still, and who moves it on: a spinner
\* has the holder of the lock, a sleeper the worker, or a rescan that resets
\* the completion and may itself be spinning.
LEMMA NobodyHangsInv ==
    ASSUME TypeOK, TreeInv, HeldInv, RolesInv, HolderInv, SleeperHasWaker
    PROVE  NobodyHangs
<1> SUFFICES ASSUME NEW t \in UserTasks, op[t] \in {"enable", "disable", "rescan", "umount"}
             PROVE  \/ Goes(t)
                    \/ \E u \in WaitsFor(t) : Goes(u) \/ \E v \in WaitsFor(u) : Goes(v)
  BY DEF NobodyHangs
<1>1. CASE pc[t] # "wait_block"
  BY <1>1, SpinnerWaits
<1>2. CASE pc[t] = "wait_block"
  <2>1. op[t] \in {"disable", "umount"}
    <3>1. <<op[t], pc[t]>> \in Stages
      BY DEF TypeOK, ControlOK, Tasks
    <3> QED BY <1>2, <3>1 DEF Stages, Walking, Waiting, Freeing
  <2>2. CASE completionDone
    BY <1>2, <2>1, <2>2 DEF Goes, MayGoOn, TakesLock, GivesLock, At
  <2>3. CASE WorkerPending
    <3>1. Worker \in WaitsFor(t)
      BY <1>2, <2>3 DEF WaitsFor
    <3> QED BY <2>3, <3>1, WorkerGoes
  <2>4. CASE RescanInFlight
    <3>1. PICK u \in UserTasks : InFlight(u)
      BY <2>4 DEF RescanInFlight
    <3>2. u \in WaitsFor(t)
      BY <1>2, <3>1 DEF WaitsFor
    <3>3. op[u] # "none" /\ pc[u] # "wait_block"
      BY <3>1 DEF InFlight
    <3> QED BY <3>2, <3>3, SpinnerWaits
  <2> QED BY <1>2, <2>1, <2>2, <2>3, <2>4 DEF SleeperHasWaker, At
<1> QED BY <1>1, <1>2

\* No enable, disable, rescan or unmount ever hangs: whatever it waits for is
\* held, or owed, by a task that can go on.
THEOREM NobodyEverHangs == Spec => []NobodyHangs
<1> DEFINE Inv == TypeOK /\ TreeInv /\ HeldInv /\ RolesInv /\ HolderInv
<1>1. Init => Inv
  BY TypeInit, TreeInit, HeldInit, RolesInit, HolderInit
<1>2. Inv /\ [Next]_vars => Inv'
  BY TypeStep, TreeStep, HeldStep, RolesStep, HolderStep
<1>3. Inv /\ SleeperHasWaker => NobodyHangs
  BY NobodyHangsInv
<1> QED BY <1>1, <1>2, <1>3, SleepersHaveWakers, PTL DEF Spec

-----------------------------------------------------------------------------
(* Refinement.                                                             *)

Freers == {t \in UserTasks : pc[t] = "free_do"}

\* With the fix every step is a step of the abstract tree, or none.
LEMMA TreeRefinementStep ==
    ASSUME FixFreeHoldsQgroupLock, TypeOK, TreeInv, [Next]_vars
    PROVE  [TreeAccess!Next]_(TreeAccess!vars)
<1> USE DEF TypeOK, DataOK, ControlOK, TreeInv, LockDiscipline, WalkPlaces, Tasks
<1> SUFFICES \/ \E t \in Tasks :
                   \/ TreeAccess!BeginWalk(t) \/ TreeAccess!EndWalk(t)
                   \/ TreeAccess!BeginFree(t) \/ TreeAccess!EndFree(t)
             \/ iterating' = iterating /\ Freers' = Freers
  BY DEF TreeAccess!Next, TreeAccess!vars, Freers
<1>0. qgroupLock = NoTask => iterating = {} /\ Freers = {}
  BY TasksAssumption DEF TasksAssumption, Worker, NoTask, Freers
<1>1. ASSUME NEW t \in UserTasks, Outside(t) PROVE iterating' = iterating /\ Freers' = Freers
  BY <1>1 DEF Outside, Freers, tree
<1>2. ASSUME NEW t \in UserTasks, ZeroTrackingLock(t) PROVE TreeAccess!BeginWalk(t)
  BY <1>0, <1>2 DEF ZeroTrackingLock, TreeAccess!BeginWalk, TreeAccess!Unused, Freers
<1>3. ASSUME NEW t \in UserTasks, ZeroTrackingUnlock(t) PROVE TreeAccess!EndWalk(t)
  BY <1>3 DEF ZeroTrackingUnlock, TreeAccess!EndWalk, Goto, At, Freers
<1>4. ASSUME NEW t \in UserTasks, FreeEnter(t)
      PROVE  iterating' = iterating /\ Freers' = Freers
  BY <1>4 DEF FreeEnter, Goto, At, Freers, tree
<1>5. ASSUME NEW t \in UserTasks, FreeLock(t) PROVE TreeAccess!BeginFree(t)
  BY <1>0, <1>5 DEF FreeLock, TreeAccess!BeginFree, TreeAccess!Unused, Goto, At, Freers
<1>6. ASSUME NEW t \in UserTasks, FreeDo(t) PROVE TreeAccess!EndFree(t)
  BY <1>6 DEF FreeDo, TreeAccess!EndFree, Goto, At, Freers
<1>7. CASE WorkerStep
  <2>1. Freers' = Freers
    BY <1>7, WorkerHandlers DEF Freers
  <2>2. CASE ScanLock
    BY <1>0, <2>1, <2>2 DEF ScanLock, TreeAccess!BeginWalk, TreeAccess!Unused, Freers
  <2>3. CASE ScanUnlock
    BY <2>1, <2>3 DEF ScanUnlock, TreeAccess!EndWalk, Freers
  <2>4. CASE WorkerStart \/ WorkerDone \/ ExitLoop \/ Finish
    BY <2>1, <2>4 DEF WorkerStart, WorkerDone, ExitLoop, Finish, tree
  <2> QED BY <1>7, <2>2, <2>3, <2>4 DEF WorkerStep, InternalWorker
<1>8. CASE UNCHANGED vars
  BY <1>8 DEF vars, tree, Freers
<1> QED
  BY <1>1, <1>2, <1>3, <1>4, <1>5, <1>6, <1>7, <1>8, NextCases, ProceedOutside,
     BeginOutside

\* With the fix the life cycle implements exclusive access to the qgroup tree.
THEOREM TreeIsExclusive == FixFreeHoldsQgroupLock => (Spec => TreeAccessSpec)
<1> SUFFICES ASSUME FixFreeHoldsQgroupLock PROVE Spec => TreeAccessSpec
  OBVIOUS
<1>1. Init => TreeAccess!Init
  BY DEF Init, TreeAccess!Init, Tasks
<1>2. TypeOK /\ TreeInv /\ [Next]_vars => [TreeAccess!Next]_(TreeAccess!vars)
  BY TreeRefinementStep
<1>3. Init => TypeOK /\ TreeInv
  BY TreeInit, TypeInit
<1>4. TypeOK /\ TreeInv /\ [Next]_vars => (TypeOK /\ TreeInv)'
  BY TypeStep, TreeStep
<1> QED BY <1>1, <1>2, <1>3, <1>4, PTL DEF Spec, TreeAccessSpec, TreeAccess!Spec

\* What the abstract tree promises: whoever is inside is alone.
LEMMA TreeAccessExcludes == TreeAccessSpec => []TreeAccess!Exclusive
<1>1. TreeAccess!Init => TreeAccess!Exclusive
  BY DEF TreeAccess!Init, TreeAccess!Exclusive
<1>2. TreeAccess!Exclusive /\ [TreeAccess!Next]_(TreeAccess!vars) => TreeAccess!Exclusive'
  <2> SUFFICES ASSUME TreeAccess!Exclusive, [TreeAccess!Next]_(TreeAccess!vars)
               PROVE  TreeAccess!Exclusive'
    OBVIOUS
  <2> USE DEF TreeAccess!Exclusive
  <2>1. ASSUME NEW t \in Tasks, TreeAccess!BeginWalk(t) \/ TreeAccess!BeginFree(t)
        PROVE  TreeAccess!Exclusive'
    BY <2>1 DEF TreeAccess!BeginWalk, TreeAccess!BeginFree, TreeAccess!Unused
  <2>2. ASSUME NEW t \in Tasks, TreeAccess!EndWalk(t) \/ TreeAccess!EndFree(t)
        PROVE  TreeAccess!Exclusive'
    BY <2>2 DEF TreeAccess!EndWalk, TreeAccess!EndFree
  <2>3. CASE UNCHANGED TreeAccess!vars
    BY <2>3 DEF TreeAccess!vars
  <2> QED BY <2>1, <2>2, <2>3 DEF TreeAccess!Next
<1> QED BY <1>1, <1>2, PTL DEF TreeAccessSpec, TreeAccess!Spec

\* And so it is in the life cycle: with the fix at most one task walks or frees
\* the tree.
THEOREM OneInTheTree == FixFreeHoldsQgroupLock => (Spec => []TreeAccess!Exclusive)
BY TreeIsExclusive, TreeAccessExcludes, PTL
=============================================================================
