------------------------- MODULE QgroupObserverProofs -------------------------
(***************************************************************************)
(* Proofs about those who observe the qgroup life cycle, for any set of    *)
(* user threads.  The checker: it forgets no thread and keeps none too     *)
(* long, and no free that endangers an ioctl goes unreported.  The judge   *)
(* of the mutation test: every trace of the life cycle, however long, is   *)
(* in program order, so what it rejects is none.                           *)
(***************************************************************************)
EXTENDS QgroupTracing, QgroupReplay, QgroupLifecycleProofs, FiniteSetTheorems, SequenceTheorems

-----------------------------------------------------------------------------
(* The checker.                                                            *)

\* The kernel is not disturbed by being traced.
LEMMA TracedStepsAreSteps ==
    ASSUME [TracedNext]_tracedVars PROVE [Next]_vars
  BY DEF TracedNext, Silent, Internal, Traced, Disregarded, Probe, Next, tracedVars

-----------------------------------------------------------------------------
(* The steps by what the checker makes of them.                            *)

Adds(t) ==
    /\ QgroupRescanEnter(t) \/ ZeroTrackingEnter(t)
    /\ activeTids' = activeTids \cup {t} /\ UNCHANGED reported

Drops(t) ==
    /\ QgroupRescanDone(t) \/ ZeroTrackingDone(t)
    /\ activeTids' = activeTids \ {t} /\ UNCHANGED reported

Checks(t) ==
    /\ FreeEnter(t) /\ UNCHANGED activeTids
    /\ reported' = IF activeTids # {} THEN reported \cup {t} ELSE reported

Forgets(t) ==
    /\ DisableFreeDone(t) \/ UmountFreeDone(t)
    /\ UNCHANGED activeTids /\ reported' = reported \ {t}

Ignored(t) ==
    /\ \/ InternalUser(t) \/ QuotaEnableEnter(t) \/ QuotaEnableDone(t)
       \/ QuotaDisableEnter(t) \/ QuotaDisableDone(t) \/ UserWaitEnter(t)
       \/ UserWaitDone(t) \/ UmountBegin(t) \/ UmountWaitDone(t)
    /\ UNCHANGED <<activeTids, reported>>

LEMMA TracedCases ==
    ASSUME [TracedNext]_tracedVars
    PROVE  \/ \E t \in UserTasks :
                 Adds(t) \/ Drops(t) \/ Checks(t) \/ Forgets(t) \/ Ignored(t)
           \/ WorkerStep /\ UNCHANGED <<activeTids, reported>>
           \/ UNCHANGED <<vars, activeTids, reported>>
<1> USE DEF Adds, Drops, Checks, Forgets, Ignored
<1>1. ASSUME NEW t \in UserTasks, NEW event \in ObservableNames, Traced(t, event)
      PROVE  Adds(t) \/ Drops(t) \/ Checks(t) \/ Forgets(t) \/ Ignored(t)
  <2> USE <1>1 DEF Traced, Checker, TrackRescans, UafAlarm
  <2>1. CASE event \in {"QuotaEnable_Enter", "QuotaEnable_Done",
                        "QuotaDisable_Enter", "QuotaDisable_Done"}
    BY <2>1 DEF Observable
  <2>2. CASE event \in {"QgroupRescan_Enter", "RescanZeroTracking_Enter"}
    BY <2>2 DEF Observable
  <2>3. CASE event \in {"QgroupRescan_Done", "RescanZeroTracking_Done"}
    BY <2>3 DEF Observable
  <2>4. CASE event \in {"WaitRescanCompletion_Enter", "WaitRescanCompletion_Done"}
    BY <2>4 DEF Observable
  <2>5. CASE event = "FreeQgroupConfig_Enter"
    BY <2>5 DEF Observable
  <2>6. CASE event = "FreeQgroupConfig_Done"
    BY <2>6 DEF Observable
  <2>7. CASE event \in {"RescanWorker_Enter", "RescanWorker_Done"}
    BY <2>7 DEF Observable
  <2> QED BY <2>1, <2>2, <2>3, <2>4, <2>5, <2>6, <2>7 DEF ObservableNames
<1>2. ASSUME Silent
      PROVE  \/ \E t \in UserTasks : Ignored(t)
             \/ WorkerStep /\ UNCHANGED <<activeTids, reported>>
  BY <1>2 DEF Silent, Internal, WorkerStep, checker
<1>3. ASSUME NEW event \in ObservableNames, Disregarded(event)
      PROVE  WorkerStep /\ UNCHANGED <<activeTids, reported>>
  BY <1>3 DEF Disregarded, ObservableWorker, WorkerStep, checker
<1>4. ASSUME NEW t \in UserTasks, Probe(t) PROVE UNCHANGED <<vars, activeTids, reported>>
  BY <1>4 DEF Probe
<1> QED BY <1>1, <1>2, <1>3, <1>4 DEF TracedNext, tracedVars, checker

\* Whichever it is, it moves no other user thread.
LEMMA OthersStay ==
    ASSUME ControlOK, NEW t \in UserTasks,
           Adds(t) \/ Drops(t) \/ Checks(t) \/ Forgets(t) \/ Ignored(t)
    PROVE  \A u \in UserTasks \ {t} : op'[u] = op[u] /\ pc'[u] = pc[u]
<1>1. Proceed(t) \/ Begin(t)
  BY DEF Adds, Drops, Checks, Forgets, Ignored, Proceed, Begin
<1> QED BY <1>1, ProceedHandlers, BeginHandlers DEF MovesOnly, Tasks

-----------------------------------------------------------------------------
(* rescan_active_tids.                                                     *)

\* In an enable's zero tracking.
EnableWalks(t) == op[t] = "enable" /\ pc[t] \in {"zt_iter", "zt_done"}

\* Between two events that make t active.
Watched(t) ==
    \/ EnableWalks(t)
    \/ op[t] = "rescan" /\ pc[t] \in {"rescaninit", "commit", "zt_enter",
                                      "zt_iter", "zt_done"}

TidOf(t) ==
    /\ Watched(t) => t \in activeTids
    /\ t \in activeTids => op[t] = "rescan" \/ EnableWalks(t)

TidInv == activeTids \subseteq UserTasks /\ \A t \in UserTasks : TidOf(t)

\* An ignored step neither starts nor ends a watched stretch.
LEMMA IgnoredTid ==
    ASSUME ControlOK, NEW t \in UserTasks, TidOf(t), Ignored(t)
    PROVE  TidOf(t)'
<1> USE DEF TidOf, Watched, EnableWalks, ControlOK, Tasks, At, Goto, Enter, Return
<1>0. UNCHANGED activeTids
  BY DEF Ignored
<1>1. CASE CheckRoot(t) \/ CreateRoot(t) \/ SetRoot(t) \/ SimpleSkip(t)
  BY <1>0, <1>1 DEF CheckRoot, CreateRoot, SetRoot, SimpleSkip
<1>2. CASE EnableQueue(t) \/ RescanQueue(t) \/ RescanRefused(t) \/ RescanInit(t)
  BY <1>0, <1>2 DEF EnableQueue, RescanQueue, RescanRefused, RescanInit
<1>3. CASE ZeroTrackingLock(t) \/ ZeroTrackingUnlock(t)
  BY <1>0, <1>3 DEF ZeroTrackingLock, ZeroTrackingUnlock
<1>4. CASE WaitRead(t) \/ WaitBlocked(t) \/ UmountWaitDone(t) \/ UserWaitDone(t)
  BY <1>0, <1>4 DEF WaitRead, WaitBlocked, UmountWaitDone, UserWaitDone
<1>5. CASE ClearEnabled(t) \/ ClearRoot(t) \/ FreeLock(t) \/ FreeDo(t)
  BY <1>0, <1>5 DEF ClearEnabled, ClearRoot, FreeLock, FreeDo
<1>6. CASE PassWindow(t)
  BY <1>0, <1>6 DEF PassWindow, Windows
<1>7. CASE QuotaEnableEnter(t) \/ QuotaDisableEnter(t)
  BY <1>0, <1>7 DEF QuotaEnableEnter, QuotaDisableEnter, QuotaCtlEnter
<1>8. CASE QuotaEnableDone(t) \/ QuotaDisableDone(t)
  BY <1>0, <1>8 DEF QuotaEnableDone, QuotaDisableDone, QuotaCtlDone
<1>9. CASE UserWaitEnter(t) \/ UmountBegin(t)
  BY <1>0, <1>9 DEF UserWaitEnter, UmountBegin
<1> QED BY <1>1, <1>2, <1>3, <1>4, <1>5, <1>6, <1>7, <1>8, <1>9
     DEF Ignored, InternalUser

LEMMA TidStep ==
    ASSUME TypeOK, TidInv, [TracedNext]_tracedVars PROVE TidInv'
<1> USE DEF TidInv
<1>1. ASSUME NEW t \in UserTasks,
             Adds(t) \/ Drops(t) \/ Checks(t) \/ Forgets(t) \/ Ignored(t)
      PROVE  TidInv'
  <2>1. activeTids' \ {t} = activeTids \ {t} /\ activeTids' \subseteq UserTasks
    BY <1>1 DEF Adds, Drops, Checks, Forgets, Ignored
  <2>2. \A u \in UserTasks \ {t} : TidOf(u)'
    BY <1>1, <2>1, OthersStay DEF TypeOK, TidOf, Watched, EnableWalks
  <2>3. TidOf(t)'
    <3> USE DEF TypeOK, ControlOK, Tasks, TidOf, Watched, EnableWalks, At, Goto,
                Enter, Return
    <3>1. CASE Adds(t)
      BY <3>1 DEF Adds, QgroupRescanEnter, ZeroTrackingEnter
    <3>2. CASE Drops(t)
      BY <3>2 DEF Drops, QgroupRescanDone, ZeroTrackingDone
    <3>3. CASE Checks(t)
      BY <3>3 DEF Checks, FreeEnter
    <3>4. CASE Forgets(t)
      BY <3>4 DEF Forgets, DisableFreeDone, UmountFreeDone
    <3> QED BY <1>1, <3>1, <3>2, <3>3, <3>4, IgnoredTid
  <2> QED BY <2>1, <2>2, <2>3
<1>2. CASE WorkerStep /\ UNCHANGED <<activeTids, reported>>
  BY <1>2, WorkerHandlers DEF TypeOK, TidOf, Watched, EnableWalks
<1>3. CASE UNCHANGED <<vars, activeTids, reported>>
  BY <1>3 DEF vars, TidOf, Watched, EnableWalks
<1> QED BY <1>1, <1>2, <1>3, TracedCases

LEMMA TidInit == TracedInit => TidInv
  BY DEF TracedInit, Init, TidInv, TidOf, Watched, EnableWalks, Tasks

\* The checker keeps no thread active that has left its ioctl, however the
\* ioctls overlap and wherever they fail.
THEOREM NoTidIsStale == TracedSpec => []NoStaleTid
<1> DEFINE Inv == TypeOK /\ TidInv
<1>1. TracedInit => Inv
  BY TypeInit, TidInit DEF TracedInit
<1>2. Inv /\ [TracedNext]_tracedVars => Inv'
  BY TracedStepsAreSteps, TypeStep, TidStep
<1>3. Inv => NoStaleTid
  BY DEF TidInv, TidOf, EnableWalks, NoStaleTid
<1> QED BY <1>1, <1>2, <1>3, PTL DEF TracedSpec

-----------------------------------------------------------------------------
(* Frees under a rescan ioctl.                                             *)

\* Once a disable has come to the free, quotas are off and stay off until it
\* returns, since an enable would need subvol_sem.
OffWhileFreeing ==
    \A t \in UserTasks : op[t] = "disable" /\ pc[t] \in Freeing => ~flagOn

\* How a handler's step can change FLAG_ON and reach the free.
LEMMA FreeingStep ==
    ASSUME ControlOK, NEW t \in UserTasks, Proceed(t)
    PROVE  /\ flagOn' => flagOn \/ op[t] = "enable"
           /\ op'[t] = "disable" /\ pc'[t] \in Freeing
                 => op[t] = "disable" /\ (pc[t] \in Freeing \/ ~flagOn')
<1> USE DEF At, Goto, Return, ControlOK, Tasks, Freeing, quota
<1>1. CASE CheckRoot(t) \/ CreateRoot(t) \/ SetRoot(t) \/ SimpleSkip(t)
  BY <1>1 DEF CheckRoot, CreateRoot, SetRoot, SimpleSkip
<1>2. CASE EnableQueue(t) \/ RescanQueue(t) \/ RescanRefused(t) \/ RescanInit(t)
  BY <1>2 DEF EnableQueue, RescanQueue, RescanRefused, RescanInit
<1>3. CASE ZeroTrackingLock(t) \/ ZeroTrackingUnlock(t)
  BY <1>3 DEF ZeroTrackingLock, ZeroTrackingUnlock
<1>4. CASE ZeroTrackingEnter(t) \/ ZeroTrackingDone(t)
  BY <1>4 DEF ZeroTrackingEnter, ZeroTrackingDone
<1>5. CASE WaitRead(t) \/ WaitBlocked(t) \/ UmountWaitDone(t)
  BY <1>5 DEF WaitRead, WaitBlocked, UmountWaitDone
<1>6. CASE PassWindow(t)
  BY <1>6 DEF PassWindow, Windows
<1>7. CASE ClearEnabled(t) \/ ClearRoot(t)
  BY <1>7 DEF ClearEnabled, ClearRoot
<1>8. CASE FreeEnter(t) \/ FreeLock(t) \/ FreeDo(t) \/ DisableFreeDone(t)
  BY <1>8 DEF FreeEnter, FreeLock, FreeDo, DisableFreeDone
<1>9. CASE QuotaEnableDone(t) \/ QuotaDisableDone(t)
  BY <1>9 DEF QuotaEnableDone, QuotaDisableDone, QuotaCtlDone
<1>10. CASE QgroupRescanDone(t) \/ UserWaitDone(t) \/ UmountFreeDone(t)
  BY <1>10 DEF QgroupRescanDone, UserWaitDone, UmountFreeDone
<1> QED BY <1>1, <1>2, <1>3, <1>4, <1>5, <1>6, <1>7, <1>8, <1>9, <1>10
     DEF Proceed, InternalUser

LEMMA OffStep ==
    ASSUME TypeOK, HolderInv, OffWhileFreeing, [Next]_vars
    PROVE  OffWhileFreeing'
<1> USE DEF OffWhileFreeing, TypeOK
<1>1. ASSUME NEW t \in UserTasks, Proceed(t) PROVE OffWhileFreeing'
  <2>1. \A u \in UserTasks \ {t} : op'[u] = op[u] /\ pc'[u] = pc[u]
    BY <1>1, ProceedHandlers DEF MovesOnly, Tasks
  <2>2. ASSUME NEW u \in UserTasks \ {t}, op'[u] = "disable", pc'[u] \in Freeing
        PROVE  ~flagOn'
    <3>1. ~flagOn /\ op[t] # "enable"
      BY <2>1, <2>2 DEF HolderInv
    <3> QED BY <1>1, <3>1, FreeingStep
  <2>3. ASSUME op'[t] = "disable", pc'[t] \in Freeing PROVE ~flagOn'
    BY <1>1, <2>3, FreeingStep
  <2> QED BY <2>2, <2>3
<1>2. ASSUME NEW t \in UserTasks, Begin(t) PROVE OffWhileFreeing'
  <2>1. \A u \in UserTasks \ {t} : op'[u] = op[u] /\ pc'[u] = pc[u]
    BY <1>2, BeginHandlers DEF MovesOnly, Tasks
  <2>2. ~(op'[t] = "disable" /\ pc'[t] \in Freeing) /\ UNCHANGED flagOn
    BY <1>2 DEF Begin, QuotaEnableEnter, QuotaDisableEnter, QuotaCtlEnter,
         QgroupRescanEnter, UserWaitEnter, UmountBegin, Enter, ControlOK, Tasks,
         Freeing, quota
  <2> QED BY <2>1, <2>2
<1>3. CASE WorkerStep
  BY <1>3, WorkerHandlers DEF quota
<1>4. CASE UNCHANGED vars
  BY <1>4 DEF vars, quota
<1> QED BY <1>1, <1>2, <1>3, <1>4, NextCases

LEMMA OffInit == Init => OffWhileFreeing
  BY DEF Init, OffWhileFreeing, Tasks

\* A rescan ioctl that is past its checks and not past zero tracking.
Started(u) == op[u] = "rescan" /\ pc[u] \in {"commit", "zt_enter", "zt_iter"}

\* A free that has been announced and not yet carried out.
Announced(t) == op[t] \in {"disable", "umount"} /\ pc[t] \in {"free_lock", "free_do"}

\* The inductive form of IoctlVictimReported: an unreported free has no
\* started rescan next to it, for none was active when it was announced and
\* none passes its checks afterwards.
ReportInv ==
    \A t, u \in UserTasks : Announced(t) /\ Started(u) => t \in reported

\* Only by RescanInit does a rescan start, only by FreeEnter is a free
\* announced, only by completing its free is a thread forgotten.
LEMMA StartsByInit ==
    ASSUME ControlOK, NEW t \in UserTasks, Proceed(t) \/ Begin(t), Started(t)'
    PROVE  Started(t) \/ (RescanInit(t) /\ op[t] = "rescan")
<1> USE DEF Started, At, Goto, Enter, Return, ControlOK, Tasks
<1>1. CASE CheckRoot(t) \/ CreateRoot(t) \/ SetRoot(t) \/ SimpleSkip(t)
  BY <1>1 DEF CheckRoot, CreateRoot, SetRoot, SimpleSkip
<1>2. CASE EnableQueue(t) \/ RescanQueue(t) \/ RescanRefused(t) \/ RescanInit(t)
  BY <1>2 DEF EnableQueue, RescanQueue, RescanRefused, RescanInit
<1>3. CASE ZeroTrackingLock(t) \/ ZeroTrackingUnlock(t)
  BY <1>3 DEF ZeroTrackingLock, ZeroTrackingUnlock
<1>4. CASE ZeroTrackingEnter(t) \/ ZeroTrackingDone(t)
  BY <1>4 DEF ZeroTrackingEnter, ZeroTrackingDone
<1>5. CASE WaitRead(t) \/ WaitBlocked(t) \/ UmountWaitDone(t)
  BY <1>5 DEF WaitRead, WaitBlocked, UmountWaitDone
<1>6. CASE PassWindow(t)
  BY <1>6 DEF PassWindow, Windows
<1>7. CASE ClearEnabled(t) \/ ClearRoot(t) \/ FreeLock(t) \/ FreeDo(t)
  BY <1>7 DEF ClearEnabled, ClearRoot, FreeLock, FreeDo
<1>8. CASE FreeEnter(t) \/ DisableFreeDone(t) \/ UmountFreeDone(t)
  BY <1>8 DEF FreeEnter, DisableFreeDone, UmountFreeDone
<1>9. CASE QuotaEnableDone(t) \/ QuotaDisableDone(t)
  BY <1>9 DEF QuotaEnableDone, QuotaDisableDone, QuotaCtlDone
<1>10. CASE QgroupRescanDone(t) \/ UserWaitDone(t)
  BY <1>10 DEF QgroupRescanDone, UserWaitDone
<1>11. CASE Begin(t)
  BY <1>11 DEF Begin, QuotaEnableEnter, QuotaDisableEnter, QuotaCtlEnter,
       QgroupRescanEnter, UserWaitEnter, UmountBegin
<1> QED BY <1>1, <1>2, <1>3, <1>4, <1>5, <1>6, <1>7, <1>8, <1>9, <1>10, <1>11
     DEF Proceed, InternalUser

LEMMA AnnouncedByEnter ==
    ASSUME ControlOK, NEW t \in UserTasks, Proceed(t) \/ Begin(t), Announced(t)'
    PROVE  Announced(t) \/ FreeEnter(t)
<1> USE DEF Announced, At, Goto, Enter, Return, ControlOK, Tasks
<1>1. CASE CheckRoot(t) \/ CreateRoot(t) \/ SetRoot(t) \/ SimpleSkip(t)
  BY <1>1 DEF CheckRoot, CreateRoot, SetRoot, SimpleSkip
<1>2. CASE EnableQueue(t) \/ RescanQueue(t) \/ RescanRefused(t) \/ RescanInit(t)
  BY <1>2 DEF EnableQueue, RescanQueue, RescanRefused, RescanInit
<1>3. CASE ZeroTrackingLock(t) \/ ZeroTrackingUnlock(t)
  BY <1>3 DEF ZeroTrackingLock, ZeroTrackingUnlock
<1>4. CASE ZeroTrackingEnter(t) \/ ZeroTrackingDone(t)
  BY <1>4 DEF ZeroTrackingEnter, ZeroTrackingDone
<1>5. CASE WaitRead(t) \/ WaitBlocked(t) \/ UmountWaitDone(t)
  BY <1>5 DEF WaitRead, WaitBlocked, UmountWaitDone
<1>6. CASE PassWindow(t)
  BY <1>6 DEF PassWindow, Windows
<1>7. CASE ClearEnabled(t) \/ ClearRoot(t) \/ FreeLock(t) \/ FreeDo(t)
  BY <1>7 DEF ClearEnabled, ClearRoot, FreeLock, FreeDo
<1>8. CASE DisableFreeDone(t) \/ UmountFreeDone(t)
  BY <1>8 DEF DisableFreeDone, UmountFreeDone
<1>9. CASE QuotaEnableDone(t) \/ QuotaDisableDone(t)
  BY <1>9 DEF QuotaEnableDone, QuotaDisableDone, QuotaCtlDone
<1>10. CASE QgroupRescanDone(t) \/ UserWaitDone(t)
  BY <1>10 DEF QgroupRescanDone, UserWaitDone
<1>11. CASE Begin(t)
  BY <1>11 DEF Begin, QuotaEnableEnter, QuotaDisableEnter, QuotaCtlEnter,
       QgroupRescanEnter, UserWaitEnter, UmountBegin
<1> QED BY <1>1, <1>2, <1>3, <1>4, <1>5, <1>6, <1>7, <1>8, <1>9, <1>10, <1>11
     DEF Proceed, InternalUser

LEMMA ReportStep ==
    ASSUME TypeOK, HolderInv, OffWhileFreeing, TidInv, ReportInv,
           [TracedNext]_tracedVars
    PROVE  ReportInv'
<1>1. ASSUME NEW a \in UserTasks,
             Adds(a) \/ Drops(a) \/ Checks(a) \/ Forgets(a) \/ Ignored(a),
             NEW t \in UserTasks, NEW u \in UserTasks,
             Announced(t)', Started(u)'
      PROVE  t \in reported'
  <2>1. Proceed(a) \/ Begin(a)
    BY <1>1 DEF Adds, Drops, Checks, Forgets, Ignored, Proceed, Begin
  <2>2. \A v \in UserTasks \ {a} : op'[v] = op[v] /\ pc'[v] = pc[v]
    BY <1>1, OthersStay DEF TypeOK
  <2>3. CASE Checks(a) /\ t = a
    <3>1. Started(u)
      BY <2>2, <2>3, <1>1
         DEF Checks, FreeEnter, Goto, TypeOK, ControlOK, At, Started, Tasks
    <3>2. u \in activeTids
      BY <3>1 DEF TidInv, TidOf, Watched, Started
    <3> QED BY <2>3, <3>2 DEF Checks
  <2>4. CASE ~(Checks(a) /\ t = a)
    <3>1. Announced(t)
      <4>1. CASE t = a
        <5>1. ~FreeEnter(a)
          BY <1>1, <2>4, <4>1
             DEF Adds, Drops, Forgets, Ignored, InternalUser, FreeEnter, At,
                 QgroupRescanEnter, ZeroTrackingEnter, QgroupRescanDone,
                 ZeroTrackingDone, DisableFreeDone, UmountFreeDone, CheckRoot,
                 CreateRoot, SetRoot, SimpleSkip, EnableQueue, RescanRefused,
                 RescanInit, ZeroTrackingLock, ZeroTrackingUnlock, RescanQueue,
                 WaitRead, WaitBlocked, ClearEnabled, ClearRoot, FreeLock, FreeDo,
                 PassWindow, Windows, QuotaEnableEnter, QuotaEnableDone,
                 QuotaDisableEnter, QuotaDisableDone, QuotaCtlEnter,
                 QuotaCtlDone, UserWaitEnter, UserWaitDone, UmountBegin,
                 UmountWaitDone, Enter
        <5> QED BY <1>1, <2>1, <4>1, <5>1, AnnouncedByEnter DEF TypeOK
      <4>2. CASE t # a
        BY <1>1, <2>2, <4>2 DEF Announced
      <4> QED BY <4>1, <4>2
    <3>2. Started(u)
      <4>1. CASE u # a
        BY <1>1, <2>2, <4>1 DEF Started
      <4>2. CASE u = a
        <5>1. ~(RescanInit(a) /\ op[a] = "rescan")
          BY <3>1, <4>2
             DEF RescanInit, RefusesRescan, Announced, HolderInv,
                 OffWhileFreeing, Freeing
        <5> QED BY <1>1, <2>1, <4>2, <5>1, StartsByInit DEF TypeOK
      <4> QED BY <4>1, <4>2
    <3>3. t \in reported
      BY <3>1, <3>2 DEF ReportInv
    <3>4. ~(Forgets(a) /\ t = a)
      BY <3>1 DEF Forgets, DisableFreeDone, UmountFreeDone, Announced, At
    <3> QED BY <1>1, <3>3, <3>4 DEF Adds, Drops, Checks, Forgets, Ignored
  <2> QED BY <2>3, <2>4
<1>2. CASE WorkerStep /\ UNCHANGED <<activeTids, reported>>
  BY <1>2, WorkerHandlers DEF TypeOK, ReportInv, Announced, Started
<1>3. CASE UNCHANGED <<vars, activeTids, reported>>
  BY <1>3 DEF vars, ReportInv, Announced, Started
<1> QED BY <1>1, <1>2, <1>3, TracedCases DEF ReportInv

LEMMA ReportInit == TracedInit => ReportInv
  BY DEF TracedInit, Init, ReportInv, Announced, Tasks

\* Only the worker scans.
UsersDoNotScan == \A t \in UserTasks : op[t] # "scan"

LEMMA ScanStep ==
    ASSUME TypeOK, UsersDoNotScan, [Next]_vars PROVE UsersDoNotScan'
<1> USE DEF UsersDoNotScan, TypeOK, ControlOK, Tasks, MovesOnly
<1>1. ASSUME NEW t \in UserTasks, Proceed(t) PROVE UsersDoNotScan'
  BY <1>1, ProceedHandlers DEF Stays, Unlocks, Leaves, Return
<1>2. ASSUME NEW t \in UserTasks, Begin(t) PROVE UsersDoNotScan'
  BY <1>2, BeginHandlers DEF Locks, Joins, Unmounts
<1>3. CASE WorkerStep
  BY <1>3, WorkerHandlers
<1>4. CASE UNCHANGED vars
  BY <1>4 DEF vars
<1> QED BY <1>1, <1>2, <1>3, <1>4, NextCases

\* Whoever walks the tree while another task is in the free loop is the
\* worker or a started rescan, for an enable would need subvol_sem.
LEMMA VictimsAreRescans ==
    ASSUME TypeOK, TreeInv, HolderInv, UsersDoNotScan, NEW t \in UserTasks,
           pc[t] = "free_do", NEW u \in iterating \cap UserTasks
    PROVE  Announced(t) /\ Started(u)
<1>1. Announced(t)
  BY DEF TypeOK, ControlOK, Stages, Tasks, Announced, Waiting, Walking, Freeing
<1>2. op[u] \in {"enable", "rescan"} /\ pc[u] = "zt_iter"
  <2>1. pc[u] \in {"zt_iter", "scan"}
    BY DEF TreeInv, WalkPlaces
  <2> QED BY <2>1 DEF TypeOK, ControlOK, Stages, Tasks, UsersDoNotScan, Waiting,
                      Walking, Freeing
<1>3. op[u] # "enable"
  BY <1>1, <1>2 DEF HolderInv, Announced
<1> QED BY <1>1, <1>2, <1>3 DEF Started

\* Whatever the number of threads, and with or without the fix, a free that
\* is about to pull the tree from under an ioctl has been reported.
THEOREM IoctlVictimsAreReported == TracedSpec => []IoctlVictimReported
<1> DEFINE Kernel == TypeOK /\ HolderInv /\ TreeInv /\ OffWhileFreeing
                     /\ UsersDoNotScan
           Inv == Kernel /\ TidInv /\ ReportInv
<1>1. TracedInit => Inv
  BY TypeInit, HolderInit, TreeInit, OffInit, TidInit, ReportInit
     DEF TracedInit, Init, UsersDoNotScan, Tasks
<1>2. Inv /\ [TracedNext]_tracedVars => Inv'
  <2> SUFFICES ASSUME Inv, [TracedNext]_tracedVars PROVE Inv'
    OBVIOUS
  <2>1. Kernel'
    BY TracedStepsAreSteps, TypeStep, HolderStep, TreeStep, OffStep,
       ScanStep
  <2>2. TidInv'
    BY TidStep
  <2>3. ReportInv'
    BY ReportStep
  <2> QED BY <2>1, <2>2, <2>3
<1>3. Inv => IoctlVictimReported
  BY VictimsAreRescans DEF IoctlVictimReported, ReportInv
<1> QED BY <1>1, <1>2, <1>3, PTL DEF TracedSpec

-----------------------------------------------------------------------------
(* Program order.                                                          *)

\* The calls a task is in, from its handler and its place there.
OpenOf(o, p) ==
    CASE o = "enable" -> IF p \in {"zt_iter", "zt_done"}
                         THEN <<"QuotaEnable", "RescanZeroTracking">> ELSE <<"QuotaEnable">>
      [] o = "rescan" -> IF p \in {"zt_iter", "zt_done"}
                         THEN <<"QgroupRescan", "RescanZeroTracking">> ELSE <<"QgroupRescan">>
      [] o = "disable" -> IF p \in {"free_lock", "free_do", "free_done"}
                          THEN <<"QuotaDisable", "FreeQgroupConfig">> ELSE <<"QuotaDisable">>
      [] o = "wait" -> <<"WaitRescanCompletion">>
      [] o = "umount" -> IF p \in Waiting THEN <<"WaitRescanCompletion">>
                         ELSE IF p = "free_enter" THEN <<>> ELSE <<"FreeQgroupConfig">>
      [] o = "scan" -> <<"RescanWorker">>
      [] OTHER -> <<>>

\* The handler has not made its inner call.
Unspent(o, p) ==
    \/ o \in {"enable", "rescan"}
       /\ p \in {"check", "create", "setroot", "rescaninit", "commit", "zt_enter"}
    \/ o = "disable"
       /\ p \in Waiting \cup {"check", "clear_enabled", "wait_enter", "trans", "clear_root", "free_enter"}

Queuing == {t \in UserTasks : pc[t] = "queue"}

OpenInv == order.open = [t \in Tasks |-> OpenOf(op[t], pc[t])]

SpentInv == \A t \in UserTasks : Unspent(op[t], pc[t]) => t \notin order.spent

\* Whoever is about to queue the work item, and the item that is queued, have
\* a scan each that may begin.
CountInv ==
    /\ IsFiniteSet(Queuing) /\ order.pending \in Nat
    /\ Cardinality(Queuing) <= order.pending
    /\ workerQueued => Cardinality(Queuing) + 1 <= order.pending

ClosingInv ==
    /\ \A t \in order.closing : t \in UserTasks /\ op[t] \in {"none", "wait", "umount"}
    /\ \A t \in UserTasks : op[t] = "umount" => order.closing = {t}

OrderInv == order.ok /\ OpenInv /\ SpentInv /\ CountInv /\ ClosingInv

-----------------------------------------------------------------------------
(* Sequences of one and two calls.                                         *)

LEMMA AppendIs ==
    ASSUME NEW a, NEW b
    PROVE  Append(<<>>, b) = <<b>> /\ Append(<<a>>, b) = <<a, b>>
<1>1. Append(<<>>, b) = <<b>>
  <2>1. <<>> \in Seq({b})
    OBVIOUS
  <2>2. Append(<<>>, b) \in Seq({b}) /\ Len(Append(<<>>, b)) = 1 /\ Append(<<>>, b)[1] = b
    BY <2>1
  <2> QED BY <2>2
<1>2. Append(<<a>>, b) = <<a, b>>
  <2>1. <<a>> \in Seq({a, b})
    OBVIOUS
  <2>2. /\ Append(<<a>>, b) \in Seq({a, b}) /\ Len(Append(<<a>>, b)) = 2
        /\ Append(<<a>>, b)[1] = a /\ Append(<<a>>, b)[2] = b
    BY <2>1
  <2>3. Append(<<a>>, b) = [i \in 1..2 |-> IF i = 1 THEN a ELSE b]
    BY <2>2
  <2>4. <<a, b>> = [i \in 1..2 |-> IF i = 1 THEN a ELSE b]
    OBVIOUS
  <2> QED BY <2>3, <2>4
<1> QED BY <1>1, <1>2

LEMMA FrontIs ==
    ASSUME NEW a, NEW b
    PROVE  Order!Front(<<a>>) = <<>> /\ Order!Front(<<a, b>>) = <<a>>
<1>1. Order!Front(<<a>>) = <<>>
  BY DEF Order!Front
<1>2. Order!Front(<<a, b>>) = <<a>>
  <2>1. Len(<<a, b>>) = 2 /\ <<a, b>>[1] = a /\ 1..(2 - 1) = {1}
    OBVIOUS
  <2>2. Order!Front(<<a, b>>) = [i \in {1} |-> <<a, b>>[i]]
    BY <2>1 DEF Order!Front
  <2>3. <<a>> = [i \in {1} |-> a]
    OBVIOUS
  <2> QED BY <2>1, <2>2, <2>3
<1> QED BY <1>1, <1>2

LEMMA LastIs ==
    ASSUME NEW a, NEW b
    PROVE  Order!Last(<<a>>) = a /\ Order!Last(<<a, b>>) = b
<1>1. Order!Last(<<a>>) = a
  BY DEF Order!Last
<1>2. Order!Last(<<a, b>>) = b
  BY DEF Order!Last
<1> QED BY <1>1, <1>2

-----------------------------------------------------------------------------
(* An accepted event.                                                      *)

\* The call t begins extends the calls it is in.
LEMMA EntersOpen ==
    ASSUME OpenInv, order.ok, NEW t \in Tasks, NEW call,
           Order!MayEnter(order, t, call),
           order' = Order!Follow(order, [task |-> t, call |-> call, at |-> "Enter"]),
           \A u \in Tasks \ {t} : op'[u] = op[u] /\ pc'[u] = pc[u],
           OpenOf(op'[t], pc'[t]) = Append(OpenOf(op[t], pc[t]), call)
    PROVE  /\ order'.ok /\ OpenInv'
           /\ order'.closing = Order!Closing(order, [task |-> t, call |-> call, at |-> "Enter"])
           /\ order'.spent = IF Len(OpenOf(op[t], pc[t])) = 1 THEN order.spent \cup {t}
                             ELSE order.spent \ {t}
           /\ order'.pending = IF call = "RescanWorker" THEN order.pending - 1 ELSE order.pending
<1> DEFINE e == [task |-> t, call |-> call, at |-> "Enter"]
<1>1. e.task = t /\ e.call = call /\ e.at = "Enter"
  OBVIOUS
<1> HIDE DEF e
<1>2. order' = Order!After(order, e)
  BY <1>1 DEF Order!Follow, Order!Accepts, e
<1>3. order.open[t] = OpenOf(op[t], pc[t])
  BY DEF OpenInv
<1>4. order'.open = [order.open EXCEPT ![t] = Append(order.open[t], call)]
  <2>1. order'.open = [order.open EXCEPT ![e.task] =
                          IF e.at = "Enter" THEN Append(@, e.call) ELSE Order!Front(@)]
    BY <1>2 DEF Order!After
  <2> QED BY <1>1, <2>1
<1>5. OpenInv'
  <2>1. order.open = [u \in Tasks |-> OpenOf(op[u], pc[u])]
    BY DEF OpenInv
  <2>2. \A u \in Tasks \ {t} : OpenOf(op'[u], pc'[u]) = OpenOf(op[u], pc[u])
    OBVIOUS
  <2>3. order'.open = [u \in Tasks |-> IF u = t THEN OpenOf(op'[t], pc'[t]) ELSE OpenOf(op[u], pc[u])]
    <3>1. order'.open = [order.open EXCEPT ![t] = OpenOf(op'[t], pc'[t])]
      BY <1>3, <1>4
    <3> QED BY <2>1, <3>1
  <2>4. order'.open = [u \in Tasks |-> OpenOf(op'[u], pc'[u])]
    BY <2>2, <2>3
  <2> QED BY <2>4 DEF OpenInv
<1>6. order'.ok /\ order'.closing = Order!Closing(order, e)
  BY <1>1, <1>2 DEF Order!After
<1>7. order'.spent = IF Len(order.open[t]) = 1 THEN order.spent \cup {t} ELSE order.spent \ {t}
  <2>1. order'.spent = Order!Spent(order, e)
    BY <1>2 DEF Order!After
  <2> QED BY <1>1, <2>1 DEF Order!Spent
<1>8. order'.pending = IF call = "RescanWorker" THEN order.pending - 1 ELSE order.pending
  BY <1>1, <1>2 DEF Order!After
<1> QED BY <1>3, <1>5, <1>6, <1>7, <1>8 DEF e

\* The call t ends is the last of those it is in.
LEMMA LeavesOpen ==
    ASSUME OpenInv, order.ok, NEW t \in Tasks, NEW call,
           OpenOf(op[t], pc[t]) # <<>>, Order!Last(OpenOf(op[t], pc[t])) = call,
           order' = Order!Follow(order, [task |-> t, call |-> call, at |-> "Done"]),
           \A u \in Tasks \ {t} : op'[u] = op[u] /\ pc'[u] = pc[u],
           OpenOf(op'[t], pc'[t]) = Order!Front(OpenOf(op[t], pc[t]))
    PROVE  /\ order'.ok /\ OpenInv'
           /\ order'.closing = Order!Closing(order, [task |-> t, call |-> call, at |-> "Done"])
           /\ order'.spent = IF Len(OpenOf(op[t], pc[t])) = 2 THEN order.spent \cup {t}
                             ELSE order.spent \ {t}
           /\ order'.pending = IF call = "RescanZeroTracking" THEN order.pending + 1
                               ELSE IF call = "FreeQgroupConfig" /\ t \in order.closing THEN 0
                               ELSE order.pending
<1> DEFINE e == [task |-> t, call |-> call, at |-> "Done"]
<1>1. e.task = t /\ e.call = call /\ e.at = "Done"
  OBVIOUS
<1> HIDE DEF e
<1>3. order.open[t] = OpenOf(op[t], pc[t])
  BY DEF OpenInv
<1>2. order' = Order!After(order, e)
  BY <1>1, <1>3 DEF Order!Follow, Order!Accepts, e
<1>4. order'.open = [order.open EXCEPT ![t] = Order!Front(order.open[t])]
  <2>1. order'.open = [order.open EXCEPT ![e.task] =
                          IF e.at = "Enter" THEN Append(@, e.call) ELSE Order!Front(@)]
    BY <1>2 DEF Order!After
  <2> QED BY <1>1, <2>1
<1>5. OpenInv'
  <2>1. order.open = [u \in Tasks |-> OpenOf(op[u], pc[u])]
    BY DEF OpenInv
  <2>2. \A u \in Tasks \ {t} : OpenOf(op'[u], pc'[u]) = OpenOf(op[u], pc[u])
    OBVIOUS
  <2>3. order'.open = [u \in Tasks |-> IF u = t THEN OpenOf(op'[t], pc'[t]) ELSE OpenOf(op[u], pc[u])]
    <3>1. order'.open = [order.open EXCEPT ![t] = OpenOf(op'[t], pc'[t])]
      BY <1>3, <1>4
    <3> QED BY <2>1, <3>1
  <2>4. order'.open = [u \in Tasks |-> OpenOf(op'[u], pc'[u])]
    BY <2>2, <2>3
  <2> QED BY <2>4 DEF OpenInv
<1>6. order'.ok /\ order'.closing = Order!Closing(order, e)
  BY <1>1, <1>2 DEF Order!After
<1>7. order'.spent = IF Len(order.open[t]) = 2 THEN order.spent \cup {t} ELSE order.spent \ {t}
  <2>1. order'.spent = Order!Spent(order, e)
    BY <1>2 DEF Order!After
  <2> QED BY <1>1, <2>1 DEF Order!Spent
<1>8. order'.pending = IF call = "RescanZeroTracking" THEN order.pending + 1
                       ELSE IF call = "FreeQgroupConfig" /\ t \in order.closing THEN 0
                       ELSE order.pending
  BY <1>1, <1>2 DEF Order!After
<1> QED BY <1>3, <1>5, <1>6, <1>7, <1>8 DEF e

\* The call t begins is the only one it is in, and not the worker's.
LEMMA OutermostEnters ==
    ASSUME OpenInv, order.ok, NEW t \in Tasks, NEW call, call # "RescanWorker",
           Order!MayEnter(order, t, call),
           OpenOf(op[t], pc[t]) = <<>>, OpenOf(op'[t], pc'[t]) = <<call>>,
           order' = Order!Follow(order, [task |-> t, call |-> call, at |-> "Enter"]),
           \A u \in Tasks \ {t} : op'[u] = op[u] /\ pc'[u] = pc[u]
    PROVE  /\ order'.ok /\ OpenInv'
           /\ order'.closing = Order!Closing(order, [task |-> t, call |-> call, at |-> "Enter"])
           /\ order'.spent = order.spent \ {t} /\ order'.pending = order.pending
<1>1. Append(<<>>, call) = <<call>> /\ Len(<<>>) # 1
  BY AppendIs
<1>2. OpenOf(op'[t], pc'[t]) = Append(OpenOf(op[t], pc[t]), call) /\ Len(OpenOf(op[t], pc[t])) # 1
  BY <1>1
<1>3. /\ order'.ok /\ OpenInv'
      /\ order'.closing = Order!Closing(order, [task |-> t, call |-> call, at |-> "Enter"])
      /\ order'.spent = IF Len(OpenOf(op[t], pc[t])) = 1 THEN order.spent \cup {t}
                        ELSE order.spent \ {t}
      /\ order'.pending = IF call = "RescanWorker" THEN order.pending - 1 ELSE order.pending
  BY <1>2, EntersOpen
<1> QED BY <1>2, <1>3

\* The call t ends is the only one it is in, and not the teardown.
LEMMA OutermostDone ==
    ASSUME OpenInv, order.ok, NEW t \in Tasks, NEW call,
           call \notin {"RescanZeroTracking", "FreeQgroupConfig"},
           OpenOf(op[t], pc[t]) = <<call>>, OpenOf(op'[t], pc'[t]) = <<>>,
           order' = Order!Follow(order, [task |-> t, call |-> call, at |-> "Done"]),
           \A u \in Tasks \ {t} : op'[u] = op[u] /\ pc'[u] = pc[u]
    PROVE  /\ order'.ok /\ OpenInv'
           /\ order'.closing = Order!Closing(order, [task |-> t, call |-> call, at |-> "Done"])
           /\ order'.spent = order.spent \ {t} /\ order'.pending = order.pending
<1>1. Order!Last(<<call>>) = call
  BY LastIs
<1>2. Order!Front(<<call>>) = <<>>
  BY FrontIs
<1>3. <<call>> # <<>> /\ Len(<<call>>) # 2
  OBVIOUS
<1>4. OpenOf(op[t], pc[t]) # <<>> /\ Order!Last(OpenOf(op[t], pc[t])) = call
  BY <1>1, <1>3
<1>5. OpenOf(op'[t], pc'[t]) = Order!Front(OpenOf(op[t], pc[t]))
  BY <1>2
<1>6. Len(OpenOf(op[t], pc[t])) # 2
  BY <1>3
<1>7. /\ order'.ok /\ OpenInv'
      /\ order'.closing = Order!Closing(order, [task |-> t, call |-> call, at |-> "Done"])
      /\ order'.spent = IF Len(OpenOf(op[t], pc[t])) = 2 THEN order.spent \cup {t}
                        ELSE order.spent \ {t}
      /\ order'.pending = IF call = "RescanZeroTracking" THEN order.pending + 1
                          ELSE IF call = "FreeQgroupConfig" /\ t \in order.closing THEN 0
                          ELSE order.pending
  BY <1>4, <1>5, LeavesOpen
<1> QED BY <1>6, <1>7

\* The end of the teardown of an unmount.
LEMMA TeardownDone ==
    ASSUME OpenInv, order.ok, NEW t \in Tasks, t \in order.closing,
           OpenOf(op[t], pc[t]) = <<"FreeQgroupConfig">>, OpenOf(op'[t], pc'[t]) = <<>>,
           order' = Order!Follow(order, [task |-> t, call |-> "FreeQgroupConfig", at |-> "Done"]),
           \A u \in Tasks \ {t} : op'[u] = op[u] /\ pc'[u] = pc[u]
    PROVE  /\ order'.ok /\ OpenInv'
           /\ order'.closing =
                 Order!Closing(order, [task |-> t, call |-> "FreeQgroupConfig", at |-> "Done"])
           /\ order'.spent = order.spent \ {t} /\ order'.pending = 0
<1>1. Order!Last(<<"FreeQgroupConfig">>) = "FreeQgroupConfig"
  BY LastIs
<1>2. Order!Front(<<"FreeQgroupConfig">>) = <<>>
  BY FrontIs
<1>3. <<"FreeQgroupConfig">> # <<>> /\ Len(<<"FreeQgroupConfig">>) # 2
  OBVIOUS
<1>4. OpenOf(op[t], pc[t]) # <<>> /\ Order!Last(OpenOf(op[t], pc[t])) = "FreeQgroupConfig"
  BY <1>1, <1>3
<1>5. OpenOf(op'[t], pc'[t]) = Order!Front(OpenOf(op[t], pc[t]))
  BY <1>2
<1>6. Len(OpenOf(op[t], pc[t])) # 2
  BY <1>3
<1> QED BY <1>4, <1>5, <1>6, LeavesOpen

-----------------------------------------------------------------------------
(* What is kept.                                                           *)

LEMMA CountSame ==
    ASSUME CountInv, NEW t, Queuing' = Queuing \ {t}, order'.pending = order.pending,
           workerQueued' => workerQueued \/ t \in Queuing
    PROVE  CountInv'
<1>1. /\ IsFiniteSet(Queuing \ {t})
      /\ Cardinality(Queuing \ {t}) = IF t \in Queuing THEN Cardinality(Queuing) - 1 ELSE Cardinality(Queuing)
  BY FS_RemoveElement DEF CountInv
<1>2. Cardinality(Queuing) \in Nat
  BY FS_CardinalityType DEF CountInv
<1> QED BY <1>1, <1>2 DEF CountInv

LEMMA SpentSame ==
    ASSUME SpentInv, NEW t \in Tasks, \A u \in Tasks \ {t} : op'[u] = op[u] /\ pc'[u] = pc[u],
           order'.spent \subseteq order.spent \cup {t},
           Unspent(op'[t], pc'[t]) => t \notin order'.spent
    PROVE  SpentInv'
<1> SUFFICES ASSUME NEW u \in UserTasks, Unspent(op'[u], pc'[u])
             PROVE  u \notin order'.spent
  BY DEF SpentInv
<1>1. CASE u = t
  BY <1>1
<1>2. CASE u # t
  <2>1. op'[u] = op[u] /\ pc'[u] = pc[u]
    BY <1>2 DEF Tasks
  <2> QED BY <1>2, <2>1 DEF SpentInv
<1> QED BY <1>1, <1>2

\* A step of t that prints nothing.
LEMMA SilentStep ==
    ASSUME TypeOK, OrderInv, NEW t \in Tasks, NEW place, Goto(t, place), UNCHANGED order,
           OpenOf(op[t], place) = OpenOf(op[t], pc[t]),
           Unspent(op[t], place) => Unspent(op[t], pc[t]) /\ t \in UserTasks,
           place # "queue", workerQueued' => workerQueued \/ t \in Queuing
    PROVE  OrderInv'
<1>1. /\ UNCHANGED op /\ pc' = [pc EXCEPT ![t] = place] /\ DOMAIN pc = Tasks
      /\ pc'[t] = place /\ \A u \in Tasks \ {t} : pc'[u] = pc[u]
  BY DEF Goto, TypeOK, ControlOK
<1>2. OpenInv'
  <2>1. \A u \in Tasks : OpenOf(op[u], pc'[u]) = OpenOf(op[u], pc[u])
    BY <1>1
  <2> QED BY <1>1, <2>1 DEF OrderInv, OpenInv
<1>3. SpentInv'
  <2>1. Unspent(op'[t], pc'[t]) => t \notin order'.spent
    BY <1>1 DEF OrderInv, SpentInv
  <2> QED BY <1>1, <2>1, SpentSame DEF OrderInv
<1>4. CountInv'
  <2>1. Queuing' = Queuing \ {t}
    BY <1>1 DEF Queuing, Tasks
  <2> QED BY <2>1, CountSame DEF OrderInv
<1>5. ClosingInv'
  BY <1>1 DEF OrderInv, ClosingInv
<1> QED BY <1>2, <1>3, <1>4, <1>5 DEF OrderInv

-----------------------------------------------------------------------------
(* The calls of the threads.                                               *)

Outermost == {<<"enable", "QuotaEnable">>, <<"disable", "QuotaDisable">>, <<"rescan", "QgroupRescan">>,
              <<"wait", "WaitRescanCompletion">>}

\* No thread is in the teardown of an unmount but one whose handler that is.
LEMMA TeardownIsUnmount ==
    ASSUME OrderInv, Order!TearingDown(order)
    PROVE  Closing
<1>1. PICK t \in order.closing : order.open[t] = <<"FreeQgroupConfig">>
  BY DEF Order!TearingDown
<1>2. t \in UserTasks /\ op[t] \in {"none", "wait", "umount"}
  BY DEF OrderInv, ClosingInv
<1>3. OpenOf(op[t], pc[t]) = <<"FreeQgroupConfig">>
  BY <1>1, <1>2 DEF OrderInv, OpenInv, Tasks
<1>4. op[t] = "umount"
  BY <1>2, <1>3 DEF OpenOf
<1> QED BY <1>2, <1>4 DEF Closing

LEMMA QuotaCtlHolds ==
    ASSUME TypeOK, OrderInv, HolderInv, Order!InQuotaCtl(order)
    PROVE  subvolSem # NoTask
<1>1. PICK t \in UserTasks : order.open[t] # <<>> /\ Head(order.open[t]) \in {"QuotaEnable", "QuotaDisable"}
  BY DEF Order!InQuotaCtl, Order!QuotaCtl
<1>2. OpenOf(op[t], pc[t]) # <<>> /\ Head(OpenOf(op[t], pc[t])) \in {"QuotaEnable", "QuotaDisable"}
  BY <1>1 DEF OrderInv, OpenInv, Tasks
<1>3. op[t] \in {"enable", "disable"}
  BY <1>2 DEF OpenOf
<1> QED BY <1>3, TasksAssumption DEF HolderInv, TasksAssumption

LEMMA IoctlEnters ==
    ASSUME TypeOK, OrderInv, HolderInv, NEW t \in UserTasks, NEW o, NEW call, NEW place,
           Enter(t, o, place), <<o, call>> \in Outermost, place \in {"check", "rescaninit", "wait_read"},
           ~Closing, o \in {"enable", "disable"} => subvolSem = NoTask, UNCHANGED workerQueued,
           order' = Order!Follow(order, [task |-> t, call |-> call, at |-> "Enter"])
    PROVE  OrderInv'
<1> DEFINE e == [task |-> t, call |-> call, at |-> "Enter"]
<1>1. /\ op[t] = "none" /\ pc[t] = "idle" /\ op'[t] = o /\ pc'[t] = place
      /\ \A u \in Tasks \ {t} : op'[u] = op[u] /\ pc'[u] = pc[u]
      /\ t \in Tasks /\ t # "worker"
  BY TasksAssumption DEF Enter, At, TypeOK, ControlOK, Tasks, TasksAssumption, Worker
<1>2. OpenOf(op[t], pc[t]) = <<>> /\ OpenOf(op'[t], pc'[t]) = <<call>>
  BY <1>1 DEF OpenOf, Outermost, Waiting
<1>3. Order!MayEnter(order, t, call)
  <2>1. order.open[t] = <<>>
    BY <1>1, <1>2 DEF OrderInv, OpenInv
  <2>2. ~Order!TearingDown(order)
    BY TeardownIsUnmount
  <2>3. call \in Order!Ioctls /\ (call \in Order!QuotaCtl => ~Order!InQuotaCtl(order))
    BY QuotaCtlHolds DEF Outermost, Order!Ioctls, Order!QuotaCtl
  <2> QED BY <1>1, <2>1, <2>2, <2>3 DEF Order!MayEnter
<1>4. call # "RescanWorker"
  BY DEF Outermost
<1>5. /\ order'.ok /\ OpenInv'
      /\ order'.closing = Order!Closing(order, e)
      /\ order'.spent = order.spent \ {t} /\ order'.pending = order.pending
  <2>1. OpenInv /\ order.ok
    BY DEF OrderInv
  <2> QED BY <1>1, <1>2, <1>3, <1>4, <2>1, OutermostEnters
<1>6. SpentInv'
  BY <1>1, <1>5, SpentSame DEF OrderInv
<1>7. CountInv'
  <2>1. Queuing' = Queuing \ {t}
    BY <1>1 DEF Queuing, Tasks
  <2> QED BY <1>5, <2>1, CountSame DEF OrderInv
<1>8. ClosingInv'
  <2>1. order'.closing \in {{t}, {}} /\ (o # "wait" => order'.closing = {})
    BY <1>1, <1>5 DEF Order!Closing, Order!Scanner, Outermost
  <2>2. \A u \in UserTasks : op'[u] # "umount"
    BY <1>1 DEF Closing, Outermost, Tasks
  <2>3. o = "wait" => op'[t] = "wait"
    BY <1>1
  <2> QED BY <2>1, <2>2, <2>3 DEF ClosingInv
<1> QED BY <1>5, <1>6, <1>7, <1>8 DEF OrderInv

LEMMA IoctlReturns ==
    ASSUME TypeOK, OrderInv, HolderInv, NEW t \in UserTasks, NEW call,
           <<op[t], call>> \in Outermost, pc[t] \in {"done", "wait_done"}, Return(t),
           UNCHANGED workerQueued,
           order' = Order!Follow(order, [task |-> t, call |-> call, at |-> "Done"])
    PROVE  OrderInv'
<1> DEFINE e == [task |-> t, call |-> call, at |-> "Done"]
<1>1. /\ op'[t] = "none" /\ pc'[t] = "idle" /\ t \in Tasks /\ t # "worker"
      /\ \A u \in Tasks \ {t} : op'[u] = op[u] /\ pc'[u] = pc[u]
  BY TasksAssumption DEF Return, TypeOK, ControlOK, Tasks, TasksAssumption, Worker
<1>2. OpenOf(op[t], pc[t]) = <<call>> /\ OpenOf(op'[t], pc'[t]) = <<>>
  BY <1>1 DEF OpenOf, Outermost
<1>4. call \notin {"RescanZeroTracking", "FreeQgroupConfig"}
  BY DEF Outermost
<1>5. /\ order'.ok /\ OpenInv' /\ order'.closing = Order!Closing(order, e)
      /\ order'.spent = order.spent \ {t} /\ order'.pending = order.pending
  <2>1. OpenInv /\ order.ok
    BY DEF OrderInv
  <2> QED BY <1>1, <1>2, <1>4, <2>1, OutermostDone
<1>6. SpentInv'
  BY <1>1, <1>5, SpentSame DEF OrderInv
<1>7. CountInv'
  <2>1. Queuing' = Queuing \ {t}
    BY <1>1 DEF Queuing, Tasks
  <2> QED BY <1>5, <2>1, CountSame DEF OrderInv
<1>8. ClosingInv'
  <2>1. order'.closing \in {{t}, {}}
    BY <1>1, <1>5 DEF Order!Closing, Order!Scanner
  <2>2. op[t] # "none" /\ op[t] # "umount"
    BY DEF Outermost
  <2>3. \A u \in UserTasks : op'[u] # "umount"
    BY <1>1, <2>2 DEF HolderInv, Tasks
  <2> QED BY <1>1, <2>1, <2>3 DEF ClosingInv
<1> QED BY <1>5, <1>6, <1>7, <1>8 DEF OrderInv

\* The call inside an enable, a rescan or a disable begins.
LEMMA InnerEnters ==
    ASSUME TypeOK, OrderInv, HolderInv, NEW t \in UserTasks, NEW call, NEW outer, NEW place,
           <<op[t], outer>> \in Outermost, <<outer, call>> \in Order!Nested,
           Unspent(op[t], pc[t]), Goto(t, place), ~Unspent(op[t], place), place # "queue",
           OpenOf(op[t], pc[t]) = <<outer>>, OpenOf(op[t], place) = <<outer, call>>,
           UNCHANGED workerQueued,
           order' = Order!Follow(order, [task |-> t, call |-> call, at |-> "Enter"])
    PROVE  OrderInv'
<1> DEFINE e == [task |-> t, call |-> call, at |-> "Enter"]
<1>1. /\ op' = op /\ pc'[t] = place /\ t \in Tasks /\ t # "worker"
      /\ \A u \in Tasks \ {t} : op'[u] = op[u] /\ pc'[u] = pc[u]
  BY TasksAssumption DEF Goto, TypeOK, ControlOK, Tasks, TasksAssumption, Worker
<1>2. call # "RescanWorker" /\ call # "WaitRescanCompletion" /\ op[t] \in {"enable", "disable", "rescan"}
  BY DEF Order!Nested, Outermost
<1>3. Order!MayEnter(order, t, call)
  <2>1. order.open[t] = <<outer>>
    BY <1>1 DEF OrderInv, OpenInv
  <2>2. t \notin order.spent
    BY DEF OrderInv, SpentInv
  <2>3. Len(order.open[t]) = 1 /\ order.open[t][1] = outer
    BY <2>1
  <2> QED BY <2>2, <2>3 DEF Order!MayEnter
<1>4. Append(<<outer>>, call) = <<outer, call>> /\ Len(<<outer>>) = 1
  BY AppendIs
<1>5. /\ order'.ok /\ OpenInv' /\ order'.closing = Order!Closing(order, e)
      /\ order'.spent = order.spent \cup {t} /\ order'.pending = order.pending
  <2>1. OpenInv /\ order.ok
    BY DEF OrderInv
  <2>2. OpenOf(op'[t], pc'[t]) = Append(OpenOf(op[t], pc[t]), call)
    BY <1>1, <1>4
  <2>3. Len(OpenOf(op[t], pc[t])) = 1
    BY <1>4
  <2>4. /\ order'.ok /\ OpenInv' /\ order'.closing = Order!Closing(order, e)
        /\ order'.spent = IF Len(OpenOf(op[t], pc[t])) = 1 THEN order.spent \cup {t} ELSE order.spent \ {t}
        /\ order'.pending = IF call = "RescanWorker" THEN order.pending - 1 ELSE order.pending
    BY <1>1, <1>3, <2>1, <2>2, EntersOpen
  <2> QED BY <1>2, <2>3, <2>4
<1>6. SpentInv'
  BY <1>1, <1>5, SpentSame DEF OrderInv
<1>7. CountInv'
  <2>1. Queuing' = Queuing \ {t}
    BY <1>1 DEF Queuing, Tasks
  <2> QED BY <1>1, <1>5, <2>1, CountSame DEF OrderInv
<1>8. ClosingInv'
  <2>1. t \notin order.closing
    BY <1>2 DEF OrderInv, ClosingInv
  <2>2. order'.closing = {}
    BY <1>1, <1>2, <1>5, <2>1 DEF Order!Closing, Order!Scanner
  <2>3. \A u \in UserTasks : op'[u] # "umount"
    BY <1>1, <1>2 DEF HolderInv, Tasks
  <2> QED BY <2>2, <2>3 DEF ClosingInv
<1> QED BY <1>5, <1>6, <1>7, <1>8 DEF OrderInv

\* It ends; after zero tracking the thread is about to queue the worker.
LEMMA InnerDone ==
    ASSUME TypeOK, OrderInv, HolderInv, NEW t \in UserTasks, NEW call, NEW outer, NEW place,
           <<op[t], outer>> \in Outermost, <<outer, call>> \in Order!Nested, pc[t] # "queue",
           Goto(t, place), ~Unspent(op[t], place), place = "queue" => call = "RescanZeroTracking",
           OpenOf(op[t], pc[t]) = <<outer, call>>, OpenOf(op[t], place) = <<outer>>,
           UNCHANGED workerQueued,
           order' = Order!Follow(order, [task |-> t, call |-> call, at |-> "Done"])
    PROVE  OrderInv'
<1> DEFINE e == [task |-> t, call |-> call, at |-> "Done"]
<1>1. /\ op' = op /\ pc'[t] = place /\ t \in Tasks /\ t # "worker"
      /\ \A u \in Tasks \ {t} : op'[u] = op[u] /\ pc'[u] = pc[u]
  BY TasksAssumption DEF Goto, TypeOK, ControlOK, Tasks, TasksAssumption, Worker
<1>2. /\ call \in {"RescanZeroTracking", "FreeQgroupConfig"} /\ op[t] \in {"enable", "disable", "rescan"}
      /\ t \notin order.closing
  BY DEF Order!Nested, Outermost, OrderInv, ClosingInv
<1>3. /\ <<outer, call>> # <<>> /\ Order!Last(<<outer, call>>) = call
      /\ Order!Front(<<outer, call>>) = <<outer>> /\ Len(<<outer, call>>) = 2
  BY LastIs, FrontIs
<1>4. /\ order'.ok /\ OpenInv' /\ order'.closing = Order!Closing(order, e)
      /\ order'.spent = order.spent \cup {t}
      /\ order'.pending = IF call = "RescanZeroTracking" THEN order.pending + 1 ELSE order.pending
  <2>1. OpenInv /\ order.ok
    BY DEF OrderInv
  <2>2. OpenOf(op'[t], pc'[t]) = Order!Front(OpenOf(op[t], pc[t]))
    BY <1>1, <1>3
  <2>3. /\ order'.ok /\ OpenInv' /\ order'.closing = Order!Closing(order, e)
        /\ order'.spent = IF Len(OpenOf(op[t], pc[t])) = 2 THEN order.spent \cup {t} ELSE order.spent \ {t}
        /\ order'.pending = IF call = "RescanZeroTracking" THEN order.pending + 1
                            ELSE IF call = "FreeQgroupConfig" /\ t \in order.closing THEN 0
                            ELSE order.pending
    <3>1. OpenOf(op[t], pc[t]) # <<>> /\ Order!Last(OpenOf(op[t], pc[t])) = call
      BY <1>3
    <3> QED BY <1>1, <2>1, <2>2, <3>1, LeavesOpen
  <2> QED BY <1>2, <1>3, <2>3
<1>5. SpentInv'
  BY <1>1, <1>4, SpentSame DEF OrderInv
<1>6. CountInv'
  <2>1. CASE place = "queue"
    <3>1. Queuing' = Queuing \cup {t} /\ t \notin Queuing
      BY <1>1, <2>1 DEF Queuing, Tasks
    <3>2. IsFiniteSet(Queuing) /\ Cardinality(Queuing) \in Nat
      BY FS_CardinalityType DEF OrderInv, CountInv
    <3>3. IsFiniteSet(Queuing \cup {t}) /\ Cardinality(Queuing \cup {t}) = Cardinality(Queuing) + 1
      BY <3>1, <3>2, FS_AddElement
    <3>4. order'.pending = order.pending + 1
      BY <1>4, <2>1
    <3> QED BY <3>1, <3>2, <3>3, <3>4 DEF OrderInv, CountInv
  <2>2. CASE place # "queue"
    <3>1. Queuing' = Queuing /\ t \notin Queuing
      BY <1>1, <2>2 DEF Queuing, Tasks
    <3>2. Cardinality(Queuing) \in Nat /\ order.pending \in Nat
      BY FS_CardinalityType DEF OrderInv, CountInv
    <3>3. order'.pending \in Nat /\ order'.pending >= order.pending
      BY <1>4, <3>2
    <3> QED BY <3>1, <3>2, <3>3 DEF OrderInv, CountInv
  <2> QED BY <2>1, <2>2
<1>7. ClosingInv'
  <2>1. order'.closing = {}
    BY <1>1, <1>2, <1>4 DEF Order!Closing, Order!Scanner
  <2>2. \A u \in UserTasks : op'[u] # "umount"
    BY <1>1, <1>2 DEF HolderInv, Tasks
  <2> QED BY <2>1, <2>2 DEF ClosingInv
<1> QED BY <1>4, <1>5, <1>6, <1>7 DEF OrderInv

-----------------------------------------------------------------------------
(* The unmount has the file system for itself.                             *)

LEMMA UmountEnters ==
    ASSUME TypeOK, OrderInv, HolderInv, NEW t \in UserTasks, UmountBegin(t),
           order' = Order!Follow(order, [task |-> t, call |-> "WaitRescanCompletion", at |-> "Enter"])
    PROVE  OrderInv'
<1> DEFINE e == [task |-> t, call |-> "WaitRescanCompletion", at |-> "Enter"]
<1>1. /\ op[t] = "none" /\ pc[t] = "idle" /\ op'[t] = "umount" /\ pc'[t] = "wait_read"
      /\ \A u \in Tasks \ {t} : op'[u] = op[u] /\ pc'[u] = pc[u]
      /\ t \in Tasks /\ t # "worker" /\ UNCHANGED workerQueued
      /\ \A u \in UserTasks : op[u] = "none"
  BY TasksAssumption DEF UmountBegin, Enter, At, TypeOK, ControlOK, Tasks, TasksAssumption, Worker, work
<1>2. OpenOf(op[t], pc[t]) = <<>> /\ OpenOf(op'[t], pc'[t]) = <<"WaitRescanCompletion">>
  BY <1>1 DEF OpenOf, Waiting
<1>3. \A u \in UserTasks : order.open[u] = <<>>
  BY <1>1 DEF OrderInv, OpenInv, OpenOf, Tasks
<1>4. Order!MayEnter(order, t, "WaitRescanCompletion")
  <2>1. ~Order!TearingDown(order)
    BY <1>1, TeardownIsUnmount DEF Closing
  <2>2. "WaitRescanCompletion" \in Order!Ioctls /\ "WaitRescanCompletion" \notin Order!QuotaCtl
    BY DEF Order!Ioctls, Order!QuotaCtl
  <2> QED BY <1>3, <2>1, <2>2 DEF Order!MayEnter
<1>6. /\ order'.ok /\ OpenInv' /\ order'.closing = Order!Closing(order, e)
      /\ order'.spent = order.spent \ {t} /\ order'.pending = order.pending
  <2>1. OpenInv /\ order.ok
    BY DEF OrderInv
  <2> QED BY <1>1, <1>2, <1>4, <2>1, OutermostEnters
<1>7. SpentInv'
  BY <1>1, <1>6, SpentSame DEF OrderInv
<1>8. CountInv'
  <2>1. Queuing' = Queuing \ {t}
    BY <1>1 DEF Queuing, Tasks
  <2> QED BY <1>1, <1>6, <2>1, CountSame DEF OrderInv
<1>9. ClosingInv'
  <2>1. order'.closing = {t}
    BY <1>1, <1>3, <1>6 DEF Order!Closing, Order!Scanner
  <2> QED BY <1>1, <2>1 DEF ClosingInv, Tasks
<1> QED BY <1>6, <1>7, <1>8, <1>9 DEF OrderInv

LEMMA UmountWaited ==
    ASSUME TypeOK, OrderInv, HolderInv, NEW t \in UserTasks, UmountWaitDone(t),
           order' = Order!Follow(order, [task |-> t, call |-> "WaitRescanCompletion", at |-> "Done"])
    PROVE  OrderInv'
<1> DEFINE e == [task |-> t, call |-> "WaitRescanCompletion", at |-> "Done"]
<1>1. /\ op[t] = "umount" /\ pc[t] = "wait_done" /\ op' = op /\ pc'[t] = "free_enter"
      /\ \A u \in Tasks \ {t} : op'[u] = op[u] /\ pc'[u] = pc[u]
      /\ t \in Tasks /\ t # "worker" /\ UNCHANGED workerQueued
  BY TasksAssumption DEF UmountWaitDone, Goto, At, TypeOK, ControlOK, Tasks, TasksAssumption, Worker, work
<1>2. /\ OpenOf(op[t], pc[t]) = <<"WaitRescanCompletion">> /\ OpenOf(op'[t], pc'[t]) = <<>>
      /\ order.open[t] = <<"WaitRescanCompletion">>
  BY <1>1 DEF OpenOf, Waiting, OrderInv, OpenInv
<1>3. order.closing = {t}
  BY <1>1 DEF OrderInv, ClosingInv
<1>4. /\ order'.ok /\ OpenInv' /\ order'.closing = Order!Closing(order, e)
      /\ order'.spent = order.spent \ {t} /\ order'.pending = order.pending
  <2>1. OpenInv /\ order.ok
    BY DEF OrderInv
  <2> QED BY <1>1, <1>2, <2>1, OutermostDone
<1>5. SpentInv'
  BY <1>1, <1>4, SpentSame DEF OrderInv
<1>6. CountInv'
  <2>1. Queuing' = Queuing \ {t}
    BY <1>1 DEF Queuing, Tasks
  <2> QED BY <1>1, <1>4, <2>1, CountSame DEF OrderInv
<1>7. ClosingInv'
  <2>1. order'.closing = {t}
    BY <1>1, <1>2, <1>3, <1>4 DEF Order!Closing, Order!Scanner
  <2> QED BY <1>1, <2>1 DEF OrderInv, ClosingInv
<1> QED BY <1>4, <1>5, <1>6, <1>7 DEF OrderInv

LEMMA UmountFrees ==
    ASSUME TypeOK, OrderInv, HolderInv, NEW t \in UserTasks, FreeEnter(t), op[t] = "umount",
           order' = Order!Follow(order, [task |-> t, call |-> "FreeQgroupConfig", at |-> "Enter"])
    PROVE  OrderInv'
<1> DEFINE e == [task |-> t, call |-> "FreeQgroupConfig", at |-> "Enter"]
<1>1. /\ pc[t] = "free_enter" /\ op' = op /\ pc'[t] \in {"free_lock", "free_do"}
      /\ \A u \in Tasks \ {t} : op'[u] = op[u] /\ pc'[u] = pc[u]
      /\ t \in Tasks /\ t # "worker" /\ UNCHANGED workerQueued
  BY TasksAssumption DEF FreeEnter, Goto, At, TypeOK, ControlOK, Tasks, TasksAssumption, Worker, work
<1>2. /\ OpenOf(op[t], pc[t]) = <<>> /\ OpenOf(op'[t], pc'[t]) = <<"FreeQgroupConfig">>
      /\ order.open[t] = <<>>
  BY <1>1 DEF OpenOf, Waiting, OrderInv, OpenInv
<1>3. order.closing = {t}
  BY DEF OrderInv, ClosingInv
<1>4. Order!MayEnter(order, t, "FreeQgroupConfig")
  BY <1>2, <1>3 DEF Order!MayEnter
<1>6. /\ order'.ok /\ OpenInv' /\ order'.closing = Order!Closing(order, e)
      /\ order'.spent = order.spent \ {t} /\ order'.pending = order.pending
  <2>1. OpenInv /\ order.ok
    BY DEF OrderInv
  <2> QED BY <1>1, <1>2, <1>4, <2>1, OutermostEnters
<1>7. SpentInv'
  BY <1>1, <1>6, SpentSame DEF OrderInv
<1>8. CountInv'
  <2>1. Queuing' = Queuing \ {t}
    BY <1>1 DEF Queuing, Tasks
  <2> QED BY <1>1, <1>6, <2>1, CountSame DEF OrderInv
<1>9. ClosingInv'
  <2>1. order'.closing = {t}
    BY <1>1, <1>2, <1>3, <1>6 DEF Order!Closing, Order!Scanner
  <2> QED BY <1>1, <2>1 DEF OrderInv, ClosingInv
<1> QED BY <1>6, <1>7, <1>8, <1>9 DEF OrderInv

\* The scans that were never started are gone with the file system.
LEMMA UmountFreed ==
    ASSUME TypeOK, OrderInv, HolderInv, NEW t \in UserTasks, UmountFreeDone(t),
           order' = Order!Follow(order, [task |-> t, call |-> "FreeQgroupConfig", at |-> "Done"])
    PROVE  OrderInv'
<1> DEFINE e == [task |-> t, call |-> "FreeQgroupConfig", at |-> "Done"]
<1>1. /\ op[t] = "umount" /\ pc[t] = "free_done" /\ op'[t] = "none" /\ pc'[t] = "idle"
      /\ \A u \in Tasks \ {t} : op'[u] = op[u] /\ pc'[u] = pc[u]
      /\ t \in Tasks /\ t # "worker" /\ workerQueued' = FALSE
  BY TasksAssumption DEF UmountFreeDone, Return, At, TypeOK, ControlOK, Tasks, TasksAssumption, Worker
<1>2. /\ OpenOf(op[t], pc[t]) = <<"FreeQgroupConfig">> /\ OpenOf(op'[t], pc'[t]) = <<>>
      /\ order.open[t] = <<"FreeQgroupConfig">>
  BY <1>1 DEF OpenOf, Waiting, OrderInv, OpenInv
<1>3. order.closing = {t}
  BY <1>1 DEF OrderInv, ClosingInv
<1>4. /\ order'.ok /\ OpenInv' /\ order'.closing = Order!Closing(order, e)
      /\ order'.spent = order.spent \ {t} /\ order'.pending = 0
  <2>1. OpenInv /\ order.ok
    BY DEF OrderInv
  <2> QED BY <1>1, <1>2, <1>3, <2>1, TeardownDone
<1>5. SpentInv'
  BY <1>1, <1>4, SpentSame DEF OrderInv
<1>6. CountInv'
  <2>1. ASSUME NEW u \in UserTasks PROVE pc'[u] # "queue"
    <3>1. CASE u = t
      BY <1>1, <3>1
    <3>2. CASE u # t
      <4>1. op[u] = "none" /\ pc'[u] = pc[u] /\ <<op[u], pc[u]>> \in Stages
        BY <1>1, <3>2 DEF HolderInv, Tasks, TypeOK, ControlOK
      <4> QED BY <4>1 DEF Stages
    <3> QED BY <3>1, <3>2
  <2>2. Queuing' = {}
    BY <2>1 DEF Queuing
  <2>3. IsFiniteSet({}) /\ Cardinality({}) = 0
    BY FS_EmptySet
  <2>4. order'.pending \in Nat /\ 0 <= order'.pending
    BY <1>4
  <2> QED BY <1>1, <2>2, <2>3, <2>4 DEF CountInv
<1>7. ClosingInv'
  <2>1. order'.closing = {}
    <3>1. order.open[t] \notin {<<>>, <<"WaitRescanCompletion">>}
      BY <1>2
    <3> QED BY <1>1, <1>4, <3>1 DEF Order!Closing, Order!Scanner
  <2>2. \A u \in UserTasks : op'[u] # "umount"
    BY <1>1 DEF HolderInv, Tasks
  <2> QED BY <2>1, <2>2 DEF ClosingInv
<1> QED BY <1>4, <1>5, <1>6, <1>7 DEF OrderInv

-----------------------------------------------------------------------------
(* The worker.                                                             *)

LEMMA WorkerEnters ==
    ASSUME TypeOK, OrderInv, WorkerStart,
           order' = Order!Follow(order, [task |-> Worker, call |-> "RescanWorker", at |-> "Enter"])
    PROVE  OrderInv'
<1> DEFINE e == [task |-> Worker, call |-> "RescanWorker", at |-> "Enter"]
<1>1. /\ workerQueued /\ workerQueued' = FALSE /\ op[Worker] = "none"
      /\ op'[Worker] = "scan" /\ pc'[Worker] = "run" /\ Worker \in Tasks
      /\ \A u \in Tasks \ {Worker} : op'[u] = op[u] /\ pc'[u] = pc[u]
  BY DEF WorkerStart, Enter, At, TypeOK, ControlOK, Tasks
<1>2. \A u \in UserTasks : op'[u] = op[u] /\ pc'[u] = pc[u]
  BY <1>1, TasksAssumption DEF Tasks, TasksAssumption
<1>3. /\ OpenOf(op[Worker], pc[Worker]) = <<>> /\ OpenOf(op'[Worker], pc'[Worker]) = <<"RescanWorker">>
      /\ order.open[Worker] = <<>>
  BY <1>1 DEF OpenOf, OrderInv, OpenInv
<1>4. /\ IsFiniteSet(Queuing) /\ Cardinality(Queuing) \in Nat /\ order.pending \in Nat
      /\ Cardinality(Queuing) + 1 <= order.pending
  BY <1>1, FS_CardinalityType DEF OrderInv, CountInv
<1>5. Order!MayEnter(order, Worker, "RescanWorker")
  BY <1>3, <1>4 DEF Order!MayEnter, Order!Scanner, Worker
<1>6. Append(<<>>, "RescanWorker") = <<"RescanWorker">> /\ Len(<<>>) # 1
  BY AppendIs
<1>7. /\ order'.ok /\ OpenInv' /\ order'.closing = Order!Closing(order, e)
      /\ order'.spent = order.spent \ {Worker} /\ order'.pending = order.pending - 1
  <2>1. OpenInv /\ order.ok
    BY DEF OrderInv
  <2>2. /\ OpenOf(op'[Worker], pc'[Worker]) = Append(OpenOf(op[Worker], pc[Worker]), "RescanWorker")
        /\ Len(OpenOf(op[Worker], pc[Worker])) # 1
    BY <1>3, <1>6
  <2> QED BY <1>1, <1>5, <2>1, <2>2, EntersOpen
<1>8. SpentInv'
  BY <1>1, <1>7, SpentSame DEF OrderInv
<1>9. CountInv'
  <2>1. Queuing' = Queuing
    BY <1>2 DEF Queuing
  <2>2. order'.pending \in Nat /\ Cardinality(Queuing) <= order'.pending
    BY <1>4, <1>7
  <2> QED BY <1>1, <1>4, <2>1, <2>2 DEF CountInv
<1>10. ClosingInv'
  <2>1. order'.closing = order.closing
    BY <1>7 DEF Order!Closing, Order!Scanner, Worker
  <2> QED BY <1>2, <2>1 DEF OrderInv, ClosingInv
<1> QED BY <1>7, <1>8, <1>9, <1>10 DEF OrderInv

LEMMA WorkerReturns ==
    ASSUME TypeOK, OrderInv, WorkerDone,
           order' = Order!Follow(order, [task |-> Worker, call |-> "RescanWorker", at |-> "Done"])
    PROVE  OrderInv'
<1> DEFINE e == [task |-> Worker, call |-> "RescanWorker", at |-> "Done"]
<1>1. /\ UNCHANGED workerQueued /\ op[Worker] = "scan"
      /\ op'[Worker] = "none" /\ pc'[Worker] = "idle" /\ Worker \in Tasks
      /\ \A u \in Tasks \ {Worker} : op'[u] = op[u] /\ pc'[u] = pc[u]
  BY DEF WorkerDone, Return, At, TypeOK, ControlOK, Tasks, work
<1>2. \A u \in UserTasks : op'[u] = op[u] /\ pc'[u] = pc[u]
  BY <1>1, TasksAssumption DEF Tasks, TasksAssumption
<1>3. OpenOf(op[Worker], pc[Worker]) = <<"RescanWorker">> /\ OpenOf(op'[Worker], pc'[Worker]) = <<>>
  BY <1>1 DEF OpenOf
<1>4. /\ order'.ok /\ OpenInv' /\ order'.closing = Order!Closing(order, e)
      /\ order'.spent = order.spent \ {Worker} /\ order'.pending = order.pending
  <2>1. OpenInv /\ order.ok
    BY DEF OrderInv
  <2> QED BY <1>1, <1>3, <2>1, OutermostDone
<1>5. SpentInv'
  BY <1>1, <1>4, SpentSame DEF OrderInv
<1>6. CountInv'
  BY <1>1, <1>2, <1>4 DEF OrderInv, CountInv, Queuing
<1>7. ClosingInv'
  <2>1. order'.closing = order.closing
    BY <1>4 DEF Order!Closing, Order!Scanner, Worker
  <2> QED BY <1>2, <2>1 DEF OrderInv, ClosingInv
<1> QED BY <1>4, <1>5, <1>6, <1>7 DEF OrderInv

-----------------------------------------------------------------------------
(* Steps that print nothing.                                               *)

LEMMA SilentUser ==
    ASSUME TypeOK, OrderInv, NEW t \in UserTasks, InternalUser(t), UNCHANGED order
    PROVE  OrderInv'
<1> USE DEF At, Unspent, OpenOf, Waiting
<1>0. t \in Tasks
  BY DEF Tasks
<1>1. CASE CheckRoot(t)
  BY <1>0, <1>1, SilentStep DEF CheckRoot, work
<1>2. CASE CreateRoot(t) \/ SetRoot(t)
  BY <1>0, <1>2, SilentStep DEF CreateRoot, SetRoot, work
<1>3. CASE SimpleSkip(t) \/ RescanRefused(t)
  BY <1>0, <1>3, SilentStep DEF SimpleSkip, RescanRefused, work
<1>4. CASE RescanInit(t)
  BY <1>0, <1>4, SilentStep DEF RescanInit, work
<1>5. CASE EnableQueue(t) \/ RescanQueue(t)
  <2>1. t \in Queuing /\ Goto(t, "done")
    BY <1>5 DEF EnableQueue, RescanQueue, Queuing
  <2>2. op[t] \in {"enable", "rescan"} /\ pc[t] = "queue"
    BY <1>5 DEF EnableQueue, RescanQueue
  <2> QED BY <1>0, <2>1, <2>2, SilentStep
<1>6. CASE ZeroTrackingLock(t)
  BY <1>6 DEF ZeroTrackingLock, work, OrderInv, OpenInv, SpentInv, CountInv, ClosingInv, Queuing
<1>7. CASE ZeroTrackingUnlock(t)
  BY <1>0, <1>7, SilentStep DEF ZeroTrackingUnlock, work
<1>8. CASE WaitRead(t) \/ WaitBlocked(t)
  BY <1>0, <1>8, SilentStep DEF WaitRead, WaitBlocked, work
<1>9. CASE ClearEnabled(t) \/ ClearRoot(t)
  BY <1>0, <1>9, SilentStep DEF ClearEnabled, ClearRoot, work
<1>10. CASE FreeLock(t) \/ FreeDo(t)
  BY <1>0, <1>10, SilentStep DEF FreeLock, FreeDo, work
<1>11. CASE PassWindow(t)
  BY <1>0, <1>11, SilentStep DEF PassWindow, Windows, work
<1> QED BY <1>1, <1>2, <1>3, <1>4, <1>5, <1>6, <1>7, <1>8, <1>9, <1>10, <1>11 DEF InternalUser

LEMMA SilentWorker ==
    ASSUME TypeOK, OrderInv, InternalWorker, UNCHANGED order PROVE OrderInv'
<1>1. /\ op[Worker] = "scan" /\ UNCHANGED workerQueued /\ Worker \in Tasks
      /\ \E place \in {"scan", "run", "finish", "exit"} : Goto(Worker, place)
  BY DEF InternalWorker, ScanLock, ScanUnlock, ExitLoop, Finish, At, work, Tasks
<1> QED BY <1>1, SilentStep DEF OpenOf, Unspent

-----------------------------------------------------------------------------
(* Steps that print an event.                                              *)

LEMMA ObservedUser ==
    ASSUME TypeOK, OrderInv, HolderInv, NEW t \in UserTasks, NEW event, Observable(t, event),
           order' = Order!Follow(order, AsCall(t, event))
    PROVE  OrderInv'
<1> USE DEF At, Unspent, OpenOf, Waiting, Outermost, Order!Nested
<1>1. CASE event = "QuotaEnable_Enter" /\ QuotaEnableEnter(t)
  <2>1. AsCall(t, event) = [task |-> t, call |-> "QuotaEnable", at |-> "Enter"]
    BY <1>1 DEF AsCall, CallOf
  <2> QED BY <1>1, <2>1, IoctlEnters DEF QuotaEnableEnter, QuotaCtlEnter, work
<1>2. CASE event = "QuotaEnable_Done" /\ QuotaEnableDone(t)
  <2>1. AsCall(t, event) = [task |-> t, call |-> "QuotaEnable", at |-> "Done"]
    BY <1>2 DEF AsCall, CallOf
  <2> QED BY <1>2, <2>1, IoctlReturns DEF QuotaEnableDone, QuotaCtlDone, work
<1>3. CASE event = "QuotaDisable_Enter" /\ QuotaDisableEnter(t)
  <2>1. AsCall(t, event) = [task |-> t, call |-> "QuotaDisable", at |-> "Enter"]
    BY <1>3 DEF AsCall, CallOf
  <2> QED BY <1>3, <2>1, IoctlEnters DEF QuotaDisableEnter, QuotaCtlEnter, work
<1>4. CASE event = "QuotaDisable_Done" /\ QuotaDisableDone(t)
  <2>1. AsCall(t, event) = [task |-> t, call |-> "QuotaDisable", at |-> "Done"]
    BY <1>4 DEF AsCall, CallOf
  <2> QED BY <1>4, <2>1, IoctlReturns DEF QuotaDisableDone, QuotaCtlDone, work
<1>5. CASE event = "QgroupRescan_Enter" /\ QgroupRescanEnter(t)
  <2>1. AsCall(t, event) = [task |-> t, call |-> "QgroupRescan", at |-> "Enter"]
    BY <1>5 DEF AsCall, CallOf
  <2> QED BY <1>5, <2>1, IoctlEnters DEF QgroupRescanEnter, work
<1>6. CASE event = "QgroupRescan_Done" /\ QgroupRescanDone(t)
  <2>1. AsCall(t, event) = [task |-> t, call |-> "QgroupRescan", at |-> "Done"]
    BY <1>6 DEF AsCall, CallOf
  <2> QED BY <1>6, <2>1, IoctlReturns DEF QgroupRescanDone, work
<1>7. CASE event = "RescanZeroTracking_Enter" /\ ZeroTrackingEnter(t)
  <2>1. AsCall(t, event) = [task |-> t, call |-> "RescanZeroTracking", at |-> "Enter"]
    BY <1>7 DEF AsCall, CallOf
  <2> QED BY <1>7, <2>1, InnerEnters DEF ZeroTrackingEnter, work
<1>8. CASE event = "RescanZeroTracking_Done" /\ ZeroTrackingDone(t)
  <2>1. AsCall(t, event) = [task |-> t, call |-> "RescanZeroTracking", at |-> "Done"]
    BY <1>8 DEF AsCall, CallOf
  <2> QED BY <1>8, <2>1, InnerDone DEF ZeroTrackingDone, work
<1>9. CASE event = "WaitRescanCompletion_Enter" /\ UserWaitEnter(t)
  <2>1. AsCall(t, event) = [task |-> t, call |-> "WaitRescanCompletion", at |-> "Enter"]
    BY <1>9 DEF AsCall, CallOf
  <2> QED BY <1>9, <2>1, IoctlEnters DEF UserWaitEnter, work
<1>10. CASE event = "WaitRescanCompletion_Enter" /\ UmountBegin(t)
  <2>1. AsCall(t, event) = [task |-> t, call |-> "WaitRescanCompletion", at |-> "Enter"]
    BY <1>10 DEF AsCall, CallOf
  <2> QED BY <1>10, <2>1, UmountEnters
<1>11. CASE event = "WaitRescanCompletion_Done" /\ UserWaitDone(t)
  <2>1. AsCall(t, event) = [task |-> t, call |-> "WaitRescanCompletion", at |-> "Done"]
    BY <1>11 DEF AsCall, CallOf
  <2> QED BY <1>11, <2>1, IoctlReturns DEF UserWaitDone, work
<1>12. CASE event = "WaitRescanCompletion_Done" /\ UmountWaitDone(t)
  <2>1. AsCall(t, event) = [task |-> t, call |-> "WaitRescanCompletion", at |-> "Done"]
    BY <1>12 DEF AsCall, CallOf
  <2> QED BY <1>12, <2>1, UmountWaited
<1>13. CASE event = "FreeQgroupConfig_Enter" /\ FreeEnter(t)
  <2>1. AsCall(t, event) = [task |-> t, call |-> "FreeQgroupConfig", at |-> "Enter"]
    BY <1>13 DEF AsCall, CallOf
  <2>2. CASE op[t] = "disable"
    BY <1>13, <2>1, <2>2, InnerEnters DEF FreeEnter, work
  <2>3. CASE op[t] = "umount"
    BY <1>13, <2>1, <2>3, UmountFrees
  <2> QED BY <1>13, <2>2, <2>3 DEF FreeEnter
<1>14. CASE event = "FreeQgroupConfig_Done" /\ DisableFreeDone(t)
  <2>1. AsCall(t, event) = [task |-> t, call |-> "FreeQgroupConfig", at |-> "Done"]
    BY <1>14 DEF AsCall, CallOf
  <2> QED BY <1>14, <2>1, InnerDone DEF DisableFreeDone, work
<1>15. CASE event = "FreeQgroupConfig_Done" /\ UmountFreeDone(t)
  <2>1. AsCall(t, event) = [task |-> t, call |-> "FreeQgroupConfig", at |-> "Done"]
    BY <1>15 DEF AsCall, CallOf
  <2> QED BY <1>15, <2>1, UmountFreed
<1> QED BY <1>1, <1>2, <1>3, <1>4, <1>5, <1>6, <1>7, <1>8, <1>9, <1>10, <1>11, <1>12,
           <1>13, <1>14, <1>15 DEF Observable

LEMMA ObservedWorker ==
    ASSUME TypeOK, OrderInv, NEW event, ObservableWorker(event),
           order' = Order!Follow(order, AsCall(Worker, event))
    PROVE  OrderInv'
<1>1. CASE event = "RescanWorker_Enter" /\ WorkerStart
  <2>1. AsCall(Worker, event) = [task |-> Worker, call |-> "RescanWorker", at |-> "Enter"]
    BY <1>1 DEF AsCall, CallOf
  <2> QED BY <1>1, <2>1, WorkerEnters
<1>2. CASE event = "RescanWorker_Done" /\ WorkerDone
  <2>1. AsCall(Worker, event) = [task |-> Worker, call |-> "RescanWorker", at |-> "Done"]
    BY <1>2 DEF AsCall, CallOf
  <2> QED BY <1>2, <2>1, WorkerReturns
<1> QED BY <1>1, <1>2 DEF ObservableWorker

-----------------------------------------------------------------------------
(* The replay.  With a trace the order is not watched, and stays as it is. *)

ReplayInv ==
    /\ order.ok
    /\ rule = "free" => TypeOK /\ HolderInv /\ OrderInv

LEMMA ReplayInit == TInit => ReplayInv
<1> SUFFICES ASSUME TInit PROVE ReplayInv
  OBVIOUS
<1>1. TypeOK /\ HolderInv
  BY TypeInit, HolderInit DEF TInit
<1>2. /\ order.open = [t \in Tasks |-> <<>>] /\ order.spent = {} /\ order.pending = 0
      /\ order.closing = {} /\ order.ok
  BY DEF TInit, Order!Quiet, Order!Scanner, Tasks, Worker
<1>3. /\ op = [t \in Tasks |-> "none"] /\ pc = [t \in Tasks |-> "idle"] /\ ~workerQueued
  BY DEF TInit, Init
<1>4. OpenInv
  BY <1>2, <1>3 DEF OpenInv, OpenOf
<1>5. CountInv
  <2>1. Queuing = {}
    BY <1>3 DEF Queuing, Tasks
  <2> QED BY <1>2, <1>3, <2>1, FS_EmptySet DEF CountInv
<1>6. SpentInv /\ ClosingInv
  BY <1>2, <1>3 DEF SpentInv, ClosingInv, Tasks
<1> QED BY <1>1, <1>2, <1>4, <1>5, <1>6 DEF ReplayInv, OrderInv

LEMMA EventStep == ASSUME ReplayInv, Event PROVE ReplayInv'
<1>1. PICK t \in Tasks, event \in ObservableNames :
         /\ Take(t, event)
         /\ order' = IF rule = "free" THEN Order!Follow(order, AsCall(t, event)) ELSE order
  BY DEF Event
<1>2. \/ t = Worker /\ ObservableWorker(event)
      \/ t \in UserTasks /\ Observable(t, event)
  BY <1>1 DEF Take
<1>3. TypeOK /\ HolderInv => TypeOK' /\ HolderInv'
  <2>1. Next
    BY <1>2 DEF Next
  <2> QED BY <2>1, TypeStep, HolderStep
<1>4. UNCHANGED rule
  BY DEF Event
<1>5. CASE rule = "free"
  BY <1>1, <1>2, <1>3, <1>4, <1>5, ObservedUser, ObservedWorker DEF ReplayInv, OrderInv
<1>6. CASE rule # "free"
  BY <1>1, <1>3, <1>4, <1>6 DEF ReplayInv
<1> QED BY <1>5, <1>6

LEMMA BetweenStep == ASSUME ReplayInv, Between PROVE ReplayInv'
<1>1. UNCHANGED <<rule, order>>
  BY DEF Between
<1>2. ASSUME rule = "free" PROVE TypeOK' /\ HolderInv' /\ OrderInv'
  <2>1. Internal
    BY <1>2 DEF Between
  <2>2. Next
    BY <2>1 DEF Next
  <2>3. TypeOK' /\ HolderInv'
    BY <1>2, <2>2, TypeStep, HolderStep DEF ReplayInv
  <2>4. OrderInv'
    BY <1>1, <1>2, <2>1, SilentUser, SilentWorker DEF Internal, ReplayInv
  <2> QED BY <2>3, <2>4
<1> QED BY <1>1, <1>2 DEF ReplayInv

LEMMA ReplayStep == ASSUME ReplayInv, [TNext]_replayVars PROVE ReplayInv'
<1>1. CASE UNCHANGED replayVars
  <2>1. TypeOK /\ HolderInv => TypeOK' /\ HolderInv'
    BY <1>1, TypeStep, HolderStep DEF replayVars
  <2> QED BY <1>1, <2>1
          DEF ReplayInv, replayVars, vars, work, OrderInv, OpenInv, SpentInv, CountInv, ClosingInv, Queuing
<1> QED BY <1>1, EventStep, BetweenStep DEF TNext

\* Whatever the life cycle does, with any number of threads and for however
\* long, the entries and returns that the probes on the qgroup functions
\* report come in program order.
THEOREM EventsKeepProgramOrder == TSpec => []EventsAreInOrder
<1>1. ReplayInv /\ [TNext]_replayVars => ReplayInv'
  BY ReplayStep
<1>2. ReplayInv => EventsAreInOrder
  BY DEF ReplayInv, EventsAreInOrder
<1> QED BY <1>1, <1>2, ReplayInit, PTL DEF TSpec

\* Where the replay is in its trace.
AtEvent ==
    /\ idx \in Nat \ {0}
    /\ rule # "free" => trace \in Seq([task : Tasks, action : ObservableNames])

LEMMA ElementIs ==
    ASSUME NEW S, NEW s \in Seq(S), NEW i \in 1..Len(s)
    PROVE  s[i] \in S
OBVIOUS

LEMMA EventIsNext == ASSUME Event PROVE Next
<1>1. PICK t \in Tasks, event \in ObservableNames : Take(t, event)
  BY DEF Event
<1>2. \/ t = Worker /\ ObservableWorker(event)
      \/ t \in UserTasks /\ Observable(t, event)
  BY <1>1 DEF Take
<1> QED BY <1>1, <1>2 DEF Next

LEMMA BetweenIsNext == ASSUME AtEvent, Between PROVE Next
<1>1. CASE rule # "restricted"
  BY <1>1 DEF Between, Next
<1>2. CASE rule = "restricted"
  <2>1. Unseen
    BY <1>2 DEF Between
  <2>2. trace[idx].task \in UserTasks \cup {Worker}
    <3>1. trace \in Seq([task : Tasks, action : ObservableNames]) /\ idx \in 1..Len(trace)
      BY <1>2 DEF AtEvent, Between, End
    <3>2. trace[idx] \in [task : Tasks, action : ObservableNames]
      BY <3>1, ElementIs, Zenon
    <3> QED BY <3>2 DEF Tasks
  <2>3. CASE InternalOf(trace[idx].task)
    BY <2>2, <2>3 DEF InternalOf, Internal, Next
  <2>4. CASE Enqueue
    BY <2>4 DEF Enqueue, InternalUser, Internal, Next
  <2>5. CASE WorkerFinish
    BY <2>5 DEF WorkerFinish, Internal, Next
  <2> QED BY <2>1, <2>3, <2>4, <2>5 DEF Unseen
<1> QED BY <1>1, <1>2

\* Under each of its rules the replay is in the life cycle with every step: the
\* restriction takes behaviours away and adds none, so
\* whatever is proved of the life cycle holds in the replay of any trace, and a
\* trace that is accepted is one of the life cycle.
THEOREM ReplayIsLifecycle == TSpec => Spec
<1>1. TInit => Init /\ AtEvent
  <2> SUFFICES ASSUME TInit PROVE Init /\ AtEvent
    OBVIOUS
  <2>1. Init /\ idx = 1 /\ (rule # "free" => trace \in Traces)
    BY DEF TInit
  <2>2. rule # "free" => trace \in Seq([task : Tasks, action : ObservableNames])
    BY <2>1, ReplayAssumption, Zenon
  <2> QED BY <2>1, <2>2 DEF AtEvent
<1>2. AtEvent /\ [TNext]_replayVars => AtEvent'
  <2> SUFFICES ASSUME AtEvent, [TNext]_replayVars PROVE AtEvent'
    OBVIOUS
  <2>1. UNCHANGED <<rule, trace>> /\ (idx' = idx \/ idx' = idx + 1)
    BY DEF TNext, Event, Between, replayVars
  <2> QED BY <2>1 DEF AtEvent
<1>3. AtEvent /\ [TNext]_replayVars => [Next]_vars
  BY EventIsNext, BetweenIsNext DEF TNext, replayVars
<1> QED BY <1>1, <1>2, <1>3, PTL DEF TSpec, Spec

-----------------------------------------------------------------------------
(* The two traces that the restricted replay loses.                        *)

\* Nobody but t and u does anything, and the worker has nothing to do.
OnlyThese(t, u) ==
    /\ \A x \in Tasks \ {t, u} : op[x] = "none"
    /\ ~workerQueued

Idle(t) == op[t] = "none"
OnWithoutScan == flagOn /\ ~flagRescan

\* The rescan is not refused, as the disable may not go on before the rescan has
\* returned; then it has a zero tracking to make that is not in the trace.
InRefused(t, u) ==
    \/ idx = 1 /\ Idle(t) /\ Idle(u) /\ ~quotaRoot
    \/ /\ idx = 2 /\ op[t] = "enable" /\ Idle(u)
       /\ \/ pc[t] = "check" /\ ~quotaRoot
          \/ pc[t] \in {"create", "zt_enter"}
          \/ pc[t] \in {"setroot", "rescaninit", "done"} /\ OnWithoutScan
    \/ idx = 3 /\ Idle(t) /\ Idle(u) /\ OnWithoutScan
    \/ idx = 4 /\ At(t, {"disable"}, "check") /\ Idle(u) /\ OnWithoutScan
    \/ /\ idx = 5 /\ At(t, {"disable"}, "check") /\ op[u] = "rescan"
       /\ \/ pc[u] = "rescaninit" /\ OnWithoutScan
          \/ pc[u] \in {"commit", "zt_enter"}

\* The rescan is refused, as the enable may not go on before the zero tracking.
InBegun(t, u) ==
    \/ idx = 1 /\ Idle(t) /\ Idle(u) /\ ~flagOn
    \/ idx = 2 /\ At(t, {"enable"}, "check") /\ Idle(u) /\ ~flagOn
    \/ /\ idx = 3 /\ At(t, {"enable"}, "check") /\ op[u] = "rescan"
       /\ pc[u] \in {"rescaninit", "done"} /\ ~flagOn

LostInv ==
    \A t, u \in UserTasks :
        t # u /\ rule = "restricted" =>
            /\ trace = RefusedByDisable(t, u) => OnlyThese(t, u) /\ InRefused(t, u)
            /\ trace = BegunByEnable(t, u) => OnlyThese(t, u) /\ InBegun(t, u)

\* The unseen steps between two events that matter here.
LEMMA EnableGoes ==
    ASSUME TypeOK, NEW t \in UserTasks, InternalUser(t), op[t] = "enable",
           pc[t] \in {"check", "create", "setroot", "rescaninit", "zt_enter", "done"}
    PROVE  /\ UNCHANGED <<op, workerQueued>> /\ \A x \in Tasks \ {t} : pc'[x] = pc[x]
           /\ \/ /\ pc[t] = "check" /\ pc'[t] = IF quotaRoot THEN "done" ELSE "create"
                 /\ UNCHANGED <<flagOn, flagRescan>>
              \/ pc[t] = "create" /\ pc'[t] = "setroot" /\ OnWithoutScan'
              \/ pc[t] = "setroot" /\ pc'[t] = "rescaninit" /\ UNCHANGED <<flagOn, flagRescan>>
              \/ pc[t] = "rescaninit" /\ pc'[t] = "zt_enter"
              \/ pc[t] = "rescaninit" /\ pc'[t] = "done" /\ UNCHANGED <<flagOn, flagRescan>>
<1> USE DEF At, Goto, TypeOK, ControlOK, Tasks, quota, rescan, work
<1>1. \/ CheckRoot(t) \/ CreateRoot(t) \/ SetRoot(t) \/ SimpleSkip(t)
      \/ RescanRefused(t) \/ RescanInit(t)
  BY DEF InternalUser, EnableQueue, ZeroTrackingLock, ZeroTrackingUnlock, RescanQueue, WaitRead,
         WaitBlocked, ClearEnabled, ClearRoot, FreeLock, FreeDo, PassWindow, Windows
<1>2. CASE CheckRoot(t)
  BY <1>2 DEF CheckRoot
<1>3. CASE CreateRoot(t)
  BY <1>3 DEF CreateRoot, OnWithoutScan
<1>4. CASE SetRoot(t)
  BY <1>4 DEF SetRoot
<1>5. CASE SimpleSkip(t) \/ RescanRefused(t)
  BY <1>5 DEF SimpleSkip, RescanRefused
<1>6. CASE RescanInit(t)
  BY <1>6 DEF RescanInit
<1> QED BY <1>1, <1>2, <1>3, <1>4, <1>5, <1>6

LEMMA RescanGoes ==
    ASSUME TypeOK, NEW t \in UserTasks, InternalUser(t), op[t] = "rescan",
           pc[t] \in {"rescaninit", "commit", "zt_enter", "done"}
    PROVE  /\ UNCHANGED <<op, workerQueued, flagOn>> /\ \A x \in Tasks \ {t} : pc'[x] = pc[x]
           /\ \/ pc[t] = "rescaninit" /\ ~OnWithoutScan /\ pc'[t] = "done"
              \/ pc[t] = "rescaninit" /\ OnWithoutScan /\ pc'[t] = "commit"
              \/ pc[t] = "commit" /\ pc'[t] = "zt_enter"
<1> USE DEF At, Goto, TypeOK, ControlOK, Tasks, quota, rescan, work
<1>1. RescanRefused(t) \/ RescanInit(t) \/ PassWindow(t)
  BY DEF InternalUser, CheckRoot, CreateRoot, SetRoot, SimpleSkip, EnableQueue, ZeroTrackingLock,
         ZeroTrackingUnlock, RescanQueue, WaitRead, WaitBlocked, ClearEnabled, ClearRoot,
         FreeLock, FreeDo
<1>2. CASE RescanRefused(t)
  BY <1>2 DEF RescanRefused, RefusesRescan, OnWithoutScan
<1>3. CASE RescanInit(t)
  BY <1>3 DEF RescanInit, RefusesRescan, OnWithoutScan
<1>4. CASE PassWindow(t)
  BY <1>4 DEF PassWindow, Windows
<1> QED BY <1>1, <1>2, <1>3, <1>4

LEMMA IdleStays == ASSUME NEW t \in UserTasks, Idle(t) PROVE ~InternalUser(t)
  BY DEF Idle, InternalUser, CheckRoot, CreateRoot, SetRoot, SimpleSkip, EnableQueue, ZeroTrackingLock,
         ZeroTrackingUnlock, RescanQueue, RescanRefused, RescanInit, WaitRead, WaitBlocked,
         ClearEnabled, ClearRoot, FreeLock, FreeDo, PassWindow, Windows, At

\* A step of the restricted replay is the next event, or an unseen step of its
\* thread: whoever might run ahead has nothing to queue or to scan.
LEMMA RestrictedStep ==
    ASSUME NEW t \in UserTasks, NEW u \in UserTasks, OnlyThese(t, u), rule = "restricted",
           NEW x \in {t, u}, NEW event, trace[idx] = E(x, event),
           pc[t] # "queue", pc[u] # "queue", TNext
    PROVE  /\ UNCHANGED <<rule, trace>>
           /\ \/ Observable(x, event) /\ idx' = idx + 1
              \/ InternalUser(x) /\ idx' = idx
<1>1. x \in UserTasks /\ x # Worker
  BY TasksAssumption
<1>2. CASE Event
  <2>1. PICK y \in Tasks, e \in ObservableNames : trace[idx] = [task |-> y, action |-> e] /\ Take(y, e)
    BY <1>2 DEF Event
  <2>2. y = x /\ e = event
    BY <2>1 DEF E
  <2> QED BY <1>1, <1>2, <2>1, <2>2 DEF Event, Take
<1>3. CASE Between
  <2>1. Unseen /\ trace[idx].task = x
    BY <1>3 DEF Between, E
  <2>2. ~Enqueue
    BY DEF Enqueue, EnableQueue, RescanQueue, At, OnlyThese, Tasks
  <2>3. ~WorkerFinish
    BY TasksAssumption
       DEF WorkerFinish, InternalWorker, ScanLock, ScanUnlock, ExitLoop, Finish, At, OnlyThese, Tasks
  <2> QED BY <1>1, <1>3, <2>1, <2>2, <2>3 DEF Unseen, InternalOf, Between
<1> QED BY <1>2, <1>3 DEF TNext

LEMMA RefusedStep ==
    ASSUME TypeOK, NEW t \in UserTasks, NEW u \in UserTasks, t # u, rule = "restricted",
           trace = RefusedByDisable(t, u), OnlyThese(t, u), InRefused(t, u), TNext
    PROVE  OnlyThese(t, u)' /\ InRefused(t, u)'
<1> USE DEF TypeOK, ControlOK, Tasks, OnlyThese, Idle, At, Goto, Enter, Return
<1>0. pc[t] # "queue" /\ pc[u] # "queue"
  BY DEF InRefused, Stages, Walking
<1>1. CASE idx = 1
  <2>1. trace[idx] = E(t, "QuotaEnable_Enter")
    BY <1>1 DEF RefusedByDisable
  <2>2. Idle(t) /\ Idle(u) /\ ~quotaRoot
    BY <1>1 DEF InRefused
  <2>3. QuotaEnableEnter(t) /\ idx' = 2
    BY <1>0, <1>1, <2>1, <2>2, RestrictedStep, IdleStays DEF Observable
  <2> QED BY <2>2, <2>3 DEF QuotaEnableEnter, QuotaCtlEnter, InRefused, quota, work
<1>2. CASE idx = 2
  <2>1. trace[idx] = E(t, "QuotaEnable_Done")
    BY <1>2 DEF RefusedByDisable
  <2>2. /\ op[t] = "enable" /\ Idle(u)
        /\ \/ pc[t] = "check" /\ ~quotaRoot
           \/ pc[t] \in {"create", "zt_enter"}
           \/ pc[t] \in {"setroot", "rescaninit", "done"} /\ OnWithoutScan
    BY <1>2 DEF InRefused
  <2>3. CASE InternalUser(t) /\ idx' = 2
    <3>1. /\ UNCHANGED <<op, workerQueued>>
          /\ \/ pc[t] = "check" /\ pc'[t] = IF quotaRoot THEN "done" ELSE "create"
             \/ pc[t] = "create" /\ pc'[t] = "setroot" /\ OnWithoutScan'
             \/ pc[t] = "setroot" /\ pc'[t] = "rescaninit" /\ UNCHANGED <<flagOn, flagRescan>>
             \/ pc[t] = "rescaninit" /\ pc'[t] = "zt_enter"
             \/ pc[t] = "rescaninit" /\ pc'[t] = "done" /\ UNCHANGED <<flagOn, flagRescan>>
      BY <2>2, <2>3, EnableGoes
    <3> QED BY <2>2, <2>3, <3>1 DEF InRefused, OnWithoutScan
  <2>4. CASE QuotaEnableDone(t) /\ idx' = 3
    BY <2>2, <2>4 DEF QuotaEnableDone, QuotaCtlDone, InRefused, OnWithoutScan, quota, rescan, work
  <2> QED BY <1>0, <1>2, <2>1, <2>3, <2>4, RestrictedStep DEF Observable
<1>3. CASE idx = 3
  <2>1. trace[idx] = E(t, "QuotaDisable_Enter")
    BY <1>3 DEF RefusedByDisable
  <2>2. Idle(t) /\ Idle(u) /\ OnWithoutScan
    BY <1>3 DEF InRefused
  <2>3. QuotaDisableEnter(t) /\ idx' = 4
    BY <1>0, <1>3, <2>1, <2>2, RestrictedStep, IdleStays DEF Observable
  <2> QED BY <2>2, <2>3 DEF QuotaDisableEnter, QuotaCtlEnter, InRefused, OnWithoutScan, quota, rescan, work
<1>4. CASE idx = 4
  <2>1. trace[idx] = E(u, "QgroupRescan_Enter")
    BY <1>4 DEF RefusedByDisable
  <2>2. At(t, {"disable"}, "check") /\ Idle(u) /\ OnWithoutScan
    BY <1>4 DEF InRefused
  <2>3. QgroupRescanEnter(u) /\ idx' = 5
    BY <1>0, <1>4, <2>1, <2>2, RestrictedStep, IdleStays DEF Observable
  <2> QED BY <2>2, <2>3 DEF QgroupRescanEnter, InRefused, OnWithoutScan, quota, rescan, work
<1>5. CASE idx = 5
  <2>1. trace[idx] = E(u, "QgroupRescan_Done")
    BY <1>5 DEF RefusedByDisable
  <2>2. /\ At(t, {"disable"}, "check") /\ op[u] = "rescan"
        /\ \/ pc[u] = "rescaninit" /\ OnWithoutScan
           \/ pc[u] \in {"commit", "zt_enter"}
    BY <1>5 DEF InRefused
  <2>3. InternalUser(u) /\ idx' = 5
    BY <1>0, <1>5, <2>1, <2>2, RestrictedStep DEF Observable, QgroupRescanDone
  <2>4. /\ UNCHANGED <<op, workerQueued>> /\ pc'[t] = pc[t]
        /\ pc'[u] \in {"commit", "zt_enter"}
    BY <2>2, <2>3, RescanGoes
  <2> QED BY <2>2, <2>3, <2>4 DEF InRefused
<1> QED BY <1>1, <1>2, <1>3, <1>4, <1>5 DEF InRefused

LEMMA BegunStep ==
    ASSUME TypeOK, NEW t \in UserTasks, NEW u \in UserTasks, t # u, rule = "restricted",
           trace = BegunByEnable(t, u), OnlyThese(t, u), InBegun(t, u), TNext
    PROVE  OnlyThese(t, u)' /\ InBegun(t, u)'
<1> USE DEF TypeOK, ControlOK, Tasks, OnlyThese, Idle, At, Goto, Enter, Return
<1>0. pc[t] # "queue" /\ pc[u] # "queue"
  BY DEF InBegun, Stages, Walking
<1>1. CASE idx = 1
  <2>1. trace[idx] = E(t, "QuotaEnable_Enter")
    BY <1>1 DEF BegunByEnable
  <2>2. Idle(t) /\ Idle(u) /\ ~flagOn
    BY <1>1 DEF InBegun
  <2>3. QuotaEnableEnter(t) /\ idx' = 2
    BY <1>0, <1>1, <2>1, <2>2, RestrictedStep, IdleStays DEF Observable
  <2> QED BY <2>2, <2>3 DEF QuotaEnableEnter, QuotaCtlEnter, InBegun, quota, work
<1>2. CASE idx = 2
  <2>1. trace[idx] = E(u, "QgroupRescan_Enter")
    BY <1>2 DEF BegunByEnable
  <2>2. At(t, {"enable"}, "check") /\ Idle(u) /\ ~flagOn
    BY <1>2 DEF InBegun
  <2>3. QgroupRescanEnter(u) /\ idx' = 3
    BY <1>0, <1>2, <2>1, <2>2, RestrictedStep, IdleStays DEF Observable
  <2> QED BY <2>2, <2>3 DEF QgroupRescanEnter, InBegun, quota, work
<1>3. CASE idx = 3
  <2>1. trace[idx] = E(u, "RescanZeroTracking_Enter")
    BY <1>3 DEF BegunByEnable
  <2>2. /\ At(t, {"enable"}, "check") /\ op[u] = "rescan"
        /\ pc[u] \in {"rescaninit", "done"} /\ ~flagOn
    BY <1>3 DEF InBegun
  <2>3. InternalUser(u) /\ idx' = 3
    BY <1>0, <1>3, <2>1, <2>2, RestrictedStep DEF Observable, ZeroTrackingEnter
  <2>4. /\ UNCHANGED <<op, workerQueued, flagOn>> /\ pc'[t] = pc[t]
        /\ pc'[u] = "done"
    BY <2>2, <2>3, RescanGoes DEF OnWithoutScan
  <2> QED BY <2>2, <2>3, <2>4 DEF InBegun
<1> QED BY <1>1, <1>2, <1>3 DEF InBegun

\* With any number of threads the restricted replay gets to the end of neither
\* trace, although the life cycle has both: in the first the rescan is refused
\* because the disable has got past a step that the replay does not let it take
\* yet, in the second it begins because the enable has.
THEOREM LostTracesAreRejected == TSpec => []LostTracesDiverge
<1>1. TInit => LostInv
  BY DEF TInit, Init, LostInv, OnlyThese, Idle, InRefused, InBegun, Tasks
<1>2. TypeOK /\ LostInv /\ [TNext]_replayVars => LostInv'
  <2> SUFFICES ASSUME TypeOK, LostInv, [TNext]_replayVars,
                      NEW t \in UserTasks, NEW u \in UserTasks, t # u, rule' = "restricted"
               PROVE  /\ trace' = RefusedByDisable(t, u) => OnlyThese(t, u)' /\ InRefused(t, u)'
                      /\ trace' = BegunByEnable(t, u) => OnlyThese(t, u)' /\ InBegun(t, u)'
    BY DEF LostInv, RefusedByDisable, BegunByEnable, E
  <2>1. UNCHANGED <<rule, trace>>
    BY DEF TNext, Event, Between, replayVars
  <2>2. CASE UNCHANGED replayVars
    BY <2>1, <2>2 DEF LostInv, replayVars, vars, quota, rescan, work, OnlyThese, Idle, InRefused,
                      InBegun, OnWithoutScan, At
  <2>3. CASE TNext
    BY <2>1, <2>3, RefusedStep, BegunStep DEF LostInv
  <2> QED BY <2>2, <2>3
<1>3. LostInv => LostTracesDiverge
  <2> SUFFICES ASSUME LostInv, NEW t \in UserTasks, NEW u \in UserTasks, t # u,
                      rule = "restricted", trace \in Lost(t, u)
               PROVE  ~Accepted
    BY DEF LostTracesDiverge
  <2>1. CASE trace = RefusedByDisable(t, u)
    <3>1. Len(trace) = 8 /\ idx \in 1..5
      BY <2>1 DEF LostInv, InRefused, RefusedByDisable
    <3> QED BY <3>1 DEF Accepted, End
  <2>2. CASE trace = BegunByEnable(t, u)
    <3>1. Len(trace) = 6 /\ idx \in 1..3
      BY <2>2 DEF LostInv, InBegun, BegunByEnable
    <3> QED BY <3>1 DEF Accepted, End
  <2> QED BY <2>1, <2>2 DEF Lost
<1>4. TSpec => []TypeOK
  BY ReplayIsLifecycle, TypeCorrect, PTL
<1> QED BY <1>1, <1>2, <1>3, <1>4, PTL DEF TSpec
===============================================================================
