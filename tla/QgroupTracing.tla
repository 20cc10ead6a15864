---------------------------- MODULE QgroupTracing ----------------------------
(***************************************************************************)
(* The qgroup life cycle under observation.  The bpftrace script prints    *)
(* one event at the entry and the return of each traced function, and      *)
(* keeps a rescan counter of its own; the checker reads the events and     *)
(* looks for a free that overlaps a rescan.  Both see the observable steps *)
(* only, in the order the kernel takes them (a lossless, sorted trace).    *)
(* The counter is a plain map entry: a probe reads it and stores it in     *)
(* steps of its own, and the probes of other threads run in between.       *)
(*                                                                         *)
(* The list of violations is abstracted to the verdict and, for the rule   *)
(* the tools exist for, to the frees in progress that were reported.       *)
(***************************************************************************)
EXTENDS QgroupLifecycle, Integers

VARIABLES
    rescanCount,    \* script: @rescan_count, one for all file systems
    activeTids,     \* checker: rescan_active_tids
    quotasEnabled,  \* checker: quotas_enabled
    todo,           \* what a thread's probe still has to do
    loaded,         \* the value it is about to store in the counter
    conforming,     \* checker: no violation so far, the exit code
    reported        \* threads whose free in progress the checker reported

script     == <<rescanCount, todo, loaded>>
checker    == <<activeTids, quotasEnabled, conforming, reported>>
tracedVars == <<vars, script, checker>>

TracingTypeOK ==
    /\ rescanCount \in Int
    /\ todo \in [UserTasks -> {"nothing", "raise", "test", "lower", "store", "alarm"}]
    /\ loaded \in [UserTasks -> Int]
    /\ activeTids \subseteq UserTasks
    /\ quotasEnabled \in BOOLEAN
    /\ conforming \in BOOLEAN
    /\ reported \subseteq UserTasks

TracedInit ==
    /\ Init
    /\ rescanCount = 0
    /\ todo = [t \in UserTasks |-> "nothing"] /\ loaded = [t \in UserTasks |-> 0]
    /\ activeTids = {} /\ quotasEnabled = FALSE
    /\ conforming = TRUE /\ reported = {}

-----------------------------------------------------------------------------
(* The bpftrace script.                                                    *)

Idling(t) == todo[t] = "nothing"

\* The event is printed first.  The counter goes up with a rescan ioctl and
\* down with any zero tracking, an enable's included; a refused ioctl never
\* gets to zero tracking.
CountRescans(t, event) ==
    /\ Idling(t)
    /\ todo' = [todo EXCEPT ![t] =
            CASE event = "QgroupRescan_Enter" -> "raise"
              [] event = "RescanZeroTracking_Done" -> "test"
              [] event = "FreeQgroupConfig_Enter" -> "alarm"
              [] OTHER -> "nothing"]
    /\ UNCHANGED <<rescanCount, loaded>>

\* The rest of the probe, one access of the counter at a time: a count that
\* another thread stores in between is lost, and the counter that was above
\* zero at the test may be zero when it is lowered.
Test(t) ==
    /\ todo[t] = "test"
    /\ todo' = [todo EXCEPT ![t] = IF rescanCount > 0 THEN "lower" ELSE "nothing"]
    /\ UNCHANGED <<rescanCount, loaded, conforming>>

Load(t) ==
    /\ todo[t] \in {"raise", "lower"}
    /\ loaded' = [loaded EXCEPT ![t] =
            IF todo[t] = "raise" THEN rescanCount + 1 ELSE rescanCount - 1]
    /\ todo' = [todo EXCEPT ![t] = "store"]
    /\ UNCHANGED <<rescanCount, conforming>>

Store(t) ==
    /\ todo[t] = "store"
    /\ rescanCount' = loaded[t]
    /\ todo' = [todo EXCEPT ![t] = "nothing"]
    /\ loaded' = [loaded EXCEPT ![t] = 0]
    /\ UNCHANGED conforming

\* The inline violation, which the checker takes over.
InlineAlarm(t) ==
    /\ todo[t] = "alarm"
    /\ todo' = [todo EXCEPT ![t] = "nothing"]
    /\ conforming' = (conforming /\ ~(rescanCount > 0))
    /\ UNCHANGED <<rescanCount, loaded>>

-----------------------------------------------------------------------------
(* The checker.                                                            *)

\* The enables of the life cycle do not fail, so their ret is always 0.
TrackQuota(event) ==
    quotasEnabled' =
        CASE event = "QuotaEnable_Done" -> TRUE
          [] event = "QuotaDisable_Done" -> FALSE
          [] OTHER -> quotasEnabled

\* Mutants: a rescan ends at its zero tracking; it ends where that starts.
TrackUntilZeroed(t, event) ==
    activeTids' =
        CASE event \in {"QgroupRescan_Enter", "RescanZeroTracking_Enter"} ->
                activeTids \cup {t}
          [] event = "RescanZeroTracking_Done" -> activeTids \ {t}
          [] OTHER -> activeTids

TrackToCommit(t, event) ==
    activeTids' =
        CASE event = "QgroupRescan_Enter" -> activeTids \cup {t}
          [] event \in {"QgroupRescan_Done", "RescanZeroTracking_Enter",
                        "RescanZeroTracking_Done"} -> activeTids \ {t}
          [] OTHER -> activeTids

TrackRescans(t, event) ==
    activeTids' =
        CASE event \in {"QgroupRescan_Enter", "RescanZeroTracking_Enter"} ->
                activeTids \cup {t}
          [] event \in {"QgroupRescan_Done", "RescanZeroTracking_Done"} ->
                activeTids \ {t}
          [] OTHER -> activeTids

DisabledAlarm(event) == event = "QgroupRescan_Enter" /\ ~quotasEnabled

UafAlarm(event) == event = "FreeQgroupConfig_Enter" /\ activeTids # {}

Checker(t, event) ==
    /\ TrackQuota(event)
    /\ TrackRescans(t, event)
    /\ conforming' = (conforming /\ ~DisabledAlarm(event) /\ ~UafAlarm(event))
    /\ reported' = IF UafAlarm(event) THEN reported \cup {t}
                   ELSE IF event = "FreeQgroupConfig_Done" THEN reported \ {t} ELSE reported

-----------------------------------------------------------------------------
(* Kernel and tools together.  A thread goes on when its probe has ended.  *)
(* The checker has no rule for the worker's two events and the script does *)
(* no more than print them.                                                *)

Traced(t, event) ==
    Observable(t, event) /\ CountRescans(t, event) /\ Checker(t, event)

Disregarded(event) == ObservableWorker(event) /\ UNCHANGED <<script, checker>>

Silent ==
    /\ InternalWorker \/ \E t \in UserTasks : Idling(t) /\ InternalUser(t)
    /\ UNCHANGED <<script, checker>>

Probe(t) ==
    /\ Test(t) \/ Load(t) \/ Store(t) \/ InlineAlarm(t)
    /\ UNCHANGED <<vars, activeTids, quotasEnabled, reported>>

TracedNext ==
    \/ Silent
    \/ \E t \in UserTasks : Probe(t)
    \/ \E event \in ObservableNames :
          (\E t \in UserTasks : Traced(t, event)) \/ Disregarded(event)

TracedSpec == TracedInit /\ [][TracedNext]_tracedVars

-----------------------------------------------------------------------------
(* What the checker gets right.                                            *)

\* rescan_active_tids never holds a thread that is not in an enable or in a
\* rescan ioctl, even if the ioctl was refused half way.
NoStaleTid == \A t \in activeTids : op[t] \in {"enable", "rescan"}

\* On a kernel without the fix: whenever a free is about to pull the tree
\* from under an ioctl that walks it, the checker has reported that free.
IoctlVictimReported ==
    \A t \in UserTasks :
        pc[t] = "free_do" /\ iterating \cap UserTasks # {} => t \in reported

-----------------------------------------------------------------------------
(* What the documentation promises and the tools do not keep.              *)

\* A trace on which NoUAF fails does not conform.
CheckerSeesEveryUAF == uafOccurred => ~conforming
=============================================================================
