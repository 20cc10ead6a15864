----------------------------- MODULE QgroupReplay -----------------------------
(***************************************************************************)
(* The replay of a trace in the life cycle.  The next event of the trace   *)
(* is taken by the step it stands for; in between, unseen steps are taken. *)
(* To keep the replay small only the task of the next event takes them,    *)
(* and whoever queues the worker, and the worker.  The trace is accepted   *)
(* if some behaviour gets to its end.                                      *)
(*                                                                         *)
(* Two more rules are here to compare with: "full" lets every task take    *)
(* its unseen steps, which is what the life cycle says of the trace, and   *)
(* "free" is the life cycle without a trace, watched as to the order of    *)
(* the calls.                                                              *)
(***************************************************************************)
EXTENDS QgroupLifecycle, Sequences

CONSTANTS
    Traces,         \* sequences of events with their tasks
    MaxEvents       \* bound: events of the free life cycle

ASSUME ReplayAssumption ==
    Traces \subseteq Seq([task : Tasks, action : ObservableNames])

VARIABLES rule, trace, idx, order

replayVars == <<vars, rule, trace, idx, order>>

Order == INSTANCE QgroupProgramOrder WITH Threads <- UserTasks

\* Call and end of an event.
CallOf ==
    [QuotaEnable_Enter |-> <<"QuotaEnable", "Enter">>,
     QuotaEnable_Done |-> <<"QuotaEnable", "Done">>,
     QuotaDisable_Enter |-> <<"QuotaDisable", "Enter">>,
     QuotaDisable_Done |-> <<"QuotaDisable", "Done">>,
     QgroupRescan_Enter |-> <<"QgroupRescan", "Enter">>,
     QgroupRescan_Done |-> <<"QgroupRescan", "Done">>,
     RescanZeroTracking_Enter |-> <<"RescanZeroTracking", "Enter">>,
     RescanZeroTracking_Done |-> <<"RescanZeroTracking", "Done">>,
     WaitRescanCompletion_Enter |-> <<"WaitRescanCompletion", "Enter">>,
     WaitRescanCompletion_Done |-> <<"WaitRescanCompletion", "Done">>,
     FreeQgroupConfig_Enter |-> <<"FreeQgroupConfig", "Enter">>,
     FreeQgroupConfig_Done |-> <<"FreeQgroupConfig", "Done">>,
     RescanWorker_Enter |-> <<"RescanWorker", "Enter">>,
     RescanWorker_Done |-> <<"RescanWorker", "Done">>]

AsCall(t, event) == [task |-> t, call |-> CallOf[event][1], at |-> CallOf[event][2]]

TInit ==
    /\ Init
    /\ rule \in {"free", "full", "restricted"}
    /\ trace \in IF rule = "free" THEN {<<>>} ELSE Traces
    /\ idx = 1 /\ order = Order!Quiet(0)

End == IF rule = "free" THEN MaxEvents ELSE Len(trace)

Take(t, event) ==
    IF t = Worker THEN ObservableWorker(event) ELSE t \in UserTasks /\ Observable(t, event)

Event ==
    /\ idx <= End /\ idx' = idx + 1
    /\ \E t \in Tasks, event \in ObservableNames :
          /\ rule # "free" => trace[idx] = [task |-> t, action |-> event]
          /\ Take(t, event)
          /\ order' = IF rule = "free" THEN Order!Follow(order, AsCall(t, event)) ELSE order
    /\ UNCHANGED <<rule, trace>>

InternalOf(t) == IF t = Worker THEN InternalWorker ELSE InternalUser(t)

\* Steps for others: their effect comes before the event of the task that takes
\* them.
Enqueue == \E t \in UserTasks : EnableQueue(t) \/ RescanQueue(t)
WorkerFinish == InternalWorker

\* Mutant: every task takes its unseen steps at any time.
UnseenOfAll == Internal

Unseen == InternalOf(trace[idx].task) \/ Enqueue \/ WorkerFinish

Between ==
    /\ idx <= End
    /\ IF rule = "restricted" THEN Unseen ELSE Internal
    /\ UNCHANGED <<rule, trace, idx, order>>

TNext == Event \/ Between

TSpec == TInit /\ [][TNext]_replayVars

Accepted == idx > End

-----------------------------------------------------------------------------
(* Two traces of the life cycle, for any two threads.                      *)

E(t, event) == [task |-> t, action |-> event]

\* Quotas are switched on, without a scan.  A rescan is refused because of a
\* disable that has cleared the flag and is on its way to the free.
RefusedByDisable(t, u) ==
    <<E(t, "QuotaEnable_Enter"), E(t, "QuotaEnable_Done"),
      E(t, "QuotaDisable_Enter"), E(u, "QgroupRescan_Enter"), E(u, "QgroupRescan_Done"),
      E(t, "FreeQgroupConfig_Enter"), E(t, "FreeQgroupConfig_Done"), E(t, "QuotaDisable_Done")>>

\* A rescan begins because of an enable that has set the flag and not returned.
BegunByEnable(t, u) ==
    <<E(t, "QuotaEnable_Enter"), E(u, "QgroupRescan_Enter"), E(u, "RescanZeroTracking_Enter"),
      E(u, "RescanZeroTracking_Done"), E(u, "QgroupRescan_Done"), E(t, "QuotaEnable_Done")>>

Lost(t, u) == {RefusedByDisable(t, u), BegunByEnable(t, u)}

-----------------------------------------------------------------------------
(* Properties.                                                             *)

\* Whatever the life cycle does, its events are in program order.
EventsAreInOrder == order.ok

\* The restriction is not sound: these traces of the life cycle diverge in the
\* restricted replay.  The task of their next event needs an unseen step of
\* another task, whose own next event comes later.
LostTracesDiverge ==
    \A t, u \in UserTasks :
        t # u /\ rule = "restricted" /\ trace \in Lost(t, u) => ~Accepted
=============================================================================
