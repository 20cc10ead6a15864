-------------------------- MODULE QgroupProgramOrder --------------------------
(***************************************************************************)
(* The order in which the qgroup functions of one file system are entered  *)
(* and left, as far as it follows from the program text: what each thread  *)
(* calls inside what, the semaphore that keeps enable and disable apart,   *)
(* the quiet that an unmount needs, and a worker that somebody has queued. *)
(* The lock and flag games of the life cycle are left out, so every trace  *)
(* of the life cycle is in order and not the other way round.              *)
(***************************************************************************)
EXTENDS Naturals, Sequences, SequencesExt

CONSTANT Threads        \* that issue ioctls and unmount

Scanner == "worker"     \* the one work item, whoever executes it

QuotaCtl == {"QuotaEnable", "QuotaDisable"}
Ioctls == QuotaCtl \cup {"QgroupRescan", "WaitRescanCompletion"}
Nested == {<<"QuotaEnable", "RescanZeroTracking">>, <<"QgroupRescan", "RescanZeroTracking">>,
           <<"QuotaDisable", "FreeQgroupConfig">>}

\* The calls each task is in, the outermost first; the threads whose call has
\* made its inner call; scans that may have been queued; the thread whose wait
\* may be that of an unmount.
Quiet(queued) ==
    [open |-> [t \in Threads \cup {Scanner} |-> <<>>], spent |-> {},
     pending |-> queued, closing |-> {}, ok |-> TRUE]

TearingDown(c) == \E t \in c.closing : c.open[t] = <<"FreeQgroupConfig">>

InQuotaCtl(c) == \E t \in Threads : c.open[t] # <<>> /\ Head(c.open[t]) \in QuotaCtl

MayEnter(c, t, call) ==
    \/ /\ t = Scanner /\ call = "RescanWorker"
       /\ c.open[t] = <<>> /\ c.pending > 0
    \/ /\ t \in Threads /\ call \in Ioctls
       /\ c.open[t] = <<>> /\ ~TearingDown(c)
       /\ call \in QuotaCtl => ~InQuotaCtl(c)
    \/ /\ t \in c.closing /\ call = "FreeQgroupConfig"
       /\ c.open[t] = <<>>
    \/ /\ t \in Threads /\ Len(c.open[t]) = 1
       /\ <<c.open[t][1], call>> \in Nested /\ t \notin c.spent

Accepts(c, e) ==
    IF e.at = "Enter" THEN MayEnter(c, e.task, e.call)
    ELSE c.open[e.task] # <<>> /\ Last(c.open[e.task]) = e.call

\* An unmount waits and frees with nobody else in the file system.
Closing(c, e) ==
    IF e.task = Scanner THEN c.closing
    ELSE IF e.at = "Enter" /\ e.call = "WaitRescanCompletion"
    THEN IF \A t \in Threads : c.open[t] = <<>> THEN {e.task} ELSE {}
    ELSE IF c.closing = {e.task} /\ c.open[e.task] \in {<<>>, <<"WaitRescanCompletion">>}
            /\ e.call \in {"WaitRescanCompletion", "FreeQgroupConfig"}
    THEN c.closing
    ELSE {}

\* A call inside a call, and its end, use up what its caller may call.
Spent(c, e) ==
    IF \/ e.at = "Enter" /\ Len(c.open[e.task]) = 1
       \/ e.at # "Enter" /\ Len(c.open[e.task]) = 2
    THEN c.spent \cup {e.task} ELSE c.spent \ {e.task}

After(c, e) ==
    LET t == e.task  enters == e.at = "Enter" IN
    [open |-> [c.open EXCEPT ![t] = IF enters THEN Append(@, e.call) ELSE Front(@)],
     spent |-> Spent(c, e),
     pending |->
        CASE e.call = "RescanZeroTracking" /\ ~enters -> c.pending + 1
          [] e.call = "RescanWorker" /\ enters -> c.pending - 1
          [] e.call = "FreeQgroupConfig" /\ ~enters /\ t \in c.closing -> 0
          [] OTHER -> c.pending,
     closing |-> Closing(c, e),
     ok |-> c.ok]

Follow(c, e) == IF c.ok /\ Accepts(c, e) THEN After(c, e) ELSE [c EXCEPT !.ok = FALSE]

InOrder(events) == FoldLeft(Follow, Quiet(0), events).ok
=============================================================================
