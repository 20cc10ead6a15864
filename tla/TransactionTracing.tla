-------------------------- MODULE TransactionTracing --------------------------
(***************************************************************************)
(* The chained transactions under btrfs_transaction_chain.bt, and          *)
(* TransactionChainChecker reading the trace.  A probe and the step of the *)
(* kernel it sits on are one step here.  The tracer may be there from the  *)
(* start ("cold"), attach at any moment, and stop at any moment.           *)
(*                                                                         *)
(* The committer is a kernel thread that starts no transaction: its        *)
(* CommitTransaction_Done takes nothing off the checker's sets.  Nobody    *)
(* aborts a transaction, and the script has no such event.                 *)
(***************************************************************************)
EXTENDS TransactionChain

VARIABLES
    tracer,             \* "off", "cold", "attached" or "stopped"
    timed,              \* the script's @waiting: the waits it saw begin
    active_tx_tids,     \* who started a transaction and did not end it
    waiting_tids,       \* who is in wait_current_trans
    overdue,            \* who has been there for DEADLOCK_THRESHOLD_US
    alarms,             \* what the checker has reported
    nested,             \* who started a second time, inside
    uncovered,          \* whose inner end the checker took for the end
    handles             \* how the script reads a handle: as a "positive" or
                        \* a "negative" number

nesting == <<nested, uncovered>>
checker == <<timed, active_tx_tids, waiting_tids, alarms>>
traced  == <<vars, tracer, checker, overdue, nesting, handles>>

Circular == [rule |-> "circular"]
Late(w)  == [rule |-> "late", tid |-> w]

TracedInit ==
    /\ Init
    /\ tracer \in {"off", "cold"}
    /\ timed = {} /\ active_tx_tids = {} /\ waiting_tids = {}
    /\ overdue = {} /\ alarms = {} /\ nested = {} /\ uncovered = {}
    /\ handles \in {"positive", "negative"}

-----------------------------------------------------------------------------
(* What the script and the checker do at an event of thread w.             *)

\* The script takes a negative handle for an error number, and kernel addresses
\* of 64 bits are negative where the upper half is the kernel's (x86_64); of
\* errors the checker takes no note.
StartTransaction_Done(w) ==
    /\ active_tx_tids' =
          IF handles = "positive" THEN active_tx_tids \cup {w} ELSE active_tx_tids
    /\ UNCHANGED <<timed, waiting_tids, alarms>>

\* Mutant: only a commit ends a transaction, as for the committer's own.
EndTransactionMissed(w) == UNCHANGED checker

EndTransaction(w) ==
    /\ active_tx_tids' = active_tx_tids \ {w}
    /\ UNCHANGED <<timed, waiting_tids, alarms>>

\* Mutant: no thread with an open transaction runs, or there is none.
AllWaitVacuous == active_tx_tids \subseteq waiting_tids'

\* There are threads with an open transaction, and all of them wait.
AllWait == active_tx_tids # {} /\ active_tx_tids \subseteq waiting_tids'

WaitCurrentTrans_Enter(w) ==
    /\ timed' = timed \cup {w}
    /\ waiting_tids' = waiting_tids \cup {w}
    /\ alarms' = alarms \cup (IF AllWait THEN {Circular} ELSE {})
    /\ UNCHANGED active_tx_tids

\* Mutant: the wait's start is deleted before its length is taken.
WaitCurrentTrans_DoneUntimed(w) ==
    /\ timed' = timed \ {w}
    /\ waiting_tids' = waiting_tids \ {w}
    /\ UNCHANGED <<active_tx_tids, alarms>>

\* Printed with the length of the wait, if the script saw it begin.
WaitCurrentTrans_Done(w) ==
    /\ timed' = timed \ {w}
    /\ waiting_tids' = IF w \in timed THEN waiting_tids \ {w} ELSE waiting_tids
    /\ alarms' = alarms \cup {Late(v) : v \in {w} \cap timed \cap overdue}
    /\ UNCHANGED active_tx_tids

-----------------------------------------------------------------------------

Attached == tracer \in {"cold", "attached"}

\* A step of the kernel, with its event if somebody listens.
Observed(event) ==
    /\ IF Attached THEN event ELSE UNCHANGED checker
    /\ UNCHANGED <<tracer, overdue>>

TracedWriter(w) ==
    /\ \/ WriterTryJoin(w) /\ Observed(UNCHANGED checker)
       \/ WriterJoinSuccess(w) /\ Observed(StartTransaction_Done(w))
       \/ WriterBlocked(w) /\ Observed(WaitCurrentTrans_Enter(w))
       \/ WriterReset(w) /\ Observed(UNCHANGED checker)
    /\ UNCHANGED nesting

TracedDone(w) ==
    /\ w \notin nested
    /\ WriterDone(w) /\ Observed(EndTransaction(w))
    /\ uncovered' = uncovered \ {w} /\ UNCHANGED nested

\* A start inside a start gets the thread's own transaction at once; its end
\* prints the event of any other end.
Nest(w) ==
    /\ writer_state[w] = "Active" /\ w \notin nested
    /\ Observed(StartTransaction_Done(w))
    /\ nested' = nested \cup {w}
    /\ uncovered' = IF Attached THEN uncovered \ {w} ELSE uncovered
    /\ UNCHANGED vars

Unnest(w) ==
    /\ w \in nested
    /\ Observed(EndTransaction(w))
    /\ nested' = nested \ {w}
    /\ uncovered' = IF Attached THEN uncovered \cup {w} ELSE uncovered
    /\ UNCHANGED vars

TracedWoken(w) ==
    /\ WriterWoken(w)
    /\ IF Attached THEN WaitCurrentTrans_Done(w) ELSE UNCHANGED checker
    /\ overdue' = overdue \ {w}
    /\ UNCHANGED <<tracer, nesting>>

TracedCommitter == CommitterNext /\ Observed(UNCHANGED checker) /\ UNCHANGED nesting

\* Thirty seconds of the traced time go by in a wait.
Threshold(w) ==
    /\ writer_state[w] = "Blocked" /\ tracer # "stopped"
    /\ overdue' = overdue \cup {w}
    /\ UNCHANGED <<vars, tracer, checker, nesting>>

Attach ==
    /\ tracer = "off"
    /\ tracer' = "attached"
    /\ UNCHANGED <<vars, checker, overdue, nesting>>

Stop ==
    /\ Attached
    /\ tracer' = "stopped"
    /\ UNCHANGED <<vars, checker, overdue, nesting>>

TracedNext ==
    /\ \/ \E w \in Writers : \/ TracedWriter(w) \/ TracedDone(w) \/ TracedWoken(w)
                              \/ Nest(w) \/ Unnest(w) \/ Threshold(w)
       \/ TracedCommitter \/ Attach \/ Stop
    /\ UNCHANGED handles

TracedSpec == TracedInit /\ [][TracedNext]_traced

TracedFairSpec == TracedSpec /\ Fairness

-----------------------------------------------------------------------------
(* Properties.                                                             *)

In(state) == {w \in Writers : writer_state[w] = state}

\* While it listens, what the checker takes for open transactions and for
\* waits are that, and with a cold start they are all there are, but for the
\* threads that ended a start inside theirs - or none at all, where handles read
\* as negative numbers; the script and the checker agree on who waits.
ViewIsOpen ==
    /\ timed = waiting_tids
    /\ Attached => active_tx_tids \subseteq In("Active") /\ waiting_tids \subseteq In("Blocked")
    /\ tracer = "cold" => waiting_tids = In("Blocked")
    /\ tracer = "cold" /\ handles = "positive" => active_tx_tids = In("Active") \ uncovered
    /\ handles = "negative" => active_tx_tids = {}

\* A thread waits before it has a transaction, never with one: in chained
\* transactions no circular wait exists, and none is reported, not even on the
\* smaller set that inner ends leave to the checker.
NoFalseCircle == Circular \notin alarms

\* A wait that was too long and that the script saw begin is reported,
\* unless the trace ends first.
LateIsReported ==
    \A w \in Writers :
        Attached /\ w \in overdue \cap timed ~> Late(w) \in alarms \/ tracer = "stopped"

\* A late wait is reported in the very step in which it ends, and no other wait
\* ever is; until then it stays due.
LateWhenItEnds ==
    [][\A w \in Writers :
          /\ Late(w) \in alarms' \ alarms =>
                w \in overdue \cap timed /\ writer_state[w] = "Blocked" /\ writer_state'[w] # "Blocked"
          /\ Attached /\ w \in overdue \cap timed =>
                w \in overdue' \cap timed' \/ Late(w) \in alarms']_traced

\* The checker "detect[s] threads that have been blocked in
\* wait_current_trans for longer than a configurable timeout", the ones that
\* are blocked when the trace ends among them.
StuckIsReported ==
    tracer = "stopped" => \A w \in overdue \cap timed : Late(w) \in alarms
=============================================================================
