-------------------------- MODULE TransactionStress --------------------------
(***************************************************************************)
(* The transaction-chain workload: writers that leave ordered extents in   *)
(* flight, threads whose calls join the running transaction, and two that  *)
(* sync.  A commit first waits for the ordered extents that were in flight *)
(* when it began; finishing one of them needs a join.  The faulty kernel   *)
(* lets such a join wait for the commit.  The workload describes the fix   *)
(* as a join that returns -EBUSY and is tried again; as long as the commit *)
(* waits for the extent, that worker gets in no sooner than one that       *)
(* waits.  The fix here is the one the chain's model in src/models has: a  *)
(* join enters a transaction in COMMIT_START.                              *)
(***************************************************************************)
EXTENDS StressRun

CONSTANTS
    ChainThreads,   \* --threads
    MaxExtents      \* bound: ordered extents in flight

ASSUME ChainAssumption == ChainThreads \in Nat /\ MaxExtents \in Nat

VARIABLES
    fixedJoin,      \* the kernel lets a join in while a commit starts
    tx,             \* "RUNNING", "COMMIT_START" or "COMMIT_DOING"
    unawaited,      \* ordered extents that no commit waits for
    awaited         \* those the commit waits for

chainVars == <<fixedJoin, tx, unawaited, awaited>>

Quarter == ChainThreads \div 4
CommitTriggers == 2

ChainTeam ==
    [i \in 1..(3 * Quarter + CommitTriggers) |->
        IF i <= Quarter THEN "large" ELSE IF i <= 2 * Quarter THEN "xattr"
        ELSE IF i <= 3 * Quarter THEN "fallocate" ELSE "commit"]

ChainStart ==
    /\ fixedJoin \in BOOLEAN /\ tx = "RUNNING"
    /\ unawaited = 0 /\ awaited = 0

-----------------------------------------------------------------------------
(* The kernel.                                                             *)


JoinableNow == tx = "RUNNING" \/ (fixedJoin /\ tx = "COMMIT_START")

FinishUnawaited ==
    /\ JoinableNow /\ unawaited > 0
    /\ unawaited' = unawaited - 1
    /\ UNCHANGED <<fixedJoin, tx, awaited, runVars>>

FinishAwaited ==
    /\ JoinableNow /\ awaited > 0
    /\ awaited' = awaited - 1
    /\ UNCHANGED <<fixedJoin, tx, unawaited, runVars>>

FinishOrdered == FinishUnawaited \/ FinishAwaited

CommitProceeds ==
    /\ \/ tx = "COMMIT_START" /\ awaited = 0 /\ tx' = "COMMIT_DOING" /\ UNCHANGED pc
       \/ /\ tx = "COMMIT_DOING" /\ tx' = "RUNNING"
          /\ pc' = [t \in Members |-> IF pc[t] = "waiting" THEN "synced" ELSE pc[t]]
    /\ UNCHANGED <<fixedJoin, unawaited, awaited, threadOnly, counters, rounds>>

-----------------------------------------------------------------------------
(* The threads.  A call that joins returns when the transaction can be     *)
(* joined; it may fail at once.                                            *)

Large(t) ==
    \/ /\ Succeed(t, "write", "large_writes") \/ Move(t, "write", "loop")
       /\ \/ unawaited + awaited < MaxExtents /\ unawaited' = unawaited + 1
          \/ UNCHANGED unawaited
       /\ UNCHANGED <<fixedJoin, tx, awaited>>
    \/ (Prepare(t) \/ Round(t, "write") \/ Count(t, "trim") \/ Move(t, "trim", "loop")
        \/ Leave(t)) /\ UNCHANGED chainVars
    \/ Move(t, "trim", "unlink") /\ UNCHANGED chainVars
    \/ JoinableNow /\ Move(t, "unlink", "loop") /\ UNCHANGED chainVars

Xattr(t) ==
    /\ \/ Prepare(t) \/ Round(t, "join") \/ Move(t, "join", "loop") \/ Count(t, "loop")
       \/ (JoinableNow /\ Succeed(t, "join", "xattrs")) \/ Leave(t)
    /\ UNCHANGED chainVars

\* The result of the call is not looked at: one that fails at once is counted.
Fallocate(t) ==
    /\ \/ Prepare(t) \/ Round(t, "join") \/ Move(t, "join", "loop") \/ Count(t, "loop")
       \/ Succeed(t, "join", "fallocates") \/ Leave(t)
    /\ UNCHANGED chainVars

\* sync() starts a commit, or waits for the one that is under way.
Sync(t) ==
    \/ /\ tx = "RUNNING" /\ Move(t, "sync", "waiting")
       /\ tx' = "COMMIT_START"
       /\ awaited' = unawaited + awaited /\ unawaited' = 0
       /\ UNCHANGED fixedJoin
    \/ tx # "RUNNING" /\ Move(t, "sync", "waiting") /\ UNCHANGED chainVars

Commit(t) ==
    \/ Sync(t)
    \/ (Round(t, "sync") \/ Succeed(t, "synced", "commits") \/ Count(t, "loop") \/ Leave(t)) /\ UNCHANGED chainVars

ChainThread(t) ==
    CASE threads[t] = "large" -> Large(t) [] threads[t] = "xattr" -> Xattr(t)
      [] threads[t] = "fallocate" -> Fallocate(t) [] OTHER -> Commit(t)

ChainMain == Main /\ UNCHANGED chainVars

ChainNext ==
    \/ ChainMain \/ FinishOrdered \/ CommitProceeds
    \/ \E t \in Members : ChainThread(t)

-----------------------------------------------------------------------------
(* Properties.                                                             *)

ChainTypeOK ==
    /\ fixedJoin \in BOOLEAN /\ tx \in {"RUNNING", "COMMIT_START", "COMMIT_DOING"}
    /\ unawaited \in Nat /\ awaited \in Nat
    /\ unawaited + awaited <= MaxExtents

SyncWaits(t) == workload = "chain" /\ fixedJoin /\ pc[t] = "waiting"

\* The faulty kernel's deadlock: the commit waits for ordered extents, and the
\* join that would finish them waits for the commit.
Deadlocked == ~fixedJoin /\ tx = "COMMIT_START" /\ awaited > 0

\* Nobody waits in sync() without a commit under way, and the kernel can take it
\* further unless it is deadlocked.
SyncsAreServed ==
    workload = "chain" /\ (\E t \in Members : pc[t] = "waiting") =>
        \/ tx = "COMMIT_DOING" \/ (tx = "COMMIT_START" /\ (awaited = 0 \/ JoinableNow))
        \/ Deadlocked

\* Once it is, neither the threads nor the kernel get out of it, and who waits
\* in sync() never returns.
DeadlockIsForEver ==
    [][workload = "chain" /\ Deadlocked =>
          /\ Deadlocked'
          /\ \A t \in Members : pc[t] = "waiting" => pc'[t] = "waiting"]_<<chainVars, pc>>

=============================================================================
