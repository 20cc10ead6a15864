--------------------------- MODULE StressWorkloads ---------------------------
(***************************************************************************)
(* The five Python workloads.  A run of the harness starts one of them.    *)
(***************************************************************************)
EXTENDS SnapshotStress, SpaceStress, ExtentBufferStress, TransactionStress, FsyncStress

vars == <<runVars, snapVars, spaceVars, bufferVars, chainVars, fsyncVars>>

RunsOne(name) ==
    CASE name = "snapshot" ->
            RunInit(name, SnapTeam, {"writes", "snapshots", "violations"})
      [] name = "space" ->
            RunInit(name, SpaceTeam,
                    {"creates", "xattrs", "renames", "links", "deletes", "enospc"})
      [] name = "extent_buffer" -> RunInit(name, BufferTeam, {})
      [] name = "chain" ->
            RunInit(name, ChainTeam, {"large_writes", "xattrs", "commits", "fallocates"})
      [] name = "fsync" -> RunInit(name, FsyncTeam, {"fsyncs", "writes", "resets"})

\* The choices of a workload that does not run are fixed, they matter to nobody.
Init ==
    /\ \E name \in Workloads : RunsOne(name)
    /\ SnapStart /\ SpaceStart /\ BufferStart /\ ChainStart /\ FsyncStart
    /\ workload # "snapshot" => atomic
    /\ workload # "space" => used = CHOOSE u \in UsedBefore : TRUE
    /\ workload # "chain" => fixedJoin
    /\ workload # "fsync" => lockedLog

Next ==
    \/ workload = "snapshot" /\ SnapNext
       /\ UNCHANGED <<spaceVars, bufferVars, chainVars, fsyncVars>>
    \/ workload = "space" /\ SpaceNext
       /\ UNCHANGED <<snapVars, bufferVars, chainVars, fsyncVars>>
    \/ workload = "extent_buffer" /\ BufferNext
       /\ UNCHANGED <<snapVars, spaceVars, chainVars, fsyncVars>>
    \/ workload = "chain" /\ ChainNext
       /\ UNCHANGED <<snapVars, spaceVars, bufferVars, fsyncVars>>
    \/ workload = "fsync" /\ FsyncNext
       /\ UNCHANGED <<snapVars, spaceVars, bufferVars, chainVars>>

Spec == Init /\ [][Next]_vars

Others == <<snapVars, spaceVars, bufferVars, chainVars, fsyncVars>>

InKernel(action) ==
    workload = "chain" /\ action /\ UNCHANGED <<snapVars, spaceVars, bufferVars, fsyncVars>>

\* Main goes on once it has set the event.  The kernel finishes the extents a
\* commit waits for and takes the commit further; of the extents that no commit
\* waits for it need not finish any.  Nothing is asked of the threads: any call
\* may hang.
Fairness ==
    /\ WF_vars((Join \/ Report) /\ UNCHANGED Others)
    /\ WF_vars(InKernel(FinishAwaited)) /\ WF_vars(InKernel(CommitProceeds))

FairSpec == Spec /\ Fairness

\* Each variable has its type, in whichever workload runs: threads, counters,
\* directories, extents and snapshots.
StressTypeOK ==
    RunTypeOK /\ SnapTypeOK /\ SpaceTypeOK /\ BufferTypeOK /\ ChainTypeOK /\ FsyncTypeOK
=============================================================================
