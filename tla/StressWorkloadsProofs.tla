------------------------- MODULE StressWorkloadsProofs -------------------------
(***************************************************************************)
(* The workloads, for any number of threads, files, names and rounds.      *)
(***************************************************************************)
EXTENDS StressWorkloads, FiniteSetTheorems, TLAPS

TeamOf(name) ==
    CASE name = "snapshot" -> SnapTeam [] name = "space" -> SpaceTeam
      [] name = "extent_buffer" -> BufferTeam [] name = "chain" -> ChainTeam
      [] name = "fsync" -> FsyncTeam

KeysOf(name) ==
    CASE name = "snapshot" -> {"writes", "snapshots", "violations"}
      [] name = "space" -> {"creates", "xattrs", "renames", "links", "deletes", "enospc"}
      [] name = "extent_buffer" -> {}
      [] name = "chain" -> {"large_writes", "xattrs", "commits", "fallocates"}
      [] name = "fsync" -> {"fsyncs", "writes", "resets"}

\* A thread has read a counter exactly while it is about to store it; nobody is
\* before the threads have started.
RunInv ==
    /\ RunTypeOK
    /\ threads = TeamOf(workload) /\ DOMAIN stats = KeysOf(workload)
    /\ \A t \in Members : loaded[t].key = "none" <=> pc[t] # "count"
    /\ main = "setup" => \A t \in Members : pc[t] = "new"

\* A step that neither begins nor ends the increment of a counter.
Calm ==
    /\ UNCHANGED <<workload, threads, counters>>
    /\ main' \in {"setup", "running", "joining", "reporting", "done", "failed"}
    /\ main' = "setup" => main = "setup" /\ pc' = pc
    /\ stop' \in BOOLEAN /\ rounds' \in 0..MaxRounds[workload]
    /\ pc' \in [Members -> Places]
    /\ \A t \in Members : pc'[t] = "count" <=> pc[t] = "count"

Elsewhere == Places \ {"count"}

Succeeds(t) == \E from \in Elsewhere, key \in DOMAIN stats : Succeed(t, from, key)
Counts(t)   == \E to \in Elsewhere : Count(t, to)

RunStep == Calm \/ \E t \in Members : Succeeds(t) \/ Counts(t) \/ (mixed \in Nat /\ workload = "snapshot" /\ SnapTally(t))

-----------------------------------------------------------------------------
(* The steps that all workloads are made of.                               *)

LEMMA TeamsAreFinite ==
    ASSUME NEW name \in Workloads
    PROVE  IsFiniteSet(DOMAIN TeamOf(name)) /\ "none" \notin KeysOf(name)
<1>1. /\ SnapWriters + 1 \in Int /\ Hammers \in Int /\ BufferThreads \in Int
      /\ 3 * Quarter + CommitTriggers \in Int
      /\ 2 * FsyncThreads + (IF FsyncThreads \div 4 > 1 THEN FsyncThreads \div 4 ELSE 1) \in Int
  BY SnapAssumption, SpaceAssumption, BufferAssumption, ChainAssumption, FsyncAssumption
     DEF SnapAssumption, SpaceAssumption, BufferAssumption, ChainAssumption, FsyncAssumption,
         Quarter, CommitTriggers
<1>2. \E n \in Int : DOMAIN TeamOf(name) = 1..n
  BY <1>1 DEF Workloads, TeamOf, SnapTeam, SpaceTeam, BufferTeam, ChainTeam, FsyncTeam
<1>3. IsFiniteSet(DOMAIN TeamOf(name))
  BY <1>2, FS_Interval
<1> QED BY <1>3 DEF Workloads, KeysOf

LEMMA MoveIsCalm ==
    ASSUME RunInv, NEW t \in Members, NEW from \in Elsewhere, NEW to \in Elsewhere,
           Move(t, from, to)
    PROVE  Calm
BY DEF RunInv, RunTypeOK, Calm, Move, Runs, Goes, threadOnly, counters, Elsewhere, Places

LEMMA RoundIsCalm ==
    ASSUME RunInv, NEW t \in Members, NEW step \in Elsewhere, Round(t, step)
    PROVE  Calm
BY MaxRoundsAssumption
   DEF RunInv, RunTypeOK, Calm, Round, Runs, Goes, threadOnly, counters, Elsewhere, Places, MaxRoundsAssumption

LEMMA LeaveIsCalm ==
    ASSUME RunInv, NEW t \in Members, Leave(t)
    PROVE  Calm
BY DEF RunInv, RunTypeOK, Calm, Leave, Runs, Goes, threadOnly, counters, Places

LEMMA PrepareIsCalm ==
    ASSUME RunInv, NEW t \in Members, Prepare(t)
    PROVE  Calm
BY MoveIsCalm DEF Prepare, Elsewhere, Places

LEMMA MainIsCalm ==
    ASSUME RunInv, Main \/ StopThreads \/ Join \/ Report
    PROVE  Calm
BY DEF RunInv, RunTypeOK, Calm, Main, StartThreads, StopThreads, Join, Report, mainOnly, counters, Places

LEMMA StutterIsCalm ==
    ASSUME RunInv, UNCHANGED runVars
    PROVE  Calm
BY DEF RunInv, RunTypeOK, Calm, runVars, counters

-----------------------------------------------------------------------------
(* Every step of a workload is one of them.                                *)

LEMMA SnapIsRun ==
    ASSUME RunInv, mixed \in Nat, workload = "snapshot", SnapNext
    PROVE  RunStep
<1>1. CASE SnapMain
  BY <1>1, MainIsCalm
     DEF SnapMain, SnapSetup, SnapSetupFails, RunStep, Calm, RunInv, RunTypeOK, Main, mainOnly, counters
<1>2. CASE \E t \in Members : SnapWriter(t)
  <2>1. PICK t \in Members : SnapWriter(t)
    BY <1>2
  <2>2. CASE Round(t, "write") \/ Move(t, "write", "loop") \/ Leave(t) \/ SnapOpen(t)
    BY <2>2, RoundIsCalm, MoveIsCalm, LeaveIsCalm DEF SnapOpen, RunStep, Elsewhere, Places
  <2>3. CASE Count(t, "loop") \/ SnapWritten(t)
    BY <2>3 DEF RunStep, Succeeds, Counts, SnapWritten, RunInv, KeysOf, Elsewhere, Places
  <2> QED BY <2>1, <2>2, <2>3 DEF SnapWriter
<1>3. CASE \E t \in Members : SnapSnapshots(t)
  <2>1. PICK t \in Members : SnapSnapshots(t)
    BY <1>3
  <2>2. CASE Move(t, "create", "loop") \/ Leave(t) \/ SnapBegin(t) \/ SnapCreateTimesOut(t)
             \/ SnapCheck(t) \/ SnapDelete(t) \/ SnapDeleteTimesOut(t)
    BY <2>2, RoundIsCalm, MoveIsCalm, LeaveIsCalm
       DEF SnapBegin, SnapCreateTimesOut, SnapCheck, SnapDelete, SnapDeleteTimesOut,
           RunStep, Elsewhere, Places
  <2>3. CASE Count(t, "check") \/ SnapCreated(t)
    BY <2>3 DEF RunStep, Succeeds, Counts, SnapCreated, RunInv, KeysOf, Elsewhere, Places
  <2>4. CASE SnapTally(t)
    BY <2>4 DEF RunStep
  <2> QED BY <2>1, <2>2, <2>3, <2>4 DEF SnapSnapshots
<1> QED BY <1>1, <1>2, <1>3 DEF SnapNext

LEMMA SpaceIsRun ==
    ASSUME RunInv, workload = "space", SpaceNext
    PROVE  RunStep
<1>1. CASE SpaceMain
  BY <1>1, MainIsCalm, StutterIsCalm DEF SpaceMain, FillChunk, Main, RunStep
<1>2. ASSUME NEW t \in Members, Hammer(t)
      PROVE  RunStep
  <2>1. ASSUME NEW from \in Elsewhere, Fails(t, from)
        PROVE  RunStep
    BY <2>1, MoveIsCalm DEF Fails, RunStep, Succeeds, RunInv, KeysOf, Elsewhere, Places
  <2>2. CASE \/ \E op \in {"create", "xattr", "rename", "link", "delete"} : Round(t, op)
             \/ Move(t, "link", "loop") \/ Leave(t) \/ Prepare(t) \/ HammerOpen(t)
    BY <2>2, RoundIsCalm, MoveIsCalm, LeaveIsCalm, PrepareIsCalm
       DEF HammerOpen, RunStep, Elsewhere, Places
  <2>3. CASE Count(t, "loop") \/ HammerXattr(t) \/ HammerRename(t) \/ HammerLink(t)
    BY <2>3 DEF HammerXattr, HammerRename, HammerLink, RunStep, Succeeds, Counts, RunInv, KeysOf,
                Elsewhere, Places
  <2>4. CASE HammerWrite(t) \/ HammerDelete(t)
    <3>1. Fails(t, "write") \/ Fails(t, "delete") \/ Succeed(t, "write", "creates")
          \/ Succeed(t, "delete", "deletes")
      BY <2>4 DEF HammerWrite, HammerDelete
    <3> QED BY <3>1, <2>1 DEF RunStep, Succeeds, RunInv, KeysOf, Elsewhere, Places
  <2>5. CASE \E op \in {"create", "xattr", "rename"} : Fails(t, op)
    BY <2>5, <2>1 DEF Elsewhere, Places
  <2> QED BY <1>2, <2>2, <2>3, <2>4, <2>5 DEF Hammer
<1> QED BY <1>1, <1>2 DEF SpaceNext

LEMMA BufferIsRun ==
    ASSUME RunInv, workload = "extent_buffer", BufferNext
    PROVE  RunStep
<1>1. CASE Main
  BY <1>1, MainIsCalm DEF RunStep
<1>2. ASSUME NEW t \in Members, BufferWriter(t)
      PROVE  RunStep
  BY <1>2, PrepareIsCalm, RoundIsCalm, LeaveIsCalm, MoveIsCalm
     DEF BufferWriter, BufferCreate, BufferRename, BufferTrim, RunStep, Elsewhere, Places
<1>3. ASSUME NEW t \in Members, BufferReader(t) \/ BufferTruncate(t)
      PROVE  RunStep
  BY <1>3, RoundIsCalm, LeaveIsCalm, MoveIsCalm
     DEF BufferReader, BufferTruncate, RunStep, Elsewhere, Places
<1> QED BY <1>1, <1>2, <1>3 DEF BufferNext

LEMMA ChainIsRun ==
    ASSUME RunInv, workload = "chain", ChainNext
    PROVE  RunStep
<1>1. CASE ChainMain \/ FinishOrdered
  BY <1>1, MainIsCalm, StutterIsCalm DEF ChainMain, FinishOrdered, FinishUnawaited, FinishAwaited, RunStep
<1>2. CASE CommitProceeds
  BY <1>2 DEF CommitProceeds, RunStep, Calm, RunInv, RunTypeOK, threadOnly, counters, Places
<1>3. ASSUME NEW t \in Members, ChainThread(t)
      PROVE  RunStep
  <2>1. CASE \/ \E step \in {"write", "join", "sync"} : Round(t, step)
             \/ \E from, to \in Elsewhere : Move(t, from, to)
             \/ Prepare(t) \/ Leave(t)
    BY <2>1, RoundIsCalm, MoveIsCalm, LeaveIsCalm, PrepareIsCalm DEF RunStep, Elsewhere, Places
  <2>2. CASE \/ Count(t, "loop") \/ Count(t, "trim") \/ Succeed(t, "write", "large_writes")
             \/ Succeed(t, "join", "xattrs") \/ Succeed(t, "join", "fallocates")
             \/ Succeed(t, "synced", "commits")
    BY <2>2 DEF RunStep, Succeeds, Counts, RunInv, KeysOf, Elsewhere, Places
  <2>3. Large(t) \/ Xattr(t) \/ Fallocate(t) \/ Commit(t)
    BY <1>3 DEF ChainThread
  <2> QED BY <2>1, <2>2, <2>3 DEF Large, Xattr, Fallocate, Commit, Sync, Elsewhere, Places
<1> QED BY <1>1, <1>2, <1>3 DEF ChainNext

LEMMA FsyncIsRun ==
    ASSUME RunInv, workload = "fsync", FsyncNext
    PROVE  RunStep
<1>1. CASE FsyncMain \/ Attach \/ DropExtentsFails
  BY <1>1, MainIsCalm, StutterIsCalm
     DEF FsyncMain, SetupFiles, Main, Attach, DropExtentsFails, RunStep
<1>2. ASSUME NEW t \in Members, FsyncThread(t)
      PROVE  RunStep
  <2>1. CASE LogOneExtent(t)
    BY <2>1, StutterIsCalm DEF LogOneExtent, RunStep
  <2>2. CASE \/ \E step \in {"fsync", "write", "truncate"} : Draw(t, step) \/ OpenFails(t, step)
             \/ FsyncEnter(t) \/ Leave(t) \/ Move(t, "truncate", "fallocate")
             \/ Move(t, "fallocate", "fsync")
    BY <2>2, RoundIsCalm, MoveIsCalm, LeaveIsCalm
       DEF Draw, OpenFails, FsyncEnter, RunStep, Elsewhere, Places
  <2>3. CASE Count(t, "loop") \/ Succeed(t, "write", "writes")
    BY <2>3 DEF RunStep, Succeeds, Counts, RunInv, KeysOf, Elsewhere, Places
  <2>4. CASE FsyncDone(t, "fsyncs") \/ FsyncDone(t, "resets")
    BY <2>4, MoveIsCalm DEF FsyncDone, RunStep, Succeeds, RunInv, KeysOf, Elsewhere, Places
  <2>5. fsync_thread(t) \/ writer_thread(t) \/ resetter_thread(t)
    BY <1>2 DEF FsyncThread
  <2> QED BY <2>1, <2>2, <2>3, <2>4, <2>5 DEF fsync_thread, writer_thread, resetter_thread
<1> QED BY <1>1, <1>2 DEF FsyncNext

LEMMA NextIsRun ==
    ASSUME RunInv, workload = "snapshot" => mixed \in Nat, Next
    PROVE  RunStep
BY SnapIsRun, SpaceIsRun, BufferIsRun, ChainIsRun, FsyncIsRun DEF Next

LEMMA WorkloadKept ==
    ASSUME RunInv, workload = "snapshot" => mixed \in Nat, [Next]_vars
    PROVE  UNCHANGED <<workload, threads>>
<1>1. CASE Next
  BY <1>1, NextIsRun
     DEF RunStep, Calm, Succeeds, Counts, Succeed, Count, SnapTally, threadOnly
<1>2. CASE UNCHANGED vars
  BY <1>2 DEF vars, runVars
<1> QED BY <1>1, <1>2

-----------------------------------------------------------------------------
(* Counting.                                                               *)

LEMMA StoringFinite ==
    ASSUME RunInv, NEW k \in DOMAIN stats
    PROVE  IsFiniteSet(Storing(k)) /\ Cardinality(Storing(k)) \in Nat
<1>1. IsFiniteSet(Members)
  BY TeamsAreFinite DEF RunInv, RunTypeOK, Members
<1>2. Storing(k) \in SUBSET Members
  BY DEF Storing
<1> QED BY <1>1, <1>2, FS_Subset, FS_CardinalityType

LEMMA RunInvKept ==
    ASSUME RunInv, RunStep
    PROVE  RunInv'
<1> USE DEF RunInv, RunTypeOK, Members
<1>1. CASE Calm
  BY <1>1 DEF Calm, counters
<1>2. ASSUME NEW t \in Members, Succeeds(t)
      PROVE  RunInv'
  <2>1. PICK from \in Elsewhere, key \in DOMAIN stats : Succeed(t, from, key)
    BY <1>2 DEF Succeeds
  <2>2. key # "none"
    BY TeamsAreFinite
  <2> QED BY <2>1, <2>2 DEF Succeed, Runs, Goes, threadOnly, Elsewhere, Places
<1>3. ASSUME NEW t \in Members, Counts(t)
      PROVE  RunInv'
  <2>1. PICK to \in Elsewhere : Count(t, to)
    BY <1>3 DEF Counts
  <2> QED BY <2>1 DEF Count, Runs, Goes, threadOnly, Elsewhere, Places, NothingLoaded
<1>4. ASSUME NEW t \in Members, SnapTally(t), mixed \in Nat, workload = "snapshot"
      PROVE  RunInv'
  BY <1>4 DEF SnapTally, Runs, Goes, threadOnly, Places, KeysOf
<1> QED BY <1>1, <1>2, <1>3, <1>4 DEF RunStep

LEMMA OvercountKept ==
    ASSUME RunInv, RunStep, NeverOvercounts
    PROVE  NeverOvercounts'
<1> USE DEF RunInv, RunTypeOK, Members
<1>1. SUFFICES ASSUME NEW k \in DOMAIN stats
               PROVE  /\ stats'[k] + Cardinality(Storing(k)') <= successes'[k]
                      /\ \A t \in Storing(k)' :
                            loaded'[t].value + Cardinality(Storing(k)') <= successes'[k]
  BY RunInvKept DEF NeverOvercounts, RunStep, Calm, counters, Succeeds, Counts, Succeed, Count, SnapTally
<1> DEFINE n == Cardinality(Storing(k))
<1>2. /\ n \in Nat /\ IsFiniteSet(Storing(k)) /\ stats[k] \in Nat /\ successes[k] \in Nat
      /\ stats[k] + n <= successes[k]
      /\ \A t \in Storing(k) : loaded[t].value \in Nat /\ loaded[t].value + n <= successes[k]
  BY StoringFinite DEF NeverOvercounts, Storing
<1>3. k # "none"
  BY TeamsAreFinite
<1>4. CASE Calm
  <2>1. Storing(k)' = Storing(k)
    BY <1>4 DEF Calm, counters, Storing
  <2> QED BY <2>1, <1>2, <1>4 DEF Calm, counters, Storing
<1>5. ASSUME NEW t \in Members, Succeeds(t)
      PROVE  /\ stats'[k] + Cardinality(Storing(k)') <= successes'[k]
             /\ \A u \in Storing(k)' :
                   loaded'[u].value + Cardinality(Storing(k)') <= successes'[k]
  <2>1. PICK from \in Elsewhere, key \in DOMAIN stats : Succeed(t, from, key)
    BY <1>5 DEF Succeeds
  <2>2. loaded[t].key = "none"
    BY <2>1 DEF Succeed, Runs, Elsewhere
  <2>3. CASE key = k
    <3>1. t \notin Storing(k) /\ Storing(k)' = Storing(k) \cup {t}
      BY <2>1, <2>2, <2>3, <1>3 DEF Succeed, Storing, threadOnly
    <3>2. Cardinality(Storing(k) \cup {t}) = n + 1
      BY <3>1, <1>2, FS_AddElement
    <3>3. stats'[k] = stats[k] /\ successes'[k] = successes[k] + 1
      BY <2>1, <2>3 DEF Succeed
    <3>4. \A u \in Storing(k) : loaded'[u] = loaded[u]
      BY <2>1, <3>1 DEF Succeed, Storing
    <3>5. loaded'[t].value = stats[k]
      BY <2>1, <2>3 DEF Succeed
    <3>6. Cardinality(Storing(k)') = n + 1
      BY <3>1, <3>2
    <3>7. stats'[k] + Cardinality(Storing(k)') <= successes'[k]
      BY <3>3, <3>6, <1>2
    <3>8. ASSUME NEW u \in Storing(k)'
          PROVE  loaded'[u].value + Cardinality(Storing(k)') <= successes'[k]
      <4>1. CASE u = t
        BY <4>1, <3>3, <3>5, <3>6, <1>2
      <4>2. CASE u \in Storing(k)
        BY <4>2, <3>3, <3>4, <3>6, <1>2
      <4> QED BY <3>1, <4>1, <4>2
    <3> QED BY <3>7, <3>8
  <2>4. CASE key # k
    <3>1. Storing(k)' = Storing(k) /\ t \notin Storing(k)
      BY <2>1, <2>2, <2>4, <1>3 DEF Succeed, Storing, threadOnly
    <3>2. stats'[k] = stats[k] /\ successes'[k] = successes[k]
      BY <2>1, <2>4 DEF Succeed
    <3>3. \A u \in Storing(k) : loaded'[u] = loaded[u]
      BY <2>1, <3>1 DEF Succeed, Storing
    <3> QED BY <3>1, <3>2, <3>3, <1>2
  <2> QED BY <2>3, <2>4
<1>6. ASSUME NEW t \in Members, Counts(t)
      PROVE  /\ stats'[k] + Cardinality(Storing(k)') <= successes'[k]
             /\ \A u \in Storing(k)' :
                   loaded'[u].value + Cardinality(Storing(k)') <= successes'[k]
  <2>1. PICK to \in Elsewhere : Count(t, to)
    BY <1>6 DEF Counts
  <2>2. successes'[k] = successes[k]
    BY <2>1 DEF Count
  <2>3. CASE loaded[t].key = k
    <3>1. t \in Storing(k) /\ Storing(k)' = Storing(k) \ {t}
      BY <2>1, <2>3, <1>3 DEF Count, Storing, threadOnly, NothingLoaded
    <3>2. Cardinality(Storing(k)') = n - 1
      BY <3>1, <1>2, FS_RemoveElement
    <3>3. stats'[k] = loaded[t].value + 1
      BY <2>1, <2>3 DEF Count
    <3>4. \A u \in Storing(k)' : u \in Storing(k) /\ loaded'[u] = loaded[u]
      BY <2>1, <3>1 DEF Count, Storing
    <3>5. stats'[k] + Cardinality(Storing(k)') <= successes'[k]
      BY <3>1, <3>2, <3>3, <2>2, <1>2
    <3>6. ASSUME NEW u \in Storing(k)'
          PROVE  loaded'[u].value + Cardinality(Storing(k)') <= successes'[k]
      BY <3>2, <3>4, <2>2, <1>2
    <3> QED BY <3>5, <3>6
  <2>4. CASE loaded[t].key # k
    <3>1. Storing(k)' = Storing(k) /\ t \notin Storing(k)
      BY <2>1, <2>4, <1>3 DEF Count, Storing, threadOnly, NothingLoaded
    <3>2. stats'[k] = stats[k]
      BY <2>1, <2>4 DEF Count
    <3>3. \A u \in Storing(k) : loaded'[u] = loaded[u]
      BY <2>1, <3>1 DEF Count, Storing
    <3> QED BY <3>1, <3>2, <3>3, <2>2, <1>2
  <2> QED BY <2>3, <2>4
<1>7. ASSUME NEW t \in Members, SnapTally(t), mixed \in Nat
      PROVE  /\ stats'[k] + Cardinality(Storing(k)') <= successes'[k]
             /\ \A u \in Storing(k)' :
                   loaded'[u].value + Cardinality(Storing(k)') <= successes'[k]
  <2>1. Storing(k)' = Storing(k) /\ loaded' = loaded
    BY <1>7 DEF SnapTally, Storing, threadOnly
  <2>2. /\ stats'[k] = stats[k] + (IF k = "violations" THEN mixed ELSE 0)
        /\ successes'[k] = successes[k] + (IF k = "violations" THEN mixed ELSE 0)
    BY <1>7 DEF SnapTally
  <2> QED BY <2>1, <2>2, <1>2, <1>7
<1> QED BY <1>4, <1>5, <1>6, <1>7 DEF RunStep

-----------------------------------------------------------------------------
(* The list and the directory of a hammer thread.                          *)

\* A file is being created exactly between the open and the write, under a name
\* that is neither listed nor lost.
SpaceInv ==
    /\ SpaceTypeOK /\ ListMatchesDisk
    /\ \A t \in 1..Hammers : opened[t] \notin files[t] \cup lost[t]
    /\ workload = "space" =>
          \A t \in 1..Hammers : opened[t] = "none" <=> pc[t] # "write"

LEMMA HammerKeeps ==
    ASSUME RunInv, SpaceInv, workload = "space", NEW t \in 1..Hammers, Hammer(t)
    PROVE  SpaceInv'
<1> USE DEF SpaceInv, SpaceTypeOK, ListMatchesDisk
<1>0. /\ pc \in [1..Hammers -> Places] /\ Members = 1..Hammers /\ "none" \notin Names
      /\ Hammers \in Nat
  BY SpaceAssumption DEF RunInv, RunTypeOK, TeamOf, SpaceTeam, Members, SpaceAssumption
<1>1. ASSUME UNCHANGED <<spaceVars, workload>>, main # "setup" /\ main' = main,
             NEW p \in Places \ {"write"}, pc[t] # "write", pc' = [pc EXCEPT ![t] = p]
      PROVE  SpaceInv'
  BY <1>0, <1>1 DEF spaceVars
<1>2. ASSUME NEW from \in Places \ {"write"}, Fails(t, from), UNCHANGED spaceVars
      PROVE  SpaceInv'
  BY <1>1, <1>2 DEF Fails, Move, Succeed, Runs, Goes, threadOnly, Places
<1>3. CASE \E op \in {"create", "xattr", "rename", "link", "delete"} :
              Round(t, op) /\ UNCHANGED spaceVars
  BY <1>1, <1>3 DEF Round, Runs, Goes, threadOnly, Places
<1>4. CASE \E op \in {"create", "xattr", "rename"} : Fails(t, op) /\ UNCHANGED spaceVars
  BY <1>2, <1>4 DEF Places
<1>5. CASE (Move(t, "link", "loop") \/ Count(t, "loop") \/ Leave(t) \/ Prepare(t))
           /\ UNCHANGED spaceVars
  BY <1>1, <1>5 DEF Move, Count, Leave, Prepare, Runs, Goes, threadOnly, Places
<1>6. CASE HammerOpen(t)
  BY <1>0, <1>6 DEF HammerOpen, Fresh, Move, Runs, Goes, threadOnly, fillVars
<1>7. CASE HammerWrite(t)
  <2>1. /\ pc' \in {[pc EXCEPT ![t] = "loop"], [pc EXCEPT ![t] = "count"]}
        /\ pc[t] = "write" /\ main # "setup" /\ UNCHANGED <<workload, main>>
    BY <1>7 DEF HammerWrite, Fails, Move, Succeed, Runs, Goes, threadOnly
  <2>2. opened' = [opened EXCEPT ![t] = "none"] /\ UNCHANGED <<fillVars, onDisk>>
    BY <1>7 DEF HammerWrite
  <2>3. opened[t] \in Names /\ opened[t] # "none"
    BY <1>0, <2>1
  <2>4. CASE files' = [files EXCEPT ![t] = @ \cup {opened[t]}] /\ UNCHANGED lost
    <3>1. SpaceTypeOK'
      BY <2>2, <2>3, <2>4 DEF fillVars
    <3>2. ListMatchesDisk'
      BY <2>2, <2>3, <2>4
    <3> QED BY <3>1, <3>2, <1>0, <2>1, <2>2, <2>4
  <2>5. CASE lost' = [lost EXCEPT ![t] = @ \cup {opened[t]}] /\ UNCHANGED files
    <3>1. SpaceTypeOK'
      BY <2>2, <2>3, <2>5 DEF fillVars
    <3>2. ListMatchesDisk'
      BY <2>2, <2>3, <2>5
    <3> QED BY <3>1, <3>2, <1>0, <2>1, <2>2, <2>5
  <2> QED BY <1>7, <2>4, <2>5 DEF HammerWrite
<1>8. CASE HammerXattr(t)
  BY <1>1, <1>8 DEF HammerXattr, Succeed, Runs, Goes, threadOnly, Places
<1>9. CASE HammerRename(t) \/ HammerLink(t)
  <2>1. /\ pc' = [pc EXCEPT ![t] = "count"]
        /\ pc[t] # "write" /\ main # "setup" /\ UNCHANGED <<workload, main>>
    BY <1>9 DEF HammerRename, HammerLink, Succeed, Runs, Goes, threadOnly
  <2>2. PICK src \in files[t], dst \in Fresh(t) :
           /\ \/ /\ onDisk' = [onDisk EXCEPT ![t] = (@ \ {src}) \cup {dst}]
                 /\ files' = [files EXCEPT ![t] = (@ \ {src}) \cup {dst}]
              \/ /\ onDisk' = [onDisk EXCEPT ![t] = @ \cup {dst}]
                 /\ files' = [files EXCEPT ![t] = @ \cup {dst}]
           /\ UNCHANGED <<fillVars, opened, lost>>
    BY <1>9 DEF HammerRename, HammerLink
  <2>3. dst \in Names /\ dst \notin onDisk[t]
    BY DEF Fresh
  <2>5. SpaceTypeOK'
    BY <1>0, <2>1, <2>2, <2>3 DEF fillVars
  <2>6. ListMatchesDisk'
    BY <1>0, <2>1, <2>2, <2>3 DEF fillVars
  <2> QED BY <2>5, <2>6, <1>0, <2>1, <2>2, <2>3 DEF fillVars
<1>10. CASE HammerDelete(t)
  <2>1. /\ pc' \in {[pc EXCEPT ![t] = "loop"], [pc EXCEPT ![t] = "count"]}
        /\ pc[t] = "delete" /\ main # "setup" /\ UNCHANGED <<workload, main>>
    BY <1>10 DEF HammerDelete, Fails, Move, Succeed, Runs, Goes, threadOnly
  <2>2. PICK n \in files[t] :
           /\ files' = [files EXCEPT ![t] = @ \ {n}]
           /\ \/ onDisk' = [onDisk EXCEPT ![t] = @ \ {n}] /\ UNCHANGED lost
              \/ lost' = [lost EXCEPT ![t] = @ \cup {n}] /\ UNCHANGED onDisk
           /\ UNCHANGED <<fillVars, opened>>
    BY <1>10 DEF HammerDelete
  <2>5. SpaceTypeOK'
    BY <1>0, <2>1, <2>2 DEF fillVars
  <2>6. ListMatchesDisk'
    BY <1>0, <2>1, <2>2 DEF fillVars
  <2> QED BY <2>5, <2>6, <1>0, <2>1, <2>2 DEF fillVars
<1> QED BY <1>3, <1>4, <1>5, <1>6, <1>7, <1>8, <1>9, <1>10 DEF Hammer

LEMMA SpaceInvKept ==
    ASSUME RunInv, workload = "snapshot" => mixed \in Nat, SpaceInv, [Next]_vars
    PROVE  SpaceInv'
<1> USE DEF SpaceInv, SpaceTypeOK, ListMatchesDisk
<1>1. CASE UNCHANGED <<workload, spaceVars>> /\ workload # "space"
  BY <1>1 DEF spaceVars
<1>2. CASE workload = "space" /\ SpaceMain
  <2>1. CASE FillChunk
    <3>1. ToWrite \in Int
      BY SpaceAssumption DEF ToWrite, SpaceAssumption
    <3>2. written < ToWrite => written + ChunkSize \in Nat
      BY <3>1, SpaceAssumption DEF ChunkSize, SpaceAssumption
    <3> QED BY <1>2, <2>1, <3>2 DEF FillChunk, runVars
  <2>2. CASE (StartThreads \/ StopThreads \/ Join \/ Report) /\ UNCHANGED spaceVars
    <3>1. Members = 1..Hammers
      BY <1>2, SpaceAssumption DEF RunInv, TeamOf, SpaceTeam, Members, SpaceAssumption
    <3>2. \A t \in 1..Hammers : pc'[t] = "write" <=> pc[t] = "write"
      BY <2>2, <3>1 DEF RunInv, StartThreads, StopThreads, Join, Report, Preparing
    <3>3. UNCHANGED <<workload, spaceVars>>
      BY <2>2 DEF StartThreads, StopThreads, Join, Report, mainOnly
    <3> QED BY <1>2, <3>2, <3>3 DEF spaceVars
  <2> QED BY <1>2, <2>1, <2>2 DEF SpaceMain
<1>3. CASE workload = "space" /\ \E t \in Members : Hammer(t)
  <2>1. Members = 1..Hammers
    BY <1>3, SpaceAssumption DEF RunInv, TeamOf, SpaceTeam, Members, SpaceAssumption
  <2> QED BY <1>3, <2>1, HammerKeeps
<1>4. CASE UNCHANGED vars
  BY <1>4 DEF vars, runVars, spaceVars
<1>5. CASE Next /\ workload # "space"
  <2>1. UNCHANGED spaceVars
    BY <1>5 DEF Next
  <2> QED BY <1>1, <1>5, <2>1, WorkloadKept
<1> QED BY <1>2, <1>3, <1>4, <1>5 DEF Next, SpaceNext

-----------------------------------------------------------------------------
(* Snapshots.                                                              *)

\* The counter and the last check together say what was found; the name of the
\* snapshot in hand has not been passed.
SnapInv ==
    /\ SnapTypeOK /\ OneUnverified
    /\ workload = "snapshot" =>
          /\ pc[SnapThread] # "tally" => mixed = 0
          /\ foundMixed <=> stats.violations + mixed > 0
          /\ \A t \in Members :
                /\ loaded[t].key # "violations"
                /\ pc[t] = "written" => writing[t].file \in Files /\ writing[t].pattern \in Patterns
          /\ pc[SnapThread] \in {"count", "check"} => SnapExists(snap_n)
          /\ pc[SnapThread] \in {"tally", "delete"} => snap_n \in verified
          /\ atomic =>
                /\ ~foundMixed
                /\ main \notin {"setup", "failed"} => \A f \in Files : content[f] \in Patterns
                /\ \A n \in DOMAIN taken, f \in Files : taken[n][f] \in Patterns

LEMMA SnapFacts ==
    ASSUME RunInv, workload = "snapshot"
    PROVE  /\ SnapThread \in Members /\ Members = 1..(SnapWriters + 1)
           /\ \A t \in Members : threads[t] # "writer" <=> t = SnapThread
           /\ "violations" \in DOMAIN stats /\ stats.violations \in Nat
           /\ pc \in [Members -> Places]
BY SnapAssumption DEF RunInv, RunTypeOK, TeamOf, KeysOf, SnapTeam, Members, SnapThread, SnapAssumption

\* A thread goes from one place to another, and changes no snapshot and no file.
LEMMA SnapGoes ==
    ASSUME RunInv, SnapInv, workload = "snapshot", UNCHANGED <<workload, threads, main, snapVars>>,
           stats'.violations = stats.violations, main # "setup",
           \A t \in Members : loaded'[t].key \in {loaded[t].key} \cup {"none", "writes", "snapshots"},
           NEW t \in Members, NEW to \in Places \ {"written", "tally", "delete", "count"},
           pc[t] # "tally", t = SnapThread /\ to = "check" => pc[t] = "count",
           pc' = [pc EXCEPT ![t] = to]
    PROVE  SnapInv'
<1>1. SnapTypeOK'
  BY DEF SnapInv, SnapTypeOK, snapVars
<1> QED BY <1>1, SnapFacts DEF SnapInv, snapVars, OneUnverified, SnapExists, Members

LEMMA SnapMainKeeps ==
    ASSUME RunInv, SnapInv, workload = "snapshot", SnapMain
    PROVE  SnapInv'
<1> USE SnapFacts DEF SnapInv
<1>1. CASE SnapSetup
  <2>1. SnapTypeOK'
    BY <1>1 DEF SnapSetup, SnapTypeOK, Patterns
  <2> QED BY <1>1, <2>1 DEF SnapSetup, StartThreads, mainOnly, RunInv, OneUnverified, SnapExists,
             Patterns, Members, Preparing
<1>2. CASE SnapSetupFails \/ ((StopThreads \/ Join \/ Report) /\ UNCHANGED snapVars)
  <2>1. UNCHANGED <<snapVars, pc, workload, threads, stats, loaded>>
    BY <1>2 DEF SnapSetupFails, StopThreads, Join, Report, mainOnly
  <2>2. main' \notin {"setup", "failed"} => main \notin {"setup", "failed"}
    BY <1>2 DEF SnapSetupFails, StopThreads, Join, Report
  <2>3. SnapTypeOK'
    BY <2>1 DEF SnapTypeOK, snapVars
  <2> QED BY <2>1, <2>2, <2>3 DEF snapVars, OneUnverified, SnapExists, Members
<1> QED BY <1>1, <1>2 DEF SnapMain

LEMMA SnapWriterKeeps ==
    ASSUME RunInv, SnapInv, workload = "snapshot", NEW t \in Members, threads[t] = "writer",
           SnapWriter(t)
    PROVE  SnapInv'
<1> USE SnapFacts
<1>0. t # SnapThread
  OBVIOUS
<1>1. CASE (Round(t, "write") \/ Move(t, "write", "loop") \/ Leave(t)) /\ UNCHANGED snapVars
  BY <1>0, <1>1, SnapGoes
     DEF Round, Move, Leave, Runs, Goes, threadOnly, counters, Places, Members, SnapInv
<1>2. CASE Count(t, "loop") /\ UNCHANGED snapVars
  <2>1. loaded[t].key # "violations" /\ loaded[t].key \in DOMAIN stats
    BY <1>2 DEF SnapInv, Count, Runs, RunInv, RunTypeOK
  <2>2. stats'.violations = stats.violations
    BY <1>2, <2>1 DEF Count
  <2>3. \A u \in Members : loaded'[u].key \in {loaded[u].key, "none"}
    BY <1>2 DEF Count, NothingLoaded, RunInv, RunTypeOK
  <2> QED BY <1>0, <1>2, <2>2, <2>3, SnapGoes DEF Count, Runs, Goes, threadOnly, Places
<1>3. CASE SnapOpen(t)
  <2>1. PICK f \in Files, p \in Patterns :
           /\ writing' = [writing EXCEPT ![t] = [file |-> f, pattern |-> p]]
           /\ content' = IF atomic THEN content ELSE [content EXCEPT ![f] = "mixed"]
           /\ Move(t, "write", "written")
           /\ UNCHANGED <<atomic, taken, snap_n, mixed, verified, foundMixed>>
    BY <1>3 DEF SnapOpen
  <2>2. SnapTypeOK'
    BY <2>1 DEF SnapInv, SnapTypeOK, Patterns
  <2> QED BY <1>0, <2>1, <2>2
          DEF SnapInv, SnapTypeOK, Move, Runs, Goes, threadOnly, counters, OneUnverified, SnapExists, Members
<1>4. CASE SnapWritten(t)
  <2>1. writing[t].file \in Files /\ writing[t].pattern \in Patterns
    BY <1>4 DEF SnapWritten, Succeed, Runs, SnapInv
  <2>2. SnapTypeOK'
    BY <1>4, <2>1 DEF SnapWritten, SnapInv, SnapTypeOK, NotWriting, Patterns
  <2>3. /\ UNCHANGED <<workload, main, threads, stats>> /\ main # "setup"
        /\ pc' = [pc EXCEPT ![t] = "count"]
        /\ \A u \in Members : loaded'[u].key \in {loaded[u].key, "writes"}
    BY <1>4 DEF SnapWritten, Succeed, Runs, Goes, threadOnly, RunInv, RunTypeOK
  <2> QED BY <1>0, <1>4, <2>1, <2>2, <2>3
          DEF SnapWritten, SnapInv, SnapTypeOK, OneUnverified, SnapExists, Members
<1> QED BY <1>1, <1>2, <1>3, <1>4 DEF SnapWriter

LEMMA SnapTakes ==
    ASSUME RunInv, SnapInv, workload = "snapshot", ~SnapExists(snap_n),
           SnapCreated(SnapThread) \/ SnapCreateTimesOut(SnapThread)
    PROVE  SnapInv'
<1> USE SnapFacts
<1>1. /\ DOMAIN taken' = DOMAIN taken \cup {snap_n} /\ taken'[snap_n] = content
      /\ \A n \in DOMAIN taken : taken'[n] = taken[n]
      /\ verified' = verified \ {snap_n}
      /\ UNCHANGED <<atomic, content, writing, snap_n, mixed, foundMixed>>
  BY DEF SnapCreated, SnapCreateTimesOut, Take, SnapExists
<1>2. /\ UNCHANGED <<workload, main, threads, stats>> /\ main \notin {"setup", "failed"}
      /\ pc[SnapThread] = "create"
      /\ \E to \in {"count", "loop"} : pc' = [pc EXCEPT ![SnapThread] = to]
      /\ \A u \in Members : loaded'[u].key \in {loaded[u].key, "snapshots"}
  BY DEF SnapCreated, SnapCreateTimesOut, Succeed, Move, Runs, Goes, threadOnly, counters, RunInv, RunTypeOK
<1>3. SnapTypeOK'
  BY <1>1 DEF SnapInv, SnapTypeOK
<1>4. OneUnverified'
  BY <1>1 DEF SnapInv, OneUnverified
<1> QED BY <1>1, <1>2, <1>3, <1>4 DEF SnapInv, SnapTypeOK, SnapExists, Members

LEMMA SnapChecks ==
    ASSUME RunInv, SnapInv, workload = "snapshot", SnapCheck(SnapThread)
    PROVE  SnapInv'
<1> USE SnapFacts
<1>1. PICK readable \in SUBSET Files :
         /\ mixed' = Cardinality(Unexpected(readable))
         /\ foundMixed' = (foundMixed \/ Unexpected(readable) # {})
  BY DEF SnapCheck
<1>2. IsFiniteSet(Unexpected(readable))
  BY SnapAssumption, FS_Subset DEF Unexpected, SnapAssumption
<1>3. mixed' \in Nat /\ (mixed' > 0 <=> Unexpected(readable) # {})
  BY <1>1, <1>2, FS_CardinalityType, FS_EmptySet
<1>4. /\ UNCHANGED <<workload, main, threads, stats, loaded, snapDisk, writing, snap_n>>
      /\ pc[SnapThread] = "check" /\ pc' = [pc EXCEPT ![SnapThread] = "tally"]
      /\ verified' = verified \cup {snap_n}
  BY DEF SnapCheck, Move, Runs, Goes, threadOnly, counters
<1>5. mixed = 0 /\ SnapExists(snap_n)
  BY <1>4 DEF SnapInv
<1>6. SnapTypeOK'
  BY <1>1, <1>3, <1>4 DEF SnapInv, SnapTypeOK, snapDisk
<1>7. atomic => Unexpected(readable) = {}
  BY <1>5 DEF SnapInv, SnapExists, Unexpected
<1>8. foundMixed' <=> stats.violations + mixed' > 0
  <2>1. foundMixed <=> stats.violations + mixed > 0
    BY DEF SnapInv
  <2>2. foundMixed <=> stats.violations > 0
    BY <2>1, <1>5
  <2>3. foundMixed' <=> foundMixed \/ Unexpected(readable) # {}
    BY <1>1
  <2> QED BY <1>3, <2>2, <2>3
<1>9. atomic => ~foundMixed'
  BY <1>1, <1>7 DEF SnapInv
<1>10. OneUnverified'
  BY <1>4 DEF SnapInv, OneUnverified, snapDisk
<1> QED BY <1>4, <1>6, <1>8, <1>9, <1>10 DEF SnapInv, snapDisk, SnapExists, Members

LEMMA SnapTallies ==
    ASSUME RunInv, SnapInv, workload = "snapshot", SnapTally(SnapThread)
    PROVE  SnapInv'
<1> USE SnapFacts
<1>1. /\ stats'.violations = stats.violations + mixed /\ mixed' = 0
      /\ UNCHANGED <<workload, main, threads, loaded, snapDisk, writing, snap_n, verified, foundMixed>>
      /\ pc[SnapThread] = "tally" /\ pc' = [pc EXCEPT ![SnapThread] = "delete"]
  BY DEF SnapTally, Runs, Goes, threadOnly
<1>2. SnapTypeOK'
  BY <1>1 DEF SnapInv, SnapTypeOK, snapDisk
<1> QED BY <1>1, <1>2 DEF SnapInv, SnapTypeOK, snapDisk, OneUnverified, SnapExists, Members

LEMMA SnapDeletes ==
    ASSUME RunInv, SnapInv, workload = "snapshot",
           SnapDelete(SnapThread) \/ SnapDeleteTimesOut(SnapThread)
    PROVE  SnapInv'
<1> USE SnapFacts
<1>1. /\ DOMAIN taken' \subseteq DOMAIN taken /\ \A n \in DOMAIN taken' : taken'[n] = taken[n]
      /\ snap_n' \in {snap_n, snap_n + 1}
      /\ UNCHANGED <<atomic, content, writing, mixed, verified, foundMixed>>
  BY DEF SnapDelete, SnapDeleteTimesOut, Untake
<1>2. /\ UNCHANGED <<workload, main, threads, stats, loaded>>
      /\ pc[SnapThread] = "delete" /\ pc' = [pc EXCEPT ![SnapThread] = "loop"]
  BY DEF SnapDelete, SnapDeleteTimesOut, Move, Runs, Goes, threadOnly, counters
<1>3. SnapTypeOK'
  BY <1>1 DEF SnapInv, SnapTypeOK
<1>4. OneUnverified'
  BY <1>1, <1>2 DEF SnapInv, OneUnverified
<1> QED BY <1>1, <1>2, <1>3, <1>4 DEF SnapInv, SnapTypeOK, SnapExists, Members

LEMMA SnapThreadKeeps ==
    ASSUME RunInv, SnapInv, workload = "snapshot", SnapSnapshots(SnapThread)
    PROVE  SnapInv'
<1> USE SnapFacts
<1>1. CASE \/ (Move(SnapThread, "create", "loop") \/ Leave(SnapThread)) /\ UNCHANGED snapVars
           \/ SnapBegin(SnapThread)
  BY <1>1, SnapGoes DEF SnapBegin, Round, Move, Leave, Runs, Goes, threadOnly, counters, Places
<1>2. CASE Count(SnapThread, "check") /\ UNCHANGED snapVars
  <2>1. loaded[SnapThread].key # "violations" /\ loaded[SnapThread].key \in DOMAIN stats
    BY <1>2 DEF SnapInv, Count, Runs, RunInv, RunTypeOK
  <2>2. stats'.violations = stats.violations
    BY <1>2, <2>1 DEF Count
  <2>3. \A u \in Members : loaded'[u].key \in {loaded[u].key, "none"}
    BY <1>2 DEF Count, NothingLoaded, RunInv, RunTypeOK
  <2> QED BY <1>2, <2>2, <2>3, SnapGoes DEF Count, Runs, Goes, threadOnly, Places
<1>3. CASE SnapCreated(SnapThread) \/ SnapCreateTimesOut(SnapThread)
  BY <1>3, SnapTakes DEF SnapCreated, SnapCreateTimesOut
<1> QED BY <1>1, <1>2, <1>3, SnapChecks, SnapTallies, SnapDeletes DEF SnapSnapshots

LEMMA SnapInvKept ==
    ASSUME RunInv, SnapInv, [Next]_vars
    PROVE  SnapInv'
<1>1. CASE workload = "snapshot" /\ SnapNext
  <2>1. CASE SnapMain
    BY <1>1, <2>1, SnapMainKeeps
  <2>2. ASSUME NEW t \in Members, threads[t] = "writer", SnapWriter(t)
        PROVE  SnapInv'
    BY <1>1, <2>2, SnapWriterKeeps
  <2>3. ASSUME NEW t \in Members, threads[t] # "writer", SnapSnapshots(t)
        PROVE  SnapInv'
    BY <1>1, <2>3, SnapThreadKeeps, SnapFacts
  <2> QED BY <1>1, <2>1, <2>2, <2>3 DEF SnapNext
<1>2. CASE workload # "snapshot" /\ Next
  <2>1. UNCHANGED <<snapVars, workload>>
    BY <1>2, WorkloadKept DEF Next
  <2> QED BY <1>2, <2>1 DEF SnapInv, SnapTypeOK, OneUnverified, snapVars
<1>3. CASE UNCHANGED vars
  BY <1>3 DEF vars, runVars, snapVars, SnapInv, SnapTypeOK, OneUnverified, SnapExists, Members
<1> QED BY <1>1, <1>2, <1>3 DEF Next

-----------------------------------------------------------------------------
(* The fsync checker.                                                      *)

\* A file is as it was truncated, preallocated, or written after either.
Shapes == {{}, {Prealloc}, {Boundary}, {Boundary} \cup Rest}

\* While an fsync goes on, what it has yet to log and what it has logged are the
\* file, if the kernel locks; what the checker has seen of it is part of it, and all if it was
\* traced from its beginning.
FsyncOf(t) ==
    /\ pc[t] \in {"fsync", "log", "write", "truncate", "fallocate"} => path[t] \in FsyncFiles
    /\ pc[t] # "log" => logged[t] = {} /\ toLog[t] = {} /\ t \notin whole
    /\ pc[t] = "log" => log_extents[t] \subseteq logged[t]
    /\ t \in whole => log_extents[t] = logged[t]
    /\ lockedLog /\ pc[t] = "log" /\ toLog[t] # {} =>
          toLog[t] \cap logged[t] = {} /\ toLog[t] \cup logged[t] = extents[path[t]]

FsyncInv ==
    /\ FsyncTypeOK /\ extents \in [FsyncFiles -> Shapes]
    /\ ~attached => whole = {} /\ \A t \in DOMAIN FsyncTeam : log_extents[t] = {}
    /\ DuplicatesAreReported
    /\ workload = "fsync" => \A t \in Members : FsyncOf(t)

\* Every extent has a block.
LEMMA ExtentsHaveBlocks ==
    ASSUME NEW e \in Extents
    PROVE  e \in Nat \X (Nat \ {0})
BY FsyncAssumption DEF Extents, Boundary, Prealloc, Rest, FsyncAssumption

\* Extents of one file that is not being logged have no block in common.
LEMMA ShapesAreApart ==
    ASSUME NEW s \in Shapes, NEW d \in s, NEW e \in s, d # e
    PROVE  ~overlaps(d, e)
BY FsyncAssumption DEF Shapes, Boundary, Prealloc, Rest, FsyncAssumption, overlaps

\* The checker's test finds every common block, and the log tree has one if not.
LEMMA ClashIsOverlap ==
    ASSUME NEW d \in Extents, NEW e \in Extents, Blocks(d) \cap Blocks(e) # {}
    PROVE  overlaps(d, e)
BY ExtentsHaveBlocks DEF Blocks, overlaps

LEMMA ShapesAreKept ==
    ASSUME NEW s \in Shapes
    PROVE  Written(s) \in Shapes /\ Allocations(s) \subseteq Shapes /\ Shapes \subseteq SUBSET Extents
BY DEF Shapes, Written, Allocations, Preallocated, Extents, Boundary, Prealloc, Rest

LEMMA FsyncFacts ==
    ASSUME RunInv, workload = "fsync"
    PROVE  pc \in [DOMAIN FsyncTeam -> Places] /\ Members = DOMAIN FsyncTeam
BY DEF RunInv, RunTypeOK, TeamOf, Members

\* One thread moves and keeps its hands off the others, and off the extents of a
\* file that is being logged.
LEMMA FsyncMoves ==
    ASSUME RunInv, FsyncInv, workload = "fsync", UNCHANGED <<workload, threads, lockedLog>>,
           NEW t \in Members, NEW to \in Places, pc' = [pc EXCEPT ![t] = to],
           \A u \in Members \ {t} :
              /\ path'[u] = path[u] /\ toLog'[u] = toLog[u] /\ logged'[u] = logged[u]
              /\ log_extents'[u] = log_extents[u] /\ (u \in whole' <=> u \in whole)
              /\ lockedLog /\ pc[u] = "log" => extents'[path[u]] = extents[path[u]],
           FsyncTypeOK', extents' \in [FsyncFiles -> Shapes], DuplicatesAreReported',
           ~attached' => whole' = {} /\ \A u \in DOMAIN FsyncTeam : log_extents'[u] = {},
           FsyncOf(t)'
    PROVE  FsyncInv'
<1>1. ASSUME NEW u \in Members, u # t
      PROVE  FsyncOf(u)'
  BY <1>1, FsyncFacts DEF FsyncInv, FsyncOf
<1>2. Members' = Members
  BY DEF Members
<1> QED BY <1>1, <1>2 DEF FsyncInv

\* A thread that neither was in an fsync nor goes into one.
LEMMA FsyncOutside ==
    ASSUME RunInv, FsyncInv, workload = "fsync", UNCHANGED <<workload, threads>>,
           NEW t \in Members, NEW to \in Places \ {"log"}, pc' = [pc EXCEPT ![t] = to],
           pc[t] # "log", UNCHANGED <<lockedLog, toLog, logged, checkerVars>>,
           path' \in [DOMAIN FsyncTeam -> FsyncFiles \cup {"none"}],
           \A u \in Members \ {t} : path'[u] = path[u],
           to \in {"fsync", "write", "truncate", "fallocate"} => path'[t] \in FsyncFiles,
           extents' \in [FsyncFiles -> Shapes],
           \A u \in Members : lockedLog /\ pc[u] = "log" => extents'[path[u]] = extents[path[u]]
    PROVE  FsyncInv'
<1>1. Shapes \subseteq SUBSET Extents
  BY ShapesAreKept DEF Shapes
<1>2. FsyncTypeOK'
  BY <1>1 DEF FsyncInv, FsyncTypeOK, checkerVars
<1>3. FsyncOf(t)'
  BY FsyncFacts DEF FsyncInv, FsyncOf, checkerVars
<1>4. DuplicatesAreReported' /\ (~attached' => whole' = {} /\ \A u \in DOMAIN FsyncTeam : log_extents'[u] = {})
  BY DEF FsyncInv, DuplicatesAreReported, checkerVars
<1> QED BY <1>2, <1>3, <1>4, FsyncMoves DEF checkerVars

LEMMA FsyncEnterKeeps ==
    ASSUME RunInv, FsyncInv, workload = "fsync", NEW t \in Members, FsyncEnter(t)
    PROVE  FsyncInv'
<1> USE FsyncFacts
<1>1. /\ pc[t] = "fsync" /\ pc' = [pc EXCEPT ![t] = "log"] /\ UNCHANGED <<workload, threads>>
      /\ UNCHANGED <<lockedLog, extents, path, logged, attached, reported, duplicated>>
      /\ toLog' = [toLog EXCEPT ![t] = extents[path[t]]]
  BY DEF FsyncEnter, Move, Runs, Goes, threadOnly
<1>2. path[t] \in FsyncFiles /\ logged[t] = {} /\ t \notin whole
  BY <1>1 DEF FsyncInv, FsyncOf
<1>3. CASE attached /\ whole' = whole \cup {t} /\ log_extents' = [log_extents EXCEPT ![t] = {}]
  <2>1. FsyncTypeOK'
    BY <1>1, <1>2, <1>3 DEF FsyncInv, FsyncTypeOK
  <2>2. FsyncOf(t)'
    BY <1>1, <1>2, <1>3 DEF FsyncInv, FsyncTypeOK, FsyncOf
  <2> QED BY <2>1, <2>2, <1>1, <1>3, FsyncMoves DEF FsyncInv, FsyncTypeOK, DuplicatesAreReported, Places
<1>4. CASE ~attached /\ UNCHANGED <<whole, log_extents>>
  <2>1. FsyncTypeOK'
    BY <1>1, <1>2, <1>4 DEF FsyncInv, FsyncTypeOK
  <2>2. FsyncOf(t)'
    BY <1>1, <1>2, <1>4 DEF FsyncInv, FsyncTypeOK, FsyncOf
  <2> QED BY <2>1, <2>2, <1>1, <1>4, FsyncMoves DEF FsyncInv, FsyncTypeOK, DuplicatesAreReported, Places
<1> QED BY <1>3, <1>4 DEF FsyncEnter

LEMMA FsyncDoneKeeps ==
    ASSUME RunInv, FsyncInv, workload = "fsync", NEW t \in Members, NEW key, FsyncDone(t, key)
    PROVE  FsyncInv'
<1> USE FsyncFacts
<1>1. PICK to \in {"count", "loop"} :
         pc[t] = "log" /\ pc' = [pc EXCEPT ![t] = to] /\ UNCHANGED <<workload, threads>>
  BY DEF FsyncDone, Succeed, Move, Runs, Goes, threadOnly
<1>2. /\ UNCHANGED <<lockedLog, extents, toLog, attached, reported, duplicated>>
      /\ toLog[t] = {} /\ logged' = [logged EXCEPT ![t] = {}]
      /\ path' = [path EXCEPT ![t] = "none"] /\ whole' = whole \ {t}
      /\ log_extents' = IF t \in whole THEN [log_extents EXCEPT ![t] = {}] ELSE log_extents
  BY DEF FsyncDone, Close
<1>3. FsyncTypeOK'
  BY <1>2 DEF FsyncInv, FsyncTypeOK
<1>4. FsyncOf(t)'
  BY <1>1, <1>2 DEF FsyncInv, FsyncTypeOK, FsyncOf
<1>5. \A u \in Members \ {t} : log_extents'[u] = log_extents[u]
  BY <1>2 DEF FsyncInv, FsyncTypeOK
<1>6. ~attached' => whole' = {} /\ \A u \in DOMAIN FsyncTeam : log_extents'[u] = {}
  BY <1>2 DEF FsyncInv
<1> QED BY <1>1, <1>2, <1>3, <1>4, <1>5, <1>6, FsyncMoves
        DEF FsyncInv, FsyncTypeOK, DuplicatesAreReported, Places

LEMMA LogOneExtentKeeps ==
    ASSUME RunInv, FsyncInv, workload = "fsync", NEW t \in Members, LogOneExtent(t)
    PROVE  FsyncInv'
<1> USE FsyncFacts
<1>1. PICK e \in toLog[t], dropFails \in BOOLEAN :
         /\ pc[t] = "log"
         /\ logged' = [logged EXCEPT ![t] = @ \cup {e}]
         /\ toLog' = [toLog EXCEPT ![t] =
               IF dropFails THEN {}
               ELSE (@ \cup (extents[path[t]] \ (logged[t] \cup {e}))) \ {e}]
         /\ log_extents' = IF attached THEN [log_extents EXCEPT ![t] = @ \cup {e}] ELSE log_extents
         /\ ReportBy((IF Overlapping(e, log_extents[t]) THEN {"overlap"} ELSE {})
                     \cup (IF dropFails THEN {"drop"} ELSE {}))
         /\ duplicated' = (duplicated \/ (t \in whole /\ Clash(e, logged[t])))
         /\ UNCHANGED <<runVars, lockedLog, extents, path, attached, whole>>
  BY DEF LogOneExtent, Runs, FsyncInv, FsyncTypeOK
<1>2. /\ e \in Extents /\ logged[t] \subseteq Extents /\ log_extents[t] \subseteq logged[t]
      /\ path[t] \in FsyncFiles /\ (t \in whole => attached /\ log_extents[t] = logged[t])
  BY <1>1 DEF FsyncInv, FsyncTypeOK, FsyncOf
<1>3. Clash(e, logged[t]) => Overlapping(e, logged[t])
  BY <1>2, ClashIsOverlap DEF Clash, Overlapping
<1>4. lockedLog => /\ ~Overlapping(e, logged[t]) /\ e \notin logged[t]
                   /\ toLog[t] \cup logged[t] = extents[path[t]]
  <2>1. SUFFICES ASSUME lockedLog
                 PROVE  /\ ~Overlapping(e, logged[t]) /\ e \notin logged[t]
                        /\ toLog[t] \cup logged[t] = extents[path[t]]
    OBVIOUS
  <2>2. e \notin logged[t] /\ toLog[t] \cup logged[t] = extents[path[t]]
    BY <1>1, <2>1 DEF FsyncInv, FsyncOf
  <2>3. extents[path[t]] \in Shapes
    BY <1>2 DEF FsyncInv
  <2>4. \A d \in logged[t] : ~overlaps(d, e)
    BY <2>2, <2>3, ShapesAreApart
  <2> QED BY <2>2, <2>4 DEF Overlapping
<1>5. FsyncTypeOK'
  <2>1. extents[path[t]] \subseteq Extents
    BY <1>2 DEF FsyncInv, FsyncTypeOK
  <2>2. log_extents' \in [DOMAIN FsyncTeam -> SUBSET Extents]
    BY <1>1, <1>2 DEF FsyncInv, FsyncTypeOK
  <2>3. reported' \subseteq {"overlap", "drop"} /\ duplicated' \in BOOLEAN
    BY <1>1 DEF FsyncInv, FsyncTypeOK, ReportBy
  <2> QED BY <1>1, <1>2, <2>1, <2>2, <2>3 DEF FsyncInv, FsyncTypeOK
<1>6. DuplicatesAreReported'
  <2>1. "overlap" \in reported' <=>
           "overlap" \in reported \/ (attached /\ Overlapping(e, log_extents[t]))
    BY <1>1 DEF ReportBy
  <2>2. lockedLog => "overlap" \notin reported'
    BY <2>1, <1>2, <1>4 DEF FsyncInv, DuplicatesAreReported, Overlapping
  <2>3. duplicated' => "overlap" \in reported'
    BY <2>1, <1>1, <1>2, <1>3 DEF FsyncInv, DuplicatesAreReported
  <2> QED BY <2>2, <2>3, <1>1 DEF DuplicatesAreReported
<1>7. /\ logged'[t] = logged[t] \cup {e} /\ pc'[t] = "log" /\ path'[t] = path[t]
      /\ log_extents'[t] = IF attached THEN log_extents[t] \cup {e} ELSE log_extents[t]
      /\ lockedLog => toLog'[t] = IF dropFails THEN {} ELSE toLog[t] \ {e}
  <2>1. lockedLog => toLog'[t] = IF dropFails THEN {} ELSE toLog[t] \ {e}
    BY <1>1, <1>4 DEF FsyncInv, FsyncTypeOK
  <2> QED BY <1>1, <2>1 DEF FsyncInv, FsyncTypeOK, runVars
<1>8. FsyncOf(t)'
  <2>1. lockedLog' /\ toLog'[t] # {} =>
           /\ toLog'[t] \cap logged'[t] = {}
           /\ toLog'[t] \cup logged'[t] = extents'[path'[t]]
    BY <1>1, <1>4, <1>7 DEF FsyncInv, FsyncOf
  <2>2. log_extents'[t] \subseteq logged'[t]
    BY <1>2, <1>7
  <2>3. t \in whole' => log_extents'[t] = logged'[t]
    BY <1>1, <1>2, <1>7
  <2>4. pc'[t] = "log" /\ path'[t] \in FsyncFiles
    BY <1>2, <1>7
  <2> QED BY <2>1, <2>2, <2>3, <2>4 DEF FsyncOf
<1>9. ~attached' => whole' = {} /\ \A u \in DOMAIN FsyncTeam : log_extents'[u] = {}
  BY <1>1 DEF FsyncInv
<1>10. \A u \in Members \ {t} :
          log_extents'[u] = log_extents[u] /\ toLog'[u] = toLog[u] /\ logged'[u] = logged[u]
  BY <1>1 DEF FsyncInv, FsyncTypeOK
<1>11. pc' = [pc EXCEPT ![t] = "log"] /\ UNCHANGED <<workload, threads>>
  BY <1>1 DEF runVars
<1> QED BY <1>1, <1>5, <1>6, <1>8, <1>9, <1>10, <1>11, FsyncMoves DEF FsyncInv, Places

LEMMA FsyncThreadKeeps ==
    ASSUME RunInv, FsyncInv, workload = "fsync", NEW t \in Members, FsyncThread(t)
    PROVE  FsyncInv'
<1> USE FsyncFacts
<1>1. FsyncTypeOK /\ extents \in [FsyncFiles -> Shapes]
  BY DEF FsyncInv
<1>2. ASSUME NEW step \in {"fsync", "write", "truncate"}, Draw(t, step)
      PROVE  FsyncInv'
  <2>1. PICK f \in FsyncFiles : Round(t, step) /\ path' = [path EXCEPT ![t] = f]
    BY <1>2 DEF Draw
  <2>2. pc[t] = "loop" /\ pc' = [pc EXCEPT ![t] = step] /\ UNCHANGED <<workload, threads>>
    BY <2>1 DEF Round, Runs, Goes, threadOnly
  <2> QED BY <1>1, <1>2, <2>1, <2>2, FsyncOutside DEF Draw, FsyncTypeOK, Places
<1>3. ASSUME NEW step \in {"fsync", "write", "truncate"}, OpenFails(t, step)
      PROVE  FsyncInv'
  <2>1. pc[t] = step /\ pc' = [pc EXCEPT ![t] = "loop"] /\ UNCHANGED <<workload, threads>>
    BY <1>3 DEF OpenFails, Move, Runs, Goes, threadOnly
  <2> QED BY <1>1, <1>3, <2>1, FsyncOutside DEF OpenFails, Close, FsyncTypeOK, Places
<1>4. CASE (Count(t, "loop") \/ Leave(t)) /\ UNCHANGED fsyncVars
  <2>1. /\ \E to \in {"loop", "exited"} : pc' = [pc EXCEPT ![t] = to]
        /\ pc[t] \in {"count", "loop"} /\ UNCHANGED <<workload, threads>>
    BY <1>4 DEF Count, Leave, Runs, Goes, threadOnly
  <2> QED BY <1>1, <1>4, <2>1, FsyncOutside DEF fsyncVars, kernelVars, FsyncTypeOK, Places
<1>5. ASSUME NEW from \in {"write", "truncate", "fallocate"}, NEW new \in Shapes,
             NEW to \in {"count", "fallocate", "fsync"}, pc[t] = from, pc' = [pc EXCEPT ![t] = to],
             UNCHANGED <<workload, threads>>, Change(t, new),
             path' = path \/ (path' = [path EXCEPT ![t] = "none"] /\ to = "count")
      PROVE  FsyncInv'
  <2>1. path[t] \in FsyncFiles
    BY <1>5 DEF FsyncInv, FsyncOf
  <2>2. path' \in [DOMAIN FsyncTeam -> FsyncFiles \cup {"none"}]
    BY <1>1, <1>5 DEF FsyncTypeOK
  <2>3. extents' = [extents EXCEPT ![path[t]] = new] /\ UNCHANGED <<lockedLog, toLog, logged, checkerVars>>
    BY <1>5 DEF Change
  <2>4. extents' \in [FsyncFiles -> Shapes]
    BY <1>1, <2>3
  <2>5. ASSUME NEW u \in Members, lockedLog, pc[u] = "log"
        PROVE  extents'[path[u]] = extents[path[u]]
    <3>1. path[u] # path[t] /\ path[u] \in FsyncFiles
      BY <1>5, <2>5 DEF Change, Logging, FsyncInv, FsyncOf
    <3> QED BY <1>1, <2>3, <3>1
  <2>6. \A u \in Members \ {t} : path'[u] = path[u]
    BY <1>1, <1>5 DEF FsyncTypeOK
  <2>7. to \in {"fsync", "write", "truncate", "fallocate"} => path'[t] \in FsyncFiles
    BY <1>5, <2>1
  <2>8. to \in Places \ {"log"} /\ pc[t] # "log"
    BY <1>5 DEF Places
  <2> HIDE FsyncFacts
  <2> QED BY <1>5, <2>2, <2>3, <2>4, <2>5, <2>6, <2>7, <2>8, FsyncOutside
<1>6. CASE writer_thread(t) /\ Succeed(t, "write", "writes") /\ Change(t, Written(extents[path[t]])) /\ Close(t)
  <2>1. pc[t] = "write" /\ pc' = [pc EXCEPT ![t] = "count"] /\ UNCHANGED <<workload, threads>>
    BY <1>6 DEF Succeed, Runs, Goes, threadOnly
  <2>2. Written(extents[path[t]]) \in Shapes
    BY <1>1, <2>1, ShapesAreKept DEF FsyncInv, FsyncOf
  <2> QED BY <1>5, <1>6, <2>1, <2>2 DEF Close
<1>7. CASE resetter_thread(t) /\ Move(t, "truncate", "fallocate") /\ Change(t, {}) /\ UNCHANGED path
  <2>1. pc[t] = "truncate" /\ pc' = [pc EXCEPT ![t] = "fallocate"] /\ UNCHANGED <<workload, threads>>
    BY <1>7 DEF Move, Runs, Goes, threadOnly
  <2>2. {} \in Shapes
    BY DEF Shapes
  <2> QED BY <1>5, <1>7, <2>1, <2>2
<1>8. CASE /\ Move(t, "fallocate", "fsync") /\ UNCHANGED path
           /\ \E e \in Allocations(extents[path[t]]) : Change(t, e)
  <2>1. pc[t] = "fallocate" /\ pc' = [pc EXCEPT ![t] = "fsync"] /\ UNCHANGED <<workload, threads>>
    BY <1>8 DEF Move, Runs, Goes, threadOnly
  <2>2. Allocations(extents[path[t]]) \subseteq Shapes
    BY <1>1, <2>1, ShapesAreKept DEF FsyncInv, FsyncOf
  <2> QED BY <1>5, <1>8, <2>1, <2>2
<1>9. CASE fsync_thread(t)
  BY <1>2, <1>3, <1>4, <1>9, FsyncEnterKeeps, LogOneExtentKeeps, FsyncDoneKeeps DEF fsync_thread
<1>10. CASE writer_thread(t)
  BY <1>2, <1>3, <1>4, <1>6, <1>10 DEF writer_thread
<1>11. CASE resetter_thread(t)
  BY <1>2, <1>3, <1>4, <1>7, <1>8, <1>11, FsyncEnterKeeps, LogOneExtentKeeps, FsyncDoneKeeps
     DEF resetter_thread
<1> QED BY <1>9, <1>10, <1>11 DEF FsyncThread

LEMMA FsyncInvKept ==
    ASSUME RunInv, workload = "snapshot" => mixed \in Nat, FsyncInv, [Next]_vars
    PROVE  FsyncInv'
<1>1. CASE workload = "fsync" /\ FsyncNext
  <2>1. CASE SetupFiles
    <3>1. \A t \in Members : pc[t] = "new" /\ pc'[t] = "loop"
      BY <1>1, <2>1, FsyncFacts
         DEF SetupFiles, StartThreads, RunInv, RunTypeOK, TeamOf, FsyncTeam, Preparing
    <3>2. {} \in Shapes
      BY DEF Shapes
    <3>3. extents' \in [FsyncFiles -> Shapes]
      BY <2>1, <3>2, ShapesAreKept DEF SetupFiles
    <3>4. UNCHANGED <<workload, threads, lockedLog, path, toLog, logged, checkerVars>>
      BY <2>1 DEF SetupFiles, StartThreads, mainOnly
    <3>5. FsyncTypeOK'
      BY <3>3, <3>4, ShapesAreKept DEF FsyncInv, FsyncTypeOK, checkerVars
    <3> QED BY <3>1, <3>3, <3>4, <3>5
            DEF FsyncInv, FsyncOf, DuplicatesAreReported, Members, checkerVars
  <2>2. CASE (StopThreads \/ Join \/ Report) /\ UNCHANGED fsyncVars
    <3>1. UNCHANGED <<workload, threads, pc, fsyncVars>>
      BY <2>2 DEF StopThreads, Join, Report, mainOnly
    <3> QED BY <3>1 DEF FsyncInv, FsyncTypeOK, FsyncOf, DuplicatesAreReported, Members,
               fsyncVars, kernelVars, checkerVars
  <2>3. CASE Attach
    <3>1. attached' = TRUE /\ UNCHANGED <<runVars, kernelVars, whole, log_extents, reported, duplicated>>
      BY <2>3 DEF Attach
    <3> QED BY <3>1 DEF FsyncInv, FsyncTypeOK, FsyncOf, DuplicatesAreReported, Members,
               runVars, kernelVars
  <2>4. ASSUME NEW t \in Members, FsyncThread(t)
        PROVE  FsyncInv'
    BY <1>1, <2>4, FsyncThreadKeeps
  <2>5. CASE DropExtentsFails
    <3>1. /\ UNCHANGED <<runVars, kernelVars, attached, whole, log_extents, duplicated>>
          /\ reported' = reported \cup {"drop"}
      BY <2>5 DEF DropExtentsFails, ReportBy
    <3> QED BY <3>1 DEF FsyncInv, FsyncTypeOK, FsyncOf, DuplicatesAreReported, Members,
               runVars, kernelVars
  <2> QED BY <1>1, <2>1, <2>2, <2>3, <2>4, <2>5 DEF FsyncNext, FsyncMain
<1>2. CASE workload # "fsync" /\ Next
  <2>1. UNCHANGED <<fsyncVars, workload>>
    BY <1>2, WorkloadKept DEF Next
  <2> QED BY <1>2, <2>1 DEF FsyncInv, FsyncTypeOK, DuplicatesAreReported, fsyncVars, kernelVars, checkerVars
<1>3. CASE UNCHANGED vars
  BY <1>3 DEF vars, runVars, fsyncVars, kernelVars, checkerVars, FsyncInv, FsyncTypeOK, FsyncOf,
              DuplicatesAreReported, Members
<1> QED BY <1>1, <1>2, <1>3 DEF Next

-----------------------------------------------------------------------------
(* The types of the two other workloads' variables.                        *)

LEMMA BufferTypeKept ==
    ASSUME BufferTypeOK, [Next]_vars
    PROVE  BufferTypeOK'
<1>1. CASE UNCHANGED bufferVars
  BY <1>1 DEF BufferTypeOK, bufferVars
<1>2. CASE BufferNext
  <2>1. ASSUME NEW w \in Members, BufferCreate(w) \/ BufferRename(w) \/ BufferTrim(w)
        PROVE  BufferTypeOK'
    <3>1. CASE BufferCreate(w)
      BY SMTT(30), <3>1 DEF BufferCreate, Unused, BufferTypeOK
    <3>2. CASE BufferTrim(w)
      BY <3>2 DEF BufferTrim, BufferTypeOK
    <3>3. CASE UNCHANGED bufferVars
      BY <3>3, <1>1
    <3>4. ASSUME NEW src, NEW dst \in Unused(w), UNCHANGED <<newest, skipped, target>>,
                 dir' = [dir EXCEPT ![w] = (@ \ {src}) \cup {dst}]
          PROVE  BufferTypeOK'
      BY <3>4 DEF Unused, BufferTypeOK
    <3>5. ASSUME skipped' = [skipped EXCEPT ![w] = @ + 1], UNCHANGED <<dir, newest, target>>
          PROVE  BufferTypeOK'
      <4>1. skipped \in [BufferWriters -> Nat]
        BY DEF BufferTypeOK
      <4>2. skipped' \in [BufferWriters -> Nat]
        <5>1. ASSUME NEW u \in BufferWriters
              PROVE  skipped'[u] \in Nat
          BY <3>5, <4>1
        <5>2. skipped' = [u \in BufferWriters |-> skipped'[u]]
          BY <3>5, <4>1
        <5> QED BY <5>1, <5>2
      <4> QED BY <3>5, <4>2 DEF BufferTypeOK
    <3> QED BY <2>1, <3>1, <3>2, <3>3, <3>4, <3>5 DEF BufferRename, MovedTo
  <2>2. ASSUME NEW t \in Members, BufferTruncate(t)
        PROVE  BufferTypeOK'
    <3>1. ASSUME NEW n \in BufferNames \cup {"none"}, target' = [target EXCEPT ![t] = n],
                 UNCHANGED <<dir, list, newest, skipped>>
          PROVE  BufferTypeOK'
      BY <3>1 DEF BufferTypeOK
    <3> QED BY <2>2, <3>1, <1>1 DEF BufferTruncate, BufferTypeOK
  <2> QED BY <1>1, <1>2, <2>1, <2>2 DEF BufferNext, BufferWriter, BufferReader
<1> QED BY <1>1, <1>2 DEF Next, vars

-----------------------------------------------------------------------------
(* The lists of the extent-buffer workload.                                *)

LEMMA RemoveAtFacts ==
    ASSUME NEW S, NEW s \in Seq(S), NEW i \in 1..Len(s)
    PROVE  /\ RemoveAt(s, i) \in Seq(S) /\ Len(RemoveAt(s, i)) = Len(s) - 1
           /\ \A j \in 1..(Len(s) - 1) : RemoveAt(s, i)[j] = IF j < i THEN s[j] ELSE s[j + 1]
<1> DEFINE a == SubSeq(s, 1, i - 1)
           b == SubSeq(s, i + 1, Len(s))
<1>1. a \in Seq(S) /\ Len(a) = i - 1 /\ \A j \in 1..(i - 1) : a[j] = s[j]
  OBVIOUS
<1>2. b \in Seq(S) /\ Len(b) = Len(s) - i /\ \A j \in 1..(Len(s) - i) : b[j] = s[j + i]
  OBVIOUS
<1>3. /\ a \o b \in Seq(S) /\ Len(a \o b) = Len(s) - 1
      /\ \A j \in 1..(Len(s) - 1) : (a \o b)[j] = IF j <= i - 1 THEN a[j] ELSE b[j - (i - 1)]
  <2> HIDE DEF a, b
  <2> QED BY <1>1, <1>2
<1> HIDE DEF a, b
<1>4. \A j \in 1..(Len(s) - 1) : (a \o b)[j] = IF j < i THEN s[j] ELSE s[j + 1]
  <2> SUFFICES ASSUME NEW j \in 1..(Len(s) - 1)
               PROVE  (a \o b)[j] = IF j < i THEN s[j] ELSE s[j + 1]
    OBVIOUS
  <2>1. CASE j < i
    BY <2>1, <1>1, <1>3
  <2>2. CASE j >= i
    <3>1. j - (i - 1) \in 1..(Len(s) - i) /\ (j - (i - 1)) + i = j + 1 /\ ~(j <= i - 1) /\ ~(j < i)
      BY <2>2
    <3>2. (a \o b)[j] = b[j - (i - 1)]
      BY <3>1, <1>3
    <3>3. b[j - (i - 1)] = s[(j - (i - 1)) + i]
      BY <3>1, <1>2
    <3> QED BY <3>1, <3>2, <3>3
  <2>3. i \in Int /\ j \in Int
    OBVIOUS
  <2>4. j < i \/ j >= i
    BY <2>3
  <2> QED BY <2>1, <2>2, <2>4
<1> QED BY <1>3, <1>4 DEF RemoveAt, a, b

Distinct(s) == \A i, j \in 1..Len(s) : s[i] = s[j] => i = j
Elements(s) == {s[i] : i \in DOMAIN s}

LEMMA DistinctAreCounted ==
    ASSUME NEW S, NEW s \in Seq(S), Distinct(s)
    PROVE  Cardinality(Elements(s)) = Len(s)
<1>1. s \in Bijection(1..Len(s), Elements(s))
  <2>1. DOMAIN s = 1..Len(s) /\ s = [i \in 1..Len(s) |-> s[i]]
    OBVIOUS
  <2>2. s \in [1..Len(s) -> Elements(s)]
    BY <2>1 DEF Elements
  <2>3. \A x \in Elements(s) : \E i \in 1..Len(s) : s[i] = x
    BY <2>1 DEF Elements
  <2> QED BY <2>2, <2>3 DEF Bijection, Injection, Surjection, IsInjective, Distinct
<1>2. IsFiniteSet(1..Len(s)) /\ Cardinality(1..Len(s)) = Len(s)
  <2>1. Len(s) \in Nat /\ 1 \in Int /\ Len(s) \in Int
    OBVIOUS
  <2>2. IsFiniteSet(1..Len(s)) /\ Cardinality(1..Len(s)) = IF 1 > Len(s) THEN 0 ELSE Len(s) - 1 + 1
    BY <2>1, FS_Interval
  <2> QED BY <2>1, <2>2
<1> QED BY <1>1, <1>2, FS_Bijection DEF ExistsBijection

\* What the names of one writer's list are to its directory and to its last
\* file, at a place of its loop.
ListOf(s, d, new, at) ==
    /\ Distinct(s) /\ Elements(s) \subseteq d
    /\ new # "none" => new \in Elements(s)
    /\ at = "rename" => Len(s) > 0 /\ new = s[Len(s)]
    /\ at = "trim" => (Len(s) > 2 => new # s[1])

LEMMA CreateKeepsList ==
    ASSUME NEW s \in Seq(BufferNames), NEW d, NEW n \in BufferNames \ d, NEW new, NEW at,
           ListOf(s, d, new, at)
    PROVE  ListOf(Append(s, n), d \cup {n}, n, "rename")
<1> DEFINE t == Append(s, n)
<1>1. /\ t \in Seq(BufferNames) /\ Len(t) = Len(s) + 1 /\ t[Len(t)] = n
      /\ \A i \in 1..Len(s) : t[i] = s[i] /\ s[i] \in d
  BY DEF ListOf, Elements
<1>2. DOMAIN t = 1..(Len(s) + 1)
  BY <1>1
<1> HIDE DEF t
<1>3. Distinct(t)
  <2> SUFFICES ASSUME NEW i \in 1..(Len(s) + 1), NEW j \in 1..(Len(s) + 1), t[i] = t[j]
               PROVE  i = j
    BY <1>1 DEF Distinct
  <2>1. CASE i <= Len(s) /\ j <= Len(s)
    BY <2>1, <1>1 DEF ListOf, Distinct
  <2> QED BY <2>1, <1>1
<1>4. Elements(t) \subseteq d \cup {n} /\ n \in Elements(t)
  BY <1>1, <1>2 DEF Elements
<1> QED BY <1>1, <1>3, <1>4 DEF ListOf, t

LEMMA RenameKeepsList ==
    ASSUME NEW s \in Seq(BufferNames), NEW d, NEW dst \in BufferNames \ d, NEW new,
           ListOf(s, d, new, "rename"), NEW i \in 1..(Len(s) - 1)
    PROVE  /\ Append(RemoveAt(s, i), dst) \in Seq(BufferNames)
           /\ Len(Append(RemoveAt(s, i), dst)) = Len(s)
           /\ ListOf(Append(RemoveAt(s, i), dst), (d \ {s[i]}) \cup {dst}, new, "trim")
<1> DEFINE r == RemoveAt(s, i)
           t == Append(r, dst)
           old(j) == IF j < i THEN j ELSE j + 1
<1>1. /\ r \in Seq(BufferNames) /\ Len(r) = Len(s) - 1
      /\ \A j \in 1..(Len(s) - 1) : r[j] = s[old(j)]
  <2>1. i \in 1..Len(s)
    OBVIOUS
  <2>2. \A j \in 1..(Len(s) - 1) : RemoveAt(s, i)[j] = IF j < i THEN s[j] ELSE s[j + 1]
    BY <2>1, RemoveAtFacts
  <2>3. RemoveAt(s, i) \in Seq(BufferNames) /\ Len(RemoveAt(s, i)) = Len(s) - 1
    BY <2>1, RemoveAtFacts
  <2> QED BY <2>2, <2>3
<1> HIDE DEF r
<1>2. /\ t \in Seq(BufferNames) /\ Len(t) = Len(s) /\ t[Len(s)] = dst
      /\ DOMAIN t = 1..Len(s)
      /\ \A j \in 1..(Len(s) - 1) : t[j] = s[old(j)]
  BY <1>1
<1> HIDE DEF t
<1>3. \A j \in 1..(Len(s) - 1) : old(j) \in 1..Len(s) /\ old(j) # i
  OBVIOUS
<1>4. \A j, k \in 1..(Len(s) - 1) : old(j) = old(k) => j = k
  OBVIOUS
<1>5. \A j \in 1..Len(s) : s[j] \in d
  BY DEF ListOf, Elements
<1>6. \A j \in 1..(Len(s) - 1) : t[j] \in d \ {s[i]}
  <2> HIDE DEF old
  <2> QED BY <1>2, <1>3, <1>5 DEF ListOf, Distinct
<1>7. Distinct(t)
  <2> HIDE DEF old
  <2> SUFFICES ASSUME NEW j \in 1..Len(s), NEW k \in 1..Len(s), t[j] = t[k]
               PROVE  j = k
    BY <1>2 DEF Distinct
  <2>1. CASE j < Len(s) /\ k < Len(s)
    <3>1. j \in 1..(Len(s) - 1) /\ k \in 1..(Len(s) - 1)
      BY <2>1
    <3>2. s[old(j)] = s[old(k)]
      BY <3>1, <1>2
    <3> QED BY <3>1, <3>2, <1>3, <1>4 DEF ListOf, Distinct
  <2>2. CASE j = Len(s) /\ k < Len(s)
    <3>1. k \in 1..(Len(s) - 1)
      BY <2>2
    <3> QED BY <3>1, <2>2, <1>2, <1>6
  <2>3. CASE j < Len(s) /\ k = Len(s)
    <3>1. j \in 1..(Len(s) - 1)
      BY <2>3
    <3> QED BY <3>1, <2>3, <1>2, <1>6
  <2> QED BY <2>1, <2>2, <2>3
<1>8. Elements(t) \subseteq (d \ {s[i]}) \cup {dst}
  <2>1. \A j \in 1..Len(s) : t[j] \in (d \ {s[i]}) \cup {dst}
    BY <1>2, <1>6
  <2> QED BY <1>2, <2>1 DEF Elements
<1>9. new = t[Len(s) - 1] /\ Len(s) - 1 \in 1..Len(s)
  <2>1. old(Len(s) - 1) = Len(s) /\ Len(s) - 1 \in 1..(Len(s) - 1)
    OBVIOUS
  <2> HIDE DEF old
  <2> QED BY <2>1, <1>2 DEF ListOf
<1>10. new \in Elements(t)
  BY <1>9, <1>2 DEF Elements
<1>11. Len(t) > 2 => new # t[1]
  BY <1>9, <1>7, <1>2 DEF Distinct
<1> QED BY <1>2, <1>7, <1>8, <1>10, <1>11 DEF ListOf, t, r

LEMMA TrimKeepsList ==
    ASSUME NEW s \in Seq(BufferNames), NEW d, NEW e, NEW new, ListOf(s, d, new, "trim"),
           Len(s) > 2, e = d \/ e = d \ {Head(s)}
    PROVE  Tail(s) \in Seq(BufferNames) /\ Len(Tail(s)) = Len(s) - 1
           /\ ListOf(Tail(s), e, new, "loop")
<1> DEFINE t == Tail(s)
<1>1. /\ t \in Seq(BufferNames) /\ Len(t) = Len(s) - 1 /\ Head(s) = s[1]
      /\ DOMAIN t = 1..(Len(s) - 1)
      /\ \A j \in 1..(Len(s) - 1) : t[j] = s[j + 1] /\ j + 1 \in 1..Len(s)
  OBVIOUS
<1> HIDE DEF t
<1>2. Distinct(t)
  <2> SUFFICES ASSUME NEW i \in 1..(Len(s) - 1), NEW j \in 1..(Len(s) - 1), t[i] = t[j]
               PROVE  i = j
    BY <1>1 DEF Distinct
  <2>1. s[i + 1] = s[j + 1] /\ i + 1 \in 1..Len(s) /\ j + 1 \in 1..Len(s)
    BY <1>1
  <2>2. i + 1 = j + 1
    BY <2>1 DEF ListOf, Distinct
  <2> QED BY <2>2
<1>3. \A j \in 1..(Len(s) - 1) : t[j] # s[1] /\ t[j] \in d
  <2> SUFFICES ASSUME NEW j \in 1..(Len(s) - 1)
               PROVE  t[j] # s[1] /\ t[j] \in d
    OBVIOUS
  <2>1. t[j] = s[j + 1] /\ j + 1 \in 1..Len(s) /\ 1 \in 1..Len(s) /\ j + 1 # 1
    BY <1>1
  <2> QED BY <2>1 DEF ListOf, Distinct, Elements
<1>4. Elements(t) \subseteq e
  BY <1>1, <1>3 DEF Elements
<1>5. new # "none" => new \in Elements(t)
  <2> SUFFICES ASSUME new # "none" PROVE new \in Elements(t)
    OBVIOUS
  <2>1. PICK k \in 1..Len(s) : new = s[k]
    BY DEF ListOf, Elements
  <2>2. k # 1
    BY <2>1 DEF ListOf
  <2>3. k - 1 \in 1..(Len(s) - 1) /\ (k - 1) + 1 = k
    BY <2>2
  <2> QED BY <2>1, <2>3, <1>1 DEF Elements
<1> QED BY <1>1, <1>2, <1>4, <1>5 DEF ListOf, t

\* No more than Keep names, but for the rounds that were cut short and for the
\* round in progress.
Bounded(s, cut, at) ==
    /\ Len(s) <= Keep + cut + 1
    /\ at \notin {"rename", "trim"} => Len(s) <= Keep + cut

BufferInv ==
    /\ BufferTypeOK
    /\ list \in [BufferWriters -> Seq(BufferNames)]
    /\ workload = "extent_buffer" => \A w \in BufferWriters :
          ListOf(list[w], dir[w], newest[w], pc[w]) /\ Bounded(list[w], skipped[w], pc[w])
    /\ workload # "extent_buffer" => \A w \in BufferWriters : list[w] = <<>> /\ newest[w] = "none"

LEMMA BufferThreadsAre ==
    ASSUME RunInv, workload = "extent_buffer"
    PROVE  /\ Members = 1..BufferThreads /\ BufferWriters \subseteq Members
           /\ \A t \in Members : threads[t] = "creator" <=> t \in BufferWriters
<1>1. BufferThreads \in Nat /\ threads = BufferTeam
  BY BufferAssumption DEF RunInv, TeamOf, BufferAssumption, Workloads
<1> QED BY <1>1 DEF BufferTeam, BufferWriters, WriterNumbers, Members

\* What a writer knows of its list does not depend on places it is not at.
LEMMA PlacesForget ==
    ASSUME NEW s \in Seq(BufferNames), NEW d, NEW new, NEW from, NEW to, NEW cut \in Nat,
           ListOf(s, d, new, from), Bounded(s, cut, from),
           to \notin {"rename", "trim"}, from \notin {"rename", "trim"}
    PROVE  ListOf(s, d, new, to) /\ Bounded(s, cut, to)
BY DEF ListOf, Bounded

LEMMA WriterKeepsList ==
    ASSUME RunInv, BufferInv, workload = "extent_buffer",
           NEW w \in BufferWriters, BufferWriter(w)
    PROVE  /\ list' \in [BufferWriters -> Seq(BufferNames)]
           /\ \A u \in BufferWriters \ {w} : UNCHANGED <<list[u], dir[u], newest[u], skipped[u], pc[u]>>
           /\ ListOf(list[w], dir[w], newest[w], pc[w])' /\ Bounded(list[w], skipped[w], pc[w])'
<1>a. /\ Len(list[w]) \in Nat /\ skipped[w] \in Nat /\ Keep \in Nat /\ Keep > 1
      /\ list[w] \in Seq(BufferNames)
  <2>1. list[w] \in Seq(BufferNames)
    BY DEF BufferInv
  <2>2. skipped[w] \in Nat
    BY DEF BufferInv, BufferTypeOK
  <2>3. Keep \in Nat /\ Keep > 1
    BY BufferAssumption DEF BufferAssumption
  <2> QED BY <2>1, <2>2, <2>3
<1>b. w \in Members /\ DOMAIN pc = Members /\ BufferWriters \subseteq Members
  BY BufferThreadsAre DEF RunInv, RunTypeOK
<1>1. /\ w \in Members /\ DOMAIN pc = Members /\ BufferWriters \subseteq Members
      /\ list[w] \in Seq(BufferNames) /\ Len(list[w]) \in Nat /\ skipped[w] \in Nat
      /\ ListOf(list[w], dir[w], newest[w], pc[w]) /\ Bounded(list[w], skipped[w], pc[w])
  BY <1>a, <1>b DEF BufferInv
<1>2. /\ DOMAIN list = BufferWriters /\ DOMAIN dir = BufferWriters
      /\ DOMAIN newest = BufferWriters /\ DOMAIN skipped = BufferWriters
  BY DEF BufferInv, BufferTypeOK
<1>3. CASE (Prepare(w) \/ Round(w, "create") \/ Leave(w)) /\ UNCHANGED bufferVars
  <2>1. /\ pc[w] \notin {"rename", "trim"} /\ pc'[w] \notin {"rename", "trim"}
        /\ \A u \in BufferWriters \ {w} : pc'[u] = pc[u]
    BY SMTT(30), <1>1, <1>3 DEF Prepare, Round, Leave, Move, Runs, Goes
  <2> QED BY <1>1, <1>3, <2>1, PlacesForget DEF bufferVars, BufferInv
<1>4. CASE BufferCreate(w)
  <2>1. PICK n \in Unused(w) :
          \/ /\ Move(w, "create", "rename")
             /\ dir' = [dir EXCEPT ![w] = @ \cup {n}]
             /\ list' = [list EXCEPT ![w] = Append(@, n)]
             /\ newest' = [newest EXCEPT ![w] = n]
             /\ UNCHANGED <<skipped, target>>
          \/ /\ Move(w, "create", "loop")
             /\ \/ dir' = [dir EXCEPT ![w] = @ \cup {n}]
                \/ UNCHANGED dir
             /\ newest' = [newest EXCEPT ![w] = "none"]
             /\ UNCHANGED <<list, skipped, target>>
    BY <1>4 DEF BufferCreate
  <2>2. CASE Move(w, "create", "rename") /\ list' = [list EXCEPT ![w] = Append(@, n)]
    <3>1. /\ dir' = [dir EXCEPT ![w] = @ \cup {n}] /\ newest' = [newest EXCEPT ![w] = n]
          /\ UNCHANGED skipped
      BY <1>1, <1>2, <2>1, <2>2 DEF Move, Goes
    <3>2. ListOf(list'[w], dir'[w], newest'[w], pc'[w])
      <4>1. n \in BufferNames \ dir[w]
        BY DEF Unused
      <4> QED BY <1>1, <1>2, <2>2, <3>1, <4>1, CreateKeepsList DEF Move, Goes
    <3>3. Append(list[w], n) \in Seq(BufferNames) /\ Len(Append(list[w], n)) = Len(list[w]) + 1
      <4>1. n \in BufferNames
        BY DEF Unused
      <4> QED BY <1>a, <4>1
    <3>4. Bounded(list'[w], skipped'[w], pc'[w])
      <4>1. /\ pc[w] = "create" /\ pc'[w] = "rename" /\ list'[w] = Append(list[w], n)
            /\ skipped'[w] = skipped[w]
        BY <1>1, <1>2, <2>2, <3>1 DEF Move, Runs, Goes
      <4>2. Len(list[w]) <= Keep + skipped[w]
        BY <1>1, <4>1 DEF Bounded
      <4> QED BY <1>a, <3>3, <4>1, <4>2 DEF Bounded
    <3> QED BY <1>1, <1>2, <2>2, <3>1, <3>2, <3>3, <3>4 DEF BufferInv, Move, Goes
  <2>3. CASE Move(w, "create", "loop") /\ UNCHANGED list
    <3>1. /\ dir' = [dir EXCEPT ![w] = @ \cup {n}] \/ dir' = dir
          /\ newest' = [newest EXCEPT ![w] = "none"] /\ UNCHANGED skipped
      BY <1>1, <1>2, <2>1, <2>3 DEF Move, Goes
    <3>2. dir[w] \subseteq dir'[w] /\ newest'[w] = "none" /\ pc'[w] = "loop" /\ pc[w] = "create"
      BY <1>1, <1>2, <2>3, <3>1 DEF Move, Runs, Goes
    <3>3. ListOf(list'[w], dir'[w], newest'[w], pc'[w])
      BY <1>1, <2>3, <3>2 DEF ListOf
    <3>4. Bounded(list'[w], skipped'[w], pc'[w])
      BY <1>1, <2>3, <3>1, <3>2 DEF Bounded
    <3> QED BY <1>1, <1>2, <2>3, <3>1, <3>3, <3>4 DEF BufferInv, Move, Goes
  <2> QED BY <2>1, <2>2, <2>3
<1>5. CASE BufferRename(w)
  <2>1. CASE UNCHANGED newest /\ UNCHANGED skipped /\ \E i \in Older(w), dst \in Unused(w) :
               Move(w, "rename", "trim") /\ MovedTo(w, i, dst)
    <3>1. PICK i \in 1..(Len(list[w]) - 1), dst \in BufferNames \ dir[w] :
             Move(w, "rename", "trim") /\ MovedTo(w, i, dst)
      BY <2>1 DEF Older, Unused
    <3> DEFINE t == Append(RemoveAt(list[w], i), dst)
    <3>2. ListOf(list[w], dir[w], newest[w], "rename") /\ pc[w] = "rename" /\ pc'[w] = "trim"
      BY <1>1, <3>1 DEF Move, Runs, Goes
    <3>3. /\ t \in Seq(BufferNames) /\ Len(t) = Len(list[w])
          /\ ListOf(t, (dir[w] \ {list[w][i]}) \cup {dst}, newest[w], "trim")
      BY <1>1, <3>2, RenameKeepsList
    <3>4. list' = [list EXCEPT ![w] = t] /\ dir' = [dir EXCEPT ![w] = (dir[w] \ {list[w][i]}) \cup {dst}]
      BY <1>2, <3>1 DEF MovedTo
    <3> HIDE DEF t
    <3>5. Bounded(t, skipped[w], "trim")
      BY <1>1, <3>2, <3>3 DEF Bounded
    <3> QED BY <1>1, <1>2, <2>1, <3>1, <3>2, <3>3, <3>4, <3>5 DEF BufferInv, Move, Goes
  <2>2. CASE /\ Move(w, "rename", "loop") /\ skipped' = [skipped EXCEPT ![w] = @ + 1]
             /\ UNCHANGED <<dir, list, newest, target>>
    <3>1. pc[w] = "rename" /\ pc'[w] = "loop" /\ skipped'[w] = skipped[w] + 1
      BY <1>1, <1>2, <2>2 DEF Move, Runs, Goes
    <3>2. ListOf(list[w], dir[w], newest[w], "loop")
      BY <1>1 DEF ListOf
    <3>3. Bounded(list[w], skipped'[w], "loop")
      <4>1. Len(list[w]) <= Keep + skipped[w] + 1
        BY <1>1 DEF Bounded
      <4> QED BY <1>a, <3>1, <4>1 DEF Bounded
    <3> QED BY <1>1, <1>2, <2>2, <3>1, <3>2, <3>3 DEF BufferInv, Move, Goes
  <2>3. CASE Older(w) = {} /\ Move(w, "rename", "trim") /\ UNCHANGED bufferVars
    <3>1. ~(Len(list[w]) > 1) /\ pc[w] = "rename" /\ pc'[w] = "trim"
      <4>1. Len(list[w]) > 1 => 1 \in 1..(Len(list[w]) - 1)
        BY <1>a
      <4> QED BY <1>1, <2>3, <4>1 DEF Older, Move, Runs, Goes
    <3>2. ListOf(list[w], dir[w], newest[w], "trim")
      <4>1. ~(Len(list[w]) > 2)
        BY <1>a, <3>1
      <4> QED BY <1>1, <4>1 DEF ListOf
    <3> QED BY <1>1, <2>3, <3>1, <3>2 DEF BufferInv, Bounded, bufferVars, Move, Goes
  <2> QED BY <1>5, <2>1, <2>2, <2>3 DEF BufferRename
<1>6. CASE BufferTrim(w)
  <2>1. pc[w] = "trim" /\ pc'[w] = "loop" /\ UNCHANGED <<newest, skipped>>
    BY <1>1, <1>6 DEF BufferTrim, Move, Runs, Goes
  <2>2. CASE Len(list[w]) > Keep
    <3>1. /\ list' = [list EXCEPT ![w] = Tail(list[w])]
          /\ dir' = [dir EXCEPT ![w] = dir[w] \ {Head(list[w])}] \/ dir' = dir
      BY <1>2, <1>6, <2>2 DEF BufferTrim
    <3>2. Len(list[w]) > 2 /\ (dir'[w] = dir[w] \/ dir'[w] = dir[w] \ {Head(list[w])})
      <4>1. Len(list[w]) > 2
        BY <1>a, <2>2
      <4> QED BY <1>2, <3>1, <4>1
    <3>3. /\ Tail(list[w]) \in Seq(BufferNames) /\ Len(Tail(list[w])) = Len(list[w]) - 1
          /\ ListOf(Tail(list[w]), dir'[w], newest[w], "loop")
      BY <1>1, <2>1, <3>2, TrimKeepsList
    <3>4. Bounded(Tail(list[w]), skipped[w], "loop")
      <4>1. Len(list[w]) <= Keep + skipped[w] + 1
        BY <1>1 DEF Bounded
      <4> QED BY <1>a, <3>3, <4>1 DEF Bounded
    <3> QED BY <1>1, <1>2, <1>6, <2>1, <3>1, <3>3, <3>4 DEF BufferInv, BufferTrim, Move, Goes
  <2>3. CASE ~(Len(list[w]) > Keep)
    <3>1. UNCHANGED <<list, dir>>
      BY <1>6, <2>3 DEF BufferTrim
    <3>2. ListOf(list[w], dir[w], newest[w], "loop")
      BY <1>1 DEF ListOf
    <3>3. Bounded(list[w], skipped[w], "loop")
      BY <1>a, <2>3 DEF Bounded
    <3> QED BY <1>1, <1>6, <2>1, <3>1, <3>2, <3>3 DEF BufferInv, BufferTrim, Move, Goes
  <2> QED BY <2>2, <2>3
<1> QED BY <1>3, <1>4, <1>5, <1>6 DEF BufferWriter

LEMMA BufferInvKept ==
    ASSUME RunInv, workload = "snapshot" => mixed \in Nat, BufferInv, [Next]_vars
    PROVE  BufferInv'
<1>1. BufferTypeOK'
  BY BufferTypeKept DEF BufferInv
<1>2. workload' = workload
  BY WorkloadKept
<1>3. CASE workload # "extent_buffer" \/ UNCHANGED vars
  <2>1. UNCHANGED bufferVars
    BY <1>3 DEF Next, vars
  <2>2. UNCHANGED vars => UNCHANGED pc
    BY DEF vars, runVars
  <2> QED BY <1>1, <1>2, <1>3, <2>1, <2>2 DEF BufferInv, bufferVars
<1>4. CASE workload = "extent_buffer" /\ BufferNext
  <2>1. ASSUME UNCHANGED <<dir, list, newest, skipped>>,
               \A w \in BufferWriters : \/ pc'[w] = pc[w]
                                        \/ {pc[w], pc'[w]} \cap {"rename", "trim"} = {}
        PROVE  BufferInv'
    <3>1. \A w \in BufferWriters : list[w] \in Seq(BufferNames) /\ skipped[w] \in Nat
      BY DEF BufferInv, BufferTypeOK
    <3>2. ASSUME NEW w \in BufferWriters
          PROVE  ListOf(list[w], dir[w], newest[w], pc'[w]) /\ Bounded(list[w], skipped[w], pc'[w])
      BY <1>4, <2>1, <3>1, PlacesForget DEF BufferInv
    <3> QED BY <1>1, <1>2, <1>4, <2>1, <3>2 DEF BufferInv
  <2>2. CASE Main /\ UNCHANGED bufferVars
    <3>1. \A w \in BufferWriters : w \in Members
      BY <1>4, BufferThreadsAre
    <3> QED BY <2>1, <2>2, <3>1
            DEF Main, StartThreads, StopThreads, Join, Report, mainOnly, bufferVars, RunInv, RunTypeOK
  <2>3. ASSUME NEW w \in BufferWriters, BufferWriter(w)
        PROVE  BufferInv'
    <3>1. \A u \in BufferWriters : (ListOf(list[u], dir[u], newest[u], pc[u]) /\ Bounded(list[u], skipped[u], pc[u]))'
      BY <1>4, <2>3, WriterKeepsList DEF BufferInv
    <3> QED BY <1>1, <1>2, <1>4, <2>3, <3>1, WriterKeepsList DEF BufferInv
  <2>4. ASSUME NEW t \in Members \ BufferWriters, BufferReader(t) \/ BufferTruncate(t)
        PROVE  BufferInv'
    <3>1. UNCHANGED <<dir, list, newest, skipped>>
      BY <2>4 DEF BufferReader, BufferTruncate, bufferVars
    <3>2. BufferWriters \subseteq DOMAIN pc
      BY <1>4, BufferThreadsAre DEF RunInv, RunTypeOK
    <3>3. \E at : Goes(t, at)
      BY <2>4 DEF BufferReader, BufferTruncate, Round, Leave, Move
    <3>4. \A w \in BufferWriters : pc'[w] = pc[w]
      BY <2>4, <3>2, <3>3 DEF Goes
    <3> QED BY <2>1, <3>1, <3>4
  <2> QED BY <1>4, <2>2, <2>3, <2>4, BufferThreadsAre DEF BufferNext
<1> QED BY <1>3, <1>4 DEF Next

LEMMA ChainTypeKept ==
    ASSUME ChainTypeOK, [Next]_vars
    PROVE  ChainTypeOK'
<1> USE ChainAssumption DEF ChainTypeOK, ChainAssumption
<1>1. CASE UNCHANGED chainVars
  BY <1>1 DEF chainVars
<1>2. CASE ChainNext
  <2>1. CASE FinishOrdered \/ CommitProceeds
    BY <2>1 DEF FinishOrdered, FinishUnawaited, FinishAwaited, CommitProceeds
  <2>2. ASSUME NEW t \in Members, ChainThread(t)
        PROVE  ChainTypeOK'
    BY <2>2, <1>1 DEF ChainThread, Large, Xattr, Fallocate, Commit, Sync
  <2> QED BY <1>1, <1>2, <2>1, <2>2 DEF ChainNext, ChainMain
<1> QED BY <1>1, <1>2 DEF Next, vars

-----------------------------------------------------------------------------

Inv ==
    /\ RunInv /\ NeverOvercounts /\ SpaceInv /\ SnapInv /\ FsyncInv
    /\ BufferInv /\ ChainTypeOK

LEMMA InvAtStart == Init => Inv
<1> SUFFICES ASSUME Init PROVE Inv
  OBVIOUS
<1>1. PICK name \in Workloads : RunsOne(name)
  BY DEF Init
<1>2. RunInit(name, TeamOf(name), KeysOf(name))
  BY <1>1 DEF RunsOne, TeamOf, KeysOf, Workloads
<1>3. RunInv
  <2>1. "none" \notin KeysOf(name) /\ MaxRounds[name] \in Nat
    BY TeamsAreFinite, MaxRoundsAssumption DEF MaxRoundsAssumption
  <2>2. RunTypeOK
    <3>1. /\ pc \in [Members -> Places] /\ rounds \in 0..MaxRounds[workload]
          /\ stats \in [DOMAIN stats -> Nat] /\ successes \in [DOMAIN stats -> Nat]
      BY <1>2, <2>1 DEF RunInit, Members, Places
    <3>2. loaded \in [Members -> [key : DOMAIN stats \cup {"none"}, value : Nat]]
      BY <1>2 DEF RunInit, Members, NothingLoaded
    <3> QED BY <1>2, <3>1, <3>2 DEF RunInit, RunTypeOK
  <2> QED BY <1>2, <2>2 DEF RunInv, RunInit, Members, NothingLoaded
<1>4. NeverOvercounts
  <2>1. \A k \in DOMAIN stats : Storing(k) = {}
    BY <1>2, TeamsAreFinite DEF RunInit, Storing, Members, NothingLoaded
  <2> QED BY <1>2, <2>1, FS_EmptySet DEF RunInit, NeverOvercounts
<1>5. SpaceInv
  <2>1. workload = "space" => \A t \in 1..Hammers : pc[t] = "new"
    BY <1>2 DEF RunInit, TeamOf, SpaceTeam
  <2> QED BY <2>1 DEF Init, SpaceStart, SpaceInv, SpaceTypeOK, ListMatchesDisk
<1>6. SnapInv
  <2>1. SnapTypeOK
    <3>1. DOMAIN SnapTeam = 1..(SnapWriters + 1)
      BY DEF SnapTeam
    <3>2. writing \in [1..(SnapWriters + 1) -> [file : Files \cup {"none"}, pattern : Patterns \cup {"none"}]]
      BY <3>1 DEF Init, SnapStart, NotWriting
    <3>3. DOMAIN taken = {}
      BY DEF Init, SnapStart
    <3> QED BY <3>2, <3>3 DEF Init, SnapStart, SnapTypeOK
  <2>2. workload = "snapshot" => /\ stats.violations = 0 /\ main = "setup"
                                 /\ SnapThread \in Members
                                 /\ \A t \in Members : pc[t] = "new" /\ loaded[t].key = "none"
    BY <1>2, SnapAssumption
       DEF RunInit, TeamOf, KeysOf, SnapTeam, SnapThread, Members, NothingLoaded, SnapAssumption
  <2> QED BY <2>1, <2>2 DEF Init, SnapStart, SnapInv, OneUnverified
<1>7. FsyncInv
  <2>1. workload = "fsync" => \A t \in Members : pc[t] = "new" /\ t \in DOMAIN FsyncTeam
    BY <1>2 DEF RunInit, TeamOf, Members
  <2> QED BY <2>1 DEF Init, FsyncStart, FsyncInv, FsyncTypeOK, FsyncOf, DuplicatesAreReported, Shapes
<1>8. BufferInv
  <2>1. BufferTypeOK /\ list = [w \in BufferWriters |-> <<>>] /\ newest = [w \in BufferWriters |-> "none"]
    BY DEF Init, BufferStart, BufferTypeOK
  <2>2. workload = "extent_buffer" => \A w \in BufferWriters : pc[w] = "new"
    <3>1. workload = "extent_buffer" => RunInv /\ pc = [t \in Members |-> "new"]
      BY <1>2, <1>3 DEF RunInit, Members
    <3> QED BY <3>1, BufferThreadsAre
  <2>3. ASSUME NEW w \in BufferWriters, pc[w] = "new"
        PROVE  ListOf(list[w], dir[w], newest[w], pc[w]) /\ Bounded(list[w], skipped[w], pc[w])
    <3>1. list[w] = <<>> /\ newest[w] = "none" /\ skipped[w] \in Nat /\ Keep \in Nat
      BY <2>1, BufferAssumption DEF BufferTypeOK, BufferAssumption
    <3>2. Len(list[w]) = 0 /\ DOMAIN list[w] = {}
      BY <3>1
    <3>3. ListOf(list[w], dir[w], newest[w], pc[w])
      BY <2>3, <3>1, <3>2 DEF ListOf, Distinct, Elements
    <3>4. Bounded(list[w], skipped[w], pc[w])
      BY <3>1, <3>2 DEF Bounded
    <3> QED BY <3>3, <3>4
  <2>4. list \in [BufferWriters -> Seq(BufferNames)]
    BY <2>1
  <2> QED BY <2>1, <2>2, <2>3, <2>4 DEF BufferInv
<1>9. ChainTypeOK
  BY ChainAssumption DEF Init, ChainStart, ChainTypeOK, ChainAssumption
<1> QED BY <1>3, <1>4, <1>5, <1>6, <1>7, <1>8, <1>9 DEF Inv

LEMMA InvKept == Inv /\ [Next]_vars => Inv'
<1> SUFFICES ASSUME Inv, [Next]_vars PROVE Inv'
  OBVIOUS
<1>1. mixed \in Nat
  BY DEF Inv, SnapInv, SnapTypeOK
<1>2. RunStep
  BY <1>1, NextIsRun, StutterIsCalm DEF Inv, vars, RunStep
<1> QED BY <1>1, <1>2, RunInvKept, OvercountKept, SpaceInvKept, SnapInvKept, FsyncInvKept,
            BufferInvKept, ChainTypeKept DEF Inv

LEMMA AlwaysInv == Spec => []Inv
BY InvAtStart, InvKept, PTL DEF Spec

\* Every variable of every workload keeps its type.
THEOREM StressTypeCorrect == Spec => []StressTypeOK
<1>1. Inv => StressTypeOK
  BY DEF Inv, RunInv, SnapInv, SpaceInv, BufferInv, FsyncInv, StressTypeOK
<1> QED BY <1>1, AlwaysInv, PTL

\* However many threads raise a counter of the workload without a lock, it never
\* shows more than went through.
THEOREM CountersNeverOvercount == Spec => []NeverOvercounts
BY AlwaysInv, PTL DEF Inv

\* A hammer thread's list is its directory, but for what failed calls left.
THEOREM ListsMatchDisks == Spec => []ListMatchesDisk
<1>1. Inv => ListMatchesDisk
  BY DEF Inv, SpaceInv
<1> QED BY <1>1, AlwaysInv, PTL

\* With atomic snapshots no file is reported as mixed.
THEOREM NoMixIsFalse == Spec => []NoFalseMix
<1>1. Inv => NoFalseMix
  <2> SUFFICES ASSUME Inv, workload = "snapshot", stats.violations > 0
               PROVE  ~atomic
    BY DEF NoFalseMix
  <2>1. mixed \in Nat /\ stats.violations \in Nat
    BY SnapFacts DEF Inv, SnapInv, SnapTypeOK
  <2>2. foundMixed
    BY <2>1 DEF Inv, SnapInv
  <2> QED BY <2>2 DEF Inv, SnapInv
<1> QED BY <1>1, AlwaysInv, PTL

\* What the last line says of the snapshots is what the checks found.
THEOREM ClaimsAreConsistent == Spec => []ConsistentClaim
<1>1. Inv => ConsistentClaim
  <2> SUFFICES ASSUME Inv, workload = "snapshot", pc[SnapThread] = "exited"
               PROVE  (stats.violations > 0) = foundMixed
    BY DEF ConsistentClaim
  <2>1. mixed = 0 /\ stats.violations \in Nat /\ foundMixed \in BOOLEAN
    BY SnapFacts DEF Inv, SnapInv, SnapTypeOK
  <2>2. foundMixed <=> stats.violations > 0
    BY <2>1 DEF Inv, SnapInv
  <2> QED BY <2>1, <2>2
<1> QED BY <1>1, AlwaysInv, PTL

\* At most one snapshot on the disk has not been read.
THEOREM OneIsUnverified == Spec => []OneUnverified
<1>1. Inv => OneUnverified
  BY DEF Inv, SnapInv
<1> QED BY <1>1, AlwaysInv, PTL

\* The files a writer remembers exist, once each, no more than fifty but for the
\* rounds an error cut short, and the newest is among them.
THEOREM NewestFilesAreKept == Spec => []NewestAreKept
<1>1. Inv => NewestAreKept
  <2> SUFFICES ASSUME Inv, NEW w \in BufferWriters
               PROVE  /\ workload = "extent_buffer" =>
                            Len(list[w]) <= Keep + skipped[w]
                                            + (IF pc[w] \in {"rename", "trim"} THEN 1 ELSE 0)
                      /\ newest[w] # "none" => newest[w] \in Listed(w)
                      /\ Listed(w) \subseteq dir[w] /\ Cardinality(Listed(w)) = Len(list[w])
    BY DEF NewestAreKept
  <2>1. /\ Listed(w) = Elements(list[w]) /\ list[w] \in Seq(BufferNames)
        /\ Len(list[w]) \in Nat /\ skipped[w] \in Nat /\ Keep \in Nat
    BY BufferAssumption DEF Inv, BufferInv, BufferTypeOK, Listed, Elements, BufferAssumption
  <2>2. CASE workload = "extent_buffer"
    <3>1. ListOf(list[w], dir[w], newest[w], pc[w]) /\ Bounded(list[w], skipped[w], pc[w])
      BY <2>2 DEF Inv, BufferInv
    <3>2. Cardinality(Listed(w)) = Len(list[w])
      BY <2>1, <3>1, DistinctAreCounted DEF ListOf
    <3>3. Len(list[w]) <= Keep + skipped[w] + (IF pc[w] \in {"rename", "trim"} THEN 1 ELSE 0)
      BY <2>1, <3>1 DEF Bounded
    <3> QED BY <2>1, <3>1, <3>2, <3>3 DEF ListOf
  <2>3. CASE workload # "extent_buffer"
    <3>1. list[w] = <<>> /\ newest[w] = "none"
      BY <2>3 DEF Inv, BufferInv
    <3>2. Listed(w) = {} /\ Len(list[w]) = 0
      BY <3>1 DEF Listed
    <3> QED BY <2>3, <3>1, <3>2, FS_EmptySet
  <2> QED BY <2>2, <2>3
<1> QED BY <1>1, AlwaysInv, PTL

\* An fsync that logs an overlap is reported, one on a kernel that locks is not.
THEOREM FsyncDuplicatesAreReported == Spec => []DuplicatesAreReported
<1>1. Inv => DuplicatesAreReported
  BY DEF Inv, FsyncInv
<1> QED BY <1>1, AlwaysInv, PTL

-----------------------------------------------------------------------------
(* Waiting in sync().                                                      *)

\* A thread that waits, waits for a commit.
WaitsForCommit ==
    workload = "chain" /\ (\E t \in Members : pc[t] = "waiting") => tx # "RUNNING"

\* A thread's step moves no other, and it starts to wait only in sync(), from
\* where it does not go on by itself.
Waits(t) ==
    /\ \A u \in Members \ {t} : pc'[u] = pc[u]
    /\ pc[t] # "waiting"
    /\ pc'[t] = "waiting" => Sync(t)

LEMMA ThreadWaits ==
    ASSUME RunInv, workload = "chain", NEW t \in Members, ChainThread(t)
    PROVE  Waits(t)
<1> USE DEF RunInv, RunTypeOK, Waits, Runs, Goes
<1>1. CASE \/ \E step \in {"write", "join", "sync"} : Round(t, step)
           \/ \E from \in {"write", "trim", "unlink", "join"}, to \in {"loop", "unlink"} :
                 Move(t, from, to)
           \/ Prepare(t) \/ Leave(t)
  BY <1>1 DEF Round, Move, Prepare, Leave
<1>2. CASE \/ Count(t, "loop") \/ Count(t, "trim")
           \/ \E from \in {"write", "join", "synced"}, key \in DOMAIN stats : Succeed(t, from, key)
  BY <1>2 DEF Count, Succeed
<1>3. CASE Sync(t)
  BY <1>3 DEF Sync, Move
<1>4. Large(t) \/ Xattr(t) \/ Fallocate(t) \/ Commit(t)
  BY DEF ChainThread
<1>5. {"large_writes", "xattrs", "commits", "fallocates"} = DOMAIN stats
  BY DEF KeysOf
<1> QED BY <1>1, <1>2, <1>3, <1>4, <1>5 DEF Large, Xattr, Fallocate, Commit

\* Nobody but sync() and the commit itself changes the state of the transaction.
LEMMA ThreadCommits ==
    ASSUME NEW t \in Members, ChainThread(t)
    PROVE  /\ UNCHANGED <<threads, workload, fixedJoin>>
           /\ UNCHANGED <<tx, awaited>> \/ (Sync(t) /\ tx = "RUNNING")
           /\ Sync(t) => tx' # "RUNNING"
  BY DEF ChainThread, Large, Xattr, Fallocate, Commit, Sync, chainVars, Move, Round, Prepare, Leave, Count, Succeed, threadOnly

LEMMA MainWaits ==
    ASSUME RunInv, ChainMain
    PROVE  /\ UNCHANGED <<threads, workload, chainVars>>
           /\ \A t \in Members : pc'[t] = "waiting" <=> pc[t] = "waiting"
  BY DEF RunInv, RunTypeOK, ChainMain, Main, StartThreads, StopThreads, Join, Report, mainOnly

LEMMA WaitsForCommitKept ==
    ASSUME RunInv, ChainTypeOK, WaitsForCommit, workload = "chain", ChainNext
    PROVE  WaitsForCommit'
<1> USE DEF WaitsForCommit, Members
<1>1. CASE ChainMain
  BY <1>1, MainWaits DEF chainVars
<1>2. CASE FinishOrdered
  BY <1>2 DEF FinishOrdered, FinishUnawaited, FinishAwaited, runVars
<1>3. CASE CommitProceeds
  BY <1>3 DEF CommitProceeds, threadOnly
<1>4. ASSUME NEW t \in Members, ChainThread(t) PROVE WaitsForCommit'
  BY <1>4, ThreadWaits, ThreadCommits DEF Waits
<1> QED BY <1>1, <1>2, <1>3, <1>4 DEF ChainNext

\* A sync() waits for a commit that goes on, or for a deadlocked one.
THEOREM SyncsAreAlwaysServed == Spec => []SyncsAreServed
<1>1. Init => WaitsForCommit
  BY DEF Init, RunsOne, RunInit, WaitsForCommit, Members, Workloads, SnapTeam, ChainTeam
<1>2. Inv /\ WaitsForCommit /\ [Next]_vars => WaitsForCommit'
  <2> SUFFICES ASSUME Inv, WaitsForCommit, [Next]_vars PROVE WaitsForCommit'
    OBVIOUS
  <2>1. workload' = workload
    BY WorkloadKept DEF Inv, SnapInv, SnapTypeOK
  <2>2. CASE workload # "chain"
    BY <2>1, <2>2 DEF WaitsForCommit
  <2>3. CASE workload = "chain" /\ Next
    BY <2>3, WaitsForCommitKept DEF Next, Inv
  <2>4. CASE UNCHANGED vars
    BY <2>4 DEF vars, runVars, chainVars, WaitsForCommit, Members
  <2> QED BY <2>2, <2>3, <2>4
<1>3. Inv /\ WaitsForCommit => SyncsAreServed
  BY DEF Inv, ChainTypeOK, WaitsForCommit, SyncsAreServed, Deadlocked, JoinableNow
<1> QED BY <1>1, <1>2, <1>3, AlwaysInv, PTL DEF Spec

\* The faulty kernel's deadlock is one: no step of anybody ends it.
THEOREM DeadlocksAreForEver == Spec => DeadlockIsForEver
<1> DEFINE Step == workload = "chain" /\ Deadlocked =>
                      /\ Deadlocked'
                      /\ \A t \in Members : pc[t] = "waiting" => pc'[t] = "waiting"
<1>1. Inv /\ [Next]_vars => [Step]_<<chainVars, pc>>
  <2> SUFFICES ASSUME Inv, Next, workload = "chain", Deadlocked
               PROVE  Deadlocked' /\ \A t \in Members : pc[t] = "waiting" => pc'[t] = "waiting"
    BY DEF vars, runVars
  <2>1. ChainNext /\ RunInv /\ ChainTypeOK
    BY DEF Next, Inv
  <2> USE DEF Deadlocked
  <2>2. CASE ChainMain
    BY <2>1, <2>2, MainWaits DEF chainVars
  <2>3. CASE FinishOrdered \/ CommitProceeds
    BY <2>1, <2>3 DEF FinishOrdered, FinishUnawaited, FinishAwaited, CommitProceeds, JoinableNow, ChainTypeOK
  <2>4. ASSUME NEW t \in Members, ChainThread(t)
        PROVE  Deadlocked' /\ \A u \in Members : pc[u] = "waiting" => pc'[u] = "waiting"
    BY <2>1, <2>4, ThreadWaits, ThreadCommits DEF Waits
  <2> QED BY <2>1, <2>2, <2>3, <2>4 DEF ChainNext
<1> QED BY <1>1, AlwaysInv, PTL DEF Spec, DeadlockIsForEver
=============================================================================
