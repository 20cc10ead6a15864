---------------------------- MODULE SnapshotStress ----------------------------
(***************************************************************************)
(* The snapshot-creation workload.  Writers replace whole files by one of  *)
(* two patterns while one thread creates a snapshot, reads every file in   *)
(* it, deletes it and goes on to the next name.  The btrfs commands are    *)
(* given ten seconds; one that is killed may have done its work or not.    *)
(***************************************************************************)
EXTENDS StressRun

CONSTANTS Files, SnapWriters

ASSUME SnapAssumption == IsFiniteSet(Files) /\ SnapWriters \in Nat

VARIABLES
    atomic,     \* the kernel: a snapshot sees a write whole or not at all
    content,    \* by file of the source subvolume
    writing,    \* by thread: the file and the pattern it is writing
    taken,      \* by number: the content of each snapshot on the disk
    snap_n,
    mixed,      \* files the last check found with unexpected content
    verified,   \* numbers of the snapshots that were checked
    foundMixed  \* some check has found unexpected content

snapVars == <<atomic, content, writing, taken, snap_n, mixed, verified, foundMixed>>
snapDisk == <<atomic, content, taken>>

Patterns == {"A", "B"}
NotWriting == [file |-> "none", pattern |-> "none"]

\* The writers first, the snapshot thread last.
SnapTeam == [i \in 1..(SnapWriters + 1) |-> IF i <= SnapWriters THEN "writer" ELSE "snap"]

SnapThread == SnapWriters + 1

SnapStart ==
    /\ atomic \in BOOLEAN
    /\ content = [f \in Files |-> "empty"]
    /\ writing = [t \in DOMAIN SnapTeam |-> NotWriting]
    /\ taken = <<>> /\ snap_n = 0 /\ mixed = 0
    /\ verified = {} /\ foundMixed = FALSE

\* Mutant: the threads start before the files are written.
SnapSetupLate ==
    /\ StartThreads
    /\ UNCHANGED snapVars

\* Every file holds pattern A before the first thread starts.
SnapSetup ==
    /\ StartThreads
    /\ content' = [f \in Files |-> "A"]
    /\ UNCHANGED <<atomic, writing, taken, snap_n, mixed, verified, foundMixed>>

\* The subvolume is there already, from an earlier run: check=True raises.
SnapSetupFails ==
    /\ main = "setup" /\ main' = "failed"
    /\ UNCHANGED <<stop, pc, mainOnly, snapVars>>

SnapMain ==
    \/ SnapSetup \/ SnapSetupFails
    \/ (StopThreads \/ Join \/ Report) /\ UNCHANGED snapVars

-----------------------------------------------------------------------------
(* A writer.                                                               *)

\* The inode lock keeps writers of one file apart.
SnapOpen(t) ==
    \E f \in Files, p \in Patterns :
        /\ \A u \in Members : writing[u].file # f
        /\ Move(t, "write", "written")
        /\ writing' = [writing EXCEPT ![t] = [file |-> f, pattern |-> p]]
        /\ content' = IF atomic THEN content ELSE [content EXCEPT ![f] = "mixed"]
        /\ UNCHANGED <<atomic, taken, snap_n, mixed, verified, foundMixed>>

SnapWritten(t) ==
    /\ Succeed(t, "written", "writes")
    /\ content' = [content EXCEPT ![writing[t].file] = writing[t].pattern]
    /\ writing' = [writing EXCEPT ![t] = NotWriting]
    /\ UNCHANGED <<atomic, taken, snap_n, mixed, verified, foundMixed>>

SnapWriter(t) ==
    \/ (Round(t, "write") \/ Move(t, "write", "loop") \/ Count(t, "loop") \/ Leave(t))
       /\ UNCHANGED snapVars
    \/ SnapOpen(t) \/ SnapWritten(t)

-----------------------------------------------------------------------------
(* The snapshot thread.                                                    *)

SnapExists(n) == n \in DOMAIN taken

Take ==
    /\ taken' = [n \in DOMAIN taken \cup {snap_n} |->
                    IF n = snap_n THEN content ELSE taken[n]]
    /\ verified' = verified \ {snap_n}
Untake == taken' = [n \in DOMAIN taken \ {snap_n} |-> taken[n]]

\* The command succeeds only under a new name.
SnapCreated(t) ==
    /\ ~SnapExists(snap_n) /\ Succeed(t, "create", "snapshots") /\ Take
    /\ UNCHANGED <<atomic, content, writing, snap_n, mixed, foundMixed>>

\* It is killed by the timeout after it has done its work.
SnapCreateTimesOut(t) ==
    /\ ~SnapExists(snap_n) /\ Move(t, "create", "loop") /\ Take
    /\ UNCHANGED <<atomic, content, writing, snap_n, mixed, foundMixed>>

Unexpected(readable) == {f \in readable : taken[snap_n][f] \notin Patterns}

\* A file that cannot be opened is passed over.
SnapCheck(t) ==
    \E readable \in SUBSET Files :
        /\ Move(t, "check", "tally")
        /\ mixed' = Cardinality(Unexpected(readable))
        /\ verified' = verified \cup {snap_n}
        /\ foundMixed' = (foundMixed \/ Unexpected(readable) # {})
        /\ UNCHANGED <<snapDisk, writing, snap_n>>

\* Mutant: the counter shows the last check.
SnapTallyLast(t) ==
    /\ Runs(t, "tally") /\ Goes(t, "delete")
    /\ stats' = [stats EXCEPT !.violations = mixed]
    /\ successes' = [successes EXCEPT !.violations = @ + mixed]
    /\ mixed' = 0
    /\ UNCHANGED <<threadOnly, loaded, rounds, snapDisk, writing, snap_n, verified, foundMixed>>

\* The only thread that counts violations.
SnapTally(t) ==
    /\ Runs(t, "tally") /\ Goes(t, "delete")
    /\ stats' = [stats EXCEPT !.violations = @ + mixed]
    /\ successes' = [successes EXCEPT !.violations = @ + mixed]
    /\ mixed' = 0
    /\ UNCHANGED <<threadOnly, loaded, rounds, snapDisk, writing, snap_n, verified, foundMixed>>

\* Mutant: the next name is chosen before the snapshot is made.
SnapNextNameFirst(t) ==
    /\ Round(t, "create") /\ snap_n' = snap_n + 1
    /\ UNCHANGED <<snapDisk, writing, mixed, verified, foundMixed>>

SnapBegin(t) == Round(t, "create") /\ UNCHANGED snapVars

\* The exit status of the deletion is not looked at.
SnapDelete(t) ==
    /\ Move(t, "delete", "loop")
    /\ snap_n' = snap_n + 1
    /\ Untake \/ UNCHANGED taken
    /\ UNCHANGED <<atomic, content, writing, mixed, verified, foundMixed>>

\* Killed by the timeout, the name stays the same.
SnapDeleteTimesOut(t) ==
    /\ Move(t, "delete", "loop")
    /\ Untake \/ UNCHANGED taken
    /\ UNCHANGED <<atomic, content, writing, snap_n, mixed, verified, foundMixed>>

SnapSnapshots(t) ==
    \/ (Move(t, "create", "loop") \/ Count(t, "check") \/ Leave(t)) /\ UNCHANGED snapVars
    \/ SnapBegin(t) \/ SnapCreated(t) \/ SnapCreateTimesOut(t) \/ SnapCheck(t)
    \/ SnapTally(t) \/ SnapDelete(t) \/ SnapDeleteTimesOut(t)

SnapNext ==
    \/ SnapMain
    \/ \E t \in Members : IF threads[t] = "writer" THEN SnapWriter(t) ELSE SnapSnapshots(t)

-----------------------------------------------------------------------------
(* Properties.                                                             *)

SnapTypeOK ==
    /\ atomic \in BOOLEAN
    /\ content \in [Files -> Patterns \cup {"empty", "mixed"}]
    /\ writing \in [1..(SnapWriters + 1) -> [file : Files \cup {"none"},
                                             pattern : Patterns \cup {"none"}]]
    /\ \A n \in DOMAIN taken : n \in Nat /\ taken[n] \in [Files -> Patterns \cup {"empty", "mixed"}]
    /\ snap_n \in Nat /\ mixed \in Nat
    /\ verified \subseteq Nat /\ foundMixed \in BOOLEAN

\* On a kernel whose snapshots are atomic no file is ever reported, whatever
\* the writers do and whichever commands time out.
NoFalseMix == workload = "snapshot" /\ stats.violations > 0 => ~atomic

\* The last line says "All snapshots were consistent" when the count is zero.
\* If the snapshot thread was seen to exit, that is what its checks found.
ConsistentClaim ==
    workload = "snapshot" /\ main = "done" /\ pc[SnapThread] = "exited" =>
        (stats.violations > 0) = foundMixed

\* Timeouts can leave one snapshot unchecked and no more: its name is then
\* never passed, so every other snapshot on the disk was read.
OneUnverified == DOMAIN taken \ verified \subseteq {snap_n}
=============================================================================
