----------------------------- MODULE FsyncStress -----------------------------
(***************************************************************************)
(* The fsync-log-tree workload on a kernel, with the tracer and the        *)
(* checker.  A file is a block of data and PreallocBlocks preallocated     *)
(* blocks beyond its end.  Some threads fsync files, some write the block  *)
(* after the data, and some truncate a file and preallocate again.  An     *)
(* fsync logs the extents of the map it has read; on the faulty kernel the *)
(* map can change meanwhile and what is new in it is logged as well.       *)
(***************************************************************************)
EXTENDS StressRun

CONSTANTS
    FsyncFiles,
    PreallocBlocks,
    FsyncThreads    \* --threads

ASSUME FsyncAssumption ==
    PreallocBlocks \in Nat \ {0} /\ FsyncThreads \in Nat /\ "none" \notin FsyncFiles

VARIABLES
    lockedLog,      \* the kernel: writes wait while extents are logged
    extents,        \* by file: its <<start, length>> extents beyond the data
    path,           \* by thread: the file of this round
    toLog, logged,  \* by thread: extents its fsync has yet to log, has logged
    attached,       \* the probes are live
    whole,          \* threads in an fsync that began under the probes
    log_extents,    \* the checker: by thread, what it has seen logged
    reported,       \* the rules by which the checker has reported violations:
                    \* "overlap" and "drop"
    duplicated      \* a whole traced fsync has logged an overlap

kernelVars  == <<lockedLog, extents, path, toLog, logged>>
checkerVars == <<attached, whole, log_extents, reported, duplicated>>
fsyncVars   == <<kernelVars, checkerVars>>

FsyncTeam ==
    [i \in 1..(2 * FsyncThreads
               + (IF FsyncThreads \div 4 > 1 THEN FsyncThreads \div 4 ELSE 1)) |->
        IF i <= FsyncThreads THEN "fsync" ELSE IF i <= 2 * FsyncThreads THEN "write"
        ELSE "reset"]

FsyncStart ==
    /\ lockedLog \in BOOLEAN
    /\ extents = [f \in FsyncFiles |-> {}]
    /\ path = [t \in DOMAIN FsyncTeam |-> "none"]
    /\ toLog = [t \in DOMAIN FsyncTeam |-> {}] /\ logged = [t \in DOMAIN FsyncTeam |-> {}]
    /\ attached = FALSE /\ whole = {}
    /\ log_extents = [t \in DOMAIN FsyncTeam |-> {}]
    /\ reported = {} /\ duplicated = FALSE

Prealloc == <<1, PreallocBlocks>>
Boundary == <<1, 1>>
Rest     == IF PreallocBlocks > 1 THEN {<<2, PreallocBlocks - 1>>} ELSE {}

\* fallocate fills what is not there; a write takes the first block of it.
Preallocated(e) == IF Boundary \in e THEN {Boundary} \cup Rest ELSE {Prealloc}
Written(e)      == {Boundary} \cup (IF Prealloc \in e THEN Rest ELSE e)

\* fallocate_prealloc: the result of the call is not looked at.
Allocations(e) == {e, Preallocated(e)}

\* setup_file for every file.
SetupFiles ==
    /\ StartThreads
    /\ extents' \in [FsyncFiles -> Allocations({})]
    /\ UNCHANGED <<lockedLog, path, toLog, logged, checkerVars>>

FsyncMain ==
    \/ SetupFiles
    \/ (StopThreads \/ Join \/ Report) /\ UNCHANGED fsyncVars

\* Mutant: the ends count as inside.
Touches(d, e) == d[1] <= e[1] + e[2] /\ e[1] <= d[1] + d[2]

\* The checker's test of two <<start, length>> ranges.
overlaps(d, e) == d[1] < e[1] + e[2] /\ e[1] < d[1] + d[2]

Overlapping(e, list) == \E d \in list : overlaps(d, e)

Attach ==
    /\ main = "running" /\ ~attached /\ attached' = TRUE
    /\ UNCHANGED <<runVars, kernelVars, whole, log_extents, reported, duplicated>>

-----------------------------------------------------------------------------
(* fsync, with what the probes and the checker make of it.                 *)

Close(t) == path' = [path EXCEPT ![t] = "none"]

Logging(f) == \E u \in Members : pc[u] = "log" /\ path[u] = f

\* FsyncFile_Enter: the map is read, the checker starts a new list.
FsyncEnter(t) ==
    /\ ~Logging(path[t]) /\ Move(t, "fsync", "log")
    /\ toLog' = [toLog EXCEPT ![t] = extents[path[t]]]
    /\ IF attached
       THEN whole' = whole \cup {t} /\ log_extents' = [log_extents EXCEPT ![t] = {}]
       ELSE UNCHANGED <<whole, log_extents>>
    /\ UNCHANGED <<lockedLog, extents, path, logged, attached, reported, duplicated>>

\* The log tree: two of its extents share a block.
Blocks(e) == e[1]..(e[1] + e[2] - 1)
Clash(e, list) == \E d \in list : Blocks(d) \cap Blocks(e) # {}

\* Violations are reported by the rules that apply to an event the checker sees.
ReportBy(rules) == reported' = IF attached THEN reported \cup rules ELSE reported

\* LogOneExtent.  Dropping what the extent replaces may fail, for any reason:
\* that ends the fsync and breaks a rule of its own (DropExtents_Done).
LogOneExtent(t) ==
    \E e \in toLog[t], dropFails \in BOOLEAN :
        LET now == logged[t] \cup {e}
            more == extents[path[t]] \ now     \* new in the map meanwhile
        IN  /\ Runs(t, "log")
            /\ logged' = [logged EXCEPT ![t] = now]
            /\ toLog' = [toLog EXCEPT ![t] = IF dropFails THEN {} ELSE (@ \cup more) \ {e}]
            /\ log_extents' = IF attached THEN [log_extents EXCEPT ![t] = @ \cup {e}]
                              ELSE log_extents
            /\ ReportBy((IF Overlapping(e, log_extents[t]) THEN {"overlap"} ELSE {})
                        \cup (IF dropFails THEN {"drop"} ELSE {}))
            /\ duplicated' = (duplicated \/ (t \in whole /\ Clash(e, logged[t])))
            /\ UNCHANGED <<runVars, lockedLog, extents, path, attached, whole>>

\* btrfs_drop_extents fails elsewhere, in a write, a truncate or a worker of
\* the kernel that ends an older write; the checker asks neither who nor why.
DropExtentsFails ==
    /\ attached /\ ReportBy({"drop"})
    /\ UNCHANGED <<runVars, kernelVars, attached, whole, log_extents, duplicated>>

\* FsyncFile_Done, printed of an fsync whose entry was traced; the call may
\* have failed.
FsyncDone(t, key) ==
    /\ toLog[t] = {}
    /\ Succeed(t, "log", key) \/ Move(t, "log", "loop")
    /\ logged' = [logged EXCEPT ![t] = {}] /\ Close(t)
    /\ log_extents' = IF t \in whole THEN [log_extents EXCEPT ![t] = {}] ELSE log_extents
    /\ whole' = whole \ {t}
    /\ UNCHANGED <<lockedLog, extents, toLog, attached, reported, duplicated>>

-----------------------------------------------------------------------------
(* The threads.  A file is drawn, and opened, in every round.              *)

Draw(t, step) ==
    \E f \in FsyncFiles :
        /\ Round(t, step)
        /\ path' = [path EXCEPT ![t] = f]
        /\ UNCHANGED <<lockedLog, extents, toLog, logged, checkerVars>>

\* The kernel lets nobody change a file that is being logged, if it locks.
Change(t, new) ==
    /\ lockedLog => ~Logging(path[t])
    /\ extents' = [extents EXCEPT ![path[t]] = new]
    /\ UNCHANGED <<lockedLog, toLog, logged, checkerVars>>

\* The file cannot be opened, or the call fails.
OpenFails(t, step) ==
    /\ Move(t, step, "loop") /\ Close(t)
    /\ UNCHANGED <<lockedLog, extents, toLog, logged, checkerVars>>

fsync_thread(t) ==
    \/ Draw(t, "fsync") \/ FsyncEnter(t) \/ LogOneExtent(t) \/ FsyncDone(t, "fsyncs")
    \/ OpenFails(t, "fsync")
    \/ (Count(t, "loop") \/ Leave(t)) /\ UNCHANGED fsyncVars

writer_thread(t) ==
    \/ Draw(t, "write") \/ OpenFails(t, "write")
    \/ (Succeed(t, "write", "writes") /\ Change(t, Written(extents[path[t]])) /\ Close(t))
    \/ (Count(t, "loop") \/ Leave(t)) /\ UNCHANGED fsyncVars

resetter_thread(t) ==
    \/ Draw(t, "truncate")
    \/ (Move(t, "truncate", "fallocate") /\ Change(t, {}) /\ UNCHANGED path)
    \/ /\ Move(t, "fallocate", "fsync") /\ UNCHANGED path
       /\ \E e \in Allocations(extents[path[t]]) : Change(t, e)
    \/ FsyncEnter(t) \/ LogOneExtent(t) \/ FsyncDone(t, "resets")
    \/ OpenFails(t, "truncate") \/ OpenFails(t, "fsync")
    \/ (Count(t, "loop") \/ Leave(t)) /\ UNCHANGED fsyncVars

FsyncThread(t) ==
    CASE threads[t] = "fsync" -> fsync_thread(t)
      [] threads[t] = "write" -> writer_thread(t)
      [] OTHER -> resetter_thread(t)

FsyncNext == FsyncMain \/ Attach \/ DropExtentsFails \/ \E t \in Members : FsyncThread(t)

-----------------------------------------------------------------------------
(* Properties.                                                             *)

Extents == {Boundary, Prealloc} \cup Rest

FsyncTypeOK ==
    /\ {lockedLog, attached, duplicated} \subseteq BOOLEAN
    /\ reported \subseteq {"overlap", "drop"}
    /\ extents \in [FsyncFiles -> SUBSET Extents]
    /\ path \in [DOMAIN FsyncTeam -> FsyncFiles \cup {"none"}]
    /\ toLog \in [DOMAIN FsyncTeam -> SUBSET Extents]
    /\ logged \in [DOMAIN FsyncTeam -> SUBSET Extents]
    /\ log_extents \in [DOMAIN FsyncTeam -> SUBSET Extents]
    /\ whole \subseteq DOMAIN FsyncTeam

\* Attached at any moment, the checker takes no two extents for an overlap on a
\* kernel that locks the inode while it logs, however fsyncs, writes and resets
\* of several threads interleave and whichever calls fail; and an fsync that
\* logs an overlap on the faulty kernel is reported as one, if it was traced
\* from its beginning.  Of the other rule, on failing btrfs_drop_extents,
\* nothing can be promised: it is a symptom that has other causes.
DuplicatesAreReported ==
    /\ lockedLog => "overlap" \notin reported
    /\ duplicated => "overlap" \in reported
=============================================================================
