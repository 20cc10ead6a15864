----------------------------- MODULE SpaceStress -----------------------------
(***************************************************************************)
(* The space-reservation workload.  Main fills the file system in chunks   *)
(* up to a fraction of its size; then each hammer thread creates, renames, *)
(* links and deletes files of its own directory and remembers their names  *)
(* in a list.  Every call can fail with ENOSPC or another error, between   *)
(* the open and the write of a new file too.                               *)
(***************************************************************************)
EXTENDS StressRun

CONSTANTS
    Names,          \* random_name draws from them, fresh ones only
    Hammers,        \* threads
    Total, Chunk,   \* size of the file system and of one fill file
    UsedBefore,     \* how much of it may be in use already
    FillNum, FillDen    \* the fraction to fill it to

ASSUME SpaceAssumption ==
    /\ Hammers \in Nat /\ Total \in Nat /\ Chunk \in Nat \ {0} /\ UsedBefore \subseteq 0..Total
    /\ FillNum \in Nat /\ FillDen \in Nat \ {0}
    /\ "none" \notin Names

VARIABLES
    used,           \* blocks used before the fill
    written, full,  \* blocks the fill has written; it has failed
    onDisk,         \* by thread: the names in its directory
    files,          \* by thread: the names in its list
    opened,         \* by thread: the name of the file being created
    lost            \* by thread: names a failed call left on the disk

spaceVars == <<used, written, full, onDisk, files, opened, lost>>
fillVars  == <<used, written, full>>

SpaceTeam == [i \in 1..Hammers |-> "hammer"]

SpaceStart ==
    /\ used \in UsedBefore /\ written = 0 /\ full = FALSE
    /\ onDisk = [t \in 1..Hammers |-> {}] /\ files = [t \in 1..Hammers |-> {}]
    /\ opened = [t \in 1..Hammers |-> "none"]
    /\ lost = [t \in 1..Hammers |-> {}]

-----------------------------------------------------------------------------
(* Filling.                                                                *)

ToWrite == (Total * FillNum) \div FillDen - used

ChunkSize == IF Chunk < ToWrite - written THEN Chunk ELSE ToWrite - written

FillChunk ==
    /\ main = "setup" /\ ~full /\ written < ToWrite
    /\ \/ written' = written + ChunkSize /\ UNCHANGED full
       \/ full' = TRUE /\ UNCHANGED written
    /\ UNCHANGED <<runVars, used, onDisk, files, opened, lost>>

SpaceMain ==
    \/ FillChunk
    \/ StartThreads /\ (full \/ written >= ToWrite) /\ UNCHANGED spaceVars
    \/ (StopThreads \/ Join \/ Report) /\ UNCHANGED spaceVars

-----------------------------------------------------------------------------
(* A hammer thread.  A failed call goes back to the loop; ENOSPC is        *)
(* counted first.  A draw that does nothing, a rename in a list of one, is *)
(* no round.                                                               *)

Fails(t, from) == Move(t, from, "loop") \/ Succeed(t, from, "enospc")

Fresh(t) == Names \ onDisk[t]

HammerOpen(t) ==
    \E n \in Fresh(t) :
        /\ Move(t, "create", "write")
        /\ onDisk' = [onDisk EXCEPT ![t] = @ \cup {n}]
        /\ opened' = [opened EXCEPT ![t] = n]
        /\ UNCHANGED <<fillVars, files, lost>>

\* Mutant: the name is remembered when the file is opened.
HammerWriteEager(t) ==
    /\ Succeed(t, "write", "creates") \/ Fails(t, "write")
    /\ files' = [files EXCEPT ![t] = @ \cup {opened[t]}]
    /\ lost' = IF pc'[t] = "count" /\ loaded'[t].key = "creates" THEN lost
               ELSE [lost EXCEPT ![t] = @ \cup {opened[t]}]
    /\ opened' = [opened EXCEPT ![t] = "none"]
    /\ UNCHANGED <<fillVars, onDisk>>

\* The write fails after the open has made the file: nobody remembers it.
HammerWrite(t) ==
    /\ \/ /\ Succeed(t, "write", "creates")
          /\ files' = [files EXCEPT ![t] = @ \cup {opened[t]}]
          /\ UNCHANGED lost
       \/ /\ Fails(t, "write")
          /\ lost' = [lost EXCEPT ![t] = @ \cup {opened[t]}]
          /\ UNCHANGED files
    /\ opened' = [opened EXCEPT ![t] = "none"]
    /\ UNCHANGED <<fillVars, onDisk>>

HammerXattr(t) ==
    /\ \E n \in files[t] : n \in onDisk[t] /\ Succeed(t, "xattr", "xattrs")
    /\ UNCHANGED spaceVars

HammerRename(t) ==
    \E src \in files[t], dst \in Fresh(t) :
        /\ src \in onDisk[t]
        /\ Succeed(t, "rename", "renames")
        /\ onDisk' = [onDisk EXCEPT ![t] = (@ \ {src}) \cup {dst}]
        /\ files' = [files EXCEPT ![t] = (@ \ {src}) \cup {dst}]
        /\ UNCHANGED <<fillVars, opened, lost>>

HammerLink(t) ==
    \E src \in files[t], dst \in Fresh(t) :
        /\ src \in onDisk[t] /\ Succeed(t, "link", "links")
        /\ onDisk' = [onDisk EXCEPT ![t] = @ \cup {dst}]
        /\ files' = [files EXCEPT ![t] = @ \cup {dst}]
        /\ UNCHANGED <<fillVars, opened, lost>>

\* The name leaves the list before the unlink, which may fail.
HammerDelete(t) ==
    \E n \in files[t] :
        /\ files' = [files EXCEPT ![t] = @ \ {n}]
        /\ \/ /\ Succeed(t, "delete", "deletes") /\ n \in onDisk[t]
              /\ onDisk' = [onDisk EXCEPT ![t] = @ \ {n}]
              /\ UNCHANGED lost
           \/ /\ Fails(t, "delete")
              /\ lost' = [lost EXCEPT ![t] = @ \cup {n}]
              /\ UNCHANGED onDisk
        /\ UNCHANGED <<fillVars, opened>>

\* The operation is drawn; without files it is a creation.
Hammer(t) ==
    \/ \E op \in {"create", "xattr", "rename", "link", "delete"} :
          /\ Cardinality(files[t]) >= CASE op = "create" -> 0
                                        [] op = "rename" -> 2 [] OTHER -> 1
          /\ Round(t, op) /\ UNCHANGED spaceVars
    \/ \E op \in {"create", "xattr", "rename"} : Fails(t, op) /\ UNCHANGED spaceVars
    \/ (Move(t, "link", "loop") \/ Count(t, "loop") \/ Leave(t) \/ Prepare(t))
       /\ UNCHANGED spaceVars
    \/ HammerOpen(t) \/ HammerWrite(t) \/ HammerXattr(t) \/ HammerRename(t)
    \/ HammerLink(t) \/ HammerDelete(t)

SpaceNext == SpaceMain \/ \E t \in Members : Hammer(t)

-----------------------------------------------------------------------------
(* Properties.                                                             *)

SpaceTypeOK ==
    /\ used \in UsedBefore /\ written \in Nat /\ full \in BOOLEAN
    /\ onDisk \in [1..Hammers -> SUBSET Names] /\ files \in [1..Hammers -> SUBSET Names]
    /\ opened \in [1..Hammers -> Names \cup {"none"}]
    /\ lost \in [1..Hammers -> SUBSET Names]

\* The list and the directory part company only through failed calls: what is
\* listed exists, and what is not listed was left by a failed write or unlink,
\* or is being created.
ListMatchesDisk ==
    \A t \in DOMAIN files :
        /\ files[t] \cap lost[t] = {}
        /\ onDisk[t] = files[t] \cup lost[t]
                       \cup (IF opened[t] = "none" THEN {} ELSE {opened[t]})
=============================================================================
