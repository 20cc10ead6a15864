---------------------------- MODULE FreeSpaceCache ----------------------------
(***************************************************************************)
(* The free space cache of a block group as threads on several CPUs use    *)
(* it, the counters the tracing script keeps of it, and the checker that   *)
(* reads the trace.  A range of free blocks is found outside the cache,    *)
(* added to it by a later step, and removed, in part or together with its  *)
(* neighbours, when blocks are allocated.  The faulty kernel lets two      *)
(* threads find the same range.                                            *)
(***************************************************************************)
EXTENDS Integers, Sequences, FiniteSets, Functions, SequencesExt

CONSTANTS
    CPUs,           \* one thread on each
    NBlocks,        \* blocks of the block group
    MaxEvents       \* bound: calls that add or remove

ASSUME CacheAssumption ==
    IsFiniteSet(CPUs) /\ NBlocks \in Nat \ {0} /\ MaxEvents \in Nat

VARIABLES
    serialized,     \* the kernel: one thread at a time caches a range
    cached,         \* by block: how often it is in the cache and not being removed
    warm,           \* it was not empty when the trace began
    found,          \* by thread: the range it is going to add
    doubled,        \* add was called for a block that was there, or on its way
    contested,      \* add was called for a block that was being removed
    add_count,      \* the script: adds less removals, by first block
    calling,        \* by CPU: the call to add or remove that is under way, how far
                    \* its probe is, and what it has read of add_count
    calls,          \* the bound
    log             \* what the probes saw or would have seen, in true order

kernelVars == <<serialized, cached, warm, found, doubled, contested, calls>>
scriptVars == <<add_count, calling>>
cacheVars  == <<kernelVars, scriptVars, log>>

Blocks == 1..NBlocks
Ranges == {r \in Blocks \X Blocks : r[1] + r[2] - 1 <= NBlocks}     \* start, length
NoRange == <<0, 0>>
In(r) == r[1]..(r[1] + r[2] - 1)
Meets(r, s) == In(r) \cap In(s) # {}

NoCall == [stage |-> "none", range |-> NoRange, read |-> 0]

CacheInit ==
    /\ serialized \in BOOLEAN
    /\ cached \in {[b \in Blocks |-> 0], [b \in Blocks |-> IF b = 1 THEN 1 ELSE 0]}
    /\ warm = (\E b \in Blocks : cached[b] > 0)
    /\ found = [c \in CPUs |-> NoRange]
    /\ add_count = [b \in Blocks |-> 0] /\ calling = [c \in CPUs |-> NoCall]
    /\ contested = FALSE /\ calls = 0

-----------------------------------------------------------------------------
(* The kernel and the probes.  A probe that is not attached does nothing,  *)
(* the event is in the log all the same.  A probe reads and stores the     *)
(* counter in steps of its own, and returns before the kernel goes on.     *)

Free(c) == calling[c].stage = "none"
Adding(c) == calling[c].stage \in {"raise", "alarm", "add"}
Removing(c) == calling[c].stage \in {"lower", "lessen", "remove"}
Concerns(c, r) == Meets(calling[c].range, r)

\* btrfs_cache_block_group, or an extent about to be unpinned.
Find(c) ==
    /\ Free(c) /\ found[c] = NoRange /\ calls < MaxEvents
    /\ \E r \in Ranges :
          /\ \A b \in In(r) : cached[b] = 0
          /\ \A d \in CPUs : ~(Removing(d) /\ Concerns(d, r))
          /\ serialized => \A d \in CPUs : ~Meets(found[d], r) /\ ~Concerns(d, r)
          /\ found' = [found EXCEPT ![c] = r]
    /\ UNCHANGED <<serialized, cached, warm, doubled, contested, calls, scriptVars, log>>

\* The call; its probe prints, and reads the counter.
AddFreeSpace(c, attached) ==
    /\ Free(c) /\ found[c] # NoRange /\ calls < MaxEvents
    /\ LET r == found[c] IN
          /\ doubled' = (doubled \/ (\E b \in In(r) : cached[b] > 0)
                                 \/ (\E d \in CPUs : Adding(d) /\ Concerns(d, r)))
          /\ contested' = (contested \/ \E d \in CPUs : Removing(d) /\ Concerns(d, r))
          /\ log' = Append(log, [action |-> "AddFreeSpace", range |-> r])
          /\ calling' = [calling EXCEPT ![c] =
                IF attached THEN [stage |-> "raise", range |-> r, read |-> add_count[r[1]]]
                ELSE [stage |-> "add", range |-> r, read |-> 0]]
    /\ found' = [found EXCEPT ![c] = NoRange]
    /\ calls' = calls + 1
    /\ UNCHANGED <<serialized, cached, warm, add_count>>

\* It stores what it has read and one more.
RaiseCount(c) ==
    /\ calling[c].stage = "raise"
    /\ add_count' = [add_count EXCEPT ![calling[c].range[1]] = calling[c].read + 1]
    /\ calling' = [calling EXCEPT ![c].stage = "alarm", ![c].read = 0]
    /\ UNCHANGED <<kernelVars, log>>

\* It reads the counter again for its alarm; then the kernel adds.
AddFreeSpace_Done(c) ==
    /\ calling[c].stage \in {"alarm", "add"}
    /\ LET r == calling[c].range IN
          /\ cached' = [b \in Blocks |-> IF b \in In(r) THEN cached[b] + 1 ELSE cached[b]]
          /\ log' = IF calling[c].stage = "alarm" /\ add_count[r[1]] > 1
                    THEN Append(log, [action |-> "VIOLATION_DoubleAdd", range |-> <<r[1], 0>>])
                    ELSE log
    /\ calling' = [calling EXCEPT ![c] = NoCall]
    /\ UNCHANGED <<serialized, warm, found, doubled, contested, calls, add_count>>

\* The call; its probe prints, and tests the counter.
RemoveFreeSpace(c, attached) ==
    /\ Free(c) /\ calls < MaxEvents
    /\ \E r \in Ranges :
          /\ \A b \in In(r) : cached[b] > 0
          /\ cached' = [b \in Blocks |-> IF b \in In(r) THEN cached[b] - 1 ELSE cached[b]]
          /\ log' = Append(log, [action |-> "RemoveFreeSpace", range |-> r])
          /\ calling' = [calling EXCEPT ![c] =
                [stage |-> IF attached /\ add_count[r[1]] > 0 THEN "lower" ELSE "remove",
                 range |-> r, read |-> 0]]
    /\ calls' = calls + 1
    /\ UNCHANGED <<serialized, warm, found, doubled, contested, add_count>>

\* It reads the counter once more, which may be less by now.
LowerCount(c) ==
    /\ calling[c].stage = "lower"
    /\ calling' = [calling EXCEPT ![c].stage = "lessen",
                                  ![c].read = add_count[calling[c].range[1]]]
    /\ UNCHANGED <<kernelVars, add_count, log>>

RemoveFreeSpace_Done(c) ==
    /\ calling[c].stage \in {"lessen", "remove"}
    /\ add_count' = IF calling[c].stage = "remove" THEN add_count
                    ELSE [add_count EXCEPT ![calling[c].range[1]] = calling[c].read - 1]
    /\ calling' = [calling EXCEPT ![c] = NoCall]
    /\ UNCHANGED <<kernelVars, log>>

CacheStep(c, attached) ==
    \/ Find(c)
    \/ AddFreeSpace(c, attached) \/ RaiseCount(c) \/ AddFreeSpace_Done(c)
    \/ RemoveFreeSpace(c, attached) \/ LowerCount(c) \/ RemoveFreeSpace_Done(c)

-----------------------------------------------------------------------------
(* The checker: a fold over the events it is given.                        *)

NoCache == [cache |-> [b \in Blocks |-> 0], conforming |-> TRUE]

\* Mutant: an add is reported when the count was above one before.
OnAddLate(s, b) ==
    [cache |-> [s.cache EXCEPT ![b] = @ + 1],
     conforming |-> s.conforming /\ s.cache[b] <= 1]

OnAdd(s, b) ==
    [cache |-> [s.cache EXCEPT ![b] = @ + 1],
     conforming |-> s.conforming /\ s.cache[b] = 0]

OnRemove(s, b) ==
    IF s.cache[b] > 0 THEN [s EXCEPT !.cache[b] = @ - 1]
    ELSE [s EXCEPT !.conforming = FALSE]

\* Mutant: inline events are left to the report.
ProcessOwn(s, e) ==
    CASE e.action = "AddFreeSpace" -> OnAdd(s, e.range[1])
      [] e.action = "RemoveFreeSpace" -> OnRemove(s, e.range[1])
      [] OTHER -> s

Process(s, e) ==
    CASE e.action = "AddFreeSpace" -> OnAdd(s, e.range[1])
      [] e.action = "RemoveFreeSpace" -> OnRemove(s, e.range[1])
      [] e.action = "VIOLATION_DoubleAdd" -> [s EXCEPT !.conforming = FALSE]
      [] OTHER -> s

Conforms(events) == FoldLeft(Process, NoCache, events).conforming

\* The exit code of the checker on a trace.
ExitCode(events) == IF Conforms(events) THEN 0 ELSE 1

\* What the simulator writes.
Scenario(name) ==
    LET add    == [action |-> "AddFreeSpace", range |-> <<1, 1>>]
        remove == [action |-> "RemoveFreeSpace", range |-> <<1, 1>>]
        other  == [action |-> "CacheBlockGroup_Start", range |-> NoRange]
    IN  IF name = "buggy" THEN <<other, other, add, add>> ELSE <<other, add, other, remove>>

-----------------------------------------------------------------------------

\* Every two ranges of the log are the same or have no block in common.
Aligned == \A i, j \in DOMAIN log :
    LET r == log[i].range  s == log[j].range
    IN  0 \notin {r[2], s[2]} => r = s \/ ~Meets(r, s)
=============================================================================
