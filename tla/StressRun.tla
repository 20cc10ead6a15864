------------------------------ MODULE StressRun ------------------------------
(***************************************************************************)
(* What the Python workloads have in common.  The main thread starts       *)
(* daemon threads that share a stop event and a dictionary of counters,    *)
(* sets the event when the duration is over, waits at most five seconds    *)
(* for each thread in turn, reports, and takes the remaining threads down  *)
(* with it.  A thread looks at the event only between two rounds of its    *)
(* loop, and raises a shared counter by reading it and then storing it.    *)
(***************************************************************************)
EXTENDS Integers, Sequences, FiniteSets

CONSTANT MaxRounds      \* bound, by workload: rounds of its threads' loops in all

Workloads == {"snapshot", "space", "extent_buffer", "chain", "fsync"}

ASSUME MaxRoundsAssumption == MaxRounds \in [Workloads -> Nat]

VARIABLES
    workload,   \* which of the scripts runs
    main,       \* "setup", "running", "joining", "reporting", "done", "failed"
    threads,    \* the roles of the threads, in the order of the list
    stop,       \* the stop event
    pc,         \* by thread: where it is in its loop
    stats,      \* the shared counters, by key
    loaded,     \* by thread: the key and the value an increment has read
    successes,  \* by key: the operations that raised nothing
    rounds

runVars == <<workload, main, threads, stop, pc, stats, loaded, successes, rounds>>

Members == DOMAIN threads

NothingLoaded == [key |-> "none", value |-> 0]

\* The state in which a workload with these threads and counters starts.
RunInit(name, team, keys) ==
    /\ workload = name
    /\ main = "setup" /\ threads = team
    /\ stop = FALSE
    /\ pc = [t \in DOMAIN team |-> "new"]
    /\ stats = [k \in keys |-> 0] /\ successes = [k \in keys |-> 0]
    /\ loaded = [t \in DOMAIN team |-> NothingLoaded]
    /\ rounds = 0

-----------------------------------------------------------------------------
(* The main thread.                                                        *)

mainOnly == <<workload, threads, stats, loaded, successes, rounds>>

\* These threads make a directory, and some of them files, before their loop.
Preparing == {"hammer", "creator", "large", "xattr", "fallocate"}

StartThreads ==
    /\ main = "setup" /\ main' = "running"
    /\ pc' = [t \in Members |-> IF threads[t] \in Preparing THEN "prepare" ELSE "loop"]
    /\ UNCHANGED <<stop, mainOnly>>

StopThreads ==
    /\ main = "running"
    /\ main' = "joining" /\ stop' = TRUE
    /\ UNCHANGED <<pc, mainOnly>>

\* Mutant: join without the timeout.
JoinForever ==
    /\ main = "joining" /\ \A t \in Members : pc[t] = "exited"
    /\ main' = "reporting"
    /\ UNCHANGED <<stop, pc, mainOnly>>

\* Each thread has exited or its five seconds are over: the loop can end with
\* the threads in any place.
Join ==
    /\ main = "joining"
    /\ main' = "reporting"
    /\ UNCHANGED <<stop, pc, mainOnly>>

\* The last line, and the end of the process with every thread in it.
Report ==
    /\ main = "reporting"
    /\ main' = "done"
    /\ UNCHANGED <<stop, pc, mainOnly>>

Main == StartThreads \/ StopThreads \/ Join \/ Report

-----------------------------------------------------------------------------
(* The threads.                                                            *)

Runs(t, step) == main \in {"running", "joining", "reporting"} /\ pc[t] = step
Goes(t, step) == pc' = [pc EXCEPT ![t] = step]

threadOnly == <<workload, main, threads, stop>>
counters   == <<stats, loaded, successes>>

\* From one place to another with nothing to count.
Move(t, from, to) ==
    /\ Runs(t, from) /\ Goes(t, to)
    /\ UNCHANGED <<threadOnly, counters, rounds>>

\* An error outside the loop ends the thread, and nobody notices.
Prepare(t) == Move(t, "prepare", "loop") \/ Move(t, "prepare", "exited")

\* One more round: the event is not set.
Round(t, step) ==
    /\ Runs(t, "loop") /\ ~stop /\ rounds < MaxRounds[workload]
    /\ Goes(t, step) /\ rounds' = rounds + 1
    /\ UNCHANGED <<threadOnly, counters>>

Leave(t) ==
    /\ Runs(t, "loop") /\ stop
    /\ Goes(t, "exited")
    /\ UNCHANGED <<threadOnly, counters, rounds>>

\* An operation has raised nothing; the increment of its counter begins.
Succeed(t, from, key) ==
    /\ Runs(t, from) /\ Goes(t, "count")
    /\ successes' = [successes EXCEPT ![key] = @ + 1]
    /\ loaded' = [loaded EXCEPT ![t] = [key |-> key, value |-> stats[key]]]
    /\ UNCHANGED <<threadOnly, stats, rounds>>

\* The store of stats[key] += 1, over whatever was stored meanwhile.
Count(t, to) ==
    /\ Runs(t, "count") /\ Goes(t, to)
    /\ stats' = [stats EXCEPT ![loaded[t].key] = loaded[t].value + 1]
    /\ loaded' = [loaded EXCEPT ![t] = NothingLoaded]
    /\ UNCHANGED <<threadOnly, successes, rounds>>

-----------------------------------------------------------------------------
(* Properties.                                                             *)

\* Where a thread can be, in whichever workload.
Places ==
    {"new", "prepare", "loop", "exited", "count", "create", "write", "written", "check",
     "tally", "delete", "xattr", "rename", "link", "trim", "scan", "list", "open",
     "unlink", "join", "sync", "waiting", "synced", "fsync", "log", "truncate", "fallocate"}

RunTypeOK ==
    /\ main \in {"setup", "running", "joining", "reporting", "done", "failed"}
    /\ workload \in Workloads /\ stop \in BOOLEAN
    /\ pc \in [Members -> Places]
    /\ stats \in [DOMAIN stats -> Nat] /\ successes \in [DOMAIN stats -> Nat]
    /\ loaded \in [Members -> [key : DOMAIN stats \cup {"none"}, value : Nat]]
    /\ rounds \in 0..MaxRounds[workload]

Storing(k) == {t \in Members : loaded[t].key = k}

\* However the unlocked increments interleave, a counter never shows more
\* operations than went through, not even when the threads that are between
\* their read and their store have stored.  (It may show fewer.)
NeverOvercounts ==
    \A k \in DOMAIN stats :
        /\ stats[k] + Cardinality(Storing(k)) <= successes[k]
        /\ \A t \in Storing(k) : loaded[t].value + Cardinality(Storing(k)) <= successes[k]

\* Once the event is set the workload ends, even when the kernel never lets
\* some of its threads go.
StopEnds == stop ~> main = "done"
=============================================================================
