----------------------------- MODULE TraceHarness -----------------------------
(***************************************************************************)
(* run_trace_check.sh on the free-space-cache subsystem: it starts         *)
(* bpftrace, waits for the probes, runs the workload, stops bpftrace,      *)
(* sorts the trace and hands it to the checker.  bpftrace takes the events *)
(* of each CPU from a buffer that can run full, in an order of its own.    *)
(* The trace file holds positions in the log, of whole lines; whether a    *)
(* line in it is cut short is kept apart.                                  *)
(***************************************************************************)
EXTENDS FreeSpaceCache, Positions

CONSTANT Pages      \* what the perf buffer of a CPU holds

ASSUME PagesAssumption == Pages \in Nat \ {0}

VARIABLES
    source,         \* "workload", or the scenario of the simulator
    checked,        \* the subsystem has a checker
    phase,          \* of the script
    bpftrace,       \* "starting", "live", "draining", "dead"
    buffers,        \* by CPU
    trace,          \* the file: its events
    cut,            \* a line of it is cut short, which is no event
    faults,         \* what went wrong on the way
    checker_exit,   \* CHECKER_EXIT
    result          \* the line of the report

harnessVars ==
    <<source, checked, phase, bpftrace, buffers, trace, cut, faults, checker_exit, result>>
vars == <<cacheVars, harnessVars>>

Phases == <<"attaching", "workload", "stopping", "waiting", "sorting", "checking",
            "reporting", "exited">>
Scenarios == {"buggy", "fixed"}

InitHarness ==
    /\ source = "workload" /\ checked \in BOOLEAN
    /\ phase = "attaching" /\ bpftrace = "starting"
    /\ log = <<>> /\ trace = <<>> /\ doubled = FALSE

\* The simulator writes its events to the checker.
InitSimulated ==
    /\ source \in Scenarios /\ checked = TRUE
    /\ phase = "checking" /\ bpftrace = "dead"
    /\ log = Scenario(source) /\ trace = [i \in DOMAIN log |-> i]
    /\ serialized = (source = "fixed") /\ doubled = ~serialized
    /\ cached = [b \in Blocks |-> 0]

Init ==
    /\ CacheInit
    /\ InitHarness \/ InitSimulated
    /\ buffers = [c \in CPUs |-> <<>>]
    /\ cut = FALSE /\ faults = {} /\ checker_exit = 0 /\ result = "none"

Phase(from, to) == phase = from /\ phase' = to

-----------------------------------------------------------------------------
(* bpftrace.                                                               *)

\* The banner is read from a buffer like any event: it is in the file only
\* when the probes are attached.
Attach ==
    /\ source = "workload" /\ bpftrace = "starting"
    /\ bpftrace' \in {"live", "dead"}
    /\ UNCHANGED <<cacheVars, source, checked, phase, buffers, trace, cut, faults, checker_exit, result>>

\* The events a step of the kernel has put into the log go to the CPU's buffer.
Deliver(c) ==
    LET new == {i \in DOMAIN log' : i > Len(log)} IN
    IF new = {} \/ bpftrace # "live" THEN UNCHANGED <<buffers, faults>>
    ELSE IF Len(buffers[c]) < Pages
    THEN buffers' = [buffers EXCEPT ![c] = Append(@, Len(log'))] /\ UNCHANGED faults
    ELSE faults' = faults \cup {"lost"} /\ UNCHANGED buffers

Kernel(c) ==
    /\ phase = "workload"
    /\ CacheStep(c, bpftrace = "live")
    /\ Deliver(c)
    /\ UNCHANGED <<source, checked, phase, bpftrace, trace, cut, checker_exit, result>>

Poll(c) ==
    /\ bpftrace \in {"live", "draining"} /\ buffers[c] # <<>>
    /\ trace' = Append(trace, Head(buffers[c]))
    /\ buffers' = [buffers EXCEPT ![c] = Tail(@)]
    /\ UNCHANGED <<cacheVars, source, checked, phase, bpftrace, cut, faults, checker_exit, result>>

Drained ==
    /\ bpftrace = "draining" /\ \A c \in CPUs : buffers[c] = <<>>
    /\ bpftrace' = "dead"
    /\ UNCHANGED <<cacheVars, source, checked, phase, buffers, trace, cut, faults, checker_exit, result>>

-----------------------------------------------------------------------------
(* The script.                                                             *)

\* The banner is there, or sixty seconds are over.
StartWorkload ==
    /\ Phase("attaching", "workload")
    /\ faults' = IF bpftrace = "live" THEN faults ELSE faults \cup {"late"}
    /\ UNCHANGED <<cacheVars, source, checked, bpftrace, buffers, trace, cut, checker_exit, result>>

\* SIGINT: bpftrace takes its probes away and empties the buffers.
StopTracing ==
    /\ Phase("workload", "stopping") /\ \A c \in CPUs : Free(c)
    /\ bpftrace' = IF bpftrace = "dead" THEN "dead" ELSE "draining"
    /\ UNCHANGED <<cacheVars, source, checked, buffers, trace, cut, faults, checker_exit, result>>

\* Mutant: the script asks whether bpftrace is gone until it is.
TerminateDead ==
    /\ Phase("stopping", "waiting") /\ bpftrace = "dead"
    /\ UNCHANGED <<cacheVars, source, checked, bpftrace, buffers, trace, cut, faults,
                   checker_exit, result>>

\* bpftrace is gone or fifteen seconds are over: SIGTERM.  A bpftrace that is still
\* there takes it as it takes SIGINT, or dies of it: what is in the buffers is gone
\* then, and the last line may be cut.
Terminate ==
    /\ Phase("stopping", "waiting")
    /\ \/ UNCHANGED <<bpftrace, buffers, cut, faults>>
       \/ /\ bpftrace = "draining" /\ bpftrace' = "dead"
          /\ buffers' = [c \in CPUs |-> <<>>]
          /\ cut' \in BOOLEAN
          /\ faults' = faults \cup {"killed"}
    /\ UNCHANGED <<cacheVars, source, checked, trace, checker_exit, result>>

\* This wait has no limit.
Wait ==
    /\ bpftrace = "dead" /\ Phase("waiting", "sorting")
    /\ UNCHANGED <<cacheVars, source, checked, bpftrace, buffers, trace, cut, faults, checker_exit, result>>

\* Mutant: the trace stays as bpftrace wrote it.
SortNot ==
    /\ Phase("sorting", "checking")
    /\ UNCHANGED <<cacheVars, source, checked, bpftrace, buffers, trace, cut, faults, checker_exit, result>>

\* By timestamp.  A cut line has none, comes first, and without its end is one line
\* with the next.  A sort that fails is passed over: it may have left the file as
\* it was, or, when the writing failed, a part of it.
Sort ==
    /\ Phase("sorting", "checking")
    /\ LET sorted == Ascending(Range(trace))
           lines == IF cut /\ trace # <<>> THEN Tail(sorted) ELSE sorted IN
       \/ trace' = lines /\ UNCHANGED <<cut, faults>>
       \/ /\ faults' = faults \cup {"unsorted"}
          /\ \/ UNCHANGED <<trace, cut>>
             \/ \E n \in 0..Len(lines) : trace' = SubSeq(lines, 1, n) /\ cut' \in BOOLEAN
    /\ UNCHANGED <<cacheVars, source, checked, bpftrace, buffers, checker_exit, result>>

Events(t) == [i \in DOMAIN t |-> log[t[i]]]

RunChecker ==
    /\ Phase("checking", "reporting")
    /\ checker_exit' = IF checked THEN ExitCode(Events(trace)) ELSE 0
    /\ UNCHANGED <<cacheVars, source, checked, bpftrace, buffers, trace, cut, faults, result>>

Inline(events) ==
    Cardinality({i \in DOMAIN events : events[i].action = "VIOLATION_DoubleAdd"})

Concludes(violations) ==
    result' = IF checker_exit = 0 /\ violations = 0 THEN "CONFORMS" ELSE "VIOLATIONS"

\* The lines with the word in them are counted, the cut one may be one of them;
\* none if the trace could not be copied.
Report ==
    /\ Phase("reporting", "exited")
    /\ \/ /\ \E n \in IF cut THEN {0, 1} ELSE {0} : Concludes(Inline(Events(trace)) + n)
          /\ UNCHANGED faults
       \/ source = "workload" /\ Concludes(0) /\ faults' = faults \cup {"copy"}
    /\ UNCHANGED <<cacheVars, source, checked, bpftrace, buffers, trace, cut, checker_exit>>

Script ==
    \/ StartWorkload \/ StopTracing \/ Terminate \/ Wait \/ Sort \/ RunChecker \/ Report

Next ==
    \/ Script \/ Attach \/ Drained
    \/ \E c \in CPUs : Kernel(c) \/ Poll(c)

Spec == Init /\ [][Next]_vars

\* The script goes on when it can: its workload ends, the checker reads a file.
\* A probe that has begun returns.  bpftrace owes nothing.
Fairness ==
    /\ WF_vars(Script)
    /\ WF_vars(\E c \in CPUs : ~Free(c) /\ Kernel(c))

FairSpec == Spec /\ Fairness

-----------------------------------------------------------------------------
(* Properties.                                                             *)

Judge(kind, events) ==
    IF IF kind THEN Conforms(events) ELSE Inline(events) = 0 THEN "CONFORMS" ELSE "VIOLATIONS"

Pipe == INSTANCE VerdictPipe
    WITH judge <- checked, happened <- log, intact <- faults = {}, verdict <- result

\* The script is such a pipe: probes in time, no full buffer, no kill, a sort and
\* a copy that work, and the verdict is the one on what happened, in the order in
\* which it happened, in spite of buffers that are read in any order.
IsAPipe == Pipe!PipeSpec

\* From the kernel to the verdict.  The checker counts first blocks only; when
\* nothing went wrong on the way, a cold cache, ranges that are added and removed
\* as a whole, and no add of what is just being removed (the probes' order need not
\* be the kernel's then) make its verdict the truth all the same, also where the
\* script's own counter lost an update.  The simulator's two scenarios are such
\* traces: "should report VIOLATES", "should report CONFORMS".
VerdictIsTruth ==
    phase = "exited" /\ checked /\ faults = {} /\ ~warm /\ Aligned /\ ~contested =>
        (result = "CONFORMS" <=> ~doubled)

\* With a checker the exit status and the line of the report agree, whatever was
\* lost, unless a line was cut or the copy failed; without one it is always 0.
ExitAgrees ==
    phase = "exited" =>
        /\ checked /\ ~cut /\ "copy" \notin faults =>
              (checker_exit = 0 <=> result = "CONFORMS")
        /\ checker_exit # 0 => result = "VIOLATIONS"
        /\ ~checked => checker_exit = 0

\* A run ends, also when bpftrace never attaches, or dies at any point; the one
\* thing that can hold it up for ever is a bpftrace that survives SIGINT and
\* SIGTERM, in the wait that has no limit.
HarnessEnds ==
    <>(phase = "exited") \/ <>[](phase = "waiting" /\ bpftrace = "draining")
=============================================================================
