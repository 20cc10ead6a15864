------------------------------ MODULE TraceTools ------------------------------
(***************************************************************************)
(* The tools that read a qgroup trace, on every short trace of several     *)
(* file systems at once: mutate_trace.py, trace_to_tla.py and              *)
(* qgroup_window_scan.py.  The trace grows event by event as the kernel    *)
(* makes its calls; the tools are operators on it.                         *)
(*                                                                         *)
(* An event has its time, the thread, the file system it is about (on) and *)
(* the one the script printed (fs), the call, and whether the call is      *)
(* entered or left.  The script finds the file system in a map by thread,  *)
(* from which nothing is deleted: for a thread that came when it was full, *)
(* it knows none.                                                          *)
(***************************************************************************)
EXTENDS QgroupProgramOrder, Positions

CONSTANTS
    KWorkers,       \* kernel threads that execute the work items
    FileSystems,
    Unknown,        \* what is printed of a file system that was not stashed
    MaxEvents,      \* bound: length of a trace
    MinEvents,      \* of a trace that is worth mutating (20 in the code)
    PerOp,          \* mutants per operator
    Pad             \* events kept after the change

ASSUME ToolsAssumption ==
    /\ Scanner \notin Threads /\ Threads \cap KWorkers = {}
    /\ PerOp \in Nat /\ Pad \in Nat /\ Unknown \notin FileSystems

VARIABLES
    warm,           \* file systems with a scan queued when the trace begins
    log             \* what happened, in order

vars == <<warm, log>>

\* A file system's part of the trace, with tasks for threads.
On(f) == Pick(log, {i \in DOMAIN log : log[i].on = f})
TaskOf(e) == IF e.call = "RescanWorker" THEN Scanner ELSE e.tid
AsTask(e) == [task |-> TaskOf(e), call |-> e.call, at |-> e.at]
Tasks(events) == [i \in DOMAIN events |-> AsTask(events[i])]
State(f) == FoldLeft(Follow, Quiet(IF f \in warm THEN 1 ELSE 0), Tasks(On(f)))

Init ==
    /\ warm \in {{}, FileSystems}
    /\ log = <<>>

Emit(t, f, at, call) ==
    log' = Append(log, [ts |-> Len(log) + 1, tid |-> t, on |-> f, fs |-> f,
                        call |-> call, at |-> at])

\* What the thread is in: calls entered and not left.
Within(t) == {i \in DOMAIN log :
    /\ log[i].tid = t /\ log[i].at = "Enter"
    /\ \A j \in (i + 1)..Len(log) :
          ~(log[j].tid = t /\ log[j].call = log[i].call /\ log[j].at = "Done")}

\* One thread is in one file system at a time.
Call(t, f) ==
    /\ Len(log) < MaxEvents /\ \A i \in Within(t) : log[i].on = f
    /\ \E call \in Ioctls \cup {"RescanZeroTracking", "FreeQgroupConfig"} :
          MayEnter(State(f), t, call) /\ Emit(t, f, "Enter", call)
    /\ UNCHANGED warm

Scan(k, f) ==
    /\ Len(log) < MaxEvents /\ Within(k) = {}
    /\ MayEnter(State(f), Scanner, "RescanWorker") /\ Emit(k, f, "Enter", "RescanWorker")
    /\ UNCHANGED warm

Return(t) ==
    /\ Len(log) < MaxEvents
    /\ \E i \in Within(t) :
          /\ \A j \in Within(t) : j <= i
          /\ Emit(t, log[i].on, "Done", log[i].call)
    /\ UNCHANGED warm

Next ==
    \/ \E t \in Threads, f \in FileSystems : Call(t, f)
    \/ \E k \in KWorkers, f \in FileSystems : Scan(k, f)
    \/ \E t \in Threads \cup KWorkers : Return(t)

Spec == Init /\ [][Next]_vars

\* The script's output, with threads that found no room in its map.
Printed(untagged) ==
    [i \in DOMAIN log |-> [log[i] EXCEPT !.fs = IF log[i].tid \in untagged THEN Unknown ELSE @]]

\* bpftrace writes the events of several CPUs in an order of its own.
Files(untagged) == {Printed(untagged), Reverse(Printed(untagged))}

\* By time, as no two events have the same.
Load(file) ==
    LET times == Ascending({e.ts : e \in ToSet(file)}) IN
    [k \in DOMAIN times |-> CHOOSE e \in ToSet(file) : e.ts = times[k]]

-----------------------------------------------------------------------------
(* trace_to_tla.py: the longest part of one file system, if there is one   *)
(* with quota activity among those, ready for the replay.                  *)

Group(file, g) == Pick(file, {i \in DOMAIN file : file[i].fs = g})
QuotaActive(events) ==
    \E e \in ToSet(events) : e.at = "Enter" /\ e.call \in QuotaCtl \cup {"QgroupRescan"}

\* Mutant: the events of all file systems are one trace.
ChosenAll(file) == {file}

\* Equally long ones: the first in the file, here any of them.
Chosen(file) ==
    LET part   == [g \in {e.fs : e \in ToSet(file)} |-> Group(file, g)]
        active == {g \in DOMAIN part : QuotaActive(part[g])}
        from   == IF active = {} THEN DOMAIN part ELSE active
    IN  {part[g] : g \in {g \in from : \A h \in from : Len(part[h]) <= Len(part[g])}}

Convert(file) == {Tasks(Load(events)) : events \in Chosen(file)}

-----------------------------------------------------------------------------
(* mutate_trace.py.  A mutant is a trace and the place where the replay    *)
(* must have noticed; it is cut off a little later.                        *)

Spread(candidates, n) ==
    IF Len(candidates) <= n THEN ToSet(candidates)
    ELSE {candidates[1 + (i * Len(candidates)) \div n] : i \in 0..(n - 1)}

Ends(events, at) == {i \in DOMAIN events : events[i].at = at}
Later(events, i) == {j \in DOMAIN events : j > i /\ TaskOf(events[j]) = TaskOf(events[i])}
NextOf(events, i) == Min(Later(events, i))
Swap(events, i, j) == [events EXCEPT ![i] = events[j], ![j] = events[i]]
Drop(events, i) == RemoveAt(events, i)

\* Mutant: neighbours are swapped whosever they are.
SwapAnyTask(events) == {<<Swap(events, i, i + 1), i>> : i \in 1..(Len(events) - 1)}

SwapSameTask(events) ==
    LET pairs == Ascending({i \in DOMAIN events : Later(events, i) # {}}) IN
    {<<Swap(events, i, NextOf(events, i)), i>> : i \in Spread(pairs, PerOp)}

DropEnter(events) ==
    LET orphaning == Ascending({i \in Ends(events, "Enter") : Later(events, i) # {}}) IN
    {<<Drop(events, i), NextOf(events, i) - 1>> : i \in Spread(orphaning, PerOp)}

DupDone(events) ==
    {<<InsertAt(events, i + 1, events[i]), i + 1>> :
        i \in Spread(Ascending(Ends(events, "Done")), PerOp)}

EarlyWorker(events) ==
    LET enters(call) == Ascending({i \in Ends(events, "Enter") : events[i].call = call})
        starts == enters("RescanWorker")
        zeros  == enters("RescanZeroTracking")
        movable == Ascending({k \in DOMAIN starts \cap DOMAIN zeros : zeros[k] < starts[k]})
    IN  {<<InsertAt(Drop(events, starts[k]), zeros[k], events[starts[k]]), starts[k] + 1>> :
            k \in Spread(movable, PerOp)}

Cut(mutant) ==
    LET n == mutant[2] + Pad IN
    IF n < Len(mutant[1]) THEN SubSeq(mutant[1], 1, n) ELSE mutant[1]

\* The times are the positions again.
Stamp(events) == [i \in DOMAIN events |-> [events[i] EXCEPT !.ts = i]]

Mutants(events) ==
    {Stamp(Cut(m)) : m \in SwapSameTask(events) \cup DropEnter(events)
                           \cup DupDone(events) \cup EarlyWorker(events)}

Controls(events) == {SubSeq(events, 1, Len(events) \div 4), SubSeq(events, 1, (9 * Len(events)) \div 10)}

-----------------------------------------------------------------------------
(* qgroup_window_scan.py.                                                  *)

\* Enter and Done of a thread and a call pair up as on a stack; a Done without
\* an Enter is passed over.
PairUp(s, e) ==
    LET mine == {o \in s.open : o.tid = e.tid /\ o.call = e.call}
        top  == CHOOSE o \in mine : \A p \in mine : p.ts <= o.ts
    IN  IF e.at = "Enter" THEN [s EXCEPT !.open = @ \cup {e}]
        ELSE IF mine = {} THEN s
        ELSE [open |-> s.open \ {top},
              out |-> s.out \cup {[call |-> e.call, tid |-> e.tid, fs |-> e.fs,
                                   a |-> top.ts, b |-> e.ts]}]

Intervals(events) == FoldLeft(PairUp, [open |-> {}, out |-> {}], events).out

\* Mutant: the begin of an earlier rescan is kept.
PendingKept(s, e) ==
    IF e.at = "Enter" /\ e.call = "QgroupRescan"
    THEN IF \E p \in s.pending : p.tid = e.tid THEN s ELSE [s EXCEPT !.pending = @ \cup {e}]
    ELSE IF e.at = "Enter" /\ e.call = "RescanZeroTracking"
    THEN LET mine == {p \in s.pending : p.tid = e.tid} IN
         [pending |-> s.pending \ mine,
          out |-> s.out \cup {[tid |-> e.tid, fs |-> e.fs, a |-> p.ts, b |-> e.ts] : p \in mine}]
    ELSE s

\* From the begin of a rescan ioctl to the thread's next zero tracking.
Pending(s, e) ==
    LET mine == {p \in s.pending : p.tid = e.tid} IN
    CASE e.at = "Enter" /\ e.call = "QgroupRescan" ->
            [s EXCEPT !.pending = (@ \ mine) \cup {e}]
      [] e.at = "Enter" /\ e.call = "RescanZeroTracking" ->
            [pending |-> s.pending \ mine,
             out |-> s.out \cup {[tid |-> e.tid, fs |-> e.fs, a |-> p.ts, b |-> e.ts] : p \in mine}]
      [] OTHER -> s

CommitWindows(events) == FoldLeft(Pending, [pending |-> {}, out |-> {}], events).out

Overlaps(a, b) == a.a < b.b /\ b.a < a.b

\* Mutant: what began before the first of the two is passed over.
HitsLater(xs, ys) ==
    {h \in xs \X ys : /\ h[2].tid # h[1].tid /\ h[1].fs = h[2].fs
                      /\ h[1].a < h[2].a /\ h[2].a < h[1].b}

Hits(xs, ys) ==
    {h \in xs \X ys : h[2].tid # h[1].tid /\ h[1].fs = h[2].fs /\ Overlaps(h[1], h[2])}

\* --merge-fs
Merge(events) == [i \in DOMAIN events |-> [events[i] EXCEPT !.fs = Unknown]]

Windows(events) ==
    LET of(call) == {x \in Intervals(events) : x.call = call} IN
    [free_vs_iter   |-> Hits(of("FreeQgroupConfig"), of("RescanZeroTracking")),
     free_vs_worker |-> Hits(of("FreeQgroupConfig"), of("RescanWorker")),
     wait_vs_commit |-> Hits(of("WaitRescanCompletion"), CommitWindows(events))]

-----------------------------------------------------------------------------
(* Properties.                                                             *)

TraceTids == {e.tid : e \in ToSet(log)}

\* The places of the events that are printed as g's: what its threads did that have
\* their tags, or what all did that have none.
PrintedAs(g, untagged) ==
    {i \in DOMAIN log : (IF log[i].tid \in untagged THEN Unknown ELSE log[i].on) = g}

Active(P) ==
    \E i \in P : log[i].at = "Enter" /\ log[i].call \in QuotaCtl \cup {"QgroupRescan"}

\* However the file is ordered, whatever else is in it and whichever threads have
\* lost their tags, the replay is given all that was printed of one file system,
\* or without one, in true order, and quota activity if any of them has it.  It is
\* the trace of the file system, which the program could have produced, unless
\* a thread that worked on it has lost its tags.
SplitIsInOrder ==
    \A untagged \in SUBSET TraceTids : \A file \in Files(untagged) : \A events \in Convert(file) :
        \E g \in FileSystems \cup {Unknown} :
            /\ events = Tasks(Pick(log, PrintedAs(g, untagged)))
            /\ (\E h \in FileSystems \cup {Unknown} : Active(PrintedAs(h, untagged))) =>
                  Active(PrintedAs(g, untagged))
            /\ g \in FileSystems /\ (\A i \in DOMAIN log : log[i].on = g => log[i].tid \notin untagged) =>
                  events = Tasks(On(g)) /\ (warm = {} => InOrder(events))

\* Reference: a call is open from its Enter to the next Done of it; two calls met
\* if both were open at one time.
OpenAt(i, p) ==
    i <= p /\ \A j \in (i + 1)..p :
        ~(log[j].at = "Done" /\ log[j].tid = log[i].tid /\ log[j].call = log[i].call)

OneFileSystem == \E f \in FileSystems : log = On(f)

\* A disable whose Enter is gone, or behind that of its free, after a wait of
\* its thread, reads as an unmount.
ReadsAsUnmount(events, i) ==
    /\ events[i].at = "Enter" /\ events[i].call = "QuotaDisable"
    /\ \E j \in 1..(i - 1) :
          /\ i \in Later(events, j) /\ i = NextOf(events, j)
          /\ events[j].at = "Done" /\ events[j].call = "WaitRescanCompletion"

\* On one file system's trace every mutant, cut off as it is, is out of program
\* order, but for those that read as an unmount; they are until the disable
\* returns, or until its misplaced Enter.  The controls are in order.
MutantsAreIllegal ==
    OneFileSystem /\ Len(log) >= MinEvents /\ warm = {} =>
        /\ \A m \in Mutants(log) : \A events \in Convert(m) :
              \/ ~InOrder(events)
              \/ \E i \in DOMAIN log :
                    /\ ReadsAsUnmount(log, i)
                    /\ \/ /\ m = Stamp(SubSeq(Drop(log, i), 1, Len(m)))
                          /\ OpenAt(i, Len(log)) \/ ~InOrder(Tasks(Drop(log, i)))
                       \/ \E j \in Later(log, i) :
                             /\ j = NextOf(log, i) /\ Len(m) < j
                             /\ m = Stamp(SubSeq(Swap(log, i, j), 1, Len(m)))
        /\ \A c \in Controls(log) : InOrder(Tasks(c))

Completed(call) == {i \in DOMAIN log : log[i].at = "Enter" /\ log[i].call = call /\ ~OpenAt(i, Len(log))}
Met(call1, call2) ==
    {m \in Completed(call1) \X Completed(call2) :
        /\ log[m[1]].on = log[m[2]].on /\ log[m[1]].tid # log[m[2]].tid
        /\ \E p \in DOMAIN log : OpenAt(m[1], p) /\ OpenAt(m[2], p)}

Begins(hits) == {<<h[1].a, h[2].a>> : h \in hits}

\* The scan reports exactly the frees that met a zero tracking, or a worker, of
\* another thread on the same file system.  "Per-fs splitting undercounts": when
\* tags were lost, the scan of a single mount reports nothing false, and with
\* --merge-fs all again.
FreeWindowsAreExact ==
    /\ LET all == Windows(log) IN
          /\ Begins(all.free_vs_iter) = Met("FreeQgroupConfig", "RescanZeroTracking")
          /\ Begins(all.free_vs_worker) = Met("FreeQgroupConfig", "RescanWorker")
    /\ OneFileSystem => \A untagged \in SUBSET TraceTids :
          LET split  == Begins(Windows(Printed(untagged)).free_vs_worker)
              merged == Begins(Windows(Merge(Printed(untagged))).free_vs_worker)
          IN  split \subseteq merged /\ merged = Met("FreeQgroupConfig", "RescanWorker")

\* Every commit of a rescan ioctl is a commit window; the others are begun by a
\* rescan that was refused and ended by an enable of the same thread.
CommitWindowsFound ==
    LET found == {<<w.a, w.b>> : w \in CommitWindows(log)}
        zeroAfter(i) == {k \in DOMAIN log : /\ log[k].at = "Enter" /\ log[k].call = "RescanZeroTracking"
                                            /\ log[k].tid = log[i].tid /\ k > i /\ OpenAt(i, k)}
        rescans == {i \in DOMAIN log : log[i].at = "Enter" /\ log[i].call = "QgroupRescan"}
    IN  /\ \A i \in rescans : \A k \in zeroAfter(i) : <<i, k>> \in found
        /\ \A w \in found :
              \/ w[2] \in zeroAfter(w[1])
              \/ /\ w[1] \in Completed("QgroupRescan") /\ zeroAfter(w[1]) = {}
                 /\ \E i \in DOMAIN log : /\ log[i].call = "QuotaEnable" /\ log[i].at = "Enter"
                                            /\ log[i].tid = log[w[2]].tid /\ OpenAt(i, w[2])
=============================================================================
