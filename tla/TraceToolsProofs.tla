--------------------------- MODULE TraceToolsProofs ---------------------------
(***************************************************************************)
(* The conversion and the window scan, on traces of any length of any      *)
(* threads in any file systems.                                            *)
(***************************************************************************)
EXTENDS TraceTools, DataLemmas, TLAPS

-----------------------------------------------------------------------------
(* The trace.                                                              *)

Inner == {"RescanZeroTracking", "FreeQgroupConfig"}
Calls == Ioctls \cup Inner \cup {"RescanWorker"}
Sides == {"Enter", "Done"}
Tids == Threads \cup KWorkers
Entries == [ts : Nat, tid : Tids, on : FileSystems, fs : FileSystems, call : Calls, at : Sides]

LogIsReal ==
    /\ log \in Seq(Entries) /\ warm \in {{}, FileSystems}
    /\ \A i \in DOMAIN log : /\ log[i].ts = i /\ log[i].fs = log[i].on
                             /\ log[i].call = "RescanWorker" <=> log[i].tid \in KWorkers

\* The next event.
Entry(t, f, at, call) ==
    [ts |-> Len(log) + 1, tid |-> t, on |-> f, fs |-> f, call |-> call, at |-> at]

Fits(t, f, at, call) ==
    /\ t \in Tids /\ f \in FileSystems /\ at \in Sides /\ call \in Calls
    /\ call = "RescanWorker" <=> t \in KWorkers

\* A step is the begin of a call, or the end of the last one begun.
Opens(t, f, call) ==
    /\ Fits(t, f, "Enter", call) /\ \A i \in Within(t) : log[i].on = f
    /\ MayEnter(State(f), IF call = "RescanWorker" THEN Scanner ELSE t, call)
    /\ call = "RescanWorker" => Within(t) = {}
    /\ log' = Append(log, Entry(t, f, "Enter", call))

Closes(t, i) ==
    /\ i \in Within(t) /\ \A j \in Within(t) : j <= i
    /\ Fits(t, log[i].on, "Done", log[i].call)
    /\ log' = Append(log, Entry(t, log[i].on, "Done", log[i].call))

LEMMA WithinIs ==
    ASSUME LogIsReal, NEW t, NEW i \in Within(t)
    PROVE  /\ i \in 1..Len(log) /\ log[i] \in Entries /\ log[i].ts = i
           /\ log[i].tid = t /\ log[i].at = "Enter"
           /\ log[i].call = "RescanWorker" <=> t \in KWorkers
BY DEF LogIsReal, Within

LEMMA StepKinds ==
    ASSUME LogIsReal, Next
    PROVE  /\ UNCHANGED warm
           /\ \/ \E t \in Tids, f \in FileSystems, call \in Calls : Opens(t, f, call)
              \/ \E t \in Tids, i \in 1..Len(log) : Closes(t, i)
<1>1. CASE \E t \in Threads, f \in FileSystems : Call(t, f)
  <2>1. PICK t \in Threads, f \in FileSystems : Call(t, f)
    BY <1>1
  <2>2. PICK call \in Ioctls \cup Inner : MayEnter(State(f), t, call) /\ Emit(t, f, "Enter", call)
    BY <2>1 DEF Call, Inner
  <2>3. call # "RescanWorker" /\ t \in Tids /\ t \notin KWorkers /\ call \in Calls
    BY <2>2, ToolsAssumption DEF Ioctls, QuotaCtl, Inner, Calls, Tids
  <2>4. Opens(t, f, call)
    BY <2>1, <2>2, <2>3 DEF Opens, Fits, Sides, Call, Emit, Entry
  <2> QED BY <2>1, <2>3, <2>4 DEF Call
<1>2. CASE \E k \in KWorkers, f \in FileSystems : Scan(k, f)
  <2>1. PICK k \in KWorkers, f \in FileSystems : Scan(k, f)
    BY <1>2
  <2>2. "RescanWorker" \in Calls /\ k \in Tids
    BY DEF Calls, Tids
  <2>3. Opens(k, f, "RescanWorker")
    BY <2>1, <2>2 DEF Opens, Fits, Sides, Scan, Emit, Entry
  <2> QED BY <2>1, <2>2, <2>3 DEF Scan
<1>3. CASE \E t \in Threads \cup KWorkers : Return(t)
  <2>1. PICK t \in Tids : Return(t)
    BY <1>3 DEF Tids
  <2>2. PICK i \in Within(t) : (\A j \in Within(t) : j <= i) /\ Emit(t, log[i].on, "Done", log[i].call)
    BY <2>1 DEF Return
  <2>3. /\ i \in 1..Len(log) /\ log[i] \in Entries
        /\ log[i].call = "RescanWorker" <=> t \in KWorkers
    BY WithinIs
  <2>4. Closes(t, i)
    BY <2>2, <2>3 DEF Closes, Fits, Sides, Emit, Entry, Entries
  <2> QED BY <2>1, <2>3, <2>4 DEF Return
<1> QED BY <1>1, <1>2, <1>3 DEF Next

LEMMA LogGrows ==
    ASSUME LogIsReal, NEW t, NEW f, NEW at, NEW call, Fits(t, f, at, call),
           log' = Append(log, Entry(t, f, at, call)), UNCHANGED warm
    PROVE  /\ LogIsReal' /\ Entry(t, f, at, call) \in Entries
           /\ Len(log) \in Nat /\ DOMAIN log = 1..Len(log) /\ Len(log') = Len(log) + 1
           /\ DOMAIN log' = 1..(Len(log) + 1) /\ log'[Len(log) + 1] = Entry(t, f, at, call)
           /\ \A i \in 1..Len(log) : log'[i] = log[i]
<1> DEFINE n == Len(log)
           e == Entry(t, f, at, call)
<1>1. n \in Nat /\ DOMAIN log = 1..n
  BY DEF LogIsReal
<1>2. e \in Entries /\ e.ts = n + 1 /\ e.fs = e.on /\ (e.call = "RescanWorker" <=> e.tid \in KWorkers)
  BY <1>1 DEF Entry, Entries, Fits
<1> HIDE DEF e
<1>3. /\ Len(log') = n + 1 /\ DOMAIN log' = 1..(n + 1) /\ log'[n + 1] = e
      /\ \A i \in 1..n : log'[i] = log[i]
  BY <1>1 DEF LogIsReal, e
<1>4. log' \in Seq(Entries)
  BY <1>2 DEF LogIsReal, e
<1>5. \A i \in 1..(n + 1) : i \in 1..n \/ i = n + 1
  BY <1>1
<1>6. LogIsReal'
  BY <1>1, <1>2, <1>3, <1>4, <1>5 DEF LogIsReal
<1> QED BY <1>1, <1>2, <1>3, <1>6 DEF e

\* What a thread is in, after an event.
LEMMA WithinGrows ==
    ASSUME LogIsReal, NEW t, NEW f, NEW at, NEW call, Fits(t, f, at, call),
           log' = Append(log, Entry(t, f, at, call)), UNCHANGED warm
    PROVE  /\ \A u : u # t => Within(u)' = Within(u)
           /\ at = "Enter" => Within(t)' = Within(t) \cup {Len(log) + 1}
           /\ at = "Done" => Within(t)' = {i \in Within(t) : log[i].call # call}
<1> DEFINE n == Len(log)
           e == Entry(t, f, at, call)
<1>1. /\ n \in Nat /\ DOMAIN log = 1..n /\ Len(log') = n + 1
      /\ DOMAIN log' = 1..(n + 1) /\ log'[n + 1] = e
      /\ \A i \in 1..n : log'[i] = log[i]
  BY LogGrows
<1>2. e.tid = t /\ e.at = at /\ e.call = call /\ at \in {"Enter", "Done"}
  BY DEF Entry, Fits, Sides
<1> HIDE DEF n, e
<1>3. \A i \in 1..(n + 1) : i \in 1..n \/ i = n + 1
  BY <1>1
<1>4. \A u, i : i \in Within(u)' <=>
         /\ i \in 1..(n + 1) /\ log'[i].tid = u /\ log'[i].at = "Enter"
         /\ \A j \in (i + 1)..(n + 1) :
               ~(log'[j].tid = u /\ log'[j].call = log'[i].call /\ log'[j].at = "Done")
  BY <1>1 DEF Within
<1>5. \A u, i : i \in Within(u) <=>
         /\ i \in 1..n /\ log[i].tid = u /\ log[i].at = "Enter"
         /\ \A j \in (i + 1)..n :
               ~(log[j].tid = u /\ log[j].call = log[i].call /\ log[j].at = "Done")
  BY <1>1 DEF Within, n
<1>6. ASSUME NEW u, NEW i \in 1..n
      PROVE  i \in Within(u)' <=> i \in Within(u) /\ ~(at = "Done" /\ u = t /\ log[i].call = call)
  <2>1. \A j : j \in (i + 1)..(n + 1) <=> j \in (i + 1)..n \/ j = n + 1
    BY <1>1
  <2>2. \A j \in (i + 1)..n : log'[j] = log[j]
    BY <1>1
  <2>3. log'[i] = log[i] /\ i \in 1..(n + 1)
    BY <1>1
  <2> DEFINE Open == \A j \in (i + 1)..n :
                       ~(log[j].tid = u /\ log[j].call = log[i].call /\ log[j].at = "Done")
             StillOpen == \A j \in (i + 1)..(n + 1) :
                       ~(log'[j].tid = u /\ log'[j].call = log'[i].call /\ log'[j].at = "Done")
  <2>4. StillOpen <=> Open /\ ~(t = u /\ call = log[i].call /\ at = "Done")
    BY <1>1, <1>2, <2>1, <2>2, <2>3
  <2>5. i \in Within(u)' <=> log[i].tid = u /\ log[i].at = "Enter" /\ StillOpen
    <3>1. i \in Within(u)' <=> /\ i \in 1..(n + 1)
                               /\ log'[i].tid = u /\ log'[i].at = "Enter"
                               /\ StillOpen
      BY <1>1 DEF Within
    <3> HIDE DEF StillOpen
    <3> QED BY <2>3, <3>1
  <2>6. i \in Within(u) <=> log[i].tid = u /\ log[i].at = "Enter" /\ Open
    BY <1>5
  <2> HIDE DEF Open, StillOpen
  <2> QED BY <2>4, <2>5, <2>6
<1>7. \A u : n + 1 \in Within(u)' <=> u = t /\ at = "Enter"
  <2>1. (n + 1) + 1 > n + 1 /\ n + 1 \in 1..(n + 1) /\ \A j : j \notin ((n + 1) + 1)..(n + 1)
    BY <1>1
  <2> QED BY <1>1, <1>2, <1>4, <2>1
<1>8. \A u : Within(u) \subseteq 1..n /\ Within(u)' \subseteq 1..(n + 1) /\ n + 1 \notin Within(u)
  BY <1>1, <1>4, <1>5
<1>9. ASSUME NEW u, u # t PROVE Within(u)' = Within(u)
  <2>1. \A i \in 1..(n + 1) : i \in Within(u)' <=> i \in Within(u)
    BY <1>3, <1>6, <1>7, <1>8, <1>9
  <2>2. \A i \in 1..n : i \in 1..(n + 1)
    BY <1>1
  <2> QED BY <1>8, <2>1, <2>2
<1>10. ASSUME at = "Enter" PROVE Within(t)' = Within(t) \cup {n + 1}
  BY <1>3, <1>6, <1>7, <1>8, <1>10
<1>11. ASSUME at = "Done" PROVE Within(t)' = {i \in Within(t) : log[i].call # call}
  BY <1>3, <1>6, <1>7, <1>8, <1>11
<1> QED BY <1>9, <1>10, <1>11 DEF n

-----------------------------------------------------------------------------
(* The judge of program order, event by event.                             *)

AnyTask == Threads \cup {Scanner}
TaskEvents == [task : AnyTask, call : Calls, at : Sides]
Judged == [open : [AnyTask -> Seq(Calls)], spent : SUBSET AnyTask, pending : Int,
           closing : SUBSET AnyTask, ok : BOOLEAN]

LEMMA FrontType ==
    ASSUME NEW S, NEW s \in Seq(S), s # <<>>
    PROVE  Front(s) \in Seq(S)
<1>1. Len(s) \in Nat /\ Len(s) # 0 /\ DOMAIN s = 1..Len(s) /\ \A k \in 1..Len(s) : s[k] \in S
  OBVIOUS
<1>2. Len(s) - 1 \in Nat /\ 1..(Len(s) - 1) \subseteq 1..Len(s)
  BY <1>1
<1> QED BY <1>1, <1>2 DEF Front

LEMMA FollowType ==
    ASSUME NEW c \in Judged, NEW e \in TaskEvents
    PROVE  Follow(c, e) \in Judged
<1>1. e.task \in AnyTask /\ e.call \in Calls /\ e.at \in Sides
  BY DEF TaskEvents
<1>2. c.open[e.task] \in Seq(Calls) /\ c.pending \in Int
  BY <1>1 DEF Judged
<1>3. ASSUME Accepts(c, e) PROVE After(c, e) \in Judged
  <2>1. e.at = "Enter" \/ c.open[e.task] # <<>>
    BY <1>3 DEF Accepts
  <2>2. (IF e.at = "Enter" THEN Append(c.open[e.task], e.call) ELSE Front(c.open[e.task])) \in Seq(Calls)
    <3>1. CASE e.at = "Enter"
      BY <1>1, <1>2, <3>1
    <3>2. CASE e.at # "Enter"
      BY <1>2, <2>1, <3>2, FrontType
    <3> QED BY <3>1, <3>2
  <2>3. Spent(c, e) \in SUBSET AnyTask
    BY <1>1 DEF Spent, Judged
  <2>4. Closing(c, e) \in SUBSET AnyTask
    BY <1>1 DEF Closing, Judged
  <2>5. After(c, e).pending \in Int
    BY <1>2 DEF After
  <2>6. After(c, e).open \in [AnyTask -> Seq(Calls)]
    BY <1>1, <2>2 DEF After, Judged
  <2> QED BY <2>3, <2>4, <2>5, <2>6 DEF After, Judged
<1>4. [c EXCEPT !.ok = FALSE] \in Judged
  BY DEF Judged
<1> QED BY <1>3, <1>4 DEF Follow

LEMMA QuietType == Quiet(0) \in Judged /\ Quiet(1) \in Judged
<1>1. [t \in Threads \cup {Scanner} |-> <<>>] \in [AnyTask -> Seq(Calls)]
  BY DEF AnyTask
<1> QED BY <1>1 DEF Quiet, Judged, AnyTask

FollowSteps(it, n, base, events) ==
    it = [s \in SUBSET (1..n) |->
            IF s = {} THEN base ELSE Follow(it[s \ {Max(s)}], events[Max(s)])]

LEMMA FollowExists ==
    ASSUME NEW base \in Judged, NEW n \in Nat, NEW events, \A k \in 1..n : events[k] \in TaskEvents
    PROVE  \E it : FollowSteps(it, n, base, events)
<1> DEFINE step == [k \in 1..n |-> [v \in Judged |-> Follow(v, events[k])]]
<1>1. step \in [1..n -> [Judged -> Judged]]
  BY FollowType
<1>2. PICK it \in [SUBSET (1..n) -> Judged] : Iterates(it, n, base, step)
  <2> HIDE DEF step
  <2> QED BY <1>1, IterationExists
<1>3. ASSUME NEW s \in SUBSET (1..n)
      PROVE  it[s] = IF s = {} THEN base ELSE Follow(it[s \ {Max(s)}], events[Max(s)])
  <2>1. CASE s = {}
    BY <1>2, <2>1 DEF Iterates
  <2>2. CASE s # {}
    <3>1. Max(s) \in 1..n
      BY <2>2, MaxIsGreatest
    <3>2. it[s \ {Max(s)}] \in Judged
      BY <1>2
    <3>3. it[s] = step[Max(s)][it[s \ {Max(s)}]]
      <4> HIDE DEF step
      <4> QED BY <1>2, <2>2 DEF Iterates
    <3> QED BY <2>2, <3>1, <3>2, <3>3
  <2> QED BY <2>1, <2>2
<1>4. it = [s \in SUBSET (1..n) |-> it[s]]
  BY <1>2
<1>5. FollowSteps(it, n, base, events)
  <2> HIDE DEF step
  <2> QED BY <1>3, <1>4, Zenon DEF FollowSteps
<1> QED BY <1>5

LEMMA FollowNone ==
    ASSUME NEW base \in Judged
    PROVE  FoldLeft(Follow, base, <<>>) = base
<1> DEFINE it == CHOOSE x : FollowSteps(x, 0, base, <<>>)
<1>1. DOMAIN <<>> = 1..0 /\ 1..0 = {} /\ 0 \in Nat /\ \A k \in 1..0 : <<>>[k] \in TaskEvents
  OBVIOUS
<1>2. FoldLeft(Follow, base, <<>>) = it[1..0]
  BY <1>1 DEF FoldLeft, MapThenFoldSet, FollowSteps
<1>3. FollowSteps(it, 0, base, <<>>)
  BY <1>1, FollowExists
<1> HIDE DEF it
<1> QED BY <1>1, <1>2, <1>3 DEF FollowSteps

LEMMA FollowAppend ==
    ASSUME NEW base \in Judged, NEW events \in Seq(TaskEvents), NEW e \in TaskEvents
    PROVE  FoldLeft(Follow, base, Append(events, e)) =
              Follow(FoldLeft(Follow, base, events), e)
<1> DEFINE n == Len(events)
           more == Append(events, e)
           it == CHOOSE x : FollowSteps(x, n + 1, base, more)
           it2 == CHOOSE x : FollowSteps(x, n, base, events)
<1>1. /\ n \in Nat /\ n + 1 \in Nat /\ DOMAIN events = 1..n /\ DOMAIN more = 1..(n + 1)
      /\ \A k \in 1..n : events[k] \in TaskEvents
      /\ \A k \in 1..(n + 1) : more[k] \in TaskEvents
  OBVIOUS
<1>2. more[n + 1] = e /\ \A k \in 1..n : events[k] = more[k]
  OBVIOUS
<1> HIDE DEF n, more
<1>3. /\ FoldLeft(Follow, base, more) = it[1..(n + 1)]
      /\ FoldLeft(Follow, base, events) = it2[1..n]
  BY <1>1 DEF FoldLeft, MapThenFoldSet, FollowSteps
<1>4. FollowSteps(it, n + 1, base, more) /\ FollowSteps(it2, n, base, events)
  BY <1>1, FollowExists
<1> HIDE DEF it, it2
<1>5. 1..(n + 1) # {} /\ Max(1..(n + 1)) = n + 1 /\ 1..(n + 1) \ {n + 1} = 1..n
  <2>1. n + 1 \in 1..(n + 1) /\ (n + 1) - 1 = n
    BY <1>1
  <2> QED BY <1>1, <2>1, MaxOfInterval
<1>6. it[1..(n + 1)] = Follow(it[1..n], e)
  <2>1. 1..(n + 1) \in SUBSET (1..(n + 1))
    OBVIOUS
  <2>2. it[1..(n + 1)] = Follow(it[(1..(n + 1)) \ {Max(1..(n + 1))}], more[Max(1..(n + 1))])
    BY <1>4, <1>5, <2>1 DEF FollowSteps
  <2> QED BY <1>2, <1>5, <2>2
<1>7. it[1..n] = it2[1..n]
  <2>1. it[{}] = it2[{}]
    BY <1>4 DEF FollowSteps
  <2>2. ASSUME NEW s \in SUBSET (1..n), s # {}, it[s \ {Max(s)}] = it2[s \ {Max(s)}]
        PROVE  it[s] = it2[s]
    <3>1. Max(s) \in 1..n
      BY <1>1, <2>2, MaxIsGreatest
    <3>2. s \in SUBSET (1..(n + 1))
      BY <1>1
    <3>3. it[s] = Follow(it[s \ {Max(s)}], more[Max(s)])
      BY <1>4, <2>2, <3>2 DEF FollowSteps
    <3>4. it2[s] = Follow(it2[s \ {Max(s)}], events[Max(s)])
      BY <1>4, <2>2 DEF FollowSteps
    <3> QED BY <1>2, <2>2, <3>1, <3>3, <3>4
  <2>3. StepsAgree(n, it, it2)
    BY <2>1, <2>2 DEF StepsAgree
  <2>4. \A s \in SUBSET (1..n) : it[s] = it2[s]
    BY <1>1, <2>3, IterationsAgree
  <2> QED BY <2>4
<1> QED BY <1>3, <1>6, <1>7 DEF more

\* Events that the probes can print.
RealEntries == {e \in Entries : e.call = "RescanWorker" <=> e.tid \in KWorkers}

LEMMA TaskType ==
    ASSUME NEW e \in RealEntries
    PROVE  AsTask(e) \in TaskEvents
BY DEF AsTask, TaskOf, TaskEvents, AnyTask, RealEntries, Entries, Tids, Scanner

LEMMA TasksAppend ==
    ASSUME NEW s \in Seq(RealEntries), NEW e \in RealEntries
    PROVE  /\ Tasks(s) \in Seq(TaskEvents)
           /\ Tasks(Append(s, e)) = Append(Tasks(s), AsTask(e))
<1> DEFINE n == Len(s)
           more == Append(s, e)
<1>1. n \in Nat /\ DOMAIN s = 1..n /\ \A k \in 1..n : s[k] \in RealEntries
  OBVIOUS
<1>2. /\ DOMAIN more = 1..(n + 1) /\ more[n + 1] = e
      /\ \A k \in 1..n : more[k] = s[k]
  OBVIOUS
<1> HIDE DEF n, more
<1>3. Tasks(s) = [k \in 1..n |-> AsTask(s[k])] /\ \A k \in 1..n : AsTask(s[k]) \in TaskEvents
  BY <1>1, TaskType DEF Tasks
<1>4. Tasks(s) \in Seq(TaskEvents) /\ Len(Tasks(s)) = n /\ DOMAIN Tasks(s) = 1..n
  BY <1>1, <1>3
<1>5. Tasks(more) = [k \in 1..(n + 1) |-> AsTask(more[k])]
  BY <1>2 DEF Tasks
<1>6. AsTask(e) \in TaskEvents
  BY TaskType
<1> DEFINE a == Append(Tasks(s), AsTask(e))
<1>7. /\ a \in Seq(TaskEvents) /\ Len(a) = n + 1 /\ a[n + 1] = AsTask(e)
      /\ \A k \in 1..n : a[k] = Tasks(s)[k]
  BY <1>1, <1>4, <1>6
<1> HIDE DEF a
<1>8. DOMAIN a = 1..(n + 1) /\ a = [k \in 1..(n + 1) |-> a[k]]
  BY <1>1, <1>7
<1>9. \A k \in 1..(n + 1) : a[k] = AsTask(more[k])
  <2>1. \A k \in 1..(n + 1) : k \in 1..n \/ k = n + 1
    BY <1>1
  <2> QED BY <1>2, <1>3, <1>7, <2>1
<1>10. Tasks(more) = a
  BY <1>5, <1>8, <1>9
<1> QED BY <1>4, <1>10 DEF a, more

LEMMA LogEntriesReal ==
    ASSUME LogIsReal, NEW i \in DOMAIN log
    PROVE  log[i] \in RealEntries
BY DEF LogIsReal, RealEntries

\* The part of a file system grows with its own events only.
LEMMA OnGrows ==
    ASSUME LogIsReal, NEW t, NEW f, NEW at, NEW call, Fits(t, f, at, call),
           log' = Append(log, Entry(t, f, at, call)), UNCHANGED warm, NEW g
    PROVE  /\ On(g) \in Seq(RealEntries)
           /\ On(g)' = IF g = f THEN Append(On(g), Entry(t, f, at, call)) ELSE On(g)
<1> DEFINE n == Len(log)
           e == Entry(t, f, at, call)
           P == {i \in DOMAIN log : log[i].on = g}
           Q == {i \in DOMAIN log' : log'[i].on = g}
<1>1. /\ n \in Nat /\ DOMAIN log = 1..n /\ DOMAIN log' = 1..(n + 1) /\ log'[n + 1] = e
      /\ \A i \in 1..n : log'[i] = log[i]
      /\ e \in RealEntries
  BY LogGrows DEF RealEntries, Entry, Fits
<1>2. e.on = f
  BY DEF Entry
<1>3. P \in SUBSET Int /\ IsFiniteSet(P) /\ (\A i \in P : i \in 1..n /\ i < n + 1) /\ n + 1 \in Int
  <2>1. P \in SUBSET (1..n) /\ IsFiniteSet(1..n)
    BY <1>1, IntervalCount
  <2>2. IsFiniteSet(P)
    BY <2>1, FS_Subset
  <2> QED BY <1>1, <2>1, <2>2
<1>4. \A i \in P : log[i] \in RealEntries
  BY LogEntriesReal
<1>5. On(g) = Pick(log, P) /\ On(g)' = Pick(log', Q)
  BY DEF On
<1>6. Q = IF g = f THEN P \cup {n + 1} ELSE P
  <2>1. \A i \in 1..(n + 1) : i \in 1..n \/ i = n + 1
    BY <1>1
  <2>2. \A i \in 1..n : i \in 1..(n + 1) /\ i # n + 1
    BY <1>1
  <2>3. n + 1 \in 1..(n + 1)
    BY <1>1
  <2> HIDE DEF n, e
  <2>4. \A i : i \in Q <=> i \in P \/ (i = n + 1 /\ g = f)
    BY <1>1, <1>2, <2>1, <2>2, <2>3
  <2> HIDE DEF P, Q
  <2> QED BY <2>4
<1> HIDE DEF P, Q, n, e
<1>7. Pick(log', P) = Pick(log, P)
  BY <1>1, <1>3, PickKept
<1>8. Pick(log, P) \in Seq(RealEntries)
  BY <1>3, <1>4, PickIs
<1>9. Pick(log', P \cup {n + 1}) = Append(Pick(log', P), log'[n + 1])
  <2>1. \A i \in P \cup {n + 1} : log'[i] \in RealEntries
    BY <1>1, <1>3, <1>4
  <2> QED BY <1>3, <2>1, PickAppend
<1> QED BY <1>1, <1>5, <1>6, <1>7, <1>8, <1>9 DEF e

LEMMA StateGrows ==
    ASSUME LogIsReal, NEW t, NEW f, NEW at, NEW call, Fits(t, f, at, call),
           log' = Append(log, Entry(t, f, at, call)), UNCHANGED warm, NEW g
    PROVE  State(g)' = IF g = f THEN Follow(State(g), AsTask(Entry(t, f, at, call))) ELSE State(g)
<1> DEFINE e == Entry(t, f, at, call)
           q == Quiet(IF g \in warm THEN 1 ELSE 0)
<1>1. e \in RealEntries
  BY LogGrows DEF RealEntries, Entry, Fits
<1>2. /\ On(g) \in Seq(RealEntries)
      /\ On(g)' = IF g = f THEN Append(On(g), e) ELSE On(g)
  BY OnGrows
<1>3. State(g) = FoldLeft(Follow, q, Tasks(On(g))) /\ State(g)' = FoldLeft(Follow, q, Tasks(On(g)'))
  BY DEF State, Tasks, AsTask, TaskOf
<1>4. q \in Judged
  BY QuietType
<1> HIDE DEF e, q
<1>5. /\ Tasks(On(g)) \in Seq(TaskEvents) /\ AsTask(e) \in TaskEvents
      /\ Tasks(Append(On(g), e)) = Append(Tasks(On(g)), AsTask(e))
  BY <1>1, <1>2, TasksAppend, TaskType
<1>6. FoldLeft(Follow, q, Append(Tasks(On(g)), AsTask(e))) =
         Follow(FoldLeft(Follow, q, Tasks(On(g))), AsTask(e))
  BY <1>4, <1>5, FollowAppend
<1> QED BY <1>2, <1>3, <1>5, <1>6 DEF e

-----------------------------------------------------------------------------
(* The calls that a thread is in are those that the judge has open.        *)

Alone(t, i) ==
    /\ Within(t) = {i}
    /\ \A f \in FileSystems :
          State(f).open[t] = IF f = log[i].on THEN <<log[i].call>> ELSE <<>>

Nests(t, i, j) ==
    /\ Within(t) = {i, j} /\ i < j
    /\ log[i].on = log[j].on /\ <<log[i].call, log[j].call>> \in Nested
    /\ \A f \in FileSystems :
          State(f).open[t] = IF f = log[i].on THEN <<log[i].call, log[j].call>> ELSE <<>>

Outside(t) == Within(t) = {} /\ \A f \in FileSystems : State(f).open[t] = <<>>

ThreadIn(t) ==
    \/ Outside(t)
    \/ \E i \in DOMAIN log : Alone(t, i)
    \/ \E i, j \in DOMAIN log : Nests(t, i, j)

\* The kernel threads in a file system: one at most.
Scanning(f) == {k \in KWorkers : \E i \in Within(k) : log[i].on = f}

ScansAreOpen ==
    /\ \A k \in KWorkers : Within(k) = {} \/ \E i \in DOMAIN log : Within(k) = {i}
    /\ \A f \in FileSystems :
          /\ \A k, l \in Scanning(f) : k = l
          /\ State(f).open[Scanner] = IF Scanning(f) = {} THEN <<>> ELSE <<"RescanWorker">>

AllAccepted == \A f \in FileSystems : State(f) \in Judged /\ State(f).ok

CallsInv == AllAccepted /\ ScansAreOpen /\ \A t \in Threads : ThreadIn(t)

\* The judge has come from c to d, with one task in other calls.
Moves(c, d, t, calls) ==
    /\ d.ok /\ d.open[t] = calls
    /\ \A u \in AnyTask \ {t} : d.open[u] = c.open[u]

LEMMA FollowEnters ==
    ASSUME NEW c \in Judged, c.ok, NEW t \in AnyTask, NEW call, MayEnter(c, t, call)
    PROVE  LET d == Follow(c, [task |-> t, call |-> call, at |-> "Enter"]) IN
           /\ Moves(c, d, t, Append(c.open[t], call))
           /\ d.spent = IF Len(c.open[t]) = 1 THEN c.spent \cup {t} ELSE c.spent \ {t}
<1> DEFINE d == Follow(c, [task |-> t, call |-> call, at |-> "Enter"])
           e == [task |-> t, call |-> call, at |-> "Enter"]
<1>1. e.task = t /\ e.call = call /\ e.at = "Enter"
  OBVIOUS
<1> HIDE DEF e, d
<1>2. Accepts(c, e)
  BY <1>1 DEF Accepts
<1>3. d = After(c, e)
  BY <1>2 DEF Follow, e, d
<1>4. d.ok /\ d.open = [c.open EXCEPT ![t] = Append(@, call)] /\ d.spent = Spent(c, e)
  BY <1>1, <1>3 DEF After
<1>5. DOMAIN c.open = AnyTask
  BY DEF Judged
<1> QED BY <1>1, <1>4, <1>5 DEF Spent, Moves, d

LEMMA FollowLeaves ==
    ASSUME NEW c \in Judged, c.ok, NEW t \in AnyTask, NEW call,
           c.open[t] # <<>>, Last(c.open[t]) = call
    PROVE  LET d == Follow(c, [task |-> t, call |-> call, at |-> "Done"]) IN
           /\ Moves(c, d, t, Front(c.open[t]))
           /\ d.spent = IF Len(c.open[t]) = 2 THEN c.spent \cup {t} ELSE c.spent \ {t}
<1> DEFINE d == Follow(c, [task |-> t, call |-> call, at |-> "Done"])
           e == [task |-> t, call |-> call, at |-> "Done"]
<1>1. e.task = t /\ e.call = call /\ e.at = "Done"
  OBVIOUS
<1> HIDE DEF e, d
<1>2. Accepts(c, e)
  BY <1>1 DEF Accepts
<1>3. d = After(c, e)
  BY <1>2 DEF Follow, e, d
<1>4. d.ok /\ d.open = [c.open EXCEPT ![t] = Front(@)] /\ d.spent = Spent(c, e)
  BY <1>1, <1>3 DEF After
<1>5. DOMAIN c.open = AnyTask
  BY DEF Judged
<1> QED BY <1>1, <1>4, <1>5 DEF Spent, Moves, d

LEMMA OneCall ==
    ASSUME NEW a, NEW b
    PROVE  /\ <<a>> # <<>> /\ Len(<<a>>) = 1 /\ Len(<<>>) = 0 /\ Last(<<a>>) = a
           /\ Front(<<a>>) = <<>> /\ Append(<<>>, b) = <<b>>
<1>1. Append(<<>>, b) = <<b>>
  <2>1. <<>> \in Seq({b})
    OBVIOUS
  <2>2. Append(<<>>, b) \in Seq({b}) /\ Len(Append(<<>>, b)) = 1 /\ Append(<<>>, b)[1] = b
    BY <2>1
  <2> QED BY <2>2
<1>2. Front(<<a>>) = <<>>
  BY DEF Front
<1>3. Last(<<a>>) = a
  BY DEF Last
<1> QED BY <1>1, <1>2, <1>3

LEMMA TwoCalls ==
    ASSUME NEW a, NEW b
    PROVE  /\ <<a, b>> # <<>> /\ Len(<<a, b>>) = 2 /\ Last(<<a, b>>) = b
           /\ Front(<<a, b>>) = <<a>> /\ Append(<<a>>, b) = <<a, b>>
<1>1. Append(<<a>>, b) = <<a, b>>
  <2>1. <<a>> \in Seq({a, b})
    OBVIOUS
  <2>2. /\ Append(<<a>>, b) \in Seq({a, b}) /\ Len(Append(<<a>>, b)) = 2
        /\ Append(<<a>>, b)[1] = a /\ Append(<<a>>, b)[2] = b
    BY <2>1
  <2>3. Append(<<a>>, b) = [i \in 1..2 |-> IF i = 1 THEN a ELSE b]
    BY <2>2
  <2>4. <<a, b>> = [i \in 1..2 |-> IF i = 1 THEN a ELSE b]
    OBVIOUS
  <2> QED BY <2>3, <2>4
<1>2. Front(<<a, b>>) = <<a>>
  <2>1. Len(<<a, b>>) = 2 /\ <<a, b>>[1] = a /\ 1..(2 - 1) = {1}
    OBVIOUS
  <2>2. Front(<<a, b>>) = [i \in {1} |-> <<a, b>>[i]]
    BY <2>1 DEF Front
  <2>3. <<a>> = [i \in {1} |-> a]
    OBVIOUS
  <2> QED BY <2>1, <2>2, <2>3
<1>3. Last(<<a, b>>) = b
  BY DEF Last
<1>4. <<a, b>> # <<>>
  OBVIOUS
<1> QED BY <1>1, <1>2, <1>3, <1>4

\* What the begin of a call says of its thread.
LEMMA BeginCases ==
    ASSUME LogIsReal, CallsInv, NEW t, NEW f, NEW call, Opens(t, f, call), call # "RescanWorker"
    PROVE  /\ t \in Threads /\ t # Scanner
           /\ \/ Outside(t) /\ call \in Ioctls \cup {"FreeQgroupConfig"}
              \/ \E i \in DOMAIN log :
                    /\ Alone(t, i) /\ log[i].on = f /\ <<log[i].call, call>> \in Nested
                    /\ t \notin State(f).spent
<1>1. t \in Threads /\ t # Scanner /\ f \in FileSystems
  BY ToolsAssumption DEF Opens, Fits, Tids
<1>2. MayEnter(State(f), t, call) /\ \A i \in Within(t) : log[i].on = f
  BY DEF Opens
<1>3. ThreadIn(t)
  BY <1>1 DEF CallsInv
<1>4. CASE State(f).open[t] = <<>> /\ call \in Ioctls \cup {"FreeQgroupConfig"}
  <2>1. ~\E i \in DOMAIN log : Alone(t, i)
    BY <1>1, <1>2, <1>4, OneCall DEF Alone
  <2>2. ~\E i, j \in DOMAIN log : Nests(t, i, j)
    BY <1>1, <1>2, <1>4, TwoCalls DEF Nests
  <2> QED BY <1>1, <1>3, <1>4, <2>1, <2>2 DEF ThreadIn
<1>5. CASE /\ Len(State(f).open[t]) = 1 /\ <<State(f).open[t][1], call>> \in Nested
           /\ t \notin State(f).spent
  <2>1. ~Outside(t)
    BY <1>1, <1>5, OneCall DEF Outside
  <2>2. ~\E i, j \in DOMAIN log : Nests(t, i, j)
    <3> SUFFICES ASSUME NEW i \in DOMAIN log, NEW j \in DOMAIN log, Nests(t, i, j) PROVE FALSE
      OBVIOUS
    <3>1. State(f).open[t] = <<log[i].call, log[j].call>>
      BY <1>1, <1>2 DEF Nests
    <3> QED BY <1>5, <3>1, TwoCalls
  <2>3. PICK i \in DOMAIN log : Alone(t, i)
    BY <1>3, <2>1, <2>2 DEF ThreadIn
  <2>4. log[i].on = f /\ State(f).open[t] = <<log[i].call>>
    BY <1>1, <1>2, <2>3 DEF Alone
  <2> QED BY <1>1, <1>5, <2>3, <2>4
<1>6. \/ State(f).open[t] = <<>> /\ call \in Ioctls \cup {"FreeQgroupConfig"}
      \/ /\ Len(State(f).open[t]) = 1 /\ <<State(f).open[t][1], call>> \in Nested
         /\ t \notin State(f).spent
  BY <1>1, <1>2 DEF MayEnter
<1> QED BY <1>4, <1>5, <1>6

\* The last call that a thread has begun is the one it leaves.
LEMMA EndCases ==
    ASSUME LogIsReal, CallsInv, NEW t, NEW i, Closes(t, i), log[i].call # "RescanWorker"
    PROVE  /\ t \in Threads /\ t # Scanner /\ i \in DOMAIN log /\ log[i].on \in FileSystems
           /\ Alone(t, i) \/ \E h \in DOMAIN log : Nests(t, h, i)
<1>1. t \in Threads /\ t # Scanner /\ log[i].on \in FileSystems
  BY ToolsAssumption DEF Closes, Fits, Tids
<1>2. /\ i \in Within(t) /\ \A j \in Within(t) : j <= i
      /\ i \in DOMAIN log
  BY DEF Closes, Within
<1>3. ThreadIn(t)
  BY <1>1 DEF CallsInv
<1>4. ~Outside(t)
  BY <1>2 DEF Outside
<1>5. ASSUME NEW h \in DOMAIN log, Alone(t, h) PROVE h = i
  BY <1>2, <1>5 DEF Alone
<1>6. ASSUME NEW h \in DOMAIN log, NEW j \in DOMAIN log, Nests(t, h, j) PROVE j = i
  <2>1. DOMAIN log \subseteq Int
    BY DEF LogIsReal
  <2>2. i \in {h, j} /\ j <= i /\ h < j
    BY <1>2, <1>6 DEF Nests
  <2> QED BY <2>1, <2>2
<1> QED BY <1>1, <1>2, <1>3, <1>4, <1>5, <1>6 DEF ThreadIn

LEMMA ThreadKept ==
    ASSUME NEW u, ThreadIn(u), Within(u)' = Within(u), DOMAIN log \subseteq DOMAIN log',
           \A i \in DOMAIN log : log'[i] = log[i],
           \A g \in FileSystems : State(g)'.open[u] = State(g).open[u]
    PROVE  ThreadIn(u)'
<1>1. CASE Outside(u)
  BY <1>1 DEF Outside, ThreadIn
<1>2. CASE \E i \in DOMAIN log : Alone(u, i)
  <2>1. PICK i \in DOMAIN log : Alone(u, i)
    BY <1>2
  <2>2. Within(u)' = {i} /\ i \in DOMAIN log' /\ log'[i] = log[i]
    BY <2>1 DEF Alone
  <2>3. \A f \in FileSystems :
          State(f)'.open[u] = IF f = log'[i].on THEN <<log'[i].call>> ELSE <<>>
    BY <2>1, <2>2 DEF Alone
  <2>4. Alone(u, i)'
    BY <2>2, <2>3 DEF Alone
  <2> QED BY <2>2, <2>4 DEF ThreadIn
<1>3. CASE \E i, j \in DOMAIN log : Nests(u, i, j)
  <2>1. PICK i \in DOMAIN log, j \in DOMAIN log : Nests(u, i, j)
    BY <1>3
  <2>2. /\ Within(u)' = {i, j} /\ i \in DOMAIN log' /\ log'[i] = log[i]
        /\ j \in DOMAIN log' /\ log'[j] = log[j]
    BY <2>1 DEF Nests
  <2>3. \A f \in FileSystems :
          State(f)'.open[u] = IF f = log'[i].on THEN <<log'[i].call, log'[j].call>> ELSE <<>>
    BY <2>1, <2>2 DEF Nests
  <2>4. Nests(u, i, j)'
    BY <2>1, <2>2, <2>3 DEF Nests
  <2> QED BY <2>2, <2>4 DEF ThreadIn
<1> QED BY <1>1, <1>2, <1>3 DEF ThreadIn

LEMMA ScansKept ==
    ASSUME ScansAreOpen, \A k \in KWorkers : Within(k)' = Within(k),
           DOMAIN log \subseteq DOMAIN log', \A i \in DOMAIN log : log'[i] = log[i],
           \A g \in FileSystems : State(g)'.open[Scanner] = State(g).open[Scanner]
    PROVE  ScansAreOpen'
<1>1. ASSUME NEW f PROVE Scanning(f)' = Scanning(f)
  <2>1. \A k \in KWorkers : \A i \in Within(k) : i \in DOMAIN log
    BY DEF Within
  <2>2. \A k \in KWorkers : (\E i \in Within(k)' : log'[i].on = f) <=> (\E i \in Within(k) : log[i].on = f)
    BY <2>1
  <2> QED BY <2>2 DEF Scanning
<1>2. \A k \in KWorkers : Within(k)' = {} \/ \E i \in DOMAIN log' : Within(k)' = {i}
  BY DEF ScansAreOpen
<1>3. ASSUME NEW f \in FileSystems
      PROVE  /\ \A k, l \in Scanning(f)' : k = l
             /\ State(f)'.open[Scanner] = IF Scanning(f)' = {} THEN <<>> ELSE <<"RescanWorker">>
  BY <1>1 DEF ScansAreOpen
<1> QED BY <1>2, <1>3 DEF ScansAreOpen

\* The judge takes an event of a task, and knows no other difference.
LEMMA JudgeGrows ==
    ASSUME LogIsReal, AllAccepted, NEW t, NEW f, NEW at, NEW call, Fits(t, f, at, call),
           log' = Append(log, Entry(t, f, at, call)), UNCHANGED warm,
           NEW task, task = (IF call = "RescanWorker" THEN Scanner ELSE t)
    PROVE  /\ task \in AnyTask
           /\ State(f)' = Follow(State(f), [task |-> task, call |-> call, at |-> at])
           /\ State(f)' \in Judged
           /\ \A g \in FileSystems : g # f => State(g)' = State(g)
<1> DEFINE e == Entry(t, f, at, call)
<1>1. e \in RealEntries
  BY LogGrows DEF RealEntries, Entry, Fits
<1>2. AsTask(e) = [task |-> task, call |-> call, at |-> at]
  BY DEF AsTask, TaskOf, Entry
<1>3. AsTask(e) \in TaskEvents
  BY <1>1, TaskType
<1>4. State(f)' = Follow(State(f), AsTask(e)) /\ \A g : g # f => State(g)' = State(g)
  BY StateGrows
<1>5. f \in FileSystems /\ State(f) \in Judged
  BY DEF Fits, AllAccepted
<1>6. State(f)' \in Judged
  BY <1>3, <1>4, <1>5, FollowType
<1>7. task \in AnyTask
  BY DEF Fits, AnyTask, Tids
<1> QED BY <1>2, <1>4, <1>6, <1>7

LEMMA CallBegins ==
    ASSUME LogIsReal, CallsInv, NEW t, NEW f, NEW call, Opens(t, f, call), UNCHANGED warm,
           call # "RescanWorker"
    PROVE  CallsInv'
<1> PICK n : n = Len(log)
  OBVIOUS
<1> PICK c, d : c = State(f) /\ d = State(f)'
  OBVIOUS
<1>1. /\ Fits(t, f, "Enter", call) /\ log' = Append(log, Entry(t, f, "Enter", call))
      /\ MayEnter(c, t, call)
  BY DEF Opens
<1>2. /\ LogIsReal' /\ n \in Nat /\ DOMAIN log = 1..n /\ DOMAIN log' = 1..(n + 1)
      /\ log'[n + 1] = Entry(t, f, "Enter", call) /\ \A i \in 1..n : log'[i] = log[i]
  BY <1>1, LogGrows
<1>3. log'[n + 1].on = f /\ log'[n + 1].call = call
  BY <1>2 DEF Entry
<1>4. /\ t \in AnyTask /\ d \in Judged
      /\ d = Follow(c, [task |-> t, call |-> call, at |-> "Enter"])
      /\ \A g \in FileSystems : g # f => State(g)' = State(g)
  BY <1>1, JudgeGrows DEF CallsInv
<1>5. f \in FileSystems /\ t \in Threads /\ t # Scanner /\ t \notin KWorkers
  BY <1>1, BeginCases DEF Fits
<1>6. c \in Judged /\ c.ok
  BY <1>5 DEF CallsInv, AllAccepted
<1>7. d.ok /\ d.open[t] = Append(c.open[t], call) /\ \A u \in AnyTask \ {t} : d.open[u] = c.open[u]
  <2>1. t \in AnyTask /\ c \in Judged /\ c.ok /\ MayEnter(c, t, call)
    BY <1>1, <1>4, <1>6
  <2>2. Moves(c, Follow(c, [task |-> t, call |-> call, at |-> "Enter"]), t, Append(c.open[t], call))
    BY <2>1, FollowEnters
  <2>3. Moves(c, d, t, Append(c.open[t], call))
    BY <2>2, <1>4
  <2> QED BY <2>3 DEF Moves
<1>8. /\ \A u : u # t => Within(u)' = Within(u)
      /\ Within(t)' = Within(t) \cup {n + 1}
  BY <1>1, WithinGrows
<1>9. \A g \in FileSystems : State(g)'.open[Scanner] = State(g).open[Scanner]
  BY <1>4, <1>5, <1>7 DEF AnyTask
<1>10. DOMAIN log \subseteq DOMAIN log' /\ \A i \in DOMAIN log : log'[i] = log[i]
  BY <1>2
<1>11. AllAccepted'
  <2>1. \A g \in FileSystems : State(g)' \in Judged
    BY <1>4 DEF CallsInv, AllAccepted
  <2>2. \A g \in FileSystems : State(g)'.ok
    BY <1>4, <1>7, Zenon DEF CallsInv, AllAccepted
  <2> QED BY <2>1, <2>2 DEF AllAccepted
<1>12. ScansAreOpen'
  <2>1. \A k \in KWorkers : Within(k)' = Within(k)
    BY <1>5, <1>8
  <2> QED BY <2>1, <1>9, <1>10, ScansKept DEF CallsInv
<1>13. ASSUME NEW u \in Threads, u # t PROVE ThreadIn(u)'
  <2>1. \A g \in FileSystems : State(g)'.open[u] = State(g).open[u]
    BY <1>4, <1>7, <1>13 DEF AnyTask
  <2>2. Within(u)' = Within(u) /\ ThreadIn(u)
    BY <1>8, <1>13 DEF CallsInv
  <2> QED BY <2>1, <2>2, <1>10, ThreadKept
<1>14. ThreadIn(t)'
  <2>1. CASE Outside(t)
    <3>1. Within(t)' = {n + 1} /\ c.open[t] = <<>>
      BY <1>5, <1>8, <2>1 DEF Outside
    <3>2. d.open[t] = <<call>>
      BY <1>7, <3>1, OneCall
    <3>3. \A g \in FileSystems : State(g)'.open[t] = IF g = f THEN <<call>> ELSE <<>>
      BY <1>4, <2>1, <3>2 DEF Outside
    <3>4. Alone(t, n + 1)'
      BY <1>3, <3>1, <3>3 DEF Alone
    <3>5. n + 1 \in DOMAIN log'
      BY <1>2
    <3> QED BY <3>4, <3>5 DEF ThreadIn
  <2>2. ASSUME NEW i \in DOMAIN log, Alone(t, i), log[i].on = f, <<log[i].call, call>> \in Nested
        PROVE  ThreadIn(t)'
    <3>1. Within(t)' = {i, n + 1} /\ c.open[t] = <<log[i].call>>
      BY <1>5, <1>8, <2>2 DEF Alone
    <3>2. d.open[t] = <<log[i].call, call>>
      <4>1. d.open[t] = Append(<<log[i].call>>, call)
        BY <1>7, <3>1
      <4> QED BY <4>1, TwoCalls
    <3>3. \A g \in FileSystems : State(g)'.open[t] = IF g = f THEN <<log[i].call, call>> ELSE <<>>
      BY <1>4, <2>2, <3>2 DEF Alone
    <3>4. i < n + 1 /\ i \in DOMAIN log' /\ n + 1 \in DOMAIN log' /\ log'[i] = log[i]
      BY <1>2, <2>2
    <3>5. Nests(t, i, n + 1)'
      BY <1>3, <2>2, <3>1, <3>3, <3>4 DEF Nests
    <3> QED BY <3>4, <3>5 DEF ThreadIn
  <2> QED BY <2>1, <2>2, BeginCases
<1> QED BY <1>11, <1>12, <1>13, <1>14 DEF CallsInv

LEMMA CallEnds ==
    ASSUME LogIsReal, CallsInv, NEW t, NEW i, Closes(t, i), UNCHANGED warm,
           NEW f, f = log[i].on, NEW call, call = log[i].call, call # "RescanWorker"
    PROVE  CallsInv'
<1> PICK n, c, d : n = Len(log) /\ c = State(f) /\ d = State(f)'
  OBVIOUS
<1>1. Fits(t, f, "Done", call) /\ log' = Append(log, Entry(t, f, "Done", call))
  BY DEF Closes
<1>2. /\ n \in Nat /\ DOMAIN log = 1..n /\ DOMAIN log' = 1..(n + 1)
      /\ \A j \in 1..n : log'[j] = log[j]
  BY <1>1, LogGrows
<1>4. /\ t \in AnyTask /\ d \in Judged
      /\ d = Follow(c, [task |-> t, call |-> call, at |-> "Done"])
      /\ \A g \in FileSystems : g # f => State(g)' = State(g)
  BY <1>1, JudgeGrows DEF CallsInv
<1>5. f \in FileSystems /\ t \in Threads /\ t # Scanner /\ t \notin KWorkers
  BY <1>1, EndCases DEF Fits
<1>6. c \in Judged /\ c.ok
  BY <1>5 DEF CallsInv, AllAccepted
<1>7. /\ \A u : u # t => Within(u)' = Within(u)
      /\ Within(t)' = {j \in Within(t) : log[j].call # call}
  BY <1>1, WithinGrows
<1>8. Alone(t, i) \/ \E h \in DOMAIN log : Nests(t, h, i)
  BY EndCases
<1> DEFINE Left == c.open[t] # <<>> /\ Last(c.open[t]) = call
<1>9. ASSUME Alone(t, i) PROVE Left /\ Front(c.open[t]) = <<>>
  <2>1. c.open[t] = <<call>>
    BY <1>5, <1>9 DEF Alone
  <2> QED BY <2>1, OneCall
<1>10. ASSUME NEW h \in DOMAIN log, Nests(t, h, i) PROVE Left /\ Front(c.open[t]) = <<log[h].call>>
  <2>1. c.open[t] = <<log[h].call, call>>
    BY <1>5, <1>10 DEF Nests
  <2>2. /\ c.open[t] # <<>> /\ Last(c.open[t]) = call
        /\ Front(c.open[t]) = <<log[h].call>>
    <3>1. /\ <<log[h].call, call>> # <<>> /\ Last(<<log[h].call, call>>) = call
          /\ Front(<<log[h].call, call>>) = <<log[h].call>>
      BY TwoCalls, Zenon
    <3> HIDE DEF Left
    <3> QED BY <2>1, <3>1, Zenon
  <2> QED BY <2>2
<1>11. d.ok /\ d.open[t] = Front(c.open[t]) /\ \A u \in AnyTask \ {t} : d.open[u] = c.open[u]
  <2>1. c.open[t] # <<>> /\ Last(c.open[t]) = call
    BY <1>8, <1>9, <1>10
  <2>2. Moves(c, Follow(c, [task |-> t, call |-> call, at |-> "Done"]), t, Front(c.open[t]))
    BY <1>4, <1>6, <2>1, FollowLeaves
  <2>3. Moves(c, d, t, Front(c.open[t]))
    BY <2>2, <1>4
  <2> QED BY <2>3 DEF Moves
<1>12. DOMAIN log \subseteq DOMAIN log' /\ \A j \in DOMAIN log : log'[j] = log[j]
  BY <1>2
<1>13. \A g \in FileSystems : State(g)'.open[Scanner] = State(g).open[Scanner]
  BY <1>4, <1>5, <1>11 DEF AnyTask
<1>14. AllAccepted'
  <2>1. \A g \in FileSystems : State(g)' \in Judged
    BY <1>4 DEF CallsInv, AllAccepted
  <2>2. \A g \in FileSystems : State(g)'.ok
    BY <1>4, <1>11, Zenon DEF CallsInv, AllAccepted
  <2> QED BY <2>1, <2>2 DEF AllAccepted
<1>15. ScansAreOpen'
  <2>1. \A k \in KWorkers : Within(k)' = Within(k)
    BY <1>5, <1>7
  <2> QED BY <2>1, <1>12, <1>13, ScansKept DEF CallsInv
<1>16. ASSUME NEW u \in Threads, u # t PROVE ThreadIn(u)'
  <2>1. \A g \in FileSystems : State(g)'.open[u] = State(g).open[u]
    BY <1>4, <1>11, <1>16 DEF AnyTask
  <2>2. Within(u)' = Within(u) /\ ThreadIn(u)
    BY <1>7, <1>16 DEF CallsInv
  <2> QED BY <2>1, <2>2, <1>12, ThreadKept
<1>17. CASE Alone(t, i)
  <2>1. Within(t)' = {}
    BY <1>7, <1>17 DEF Alone
  <2>2. \A g \in FileSystems : State(g)'.open[t] = <<>>
    BY <1>4, <1>9, <1>11, <1>17 DEF Alone
  <2>3. Outside(t)'
    BY <2>1, <2>2 DEF Outside
  <2>4. ThreadIn(t)'
    BY <2>3 DEF ThreadIn
  <2> QED BY <1>14, <1>15, <1>16, <2>4 DEF CallsInv
<1>18. CASE \E h \in DOMAIN log : Nests(t, h, i)
  <2>1. PICK h \in DOMAIN log : Nests(t, h, i)
    BY <1>18
  <2>2. log[h].call # call /\ log[h].on = f
    BY <2>1 DEF Nests, Nested
  <2>3. Within(t)' = {h} /\ log'[h] = log[h] /\ h \in DOMAIN log'
    BY <1>7, <1>12, <2>1, <2>2 DEF Nests
  <2>4. \A g \in FileSystems : State(g)'.open[t] = IF g = f THEN <<log[h].call>> ELSE <<>>
    <3>1. d.open[t] = <<log[h].call>>
      BY <1>10, <1>11, <2>1
    <3>2. ASSUME NEW g \in FileSystems, g # f PROVE State(g)'.open[t] = <<>>
      <4>1. State(g).open[t] = <<>>
        BY <2>1, <2>2, <3>2 DEF Nests
      <4> QED BY <1>4, <3>2, <4>1
    <3> QED BY <3>1, <3>2
  <2>5. Alone(t, h)'
    BY <2>2, <2>3, <2>4 DEF Alone
  <2>6. ThreadIn(t)'
    BY <2>3, <2>5 DEF ThreadIn
  <2> QED BY <1>14, <1>15, <1>16, <2>6 DEF CallsInv
<1> QED BY <1>8, <1>17, <1>18

\* A kernel thread takes the work item up when no other runs it.
LEMMA ScanBegins ==
    ASSUME LogIsReal, CallsInv, NEW k, NEW f, Opens(k, f, "RescanWorker"), UNCHANGED warm
    PROVE  CallsInv'
<1> PICK n, c, d : n = Len(log) /\ c = State(f) /\ d = State(f)'
  OBVIOUS
<1> DEFINE call == "RescanWorker"
<1>1. /\ Fits(k, f, "Enter", call) /\ log' = Append(log, Entry(k, f, "Enter", call))
      /\ MayEnter(c, Scanner, call) /\ Within(k) = {}
  BY DEF Opens
<1>2. /\ n \in Nat /\ DOMAIN log = 1..n /\ DOMAIN log' = 1..(n + 1)
      /\ log'[n + 1] = Entry(k, f, "Enter", call) /\ \A i \in 1..n : log'[i] = log[i]
  BY <1>1, LogGrows
<1>3. log'[n + 1].on = f
  BY <1>2 DEF Entry
<1>4. /\ Scanner \in AnyTask /\ d \in Judged
      /\ d = Follow(c, [task |-> Scanner, call |-> call, at |-> "Enter"])
      /\ \A g \in FileSystems : g # f => State(g)' = State(g)
  BY <1>1, JudgeGrows DEF CallsInv
<1>5. f \in FileSystems /\ k \in KWorkers /\ Scanner \notin Threads /\ \A u \in Threads : u \notin KWorkers
  BY <1>1, ToolsAssumption DEF Fits
<1>6. c \in Judged /\ c.ok
  BY <1>5 DEF CallsInv, AllAccepted
<1>7. c.open[Scanner] = <<>>
  <2>1. call \notin Ioctls \cup {"FreeQgroupConfig", "RescanZeroTracking"}
    BY DEF Ioctls, QuotaCtl
  <2>2. \A a : <<a, call>> \notin Nested
    BY DEF Nested
  <2> QED BY <1>1, <2>1, <2>2 DEF MayEnter
<1>8. Moves(c, d, Scanner, <<call>>)
  <2>1. Moves(c, Follow(c, [task |-> Scanner, call |-> call, at |-> "Enter"]),
              Scanner, Append(c.open[Scanner], call))
    BY <1>1, <1>4, <1>6, FollowEnters
  <2>2. Append(c.open[Scanner], call) = <<call>>
    BY <1>7, OneCall
  <2> QED BY <2>1, <2>2, <1>4
<1>9. /\ \A u : u # k => Within(u)' = Within(u)
      /\ Within(k)' = {n + 1}
  BY <1>1, WithinGrows
<1>10. DOMAIN log \subseteq DOMAIN log' /\ \A i \in DOMAIN log : log'[i] = log[i]
  BY <1>2
<1>11. AllAccepted'
  <2>1. \A g \in FileSystems : State(g)' \in Judged
    BY <1>4 DEF CallsInv, AllAccepted
  <2>2. \A g \in FileSystems : State(g)'.ok
    BY <1>4, <1>8, Zenon DEF CallsInv, AllAccepted, Moves
  <2> QED BY <2>1, <2>2 DEF AllAccepted
<1>12. ASSUME NEW u \in Threads PROVE ThreadIn(u)'
  <2>1. \A g \in FileSystems : State(g)'.open[u] = State(g).open[u]
    BY <1>4, <1>5, <1>8 DEF AnyTask, Moves
  <2>2. Within(u)' = Within(u) /\ ThreadIn(u)
    BY <1>5, <1>9 DEF CallsInv
  <2> QED BY <2>1, <2>2, <1>10, ThreadKept
<1>13. Scanning(f) = {}
  <2>1. State(f).open[Scanner] = IF Scanning(f) = {} THEN <<>> ELSE <<call>>
    BY <1>5 DEF CallsInv, ScansAreOpen
  <2> QED BY <1>7, <2>1, OneCall
<1>14. ASSUME NEW g PROVE Scanning(g)' = IF g = f THEN {k} ELSE Scanning(g)
  <2>1. \A l \in KWorkers \ {k} : \A i \in Within(l) : log'[i] = log[i]
    BY <1>10 DEF Within
  <2>2. \A l \in KWorkers \ {k} : l \in Scanning(g)' <=> l \in Scanning(g)
    BY <1>9, <2>1 DEF Scanning
  <2>3. k \in Scanning(g)' <=> g = f
    BY <1>3, <1>5, <1>9 DEF Scanning
  <2>4. k \notin Scanning(g)
    BY <1>1 DEF Scanning
  <2>5. Scanning(g) \subseteq KWorkers /\ Scanning(g)' \subseteq KWorkers
    BY DEF Scanning
  <2>6. CASE g = f
    BY <1>13, <2>2, <2>3, <2>5, <2>6, <1>5
  <2>7. CASE g # f
    BY <2>2, <2>3, <2>4, <2>5, <2>7
  <2> QED BY <2>6, <2>7
<1>15. ScansAreOpen'
  <2>1. \A l \in KWorkers : Within(l)' = {} \/ \E i \in DOMAIN log' : Within(l)' = {i}
    <3>1. n + 1 \in DOMAIN log'
      BY <1>2
    <3>2. \A l \in KWorkers \ {k} : Within(l)' = {} \/ \E i \in DOMAIN log' : Within(l)' = {i}
      BY <1>9, <1>10 DEF CallsInv, ScansAreOpen
    <3> QED BY <1>9, <3>1, <3>2
  <2>2. ASSUME NEW g \in FileSystems
        PROVE  /\ \A l, m \in Scanning(g)' : l = m
               /\ State(g)'.open[Scanner] = IF Scanning(g)' = {} THEN <<>> ELSE <<call>>
    <3>1. CASE g = f
      BY <1>8, <1>14, <3>1 DEF Moves
    <3>2. CASE g # f
      BY <1>4, <1>14, <3>2 DEF CallsInv, ScansAreOpen
    <3> QED BY <3>1, <3>2
  <2> QED BY <2>1, <2>2 DEF ScansAreOpen
<1> QED BY <1>11, <1>12, <1>15 DEF CallsInv

LEMMA ScanEnds ==
    ASSUME LogIsReal, CallsInv, NEW k, NEW i, Closes(k, i), UNCHANGED warm,
           NEW f, f = log[i].on, log[i].call = "RescanWorker"
    PROVE  CallsInv'
<1> PICK n, c, d : n = Len(log) /\ c = State(f) /\ d = State(f)'
  OBVIOUS
<1> DEFINE call == "RescanWorker"
<1>1. /\ Fits(k, f, "Done", call) /\ log' = Append(log, Entry(k, f, "Done", call))
      /\ i \in Within(k) /\ i \in DOMAIN log
  BY DEF Closes, Within
<1>2. /\ n \in Nat /\ DOMAIN log = 1..n /\ DOMAIN log' = 1..(n + 1)
      /\ \A j \in 1..n : log'[j] = log[j]
  BY <1>1, LogGrows
<1>4. /\ Scanner \in AnyTask /\ d \in Judged
      /\ d = Follow(c, [task |-> Scanner, call |-> call, at |-> "Done"])
      /\ \A g \in FileSystems : g # f => State(g)' = State(g)
  BY <1>1, JudgeGrows DEF CallsInv
<1>5. f \in FileSystems /\ k \in KWorkers /\ Scanner \notin Threads /\ \A u \in Threads : u \notin KWorkers
  BY <1>1, ToolsAssumption DEF Fits
<1>6. c \in Judged /\ c.ok
  BY <1>5 DEF CallsInv, AllAccepted
<1>7. Within(k) = {i}
  BY <1>1, <1>5 DEF CallsInv, ScansAreOpen
<1>8. k \in Scanning(f) /\ \A l \in Scanning(f) : l = k
  <2>1. k \in Scanning(f)
    BY <1>1, <1>5 DEF Scanning
  <2> QED BY <1>5, <2>1 DEF CallsInv, ScansAreOpen
<1>9. c.open[Scanner] = <<call>>
  BY <1>5, <1>8 DEF CallsInv, ScansAreOpen
<1>10. Moves(c, d, Scanner, <<>>)
  <2>1. c.open[Scanner] # <<>> /\ Last(c.open[Scanner]) = call /\ Front(c.open[Scanner]) = <<>>
    BY <1>9, OneCall
  <2>2. Moves(c, Follow(c, [task |-> Scanner, call |-> call, at |-> "Done"]),
              Scanner, Front(c.open[Scanner]))
    BY <1>4, <1>6, <2>1, FollowLeaves
  <2> QED BY <2>1, <2>2, <1>4
<1>11. /\ \A u : u # k => Within(u)' = Within(u)
       /\ Within(k)' = {}
  BY <1>1, <1>7, WithinGrows
<1>12. DOMAIN log \subseteq DOMAIN log' /\ \A j \in DOMAIN log : log'[j] = log[j]
  BY <1>2
<1>13. AllAccepted'
  <2>1. \A g \in FileSystems : State(g)' \in Judged
    BY <1>4 DEF CallsInv, AllAccepted
  <2>2. \A g \in FileSystems : State(g)'.ok
    BY <1>4, <1>10, Zenon DEF CallsInv, AllAccepted, Moves
  <2> QED BY <2>1, <2>2 DEF AllAccepted
<1>14. ASSUME NEW u \in Threads PROVE ThreadIn(u)'
  <2>1. \A g \in FileSystems : State(g)'.open[u] = State(g).open[u]
    BY <1>4, <1>5, <1>10 DEF AnyTask, Moves
  <2>2. Within(u)' = Within(u) /\ ThreadIn(u)
    BY <1>5, <1>11 DEF CallsInv
  <2> QED BY <2>1, <2>2, <1>12, ThreadKept
<1>15. ASSUME NEW g PROVE Scanning(g)' = IF g = f THEN {} ELSE Scanning(g)
  <2>1. \A l \in KWorkers \ {k} : \A j \in Within(l) : log'[j] = log[j]
    BY <1>12 DEF Within
  <2>2. \A l \in KWorkers \ {k} : l \in Scanning(g)' <=> l \in Scanning(g)
    BY <1>11, <2>1 DEF Scanning
  <2>3. k \notin Scanning(g)'
    BY <1>11 DEF Scanning
  <2>4. k \in Scanning(g) <=> g = f
    BY <1>5, <1>7 DEF Scanning
  <2>5. Scanning(g) \subseteq KWorkers /\ Scanning(g)' \subseteq KWorkers
    BY DEF Scanning
  <2>6. CASE g = f
    BY <1>8, <2>2, <2>3, <2>5, <2>6
  <2>7. CASE g # f
    BY <2>2, <2>3, <2>4, <2>5, <2>7
  <2> QED BY <2>6, <2>7
<1>16. ScansAreOpen'
  <2>1. \A l \in KWorkers : Within(l)' = {} \/ \E j \in DOMAIN log' : Within(l)' = {j}
    <3>2. \A l \in KWorkers \ {k} : Within(l)' = {} \/ \E j \in DOMAIN log' : Within(l)' = {j}
      BY <1>11, <1>12 DEF CallsInv, ScansAreOpen
    <3> QED BY <1>11, <3>2
  <2>2. ASSUME NEW g \in FileSystems
        PROVE  /\ \A l, m \in Scanning(g)' : l = m
               /\ State(g)'.open[Scanner] = IF Scanning(g)' = {} THEN <<>> ELSE <<call>>
    <3>1. CASE g = f
      BY <1>10, <1>15, <3>1 DEF Moves
    <3>2. CASE g # f
      BY <1>4, <1>15, <3>2 DEF CallsInv, ScansAreOpen
    <3> QED BY <3>1, <3>2
  <2> QED BY <2>1, <2>2 DEF ScansAreOpen
<1> QED BY <1>13, <1>14, <1>16 DEF CallsInv

LEMMA CallsStep ==
    ASSUME LogIsReal, CallsInv, Next
    PROVE  LogIsReal' /\ CallsInv'
<1>1. UNCHANGED warm
  BY StepKinds
<1>2. ASSUME NEW t, NEW f, NEW call, Opens(t, f, call) PROVE LogIsReal' /\ CallsInv'
  <2>1. LogIsReal'
    BY <1>1, <1>2, LogGrows DEF Opens
  <2>2. CASE call = "RescanWorker"
    BY <1>1, <1>2, <2>1, <2>2, ScanBegins
  <2>3. CASE call # "RescanWorker"
    BY <1>1, <1>2, <2>1, <2>3, CallBegins
  <2> QED BY <2>2, <2>3
<1>3. ASSUME NEW t, NEW i, Closes(t, i) PROVE LogIsReal' /\ CallsInv'
  <2> PICK f, call : f = log[i].on /\ call = log[i].call
    OBVIOUS
  <2>1. LogIsReal'
    BY <1>1, <1>3, LogGrows DEF Closes
  <2>2. CASE call = "RescanWorker"
    BY <1>1, <1>3, <2>1, <2>2, ScanEnds
  <2>3. CASE call # "RescanWorker"
    BY <1>1, <1>3, <2>1, <2>3, CallEnds
  <2> QED BY <2>2, <2>3
<1> QED BY <1>2, <1>3, StepKinds

LEMMA OnNothing ==
    ASSUME log = <<>>, NEW f
    PROVE  On(f) = <<>> /\ Tasks(On(f)) = <<>>
<1>1. {i \in DOMAIN log : log[i].on = f} = {}
  OBVIOUS
<1>2. On(f) = <<>>
  BY <1>1, PickNone DEF On
<1>3. Tasks(<<>>) = <<>>
  BY DEF Tasks
<1> QED BY <1>2, <1>3

LEMMA CallsInit ==
    ASSUME Init
    PROVE  LogIsReal /\ CallsInv
<1>1. LogIsReal
  BY DEF Init, LogIsReal
<1>2. \A t : Within(t) = {}
  BY DEF Init, Within
<1>3. ASSUME NEW f
      PROVE  State(f) \in Judged /\ State(f).ok /\ \A t \in AnyTask : State(f).open[t] = <<>>
  <2>1. Quiet(IF f \in warm THEN 1 ELSE 0) \in Judged
    BY QuietType
  <2>2. State(f) = Quiet(IF f \in warm THEN 1 ELSE 0)
    BY <2>1, OnNothing, FollowNone DEF State, Init
  <2> QED BY <2>1, <2>2 DEF Quiet, AnyTask
<1>4. AllAccepted
  BY <1>3, Zenon DEF AllAccepted
<1>5. \A f : Scanning(f) = {}
  BY <1>2 DEF Scanning
<1>6. ScansAreOpen
  BY <1>2, <1>3, <1>5 DEF ScansAreOpen, AnyTask
<1>7. \A t \in Threads : ThreadIn(t)
  BY <1>2, <1>3 DEF ThreadIn, Outside, AnyTask
<1> QED BY <1>1, <1>4, <1>6, <1>7 DEF CallsInv

LEMMA TracesStutter ==
    ASSUME LogIsReal, CallsInv, UNCHANGED vars
    PROVE  (LogIsReal /\ CallsInv)'
<1> USE DEF vars
<1>1. LogIsReal'
  BY DEF LogIsReal
<1>2. \A t : Within(t)' = Within(t)
  BY DEF Within
<1>3. \A g \in FileSystems : State(g)' = State(g)
  BY DEF State, On, Tasks, AsTask, TaskOf
<1>4. AllAccepted'
  BY <1>3, Zenon DEF CallsInv, AllAccepted
<1>5. ScansAreOpen'
  BY <1>2, <1>3, ScansKept DEF CallsInv
<1>6. \A t \in Threads : ThreadIn(t)'
  BY <1>2, <1>3, ThreadKept DEF CallsInv
<1> QED BY <1>1, <1>4, <1>5, <1>6 DEF CallsInv

\* Every trace is one that the program can produce: on each file system the judge
\* accepts every event, and has open what is open.
THEOREM TracesAreInOrder == Spec => [](LogIsReal /\ CallsInv)
<1>1. LogIsReal /\ CallsInv /\ UNCHANGED vars => (LogIsReal /\ CallsInv)'
  BY TracesStutter
<1>2. LogIsReal /\ CallsInv /\ [Next]_vars => (LogIsReal /\ CallsInv)'
  BY <1>1, CallsStep
<1>3. Init => LogIsReal /\ CallsInv
  BY CallsInit
<1> QED BY <1>2, <1>3, PTL DEF Spec

-----------------------------------------------------------------------------
(* The conversion.                                                         *)

PrintedEntries ==
    [ts : Nat, tid : Tids, on : FileSystems, fs : FileSystems \cup {Unknown}, call : Calls, at : Sides]

\* An event as it is printed when the threads of u have lost their tags.
Tag(u, t, f) == IF t \in u THEN Unknown ELSE f
Tagged(u, e) == [e EXCEPT !.fs = IF e.tid \in u THEN Unknown ELSE @]

LEMMA TaggedIs ==
    ASSUME NEW u, NEW e \in Entries, e.fs = e.on
    PROVE  /\ Tagged(u, e) \in PrintedEntries
           /\ Tagged(u, e).ts = e.ts /\ Tagged(u, e).tid = e.tid /\ Tagged(u, e).call = e.call
           /\ Tagged(u, e).at = e.at /\ Tagged(u, e).fs = Tag(u, e.tid, e.on)
BY DEF Tagged, Tag, Entries, PrintedEntries

LEMMA PrintedIs ==
    ASSUME LogIsReal, NEW u
    PROVE  /\ Printed(u) \in Seq(PrintedEntries) /\ Len(Printed(u)) = Len(log)
           /\ \A i \in 1..Len(log) : Printed(u)[i] = Tagged(u, log[i]) /\ Printed(u)[i].ts = i
<1>1. Len(log) \in Nat /\ DOMAIN log = 1..Len(log)
  BY DEF LogIsReal
<1>2. \A i \in 1..Len(log) : Tagged(u, log[i]) \in PrintedEntries /\ Tagged(u, log[i]).ts = i
  <2> SUFFICES ASSUME NEW i \in 1..Len(log)
               PROVE  Tagged(u, log[i]) \in PrintedEntries /\ Tagged(u, log[i]).ts = i
    OBVIOUS
  <2>1. log[i] \in Entries /\ log[i].fs = log[i].on /\ log[i].ts = i
    BY <1>1 DEF LogIsReal
  <2> QED BY <2>1, TaggedIs
<1>3. Printed(u) = [i \in 1..Len(log) |-> Tagged(u, log[i])]
  BY <1>1 DEF Printed, Tagged
<1> QED BY <1>1, <1>2, <1>3

\* A sequence has the same elements in reverse.
LEMMA ReverseHasAll ==
    ASSUME NEW S, NEW s \in Seq(S)
    PROVE  Reverse(s) \in Seq(S) /\ ToSet(Reverse(s)) = ToSet(s)
<1>1. Len(s) \in Nat /\ DOMAIN s = 1..Len(s) /\ \A i \in 1..Len(s) : s[i] \in S
  OBVIOUS
<1>2. Reverse(s) = [i \in 1..Len(s) |-> s[(Len(s) - i) + 1]]
  BY DEF Reverse
<1>3. \A i \in 1..Len(s) : (Len(s) - i) + 1 \in 1..Len(s) /\ (Len(s) - ((Len(s) - i) + 1)) + 1 = i
  BY <1>1
<1>4. Reverse(s) \in Seq(S)
  BY <1>1, <1>2, <1>3
<1>5. \A e : (\E i \in DOMAIN Reverse(s) : e = Reverse(s)[i]) <=> \E i \in DOMAIN s : e = s[i]
  <2> DEFINE r == Reverse(s)
  <2>1. DOMAIN r = 1..Len(s) /\ \A i \in 1..Len(s) : r[i] = s[(Len(s) - i) + 1]
    BY <1>2
  <2> HIDE DEF r
  <2>2. \A i \in 1..Len(s) : r[(Len(s) - i) + 1] = s[i]
    BY <1>1, <1>3, <2>1
  <2>3. \A e : (\E i \in DOMAIN r : e = r[i]) <=> \E i \in DOMAIN s : e = s[i]
    BY <1>1, <1>3, <2>1, <2>2
  <2> QED BY <2>3 DEF r
<1> QED BY <1>4, <1>5 DEF ToSet

\* The file has the events that were printed.
LEMMA FileIs ==
    ASSUME LogIsReal, NEW u, NEW file \in Files(u)
    PROVE  file \in Seq(PrintedEntries) /\ ToSet(file) = ToSet(Printed(u))
BY PrintedIs, ReverseHasAll DEF Files

LEMMA GroupIs ==
    ASSUME NEW file \in Seq(PrintedEntries), NEW g
    PROVE  ToSet(Group(file, g)) = {e \in ToSet(file) : e.fs = g}
<1> DEFINE P == {i \in DOMAIN file : file[i].fs = g}
<1>1. Group(file, g) = Pick(file, P)
  BY DEF Group
<1>2. P \in SUBSET Int /\ IsFiniteSet(P) /\ \A i \in P : file[i] \in PrintedEntries
  <2>1. P \in SUBSET (1..Len(file)) /\ Len(file) \in Nat
    OBVIOUS
  <2>2. IsFiniteSet(P)
    BY <2>1, IntervalCount, FS_Subset
  <2> QED BY <2>1, <2>2
<1>3. /\ \A i \in P : i \in DOMAIN file /\ file[i].fs = g
      /\ \A i \in DOMAIN file : file[i].fs = g => i \in P
  OBVIOUS
<1> HIDE DEF P
<1>4. /\ \A k \in DOMAIN Pick(file, P) : Ascending(P)[k] \in P /\ Pick(file, P)[k] = file[Ascending(P)[k]]
      /\ \A i \in P : \E k \in DOMAIN Pick(file, P) : Pick(file, P)[k] = file[i]
  <2>1. P \in SUBSET Int /\ IsFiniteSet(P)
    BY <1>2
  <2>2. TakenFrom(Pick(file, P), file, P)
    BY <2>1, PickTakes
  <2> QED BY <2>2, Zenon DEF TakenFrom
<1>5. \A e : (\E k \in DOMAIN Pick(file, P) : e = Pick(file, P)[k])
                <=> (\E i \in DOMAIN file : e = file[i]) /\ e.fs = g
  BY <1>3, <1>4
<1> QED BY <1>1, <1>5 DEF ToSet

\* What the file has of a group.
LEMMA PartIs ==
    ASSUME LogIsReal, NEW u, NEW file \in Files(u), NEW g
    PROVE  \A e : e \in ToSet(Group(file, g)) <=> \E i \in PrintedAs(g, u) : e = Tagged(u, log[i])
<1>1. ToSet(Group(file, g)) = {e \in ToSet(Printed(u)) : e.fs = g}
  BY FileIs, GroupIs
<1>2. /\ DOMAIN Printed(u) = 1..Len(log) /\ DOMAIN log = 1..Len(log)
      /\ \A i \in 1..Len(log) : Printed(u)[i] = Tagged(u, log[i])
  BY PrintedIs DEF LogIsReal
<1>3. \A i \in 1..Len(log) : Tagged(u, log[i]).fs = Tag(u, log[i].tid, log[i].on)
  <2> SUFFICES ASSUME NEW i \in 1..Len(log)
               PROVE  Tagged(u, log[i]).fs = Tag(u, log[i].tid, log[i].on)
    OBVIOUS
  <2>1. log[i] \in Entries /\ log[i].fs = log[i].on
    BY DEF LogIsReal
  <2> QED BY <2>1, TaggedIs
<1>4. \A i : i \in PrintedAs(g, u) <=> i \in 1..Len(log) /\ Tagged(u, log[i]).fs = g
  BY <1>2, <1>3 DEF PrintedAs, Tag
<1>5. \A e : e \in ToSet(Printed(u)) <=> \E i \in 1..Len(log) : e = Tagged(u, log[i])
  BY <1>2 DEF ToSet
<1> QED BY <1>1, <1>4, <1>5

LEMMA QuotaActiveIs ==
    ASSUME LogIsReal, NEW u, NEW file \in Files(u), NEW g
    PROVE  QuotaActive(Group(file, g)) <=> Active(PrintedAs(g, u))
<1>1. \A i \in PrintedAs(g, u) : log[i] \in Entries /\ log[i].fs = log[i].on
  BY DEF LogIsReal, PrintedAs
<1>2. \A i \in PrintedAs(g, u) : Tagged(u, log[i]).at = log[i].at /\ Tagged(u, log[i]).call = log[i].call
  BY <1>1, TaggedIs
<1> QED BY <1>2, PartIs DEF QuotaActive, Active

\* The sort by time brings back the true order of a group's events.
LEMMA LoadIs ==
    ASSUME LogIsReal, NEW u, NEW file \in Files(u), NEW g
    PROVE  Tasks(Load(Group(file, g))) = Tasks(Pick(log, PrintedAs(g, u)))
<1> DEFINE S == ToSet(Group(file, g))
           P == PrintedAs(g, u)
           times == Ascending({e.ts : e \in S})
<1>1. \A e : e \in S <=> \E i \in P : e = Tagged(u, log[i])
  BY PartIs
<1>2. \A i \in P : log[i] \in Entries /\ log[i].fs = log[i].on /\ log[i].ts = i
  BY DEF LogIsReal, PrintedAs
<1>3. \A i \in P : /\ Tagged(u, log[i]).ts = i /\ Tagged(u, log[i]).tid = log[i].tid
                   /\ Tagged(u, log[i]).call = log[i].call /\ Tagged(u, log[i]).at = log[i].at
  BY <1>2, TaggedIs
<1>4. {e.ts : e \in S} = P
  BY <1>1, <1>3
<1>5. \A i \in P : /\ Tagged(u, log[i]) \in S
                   /\ \A e \in S : e.ts = i => e = Tagged(u, log[i])
  BY <1>1, <1>3
<1>6. Load(Group(file, g)) = [k \in DOMAIN times |-> CHOOSE e \in S : e.ts = times[k]]
  BY DEF Load
<1>7. P \in SUBSET Int /\ IsFiniteSet(P)
  <2>1. P \in SUBSET (1..Len(log)) /\ Len(log) \in Nat
    BY DEF LogIsReal, PrintedAs
  <2> QED BY <2>1, IntervalCount, FS_Subset
<1>8. Pick(log, P) = [k \in DOMAIN Ascending(P) |-> log[Ascending(P)[k]]]
  BY DEF Pick
<1> HIDE DEF S, P
<1>9. times = Ascending(P)
  BY <1>4
<1>10. \A k \in DOMAIN Ascending(P) : Ascending(P)[k] \in P
  BY <1>7, AscendingIs
<1> HIDE DEF times
<1>11. \A k \in DOMAIN times : (CHOOSE e \in S : e.ts = times[k]) = Tagged(u, log[times[k]])
  BY <1>3, <1>5, <1>9, <1>10
<1>12. Load(Group(file, g)) = [k \in DOMAIN times |-> Tagged(u, log[times[k]])]
  BY <1>6, <1>11
<1>13. \A k \in DOMAIN times : AsTask(Tagged(u, log[times[k]])) = AsTask(log[times[k]])
  BY <1>3, <1>9, <1>10 DEF AsTask, TaskOf
<1>14. Tasks(Load(Group(file, g))) = [k \in DOMAIN times |-> AsTask(Tagged(u, log[times[k]]))]
  BY <1>12 DEF Tasks
<1>15. Tasks(Pick(log, P)) = [k \in DOMAIN times |-> AsTask(log[times[k]])]
  BY <1>8, <1>9 DEF Tasks
<1>16. Tasks(Load(Group(file, g))) = Tasks(Pick(log, P))
  BY <1>13, <1>14, <1>15
<1> QED BY <1>16 DEF P

\* A chosen part is a group, with quota activity if any has it.
LEMMA ConvertIs ==
    ASSUME LogIsReal, NEW u, NEW file \in Files(u), NEW events \in Convert(file)
    PROVE  \E g \in FileSystems \cup {Unknown} :
              /\ events = Tasks(Pick(log, PrintedAs(g, u)))
              /\ (\E h \in FileSystems \cup {Unknown} : Active(PrintedAs(h, u))) =>
                    Active(PrintedAs(g, u))
<1> DEFINE groups == {e.fs : e \in ToSet(file)}
           split == [g \in groups |-> Group(file, g)]
           active == {g \in DOMAIN split : QuotaActive(split[g])}
           from   == IF active = {} THEN DOMAIN split ELSE active
<1>1. PICK part \in Chosen(file) : events = Tasks(Load(part))
  BY DEF Convert
<1>2. PICK g \in from : part = split[g]
  BY <1>1 DEF Chosen
<1>3. DOMAIN split = groups /\ \A h \in groups : split[h] = Group(file, h)
  OBVIOUS
<1>4. file \in Seq(PrintedEntries)
  BY FileIs
<1>5. groups \subseteq FileSystems \cup {Unknown}
  <2>1. \A e \in ToSet(file) : e \in PrintedEntries
    BY <1>4 DEF ToSet
  <2> QED BY <2>1 DEF PrintedEntries
<1>6. g \in groups /\ (active # {} => QuotaActive(Group(file, g)))
  BY <1>2, <1>3
<1>7. events = Tasks(Pick(log, PrintedAs(g, u)))
  BY <1>1, <1>2, <1>3, <1>6, LoadIs
<1>8. ASSUME NEW h \in FileSystems \cup {Unknown}, Active(PrintedAs(h, u))
      PROVE  Active(PrintedAs(g, u))
  <2>1. QuotaActive(Group(file, h))
    BY <1>8, QuotaActiveIs
  <2>2. PICK e \in ToSet(Group(file, h)) : TRUE
    BY <2>1 DEF QuotaActive
  <2>3. e \in ToSet(file) /\ e.fs = h
    BY <1>4, <2>2, GroupIs
  <2>4. h \in active
    BY <1>3, <2>1, <2>3
  <2> QED BY <1>6, <2>4, QuotaActiveIs
<1> QED BY <1>5, <1>6, <1>7, <1>8

\* However bpftrace ordered the file and whichever threads have lost their tags, the
\* replay is given a printed group in true order; where no thread of the file
\* system has lost its tag that is its whole trace, in program order.
THEOREM SplitsAreInOrder == Spec => []SplitIsInOrder
<1>1. ASSUME LogIsReal, CallsInv PROVE SplitIsInOrder
  <2> SUFFICES ASSUME NEW u, NEW file \in Files(u), NEW events \in Convert(file)
               PROVE  \E g \in FileSystems \cup {Unknown} :
                 /\ events = Tasks(Pick(log, PrintedAs(g, u)))
                 /\ (\E h \in FileSystems \cup {Unknown} : Active(PrintedAs(h, u))) =>
                       Active(PrintedAs(g, u))
                 /\ g \in FileSystems /\ (\A i \in DOMAIN log : log[i].on = g => log[i].tid \notin u) =>
                       events = Tasks(On(g)) /\ (warm = {} => InOrder(events))
    BY DEF SplitIsInOrder
  <2>1. PICK g \in FileSystems \cup {Unknown} :
           /\ events = Tasks(Pick(log, PrintedAs(g, u)))
           /\ (\E h \in FileSystems \cup {Unknown} : Active(PrintedAs(h, u))) =>
                 Active(PrintedAs(g, u))
    BY <1>1, ConvertIs
  <2>2. ASSUME g \in FileSystems, \A i \in DOMAIN log : log[i].on = g => log[i].tid \notin u
        PROVE  events = Tasks(On(g)) /\ (warm = {} => InOrder(events))
    <3>1. PrintedAs(g, u) = {i \in DOMAIN log : log[i].on = g}
      BY <2>2, ToolsAssumption DEF PrintedAs
    <3>2. events = Tasks(On(g))
      BY <2>1, <3>1 DEF On
    <3>3. State(g).ok
      BY <1>1, <2>2, Zenon DEF CallsInv, AllAccepted
    <3>4. ASSUME warm = {} PROVE InOrder(events)
      <4>1. State(g) = FoldLeft(Follow, Quiet(0), events)
        BY <3>2, <3>4 DEF State
      <4> QED BY <3>3, <4>1, Zenon DEF InOrder
    <3> QED BY <3>2, <3>4
  <2> QED BY <2>1, <2>2
<1> QED BY <1>1, TracesAreInOrder, PTL

-----------------------------------------------------------------------------
(* The commit windows.                                                     *)

\* An event leaves open what it does not end.
LEMMA OpenGrows ==
    ASSUME LogIsReal, NEW t, NEW f, NEW at, NEW call, Fits(t, f, at, call),
           log' = Append(log, Entry(t, f, at, call)), UNCHANGED warm,
           NEW n, n = Len(log)
    PROVE  /\ \A i, p \in 1..n : OpenAt(i, p)' <=> OpenAt(i, p)
           /\ \A i \in 1..n : OpenAt(i, n + 1)' <=>
                 OpenAt(i, n) /\ ~(at = "Done" /\ log[i].tid = t /\ log[i].call = call)
           /\ OpenAt(n + 1, n + 1)'
<1>1. /\ n \in Nat /\ log'[n + 1] = Entry(t, f, at, call)
      /\ \A i \in 1..n : log'[i] = log[i]
  BY LogGrows
<1>2. Entry(t, f, at, call).tid = t /\ Entry(t, f, at, call).call = call /\ Entry(t, f, at, call).at = at
  BY DEF Entry
<1>3. ASSUME NEW i \in 1..n, NEW p \in 1..n PROVE OpenAt(i, p)' <=> OpenAt(i, p)
  <2>1. \A j \in (i + 1)..p : log'[j] = log[j]
    BY <1>1
  <2> QED BY <1>1, <2>1 DEF OpenAt
<1>4. ASSUME NEW i \in 1..n
      PROVE  OpenAt(i, n + 1)' <=>
                OpenAt(i, n) /\ ~(at = "Done" /\ log[i].tid = t /\ log[i].call = call)
  <2> DEFINE Ends1(e) == e.at = "Done" /\ e.tid = log[i].tid /\ e.call = log[i].call
  <2>1. OpenAt(i, n) <=> \A j \in (i + 1)..n : ~Ends1(log[j])
    BY <1>1 DEF OpenAt
  <2>2. OpenAt(i, n + 1)' <=> \A j \in (i + 1)..(n + 1) : ~Ends1(log'[j])
    BY <1>1 DEF OpenAt
  <2>3. Ends1(Entry(t, f, at, call)) <=> at = "Done" /\ log[i].tid = t /\ log[i].call = call
    BY <1>2
  <2> HIDE DEF Ends1
  <2>4. \A j : j \in (i + 1)..(n + 1) <=> j \in (i + 1)..n \/ j = n + 1
    BY <1>1
  <2>5. \A j \in (i + 1)..n : log'[j] = log[j]
    BY <1>1
  <2> QED BY <1>1, <2>1, <2>2, <2>3, <2>4, <2>5
<1>5. OpenAt(n + 1, n + 1)'
  <2>1. n + 1 <= n + 1 /\ \A j : j \notin ((n + 1) + 1)..(n + 1)
    BY <1>1
  <2> QED BY <2>1 DEF OpenAt
<1> QED BY <1>3, <1>4, <1>5

LEMMA WithinIsOpen ==
    ASSUME LogIsReal, NEW t, NEW i
    PROVE  i \in Within(t) <=> /\ i \in 1..Len(log) /\ log[i].tid = t /\ log[i].at = "Enter"
                              /\ OpenAt(i, Len(log))
<1>1. DOMAIN log = 1..Len(log) /\ Len(log) \in Nat
  BY DEF LogIsReal
<1>2. i \in Within(t) <=>
         /\ i \in 1..Len(log) /\ log[i].tid = t /\ log[i].at = "Enter"
         /\ \A j \in (i + 1)..Len(log) :
               ~(log[j].tid = t /\ log[j].call = log[i].call /\ log[j].at = "Done")
  BY <1>1 DEF Within
<1>3. ASSUME i \in 1..Len(log), log[i].tid = t
      PROVE  OpenAt(i, Len(log)) <=>
               \A j \in (i + 1)..Len(log) :
                 ~(log[j].tid = t /\ log[j].call = log[i].call /\ log[j].at = "Done")
  BY <1>1, <1>3 DEF OpenAt
<1> QED BY <1>2, <1>3

Wins == [tid : Tids, fs : FileSystems, a : Nat, b : Nat]
PendingStates == [pending : SUBSET Entries, out : SUBSET Wins]

LEMMA PendingType ==
    ASSUME NEW s \in PendingStates, NEW e \in Entries
    PROVE  Pending(s, e) \in PendingStates
<1> DEFINE mine == {p \in s.pending : p.tid = e.tid}
           wins == {[tid |-> e.tid, fs |-> e.fs, a |-> p.ts, b |-> e.ts] : p \in mine}
<1>1. s.pending \in SUBSET Entries /\ s.out \in SUBSET Wins
  BY DEF PendingStates
<1>2. mine \in SUBSET Entries
  BY <1>1
<1>3. wins \in SUBSET Wins
  BY <1>2 DEF Entries, Wins
<1>4. Pending(s, e) = CASE e.at = "Enter" /\ e.call = "QgroupRescan" ->
                              [s EXCEPT !.pending = (@ \ mine) \cup {e}]
                        [] e.at = "Enter" /\ e.call = "RescanZeroTracking" ->
                              [pending |-> s.pending \ mine, out |-> s.out \cup wins]
                        [] OTHER -> s
  BY DEF Pending
<1> HIDE DEF mine, wins
<1>5. [s EXCEPT !.pending = (@ \ mine) \cup {e}] \in PendingStates
  BY <1>1 DEF PendingStates
<1>6. [pending |-> s.pending \ mine, out |-> s.out \cup wins] \in PendingStates
  BY <1>1, <1>3 DEF PendingStates
<1>7. CASE e.at = "Enter" /\ e.call = "QgroupRescan"
  BY <1>4, <1>5, <1>7
<1>8. CASE e.at = "Enter" /\ e.call = "RescanZeroTracking"
  BY <1>4, <1>6, <1>8
<1>9. CASE ~(e.at = "Enter" /\ e.call \in {"QgroupRescan", "RescanZeroTracking"})
  BY <1>4, <1>9
<1> QED BY <1>7, <1>8, <1>9

LEMMA NothingPending == [pending |-> {}, out |-> {}] \in PendingStates
BY DEF PendingStates

PendingSteps(it, n, events) ==
    it = [s \in SUBSET (1..n) |->
            IF s = {} THEN [pending |-> {}, out |-> {}] ELSE Pending(it[s \ {Max(s)}], events[Max(s)])]

LEMMA PendingExists ==
    ASSUME NEW n \in Nat, NEW events, \A k \in 1..n : events[k] \in Entries
    PROVE  \E it : PendingSteps(it, n, events)
<1> DEFINE step == [k \in 1..n |-> [v \in PendingStates |-> Pending(v, events[k])]]
<1>1. step \in [1..n -> [PendingStates -> PendingStates]]
  BY PendingType
<1>2. PICK it \in [SUBSET (1..n) -> PendingStates] : Iterates(it, n, [pending |-> {}, out |-> {}], step)
  <2> HIDE DEF step
  <2> QED BY <1>1, IterationExists, NothingPending
<1>3. ASSUME NEW s \in SUBSET (1..n)
      PROVE  it[s] = IF s = {} THEN [pending |-> {}, out |-> {}] ELSE Pending(it[s \ {Max(s)}], events[Max(s)])
  <2>1. CASE s = {}
    BY <1>2, <2>1 DEF Iterates
  <2>2. CASE s # {}
    <3>1. Max(s) \in 1..n
      BY <2>2, MaxIsGreatest
    <3>2. it[s \ {Max(s)}] \in PendingStates
      BY <1>2
    <3>3. it[s] = step[Max(s)][it[s \ {Max(s)}]]
      <4> HIDE DEF step
      <4> QED BY <1>2, <2>2 DEF Iterates
    <3> QED BY <2>2, <3>1, <3>2, <3>3
  <2> QED BY <2>1, <2>2
<1>4. it = [s \in SUBSET (1..n) |-> it[s]]
  BY <1>2
<1>5. PendingSteps(it, n, events)
  <2> HIDE DEF step
  <2> QED BY <1>3, <1>4, Zenon DEF PendingSteps
<1> QED BY <1>5

LEMMA PendingNone ==
    FoldLeft(Pending, [pending |-> {}, out |-> {}], <<>>) = [pending |-> {}, out |-> {}]
<1> DEFINE it == CHOOSE x : PendingSteps(x, 0, <<>>)
<1>1. DOMAIN <<>> = 1..0 /\ 1..0 = {} /\ 0 \in Nat /\ \A k \in 1..0 : <<>>[k] \in Entries
  OBVIOUS
<1>2. FoldLeft(Pending, [pending |-> {}, out |-> {}], <<>>) = it[1..0]
  BY <1>1 DEF FoldLeft, MapThenFoldSet, PendingSteps
<1>3. PendingSteps(it, 0, <<>>)
  BY <1>1, PendingExists
<1> HIDE DEF it
<1> QED BY <1>1, <1>2, <1>3 DEF PendingSteps

LEMMA PendingAppend ==
    ASSUME NEW events \in Seq(Entries), NEW e \in Entries
    PROVE  FoldLeft(Pending, [pending |-> {}, out |-> {}], Append(events, e)) =
              Pending(FoldLeft(Pending, [pending |-> {}, out |-> {}], events), e)
<1> DEFINE n == Len(events)
           more == Append(events, e)
           it == CHOOSE x : PendingSteps(x, n + 1, more)
           it2 == CHOOSE x : PendingSteps(x, n, events)
<1>1. /\ n \in Nat /\ n + 1 \in Nat /\ DOMAIN events = 1..n /\ DOMAIN more = 1..(n + 1)
      /\ \A k \in 1..n : events[k] \in Entries
      /\ \A k \in 1..(n + 1) : more[k] \in Entries
  OBVIOUS
<1>2. more[n + 1] = e /\ \A k \in 1..n : events[k] = more[k]
  OBVIOUS
<1> HIDE DEF n, more
<1>3. /\ FoldLeft(Pending, [pending |-> {}, out |-> {}], more) = it[1..(n + 1)]
      /\ FoldLeft(Pending, [pending |-> {}, out |-> {}], events) = it2[1..n]
  BY <1>1 DEF FoldLeft, MapThenFoldSet, PendingSteps
<1>4. PendingSteps(it, n + 1, more) /\ PendingSteps(it2, n, events)
  BY <1>1, PendingExists
<1> HIDE DEF it, it2
<1>5. 1..(n + 1) # {} /\ Max(1..(n + 1)) = n + 1 /\ 1..(n + 1) \ {n + 1} = 1..n
  <2>1. n + 1 \in 1..(n + 1) /\ (n + 1) - 1 = n
    BY <1>1
  <2> QED BY <1>1, <2>1, MaxOfInterval
<1>6. it[1..(n + 1)] = Pending(it[1..n], e)
  <2>1. 1..(n + 1) \in SUBSET (1..(n + 1))
    OBVIOUS
  <2>2. it[1..(n + 1)] = Pending(it[(1..(n + 1)) \ {Max(1..(n + 1))}], more[Max(1..(n + 1))])
    BY <1>4, <1>5, <2>1 DEF PendingSteps
  <2> QED BY <1>2, <1>5, <2>2
<1>7. it[1..n] = it2[1..n]
  <2>1. it[{}] = it2[{}]
    BY <1>4 DEF PendingSteps
  <2>2. ASSUME NEW s \in SUBSET (1..n), s # {}, it[s \ {Max(s)}] = it2[s \ {Max(s)}]
        PROVE  it[s] = it2[s]
    <3>1. Max(s) \in 1..n
      BY <1>1, <2>2, MaxIsGreatest
    <3>2. s \in SUBSET (1..(n + 1))
      BY <1>1
    <3>3. it[s] = Pending(it[s \ {Max(s)}], more[Max(s)])
      BY <1>4, <2>2, <3>2 DEF PendingSteps
    <3>4. it2[s] = Pending(it2[s \ {Max(s)}], events[Max(s)])
      BY <1>4, <2>2 DEF PendingSteps
    <3> QED BY <1>2, <2>2, <3>1, <3>3, <3>4
  <2>3. StepsAgree(n, it, it2)
    BY <2>1, <2>2 DEF StepsAgree
  <2>4. \A s \in SUBSET (1..n) : it[s] = it2[s]
    BY <1>1, <2>3, IterationsAgree
  <2> QED BY <2>4
<1> QED BY <1>3, <1>6, <1>7 DEF more

\* An event of the trace, as a step makes it.
Happens(t, f, at, call) ==
    /\ Fits(t, f, at, call) /\ log' = Append(log, Entry(t, f, at, call)) /\ UNCHANGED warm
    /\ at = "Enter" => Opens(t, f, call)
    /\ at = "Done" => \E i : Closes(t, i) /\ log[i].on = f /\ log[i].call = call

LEMMA SomethingHappens ==
    ASSUME LogIsReal, Next
    PROVE  \E t, f, at, call : Happens(t, f, at, call)
<1>1. UNCHANGED warm
  BY StepKinds
<1>2. ASSUME NEW t, NEW f, NEW call, Opens(t, f, call) PROVE Happens(t, f, "Enter", call)
  BY <1>1, <1>2 DEF Happens, Opens
<1>3. ASSUME NEW t, NEW i, Closes(t, i) PROVE Happens(t, log[i].on, "Done", log[i].call)
  BY <1>1, <1>3 DEF Happens, Closes
<1> QED BY <1>2, <1>3, StepKinds

\* Only the task itself spends its inner call, or gets it back.
LEMMA SpentGrows ==
    ASSUME LogIsReal, CallsInv, CallsInv', NEW t, NEW f, NEW at, NEW call, Happens(t, f, at, call),
           NEW u \in Threads
    PROVE  /\ \A g \in FileSystems : u # t => (u \in State(g)'.spent <=> u \in State(g).spent)
           /\ u = t /\ at = "Done" /\ Len(State(f).open[t]) = 2 => t \in State(f)'.spent
<1> PICK c, d, task : c = State(f) /\ d = State(f)' /\ task = (IF call = "RescanWorker" THEN Scanner ELSE t)
  OBVIOUS
<1> DEFINE e == [task |-> task, call |-> call, at |-> at]
<1>1. Fits(t, f, at, call) /\ log' = Append(log, Entry(t, f, at, call)) /\ UNCHANGED warm
  BY DEF Happens
<1>2. /\ d = Follow(c, e)
      /\ \A g \in FileSystems : g # f => State(g)' = State(g)
  BY <1>1, JudgeGrows DEF CallsInv
<1>3. f \in FileSystems /\ d.ok
  BY <1>1, Zenon DEF CallsInv, AllAccepted, Fits
<1>4. e.task = task /\ e.call = call /\ e.at = at
  OBVIOUS
<1> HIDE DEF e
<1>5. c \in Judged
  BY <1>3 DEF CallsInv, AllAccepted
<1>6. ~[c EXCEPT !.ok = FALSE].ok
  BY <1>5 DEF Judged
<1>7. d = After(c, e)
  BY <1>2, <1>3, <1>6, Zenon DEF Follow
<1>8. d.spent = Spent(c, e)
  BY <1>7 DEF After
<1>9. u # t => task # u
  BY <1>1, ToolsAssumption DEF Fits
<1>10. u = t => task = t
  BY <1>1, ToolsAssumption DEF Fits
<1>11. u # t => (u \in d.spent <=> u \in c.spent)
  BY <1>4, <1>8, <1>9 DEF Spent
<1>12. u = t /\ at = "Done" /\ Len(c.open[t]) = 2 => t \in d.spent
  BY <1>4, <1>8, <1>10 DEF Spent
<1> QED BY <1>2, <1>11, <1>12

Pend == FoldLeft(Pending, [pending |-> {}, out |-> {}], log)

\* A rescan ioctl that has not committed is pending.
UnspentIsPending ==
    \A u \in Threads, i \in DOMAIN log :
        Within(u) = {i} /\ log[i].call = "QgroupRescan" /\ u \notin State(log[i].on).spent
            => log[i] \in Pend.pending

LEMMA UnspentGrows ==
    ASSUME LogIsReal, CallsInv, CallsInv', NEW t, NEW f, NEW at, NEW call, Happens(t, f, at, call),
           ~(at = "Enter" /\ call = "QgroupRescan"),
           NEW u \in Threads, NEW i, Within(u)' = {i}, log'[i].call = "QgroupRescan",
           NEW g, g = log'[i].on, u \notin State(g)'.spent
    PROVE  /\ u # t /\ i \in DOMAIN log /\ log'[i] = log[i] /\ log[i].tid = u
           /\ Within(u) = {i} /\ u \notin State(log[i].on).spent
<1> PICK n : n = Len(log)
  OBVIOUS
<1>1. Fits(t, f, at, call) /\ log' = Append(log, Entry(t, f, at, call)) /\ UNCHANGED warm
  BY DEF Happens
<1>2. /\ n \in Nat /\ DOMAIN log = 1..n /\ log'[n + 1] = Entry(t, f, at, call)
      /\ \A j \in 1..n : log'[j] = log[j]
  BY <1>1, LogGrows
<1>3. /\ \A v : v # t => Within(v)' = Within(v)
      /\ at = "Enter" => Within(t)' = Within(t) \cup {n + 1}
      /\ at = "Done" => Within(t)' = {j \in Within(t) : log[j].call # call}
  BY <1>1, WithinGrows
<1>4. u # t
  <2> SUFFICES ASSUME u = t PROVE FALSE
    OBVIOUS
  <2>1. CASE at = "Enter"
    <3>1. i = n + 1
      BY <1>3, <2>1
    <3>2. log'[i].call = call
      BY <1>2, <3>1 DEF Entry
    <3> QED BY <2>1, <3>2
  <2>2. CASE at = "Done"
    <3>1. PICK j : Closes(t, j) /\ log[j].on = f /\ log[j].call = call
      BY <2>2 DEF Happens
    <3>2. i \in Within(t) /\ log[i].call # call
      BY <1>3, <2>2
    <3>3. call # "RescanWorker"
      BY <1>1, ToolsAssumption DEF Fits
    <3>4. PICK h \in DOMAIN log : Alone(t, j) \/ Nests(t, h, j)
      BY <3>1, <3>3, EndCases
    <3>5. Nests(t, h, j) /\ i = h
      BY <3>1, <3>2, <3>4 DEF Alone, Nests
    <3>6. log[i].on = f /\ f \in FileSystems /\ Len(State(f).open[t]) = 2
      <4>1. f \in FileSystems
        BY <1>1 DEF Fits
      <4>2. log[i].on = f
        BY <3>1, <3>5 DEF Nests
      <4>3. State(f).open[t] = <<log[i].call, log[j].call>>
        BY <3>5, <4>1, <4>2 DEF Nests
      <4> QED BY <4>1, <4>2, <4>3, TwoCalls
    <3>7. t \in State(f)'.spent
      BY <2>2, <3>6, SpentGrows
    <3>8. log'[i] = log[i]
      BY <1>2, <3>2 DEF Within
    <3> QED BY <3>6, <3>7, <3>8
  <2> QED BY <1>1, <2>1, <2>2 DEF Fits, Sides
<1>5. Within(u) = {i}
  BY <1>3, <1>4
<1>6. i \in DOMAIN log /\ log[i].tid = u /\ log[i].on \in FileSystems
  <2>1. i \in Within(u)
    BY <1>5
  <2>2. i \in 1..Len(log) /\ log[i] \in Entries /\ log[i].tid = u
    BY <2>1, WithinIs
  <2> QED BY <1>2, <2>2 DEF Entries
<1>7. log'[i] = log[i]
  BY <1>2, <1>6
<1> QED BY <1>4, <1>5, <1>6, <1>7, SpentGrows

\* The zero trackings within a call.
ZeroAfter(i) ==
    {k \in DOMAIN log : /\ log[k].at = "Enter" /\ log[k].call = "RescanZeroTracking"
                        /\ log[k].tid = log[i].tid /\ k > i /\ OpenAt(i, k)}

LEMMA ZeroGrows ==
    ASSUME LogIsReal, NEW t, NEW f, NEW at, NEW call, Happens(t, f, at, call),
           NEW n, n = Len(log)
    PROVE  /\ \A i \in 1..n : ZeroAfter(i)' = ZeroAfter(i) \cup
                 (IF at = "Enter" /\ call = "RescanZeroTracking" /\ log[i].tid = t /\ OpenAt(i, n)
                  THEN {n + 1} ELSE {})
           /\ ZeroAfter(n + 1)' = {}
<1>1. Fits(t, f, at, call) /\ log' = Append(log, Entry(t, f, at, call)) /\ UNCHANGED warm
  BY DEF Happens
<1>2. /\ n \in Nat /\ DOMAIN log = 1..n /\ log'[n + 1] = Entry(t, f, at, call)
      /\ DOMAIN log' = 1..(n + 1) /\ \A j \in 1..n : log'[j] = log[j]
  BY <1>1, LogGrows
<1>3. /\ \A i, p \in 1..n : OpenAt(i, p)' <=> OpenAt(i, p)
      /\ \A i \in 1..n : OpenAt(i, n + 1)' <=>
            OpenAt(i, n) /\ ~(at = "Done" /\ log[i].tid = t /\ log[i].call = call)
  BY <1>1, OpenGrows
<1>4. log'[n + 1].tid = t /\ log'[n + 1].at = at /\ log'[n + 1].call = call
  BY <1>2 DEF Entry
<1>5. ASSUME NEW i \in 1..n
      PROVE  ZeroAfter(i)' = ZeroAfter(i) \cup
                 (IF at = "Enter" /\ call = "RescanZeroTracking" /\ log[i].tid = t /\ OpenAt(i, n)
                  THEN {n + 1} ELSE {})
  <2>1. \A k \in 1..n : k \in ZeroAfter(i)' <=> k \in ZeroAfter(i)
    <3> SUFFICES ASSUME NEW k \in 1..n PROVE k \in ZeroAfter(i)' <=> k \in ZeroAfter(i)
      OBVIOUS
    <3>1. log'[i] = log[i] /\ log'[k] = log[k] /\ k \in 1..(n + 1) /\ (OpenAt(i, k)' <=> OpenAt(i, k))
      BY <1>2, <1>3
    <3> QED BY <1>2, <3>1 DEF ZeroAfter
  <2>2. n + 1 \in ZeroAfter(i)' <=>
          at = "Enter" /\ call = "RescanZeroTracking" /\ log[i].tid = t /\ OpenAt(i, n)
    <3>1. log'[i] = log[i] /\ n + 1 \in 1..(n + 1) /\ n + 1 > i
      BY <1>2
    <3>2. OpenAt(i, n + 1)' <=>
            OpenAt(i, n) /\ ~(at = "Done" /\ log[i].tid = t /\ log[i].call = call)
      BY <1>3
    <3> QED BY <1>2, <1>4, <3>1, <3>2 DEF ZeroAfter
  <2>3. ZeroAfter(i) \subseteq 1..n /\ ZeroAfter(i)' \subseteq 1..(n + 1)
    BY <1>2 DEF ZeroAfter
  <2>4. \A k \in 1..(n + 1) : k \in 1..n \/ k = n + 1
    BY <1>2
  <2> QED BY <2>1, <2>2, <2>3, <2>4
<1>6. ZeroAfter(n + 1)' = {}
  <2>1. \A k \in 1..(n + 1) : ~(k > n + 1)
    BY <1>2
  <2> QED BY <1>2, <2>1 DEF ZeroAfter
<1> QED BY <1>5, <1>6

IsRescan(i) == i \in DOMAIN log /\ log[i].at = "Enter" /\ log[i].call = "QgroupRescan"

\* Pending rescans have not committed, and each thread has one at most.
PendingIsReal == \A p \in Pend.pending : IsRescan(p.ts) /\ log[p.ts] = p /\ ZeroAfter(p.ts) = {}
OnePending == \A p, q \in Pend.pending : p.tid = q.tid => p = q

ZerosFound ==
    \A i \in DOMAIN log : IsRescan(i) => \A k \in ZeroAfter(i) : \E w \in Pend.out : w.a = i /\ w.b = k

InEnable(b) ==
    \E i \in DOMAIN log : /\ log[i].call = "QuotaEnable" /\ log[i].at = "Enter"
                          /\ log[i].tid = log[b].tid /\ OpenAt(i, b)

\* A window is that of a commit, or a refused rescan's with an enable's zero tracking.
IsWindow(a, b) ==
    /\ a \in DOMAIN log /\ b \in DOMAIN log
    /\ \/ b \in ZeroAfter(a)
       \/ IsRescan(a) /\ ~OpenAt(a, Len(log)) /\ ZeroAfter(a) = {} /\ InEnable(b)

FoundIsReal == \A w \in Pend.out : IsWindow(w.a, w.b)

WindowsInv ==
    /\ Pend \in PendingStates /\ PendingIsReal /\ OnePending
    /\ UnspentIsPending /\ ZerosFound /\ FoundIsReal

LEMMA WindowKept ==
    ASSUME LogIsReal, NEW t, NEW f, NEW at, NEW call, Happens(t, f, at, call),
           NEW a, NEW b, IsWindow(a, b)
    PROVE  IsWindow(a, b)'
<1> PICK n : n = Len(log)
  OBVIOUS
<1>1. Fits(t, f, at, call) /\ log' = Append(log, Entry(t, f, at, call)) /\ UNCHANGED warm
  BY DEF Happens
<1>2. /\ n \in Nat /\ DOMAIN log = 1..n /\ DOMAIN log' = 1..(n + 1) /\ Len(log') = n + 1
      /\ \A j \in 1..n : log'[j] = log[j] /\ j \in 1..(n + 1)
  BY <1>1, LogGrows
<1>3. /\ \A i, p \in 1..n : OpenAt(i, p)' <=> OpenAt(i, p)
      /\ \A i \in 1..n : OpenAt(i, n + 1)' <=>
            OpenAt(i, n) /\ ~(at = "Done" /\ log[i].tid = t /\ log[i].call = call)
  BY <1>1, OpenGrows
<1>4. a \in 1..n /\ b \in 1..n
  BY <1>2 DEF IsWindow
<1>5. ZeroAfter(a)' = ZeroAfter(a) \cup
         (IF at = "Enter" /\ call = "RescanZeroTracking" /\ log[a].tid = t /\ OpenAt(a, n)
          THEN {n + 1} ELSE {})
  BY <1>4, ZeroGrows
<1>6. CASE b \in ZeroAfter(a)
  BY <1>2, <1>4, <1>5, <1>6 DEF IsWindow
<1>7. CASE IsRescan(a) /\ ~OpenAt(a, Len(log)) /\ ZeroAfter(a) = {} /\ InEnable(b)
  <2>1. IsRescan(a)'
    BY <1>2, <1>4, <1>7 DEF IsRescan
  <2>2. ZeroAfter(a)' = {} /\ ~OpenAt(a, n + 1)'
    BY <1>3, <1>4, <1>5, <1>7
  <2>3. InEnable(b)'
    <3>1. PICK i \in 1..n : /\ log[i].call = "QuotaEnable" /\ log[i].at = "Enter"
                            /\ log[i].tid = log[b].tid /\ OpenAt(i, b)
      BY <1>2, <1>7 DEF InEnable
    <3>2. log'[i] = log[i] /\ log'[b] = log[b] /\ i \in DOMAIN log' /\ OpenAt(i, b)'
      BY <1>2, <1>3, <1>4, <3>1
    <3> QED BY <3>1, <3>2 DEF InEnable
  <2>4. ~OpenAt(a, Len(log))'
    BY <1>2, <2>2 DEF OpenAt
  <2> QED BY <1>2, <1>4, <2>1, <2>2, <2>3, <2>4 DEF IsWindow
<1> QED BY <1>6, <1>7 DEF IsWindow

LEMMA PendGrows ==
    ASSUME LogIsReal, Pend \in PendingStates,
           NEW t, NEW f, NEW at, NEW call, Happens(t, f, at, call)
    PROVE  /\ Pend' = Pending(Pend, Entry(t, f, at, call)) /\ Pend' \in PendingStates
<1>1. Fits(t, f, at, call) /\ log' = Append(log, Entry(t, f, at, call)) /\ UNCHANGED warm
  BY DEF Happens
<1>2. Entry(t, f, at, call) \in Entries /\ log \in Seq(Entries)
  BY <1>1, LogGrows DEF LogIsReal
<1>3. Pend' = FoldLeft(Pending, [pending |-> {}, out |-> {}], Append(log, Entry(t, f, at, call)))
  BY <1>1 DEF Pend
<1>4. Pend' = Pending(Pend, Entry(t, f, at, call))
  BY <1>2, <1>3, PendingAppend DEF Pend
<1> QED BY <1>2, <1>4, PendingType

\* An event that is neither the begin of a rescan nor of a zero tracking.
LEMMA WindowsKept ==
    ASSUME LogIsReal, CallsInv, CallsInv', WindowsInv,
           NEW t, NEW f, NEW at, NEW call, Happens(t, f, at, call),
           ~(at = "Enter" /\ call \in {"QgroupRescan", "RescanZeroTracking"})
    PROVE  WindowsInv'
<1> PICK n : n = Len(log)
  OBVIOUS
<1>1. Fits(t, f, at, call) /\ log' = Append(log, Entry(t, f, at, call)) /\ UNCHANGED warm
  BY DEF Happens
<1>2. /\ n \in Nat /\ DOMAIN log = 1..n /\ DOMAIN log' = 1..(n + 1)
      /\ log'[n + 1] = Entry(t, f, at, call)
      /\ \A j \in 1..n : log'[j] = log[j] /\ j \in 1..(n + 1)
  BY <1>1, LogGrows
<1>3. \A j \in 1..(n + 1) : j \in 1..n \/ j = n + 1
  BY <1>2
<1>4. Pend' = Pend /\ Pend' \in PendingStates
  <2>1. Pend' = Pending(Pend, Entry(t, f, at, call)) /\ Pend' \in PendingStates
    BY PendGrows DEF WindowsInv
  <2>2. Pending(Pend, Entry(t, f, at, call)) = Pend
    BY DEF Pending, Entry
  <2> QED BY <2>1, <2>2
<1>5. \A i \in 1..n : ZeroAfter(i)' = ZeroAfter(i)
  <2>1. \A i \in 1..n : ZeroAfter(i)' = ZeroAfter(i) \cup {}
    BY ZeroGrows
  <2>2. \A S : S \cup {} = S
    OBVIOUS
  <2> QED BY <2>1, <2>2
<1>6. ZeroAfter(n + 1)' = {}
  BY ZeroGrows
<1>7. PendingIsReal'
  <2> SUFFICES ASSUME NEW p \in Pend.pending
               PROVE  IsRescan(p.ts)' /\ log'[p.ts] = p /\ ZeroAfter(p.ts)' = {}
    BY <1>4 DEF PendingIsReal
  <2>1. IsRescan(p.ts) /\ log[p.ts] = p /\ ZeroAfter(p.ts) = {}
    BY DEF WindowsInv, PendingIsReal
  <2>2. p.ts \in 1..n
    BY <1>2, <2>1 DEF IsRescan
  <2> QED BY <1>2, <1>5, <2>1, <2>2 DEF IsRescan
<1>8. OnePending'
  BY <1>4 DEF WindowsInv, OnePending
<1>9. UnspentIsPending'
  <2> SUFFICES ASSUME NEW u \in Threads, NEW i \in DOMAIN log', NEW g, g = log'[i].on,
                      Within(u)' = {i}, log'[i].call = "QgroupRescan", u \notin State(g)'.spent
               PROVE  log'[i] \in Pend'.pending
    BY DEF UnspentIsPending
  <2>1. /\ u # t /\ i \in DOMAIN log /\ log'[i] = log[i]
        /\ Within(u) = {i} /\ u \notin State(log[i].on).spent
    BY UnspentGrows
  <2> QED BY <1>4, <2>1 DEF WindowsInv, UnspentIsPending
<1>10. ZerosFound'
  <2> SUFFICES ASSUME NEW i \in DOMAIN log', IsRescan(i)', NEW k \in ZeroAfter(i)'
               PROVE  \E w \in Pend'.out : w.a = i /\ w.b = k
    BY DEF ZerosFound
  <2>1. i \in 1..n /\ k \in ZeroAfter(i)
    BY <1>2, <1>3, <1>5, <1>6
  <2>2. IsRescan(i)
    BY <1>2, <2>1 DEF IsRescan
  <2> QED BY <1>2, <1>4, <2>1, <2>2 DEF WindowsInv, ZerosFound
<1>11. FoundIsReal'
  <2> SUFFICES ASSUME NEW w \in Pend.out PROVE IsWindow(w.a, w.b)'
    BY <1>4 DEF FoundIsReal
  <2> PICK a, b : a = w.a /\ b = w.b
    OBVIOUS
  <2>1. IsWindow(a, b)
    BY DEF WindowsInv, FoundIsReal
  <2> QED BY <2>1, WindowKept
<1> QED BY <1>4, <1>7, <1>8, <1>9, <1>10, <1>11 DEF WindowsInv

LEMMA RescanBegins ==
    ASSUME LogIsReal, CallsInv, CallsInv', WindowsInv,
           NEW t, NEW f, NEW call, call = "QgroupRescan", Happens(t, f, "Enter", call)
    PROVE  WindowsInv'
<1> PICK n, e : n = Len(log) /\ e = Entry(t, f, "Enter", call)
  OBVIOUS
<1>1. Fits(t, f, "Enter", call) /\ log' = Append(log, e) /\ UNCHANGED warm /\ Opens(t, f, call)
  BY DEF Happens
<1>2. /\ n \in Nat /\ DOMAIN log = 1..n /\ DOMAIN log' = 1..(n + 1)
      /\ log'[n + 1] = e /\ e \in Entries
      /\ \A j \in 1..n : log'[j] = log[j] /\ j \in 1..(n + 1)
  BY <1>1, LogGrows
<1>3. \A j \in 1..(n + 1) : j \in 1..n \/ j = n + 1
  BY <1>2
<1>4. e.ts = n + 1 /\ e.tid = t /\ e.at = "Enter" /\ e.call = "QgroupRescan"
  BY DEF Entry
<1> DEFINE mine == {p \in Pend.pending : p.tid = t}
<1>5. /\ Pend'.pending = (Pend.pending \ mine) \cup {e} /\ Pend'.out = Pend.out
      /\ Pend' \in PendingStates
  <2>1. Pend' = Pending(Pend, e) /\ Pend' \in PendingStates
    BY PendGrows DEF WindowsInv
  <2>2. Pending(Pend, e) = [Pend EXCEPT !.pending = (@ \ mine) \cup {e}]
    BY <1>4 DEF Pending
  <2> QED BY <2>1, <2>2 DEF WindowsInv, PendingStates
<1> HIDE DEF mine
<1>6. \A i \in 1..n : ZeroAfter(i)' = ZeroAfter(i)
  <2>1. \A i \in 1..n : ZeroAfter(i)' = ZeroAfter(i) \cup {}
    <3>1. \A i \in 1..n : ZeroAfter(i)' = ZeroAfter(i) \cup
             (IF "Enter" = "Enter" /\ call = "RescanZeroTracking" /\ log[i].tid = t /\ OpenAt(i, n)
              THEN {n + 1} ELSE {})
      BY ZeroGrows
    <3> QED BY <3>1
  <2>2. \A S : S \cup {} = S
    OBVIOUS
  <2> QED BY <2>1, <2>2
<1>7. ZeroAfter(n + 1)' = {}
  BY ZeroGrows
<1>8. PendingIsReal'
  <2> SUFFICES ASSUME NEW p \in Pend'.pending
               PROVE  IsRescan(p.ts)' /\ log'[p.ts] = p /\ ZeroAfter(p.ts)' = {}
    BY DEF PendingIsReal
  <2>1. CASE p = e
    <3>1. n + 1 \in 1..(n + 1)
      BY <1>2
    <3> QED BY <1>2, <1>4, <1>7, <2>1, <3>1 DEF IsRescan
  <2>2. CASE p \in Pend.pending
    <3>1. IsRescan(p.ts) /\ log[p.ts] = p /\ ZeroAfter(p.ts) = {}
      BY <2>2 DEF WindowsInv, PendingIsReal
    <3>2. p.ts \in 1..n
      BY <1>2, <3>1 DEF IsRescan
    <3> QED BY <1>2, <1>6, <3>1, <3>2 DEF IsRescan
  <2> QED BY <1>5, <2>1, <2>2
<1>9. OnePending'
  <2>1. \A p \in Pend.pending \ mine : p.tid # t
    BY DEF mine
  <2> QED BY <1>4, <1>5, <2>1 DEF WindowsInv, OnePending
<1>10. UnspentIsPending'
  <2> SUFFICES ASSUME NEW u \in Threads, NEW i \in DOMAIN log', NEW g, g = log'[i].on,
                      Within(u)' = {i}, log'[i].call = "QgroupRescan", u \notin State(g)'.spent
               PROVE  log'[i] \in Pend'.pending
    BY DEF UnspentIsPending
  <2>1. /\ \A v : v # t => Within(v)' = Within(v)
        /\ Within(t)' = Within(t) \cup {n + 1}
    BY <1>1, WithinGrows
  <2>2. CASE u = t
    <3>1. i = n + 1
      BY <2>1, <2>2
    <3> QED BY <1>2, <1>5, <3>1
  <2>3. CASE u # t
    <3>1. i \in Within(u)
      BY <2>1, <2>3
    <3>2. i \in 1..n /\ log[i] \in Entries /\ log[i].tid = u
      BY <3>1, WithinIs
    <3>3. log[i].on \in FileSystems /\ log'[i] = log[i]
      BY <1>2, <3>2 DEF Entries
    <3>4. u \notin State(log[i].on).spent
      BY <2>3, <3>3, SpentGrows
    <3>5. log[i] \in Pend.pending
      BY <1>2, <2>1, <2>3, <3>2, <3>3, <3>4 DEF WindowsInv, UnspentIsPending
    <3> QED BY <1>5, <2>3, <3>2, <3>3, <3>5 DEF mine
  <2> QED BY <2>2, <2>3
<1>11. ZerosFound'
  <2> SUFFICES ASSUME NEW i \in DOMAIN log', IsRescan(i)', NEW k \in ZeroAfter(i)'
               PROVE  \E w \in Pend'.out : w.a = i /\ w.b = k
    BY DEF ZerosFound
  <2>1. i \in 1..n /\ k \in ZeroAfter(i)
    BY <1>2, <1>3, <1>6, <1>7
  <2>2. IsRescan(i)
    BY <1>2, <2>1 DEF IsRescan
  <2> QED BY <1>2, <1>5, <2>1, <2>2 DEF WindowsInv, ZerosFound
<1>12. FoundIsReal'
  <2> SUFFICES ASSUME NEW w \in Pend.out PROVE IsWindow(w.a, w.b)'
    BY <1>5 DEF FoundIsReal
  <2> PICK a, b : a = w.a /\ b = w.b
    OBVIOUS
  <2>1. IsWindow(a, b)
    BY DEF WindowsInv, FoundIsReal
  <2> QED BY <2>1, WindowKept
<1> QED BY <1>5, <1>8, <1>9, <1>10, <1>11, <1>12 DEF WindowsInv

LEMMA ZeroTrackingBegins ==
    ASSUME LogIsReal, CallsInv, CallsInv', WindowsInv,
           NEW t, NEW f, NEW call, call = "RescanZeroTracking", Happens(t, f, "Enter", call)
    PROVE  WindowsInv'
<1> PICK n, e : n = Len(log) /\ e = Entry(t, f, "Enter", call)
  OBVIOUS
<1>1. Fits(t, f, "Enter", call) /\ log' = Append(log, e) /\ UNCHANGED warm /\ Opens(t, f, call)
  BY DEF Happens
<1>2. /\ n \in Nat /\ DOMAIN log = 1..n /\ DOMAIN log' = 1..(n + 1) /\ Len(log') = n + 1
      /\ log'[n + 1] = e /\ e \in Entries
      /\ \A j \in 1..n : log'[j] = log[j] /\ j \in 1..(n + 1)
  BY <1>1, LogGrows
<1>3. (\A j \in 1..(n + 1) : j \in 1..n \/ j = n + 1) /\ n + 1 \in 1..(n + 1) /\ n + 1 \notin 1..n
  BY <1>2
<1>4. /\ e.ts = n + 1 /\ e.tid = t /\ e.fs = f /\ e.at = "Enter" /\ e.call = "RescanZeroTracking"
      /\ log'[n + 1].tid = t
  BY <1>2 DEF Entry
<1>5. PICK i0 \in DOMAIN log :
         /\ Alone(t, i0) /\ log[i0].on = f /\ <<log[i0].call, call>> \in Nested
         /\ t \notin State(f).spent
  <2>1. call \notin Ioctls \cup {"FreeQgroupConfig"} /\ call # "RescanWorker"
    BY DEF Ioctls, QuotaCtl
  <2> QED BY <1>1, <2>1, BeginCases
<1>6. /\ i0 \in 1..n /\ Within(t) = {i0} /\ log[i0].tid = t /\ log[i0].at = "Enter" /\ OpenAt(i0, n)
      /\ t \in Threads
  <2>1. Within(t) = {i0}
    BY <1>5 DEF Alone
  <2>2. i0 \in 1..n /\ log[i0].tid = t /\ log[i0].at = "Enter" /\ OpenAt(i0, n)
    BY <2>1, WithinIsOpen
  <2>3. call # "RescanWorker"
    OBVIOUS
  <2>4. t \in Threads
    BY <1>1, <2>3, BeginCases
  <2> QED BY <2>1, <2>2, <2>4
<1>7. log[i0].call = "QuotaEnable" \/ log[i0].call = "QgroupRescan"
  BY <1>5 DEF Nested
<1> DEFINE mine == {p \in Pend.pending : p.tid = t}
           new == {[tid |-> t, fs |-> f, a |-> p.ts, b |-> n + 1] : p \in mine}
<1>8. /\ Pend'.pending = Pend.pending \ mine /\ Pend'.out = Pend.out \cup new
      /\ Pend' \in PendingStates
  <2>1. Pend' = Pending(Pend, e) /\ Pend' \in PendingStates
    BY PendGrows DEF WindowsInv
  <2>2. Pending(Pend, e) = [pending |-> Pend.pending \ mine, out |-> Pend.out \cup new]
    <3> DEFINE same == {p \in Pend.pending : p.tid = e.tid}
               wins == {[tid |-> e.tid, fs |-> e.fs, a |-> p.ts, b |-> e.ts] : p \in same}
    <3>1. same = mine
      BY <1>4
    <3>2. wins = new
      <4> HIDE DEF mine
      <4> QED BY <1>4, <3>1
    <3>3. Pending(Pend, e) = [pending |-> Pend.pending \ same, out |-> Pend.out \cup wins]
      <4> HIDE DEF mine, new
      <4> QED BY <1>4 DEF Pending
    <3> HIDE DEF mine, new, same, wins
    <3> QED BY <3>1, <3>2, <3>3
  <2> QED BY <2>1, <2>2
<1>9. \A w : w \in new <=> \E p \in mine : w = [tid |-> t, fs |-> f, a |-> p.ts, b |-> n + 1]
  OBVIOUS
<1>10. \A p : p \in mine <=> p \in Pend.pending /\ p.tid = t
  OBVIOUS
<1> HIDE DEF mine, new
<1>11. \A i \in 1..n : ZeroAfter(i)' =
          ZeroAfter(i) \cup (IF log[i].tid = t /\ OpenAt(i, n) THEN {n + 1} ELSE {})
  <2>1. \A i \in 1..n : ZeroAfter(i)' = ZeroAfter(i) \cup
           (IF "Enter" = "Enter" /\ call = "RescanZeroTracking" /\ log[i].tid = t /\ OpenAt(i, n)
            THEN {n + 1} ELSE {})
    BY ZeroGrows
  <2> QED BY <2>1
<1>12. ZeroAfter(n + 1)' = {}
  BY ZeroGrows
<1>13. PendingIsReal'
  <2> SUFFICES ASSUME NEW p \in Pend.pending \ mine
               PROVE  IsRescan(p.ts)' /\ log'[p.ts] = p /\ ZeroAfter(p.ts)' = {}
    BY <1>8 DEF PendingIsReal
  <2>1. IsRescan(p.ts) /\ log[p.ts] = p /\ ZeroAfter(p.ts) = {}
    BY DEF WindowsInv, PendingIsReal
  <2>2. p.ts \in 1..n /\ log[p.ts].tid # t
    BY <1>2, <1>10, <2>1 DEF IsRescan
  <2>3. ZeroAfter(p.ts)' = {}
    BY <1>11, <2>1, <2>2
  <2> QED BY <1>2, <2>1, <2>2, <2>3 DEF IsRescan
<1>14. OnePending'
  BY <1>8 DEF WindowsInv, OnePending
<1>15. UnspentIsPending'
  <2> SUFFICES ASSUME NEW u \in Threads, NEW i \in DOMAIN log', NEW g, g = log'[i].on,
                      Within(u)' = {i}, log'[i].call = "QgroupRescan", u \notin State(g)'.spent
               PROVE  log'[i] \in Pend'.pending
    BY DEF UnspentIsPending
  <2>1. ~("Enter" = "Enter" /\ call = "QgroupRescan")
    OBVIOUS
  <2>2. /\ u # t /\ i \in DOMAIN log /\ log'[i] = log[i] /\ log[i].tid = u
        /\ Within(u) = {i} /\ u \notin State(log[i].on).spent
    BY <2>1, UnspentGrows
  <2>3. log[i] \in Pend.pending
    BY <2>2 DEF WindowsInv, UnspentIsPending
  <2> QED BY <1>8, <1>10, <2>2, <2>3
<1>16. ZerosFound'
  <2> SUFFICES ASSUME NEW i \in DOMAIN log', IsRescan(i)', NEW k \in ZeroAfter(i)'
               PROVE  \E w \in Pend'.out : w.a = i /\ w.b = k
    BY DEF ZerosFound
  <2>1. i \in 1..n
    BY <1>2, <1>3, <1>12
  <2>2. IsRescan(i)
    BY <1>2, <2>1 DEF IsRescan
  <2>3. CASE k \in ZeroAfter(i)
    BY <1>2, <1>8, <2>1, <2>2, <2>3 DEF WindowsInv, ZerosFound
  <2>4. CASE k = n + 1 /\ log[i].tid = t /\ OpenAt(i, n)
    <3>1. i \in Within(t)
      BY <2>1, <2>2, <2>4, WithinIsOpen DEF IsRescan
    <3>2. i = i0 /\ log[i].call = "QgroupRescan"
      BY <1>6, <2>2, <3>1 DEF IsRescan
    <3>3. log[i] \in Pend.pending
      BY <1>5, <1>6, <3>2 DEF WindowsInv, UnspentIsPending
    <3>4. log[i] \in mine /\ log[i].ts = i
      BY <1>2, <1>10, <2>1, <2>4, <3>3 DEF LogIsReal
    <3>5. [tid |-> t, fs |-> f, a |-> i, b |-> n + 1] \in new
      BY <1>9, <3>4
    <3> QED BY <1>8, <2>4, <3>5
  <2> QED BY <1>11, <2>1, <2>3, <2>4
<1>17. FoundIsReal'
  <2> SUFFICES ASSUME NEW w \in Pend'.out PROVE IsWindow(w.a, w.b)'
    BY DEF FoundIsReal
  <2> PICK a, b : a = w.a /\ b = w.b
    OBVIOUS
  <2>1. CASE w \in Pend.out
    <3>1. IsWindow(a, b)
      BY <2>1 DEF WindowsInv, FoundIsReal
    <3> QED BY <3>1, WindowKept
  <2>2. CASE w \in new
    <3>1. PICK p \in mine : a = p.ts /\ b = n + 1
      BY <1>9, <2>2
    <3>2. /\ p \in Pend.pending /\ p.tid = t /\ IsRescan(a) /\ log[a] = p /\ ZeroAfter(a) = {}
          /\ a \in 1..n
      <4>1. p \in Pend.pending /\ p.tid = t
        BY <1>10
      <4>2. IsRescan(p.ts) /\ log[p.ts] = p /\ ZeroAfter(p.ts) = {}
        BY <4>1 DEF WindowsInv, PendingIsReal
      <4> QED BY <1>2, <3>1, <4>1, <4>2 DEF IsRescan
    <3>3. ZeroAfter(a)' = IF OpenAt(a, n) THEN {n + 1} ELSE {}
      BY <1>11, <3>2
    <3>4. a \in DOMAIN log' /\ b \in DOMAIN log'
      BY <1>2, <1>3, <3>1, <3>2
    <3>5. CASE OpenAt(a, n)
      <4>1. b \in ZeroAfter(a)'
        BY <3>1, <3>3, <3>5
      <4> QED BY <3>4, <4>1 DEF IsWindow
    <3>6. CASE ~OpenAt(a, n)
      <4>1. /\ \A i, q \in 1..n : OpenAt(i, q)' <=> OpenAt(i, q)
            /\ \A i \in 1..n : OpenAt(i, n + 1)' <=>
                  OpenAt(i, n) /\ ~("Enter" = "Done" /\ log[i].tid = t /\ log[i].call = call)
        BY <1>1, OpenGrows
      <4>2. ~OpenAt(a, n + 1)' /\ OpenAt(i0, n + 1)'
        BY <1>6, <3>2, <3>6, <4>1
      <4>3. ~OpenAt(a, Len(log))'
        BY <1>2, <4>2 DEF OpenAt
      <4>4. IsRescan(a)'
        BY <1>2, <3>2 DEF IsRescan
      <4>5. log[i0].call = "QuotaEnable"
        <5>1. a \notin Within(t)
          BY <3>6, WithinIsOpen
        <5>2. ASSUME log[i0].call = "QgroupRescan" PROVE FALSE
          <6>1. log[i0] \in Pend.pending
            BY <1>5, <1>6, <5>2 DEF WindowsInv, UnspentIsPending
          <6>2. log[i0] = p
            BY <1>6, <3>2, <6>1 DEF WindowsInv, OnePending
          <6>3. p.ts = i0
            BY <1>2, <1>6, <6>2 DEF LogIsReal
          <6> QED BY <1>6, <3>1, <5>1, <6>3
        <5> QED BY <1>7, <5>2
      <4>6. InEnable(b)'
        <5>1. log'[i0] = log[i0] /\ i0 \in DOMAIN log'
          BY <1>2, <1>6
        <5> QED BY <1>4, <1>6, <3>1, <4>2, <4>5, <5>1 DEF InEnable
      <4>7. ZeroAfter(a)' = {}
        BY <3>3, <3>6
      <4> QED BY <3>4, <4>3, <4>4, <4>6, <4>7 DEF IsWindow
    <3> QED BY <3>5, <3>6
  <2> QED BY <1>8, <2>1, <2>2
<1> QED BY <1>8, <1>13, <1>14, <1>15, <1>16, <1>17 DEF WindowsInv

LEMMA WindowsInit ==
    ASSUME Init
    PROVE  WindowsInv
<1>1. Pend = [pending |-> {}, out |-> {}]
  BY PendingNone DEF Pend, Init
<1>2. Pend \in PendingStates /\ Pend.pending = {} /\ Pend.out = {}
  BY <1>1, NothingPending
<1>3. DOMAIN log = {}
  BY DEF Init
<1> QED BY <1>2, <1>3 DEF WindowsInv, PendingIsReal, OnePending, UnspentIsPending, ZerosFound, FoundIsReal

\* What the scan calls a commit window is a rescan ioctl up to its zero tracking,
\* and it has them all; the rest are refused rescans that an enable ended.
THEOREM CommitWindowsAreFound == Spec => []CommitWindowsFound
<1> DEFINE Inv == LogIsReal /\ CallsInv /\ WindowsInv
<1>1. Init => Inv
  BY CallsInit, WindowsInit
<1>2. ASSUME Inv, Next PROVE Inv'
  <2>1. LogIsReal' /\ CallsInv'
    BY <1>2, CallsStep
  <2>2. PICK t, f, at, call : Happens(t, f, at, call)
    BY <1>2, SomethingHappens
  <2>3. CASE ~(at = "Enter" /\ call \in {"QgroupRescan", "RescanZeroTracking"})
    BY <1>2, <2>1, <2>2, <2>3, WindowsKept
  <2>4. CASE at = "Enter" /\ call = "QgroupRescan"
    BY <1>2, <2>1, <2>2, <2>4, RescanBegins
  <2>5. CASE at = "Enter" /\ call = "RescanZeroTracking"
    BY <1>2, <2>1, <2>2, <2>5, ZeroTrackingBegins
  <2> QED BY <2>1, <2>3, <2>4, <2>5
<1>3. ASSUME Inv, UNCHANGED vars PROVE Inv'
  <2>1. (LogIsReal /\ CallsInv)'
    BY <1>3, TracesStutter
  <2>2. Pend' = Pend
    BY <1>3 DEF Pend, vars
  <2>3. /\ \A i : ZeroAfter(i)' = ZeroAfter(i) /\ (IsRescan(i)' <=> IsRescan(i))
        /\ \A a, b : IsWindow(a, b)' <=> IsWindow(a, b)
    BY <1>3 DEF ZeroAfter, IsRescan, IsWindow, InEnable, OpenAt, vars
  <2>4. \A u : Within(u)' = Within(u) /\ State(u)' = State(u)
    BY <1>3 DEF Within, State, On, Tasks, AsTask, TaskOf, vars
  <2>5. UnspentIsPending'
    BY <1>3, <2>2, <2>4 DEF WindowsInv, UnspentIsPending, vars
  <2>6. PendingIsReal' /\ OnePending' /\ ZerosFound' /\ FoundIsReal'
    BY <1>3, <2>2, <2>3 DEF WindowsInv, PendingIsReal, OnePending, ZerosFound, FoundIsReal, vars
  <2> QED BY <1>3, <2>1, <2>2, <2>5, <2>6 DEF WindowsInv
<1>4. ASSUME Inv PROVE CommitWindowsFound
  <2> DEFINE found == {<<w.a, w.b>> : w \in CommitWindows(log)}
             rescans == {i \in DOMAIN log : log[i].at = "Enter" /\ log[i].call = "QgroupRescan"}
  <2>1. CommitWindows(log) = Pend.out
    BY DEF CommitWindows, Pend
  <2>2. ASSUME NEW i \in rescans, NEW k \in ZeroAfter(i) PROVE <<i, k>> \in found
    <3>1. PICK w \in Pend.out : w.a = i /\ w.b = k
      BY <1>4, <2>2 DEF WindowsInv, ZerosFound, IsRescan
    <3> QED BY <2>1, <3>1
  <2>3. ASSUME NEW w \in found
        PROVE  \/ w[2] \in ZeroAfter(w[1])
               \/ /\ w[1] \in Completed("QgroupRescan") /\ ZeroAfter(w[1]) = {}
                  /\ InEnable(w[2])
    <3>1. PICK x \in Pend.out : w = <<x.a, x.b>>
      BY <2>1, <2>3
    <3>2. w[1] = x.a /\ w[2] = x.b
      BY <3>1
    <3>3. IsWindow(w[1], w[2])
      BY <1>4, <3>2 DEF WindowsInv, FoundIsReal
    <3> QED BY <3>3 DEF IsWindow, IsRescan, Completed
  <2> HIDE DEF found, rescans
  <2>4. /\ \A i \in rescans : \A k \in ZeroAfter(i) : <<i, k>> \in found
        /\ \A w \in found :
              \/ w[2] \in ZeroAfter(w[1])
              \/ /\ w[1] \in Completed("QgroupRescan") /\ ZeroAfter(w[1]) = {}
                 /\ InEnable(w[2])
    BY <2>2, <2>3
  <2> QED BY <2>4 DEF CommitWindowsFound, ZeroAfter, InEnable, found, rescans
<1>5. Inv /\ [Next]_vars => Inv'
  BY <1>2, <1>3
<1> QED BY <1>1, <1>4, <1>5, PTL DEF Spec

-----------------------------------------------------------------------------
(* The windows of the frees.                                               *)

\* The latest of the events that an end could belong to; what becomes of it.
Top(mine) == CHOOSE o \in mine : \A p \in mine : p.ts <= o.ts
Spans == [call : Calls, tid : Tids, fs : FileSystems \cup {Unknown},
          a : {Top(mine).ts : mine \in SUBSET PrintedEntries}, b : Nat]
PairStates == [open : SUBSET PrintedEntries, out : SUBSET Spans]

LEMMA PairUpType ==
    ASSUME NEW s \in PairStates, NEW e \in PrintedEntries
    PROVE  PairUp(s, e) \in PairStates
<1> DEFINE mine == {o \in s.open : o.tid = e.tid /\ o.call = e.call}
           span == [call |-> e.call, tid |-> e.tid, fs |-> e.fs, a |-> Top(mine).ts, b |-> e.ts]
<1>1. s.open \in SUBSET PrintedEntries /\ s.out \in SUBSET Spans
  BY DEF PairStates
<1>2. span \in Spans
  <2>1. mine \in SUBSET PrintedEntries
    BY <1>1
  <2>2. Top(mine).ts \in {Top(m).ts : m \in SUBSET PrintedEntries}
    BY <2>1
  <2> HIDE DEF mine
  <2> QED BY <2>2 DEF PrintedEntries, Spans
<1>3. PairUp(s, e) = IF e.at = "Enter" THEN [s EXCEPT !.open = @ \cup {e}]
                     ELSE IF mine = {} THEN s
                     ELSE [open |-> s.open \ {Top(mine)}, out |-> s.out \cup {span}]
  BY DEF PairUp, Top
<1> HIDE DEF mine, span
<1>4. [s EXCEPT !.open = @ \cup {e}] \in PairStates
  BY <1>1 DEF PairStates
<1>5. [open |-> s.open \ {Top(mine)}, out |-> s.out \cup {span}] \in PairStates
  BY <1>1, <1>2 DEF PairStates
<1> QED BY <1>3, <1>4, <1>5

LEMMA NothingOpen == [open |-> {}, out |-> {}] \in PairStates
BY DEF PairStates

PairUpSteps(it, n, events) ==
    it = [s \in SUBSET (1..n) |->
            IF s = {} THEN [open |-> {}, out |-> {}] ELSE PairUp(it[s \ {Max(s)}], events[Max(s)])]

LEMMA PairUpExists ==
    ASSUME NEW n \in Nat, NEW events, \A k \in 1..n : events[k] \in PrintedEntries
    PROVE  \E it : PairUpSteps(it, n, events)
<1> DEFINE step == [k \in 1..n |-> [v \in PairStates |-> PairUp(v, events[k])]]
<1>1. step \in [1..n -> [PairStates -> PairStates]]
  BY PairUpType
<1>2. PICK it \in [SUBSET (1..n) -> PairStates] : Iterates(it, n, [open |-> {}, out |-> {}], step)
  <2> HIDE DEF step
  <2> QED BY <1>1, IterationExists, NothingOpen
<1>3. ASSUME NEW s \in SUBSET (1..n)
      PROVE  it[s] = IF s = {} THEN [open |-> {}, out |-> {}] ELSE PairUp(it[s \ {Max(s)}], events[Max(s)])
  <2>1. CASE s = {}
    BY <1>2, <2>1 DEF Iterates
  <2>2. CASE s # {}
    <3>1. Max(s) \in 1..n
      BY <2>2, MaxIsGreatest
    <3>2. it[s \ {Max(s)}] \in PairStates
      BY <1>2
    <3>3. it[s] = step[Max(s)][it[s \ {Max(s)}]]
      <4> HIDE DEF step
      <4> QED BY <1>2, <2>2 DEF Iterates
    <3> QED BY <2>2, <3>1, <3>2, <3>3
  <2> QED BY <2>1, <2>2
<1>4. it = [s \in SUBSET (1..n) |-> it[s]]
  BY <1>2
<1>5. PairUpSteps(it, n, events)
  <2> HIDE DEF step
  <2> QED BY <1>3, <1>4, Zenon DEF PairUpSteps
<1> QED BY <1>5

LEMMA PairUpNone ==
    FoldLeft(PairUp, [open |-> {}, out |-> {}], <<>>) = [open |-> {}, out |-> {}]
<1> DEFINE it == CHOOSE x : PairUpSteps(x, 0, <<>>)
<1>1. DOMAIN <<>> = 1..0 /\ 1..0 = {} /\ 0 \in Nat /\ \A k \in 1..0 : <<>>[k] \in PrintedEntries
  OBVIOUS
<1>2. FoldLeft(PairUp, [open |-> {}, out |-> {}], <<>>) = it[1..0]
  BY <1>1 DEF FoldLeft, MapThenFoldSet, PairUpSteps
<1>3. PairUpSteps(it, 0, <<>>)
  BY <1>1, PairUpExists
<1> HIDE DEF it
<1> QED BY <1>1, <1>2, <1>3 DEF PairUpSteps

LEMMA PairUpAppend ==
    ASSUME NEW events \in Seq(PrintedEntries), NEW e \in PrintedEntries
    PROVE  FoldLeft(PairUp, [open |-> {}, out |-> {}], Append(events, e)) =
              PairUp(FoldLeft(PairUp, [open |-> {}, out |-> {}], events), e)
<1> DEFINE n == Len(events)
           more == Append(events, e)
           it == CHOOSE x : PairUpSteps(x, n + 1, more)
           it2 == CHOOSE x : PairUpSteps(x, n, events)
<1>1. /\ n \in Nat /\ n + 1 \in Nat /\ DOMAIN events = 1..n /\ DOMAIN more = 1..(n + 1)
      /\ \A k \in 1..n : events[k] \in PrintedEntries
      /\ \A k \in 1..(n + 1) : more[k] \in PrintedEntries
  OBVIOUS
<1>2. more[n + 1] = e /\ \A k \in 1..n : events[k] = more[k]
  OBVIOUS
<1> HIDE DEF n, more
<1>3. /\ FoldLeft(PairUp, [open |-> {}, out |-> {}], more) = it[1..(n + 1)]
      /\ FoldLeft(PairUp, [open |-> {}, out |-> {}], events) = it2[1..n]
  BY <1>1 DEF FoldLeft, MapThenFoldSet, PairUpSteps
<1>4. PairUpSteps(it, n + 1, more) /\ PairUpSteps(it2, n, events)
  BY <1>1, PairUpExists
<1> HIDE DEF it, it2
<1>5. 1..(n + 1) # {} /\ Max(1..(n + 1)) = n + 1 /\ 1..(n + 1) \ {n + 1} = 1..n
  <2>1. n + 1 \in 1..(n + 1) /\ (n + 1) - 1 = n
    BY <1>1
  <2> QED BY <1>1, <2>1, MaxOfInterval
<1>6. it[1..(n + 1)] = PairUp(it[1..n], e)
  <2>1. 1..(n + 1) \in SUBSET (1..(n + 1))
    OBVIOUS
  <2>2. it[1..(n + 1)] = PairUp(it[(1..(n + 1)) \ {Max(1..(n + 1))}], more[Max(1..(n + 1))])
    BY <1>4, <1>5, <2>1 DEF PairUpSteps
  <2> QED BY <1>2, <1>5, <2>2
<1>7. it[1..n] = it2[1..n]
  <2>1. it[{}] = it2[{}]
    BY <1>4 DEF PairUpSteps
  <2>2. ASSUME NEW s \in SUBSET (1..n), s # {}, it[s \ {Max(s)}] = it2[s \ {Max(s)}]
        PROVE  it[s] = it2[s]
    <3>1. Max(s) \in 1..n
      BY <1>1, <2>2, MaxIsGreatest
    <3>2. s \in SUBSET (1..(n + 1))
      BY <1>1
    <3>3. it[s] = PairUp(it[s \ {Max(s)}], more[Max(s)])
      BY <1>4, <2>2, <3>2 DEF PairUpSteps
    <3>4. it2[s] = PairUp(it2[s \ {Max(s)}], events[Max(s)])
      BY <1>4, <2>2 DEF PairUpSteps
    <3> QED BY <1>2, <2>2, <3>1, <3>3, <3>4
  <2>3. StepsAgree(n, it, it2)
    BY <2>1, <2>2 DEF StepsAgree
  <2>4. \A s \in SUBSET (1..n) : it[s] = it2[s]
    BY <1>1, <2>3, IterationsAgree
  <2> QED BY <2>4
<1> QED BY <1>3, <1>6, <1>7 DEF more

LEMMA PrintedGrows ==
    ASSUME LogIsReal, NEW t, NEW f, NEW at, NEW call, Happens(t, f, at, call), NEW u
    PROVE  /\ Printed(u) \in Seq(PrintedEntries)
           /\ Tagged(u, Entry(t, f, at, call)) \in PrintedEntries
           /\ Printed(u)' = Append(Printed(u), Tagged(u, Entry(t, f, at, call)))
<1> PICK n, e : n = Len(log) /\ e = Entry(t, f, at, call)
  OBVIOUS
<1>1. Fits(t, f, at, call) /\ log' = Append(log, e) /\ UNCHANGED warm
  BY DEF Happens
<1>2. /\ n \in Nat /\ DOMAIN log = 1..n /\ DOMAIN log' = 1..(n + 1) /\ log'[n + 1] = e /\ e \in Entries
      /\ \A j \in 1..n : log'[j] = log[j]
  BY <1>1, LogGrows
<1>3. e.fs = e.on
  BY DEF Entry
<1>4. Tagged(u, e) \in PrintedEntries
  BY <1>2, <1>3, TaggedIs
<1>5. \A i \in 1..n : Tagged(u, log[i]) \in PrintedEntries
  <2> SUFFICES ASSUME NEW i \in 1..n PROVE Tagged(u, log[i]) \in PrintedEntries
    OBVIOUS
  <2>1. log[i] \in Entries /\ log[i].fs = log[i].on
    BY <1>2 DEF LogIsReal
  <2> QED BY <2>1, TaggedIs
<1>6. Printed(u) = [i \in 1..n |-> Tagged(u, log[i])]
  BY <1>2 DEF Printed, Tagged
<1>7. Printed(u)' = [i \in 1..(n + 1) |-> Tagged(u, log'[i])]
  BY <1>2 DEF Printed, Tagged
<1>8. /\ Printed(u) \in Seq(PrintedEntries) /\ Len(Printed(u)) = n
      /\ \A i \in 1..n : Printed(u)[i] = Tagged(u, log[i])
  BY <1>2, <1>5, <1>6
<1> DEFINE more == Append(Printed(u), Tagged(u, e))
<1>9. /\ more \in Seq(PrintedEntries) /\ Len(more) = n + 1 /\ more[n + 1] = Tagged(u, e)
      /\ \A i \in 1..n : more[i] = Printed(u)[i]
  <2> DEFINE p == Printed(u)
  <2> HIDE DEF p
  <2>1. p \in Seq(PrintedEntries) /\ Len(p) = n
    BY <1>8 DEF p
  <2> DEFINE q == Append(p, Tagged(u, e))
  <2>2. /\ q \in Seq(PrintedEntries) /\ Len(q) = n + 1 /\ q[n + 1] = Tagged(u, e)
        /\ \A i \in 1..n : q[i] = p[i]
    BY <1>2, <1>4, <2>1
  <2> QED BY <2>2 DEF p
<1> HIDE DEF more
<1>10. more = [i \in 1..(n + 1) |-> more[i]]
  BY <1>9
<1>11. \A i \in 1..(n + 1) : more[i] = Tagged(u, log'[i])
  <2>1. \A i \in 1..(n + 1) : i \in 1..n \/ i = n + 1
    BY <1>2
  <2> QED BY <1>2, <1>8, <1>9, <2>1
<1>12. Printed(u)' = more
  BY <1>7, <1>10, <1>11
<1> QED BY <1>4, <1>8, <1>12 DEF more

\* A thread has each call open once at most.
LEMMA OneOfEach ==
    ASSUME LogIsReal, CallsInv, NEW t \in Tids, NEW i \in Within(t), NEW j \in Within(t),
           log[i].call = log[j].call
    PROVE  i = j
<1>1. CASE t \in KWorkers
  BY <1>1 DEF CallsInv, ScansAreOpen
<1>2. CASE t \in Threads
  <2>1. ThreadIn(t) /\ ~Outside(t)
    BY <1>2 DEF CallsInv, Outside
  <2>2. CASE \E h \in DOMAIN log : Alone(t, h)
    BY <2>2 DEF Alone
  <2>3. CASE \E g, h \in DOMAIN log : Nests(t, g, h)
    <3>1. PICK g \in DOMAIN log, h \in DOMAIN log : Nests(t, g, h)
      BY <2>3
    <3>2. log[g].call # log[h].call /\ Within(t) = {g, h}
      BY <3>1 DEF Nests, Nested
    <3> QED BY <3>2
  <2> QED BY <2>1, <2>2, <2>3 DEF ThreadIn
<1> QED BY <1>1, <1>2 DEF Tids

\* The event j ends the call begun by the event i.
Ended(i, j) ==
    /\ i < j /\ OpenAt(i, j - 1)
    /\ log[j].at = "Done" /\ log[j].tid = log[i].tid /\ log[j].call = log[i].call

Paired(u) == FoldLeft(PairUp, [open |-> {}, out |-> {}], Printed(u))

Span(u, i, j) ==
    [call |-> log[i].call, tid |-> log[i].tid, fs |-> Tag(u, log[i].tid, log[i].on), a |-> i, b |-> j]

\* The scan has open the calls that are, and has paired every other with its end.
OpenIsReal(u) ==
    \A o : o \in Paired(u).open <=>
        \E i \in DOMAIN log : log[i].at = "Enter" /\ OpenAt(i, Len(log)) /\ o = Tagged(u, log[i])
PairsAreReal(u) ==
    \A w : w \in Paired(u).out <=>
        \E i, j \in DOMAIN log : log[i].at = "Enter" /\ Ended(i, j) /\ w = Span(u, i, j)
EndsAreKnown ==
    \A i \in DOMAIN log : log[i].at = "Enter" /\ ~OpenAt(i, Len(log)) => \E j \in DOMAIN log : Ended(i, j)

PairsInv ==
    /\ EndsAreKnown
    /\ \A u \in SUBSET Tids : Paired(u) \in PairStates /\ OpenIsReal(u) /\ PairsAreReal(u)

LEMMA PairedGrows ==
    ASSUME LogIsReal, NEW t, NEW f, NEW at, NEW call, Happens(t, f, at, call),
           NEW u, Paired(u) \in PairStates
    PROVE  /\ Paired(u)' = PairUp(Paired(u), Tagged(u, Entry(t, f, at, call)))
           /\ Paired(u)' \in PairStates
<1> PICK e : e = Tagged(u, Entry(t, f, at, call))
  OBVIOUS
<1>1. Printed(u) \in Seq(PrintedEntries) /\ e \in PrintedEntries /\ Printed(u)' = Append(Printed(u), e)
  BY PrintedGrows
<1>2. Paired(u)' = FoldLeft(PairUp, [open |-> {}, out |-> {}], Append(Printed(u), e))
  BY <1>1 DEF Paired
<1>3. Paired(u)' = PairUp(Paired(u), e)
  BY <1>1, <1>2, PairUpAppend DEF Paired
<1> QED BY <1>1, <1>3, PairUpType

\* Which calls have ended, after an event.
LEMMA EndedGrows ==
    ASSUME LogIsReal, NEW t, NEW f, NEW at, NEW call, Happens(t, f, at, call), NEW n, n = Len(log)
    PROVE  /\ \A i, j \in 1..n : Ended(i, j)' <=> Ended(i, j)
           /\ \A i \in 1..n : Ended(i, n + 1)' <=>
                 OpenAt(i, n) /\ at = "Done" /\ log[i].tid = t /\ log[i].call = call
           /\ \A j \in 1..(n + 1) : ~Ended(n + 1, j)'
<1>1. Fits(t, f, at, call) /\ log' = Append(log, Entry(t, f, at, call)) /\ UNCHANGED warm
  BY DEF Happens
<1>2. /\ n \in Nat /\ log'[n + 1] = Entry(t, f, at, call)
      /\ \A i \in 1..n : log'[i] = log[i]
  BY <1>1, LogGrows
<1>3. \A i, p \in 1..n : OpenAt(i, p)' <=> OpenAt(i, p)
  BY <1>1, OpenGrows
<1>4. log'[n + 1].tid = t /\ log'[n + 1].at = at /\ log'[n + 1].call = call
  BY <1>2 DEF Entry
<1>5. ASSUME NEW i \in 1..n, NEW j \in 1..n PROVE Ended(i, j)' <=> Ended(i, j)
  <2>1. i < j => j - 1 \in 1..n
    BY <1>2
  <2>2. i < j => (OpenAt(i, j - 1)' <=> OpenAt(i, j - 1))
    BY <1>3, <2>1
  <2> QED BY <1>2, <2>2 DEF Ended
<1>6. ASSUME NEW i \in 1..n
      PROVE  Ended(i, n + 1)' <=> OpenAt(i, n) /\ at = "Done" /\ log[i].tid = t /\ log[i].call = call
  <2> PICK m : m = n + 1
    OBVIOUS
  <2>1. m - 1 = n /\ i < m /\ n \in 1..n
    BY <1>2
  <2>2. OpenAt(i, m - 1)' <=> OpenAt(i, n)
    BY <1>3, <2>1
  <2>3. Ended(i, m)' <=> OpenAt(i, n) /\ at = "Done" /\ log[i].tid = t /\ log[i].call = call
    BY <1>2, <1>4, <2>1, <2>2 DEF Ended
  <2> QED BY <2>3
<1>7. \A j \in 1..(n + 1) : ~Ended(n + 1, j)'
  BY <1>2 DEF Ended
<1> QED BY <1>5, <1>6, <1>7

LEMMA EndsKnownKept ==
    ASSUME LogIsReal, EndsAreKnown, NEW t, NEW f, NEW at, NEW call, Happens(t, f, at, call)
    PROVE  EndsAreKnown'
<1> PICK n : n = Len(log)
  OBVIOUS
<1>1. Fits(t, f, at, call) /\ log' = Append(log, Entry(t, f, at, call)) /\ UNCHANGED warm
  BY DEF Happens
<1>2. /\ n \in Nat /\ DOMAIN log = 1..n /\ DOMAIN log' = 1..(n + 1) /\ Len(log') = n + 1
      /\ \A i \in 1..n : log'[i] = log[i] /\ i \in 1..(n + 1)
      /\ \A i \in 1..(n + 1) : i \in 1..n \/ i = n + 1
      /\ n + 1 \in 1..(n + 1)
  BY <1>1, LogGrows
<1>3. /\ \A i \in 1..n : OpenAt(i, n + 1)' <=>
            OpenAt(i, n) /\ ~(at = "Done" /\ log[i].tid = t /\ log[i].call = call)
      /\ OpenAt(n + 1, n + 1)'
  BY <1>1, OpenGrows
<1>4. /\ \A i, j \in 1..n : Ended(i, j)' <=> Ended(i, j)
      /\ \A i \in 1..n : Ended(i, n + 1)' <=>
            OpenAt(i, n) /\ at = "Done" /\ log[i].tid = t /\ log[i].call = call
  BY EndedGrows
<1>5. \A i : OpenAt(i, Len(log))' <=> OpenAt(i, n + 1)'
  BY <1>2 DEF OpenAt
<1> SUFFICES ASSUME NEW i \in DOMAIN log', log'[i].at = "Enter", ~OpenAt(i, n + 1)'
             PROVE  \E j \in DOMAIN log' : Ended(i, j)'
  BY <1>5 DEF EndsAreKnown
<1>6. i \in 1..n
  BY <1>2, <1>3
<1>7. CASE OpenAt(i, n)
  <2>1. Ended(i, n + 1)'
    BY <1>3, <1>4, <1>6, <1>7
  <2> QED BY <1>2, <2>1
<1>8. CASE ~OpenAt(i, n)
  <2>1. PICK j \in 1..n : Ended(i, j)
    BY <1>2, <1>6, <1>8 DEF EndsAreKnown
  <2> QED BY <1>2, <1>4, <1>6, <2>1
<1> QED BY <1>7, <1>8

LEMMA PairsBegin ==
    ASSUME LogIsReal, NEW t, NEW f, NEW at, at = "Enter", NEW call, Happens(t, f, at, call),
           NEW u, Paired(u) \in PairStates, OpenIsReal(u), PairsAreReal(u)
    PROVE  OpenIsReal(u)' /\ PairsAreReal(u)'
<1> PICK n, e, p : n = Len(log) /\ e = Entry(t, f, at, call) /\ p = Tagged(u, e)
  OBVIOUS
<1>1. Fits(t, f, at, call) /\ log' = Append(log, e) /\ UNCHANGED warm
  BY DEF Happens
<1>2. /\ n \in Nat /\ DOMAIN log = 1..n /\ DOMAIN log' = 1..(n + 1) /\ Len(log') = n + 1
      /\ log'[n + 1] = e /\ e \in Entries
      /\ \A i \in 1..n : log'[i] = log[i] /\ i \in 1..(n + 1)
      /\ \A i \in 1..(n + 1) : i \in 1..n \/ i = n + 1
      /\ n + 1 \in 1..(n + 1)
  BY <1>1, LogGrows
<1>3. /\ \A i \in 1..n : OpenAt(i, n + 1)' <=> OpenAt(i, n)
      /\ OpenAt(n + 1, n + 1)'
  <2>1. /\ \A i \in 1..n : OpenAt(i, n + 1)' <=>
            OpenAt(i, n) /\ ~(at = "Done" /\ log[i].tid = t /\ log[i].call = call)
        /\ OpenAt(n + 1, n + 1)'
    BY <1>1, OpenGrows
  <2> QED BY <2>1
<1>4. /\ \A i, j \in 1..n : Ended(i, j)' <=> Ended(i, j)
      /\ \A i \in 1..n : ~Ended(i, n + 1)'
      /\ \A j \in 1..(n + 1) : ~Ended(n + 1, j)'
  <2>1. /\ \A i, j \in 1..n : Ended(i, j)' <=> Ended(i, j)
        /\ \A i \in 1..n : Ended(i, n + 1)' <=>
              OpenAt(i, n) /\ at = "Done" /\ log[i].tid = t /\ log[i].call = call
        /\ \A j \in 1..(n + 1) : ~Ended(n + 1, j)'
    BY EndedGrows
  <2> QED BY <2>1
<1>5. \A i : OpenAt(i, Len(log))' <=> OpenAt(i, n + 1)'
  BY <1>2 DEF OpenAt
<1>6. p.at = "Enter" /\ e.at = "Enter"
  <2>1. e.at = "Enter" /\ e.fs = e.on
    BY DEF Entry
  <2> QED BY <1>2, <2>1, TaggedIs
<1>7. Paired(u)'.open = Paired(u).open \cup {p} /\ Paired(u)'.out = Paired(u).out
  <2>1. Paired(u)' = PairUp(Paired(u), p)
    BY PairedGrows
  <2>2. PairUp(Paired(u), p) = [Paired(u) EXCEPT !.open = @ \cup {p}]
    BY <1>6 DEF PairUp
  <2> QED BY <2>1, <2>2 DEF PairStates
<1>8. OpenIsReal(u)'
  <2> SUFFICES ASSUME NEW o
               PROVE  o \in Paired(u)'.open <=>
                        \E i \in 1..(n + 1) :
                          log'[i].at = "Enter" /\ OpenAt(i, n + 1)' /\ o = Tagged(u, log'[i])
    BY <1>2, <1>5 DEF OpenIsReal, Tagged
  <2>1. o \in Paired(u).open <=>
          \E i \in 1..n : log[i].at = "Enter" /\ OpenAt(i, n) /\ o = Tagged(u, log[i])
    BY <1>2 DEF OpenIsReal
  <2>2. \A i \in 1..n : (log'[i].at = "Enter" /\ OpenAt(i, n + 1)' /\ o = Tagged(u, log'[i]))
                         <=> (log[i].at = "Enter" /\ OpenAt(i, n) /\ o = Tagged(u, log[i]))
    BY <1>2, <1>3
  <2>3. (log'[n + 1].at = "Enter" /\ OpenAt(n + 1, n + 1)' /\ o = Tagged(u, log'[n + 1])) <=> o = p
    BY <1>2, <1>3, <1>6
  <2> QED BY <1>2, <1>7, <2>1, <2>2, <2>3
<1>9. PairsAreReal(u)'
  <2> SUFFICES ASSUME NEW w
               PROVE  w \in Paired(u)'.out <=>
                        \E i, j \in 1..(n + 1) :
                          log'[i].at = "Enter" /\ Ended(i, j)' /\ w = Span(u, i, j)'
    BY <1>2 DEF PairsAreReal
  <2>1. w \in Paired(u).out <=>
          \E i, j \in 1..n : log[i].at = "Enter" /\ Ended(i, j) /\ w = Span(u, i, j)
    BY <1>2 DEF PairsAreReal
  <2>2. \A i, j \in 1..n : (log'[i].at = "Enter" /\ Ended(i, j)' /\ w = Span(u, i, j)')
                            <=> (log[i].at = "Enter" /\ Ended(i, j) /\ w = Span(u, i, j))
    BY <1>2, <1>4 DEF Span
  <2>3. \A i, j \in 1..(n + 1) : Ended(i, j)' => i \in 1..n /\ j \in 1..n
    BY <1>2, <1>4
  <2> QED BY <1>2, <1>7, <2>1, <2>2, <2>3
<1> QED BY <1>8, <1>9

LEMMA PairsEnd ==
    ASSUME LogIsReal, CallsInv, NEW t, NEW f, NEW at, at = "Done", NEW call, Happens(t, f, at, call),
           NEW u, Paired(u) \in PairStates, OpenIsReal(u), PairsAreReal(u)
    PROVE  OpenIsReal(u)' /\ PairsAreReal(u)'
<1> PICK n, e, p : n = Len(log) /\ e = Entry(t, f, at, call) /\ p = Tagged(u, e)
  OBVIOUS
<1>1. Fits(t, f, at, call) /\ log' = Append(log, e) /\ UNCHANGED warm
  BY DEF Happens
<1>2. /\ n \in Nat /\ DOMAIN log = 1..n /\ DOMAIN log' = 1..(n + 1) /\ Len(log') = n + 1
      /\ log'[n + 1] = e /\ e \in Entries
      /\ \A i \in 1..n : log'[i] = log[i] /\ i \in 1..(n + 1)
      /\ \A i \in 1..(n + 1) : i \in 1..n \/ i = n + 1
      /\ n + 1 \in 1..(n + 1) /\ n + 1 \notin 1..n
  BY <1>1, LogGrows
<1>3. PICK i0 : Closes(t, i0) /\ log[i0].on = f /\ log[i0].call = call
  BY DEF Happens
<1>4. /\ i0 \in 1..n /\ i0 \in Within(t) /\ t \in Tids
      /\ log[i0].tid = t /\ log[i0].at = "Enter" /\ OpenAt(i0, n)
  <2>1. i0 \in Within(t) /\ t \in Tids
    BY <1>1, <1>3 DEF Closes, Fits
  <2> QED BY <2>1, WithinIsOpen
<1>5. \A i \in 1..n : /\ log[i].at = "Enter" /\ OpenAt(i, n) /\ log[i].tid = t /\ log[i].call = call
                       => i = i0
  <2> SUFFICES ASSUME NEW i \in 1..n, log[i].at = "Enter", OpenAt(i, n), log[i].tid = t, log[i].call = call
               PROVE  i = i0
    OBVIOUS
  <2>1. i \in Within(t)
    BY WithinIsOpen
  <2> QED BY <1>3, <1>4, <2>1, OneOfEach
<1>6. /\ \A i \in 1..n : OpenAt(i, n + 1)' <=> OpenAt(i, n) /\ ~(log[i].tid = t /\ log[i].call = call)
      /\ log'[n + 1].at = "Done"
  <2>1. \A i \in 1..n : OpenAt(i, n + 1)' <=>
            OpenAt(i, n) /\ ~(at = "Done" /\ log[i].tid = t /\ log[i].call = call)
    BY <1>1, OpenGrows
  <2>2. log'[n + 1].at = "Done"
    BY <1>2 DEF Entry
  <2> QED BY <2>1, <2>2
<1>7. /\ \A i, j \in 1..n : Ended(i, j)' <=> Ended(i, j)
      /\ \A i \in 1..n : Ended(i, n + 1)' <=> OpenAt(i, n) /\ log[i].tid = t /\ log[i].call = call
      /\ \A j \in 1..(n + 1) : ~Ended(n + 1, j)'
  <2>1. /\ \A i, j \in 1..n : Ended(i, j)' <=> Ended(i, j)
        /\ \A i \in 1..n : Ended(i, n + 1)' <=>
              OpenAt(i, n) /\ at = "Done" /\ log[i].tid = t /\ log[i].call = call
        /\ \A j \in 1..(n + 1) : ~Ended(n + 1, j)'
    BY EndedGrows
  <2> QED BY <2>1
<1>8. \A i : OpenAt(i, Len(log))' <=> OpenAt(i, n + 1)'
  BY <1>2 DEF OpenAt
<1>9. /\ p.at = "Done" /\ p.tid = t /\ p.call = call /\ p.fs = Tag(u, t, f) /\ p.ts = n + 1
  <2>1. e.at = "Done" /\ e.tid = t /\ e.call = call /\ e.fs = e.on /\ e.on = f /\ e.ts = n + 1
    BY DEF Entry
  <2> QED BY <1>2, <2>1, TaggedIs
<1>10. \A i \in 1..n : /\ Tagged(u, log[i]).ts = i /\ Tagged(u, log[i]).tid = log[i].tid
                       /\ Tagged(u, log[i]).call = log[i].call
  <2> SUFFICES ASSUME NEW i \in 1..n
               PROVE  /\ Tagged(u, log[i]).ts = i /\ Tagged(u, log[i]).tid = log[i].tid
                      /\ Tagged(u, log[i]).call = log[i].call
    OBVIOUS
  <2>1. log[i] \in Entries /\ log[i].fs = log[i].on /\ log[i].ts = i
    BY <1>2 DEF LogIsReal
  <2> QED BY <2>1, TaggedIs
<1> PICK o0 : o0 = Tagged(u, log[i0])
  OBVIOUS
<1> DEFINE mine == {o \in Paired(u).open : o.tid = p.tid /\ o.call = p.call}
           span == [call |-> p.call, tid |-> p.tid, fs |-> p.fs, a |-> Top(mine).ts, b |-> p.ts]
<1>11. \A o : o \in Paired(u).open <=>
          \E i \in 1..n : log[i].at = "Enter" /\ OpenAt(i, n) /\ o = Tagged(u, log[i])
  BY <1>2 DEF OpenIsReal
<1>12. mine = {o0}
  <2>1. \A o \in Paired(u).open : o.tid = p.tid /\ o.call = p.call => o = o0
    BY <1>5, <1>9, <1>10, <1>11
  <2>2. o0 \in Paired(u).open /\ o0.tid = p.tid /\ o0.call = p.call
    BY <1>3, <1>4, <1>9, <1>10, <1>11
  <2> QED BY <2>1, <2>2
<1>13. o0.ts = i0 /\ Top({o0}) = o0
  <2>1. o0.ts = i0
    BY <1>4, <1>10
  <2>2. \A q \in {o0} : q.ts <= o0.ts
    BY <1>4, <2>1
  <2> QED BY <2>1, <2>2 DEF Top
<1>14. /\ Paired(u)'.open = Paired(u).open \ {o0}
       /\ Paired(u)'.out = Paired(u).out \cup {span}
  <2>1. Paired(u)' = PairUp(Paired(u), p)
    BY PairedGrows
  <2>2. PairUp(Paired(u), p) =
          IF p.at = "Enter" THEN [Paired(u) EXCEPT !.open = @ \cup {p}]
          ELSE IF mine = {} THEN Paired(u)
          ELSE [open |-> Paired(u).open \ {Top(mine)}, out |-> Paired(u).out \cup {span}]
    BY DEF PairUp, Top
  <2> HIDE DEF mine, span
  <2>3. Paired(u)' = [open |-> Paired(u).open \ {o0}, out |-> Paired(u).out \cup {span}]
    BY <1>9, <1>12, <1>13, <2>1, <2>2
  <2> QED BY <2>3
<1>15. span = [call |-> call, tid |-> t, fs |-> Tag(u, t, f), a |-> i0, b |-> n + 1]
  <2> HIDE DEF mine
  <2> QED BY <1>9, <1>12, <1>13
<1> HIDE DEF mine, span
<1>16. OpenIsReal(u)'
  <2> SUFFICES ASSUME NEW o
               PROVE  o \in Paired(u)'.open <=>
                        \E i \in 1..(n + 1) :
                          log'[i].at = "Enter" /\ OpenAt(i, n + 1)' /\ o = Tagged(u, log'[i])
    BY <1>2, <1>8 DEF OpenIsReal, Tagged
  <2>1. \A i \in 1..n : (log'[i].at = "Enter" /\ OpenAt(i, n + 1)' /\ o = Tagged(u, log'[i]))
           <=> (log[i].at = "Enter" /\ OpenAt(i, n) /\ i # i0 /\ o = Tagged(u, log[i]))
    BY <1>2, <1>3, <1>4, <1>5, <1>6
  <2>2. \A i \in 1..n : Tagged(u, log[i]) = o0 <=> i = i0
    BY <1>4, <1>10, <1>13
  <2>3. (\E i \in 1..(n + 1) : log'[i].at = "Enter" /\ OpenAt(i, n + 1)' /\ o = Tagged(u, log'[i]))
           <=> \E i \in 1..n : log[i].at = "Enter" /\ OpenAt(i, n) /\ i # i0 /\ o = Tagged(u, log[i])
    BY <1>2, <1>6, <2>1
  <2> QED BY <1>11, <1>14, <2>2, <2>3
<1>17. PairsAreReal(u)'
  <2> SUFFICES ASSUME NEW w
               PROVE  w \in Paired(u)'.out <=>
                        \E i, j \in 1..(n + 1) :
                          log'[i].at = "Enter" /\ Ended(i, j)' /\ w = Span(u, i, j)'
    BY <1>2 DEF PairsAreReal
  <2>1. w \in Paired(u).out <=>
          \E i, j \in 1..n : log[i].at = "Enter" /\ Ended(i, j) /\ w = Span(u, i, j)
    BY <1>2 DEF PairsAreReal
  <2>2. \A i, j \in 1..n : (log'[i].at = "Enter" /\ Ended(i, j)' /\ w = Span(u, i, j)')
                            <=> (log[i].at = "Enter" /\ Ended(i, j) /\ w = Span(u, i, j))
    BY <1>2, <1>7 DEF Span
  <2>3. span = Span(u, i0, n + 1)'
    <3>1. log'[i0] = log[i0]
      BY <1>2, <1>4
    <3> QED BY <1>3, <1>4, <1>15, <3>1 DEF Span
  <2>4. ASSUME NEW i \in 1..n
        PROVE  (log'[i].at = "Enter" /\ Ended(i, n + 1)' /\ w = Span(u, i, n + 1)')
                 <=> (i = i0 /\ w = span)
    BY <1>2, <1>3, <1>4, <1>5, <1>7, <2>3
  <2>5. (\E i, j \in 1..(n + 1) : log'[i].at = "Enter" /\ Ended(i, j)' /\ w = Span(u, i, j)')
           <=> \/ \E i, j \in 1..n : log[i].at = "Enter" /\ Ended(i, j) /\ w = Span(u, i, j)
               \/ w = span
    BY <1>2, <1>4, <1>7, <2>2, <2>4
  <2> QED BY <1>14, <2>1, <2>5
<1> QED BY <1>16, <1>17

LEMMA PairsStep ==
    ASSUME LogIsReal, CallsInv, PairsInv, Next
    PROVE  PairsInv'
<1>1. PICK t, f, at, call : Happens(t, f, at, call)
  BY SomethingHappens
<1>2. EndsAreKnown'
  BY <1>1, EndsKnownKept DEF PairsInv
<1>3. ASSUME NEW u \in SUBSET Tids
      PROVE  Paired(u)' \in PairStates /\ OpenIsReal(u)' /\ PairsAreReal(u)'
  <2>1. Paired(u) \in PairStates /\ OpenIsReal(u) /\ PairsAreReal(u)
    BY DEF PairsInv
  <2>2. Paired(u)' \in PairStates
    BY <1>1, <2>1, PairedGrows
  <2>3. CASE at = "Enter"
    BY <1>1, <2>1, <2>2, <2>3, PairsBegin
  <2>4. CASE at = "Done"
    BY <1>1, <2>1, <2>2, <2>4, PairsEnd
  <2>5. at \in {"Enter", "Done"}
    BY <1>1 DEF Happens, Fits, Sides
  <2> QED BY <2>3, <2>4, <2>5
<1> QED BY <1>2, <1>3 DEF PairsInv

LEMMA PairsInit ==
    ASSUME Init
    PROVE  PairsInv
<1>1. DOMAIN log = {}
  BY DEF Init
<1>2. ASSUME NEW u \in SUBSET Tids
      PROVE  Paired(u) \in PairStates /\ OpenIsReal(u) /\ PairsAreReal(u)
  <2>1. Printed(u) = <<>>
    BY DEF Init, Printed
  <2>2. Paired(u) = [open |-> {}, out |-> {}]
    BY <2>1, PairUpNone DEF Paired
  <2> QED BY <1>1, <2>2, NothingOpen DEF OpenIsReal, PairsAreReal
<1> QED BY <1>1, <1>2 DEF PairsInv, EndsAreKnown

\* Two calls were open at one time just when each began before the other's end.
LEMMA Overlapping ==
    ASSUME LogIsReal, NEW i \in DOMAIN log, NEW j \in DOMAIN log, Ended(i, j),
           NEW k \in DOMAIN log, NEW l \in DOMAIN log, Ended(k, l)
    PROVE  (i < l /\ k < j) <=> \E p \in DOMAIN log : OpenAt(i, p) /\ OpenAt(k, p)
<1>1. DOMAIN log \subseteq Int
  BY DEF LogIsReal
<1>2. ASSUME NEW a \in DOMAIN log, NEW b \in DOMAIN log, Ended(a, b), NEW p \in DOMAIN log
      PROVE  OpenAt(a, p) <=> a <= p /\ p < b
  <2>1. CASE p < b
    <3>1. \A q \in (a + 1)..p : q \in (a + 1)..(b - 1)
      BY <1>1, <2>1
    <3> QED BY <1>1, <1>2, <2>1, <3>1 DEF Ended, OpenAt
  <2>2. CASE b <= p
    <3>1. b \in (a + 1)..p
      BY <1>1, <1>2, <2>2 DEF Ended
    <3> QED BY <1>1, <1>2, <2>2, <3>1 DEF Ended, OpenAt
  <2> QED BY <1>1, <2>1, <2>2
<1>3. i < j /\ k < l
  BY DEF Ended
<1>4. ASSUME i < l, k < j
      PROVE  \E p \in DOMAIN log : OpenAt(i, p) /\ OpenAt(k, p)
  <2>1. CASE i <= k
    BY <1>1, <1>2, <1>3, <1>4, <2>1
  <2>2. CASE k < i
    BY <1>1, <1>2, <1>3, <1>4, <2>2
  <2> QED BY <1>1, <2>1, <2>2
<1>5. ASSUME NEW p \in DOMAIN log, OpenAt(i, p), OpenAt(k, p)
      PROVE  i < l /\ k < j
  <2>1. i <= p /\ p < j /\ k <= p /\ p < l
    BY <1>2, <1>5
  <2> QED BY <1>1, <2>1
<1> QED BY <1>4, <1>5

LEMMA CompletedIs ==
    ASSUME LogIsReal, EndsAreKnown, NEW call, NEW i
    PROVE  i \in Completed(call) <=>
              /\ i \in DOMAIN log /\ log[i].at = "Enter" /\ log[i].call = call
              /\ \E j \in DOMAIN log : Ended(i, j)
<1>1. Len(log) \in Nat /\ DOMAIN log = 1..Len(log)
  BY DEF LogIsReal
<1>2. ASSUME i \in DOMAIN log, NEW j \in DOMAIN log, Ended(i, j) PROVE ~OpenAt(i, Len(log))
  <2>1. j \in (i + 1)..Len(log)
    BY <1>1, <1>2 DEF Ended
  <2> QED BY <1>2, <2>1 DEF Ended, OpenAt
<1>3. i \in DOMAIN log /\ log[i].at = "Enter" /\ ~OpenAt(i, Len(log)) => \E j \in DOMAIN log : Ended(i, j)
  BY DEF EndsAreKnown
<1> QED BY <1>2, <1>3 DEF Completed

\* What the scan reports, when the threads of u have lost their tags.
Seen(u, call1, call2) ==
    {m \in Completed(call1) \X Completed(call2) :
        /\ log[m[1]].tid # log[m[2]].tid
        /\ Tag(u, log[m[1]].tid, log[m[1]].on) = Tag(u, log[m[2]].tid, log[m[2]].on)
        /\ \E p \in DOMAIN log : OpenAt(m[1], p) /\ OpenAt(m[2], p)}

LEMMA SpanIs ==
    ASSUME NEW u, NEW i, NEW j
    PROVE  /\ Span(u, i, j).call = log[i].call /\ Span(u, i, j).tid = log[i].tid
           /\ Span(u, i, j).fs = Tag(u, log[i].tid, log[i].on)
           /\ Span(u, i, j).a = i /\ Span(u, i, j).b = j
BY DEF Span

LEMMA HitsAreSeen ==
    ASSUME LogIsReal, PairsInv, NEW u \in SUBSET Tids, NEW call1, NEW call2
    PROVE  LET of(call) == {x \in Intervals(Printed(u)) : x.call = call} IN
           Begins(Hits(of(call1), of(call2))) = Seen(u, call1, call2)
<1> DEFINE of(call) == {x \in Intervals(Printed(u)) : x.call = call}
           hits == Hits(of(call1), of(call2))
<1>1. \A x : x \in Intervals(Printed(u)) <=>
         \E i, j \in DOMAIN log : log[i].at = "Enter" /\ Ended(i, j) /\ x = Span(u, i, j)
  BY DEF PairsInv, PairsAreReal, Paired, Intervals
<1>2. ASSUME NEW call, NEW x
      PROVE  x \in of(call) <=>
               \E i, j \in DOMAIN log : /\ log[i].at = "Enter" /\ Ended(i, j) /\ log[i].call = call
                                        /\ x = Span(u, i, j)
  BY <1>1, SpanIs
<1>3. \A h : h \in hits <=> /\ h \in of(call1) \X of(call2) /\ h[2].tid # h[1].tid /\ h[1].fs = h[2].fs
                            /\ h[1].a < h[2].b /\ h[2].a < h[1].b
  BY DEF Hits, Overlaps
<1> DEFINE Meet(i, k) == /\ log[i].tid # log[k].tid
                         /\ Tag(u, log[i].tid, log[i].on) = Tag(u, log[k].tid, log[k].on)
                         /\ \E p \in DOMAIN log : OpenAt(i, p) /\ OpenAt(k, p)
<1>4. ASSUME NEW h \in hits PROVE <<h[1].a, h[2].a>> \in Seen(u, call1, call2)
  <2>1. h[1] \in of(call1) /\ h[2] \in of(call2)
    BY <1>3, <1>4
  <2> HIDE DEF of
  <2>2. PICK i, j \in DOMAIN log : /\ log[i].at = "Enter" /\ Ended(i, j) /\ log[i].call = call1
                                   /\ h[1] = Span(u, i, j)
    BY <1>2, <2>1
  <2>3. PICK k, l \in DOMAIN log : /\ log[k].at = "Enter" /\ Ended(k, l) /\ log[k].call = call2
                                   /\ h[2] = Span(u, k, l)
    BY <1>2, <2>1
  <2>4. /\ h[1].tid = log[i].tid /\ h[1].fs = Tag(u, log[i].tid, log[i].on) /\ h[1].a = i /\ h[1].b = j
        /\ h[2].tid = log[k].tid /\ h[2].fs = Tag(u, log[k].tid, log[k].on) /\ h[2].a = k /\ h[2].b = l
    BY <2>2, <2>3, SpanIs
  <2>5. i < l /\ k < j /\ log[i].tid # log[k].tid
        /\ Tag(u, log[i].tid, log[i].on) = Tag(u, log[k].tid, log[k].on)
    BY <1>3, <1>4, <2>4
  <2>6. Meet(i, k)
    BY <2>2, <2>3, <2>5, Overlapping
  <2>7. i \in Completed(call1) /\ k \in Completed(call2)
    BY <2>2, <2>3, CompletedIs DEF PairsInv
  <2>8. <<i, k>> \in Seen(u, call1, call2)
    BY <2>6, <2>7 DEF Seen
  <2> QED BY <2>4, <2>8
<1>5. ASSUME NEW m \in Seen(u, call1, call2) PROVE \E h \in hits : m = <<h[1].a, h[2].a>>
  <2>1. PICK i \in Completed(call1), k \in Completed(call2) : m = <<i, k>> /\ Meet(i, k)
    BY DEF Seen
  <2>2. PICK j \in DOMAIN log : i \in DOMAIN log /\ log[i].at = "Enter" /\ log[i].call = call1 /\ Ended(i, j)
    BY CompletedIs DEF PairsInv
  <2>3. PICK l \in DOMAIN log : k \in DOMAIN log /\ log[k].at = "Enter" /\ log[k].call = call2 /\ Ended(k, l)
    BY CompletedIs DEF PairsInv
  <2>4. i < l /\ k < j
    BY <2>1, <2>2, <2>3, Overlapping
  <2>5. PICK x, y : x = Span(u, i, j) /\ y = Span(u, k, l)
    OBVIOUS
  <2>6. x \in of(call1) /\ y \in of(call2)
    <3> HIDE DEF of
    <3> QED BY <1>2, <2>2, <2>3, <2>5
  <2>7. /\ x.tid = log[i].tid /\ x.fs = Tag(u, log[i].tid, log[i].on) /\ x.a = i /\ x.b = j
        /\ y.tid = log[k].tid /\ y.fs = Tag(u, log[k].tid, log[k].on) /\ y.a = k /\ y.b = l
    BY <2>5, SpanIs
  <2> HIDE DEF of, hits
  <2>8. <<x, y>> \in of(call1) \X of(call2)
    BY <2>6
  <2>9. <<x, y>> \in hits
    BY <1>3, <2>1, <2>4, <2>7, <2>8
  <2> QED BY <2>1, <2>7, <2>9
<1>6. Begins(hits) = {<<h[1].a, h[2].a>> : h \in hits}
  BY DEF Begins
<1> HIDE DEF hits
<1>7. Begins(hits) = Seen(u, call1, call2)
  BY <1>4, <1>5, <1>6
<1> QED BY <1>7 DEF hits

LEMMA AllTagged ==
    ASSUME LogIsReal
    PROVE  log = Printed({}) /\ \A u : Merge(Printed(u)) = Printed(Tids)
<1>1. Len(log) \in Nat /\ DOMAIN log = 1..Len(log) /\ log = [i \in DOMAIN log |-> log[i]]
  BY DEF LogIsReal
<1>2. \A i \in DOMAIN log : log[i] \in Entries
  BY DEF LogIsReal
<1>3. ASSUME NEW i \in DOMAIN log
      PROVE  /\ Tagged({}, log[i]) = log[i]
             /\ Tagged(Tids, log[i]) = [log[i] EXCEPT !.fs = Unknown]
             /\ \A u : [Tagged(u, log[i]) EXCEPT !.fs = Unknown] = [log[i] EXCEPT !.fs = Unknown]
  <2>1. log[i] \in Entries
    BY <1>2
  <2>2. log[i].tid \in Tids
    BY <2>1 DEF Entries
  <2>3. Tagged({}, log[i]) = log[i]
    BY <2>1 DEF Tagged, Entries
  <2>4. Tagged(Tids, log[i]) = [log[i] EXCEPT !.fs = Unknown]
    BY <2>2 DEF Tagged
  <2>5. \A u : [Tagged(u, log[i]) EXCEPT !.fs = Unknown] = [log[i] EXCEPT !.fs = Unknown]
    BY <2>1 DEF Tagged, Entries
  <2> QED BY <2>3, <2>4, <2>5
<1>4. \A u : Printed(u) = [i \in DOMAIN log |-> Tagged(u, log[i])]
  BY DEF Printed, Tagged
<1>5. log = Printed({})
  BY <1>1, <1>3, <1>4
<1>6. ASSUME NEW u PROVE Merge(Printed(u)) = Printed(Tids)
  <2> DEFINE p == Printed(u)
  <2>1. DOMAIN p = DOMAIN log /\ \A i \in DOMAIN log : p[i] = Tagged(u, log[i])
    BY <1>4
  <2>2. Merge(p) = [i \in DOMAIN p |-> [p[i] EXCEPT !.fs = Unknown]]
    BY DEF Merge
  <2> HIDE DEF p
  <2>3. \A i \in DOMAIN log : [p[i] EXCEPT !.fs = Unknown] = Tagged(Tids, log[i])
    <3> SUFFICES ASSUME NEW i \in DOMAIN log
                 PROVE  [p[i] EXCEPT !.fs = Unknown] = Tagged(Tids, log[i])
      OBVIOUS
    <3>1. p[i] = Tagged(u, log[i])
      BY <2>1
    <3>2. [Tagged(u, log[i]) EXCEPT !.fs = Unknown] = Tagged(Tids, log[i])
      BY <1>3
    <3> QED BY <3>1, <3>2
  <2>4. Merge(p) = Printed(Tids)
    BY <1>4, <2>1, <2>2, <2>3
  <2> QED BY <2>4 DEF p
<1> QED BY <1>5, <1>6

LEMMA OnlyItsOwn ==
    ASSUME LogIsReal, NEW f
    PROVE  \A k \in DOMAIN On(f) : On(f)[k].on = f
<1> DEFINE P == {i \in DOMAIN log : log[i].on = f}
<1>1. P \in SUBSET Int /\ IsFiniteSet(P) /\ \A i \in P : log[i] \in Entries
  <2>1. P \in SUBSET (1..Len(log)) /\ Len(log) \in Nat /\ \A i \in P : log[i] \in Entries
    BY DEF LogIsReal
  <2> QED BY <2>1, IntervalCount, FS_Subset
<1>2. \A i \in P : log[i].on = f
  OBVIOUS
<1>3. On(f) = Pick(log, P)
  BY DEF On
<1> HIDE DEF P
<1>4. /\ \A k \in DOMAIN Pick(log, P) : Ascending(P)[k] \in P /\ Pick(log, P)[k] = log[Ascending(P)[k]]
      /\ \A i \in P : \E k \in DOMAIN Pick(log, P) : Pick(log, P)[k] = log[i]
  <2>1. P \in SUBSET Int /\ IsFiniteSet(P)
    BY <1>1
  <2>2. TakenFrom(Pick(log, P), log, P)
    BY <2>1, PickTakes
  <2> QED BY <2>2, Zenon DEF TakenFrom
<1>5. \A k \in DOMAIN Pick(log, P) : Pick(log, P)[k].on = f
  BY <1>2, <1>4
<1> QED BY <1>3, <1>5

\* The scan reports the frees that met another thread's zero tracking or worker,
\* and no others; lost tags make it miss some, and merging brings them back.
THEOREM FreeWindowsExact == Spec => []FreeWindowsAreExact
<1> DEFINE Inv == LogIsReal /\ CallsInv /\ PairsInv
<1>1. Init => Inv
  BY CallsInit, PairsInit
<1>2. ASSUME Inv, Next PROVE Inv'
  BY <1>2, CallsStep, PairsStep
<1>3. ASSUME Inv, UNCHANGED vars PROVE Inv'
  <2>1. (LogIsReal /\ CallsInv)'
    BY <1>3, TracesStutter
  <2>2. \A u : Paired(u)' = Paired(u)
    BY <1>3 DEF Paired, Printed, vars
  <2>3. EndsAreKnown'
    BY <1>3 DEF PairsInv, EndsAreKnown, Ended, OpenAt, vars
  <2>4. \A u : /\ OpenIsReal(u)' <=> OpenIsReal(u)
               /\ PairsAreReal(u)' <=> PairsAreReal(u)
    BY <1>3, <2>2 DEF OpenIsReal, PairsAreReal, Ended, OpenAt, Span, vars
  <2> QED BY <1>3, <2>1, <2>2, <2>3, <2>4 DEF PairsInv
<1>4. ASSUME Inv PROVE FreeWindowsAreExact
  <2> DEFINE free == "FreeQgroupConfig"
             iter == "RescanZeroTracking"
             worker == "RescanWorker"
  <2>1. ASSUME NEW u \in SUBSET Tids
        PROVE  /\ Begins(Windows(Printed(u)).free_vs_iter) = Seen(u, free, iter)
               /\ Begins(Windows(Printed(u)).free_vs_worker) = Seen(u, free, worker)
    <3> DEFINE of(call) == {x \in Intervals(Printed(u)) : x.call = call}
    <3>1. /\ Windows(Printed(u)).free_vs_iter = Hits(of(free), of(iter))
          /\ Windows(Printed(u)).free_vs_worker = Hits(of(free), of(worker))
      BY DEF Windows
    <3>2. /\ Begins(Hits(of(free), of(iter))) = Seen(u, free, iter)
          /\ Begins(Hits(of(free), of(worker))) = Seen(u, free, worker)
      BY <1>4, HitsAreSeen
    <3> HIDE DEF of
    <3> QED BY <3>1, <3>2
  <2>2. log = Printed({}) /\ \A u : Merge(Printed(u)) = Printed(Tids)
    BY <1>4, AllTagged
  <2>3. ASSUME NEW call1, NEW call2 PROVE Seen({}, call1, call2) = Met(call1, call2)
    BY DEF Seen, Met, Tag
  <2>4. /\ Begins(Windows(log).free_vs_iter) = Met(free, iter)
        /\ Begins(Windows(log).free_vs_worker) = Met(free, worker)
    <3>1. {} \in SUBSET Tids
      OBVIOUS
    <3>2. /\ Begins(Windows(Printed({})).free_vs_iter) = Met(free, iter)
          /\ Begins(Windows(Printed({})).free_vs_worker) = Met(free, worker)
      BY <2>1, <2>3, <3>1
    <3> QED BY <2>2, <3>2
  <2>5. ASSUME OneFileSystem, NEW u \in SUBSET TraceTids
        PROVE  LET split  == Begins(Windows(Printed(u)).free_vs_worker)
                   merged == Begins(Windows(Merge(Printed(u))).free_vs_worker)
               IN  split \subseteq merged /\ merged = Met(free, worker)
    <3>1. u \in SUBSET Tids
      <4>1. \A i \in DOMAIN log : log[i].tid \in Tids
        <5>1. \A i \in DOMAIN log : log[i] \in Entries
          BY <1>4 DEF LogIsReal
        <5> QED BY <5>1 DEF Entries
      <4> QED BY <4>1 DEF ToSet, TraceTids
    <3>2. PICK f \in FileSystems : log = On(f)
      BY <2>5 DEF OneFileSystem
    <3>3. \A i \in DOMAIN log : log[i].on = f
      <4>1. \A i \in DOMAIN On(f) : On(f)[i].on = f
        BY <1>4, OnlyItsOwn
      <4> QED BY <3>2, <4>1
    <3>4. \A call : \A i \in Completed(call) : i \in DOMAIN log
      BY DEF Completed
    <3>5. Seen(Tids, free, worker) = Met(free, worker)
      <4>1. \A i \in DOMAIN log : Tag(Tids, log[i].tid, log[i].on) = Unknown
        <5>1. \A i \in DOMAIN log : log[i] \in Entries
          BY <1>4 DEF LogIsReal
        <5> QED BY <5>1 DEF Tag, Entries
      <4> QED BY <3>3, <3>4, <4>1 DEF Seen, Met
    <3>6. Seen(u, free, worker) \subseteq Met(free, worker)
      BY <3>3, <3>4 DEF Seen, Met
    <3>7. Tids \in SUBSET Tids
      OBVIOUS
    <3>8. /\ Begins(Windows(Printed(u)).free_vs_worker) = Seen(u, free, worker)
          /\ Begins(Windows(Printed(Tids)).free_vs_worker) = Seen(Tids, free, worker)
      BY <2>1, <3>1, <3>7
    <3>9. Merge(Printed(u)) = Printed(Tids)
      BY <2>2
    <3> QED BY <3>5, <3>6, <3>8, <3>9
  <2> QED BY <2>4, <2>5 DEF FreeWindowsAreExact
<1>5. Inv /\ [Next]_vars => Inv'
  BY <1>2, <1>3
<1> QED BY <1>1, <1>4, <1>5, PTL DEF Spec

-----------------------------------------------------------------------------
(* The judge along a trace in program order.                               *)

JudgeAt(a, k) == FoldLeft(Follow, Quiet(0), SubSeq(a, 1, k))

LEMMA JudgeSteps ==
    ASSUME NEW a \in Seq(TaskEvents)
    PROVE  /\ JudgeAt(a, 0) = Quiet(0)
           /\ \A k \in 0..Len(a) : JudgeAt(a, k) \in Judged
           /\ \A k \in 1..Len(a) : JudgeAt(a, k) = Follow(JudgeAt(a, k - 1), a[k]) /\ a[k] \in TaskEvents
<1>1. SubSeq(a, 1, 0) = <<>> /\ Len(a) \in Nat
  OBVIOUS
<1>2. JudgeAt(a, 0) = Quiet(0)
  BY <1>1, QuietType, FollowNone DEF JudgeAt
<1>3. ASSUME NEW k \in 1..Len(a)
      PROVE  JudgeAt(a, k) = Follow(JudgeAt(a, k - 1), a[k]) /\ a[k] \in TaskEvents
  <2>1. /\ SubSeq(a, 1, k - 1) \in Seq(TaskEvents) /\ a[k] \in TaskEvents
        /\ SubSeq(a, 1, k) = Append(SubSeq(a, 1, k - 1), a[k])
    BY PrefixGrows
  <2> QED BY <2>1, QuietType, FollowAppend DEF JudgeAt
<1> DEFINE T == {k \in 0..Len(a) : JudgeAt(a, k) \in Judged}
<1>4. 0 \in T
  BY <1>1, <1>2, QuietType
<1>5. ASSUME NEW k \in 0..(Len(a) - 1), k \in T PROVE k + 1 \in T
  <2>1. k + 1 \in 1..Len(a) /\ (k + 1) - 1 = k /\ k + 1 \in 0..Len(a)
    BY <1>1
  <2>2. JudgeAt(a, k + 1) = Follow(JudgeAt(a, k), a[k + 1]) /\ a[k + 1] \in TaskEvents
    BY <1>3, <2>1
  <2>3. JudgeAt(a, k) \in Judged
    BY <1>5
  <2> QED BY <2>1, <2>2, <2>3, FollowType
<1>6. 0..Len(a) \subseteq T
  <2> HIDE DEF T
  <2> QED BY <1>1, <1>4, <1>5, PositionsBySuccession
<1> QED BY <1>2, <1>3, <1>6

\* Each event is one the judge lets pass.
Passes(a) ==
    \A k \in 1..Len(a) :
        /\ JudgeAt(a, k - 1) \in Judged /\ JudgeAt(a, k) \in Judged /\ a[k] \in TaskEvents
        /\ Accepts(JudgeAt(a, k - 1), a[k])
        /\ JudgeAt(a, k) = After(JudgeAt(a, k - 1), a[k])

LEMMA InOrderPasses ==
    ASSUME NEW a \in Seq(TaskEvents), InOrder(a)
    PROVE  Passes(a) /\ \A k \in 0..Len(a) : JudgeAt(a, k).ok
<1> DEFINE n == Len(a)
           T == {k \in 0..n : JudgeAt(a, n - k).ok}
<1>1. n \in Nat /\ JudgeAt(a, n).ok
  <2>1. SubSeq(a, 1, Len(a)) = a
    OBVIOUS
  <2>2. JudgeAt(a, Len(a)) = FoldLeft(Follow, Quiet(0), a)
    BY <2>1, Zenon DEF JudgeAt
  <2>3. JudgeAt(a, Len(a)).ok
    BY <2>2, Zenon DEF InOrder
  <2> QED BY <2>3
<1>2. /\ \A k \in 0..n : JudgeAt(a, k) \in Judged
      /\ \A k \in 1..n : JudgeAt(a, k) = Follow(JudgeAt(a, k - 1), a[k]) /\ a[k] \in TaskEvents
  BY JudgeSteps
<1> HIDE DEF n
<1>3. 0 \in T
  BY <1>1
<1>4. ASSUME NEW k \in 1..n, JudgeAt(a, k).ok
      PROVE  /\ JudgeAt(a, k - 1).ok /\ Accepts(JudgeAt(a, k - 1), a[k])
             /\ JudgeAt(a, k) = After(JudgeAt(a, k - 1), a[k])
  <2>1. k - 1 \in 0..n
    BY <1>1
  <2>2. PICK c : c = JudgeAt(a, k - 1) /\ c \in Judged
    BY <1>2, <2>1
  <2>3. PICK e : e = a[k]
    OBVIOUS
  <2>4. JudgeAt(a, k) = Follow(c, e)
    BY <1>2, <2>2, <2>3
  <2>5. c.ok /\ Accepts(c, e)
    <3>1. ~(c.ok /\ Accepts(c, e)) => Follow(c, e) = [c EXCEPT !.ok = FALSE]
      BY DEF Follow
    <3>2. [c EXCEPT !.ok = FALSE].ok = FALSE
      BY <2>2 DEF Judged
    <3>3. Follow(c, e).ok
      BY <1>4, <2>4
    <3> QED BY <3>1, <3>2, <3>3
  <2>6. Follow(c, e) = After(c, e)
    BY <2>5 DEF Follow
  <2> QED BY <2>2, <2>3, <2>4, <2>5, <2>6
<1>5. ASSUME NEW k \in 0..(n - 1), k \in T PROVE k + 1 \in T
  <2>1. n - k \in 1..n /\ (n - k) - 1 = n - (k + 1) /\ k + 1 \in 0..n
    BY <1>1
  <2>2. JudgeAt(a, n - k).ok
    BY <1>5
  <2>3. JudgeAt(a, n - (k + 1)).ok
    BY <1>4, <2>1, <2>2
  <2> QED BY <2>1, <2>3
<1>6. 0..n \subseteq T
  <2> HIDE DEF T
  <2> QED BY <1>1, <1>3, <1>5, PositionsBySuccession
<1>7. ASSUME NEW k \in 0..n PROVE JudgeAt(a, k).ok
  <2>1. n - k \in 0..n /\ n - (n - k) = k
    BY <1>1
  <2>2. n - k \in T
    BY <1>6, <2>1
  <2> QED BY <2>1, <2>2
<1>8. \A k \in 1..n : k \in 0..n /\ k - 1 \in 0..n
  BY <1>1
<1>9. \A k \in 1..n :
        /\ JudgeAt(a, k - 1) \in Judged /\ JudgeAt(a, k) \in Judged /\ a[k] \in TaskEvents
        /\ Accepts(JudgeAt(a, k - 1), a[k])
        /\ JudgeAt(a, k) = After(JudgeAt(a, k - 1), a[k])
  BY <1>2, <1>4, <1>7, <1>8
<1> QED BY <1>7, <1>9 DEF Passes, n

LEMMA PrefixInOrder ==
    ASSUME NEW a \in Seq(TaskEvents), InOrder(a), NEW n \in 0..Len(a)
    PROVE  InOrder(SubSeq(a, 1, n))
<1>1. JudgeAt(a, n).ok
  BY InOrderPasses
<1> QED BY <1>1 DEF JudgeAt, InOrder

-----------------------------------------------------------------------------
(* What a task is in: nothing, a call, or a call in a call.                *)

In(c, t, calls) == c.open[t] = calls

Shape(c, t) ==
    \/ In(c, t, <<>>)
    \/ \E call1 \in Calls : In(c, t, <<call1>>)
    \/ t \in Threads /\ \E pair \in Nested : In(c, t, <<pair[1], pair[2]>>)

\* A call that is in no other.
Outermost(c, t, call) ==
    \/ t = Scanner /\ call = "RescanWorker" /\ c.pending > 0
    \/ t \in Threads /\ call \in Ioctls /\ ~TearingDown(c)
    \/ t \in c.closing /\ call = "FreeQgroupConfig"

\* An event that the judge lets pass, by what the task is in.
StepCases(c, e, d) ==
    \/ /\ e.at = "Enter" /\ In(c, e.task, <<>>) /\ In(d, e.task, <<e.call>>)
       /\ Outermost(c, e.task, e.call)
    \/ /\ e.at = "Enter" /\ e.task \in Threads
       /\ \E call1 \in Calls : /\ <<call1, e.call>> \in Nested /\ In(c, e.task, <<call1>>)
                               /\ In(d, e.task, <<call1, e.call>>)
    \/ /\ e.at = "Done" /\ In(c, e.task, <<e.call>>) /\ In(d, e.task, <<>>)
    \/ /\ e.at = "Done" /\ e.task \in Threads
       /\ \E call1 \in Calls : /\ <<call1, e.call>> \in Nested /\ In(c, e.task, <<call1, e.call>>)
                               /\ In(d, e.task, <<call1>>)

LEMMA NestedIs ==
    ASSUME NEW call1, NEW call2, <<call1, call2>> \in Nested
    PROVE  /\ call1 \in {"QuotaEnable", "QgroupRescan", "QuotaDisable"} /\ call1 \in Calls
           /\ call2 \in Inner /\ call1 # call2 /\ call2 \in Calls /\ call2 \notin Ioctls
           /\ call2 = "FreeQgroupConfig" <=> call1 = "QuotaDisable"
           /\ call1 \in Ioctls
BY DEF Nested, Inner, Calls, Ioctls, QuotaCtl

LEMMA AfterMoves ==
    ASSUME NEW c \in Judged, NEW e \in TaskEvents, NEW d, d = After(c, e)
    PROVE  /\ d.open[e.task] = IF e.at = "Enter" THEN Append(c.open[e.task], e.call)
                               ELSE Front(c.open[e.task])
           /\ \A u \in AnyTask \ {e.task} : d.open[u] = c.open[u]
           /\ d.closing = Closing(c, e)
           /\ d.pending = CASE e.call = "RescanZeroTracking" /\ e.at # "Enter" -> c.pending + 1
                             [] e.call = "RescanWorker" /\ e.at = "Enter" -> c.pending - 1
                             [] e.call = "FreeQgroupConfig" /\ e.at # "Enter" /\ e.task \in c.closing -> 0
                             [] OTHER -> c.pending
<1>1. e.task \in AnyTask /\ DOMAIN c.open = AnyTask
  BY DEF TaskEvents, Judged
<1>2. d.open = [c.open EXCEPT ![e.task] = IF e.at = "Enter" THEN Append(@, e.call) ELSE Front(@)]
  BY DEF After
<1>3. d.closing = Closing(c, e)
  BY DEF After
<1>4. d.pending = CASE e.call = "RescanZeroTracking" /\ e.at # "Enter" -> c.pending + 1
                             [] e.call = "RescanWorker" /\ e.at = "Enter" -> c.pending - 1
                             [] e.call = "FreeQgroupConfig" /\ e.at # "Enter" /\ e.task \in c.closing -> 0
                             [] OTHER -> c.pending
  BY DEF After
<1> QED BY <1>1, <1>2, <1>3, <1>4

LEMMA StepIs ==
    ASSUME NEW c \in Judged, NEW e \in TaskEvents, NEW d, d = After(c, e),
           Accepts(c, e), Shape(c, e.task)
    PROVE  StepCases(c, e, d) /\ Shape(d, e.task)
<1> PICK t, call : t = e.task /\ call = e.call
  OBVIOUS
<1>1. d.open[t] = IF e.at = "Enter" THEN Append(c.open[t], call) ELSE Front(c.open[t])
  BY AfterMoves
<1>2. e.at \in Sides /\ call \in Calls
  BY DEF TaskEvents
<1>3. CASE In(c, t, <<>>)
  <2>1. e.at = "Enter" /\ MayEnter(c, t, call)
    BY <1>2, <1>3 DEF Accepts, In, Sides
  <2>2. Outermost(c, t, call)
    <3>1. Len(c.open[t]) # 1
      BY <1>3 DEF In
    <3> QED BY <2>1, <3>1 DEF MayEnter, Outermost
  <2>3. In(d, t, <<call>>)
    BY <1>1, <1>3, <2>1, OneCall DEF In
  <2> QED BY <1>2, <1>3, <2>1, <2>2, <2>3 DEF StepCases, Shape
<1>4. ASSUME NEW call1 \in Calls, In(c, t, <<call1>>) PROVE StepCases(c, e, d) /\ Shape(d, t)
  <2>0. c.open[t] # <<>> /\ c.open[t][1] = call1 /\ Last(c.open[t]) = call1
    BY <1>4, OneCall DEF In
  <2>1. CASE e.at = "Enter"
    <3>1. MayEnter(c, t, call)
      BY <2>1 DEF Accepts
    <3>2. t \in Threads /\ <<call1, call>> \in Nested
      BY <2>0, <3>1 DEF MayEnter
    <3>3. In(d, t, <<call1, call>>)
      BY <1>1, <1>4, <2>1, TwoCalls DEF In
    <3>4. PICK pair \in Nested : pair = <<call1, call>>
      BY <3>2
    <3>5. In(d, t, <<pair[1], pair[2]>>)
      BY <3>3, <3>4
    <3> QED BY <1>4, <2>1, <3>2, <3>3, <3>5 DEF StepCases, Shape
  <2>2. CASE e.at # "Enter"
    <3>1. e.at = "Done" /\ call1 = call
      BY <1>2, <2>0, <2>2 DEF Accepts, Sides
    <3>2. In(d, t, <<>>)
      BY <1>1, <1>4, <2>2, OneCall DEF In
    <3> QED BY <1>4, <3>1, <3>2 DEF StepCases, Shape
  <2> QED BY <2>1, <2>2
<1>5. ASSUME t \in Threads, NEW pair \in Nested, In(c, t, <<pair[1], pair[2]>>)
      PROVE  StepCases(c, e, d) /\ Shape(d, t)
  <2> PICK call1, call2 : call1 = pair[1] /\ call2 = pair[2]
    OBVIOUS
  <2>1. <<call1, call2>> \in Nested
    BY DEF Nested
  <2>2. In(c, t, <<call1, call2>>)
    BY <1>5
  <2>3. c.open[t] # <<>> /\ Len(c.open[t]) = 2 /\ Last(c.open[t]) = call2 /\ Front(c.open[t]) = <<call1>>
    <3>1. c.open[t] = <<call1, call2>>
      BY <2>2 DEF In
    <3>2. /\ <<call1, call2>> # <<>> /\ Len(<<call1, call2>>) = 2
          /\ Last(<<call1, call2>>) = call2 /\ Front(<<call1, call2>>) = <<call1>>
      BY TwoCalls, Zenon
    <3> QED BY <3>1, <3>2, Zenon
  <2>4. e.at = "Done" /\ call2 = call
    <3>1. ~MayEnter(c, t, call)
      BY <2>3 DEF MayEnter
    <3> QED BY <1>2, <2>3, <3>1 DEF Accepts, Sides
  <2>5. In(d, t, <<call1>>)
    BY <1>1, <2>3, <2>4 DEF In
  <2>6. call1 \in Calls
    BY <2>1, NestedIs
  <2> QED BY <1>5, <2>1, <2>2, <2>4, <2>5, <2>6 DEF StepCases, Shape
<1> QED BY <1>3, <1>4, <1>5 DEF Shape

-----------------------------------------------------------------------------
(* What is so at each place of a trace in program order.                   *)

\* Who may end an unmount is alone, and in a wait or a free at most.
ClosesAlone(c) ==
    \A t \in c.closing :
        /\ t \in Threads /\ c.closing = {t}
        /\ In(c, t, <<>>) \/ In(c, t, <<"WaitRescanCompletion">>) \/ In(c, t, <<"FreeQgroupConfig">>)
        /\ \A u \in Threads \ {t} : In(c, u, <<>>)

\* The last event of a thread up to a place.
LastOf(a, k, t, at, call) ==
    \E l \in 1..k : /\ a[l] = [task |-> t, call |-> call, at |-> at]
                    /\ \A p \in (l + 1)..k : a[p].task # t

Waited(a, k, t) == LastOf(a, k, t, "Done", "WaitRescanCompletion")

PlaceInv(a, k) ==
    LET c == JudgeAt(a, k) IN
    /\ \A t \in AnyTask : Shape(c, t)
    /\ In(c, Scanner, <<>>) \/ In(c, Scanner, <<"RescanWorker">>)
    /\ c.pending >= 0
    /\ ClosesAlone(c)
    /\ \A t \in c.closing : In(c, t, <<>>) => Waited(a, k, t)

LEMMA InsAreDistinct ==
    ASSUME NEW c, NEW t
    PROVE  /\ \A p : ~(In(c, t, <<>>) /\ In(c, t, <<p>>))
           /\ \A p, q : ~(In(c, t, <<>>) /\ In(c, t, <<p, q>>))
           /\ \A p, q : In(c, t, <<p>>) /\ In(c, t, <<q>>) => p = q
           /\ \A p, q, r : ~(In(c, t, <<p>>) /\ In(c, t, <<q, r>>))
           /\ \A p, q, r, s : In(c, t, <<p, q>>) /\ In(c, t, <<r, s>>) => p = r /\ q = s
<1>1. \A p : <<p>> # <<>> /\ Len(<<p>>) = 1
  BY OneCall
<1>2. \A p, q : <<p, q>> # <<>> /\ Len(<<p, q>>) = 2
  BY TwoCalls
<1>3. \A p, q : <<p>> = <<q>> => p = q
  OBVIOUS
<1>4. \A p, q, r, s : <<p, q>> = <<r, s>> => p = r /\ q = s
  OBVIOUS
<1>5. \A p, q, r : <<p>> # <<q, r>>
  BY <1>1, <1>2
<1>6. \A p : ~(In(c, t, <<>>) /\ In(c, t, <<p>>))
  BY <1>1 DEF In
<1>7. \A p, q : ~(In(c, t, <<>>) /\ In(c, t, <<p, q>>))
  BY <1>2 DEF In
<1>8. \A p, q : In(c, t, <<p>>) /\ In(c, t, <<q>>) => p = q
  BY <1>3 DEF In
<1>9. \A p, q, r : ~(In(c, t, <<p>>) /\ In(c, t, <<q, r>>))
  BY <1>5 DEF In
<1>10. \A p, q, r, s : In(c, t, <<p, q>>) /\ In(c, t, <<r, s>>) => p = r /\ q = s
  BY <1>4 DEF In
<1> QED BY <1>6, <1>7, <1>8, <1>9, <1>10

LEMMA FromNone ==
    ASSUME NEW c, NEW e, NEW d, StepCases(c, e, d), In(c, e.task, <<>>)
    PROVE  e.at = "Enter" /\ In(d, e.task, <<e.call>>) /\ Outermost(c, e.task, e.call)
BY InsAreDistinct, Zenon DEF StepCases

LEMMA FromOne ==
    ASSUME NEW c, NEW e, NEW d, StepCases(c, e, d), NEW p, In(c, e.task, <<p>>)
    PROVE  \/ e.at = "Enter" /\ <<p, e.call>> \in Nested /\ In(d, e.task, <<p, e.call>>)
           \/ e.at = "Done" /\ e.call = p /\ In(d, e.task, <<>>)
<1>1. /\ ~In(c, e.task, <<>>) /\ \A q, r : ~In(c, e.task, <<q, r>>)
      /\ \A q : In(c, e.task, <<q>>) => q = p
  BY InsAreDistinct, Zenon
<1> QED BY <1>1, Zenon DEF StepCases

LEMMA FromTwo ==
    ASSUME NEW c, NEW e, NEW d, StepCases(c, e, d), NEW p, NEW q, In(c, e.task, <<p, q>>)
    PROVE  e.at = "Done" /\ e.call = q /\ <<p, q>> \in Nested /\ In(d, e.task, <<p>>)
<1>1. /\ ~In(c, e.task, <<>>) /\ \A r : ~In(c, e.task, <<r>>)
      /\ \A r, s : In(c, e.task, <<r, s>>) => r = p /\ s = q
  BY InsAreDistinct, Zenon
<1> QED BY <1>1, Zenon DEF StepCases

LEMMA ScannerStep ==
    ASSUME NEW c \in Judged, NEW e \in TaskEvents, NEW d, StepCases(c, e, d), ClosesAlone(c),
           e.task # Scanner => d.open[Scanner] = c.open[Scanner],
           In(c, Scanner, <<>>) \/ In(c, Scanner, <<"RescanWorker">>)
    PROVE  In(d, Scanner, <<>>) \/ In(d, Scanner, <<"RescanWorker">>)
<1>1. Scanner \notin Threads
  BY ToolsAssumption
<1>2. CASE e.task # Scanner
  BY <1>2 DEF In
<1>3. CASE e.task = Scanner
  <2>1. ASSUME Outermost(c, Scanner, e.call) PROVE e.call = "RescanWorker"
    BY <1>1, <2>1 DEF Outermost, ClosesAlone
  <2> QED BY <1>1, <1>3, <2>1 DEF StepCases
<1> QED BY <1>2, <1>3

LEMMA PendingStep ==
    ASSUME NEW c \in Judged, NEW e \in TaskEvents, NEW d, d = After(c, e), StepCases(c, e, d),
           ClosesAlone(c), c.pending >= 0
    PROVE  d.pending >= 0
<1>1. c.pending \in Int
  BY DEF Judged
<1>2. ASSUME e.call = "RescanWorker", e.at = "Enter" PROVE c.pending > 0
  <2>1. Outermost(c, e.task, e.call)
    <3>1. \A call1 : <<call1, e.call>> \notin Nested
      BY <1>2 DEF Nested
    <3> QED BY <1>2, <3>1 DEF StepCases
  <2> QED BY <1>2, <2>1 DEF Outermost, Ioctls, QuotaCtl
<1>3. d.pending = CASE e.call = "RescanZeroTracking" /\ e.at # "Enter" -> c.pending + 1
                             [] e.call = "RescanWorker" /\ e.at = "Enter" -> c.pending - 1
                             [] e.call = "FreeQgroupConfig" /\ e.at # "Enter" /\ e.task \in c.closing -> 0
                             [] OTHER -> c.pending
  BY AfterMoves
<1> QED BY <1>1, <1>2, <1>3

LEMMA ClosingStep ==
    ASSUME NEW c \in Judged, NEW e \in TaskEvents, NEW d, d = After(c, e), StepCases(c, e, d),
           ClosesAlone(c)
    PROVE  /\ ClosesAlone(d)
           /\ \A t \in d.closing : In(d, t, <<>>) =>
                 \/ e = [task |-> t, call |-> "WaitRescanCompletion", at |-> "Done"]
                 \/ t \in c.closing /\ In(c, t, <<>>) /\ e.task # t
<1> PICK t, call : t = e.task /\ call = e.call
  OBVIOUS
<1>1. d.closing = Closing(c, e) /\ \A u \in AnyTask \ {t} : d.open[u] = c.open[u]
  BY AfterMoves
<1>2. t \in AnyTask /\ Scanner \notin Threads /\ e.at \in Sides
  BY ToolsAssumption DEF TaskEvents
<1>3. Threads \subseteq AnyTask
  BY DEF AnyTask
<1>4. CASE t = Scanner
  <2>1. d.closing = c.closing
    BY <1>1, <1>4 DEF Closing
  <2>2. \A u \in Threads : d.open[u] = c.open[u] /\ u # t
    BY <1>1, <1>2, <1>3, <1>4
  <2> QED BY <2>1, <2>2 DEF ClosesAlone, In
<1>5. CASE t # Scanner /\ e.at = "Enter" /\ call = "WaitRescanCompletion"
  <2>1. d.closing = IF \A u \in Threads : c.open[u] = <<>> THEN {t} ELSE {}
    BY <1>1, <1>5 DEF Closing
  <2>2. ASSUME \A u \in Threads : c.open[u] = <<>>
        PROVE  /\ In(d, t, <<call>>) /\ t \in Threads
               /\ \A u \in Threads \ {t} : In(d, u, <<>>)
    <3>1. t \in Threads
      BY <1>2, <1>5 DEF AnyTask
    <3>2. In(c, t, <<>>)
      BY <2>2, <3>1 DEF In
    <3>3. In(d, t, <<call>>)
      <4>1. ASSUME NEW call1, In(c, t, <<call1>>) PROVE FALSE
        BY <3>2, <4>1, OneCall DEF In
      <4> QED BY <1>5, <4>1 DEF StepCases
    <3> QED BY <1>1, <1>3, <2>2, <3>1, <3>3 DEF In
  <2>3. ~In(d, t, <<>>) \/ d.closing = {}
    BY <2>1, <2>2, OneCall DEF In
  <2> QED BY <1>5, <2>1, <2>2, <2>3 DEF ClosesAlone
<1>6. CASE /\ t # Scanner /\ ~(e.at = "Enter" /\ call = "WaitRescanCompletion")
           /\ c.closing = {t} /\ (In(c, t, <<>>) \/ In(c, t, <<"WaitRescanCompletion">>))
           /\ call \in {"WaitRescanCompletion", "FreeQgroupConfig"}
  <2>1. d.closing = {t}
    BY <1>1, <1>6 DEF Closing, In
  <2>2. t \in Threads /\ \A u \in Threads \ {t} : In(d, u, <<>>)
    BY <1>1, <1>3, <1>6 DEF ClosesAlone, In
  <2>3. CASE In(c, t, <<>>)
    <3>1. \A x : ~In(c, t, <<x>>)
      BY <2>3, OneCall DEF In
    <3>2. \A x, y : ~In(c, t, <<x, y>>)
      BY <2>3, TwoCalls DEF In
    <3>3. e.at = "Enter" /\ In(d, t, <<call>>)
      BY <3>1, <3>2 DEF StepCases
    <3>4. call = "FreeQgroupConfig" /\ ~In(d, t, <<>>)
      BY <1>6, <3>3, OneCall DEF In
    <3> QED BY <2>1, <2>2, <3>3, <3>4 DEF ClosesAlone
  <2>4. CASE In(c, t, <<"WaitRescanCompletion">>)
    <3>1. ~In(c, t, <<>>)
      BY <2>4, OneCall DEF In
    <3>2. \A x, y : ~In(c, t, <<x, y>>)
      BY <2>4, OneCall, TwoCalls DEF In
    <3>3. \A x : In(c, t, <<x>>) => x = "WaitRescanCompletion"
      BY <2>4, OneCall DEF In
    <3>4. \A x : <<"WaitRescanCompletion", x>> \notin Nested
      BY DEF Nested
    <3>5. e.at = "Done" /\ call = "WaitRescanCompletion" /\ In(d, t, <<>>)
      BY <3>1, <3>2, <3>3, <3>4 DEF StepCases
    <3>6. e = [task |-> t, call |-> "WaitRescanCompletion", at |-> "Done"]
      BY <3>5 DEF TaskEvents
    <3> QED BY <2>1, <2>2, <3>5, <3>6 DEF ClosesAlone
  <2> QED BY <1>6, <2>3, <2>4
<1>7. CASE /\ t # Scanner /\ ~(e.at = "Enter" /\ call = "WaitRescanCompletion")
           /\ ~(/\ c.closing = {t} /\ (In(c, t, <<>>) \/ In(c, t, <<"WaitRescanCompletion">>))
                /\ call \in {"WaitRescanCompletion", "FreeQgroupConfig"})
  <2>1. d.closing = {}
    BY <1>1, <1>7 DEF Closing, In
  <2> QED BY <2>1 DEF ClosesAlone
<1> QED BY <1>4, <1>5, <1>6, <1>7

LEMMA PlacesAreSound ==
    ASSUME NEW a \in Seq(TaskEvents), Passes(a)
    PROVE  \A k \in 0..Len(a) : PlaceInv(a, k)
<1> DEFINE n == Len(a)
           T == {k \in 0..n : PlaceInv(a, k)}
<1>1. n \in Nat
  OBVIOUS
<1>2. 0 \in T
  <2> PICK c : c = JudgeAt(a, 0)
    OBVIOUS
  <2>1. c = Quiet(0)
    BY JudgeSteps
  <2>2. c.closing = {} /\ c.pending = 0 /\ \A t \in AnyTask : c.open[t] = <<>>
    BY <2>1 DEF Quiet, AnyTask
  <2>3. Scanner \in AnyTask
    BY DEF AnyTask
  <2>4. PlaceInv(a, 0)
    BY <2>2, <2>3 DEF PlaceInv, Shape, In, ClosesAlone
  <2> QED BY <1>1, <2>4
<1>3. ASSUME NEW k \in 0..(n - 1), k \in T PROVE k + 1 \in T
  <2>1. k + 1 \in 1..n /\ (k + 1) - 1 = k /\ k + 1 \in 0..n /\ k \in 0..n
    BY <1>1
  <2> PICK c, d, e : c = JudgeAt(a, k) /\ d = JudgeAt(a, k + 1) /\ e = a[k + 1]
    OBVIOUS
  <2>2. c \in Judged /\ d \in Judged /\ e \in TaskEvents /\ Accepts(c, e) /\ d = After(c, e)
    BY <2>1 DEF Passes
  <2>3. PlaceInv(a, k)
    BY <1>3
  <2>4. /\ \A t \in AnyTask : Shape(c, t)
        /\ In(c, Scanner, <<>>) \/ In(c, Scanner, <<"RescanWorker">>)
        /\ c.pending >= 0 /\ ClosesAlone(c)
        /\ \A t \in c.closing : In(c, t, <<>>) => Waited(a, k, t)
    BY <2>3 DEF PlaceInv
  <2>5. e.task \in AnyTask /\ Scanner \in AnyTask
    BY <2>2 DEF TaskEvents, AnyTask
  <2>6. StepCases(c, e, d) /\ Shape(d, e.task)
    BY <2>2, <2>4, <2>5, StepIs
  <2>7. \A u \in AnyTask \ {e.task} : d.open[u] = c.open[u]
    BY <2>2, AfterMoves
  <2>8. \A t \in AnyTask : Shape(d, t)
    BY <2>4, <2>6, <2>7 DEF Shape, In
  <2>9. In(d, Scanner, <<>>) \/ In(d, Scanner, <<"RescanWorker">>)
    BY <2>2, <2>4, <2>5, <2>6, <2>7, ScannerStep
  <2>10. d.pending >= 0
    BY <2>2, <2>4, <2>6, PendingStep
  <2>11. /\ ClosesAlone(d)
         /\ \A t \in d.closing : In(d, t, <<>>) =>
                 \/ e = [task |-> t, call |-> "WaitRescanCompletion", at |-> "Done"]
                 \/ t \in c.closing /\ In(c, t, <<>>) /\ e.task # t
    BY <2>2, <2>4, <2>6, ClosingStep
  <2>12. ASSUME NEW t \in d.closing, In(d, t, <<>>) PROVE Waited(a, k + 1, t)
    <3>1. CASE e = [task |-> t, call |-> "WaitRescanCompletion", at |-> "Done"]
      <4>1. k + 1 \in 1..(k + 1) /\ \A p \in ((k + 1) + 1)..(k + 1) : a[p].task # t
        BY <2>1
      <4> QED BY <3>1, <4>1 DEF Waited, LastOf
    <3>2. CASE t \in c.closing /\ In(c, t, <<>>) /\ e.task # t
      <4>1. PICK l \in 1..k : /\ a[l] = [task |-> t, call |-> "WaitRescanCompletion", at |-> "Done"]
                              /\ \A p \in (l + 1)..k : a[p].task # t
        BY <2>4, <3>2 DEF Waited, LastOf
      <4>2. l \in 1..(k + 1) /\ \A p \in (l + 1)..(k + 1) : p \in (l + 1)..k \/ p = k + 1
        BY <2>1
      <4>3. \A p \in (l + 1)..(k + 1) : a[p].task # t
        BY <3>2, <4>1, <4>2
      <4> QED BY <4>1, <4>2, <4>3 DEF Waited, LastOf
    <3> QED BY <2>11, <2>12, <3>1, <3>2
  <2>13. PlaceInv(a, k + 1)
    BY <2>8, <2>9, <2>10, <2>11, <2>12 DEF PlaceInv
  <2> QED BY <2>1, <2>13
<1>4. 0..n \subseteq T
  <2> HIDE DEF T
  <2> QED BY <1>1, <1>2, <1>3, PositionsBySuccession
<1> QED BY <1>4

\* What a task is in stays as it is while others have their events.
LEMMA KeptBetween ==
    ASSUME NEW a \in Seq(TaskEvents), Passes(a), NEW t \in AnyTask,
           NEW k \in 0..Len(a), NEW l \in k..Len(a), \A p \in (k + 1)..l : a[p].task # t
    PROVE  JudgeAt(a, l).open[t] = JudgeAt(a, k).open[t]
<1> DEFINE T == {m \in 0..(l - k) : JudgeAt(a, k + m).open[t] = JudgeAt(a, k).open[t]}
<1>1. k \in Nat /\ l \in Nat /\ l - k \in Nat /\ Len(a) \in Nat
  OBVIOUS
<1>2. 0 \in T
  BY <1>1
<1>3. ASSUME NEW m \in 0..((l - k) - 1), m \in T PROVE m + 1 \in T
  <2> PICK p : p = k + (m + 1)
    OBVIOUS
  <2>1. p \in (k + 1)..l /\ p \in 1..Len(a) /\ p - 1 = k + m /\ m + 1 \in 0..(l - k)
    BY <1>1
  <2> PICK c, d, e : c = JudgeAt(a, p - 1) /\ d = JudgeAt(a, p) /\ e = a[p]
    OBVIOUS
  <2>2. c \in Judged /\ e \in TaskEvents /\ d = After(c, e)
    BY <2>1 DEF Passes
  <2>3. d.open[t] = c.open[t]
    <3>1. t \in AnyTask \ {e.task}
      BY <2>1
    <3> QED BY <2>2, <3>1, AfterMoves
  <2>4. c.open[t] = JudgeAt(a, k).open[t]
    BY <1>3, <2>1
  <2> QED BY <2>1, <2>3, <2>4
<1>4. l - k \in T
  <2>1. 0..(l - k) \subseteq T
    <3> HIDE DEF T
    <3> QED BY <1>1, <1>2, <1>3, PositionsBySuccession
  <2> QED BY <1>1, <2>1
<1> QED BY <1>1, <1>4

LEMMA PassesIs ==
    ASSUME NEW a \in Seq(TaskEvents), Passes(a), NEW k \in 1..Len(a)
    PROVE  /\ StepCases(JudgeAt(a, k - 1), a[k], JudgeAt(a, k))
           /\ a[k] \in TaskEvents /\ a[k].task \in AnyTask
           /\ \A u \in AnyTask \ {a[k].task} : JudgeAt(a, k).open[u] = JudgeAt(a, k - 1).open[u]
<1> PICK c, d, e : c = JudgeAt(a, k - 1) /\ d = JudgeAt(a, k) /\ e = a[k]
  OBVIOUS
<1>1. c \in Judged /\ e \in TaskEvents /\ Accepts(c, e) /\ d = After(c, e)
  BY DEF Passes
<1>2. e.task \in AnyTask /\ k - 1 \in 0..Len(a)
  BY <1>1 DEF TaskEvents
<1>3. Shape(c, e.task)
  BY <1>2, PlacesAreSound DEF PlaceInv
<1>4. StepCases(c, e, d)
  BY <1>1, <1>3, StepIs
<1>5. \A u \in AnyTask \ {e.task} : d.open[u] = c.open[u]
  BY <1>1, AfterMoves
<1> QED BY <1>1, <1>2, <1>4, <1>5

\* Two events of a task follow one another, and the second is let pass in the
\* place of the first: it frees what the first was about to, or what it had.
LEMMA OutOfTurn ==
    ASSUME NEW c, NEW d, NEW g, NEW h, NEW x, NEW y, NEW e1, NEW e2, NEW t,
           e1.task = t, e2.task = t, StepCases(c, e1, d), StepCases(g, e2, h), StepCases(x, e2, y),
           g.open[t] = d.open[t], x.open[t] = c.open[t]
    PROVE  /\ e2.at = "Enter" /\ e2.call = "FreeQgroupConfig" /\ e1.call = "QuotaDisable"
           /\ \/ e1.at = "Enter" /\ In(x, t, <<>>) /\ t \in x.closing
              \/ e1.at = "Done" /\ In(g, t, <<>>) /\ t \in g.closing
<1> PICK call1, call2 : call1 = e1.call /\ call2 = e2.call
  OBVIOUS
<1>1. \A p, q : <<p, q>> \in Nested => p # q
  BY NestedIs
<1>2. \A s : (In(g, t, s) <=> In(d, t, s)) /\ (In(x, t, s) <=> In(c, t, s))
  BY DEF In
<1>3. ASSUME NEW z, NEW p, <<p, call2>> \in Nested, Outermost(z, t, call2)
      PROVE  t \in z.closing /\ call2 = "FreeQgroupConfig" /\ p = "QuotaDisable"
  <2>1. call2 \in Inner /\ call2 \notin Ioctls
    BY <1>3, NestedIs
  <2>2. call2 # "RescanWorker"
    BY <2>1 DEF Inner
  <2> QED BY <1>3, <2>1, <2>2, NestedIs DEF Outermost
<1>4. CASE e1.at = "Enter" /\ In(c, t, <<>>) /\ In(d, t, <<call1>>)
  <2>1. e2.at = "Enter" /\ Outermost(x, t, call2)
    BY <1>2, <1>4, FromNone
  <2>2. <<call1, call2>> \in Nested
    BY <1>2, <1>4, <2>1, FromOne
  <2> QED BY <1>2, <1>3, <1>4, <2>1, <2>2
<1>5. ASSUME e1.at = "Enter", NEW p, <<p, call1>> \in Nested, In(c, t, <<p>>), In(d, t, <<p, call1>>)
      PROVE  FALSE
  <2>1. e2.at = "Done" /\ call2 = call1
    BY <1>2, <1>5, FromTwo
  <2>2. In(x, e2.task, <<p>>) /\ StepCases(x, e2, y)
    BY <1>2, <1>5
  <2>3. (e2.at = "Done" /\ e2.call = p) \/ e2.at = "Enter"
    <3>1. \/ e2.at = "Enter" /\ <<p, e2.call>> \in Nested /\ In(y, e2.task, <<p, e2.call>>)
          \/ e2.at = "Done" /\ e2.call = p /\ In(y, e2.task, <<>>)
      BY <2>2, FromOne
    <3> QED BY <3>1
  <2> QED BY <1>1, <1>5, <2>1, <2>3
<1>6. CASE e1.at = "Done" /\ In(c, t, <<call1>>) /\ In(d, t, <<>>)
  <2>1. e2.at = "Enter" /\ Outermost(g, t, call2)
    BY <1>2, <1>6, FromNone
  <2>2. <<call1, call2>> \in Nested
    BY <1>2, <1>6, <2>1, FromOne
  <2> QED BY <1>2, <1>3, <1>6, <2>1, <2>2
<1>7. ASSUME e1.at = "Done", NEW p, <<p, call1>> \in Nested, In(c, t, <<p, call1>>), In(d, t, <<p>>)
      PROVE  FALSE
  <2>1. e2.at = "Done" /\ call2 = call1
    BY <1>2, <1>7, FromTwo
  <2>2. In(g, e2.task, <<p>>) /\ StepCases(g, e2, h)
    BY <1>2, <1>7
  <2>3. (e2.at = "Done" /\ e2.call = p) \/ e2.at = "Enter"
    <3>1. \/ e2.at = "Enter" /\ <<p, e2.call>> \in Nested /\ In(h, e2.task, <<p, e2.call>>)
          \/ e2.at = "Done" /\ e2.call = p /\ In(h, e2.task, <<>>)
      BY <2>2, FromOne
    <3> QED BY <3>1
  <2> QED BY <1>1, <1>7, <2>1, <2>3
<1> QED BY <1>4, <1>5, <1>6, <1>7 DEF StepCases

\* Two events of a task with none of its own in between.
Following(a, i, j, t) ==
    /\ i \in 1..Len(a) /\ j \in (i + 1)..Len(a) /\ a[i].task = t /\ a[j].task = t
    /\ \A p \in (i + 1)..(j - 1) : a[p].task # t

EnterOf(t, call) == [task |-> t, call |-> call, at |-> "Enter"]

\* The task is in x what it is in at the place k.
InAsAt(x, a, k, t) == x.open[t] = JudgeAt(a, k).open[t]

LEMMA NextOutOfTurn ==
    ASSUME NEW a \in Seq(TaskEvents), Passes(a), NEW i, NEW j, NEW t, Following(a, i, j, t),
           NEW x, NEW y, InAsAt(x, a, i - 1, t), StepCases(x, a[j], y)
    PROVE  /\ a[i] = EnterOf(t, "QuotaDisable") /\ a[j] = EnterOf(t, "FreeQgroupConfig")
           /\ In(x, t, <<>>) /\ t \in x.closing
<1> PICK c, d, g, h : /\ c = JudgeAt(a, i - 1) /\ d = JudgeAt(a, i)
                      /\ g = JudgeAt(a, j - 1) /\ h = JudgeAt(a, j)
  OBVIOUS
<1>0. /\ i \in 1..Len(a) /\ j \in (i + 1)..Len(a) /\ a[i].task = t /\ a[j].task = t
      /\ \A p \in (i + 1)..(j - 1) : a[p].task # t
  BY DEF Following
<1>1. i \in Nat /\ j \in Nat /\ j \in 1..Len(a) /\ i < j /\ j - 1 \in i..Len(a) /\ i \in 0..Len(a)
  BY <1>0
<1>2. StepCases(c, a[i], d) /\ a[i] \in TaskEvents /\ t \in AnyTask
  BY <1>0, PassesIs
<1>3. StepCases(g, a[j], h) /\ a[j] \in TaskEvents
  BY <1>1, PassesIs
<1>4. g.open[t] = d.open[t]
  BY <1>0, <1>1, <1>2, KeptBetween
<1>5. /\ a[j].at = "Enter" /\ a[j].call = "FreeQgroupConfig" /\ a[i].call = "QuotaDisable"
      /\ \/ a[i].at = "Enter" /\ In(x, t, <<>>) /\ t \in x.closing
         \/ a[i].at = "Done" /\ In(g, t, <<>>) /\ t \in g.closing
  <2> PICK e1, e2 : e1 = a[i] /\ e2 = a[j]
    OBVIOUS
  <2>1. x.open[t] = c.open[t]
    BY DEF InAsAt
  <2> QED BY <1>0, <1>2, <1>3, <1>4, <2>1, OutOfTurn
<1>6. ASSUME a[i].at = "Done", In(g, t, <<>>), t \in g.closing PROVE FALSE
  <2>1. j - 1 \in 0..Len(a)
    BY <1>1
  <2>2. Waited(a, j - 1, t)
    BY <1>6, <2>1, PlacesAreSound DEF PlaceInv
  <2>3. PICK l \in 1..(j - 1) : /\ a[l] = [task |-> t, call |-> "WaitRescanCompletion", at |-> "Done"]
                                /\ \A p \in (l + 1)..(j - 1) : a[p].task # t
    BY <2>2 DEF Waited, LastOf
  <2>4. a[l].task = t /\ a[l].call = "WaitRescanCompletion"
    BY <2>3
  <2>5. l = i
    <3>1. ~(l < i)
      BY <1>0, <1>1, <2>3
    <3>2. ~(i < l)
      BY <1>0, <1>1, <2>4
    <3> QED BY <1>1, <3>1, <3>2
  <2> QED BY <1>5, <2>4, <2>5
<1>7. a[i] = EnterOf(t, "QuotaDisable") /\ a[j] = EnterOf(t, "FreeQgroupConfig")
  BY <1>0, <1>2, <1>3, <1>5, <1>6 DEF TaskEvents, EnterOf
<1> QED BY <1>5, <1>6, <1>7

-----------------------------------------------------------------------------
(* A trace with one event swapped, dropped, doubled or moved.              *)

\* Two traces that begin alike are judged alike.
LEMMA SameJudge ==
    ASSUME NEW a \in Seq(TaskEvents), NEW b \in Seq(TaskEvents), NEW n \in Nat, n <= Len(a), n <= Len(b),
           \A k \in 1..n : b[k] = a[k]
    PROVE  JudgeAt(b, n) = JudgeAt(a, n)
<1>1. SubSeq(a, 1, n) = SubSeq(b, 1, n)
  BY SamePrefix
<1> QED BY <1>1, Zenon DEF JudgeAt

LEMMA SwapIsNoticed ==
    ASSUME NEW a \in Seq(TaskEvents), InOrder(a), NEW i, NEW j, NEW t, Following(a, i, j, t),
           NEW b \in Seq(TaskEvents), InOrder(b), i <= Len(b), Len(b) <= Len(a),
           b[i] = a[j], j <= Len(b) => b[j] = a[i],
           \A k \in 1..Len(b) : k \notin {i, j} => b[k] = a[k]
    PROVE  Len(b) < j /\ a[i] = EnterOf(t, "QuotaDisable") /\ Waited(a, i - 1, t)
<1>1. /\ i \in 1..Len(a) /\ j \in (i + 1)..Len(a) /\ a[i].task = t /\ a[j].task = t
      /\ \A p \in (i + 1)..(j - 1) : a[p].task # t
  BY DEF Following
<1>2. /\ i \in Nat /\ j \in Nat /\ i < j /\ j <= Len(a) /\ i - 1 \in Nat /\ i - 1 \in 0..Len(a)
      /\ Len(a) \in Nat /\ Len(b) \in Nat /\ i \in 1..Len(b)
  BY <1>1
<1>3. Passes(a) /\ Passes(b)
  BY InOrderPasses
<1>9. ASSUME NEW z, NEW w, InAsAt(z, a, i - 1, t), StepCases(z, a[j], w)
      PROVE  /\ a[i] = EnterOf(t, "QuotaDisable") /\ a[j] = EnterOf(t, "FreeQgroupConfig")
             /\ In(z, t, <<>>) /\ t \in z.closing
  <2>1. Passes(a)
    BY <1>3
  <2> QED BY <1>9, <2>1, NextOutOfTurn, Zenon
<1> PICK x, y : x = JudgeAt(b, i - 1) /\ y = JudgeAt(b, i)
  OBVIOUS
<1>4. x = JudgeAt(a, i - 1)
  <2>1. i - 1 <= Len(a) /\ i - 1 <= Len(b) /\ \A k \in 1..(i - 1) : b[k] = a[k]
    BY <1>2
  <2> QED BY <1>2, <2>1, SameJudge
<1>5. StepCases(x, a[j], y)
  BY <1>2, <1>3, PassesIs
<1>6. /\ a[i] = EnterOf(t, "QuotaDisable") /\ a[j] = EnterOf(t, "FreeQgroupConfig")
      /\ In(x, t, <<>>) /\ t \in x.closing
  <2>1. InAsAt(x, a, i - 1, t)
    BY <1>4, Zenon DEF InAsAt
  <2> QED BY <1>5, <1>9, <2>1
<1>7. Waited(a, i - 1, t)
  BY <1>2, <1>3, <1>4, <1>6, PlacesAreSound DEF PlaceInv
<1>8. ASSUME j <= Len(b) PROVE FALSE
  <2>1. i \in 0..Len(b) /\ j - 1 \in i..Len(b) /\ j \in 1..Len(b)
    BY <1>2, <1>8
  <2>2. \A p \in (i + 1)..(j - 1) : b[p].task # t
    BY <1>1, <1>2, <2>1
  <2>3. t \in AnyTask
    BY <1>1, <1>3, PassesIs
  <2>4. JudgeAt(b, j - 1).open[t] = y.open[t]
    BY <1>3, <2>1, <2>2, <2>3, KeptBetween
  <2>5. In(y, t, <<"FreeQgroupConfig">>)
    <3>1. PICK e : e = a[j] /\ e.task = t /\ e.call = "FreeQgroupConfig"
      BY <1>6 DEF EnterOf
    <3> QED BY <1>5, <1>6, <3>1, FromNone
  <2>6. PICK g, h, e : g = JudgeAt(b, j - 1) /\ h = JudgeAt(b, j) /\ e = b[j]
    OBVIOUS
  <2>7. StepCases(g, e, h)
    BY <1>3, <2>1, <2>6, PassesIs
  <2>8. e.task = t /\ e.call = "QuotaDisable" /\ e.at = "Enter"
    BY <1>6, <1>8, <2>6 DEF EnterOf
  <2>9. In(g, e.task, <<"FreeQgroupConfig">>)
    BY <2>4, <2>5, <2>6, <2>8 DEF In
  <2>10. <<"FreeQgroupConfig", "QuotaDisable">> \notin Nested
    BY DEF Nested
  <2> QED BY <2>7, <2>8, <2>9, <2>10, FromOne
<1> QED BY <1>2, <1>6, <1>7, <1>8

\* b begins as a does without its event i.
BeginsWithout(b, a, i) ==
    /\ Len(b) < Len(a)
    /\ \A k \in 1..Len(b) : (k < i => b[k] = a[k]) /\ (k >= i => b[k] = a[k + 1])

LEMMA DropIsNoticed ==
    ASSUME NEW a \in Seq(TaskEvents), InOrder(a), NEW i, NEW j, NEW t, Following(a, i, j, t),
           NEW b \in Seq(TaskEvents), InOrder(b), j - 1 <= Len(b), BeginsWithout(b, a, i)
    PROVE  a[i] = EnterOf(t, "QuotaDisable") /\ Waited(a, i - 1, t)
<1>1. /\ i \in 1..Len(a) /\ j \in (i + 1)..Len(a) /\ a[i].task = t /\ a[j].task = t
      /\ \A p \in (i + 1)..(j - 1) : a[p].task # t
  BY DEF Following
<1>2. /\ Len(b) < Len(a)
      /\ \A k \in 1..Len(b) : (k < i => b[k] = a[k]) /\ (k >= i => b[k] = a[k + 1])
  BY DEF BeginsWithout
<1>3. /\ i \in Nat /\ j \in Nat /\ i < j /\ j <= Len(a) /\ i - 1 \in Nat
      /\ Len(a) \in Nat /\ Len(b) \in Nat /\ j - 1 \in 1..Len(b) /\ (j - 1) - 1 = j - 2
      /\ i - 1 \in 0..Len(b) /\ j - 2 \in (i - 1)..Len(b) /\ j - 2 \in 0..Len(b)
  BY <1>1, <1>2
<1>4. Passes(a) /\ Passes(b)
  BY InOrderPasses
<1>12. ASSUME NEW z, NEW w, InAsAt(z, a, i - 1, t), StepCases(z, a[j], w)
      PROVE  a[i] = EnterOf(t, "QuotaDisable") /\ In(z, t, <<>>) /\ t \in z.closing
  <2>1. Passes(a)
    BY <1>4
  <2>2. /\ a[i] = EnterOf(t, "QuotaDisable") /\ a[j] = EnterOf(t, "FreeQgroupConfig")
        /\ In(z, t, <<>>) /\ t \in z.closing
    BY <1>12, <2>1, NextOutOfTurn, Zenon
  <2> QED BY <2>2
<1> PICK x, y : x = JudgeAt(b, j - 2) /\ y = JudgeAt(b, j - 1)
  OBVIOUS
<1>5. \A p \in i..(j - 2) : b[p].task # t
  <2>1. \A p \in i..(j - 2) : p + 1 \in (i + 1)..(j - 1) /\ p \in 1..Len(b) /\ p >= i
    BY <1>3
  <2> QED BY <1>1, <1>2, <2>1
<1>6. InAsAt(x, a, i - 1, t)
  <2>1. i - 1 <= Len(a) /\ i - 1 <= Len(b) /\ \A k \in 1..(i - 1) : b[k] = a[k]
    BY <1>3, <1>2
  <2>2. JudgeAt(b, i - 1) = JudgeAt(a, i - 1)
    BY <1>3, <2>1, SameJudge
  <2>3. t \in AnyTask
    BY <1>1, <1>4, PassesIs
  <2>4. \A p \in ((i - 1) + 1)..(j - 2) : b[p].task # t
    BY <1>3, <1>5
  <2>5. JudgeAt(b, j - 2).open[t] = JudgeAt(b, i - 1).open[t]
    BY <1>3, <1>4, <2>3, <2>4, KeptBetween
  <2> QED BY <2>2, <2>5, Zenon DEF InAsAt
<1>7. StepCases(x, a[j], y)
  <2>1. b[j - 1] = a[j]
    <3>1. j - 1 >= i /\ (j - 1) + 1 = j
      BY <1>3
    <3> QED BY <1>3, <1>2, <3>1
  <2> QED BY <1>3, <1>4, <2>1, PassesIs
<1>8. /\ a[i] = EnterOf(t, "QuotaDisable")
      /\ In(x, t, <<>>) /\ t \in x.closing
  BY <1>6, <1>7, <1>12
<1>9. PICK l \in 1..(j - 2) : /\ b[l] = [task |-> t, call |-> "WaitRescanCompletion", at |-> "Done"]
                             /\ \A p \in (l + 1)..(j - 2) : b[p].task # t
  BY <1>3, <1>4, <1>8, PlacesAreSound DEF PlaceInv, Waited, LastOf
<1>10. l \in 1..(i - 1)
  <2>1. b[l].task = t
    BY <1>9
  <2> QED BY <1>3, <1>5, <2>1
<1>11. a[l] = b[l] /\ \A p \in (l + 1)..(i - 1) : a[p].task # t
  <2>1. \A p \in l..(i - 1) : p \in 1..Len(b) /\ p < i /\ (p # l => p \in (l + 1)..(j - 2))
    BY <1>3, <1>10
  <2>2. a[l] = b[l] /\ \A p \in l..(i - 1) : b[p] = a[p]
    BY <1>3, <1>2, <1>10, <2>1
  <2>3. \A p \in (l + 1)..(i - 1) : p \in l..(i - 1) /\ p # l
    BY <1>3, <1>10
  <2>4. \A p \in (l + 1)..(i - 1) : b[p].task # t
    BY <1>9, <2>1, <2>3
  <2> QED BY <2>2, <2>3, <2>4
<1> QED BY <1>8, <1>9, <1>10, <1>11 DEF Waited, LastOf

LEMMA DuplicateIsNoticed ==
    ASSUME NEW a \in Seq(TaskEvents), InOrder(a), NEW i \in 1..Len(a), a[i].at = "Done",
           NEW b \in Seq(TaskEvents), i + 1 <= Len(b), b[i + 1] = a[i],
           \A k \in 1..i : b[k] = a[k]
    PROVE  ~InOrder(b)
<1> SUFFICES ASSUME InOrder(b) PROVE FALSE
  OBVIOUS
<1>1. Passes(a) /\ Passes(b)
  BY InOrderPasses
<1>2. i \in Nat /\ i <= Len(a) /\ i <= Len(b) /\ i + 1 \in 1..Len(b) /\ (i + 1) - 1 = i
  OBVIOUS
<1> PICK c, d, h, e : c = JudgeAt(a, i - 1) /\ d = JudgeAt(a, i) /\ h = JudgeAt(b, i + 1) /\ e = a[i]
  OBVIOUS
<1>3. JudgeAt(b, i) = d
  BY <1>2, SameJudge
<1>4. StepCases(c, e, d) /\ StepCases(d, e, h)
  BY <1>1, <1>2, <1>3, PassesIs
<1>5. ~In(d, e.task, <<>>)
  BY <1>4, FromNone
<1>6. ASSUME NEW p, <<p, e.call>> \in Nested, In(d, e.task, <<p>>) PROVE FALSE
  <2>1. e.call = p
    BY <1>4, <1>6, FromOne
  <2> QED BY <1>6, <2>1, NestedIs
<1> QED BY <1>4, <1>5, <1>6 DEF StepCases

\* A disable whose Enter is dropped frees as an unmount would, until it returns.
LEMMA DisableIsNoticed ==
    ASSUME NEW a \in Seq(TaskEvents), InOrder(a), NEW i \in 1..Len(a), NEW t,
           a[i] = EnterOf(t, "QuotaDisable"),
           NEW q \in (i + 1)..Len(a), a[q] = [task |-> t, call |-> "QuotaDisable", at |-> "Done"],
           NEW b \in Seq(TaskEvents), Len(b) = Len(a) - 1, BeginsWithout(b, a, i)
    PROVE  ~InOrder(b)
<1> SUFFICES ASSUME InOrder(b) PROVE FALSE
  OBVIOUS
<1> DEFINE At(k) == \/ In(JudgeAt(a, k), t, <<"QuotaDisable">>) /\ In(JudgeAt(b, k - 1), t, <<>>)
                    \/ /\ In(JudgeAt(a, k), t, <<"QuotaDisable", "FreeQgroupConfig">>)
                       /\ In(JudgeAt(b, k - 1), t, <<"FreeQgroupConfig">>)
           T == {m \in 0..(Len(a) - i) : At(i + m)}
<1>1. /\ i \in Nat /\ q \in Nat /\ i < q /\ q <= Len(a) /\ i - 1 \in Nat /\ q - 1 \in Nat
      /\ Len(a) \in Nat /\ Len(b) \in Nat /\ Len(a) - i \in Nat
      /\ i - 1 <= Len(a) /\ i - 1 <= Len(b) /\ (i - 1) + 1 = i
  OBVIOUS
<1>2. \A k \in 1..Len(b) : (k < i => b[k] = a[k]) /\ (k >= i => b[k] = a[k + 1])
  BY DEF BeginsWithout
<1>3. Passes(a) /\ Passes(b)
  BY InOrderPasses
<1>4. a[i].task = t /\ a[i].call = "QuotaDisable" /\ a[i].at = "Enter"
  BY DEF EnterOf
<1>5. t \in AnyTask
  BY <1>3, <1>4, PassesIs
<1>6. ASSUME NEW p, NEW r, <<p, r>> \in Nested PROVE (p = "QuotaDisable" <=> r = "FreeQgroupConfig") /\ r # "QuotaDisable"
  BY <1>6 DEF Nested
<1>7. At(i)
  <2>1. JudgeAt(b, i - 1) = JudgeAt(a, i - 1)
    <3>1. \A k \in 1..(i - 1) : k \in 1..Len(b) /\ k < i
      BY <1>1
    <3>2. \A k \in 1..(i - 1) : b[k] = a[k]
      BY <1>2, <3>1
    <3> QED BY <1>1, <3>2, SameJudge
  <2> PICK c, d, e : c = JudgeAt(a, i - 1) /\ d = JudgeAt(a, i) /\ e = a[i]
    OBVIOUS
  <2>2. StepCases(c, e, d)
    BY <1>3, PassesIs
  <2>3. \A p : <<p, e.call>> \notin Nested
    BY <1>4, <1>6
  <2>4. e.at # "Done"
    BY <1>4
  <2>5. In(c, t, <<>>) /\ In(d, t, <<e.call>>)
    BY <1>4, <2>2, <2>3, <2>4 DEF StepCases
  <2> QED BY <1>4, <2>1, <2>5
<1>8. ASSUME NEW k \in (i + 1)..Len(a), At(k - 1)
      PROVE  At(k) /\ k # q
  <2>1. k \in 1..Len(a) /\ k - 1 \in 1..Len(b) /\ k - 1 >= i /\ (k - 1) + 1 = k /\ k - 1 \in Nat
    <3>1. k \in Nat /\ i + 1 <= k /\ k <= Len(a) /\ 1 <= i
      BY <1>1
    <3> QED BY <1>1, <3>1
  <2> PICK c, d, g, h, e : /\ c = JudgeAt(a, k - 1) /\ d = JudgeAt(a, k) /\ e = a[k]
                           /\ g = JudgeAt(b, (k - 1) - 1) /\ h = JudgeAt(b, k - 1)
    OBVIOUS
  <2>2. b[k - 1] = e
    BY <1>2, <2>1
  <2>3. /\ StepCases(c, e, d) /\ StepCases(g, e, h)
        /\ e.task # t => d.open[t] = c.open[t] /\ h.open[t] = g.open[t]
    <3>1. StepCases(c, e, d) /\ (e.task # t => d.open[t] = c.open[t])
      BY <1>3, <1>5, <2>1, PassesIs
    <3>2. StepCases(g, e, h) /\ (e.task # t => h.open[t] = g.open[t])
      BY <1>3, <1>5, <2>1, <2>2, PassesIs
    <3> QED BY <3>1, <3>2
  <2>4. \/ In(c, t, <<"QuotaDisable">>) /\ In(g, t, <<>>)
        \/ In(c, t, <<"QuotaDisable", "FreeQgroupConfig">>) /\ In(g, t, <<"FreeQgroupConfig">>)
    BY <1>8
  <2>5. CASE e.task # t
    <3>1. k # q
      BY <2>5
    <3>2. d.open[t] = c.open[t] /\ h.open[t] = g.open[t]
      BY <2>3, <2>5
    <3> QED BY <2>4, <3>1, <3>2 DEF In
  <2>6. CASE e.task = t /\ In(c, t, <<"QuotaDisable">>) /\ In(g, t, <<>>)
    <3>1. e.at = "Enter" /\ In(h, t, <<e.call>>)
      BY <2>3, <2>6, FromNone
    <3>2. <<"QuotaDisable", e.call>> \in Nested /\ In(d, t, <<"QuotaDisable", e.call>>)
      BY <2>3, <2>6, <3>1, FromOne
    <3>3. e.call = "FreeQgroupConfig"
      BY <1>6, <3>2
    <3>4. k # q
      BY <3>1
    <3> QED BY <3>1, <3>2, <3>3, <3>4
  <2>7. CASE e.task = t /\ In(c, t, <<"QuotaDisable", "FreeQgroupConfig">>) /\ In(g, t, <<"FreeQgroupConfig">>)
    <3>1. e.at = "Done" /\ e.call = "FreeQgroupConfig" /\ In(d, t, <<"QuotaDisable">>)
      BY <2>3, <2>7, FromTwo
    <3>2. In(h, t, <<>>)
      BY <2>3, <2>7, <3>1, FromOne
    <3>3. k # q
      BY <3>1
    <3> QED BY <3>1, <3>2, <3>3
  <2> QED BY <2>4, <2>5, <2>6, <2>7
<1>9. q - i \in T /\ (q - 1) - i \in T
  <2> HIDE DEF At
  <2>1. 0 \in T
    BY <1>1, <1>7
  <2>2. ASSUME NEW m \in 0..((Len(a) - i) - 1), m \in T PROVE m + 1 \in T
    <3>0. m \in Nat /\ m <= (Len(a) - i) - 1
      BY <1>1
    <3> PICK k : k = i + (m + 1)
      OBVIOUS
    <3>1. k \in (i + 1)..Len(a) /\ k - 1 = i + m /\ m + 1 \in 0..(Len(a) - i)
      <4> HIDE DEF T
      <4> QED BY <1>1, <3>0
    <3>2. At(k - 1)
      BY <2>2, <3>1
    <3> QED BY <1>8, <3>1, <3>2
  <2>3. 0..(Len(a) - i) \subseteq T
    <3> HIDE DEF T
    <3> QED BY <1>1, <2>1, <2>2, PositionsBySuccession
  <2>4. q - i \in 0..(Len(a) - i) /\ (q - 1) - i \in 0..(Len(a) - i)
    BY <1>1
  <2> QED BY <2>3, <2>4
<1>10. At(q - 1)
  <2> HIDE DEF At
  <2>1. i + ((q - 1) - i) = q - 1
    BY <1>1
  <2> QED BY <1>9, <2>1
<1> HIDE DEF At
<1> QED BY <1>8, <1>10
-----------------------------------------------------------------------------
(* Scans that may have been queued are not more than the zero trackings    *)
(* left and not yet scanned.                                               *)

InZero(c) == {t \in AnyTask : \/ In(c, t, <<"RescanZeroTracking">>)
                              \/ \E p \in Calls : In(c, t, <<p, "RescanZeroTracking">>)}

Entered(a, call, k) == {p \in 1..k : a[p].at = "Enter" /\ a[p].call = call}

LEMMA InZeroMoves ==
    ASSUME NEW c, NEW d, NEW e \in TaskEvents, StepCases(c, e, d),
           \A u \in AnyTask \ {e.task} : d.open[u] = c.open[u]
    PROVE  /\ e.call = "RescanZeroTracking" /\ e.at = "Enter" =>
                 e.task \notin InZero(c) /\ InZero(d) = InZero(c) \cup {e.task}
           /\ e.call = "RescanZeroTracking" /\ e.at = "Done" =>
                 e.task \in InZero(c) /\ InZero(d) = InZero(c) \ {e.task}
           /\ e.call # "RescanZeroTracking" => InZero(d) = InZero(c)
<1> PICK t, call : t = e.task /\ call = e.call
  OBVIOUS
<1>1. t \in AnyTask /\ call \in Calls /\ e.at \in Sides
  BY DEF TaskEvents
<1>2. \A u \in AnyTask \ {t} : u \in InZero(d) <=> u \in InZero(c)
  BY DEF InZero, In
<1>3. ASSUME NEW p, NEW r, <<p, r>> \in Nested PROVE p # "RescanZeroTracking" /\ p \in Calls /\ r \in Calls
  <2>1. <<p, r>> \in Nested
    BY <1>3
  <2> QED BY <2>1, NestedIs
<1>4. ASSUME NEW g, In(g, t, <<>>) PROVE t \notin InZero(g)
  BY <1>4, InsAreDistinct DEF InZero
<1>5. ASSUME NEW g, NEW p, In(g, t, <<p>>) PROVE t \in InZero(g) <=> p = "RescanZeroTracking"
  <2>1. \A q : In(g, t, <<q>>) <=> q = p
    BY <1>5, InsAreDistinct
  <2>2. \A q, r : ~In(g, t, <<q, r>>)
    BY <1>5, InsAreDistinct
  <2>3. t \in InZero(g) <=> In(g, t, <<"RescanZeroTracking">>) \/ \E q \in Calls : In(g, t, <<q, "RescanZeroTracking">>)
    BY <1>1 DEF InZero
  <2> QED BY <2>1, <2>2, <2>3, Zenon
<1>6. ASSUME NEW g, NEW p \in Calls, NEW r, In(g, t, <<p, r>>) PROVE t \in InZero(g) <=> r = "RescanZeroTracking"
  <2>1. \A q, s : In(g, t, <<q, s>>) <=> q = p /\ s = r
    BY <1>6, InsAreDistinct
  <2>2. \A q : ~In(g, t, <<q>>)
    BY <1>6, InsAreDistinct
  <2>3. t \in InZero(g) <=> In(g, t, <<"RescanZeroTracking">>) \/ \E q \in Calls : In(g, t, <<q, "RescanZeroTracking">>)
    BY <1>1 DEF InZero
  <2>4. CASE r = "RescanZeroTracking"
    BY <1>6, <2>3, <2>4
  <2>5. CASE r # "RescanZeroTracking"
    <3>1. ~In(g, t, <<"RescanZeroTracking">>)
      BY <2>2, Zenon
    <3>2. ASSUME NEW q, NEW s, s = "RescanZeroTracking", In(g, t, <<q, s>>) PROVE FALSE
      <4>1. s = r
        BY <1>6, <3>2, InsAreDistinct
      <4> QED BY <2>5, <3>2, <4>1
    <3> QED BY <2>3, <2>5, <3>1, <3>2
  <2> QED BY <2>4, <2>5
<1>7. CASE e.at = "Enter" /\ In(c, t, <<>>) /\ In(d, t, <<call>>)
  <2>1. t \notin InZero(c) /\ (t \in InZero(d) <=> call = "RescanZeroTracking")
    BY <1>4, <1>5, <1>7
  <2> QED BY <1>1, <1>2, <1>7, <2>1 DEF InZero
<1>8. ASSUME e.at = "Enter", NEW p, <<p, call>> \in Nested, In(c, t, <<p>>), In(d, t, <<p, call>>)
      PROVE  t \notin InZero(c) /\ (t \in InZero(d) <=> call = "RescanZeroTracking")
  BY <1>3, <1>5, <1>6, <1>8
<1>9. CASE e.at = "Done" /\ In(c, t, <<call>>) /\ In(d, t, <<>>)
  <2>1. (t \in InZero(c) <=> call = "RescanZeroTracking") /\ t \notin InZero(d)
    BY <1>4, <1>5, <1>9
  <2> QED BY <1>1, <1>2, <1>9, <2>1 DEF InZero
<1>10. ASSUME e.at = "Done", NEW p, <<p, call>> \in Nested, In(c, t, <<p, call>>), In(d, t, <<p>>)
       PROVE  (t \in InZero(c) <=> call = "RescanZeroTracking") /\ t \notin InZero(d)
  BY <1>3, <1>5, <1>6, <1>10
<1>11. CASE e.at = "Enter" /\ ~(In(c, t, <<>>) /\ In(d, t, <<call>>))
  <2>1. t \notin InZero(c) /\ (t \in InZero(d) <=> call = "RescanZeroTracking")
    BY <1>8, <1>11 DEF StepCases
  <2> QED BY <1>1, <1>2, <1>11, <2>1 DEF InZero
<1>12. CASE e.at = "Done" /\ ~(In(c, t, <<call>>) /\ In(d, t, <<>>))
  <2>1. (t \in InZero(c) <=> call = "RescanZeroTracking") /\ t \notin InZero(d)
    BY <1>10, <1>12 DEF StepCases
  <2> QED BY <1>1, <1>2, <1>12, <2>1 DEF InZero
<1> QED BY <1>1, <1>7, <1>9, <1>11, <1>12 DEF Sides

LEMMA EnteredGrows ==
    ASSUME NEW a, NEW call, NEW k \in Nat
    PROVE  /\ IsFiniteSet(Entered(a, call, k)) /\ Cardinality(Entered(a, call, k)) \in Nat
           /\ Entered(a, call, 0) = {}
           /\ Cardinality(Entered(a, call, k + 1)) =
                 IF a[k + 1].at = "Enter" /\ a[k + 1].call = call
                 THEN Cardinality(Entered(a, call, k)) + 1 ELSE Cardinality(Entered(a, call, k))
<1>1. Entered(a, call, k) \in SUBSET (1..k) /\ k + 1 \notin Entered(a, call, k)
  BY DEF Entered
<1>2. IsFiniteSet(Entered(a, call, k))
  BY <1>1, IntervalCount, FS_Subset
<1>3. Cardinality(Entered(a, call, k)) \in Nat
  BY <1>2, FS_CardinalityType
<1>4. Entered(a, call, k + 1) = IF a[k + 1].at = "Enter" /\ a[k + 1].call = call
                                THEN Entered(a, call, k) \cup {k + 1} ELSE Entered(a, call, k)
  <2>1. \A p : p \in 1..(k + 1) <=> p \in 1..k \/ p = k + 1
    OBVIOUS
  <2> QED BY <2>1 DEF Entered
<1>5. Cardinality(Entered(a, call, k) \cup {k + 1}) = Cardinality(Entered(a, call, k)) + 1
  BY <1>1, <1>2, FS_AddElement
<1>6. Entered(a, call, 0) = {}
  BY DEF Entered
<1> QED BY <1>2, <1>3, <1>4, <1>5, <1>6

LEMMA ScansAreQueued ==
    ASSUME NEW a \in Seq(TaskEvents), Passes(a), NEW k \in 0..Len(a)
    PROVE  JudgeAt(a, k).pending + Cardinality(Entered(a, "RescanWorker", k))
              <= Cardinality(Entered(a, "RescanZeroTracking", k))
<1> DEFINE open(m) == Cardinality(InZero(JudgeAt(a, m)))
           scans(m) == Cardinality(Entered(a, "RescanWorker", m))
           zeros(m) == Cardinality(Entered(a, "RescanZeroTracking", m))
           T == {m \in 0..Len(a) :
                   /\ IsFiniteSet(InZero(JudgeAt(a, m)))
                   /\ JudgeAt(a, m).pending + scans(m) + open(m) <= zeros(m)}
<1>1. Len(a) \in Nat
  OBVIOUS
<1>2. 0 \in T
  <2>1. JudgeAt(a, 0) = Quiet(0)
    BY JudgeSteps
  <2>2. JudgeAt(a, 0).pending = 0 /\ \A t \in AnyTask : JudgeAt(a, 0).open[t] = <<>>
    BY <2>1 DEF Quiet, AnyTask
  <2>3. InZero(JudgeAt(a, 0)) = {}
    <3>1. \A t \in AnyTask : In(JudgeAt(a, 0), t, <<>>)
      BY <2>2 DEF In
    <3> QED BY <3>1, InsAreDistinct DEF InZero
  <2>4. Entered(a, "RescanWorker", 0) = {} /\ Entered(a, "RescanZeroTracking", 0) = {}
    BY EnteredGrows
  <2>5. scans(0) = 0 /\ zeros(0) = 0 /\ open(0) = 0 /\ IsFiniteSet(InZero(JudgeAt(a, 0)))
    BY <2>3, <2>4, FS_EmptySet
  <2> HIDE DEF open, scans, zeros
  <2> QED BY <1>1, <2>2, <2>5
<1>3. ASSUME NEW m \in 0..(Len(a) - 1), m \in T PROVE m + 1 \in T
  <2>1. m + 1 \in 1..Len(a) /\ (m + 1) - 1 = m /\ m \in 0..Len(a) /\ m + 1 \in 0..Len(a) /\ m \in Nat
    BY <1>1
  <2> PICK c, d, e : c = JudgeAt(a, m) /\ d = JudgeAt(a, m + 1) /\ e = a[m + 1]
    OBVIOUS
  <2>2. c \in Judged /\ d \in Judged /\ e \in TaskEvents /\ d = After(c, e)
    BY <2>1 DEF Passes
  <2>3. StepCases(c, e, d) /\ \A u \in AnyTask \ {e.task} : d.open[u] = c.open[u]
    BY <2>1, PassesIs
  <2>4. /\ c.pending \in Int /\ d.pending \in Int /\ c.pending >= 0
        /\ e.at \in Sides
    BY <2>1, <2>2, PlacesAreSound DEF Judged, TaskEvents, PlaceInv
  <2>5. d.pending = CASE e.call = "RescanZeroTracking" /\ e.at # "Enter" -> c.pending + 1
                      [] e.call = "RescanWorker" /\ e.at = "Enter" -> c.pending - 1
                      [] e.call = "FreeQgroupConfig" /\ e.at # "Enter" /\ e.task \in c.closing -> 0
                      [] OTHER -> c.pending
    BY <2>2, AfterMoves
  <2>6. /\ IsFiniteSet(InZero(c)) /\ open(m) = Cardinality(InZero(c)) /\ open(m) \in Nat
        /\ open(m + 1) = Cardinality(InZero(d))
    BY <1>3, FS_CardinalityType
  <2>7. /\ scans(m) \in Nat /\ zeros(m) \in Nat
        /\ scans(m + 1) = IF e.at = "Enter" /\ e.call = "RescanWorker" THEN scans(m) + 1 ELSE scans(m)
        /\ zeros(m + 1) = IF e.at = "Enter" /\ e.call = "RescanZeroTracking" THEN zeros(m) + 1 ELSE zeros(m)
    BY <2>1, EnteredGrows
  <2>8. c.pending + scans(m) + open(m) <= zeros(m)
    BY <1>3
  <2>9. CASE e.call = "RescanZeroTracking" /\ e.at = "Enter"
    <3>1. e.task \notin InZero(c) /\ InZero(d) = InZero(c) \cup {e.task}
      BY <2>2, <2>3, <2>9, InZeroMoves
    <3>2. IsFiniteSet(InZero(d)) /\ open(m + 1) = open(m) + 1
      BY <2>6, <3>1, FS_AddElement
    <3>3. d.pending = c.pending /\ scans(m + 1) = scans(m) /\ zeros(m + 1) = zeros(m) + 1
      BY <2>5, <2>7, <2>9
    <3> HIDE DEF open, scans, zeros
    <3>4. d.pending + scans(m + 1) + open(m + 1) <= zeros(m + 1)
      BY <2>4, <2>6, <2>7, <2>8, <3>2, <3>3
    <3> QED BY <2>1, <3>2, <3>4
  <2>10. CASE e.call = "RescanZeroTracking" /\ e.at = "Done"
    <3>1. e.task \in InZero(c) /\ InZero(d) = InZero(c) \ {e.task}
      BY <2>2, <2>3, <2>10, InZeroMoves
    <3>2. IsFiniteSet(InZero(d)) /\ open(m + 1) = open(m) - 1
      <4>1. IsFiniteSet(InZero(c) \ {e.task}) /\ Cardinality(InZero(c) \ {e.task}) = Cardinality(InZero(c)) - 1
        BY <2>6, <3>1, FS_RemoveElement
      <4> HIDE DEF open
      <4> QED BY <2>6, <3>1, <4>1
    <3>3. d.pending = c.pending + 1 /\ scans(m + 1) = scans(m) /\ zeros(m + 1) = zeros(m)
      BY <2>5, <2>7, <2>10
    <3> HIDE DEF open, scans, zeros
    <3>4. d.pending + scans(m + 1) + open(m + 1) <= zeros(m + 1)
      <4>1. \A x, y, z, w \in Int : x + y + z <= w => (x + 1) + y + (z - 1) <= w
        OBVIOUS
      <4>2. open(m) \in Int /\ scans(m) \in Int /\ zeros(m) \in Int
        BY <2>6, <2>7
      <4> QED BY <2>4, <2>8, <3>2, <3>3, <4>1, <4>2
    <3> QED BY <2>1, <3>2, <3>4
  <2>11. CASE e.call # "RescanZeroTracking"
    <3>1. InZero(d) = InZero(c)
      BY <2>2, <2>3, <2>11, InZeroMoves
    <3>2. IsFiniteSet(InZero(d)) /\ open(m + 1) = open(m)
      BY <2>6, <3>1
    <3>3. /\ d.pending + scans(m + 1) <= c.pending + scans(m) /\ zeros(m + 1) = zeros(m)
          /\ scans(m + 1) \in Nat
      <4> HIDE DEF scans, zeros
      <4>1. CASE e.call = "RescanWorker" /\ e.at = "Enter"
        <5>1. d.pending = c.pending - 1 /\ scans(m + 1) = scans(m) + 1
          BY <2>5, <2>7, <2>11, <4>1
        <5>2. zeros(m + 1) = zeros(m) /\ scans(m) \in Nat
          BY <2>7, <2>11
        <5>3. c.pending \in Int
          BY <2>4
        <5> QED BY <5>1, <5>2, <5>3
      <4>2. CASE ~(e.call = "RescanWorker" /\ e.at = "Enter")
        <5>1. d.pending <= c.pending /\ scans(m + 1) = scans(m)
          BY <2>4, <2>5, <2>7, <2>11, <4>2
        <5> QED BY <2>4, <2>7, <2>11, <5>1
      <4> QED BY <4>1, <4>2
    <3> HIDE DEF open, scans, zeros
    <3>4. d.pending + scans(m + 1) + open(m + 1) <= zeros(m + 1)
      <4>1. \A x, y, z, w, v, u \in Int : x + y + z <= w /\ u + v <= x + y => u + v + z <= w
        OBVIOUS
      <4>2. open(m) \in Int /\ scans(m) \in Int /\ zeros(m) \in Int /\ scans(m + 1) \in Int
        BY <2>6, <2>7, <3>3
      <4>3. d.pending + scans(m + 1) <= c.pending + scans(m)
        BY <3>3
      <4>4. d.pending + scans(m + 1) + open(m) <= zeros(m)
        BY <2>4, <2>8, <4>1, <4>2, <4>3
      <4> QED BY <3>2, <3>3, <4>4
    <3> QED BY <2>1, <3>2, <3>4
  <2> QED BY <2>4, <2>9, <2>10, <2>11 DEF Sides
<1>4. k \in T
  <2>1. 0..Len(a) \subseteq T
    <3> HIDE DEF T
    <3> QED BY <1>1, <1>2, <1>3, PositionsBySuccession
  <2> QED BY <2>1
<1>5. /\ JudgeAt(a, k).pending \in Int /\ open(k) \in Nat /\ scans(k) \in Nat /\ zeros(k) \in Nat
      /\ JudgeAt(a, k).pending + scans(k) + open(k) <= zeros(k)
  <2>1. JudgeAt(a, k).pending \in Int
    BY JudgeSteps DEF Judged
  <2>2. scans(k) \in Nat /\ zeros(k) \in Nat
    <3>1. k \in Nat
      BY <1>1
    <3> QED BY <3>1, EnteredGrows
  <2>3. open(k) \in Nat
    BY <1>4, FS_CardinalityType
  <2> QED BY <1>4, <2>1, <2>2, <2>3
<1> HIDE DEF open, T
<1> QED BY <1>5

LEMMA EnteredHere ==
    ASSUME NEW a, NEW k \in Nat, NEW call, k # 0, a[k].at = "Enter", a[k].call = call
    PROVE  Cardinality(Entered(a, call, k)) = Cardinality(Entered(a, call, k - 1)) + 1
<1>1. k - 1 \in Nat /\ (k - 1) + 1 = k
  OBVIOUS
<1>2. ASSUME NEW n \in Nat, a[n + 1].at = "Enter", a[n + 1].call = call
      PROVE  Cardinality(Entered(a, call, n + 1)) = Cardinality(Entered(a, call, n)) + 1
  BY <1>2, EnteredGrows
<1> QED BY <1>1, <1>2

\* b is a up to the place s, but for the event at s, which has come to z.
BeginsEarly(b, a, z, s) ==
    /\ s <= Len(b) /\ b[z] = a[s]
    /\ \A k \in 1..(z - 1) : b[k] = a[k]
    /\ \A k \in z..(s - 1) : b[k + 1] = a[k]

\* The k-th scan is begun at s, the k-th zero tracking at z; the scan cannot be
\* there.
LEMMA EarlyScanIsNoticed ==
    ASSUME NEW a \in Seq(TaskEvents), InOrder(a), NEW s \in 1..Len(a), NEW z \in 1..(s - 1),
           a[s] = EnterOf(Scanner, "RescanWorker"),
           a[z].call = "RescanZeroTracking", a[z].at = "Enter",
           Cardinality(Entered(a, "RescanWorker", s)) = Cardinality(Entered(a, "RescanZeroTracking", z)),
           NEW b \in Seq(TaskEvents), BeginsEarly(b, a, z, s)
    PROVE  ~InOrder(b)
<1> SUFFICES ASSUME InOrder(b) PROVE FALSE
  OBVIOUS
<1>1. /\ s \in Nat /\ z \in Nat /\ z < s /\ s <= Len(a) /\ z - 1 \in Nat /\ s - 1 \in Nat
      /\ Len(a) \in Nat /\ Len(b) \in Nat /\ s <= Len(b) /\ z \in 1..Len(b) /\ z - 1 \in 0..Len(a)
      /\ (z - 1) + 1 = z /\ (s - 1) + 1 = s
  BY DEF BeginsEarly
<1>2. /\ b[z] = a[s]
      /\ \A k \in 1..(z - 1) : b[k] = a[k]
      /\ \A k \in z..(s - 1) : b[k + 1] = a[k]
  BY DEF BeginsEarly
<1>3. Passes(a) /\ Passes(b)
  BY InOrderPasses
<1>4. a[s].task = Scanner /\ a[s].call = "RescanWorker" /\ a[s].at = "Enter"
  BY DEF EnterOf
<1>5. Scanner \notin Threads /\ Scanner \in AnyTask
  BY ToolsAssumption DEF AnyTask
<1>6. \A p : <<p, "RescanWorker">> \notin Nested
  BY DEF Nested
<1> PICK x, y : x = JudgeAt(b, z - 1) /\ y = JudgeAt(b, z)
  OBVIOUS
<1>7. x = JudgeAt(a, z - 1)
  <2>1. z - 1 <= Len(a) /\ z - 1 <= Len(b)
    BY <1>1
  <2> QED BY <1>1, <1>2, <2>1, SameJudge
<1>8. x.pending > 0 /\ In(x, Scanner, <<>>) /\ In(y, Scanner, <<"RescanWorker">>)
  <2> PICK e : e = a[s]
    OBVIOUS
  <2>1. StepCases(x, e, y)
    BY <1>1, <1>2, <1>3, PassesIs
  <2>2. e.task = Scanner /\ e.call = "RescanWorker" /\ e.at = "Enter"
    BY <1>4
  <2>3. In(x, Scanner, <<>>) /\ In(y, Scanner, <<"RescanWorker">>) /\ Outermost(x, Scanner, "RescanWorker")
    BY <1>5, <2>1, <2>2 DEF StepCases
  <2> QED BY <1>5, <2>3 DEF Outermost
<1>9. CASE \E r \in z..(s - 1) : a[r].task = Scanner
  <2> DEFINE R == {r \in z..(s - 1) : a[r].task = Scanner}
  <2>1. R # {} /\ R \in SUBSET Nat
    BY <1>1, <1>9
  <2>2. PICK r \in R : \A q \in R : r <= q
    <3> HIDE DEF R
    <3> QED BY <2>1, NatHasMinimum
  <2>3. /\ r \in Nat /\ z <= r /\ r < s /\ a[r].task = Scanner /\ r - 1 \in Nat /\ r \in 1..Len(a) /\ r \in 0..Len(a)
        /\ r - 1 \in (z - 1)..Len(a) /\ r \in z..Len(b) /\ r + 1 \in 1..Len(b) /\ (r + 1) - 1 = r /\ z \in 0..Len(b)
        /\ r \in z..(s - 1)
    BY <1>1
  <2>4. \A q \in z..(r - 1) : a[q].task # Scanner /\ b[q + 1].task # Scanner
    <3> TAKE q \in z..(r - 1)
    <3>1. q \in z..(s - 1) /\ q \in Nat /\ ~(r <= q)
      BY <1>1, <2>3
    <3>2. q \notin R
      BY <2>2, <3>1
    <3>3. a[q].task # Scanner
      BY <3>1, <3>2
    <3> QED BY <1>2, <3>1, <3>3
  <2> HIDE DEF R
  <2>5. JudgeAt(a, r - 1).open[Scanner] = x.open[Scanner]
    <3>1. \A q \in ((z - 1) + 1)..(r - 1) : a[q].task # Scanner
      BY <1>1, <2>4
    <3>2. JudgeAt(a, r - 1).open[Scanner] = JudgeAt(a, z - 1).open[Scanner]
      <4>1. Passes(a) /\ Scanner \in AnyTask /\ z - 1 \in 0..Len(a) /\ r - 1 \in (z - 1)..Len(a)
        BY <1>1, <1>3, <1>5, <2>3
      <4> QED BY <3>1, <4>1, KeptBetween
    <3> QED BY <1>7, <3>2
  <2>6. JudgeAt(b, r).open[Scanner] = y.open[Scanner]
    <3>1. \A q \in (z + 1)..r : q - 1 \in z..(r - 1) /\ (q - 1) + 1 = q
      BY <1>1, <2>3
    <3>2. \A q \in (z + 1)..r : b[q].task # Scanner
      BY <2>4, <3>1
    <3> QED BY <1>3, <1>5, <2>3, <3>2, KeptBetween
  <2> PICK e : e = a[r]
    OBVIOUS
  <2>7. StepCases(JudgeAt(a, r - 1), e, JudgeAt(a, r)) /\ e.task = Scanner
    BY <1>3, <2>3, PassesIs
  <2>8. e.at = "Enter"
    <3>1. In(JudgeAt(a, r - 1), Scanner, <<>>)
      BY <1>8, <2>5 DEF In
    <3> QED BY <2>7, <3>1, FromNone
  <2>9. StepCases(JudgeAt(b, r), e, JudgeAt(b, r + 1))
    <3>1. b[r + 1] = e
      BY <1>2, <2>3
    <3> QED BY <1>3, <2>3, <3>1, PassesIs
  <2>10. In(JudgeAt(b, r), Scanner, <<"RescanWorker">>)
    BY <1>8, <2>6 DEF In
  <2>11. <<"RescanWorker", e.call>> \in Nested
    BY <2>7, <2>8, <2>9, <2>10, FromOne
  <2> QED BY <2>11 DEF Nested
<1>10. CASE ~\E r \in z..(s - 1) : a[r].task = Scanner
  <2>1. \A p \in z..(s - 1) : ~(a[p].at = "Enter" /\ a[p].call = "RescanWorker")
    <3> SUFFICES ASSUME NEW p \in z..(s - 1), a[p].at = "Enter", a[p].call = "RescanWorker" PROVE FALSE
      OBVIOUS
    <3>1. p \in 1..Len(a)
      BY <1>1
    <3> PICK c, d, e : c = JudgeAt(a, p - 1) /\ d = JudgeAt(a, p) /\ e = a[p]
      OBVIOUS
    <3>2. StepCases(c, e, d) /\ e.at = "Enter" /\ e.call = "RescanWorker"
      BY <1>3, <3>1, PassesIs
    <3>3. Outermost(c, e.task, "RescanWorker")
      BY <1>6, <3>2 DEF StepCases
    <3>4. e.task = Scanner
      BY <3>3 DEF Outermost, Ioctls, QuotaCtl
    <3> QED BY <1>10, <3>4
  <2>2. Entered(a, "RescanWorker", s - 1) = Entered(a, "RescanWorker", z - 1)
    <3>1. \A p : p \in 1..(s - 1) <=> p \in 1..(z - 1) \/ p \in z..(s - 1)
      BY <1>1
    <3> QED BY <2>1, <3>1 DEF Entered
  <2>3. Cardinality(Entered(a, "RescanWorker", s)) = Cardinality(Entered(a, "RescanWorker", s - 1)) + 1
    BY <1>1, <1>4, EnteredHere
  <2>4. Cardinality(Entered(a, "RescanZeroTracking", z)) = Cardinality(Entered(a, "RescanZeroTracking", z - 1)) + 1
    <3>1. z \in Nat /\ z # 0 /\ a[z].call = "RescanZeroTracking" /\ a[z].at = "Enter"
      BY <1>1
    <3> QED BY <3>1, EnteredHere, Zenon
  <2>5. /\ Cardinality(Entered(a, "RescanWorker", z - 1)) \in Nat
        /\ Cardinality(Entered(a, "RescanZeroTracking", z - 1)) \in Nat
    BY <1>1, EnteredGrows
  <2>6. x.pending + Cardinality(Entered(a, "RescanWorker", z - 1))
           <= Cardinality(Entered(a, "RescanZeroTracking", z - 1))
    BY <1>1, <1>3, <1>7, ScansAreQueued
  <2>7. x.pending \in Int
    BY <1>1, <1>7, JudgeSteps DEF Judged
  <2> QED BY <1>8, <2>2, <2>3, <2>4, <2>5, <2>6, <2>7
<1> QED BY <1>9, <1>10
-----------------------------------------------------------------------------
(* The mutants, event by event.                                            *)

LEMMA SpreadTakes ==
    ASSUME NEW P \in SUBSET Nat, IsFiniteSet(P), NEW n \in Nat, NEW x \in Spread(Ascending(P), n)
    PROVE  x \in P
<1> DEFINE a == Ascending(P)
<1>1. /\ Cardinality(P) \in Nat /\ DOMAIN a = 1..Cardinality(P)
      /\ \A k \in 1..Cardinality(P) : a[k] \in P
  BY AscendingIs
<1>2. a \in Seq(P) /\ Len(a) = Cardinality(P)
  <2>1. a = [k \in 1..Cardinality(P) |-> a[k]]
    BY AscendingIsFunction
  <2> HIDE DEF a
  <2> QED BY <1>1, <2>1
<1> HIDE DEF a
<1>3. CASE Len(a) <= n
  BY <1>1, <1>3 DEF Spread, ToSet, a
<1>4. CASE ~(Len(a) <= n)
  <2>1. PICK i \in 0..(n - 1) : x = a[1 + (i * Len(a)) \div n]
    BY <1>4 DEF Spread, a
  <2>2. 1 + (i * Len(a)) \div n \in 1..Len(a)
    <3>1. PICK l, q : l = Len(a) /\ q = (i * l) \div n
      OBVIOUS
    <3>2. l \in Nat /\ i \in Nat /\ n > 0 /\ i < n /\ i * l \in Nat
      BY <1>1, <1>2, <3>1
    <3>3. q \in Int /\ n * q <= i * l /\ q >= 0
      BY <3>1, <3>2
    <3>4. q < l
      <4> SUFFICES ASSUME q >= l PROVE FALSE
        BY <3>2, <3>3
      <4>1. n * q >= n * l
        BY <3>2, <3>3
      <4>2. n * l > i * l
        BY <1>4, <3>1, <3>2
      <4>3. n * q \in Int /\ n * l \in Int
        BY <3>2, <3>3
      <4> QED BY <3>2, <3>3, <4>1, <4>2, <4>3
    <3> QED BY <3>1, <3>2, <3>3, <3>4
  <2> QED BY <1>1, <1>2, <2>1, <2>2
<1> QED BY <1>3, <1>4

LEMMA TasksIs ==
    ASSUME NEW s \in Seq(RealEntries)
    PROVE  /\ Tasks(s) \in Seq(TaskEvents) /\ Len(Tasks(s)) = Len(s)
           /\ \A k \in 1..Len(s) : Tasks(s)[k] = AsTask(s[k]) /\ AsTask(s[k]) \in TaskEvents
<1>1. Len(s) \in Nat /\ DOMAIN s = 1..Len(s) /\ \A k \in 1..Len(s) : s[k] \in RealEntries
  OBVIOUS
<1>2. Tasks(s) = [k \in 1..Len(s) |-> AsTask(s[k])] /\ \A k \in 1..Len(s) : AsTask(s[k]) \in TaskEvents
  BY <1>1, TaskType DEF Tasks
<1> QED BY <1>1, <1>2

\* A trace of one file system with its places for times is converted as it is.
LEMMA OnlyConverted ==
    ASSUME NEW f, NEW m \in Seq(RealEntries), \A k \in 1..Len(m) : m[k].ts = k /\ m[k].fs = f,
           NEW events \in Convert(m)
    PROVE  events = Tasks(m)
<1>1. /\ Len(m) \in Nat /\ DOMAIN m = 1..Len(m) /\ m = [k \in 1..Len(m) |-> m[k]]
  OBVIOUS
<1>2. Ascending(1..Len(m)) = [k \in 1..Len(m) |-> k]
  BY <1>1, AscendingInterval
<1>3. PICK part \in Chosen(m) : events = Tasks(Load(part))
  BY DEF Convert
<1>4. PICK g \in {e.fs : e \in ToSet(m)} : part = Group(m, g)
  BY <1>3 DEF Chosen
<1>5. g = f
  BY <1>1, <1>4 DEF ToSet
<1>6. part = m
  <2>1. {i \in DOMAIN m : m[i].fs = g} = 1..Len(m)
    BY <1>1, <1>5
  <2>2. Pick(m, 1..Len(m)) = [k \in 1..Len(m) |-> m[k]]
    BY <1>2 DEF Pick
  <2> QED BY <1>1, <1>4, <2>1, <2>2 DEF Group
<1>7. Load(m) = m
  <2>1. {e.ts : e \in ToSet(m)} = 1..Len(m)
    BY <1>1 DEF ToSet
  <2>2. PICK times : times = Ascending({e.ts : e \in ToSet(m)})
    OBVIOUS
  <2>3. Load(m) = [k \in DOMAIN times |-> CHOOSE e \in ToSet(m) : e.ts = times[k]]
    BY <2>2 DEF Load
  <2>4. DOMAIN times = 1..Len(m) /\ \A k \in 1..Len(m) : times[k] = k
    BY <1>2, <2>1, <2>2
  <2>5. ASSUME NEW k \in DOMAIN times PROVE (CHOOSE e \in ToSet(m) : e.ts = times[k]) = m[k]
    <3>1. m[k] \in ToSet(m) /\ m[k].ts = times[k]
      BY <1>1, <2>4 DEF ToSet
    <3>2. \A e \in ToSet(m) : e.ts = times[k] => e = m[k]
      BY <1>1, <2>4 DEF ToSet
    <3> QED BY <3>1, <3>2
  <2>6. Load(m) = [k \in DOMAIN times |-> m[k]]
    BY <2>3, <2>5
  <2> QED BY <1>1, <2>4, <2>6
<1> QED BY <1>3, <1>6, <1>7

\* A mutant is converted to its events up to where it is cut.
OnlyOf(w, f) == w \in Seq(RealEntries) /\ \A k \in 1..Len(w) : w[k].fs = f

IsCut(m, events, w, at) ==
    /\ Len(m) \in Nat /\ Len(m) <= Len(w) /\ (Len(m) = Len(w) \/ at <= Len(m))
    /\ m = Stamp(SubSeq(w, 1, Len(m)))
    /\ events \in Seq(TaskEvents) /\ Len(events) = Len(m)
    /\ \A k \in 1..Len(m) : events[k] = AsTask(w[k])

LEMMA MutantIs ==
    ASSUME NEW f, NEW w, OnlyOf(w, f),
           NEW at \in Nat, NEW m, m = Stamp(Cut(<<w, at>>)), NEW events \in Convert(m)
    PROVE  IsCut(m, events, w, at)
<1>0. w \in Seq(RealEntries) /\ \A k \in 1..Len(w) : w[k].fs = f
  BY DEF OnlyOf
<1> DEFINE n == IF at + Pad < Len(w) THEN at + Pad ELSE Len(w)
           s == SubSeq(w, 1, n)
<1>1. /\ Len(w) \in Nat /\ Pad \in Nat /\ n \in Nat /\ n <= Len(w) /\ (n = Len(w) \/ at <= n)
  BY <1>0, ToolsAssumption
<1>2. SubSeq(w, 1, Len(w)) = w
  BY <1>0
<1>3. Cut(<<w, at>>) = s
  BY <1>1, <1>2 DEF Cut
<1> HIDE DEF n
<1>4. s \in Seq(RealEntries) /\ Len(s) = n /\ DOMAIN s = 1..n /\ \A k \in 1..n : s[k] = w[k] /\ s[k] \in RealEntries
  BY <1>0, <1>1
<1> HIDE DEF s
<1>5. m = [k \in 1..n |-> [s[k] EXCEPT !.ts = k]]
  BY <1>3, <1>4 DEF Stamp
<1>6. ASSUME NEW k \in 1..n
      PROVE  /\ [s[k] EXCEPT !.ts = k] \in RealEntries /\ [s[k] EXCEPT !.ts = k].ts = k
             /\ [s[k] EXCEPT !.ts = k].fs = f /\ AsTask([s[k] EXCEPT !.ts = k]) = AsTask(w[k])
  <2>1. PICK e \in RealEntries : e = s[k] /\ e = w[k]
    BY <1>4
  <2>2. e.fs = f /\ k \in Nat
    BY <1>0, <1>1, <2>1
  <2>3. [e EXCEPT !.ts = k] \in RealEntries /\ [e EXCEPT !.ts = k].ts = k /\ [e EXCEPT !.ts = k].fs = f
    BY <2>2 DEF RealEntries, Entries
  <2>4. AsTask([e EXCEPT !.ts = k]) = AsTask(e)
    BY DEF RealEntries, Entries, AsTask, TaskOf
  <2> QED BY <2>1, <2>3, <2>4
<1>7. m \in Seq(RealEntries) /\ Len(m) = n /\ \A k \in 1..n : m[k].ts = k /\ m[k].fs = f /\ AsTask(m[k]) = AsTask(w[k])
  <2>1. DOMAIN m = 1..n /\ m = [k \in 1..n |-> m[k]]
    BY <1>5
  <2>2. \A k \in 1..n : m[k] = [s[k] EXCEPT !.ts = k]
    BY <1>5
  <2>3. \A k \in 1..n : m[k] \in RealEntries /\ m[k].ts = k /\ m[k].fs = f /\ AsTask(m[k]) = AsTask(w[k])
    <3> TAKE k \in 1..n
    <3>1. m[k] = [s[k] EXCEPT !.ts = k]
      BY <2>2
    <3> QED BY <1>6, <3>1, Zenon
  <2>4. m \in Seq(RealEntries) /\ Len(m) = n
    <3>1. \A k \in 1..n : m[k] \in RealEntries
      BY <2>3, Zenon
    <3>2. n \in Nat /\ IsCounted(m, n, RealEntries)
      BY <1>1, <2>1, <3>1 DEF IsCounted
    <3> QED BY <3>2, CountedIsSeq, Zenon
  <2> QED BY <2>3, <2>4
<1>8. events = Tasks(m)
  BY <1>7, OnlyConverted
<1>9. /\ events \in Seq(TaskEvents) /\ Len(events) = n
      /\ \A k \in 1..n : events[k] = AsTask(w[k])
  BY <1>7, <1>8, TasksIs
<1>10. m = Stamp(SubSeq(w, 1, Len(m)))
  BY <1>3, <1>7 DEF s
<1> QED BY <1>1, <1>7, <1>9, <1>10 DEF IsCut

-----------------------------------------------------------------------------
(* One file system's trace, and its mutants.                               *)

Sole(f) ==
    /\ log \in Seq(RealEntries) /\ \A k \in 1..Len(log) : log[k].fs = f
    /\ InOrder(Tasks(log))

LEMMA SoleIs ==
    ASSUME LogIsReal, CallsInv, warm = {}, OneFileSystem
    PROVE  \E f \in FileSystems : Sole(f)
<1>1. PICK f \in FileSystems : log = On(f)
  BY DEF OneFileSystem
<1> DEFINE P == {i \in DOMAIN log : log[i].on = f}
<1>2. Len(log) \in Nat /\ DOMAIN log = 1..Len(log) /\ log \in Seq(Entries) /\ \A k \in 1..Len(log) : log[k].fs = log[k].on
  BY DEF LogIsReal
<1>3. P \in SUBSET Int /\ IsFiniteSet(P)
  <2>1. P \in SUBSET (1..Len(log))
    BY <1>2
  <2> QED BY <1>2, <2>1, IntervalCount, FS_Subset
<1>4. \A i \in P : log[i].on = f
  OBVIOUS
<1>5. log = Pick(log, P)
  BY <1>1 DEF On
<1> HIDE DEF P
<1>6. \A k \in DOMAIN log : log[k].on = f
  <2>1. PICK s : s = Pick(log, P)
    OBVIOUS
  <2>2. \A k \in DOMAIN s : Ascending(P)[k] \in P /\ s[k] = log[Ascending(P)[k]]
    BY <1>3, <2>1, PickTakes DEF TakenFrom
  <2>3. \A k \in DOMAIN s : s[k].on = f
    BY <1>4, <2>2
  <2>4. log = s
    BY <1>5, <2>1
  <2> QED BY <2>3, <2>4
<1>7. log \in Seq(RealEntries)
  <2>1. \A k \in 1..Len(log) : log[k] \in RealEntries
    BY <1>2, LogEntriesReal
  <2> QED BY <1>2, <2>1
<1>8. InOrder(Tasks(log))
  <2>1. State(f).ok
    BY <1>1, Zenon DEF CallsInv, AllAccepted
  <2>2. State(f) = FoldLeft(Follow, Quiet(0), Tasks(log))
    <3>1. f \notin warm
      OBVIOUS
    <3> QED BY <1>1, <3>1 DEF State
  <2> QED BY <2>1, <2>2, Zenon DEF InOrder
<1> QED BY <1>2, <1>6, <1>7, <1>8 DEF Sole

LEMMA AsTaskIs ==
    ASSUME NEW s, NEW n, \A k \in 1..n : Tasks(s)[k] = AsTask(s[k])
    PROVE  \A k \in 1..n : /\ Tasks(s)[k].task = TaskOf(s[k]) /\ Tasks(s)[k].call = s[k].call
                           /\ Tasks(s)[k].at = s[k].at
<1>1. \A e : AsTask(e).task = TaskOf(e) /\ AsTask(e).call = e.call /\ AsTask(e).at = e.at
  BY DEF AsTask
<1> QED BY <1>1

LEMMA NextIsFollowing ==
    ASSUME log \in Seq(RealEntries), NEW i \in 1..Len(log), Later(log, i) # {}
    PROVE  /\ NextOf(log, i) \in Later(log, i) /\ NextOf(log, i) \in 1..Len(log) /\ i < NextOf(log, i)
           /\ Following(Tasks(log), i, NextOf(log, i), TaskOf(log[i]))
<1>1. Len(log) \in Nat /\ DOMAIN log = 1..Len(log) /\ Later(log, i) \in SUBSET Nat
  BY DEF Later
<1>2. PICK j : j = NextOf(log, i) /\ j \in Later(log, i) /\ \A k \in Later(log, i) : j <= k
  BY <1>1, LeastIs DEF NextOf
<1>3. /\ Tasks(log) \in Seq(TaskEvents) /\ Len(Tasks(log)) = Len(log)
      /\ \A k \in 1..Len(log) : Tasks(log)[k] = AsTask(log[k])
  BY TasksIs
<1>4. \A k \in 1..Len(log) : Tasks(log)[k].task = TaskOf(log[k])
  BY <1>3, AsTaskIs
<1>5. j \in 1..Len(log) /\ j > i /\ TaskOf(log[j]) = TaskOf(log[i])
  BY <1>1, <1>2 DEF Later
<1>6. \A p \in (i + 1)..(j - 1) : Tasks(log)[p].task # TaskOf(log[i])
  <2> TAKE p \in (i + 1)..(j - 1)
  <2>1. p \in 1..Len(log) /\ p > i /\ ~(j <= p)
    BY <1>1, <1>5
  <2>2. p \notin Later(log, i)
    BY <1>2, <2>1
  <2>3. TaskOf(log[p]) # TaskOf(log[i])
    BY <1>1, <2>1, <2>2 DEF Later
  <2> QED BY <1>4, <2>1, <2>3
<1>7. j \in (i + 1)..Len(Tasks(log)) /\ i \in 1..Len(Tasks(log))
  BY <1>1, <1>3, <1>5
<1> QED BY <1>2, <1>4, <1>5, <1>6, <1>7 DEF Following

\* The exception of the property.
LEMMA WaitedReads ==
    ASSUME log \in Seq(RealEntries), NEW i \in 1..Len(log),
           Tasks(log)[i] = EnterOf(TaskOf(log[i]), "QuotaDisable"),
           Waited(Tasks(log), i - 1, TaskOf(log[i]))
    PROVE  ReadsAsUnmount(log, i)
<1> DEFINE t == TaskOf(log[i])
           a == Tasks(log)
<1>1. Len(log) \in Nat /\ DOMAIN log = 1..Len(log) /\ i \in Nat /\ i <= Len(log)
  OBVIOUS
<1>2. \A k \in 1..Len(log) : a[k] = AsTask(log[k])
  BY TasksIs
<1>3. \A k \in 1..Len(log) : a[k].task = TaskOf(log[k]) /\ a[k].call = log[k].call /\ a[k].at = log[k].at
  BY <1>2, AsTaskIs
<1> HIDE DEF a
<1>4. PICK l \in 1..(i - 1) : /\ a[l] = [task |-> t, call |-> "WaitRescanCompletion", at |-> "Done"]
                              /\ \A p \in (l + 1)..(i - 1) : a[p].task # t
  BY DEF Waited, LastOf, a
<1>5. log[i].at = "Enter" /\ log[i].call = "QuotaDisable"
  <2>1. a[i].at = "Enter" /\ a[i].call = "QuotaDisable"
    BY DEF EnterOf, a
  <2> QED BY <1>3, <2>1
<1>6. l \in 1..Len(log) /\ l < i /\ l \in Nat
  BY <1>1
<1>7. TaskOf(log[l]) = t /\ log[l].at = "Done" /\ log[l].call = "WaitRescanCompletion"
  BY <1>3, <1>4, <1>6
<1>8. i \in Later(log, l)
  BY <1>1, <1>6, <1>7 DEF Later
<1>9. \A k \in Later(log, l) : i <= k
  <2> SUFFICES ASSUME NEW k \in Later(log, l), ~(i <= k) PROVE FALSE
    OBVIOUS
  <2>1. k \in 1..Len(log) /\ k > l /\ TaskOf(log[k]) = TaskOf(log[l])
    BY <1>1 DEF Later
  <2>2. k \in (l + 1)..(i - 1)
    BY <1>1, <1>6, <2>1
  <2> QED BY <1>3, <1>4, <1>7, <2>1, <2>2
<1>10. i = NextOf(log, l)
  <2>1. Later(log, l) \in SUBSET Nat
    BY <1>1 DEF Later
  <2>2. NextOf(log, l) \in Later(log, l) /\ \A k \in Later(log, l) : NextOf(log, l) <= k
    BY <1>8, <2>1, LeastIs DEF NextOf
  <2> QED BY <1>1, <1>8, <1>9, <2>1, <2>2
<1> QED BY <1>5, <1>7, <1>8, <1>10 DEF ReadsAsUnmount

LEMMA SoleTasks ==
    ASSUME NEW f, Sole(f)
    PROVE  /\ log \in Seq(RealEntries) /\ \A k \in 1..Len(log) : log[k].fs = f
           /\ Len(log) \in Nat /\ DOMAIN log = 1..Len(log) /\ \A k \in 1..Len(log) : log[k] \in RealEntries
           /\ Tasks(log) \in Seq(TaskEvents) /\ Len(Tasks(log)) = Len(log) /\ InOrder(Tasks(log))
           /\ \A k \in 1..Len(log) : /\ Tasks(log)[k] = AsTask(log[k])
                                     /\ Tasks(log)[k].task = TaskOf(log[k])
                                     /\ Tasks(log)[k].call = log[k].call
                                     /\ Tasks(log)[k].at = log[k].at
<1>1. log \in Seq(RealEntries) /\ (\A k \in 1..Len(log) : log[k].fs = f) /\ InOrder(Tasks(log))
  BY DEF Sole
<1>2. /\ Tasks(log) \in Seq(TaskEvents) /\ Len(Tasks(log)) = Len(log)
      /\ \A k \in 1..Len(log) : Tasks(log)[k] = AsTask(log[k])
  BY <1>1, TasksIs
<1>3. \A k \in 1..Len(log) : /\ Tasks(log)[k].task = TaskOf(log[k])
                             /\ Tasks(log)[k].call = log[k].call
                             /\ Tasks(log)[k].at = log[k].at
  BY <1>2, AsTaskIs
<1>4. Len(log) \in Nat /\ DOMAIN log = 1..Len(log) /\ \A k \in 1..Len(log) : log[k] \in RealEntries
  BY <1>1
<1> QED BY <1>1, <1>2, <1>3, <1>4

\* What a mutant may be and yet be in order.
ReadsOnward(m) ==
    \E i \in DOMAIN log :
        /\ ReadsAsUnmount(log, i)
        /\ \/ /\ m = Stamp(SubSeq(Drop(log, i), 1, Len(m)))
              /\ OpenAt(i, Len(log)) \/ ~InOrder(Tasks(Drop(log, i)))
           \/ \E j \in Later(log, i) :
                 /\ j = NextOf(log, i) /\ Len(m) < j
                 /\ m = Stamp(SubSeq(Swap(log, i, j), 1, Len(m)))

LEMMA SwapIs ==
    ASSUME NEW S, NEW s \in Seq(S), NEW i \in 1..Len(s), NEW j \in 1..Len(s), i # j
    PROVE  /\ Swap(s, i, j) \in Seq(S) /\ Len(Swap(s, i, j)) = Len(s)
           /\ Swap(s, i, j)[i] = s[j] /\ Swap(s, i, j)[j] = s[i]
           /\ \A k \in 1..Len(s) : k \notin {i, j} => Swap(s, i, j)[k] = s[k]
<1>1. Len(s) \in Nat /\ DOMAIN s = 1..Len(s) /\ \A k \in 1..Len(s) : s[k] \in S
  OBVIOUS
<1>2. PICK w : w = Swap(s, i, j)
  OBVIOUS
<1>3. DOMAIN w = 1..Len(s) /\ w = [k \in 1..Len(s) |-> w[k]]
  BY <1>1, <1>2 DEF Swap
<1>4. w[i] = s[j] /\ w[j] = s[i] /\ \A k \in 1..Len(s) : k \notin {i, j} => w[k] = s[k]
  BY <1>1, <1>2 DEF Swap
<1>5. \A k \in 1..Len(s) : w[k] \in S
  BY <1>1, <1>4
<1>6. w \in Seq(S) /\ Len(w) = Len(s)
  <2>1. Len(s) \in Nat /\ IsCounted(w, Len(s), S)
    BY <1>1, <1>3, <1>5 DEF IsCounted
  <2> QED BY <2>1, CountedIsSeq, Zenon
<1> QED BY <1>2, <1>4, <1>6

LEMMA SwapsAreNoticed ==
    ASSUME NEW f, Sole(f), NEW mutant \in SwapSameTask(log), NEW m, m = Stamp(Cut(mutant)),
           NEW events \in Convert(m), InOrder(events)
    PROVE  ReadsOnward(m)
<1> DEFINE P == {i \in DOMAIN log : Later(log, i) # {}}
           a == Tasks(log)
<1>1. /\ log \in Seq(RealEntries) /\ \A k \in 1..Len(log) : log[k].fs = f
      /\ Len(log) \in Nat /\ DOMAIN log = 1..Len(log)
      /\ a \in Seq(TaskEvents) /\ Len(a) = Len(log) /\ InOrder(a)
      /\ \A k \in 1..Len(log) : a[k] = AsTask(log[k])
  BY SoleTasks
<1>2. PICK i \in Spread(Ascending(P), PerOp) : mutant = <<Swap(log, i, NextOf(log, i)), i>>
  BY DEF SwapSameTask
<1>3. i \in P
  <2>1. P \in SUBSET (1..Len(log)) /\ P \in SUBSET Nat
    BY <1>1
  <2>2. IsFiniteSet(P)
    BY <1>1, <2>1, IntervalCount, FS_Subset
  <2> HIDE DEF P
  <2> QED BY <1>2, <2>1, <2>2, SpreadTakes, ToolsAssumption
<1>4. i \in 1..Len(log) /\ Later(log, i) # {} /\ i \in Nat
  BY <1>1, <1>3
<1> DEFINE t == TaskOf(log[i])
<1>5. PICK j : j = NextOf(log, i)
  OBVIOUS
<1>6. j \in Later(log, i) /\ j \in 1..Len(log) /\ i < j /\ Following(a, i, j, t)
  BY <1>1, <1>4, <1>5, NextIsFollowing
<1>7. PICK w : w = Swap(log, i, j)
  OBVIOUS
<1>8. /\ w \in Seq(RealEntries) /\ Len(w) = Len(log) /\ w[i] = log[j] /\ w[j] = log[i]
      /\ \A k \in 1..Len(log) : k \notin {i, j} => w[k] = log[k]
  <2>1. i # j /\ log \in Seq(RealEntries)
    BY <1>1, <1>4, <1>6
  <2>2. /\ Swap(log, i, j) \in Seq(RealEntries) /\ Len(Swap(log, i, j)) = Len(log)
        /\ Swap(log, i, j)[i] = log[j] /\ Swap(log, i, j)[j] = log[i]
        /\ \A k \in 1..Len(log) : k \notin {i, j} => Swap(log, i, j)[k] = log[k]
    BY <1>4, <1>6, <2>1, SwapIs
  <2> QED BY <1>7, <2>2
<1>9. OnlyOf(w, f)
  <2>1. \A k \in 1..Len(w) : w[k].fs = f
    BY <1>1, <1>4, <1>6, <1>8
  <2> QED BY <1>8, <2>1 DEF OnlyOf
<1>10. m = Stamp(Cut(<<w, i>>))
  BY <1>2, <1>5, <1>7
<1> HIDE DEF a, t, P
<1>11. /\ Len(m) \in Nat /\ Len(m) <= Len(w) /\ (Len(m) = Len(w) \/ i <= Len(m))
       /\ m = Stamp(SubSeq(w, 1, Len(m)))
       /\ events \in Seq(TaskEvents) /\ Len(events) = Len(m)
       /\ \A k \in 1..Len(m) : events[k] = AsTask(w[k])
  <2>1. IsCut(m, events, w, i)
    BY <1>4, <1>9, <1>10, MutantIs, Zenon
  <2> QED BY <2>1 DEF IsCut
<1>12. i <= Len(events) /\ Len(events) <= Len(a) /\ i \in 1..Len(m)
  BY <1>1, <1>4, <1>8, <1>11
<1>13. events[i] = a[j]
  BY <1>1, <1>6, <1>8, <1>11, <1>12
<1>14. j <= Len(events) => events[j] = a[i]
  <2>1. j <= Len(events) => j \in 1..Len(m)
    BY <1>1, <1>6, <1>11
  <2> QED BY <1>1, <1>4, <1>8, <1>11, <2>1
<1>15. \A k \in 1..Len(events) : k \notin {i, j} => events[k] = a[k]
  <2>1. \A k \in 1..Len(events) : k \in 1..Len(log) /\ k \in 1..Len(m)
    BY <1>1, <1>8, <1>11
  <2> QED BY <1>1, <1>8, <1>11, <2>1
<1>16. Len(events) < j /\ a[i] = EnterOf(t, "QuotaDisable") /\ Waited(a, i - 1, t)
  BY <1>1, <1>6, <1>11, <1>12, <1>13, <1>14, <1>15, SwapIsNoticed
<1>17. ReadsAsUnmount(log, i)
  BY <1>1, <1>4, <1>16, WaitedReads DEF a, t
<1> QED BY <1>1, <1>4, <1>5, <1>6, <1>7, <1>11, <1>16, <1>17 DEF ReadsOnward

LEMMA DropsAreNoticed ==
    ASSUME NEW f, Sole(f), NEW mutant \in DropEnter(log), NEW m, m = Stamp(Cut(mutant)),
           NEW events \in Convert(m), InOrder(events)
    PROVE  ReadsOnward(m)
<1> DEFINE P == {i \in Ends(log, "Enter") : Later(log, i) # {}}
           a == Tasks(log)
<1>1. /\ log \in Seq(RealEntries) /\ \A k \in 1..Len(log) : log[k].fs = f
      /\ Len(log) \in Nat /\ DOMAIN log = 1..Len(log)
      /\ a \in Seq(TaskEvents) /\ Len(a) = Len(log) /\ InOrder(a)
      /\ \A k \in 1..Len(log) : a[k] = AsTask(log[k])
  BY SoleTasks
<1>2. PICK i \in Spread(Ascending(P), PerOp) : mutant = <<Drop(log, i), NextOf(log, i) - 1>>
  BY DEF DropEnter
<1>3. i \in P
  <2>1. P \in SUBSET (1..Len(log)) /\ P \in SUBSET Nat
    BY <1>1 DEF Ends
  <2>2. IsFiniteSet(P)
    BY <1>1, <2>1, IntervalCount, FS_Subset
  <2> HIDE DEF P
  <2> QED BY <1>2, <2>1, <2>2, SpreadTakes, ToolsAssumption
<1>4. i \in 1..Len(log) /\ Later(log, i) # {} /\ i \in Nat
  BY <1>1, <1>3 DEF Ends
<1> DEFINE t == TaskOf(log[i])
<1>5. PICK j : j = NextOf(log, i)
  OBVIOUS
<1>6. j \in Later(log, i) /\ j \in 1..Len(log) /\ i < j /\ Following(a, i, j, t)
  BY <1>1, <1>4, <1>5, NextIsFollowing
<1>7. PICK w : w = Drop(log, i)
  OBVIOUS
<1>8. /\ w \in Seq(RealEntries) /\ Len(w) = Len(log) - 1
      /\ \A k \in 1..(Len(log) - 1) : w[k] = IF k < i THEN log[k] ELSE log[k + 1]
  BY <1>1, <1>4, <1>7, RemoveAtIs DEF Drop
<1>9. OnlyOf(w, f)
  <2>1. \A k \in 1..(Len(log) - 1) : k \in 1..Len(log) /\ k + 1 \in 1..Len(log)
    BY <1>1
  <2>2. \A k \in 1..Len(w) : w[k].fs = f
    BY <1>1, <1>8, <2>1
  <2> QED BY <1>8, <2>2 DEF OnlyOf
<1>10. m = Stamp(Cut(<<w, j - 1>>)) /\ j - 1 \in Nat
  BY <1>1, <1>2, <1>5, <1>6, <1>7
<1> HIDE DEF a, t, P
<1>11. /\ Len(m) \in Nat /\ Len(m) <= Len(w) /\ (Len(m) = Len(w) \/ j - 1 <= Len(m))
       /\ m = Stamp(SubSeq(w, 1, Len(m)))
       /\ events \in Seq(TaskEvents) /\ Len(events) = Len(m)
       /\ \A k \in 1..Len(m) : events[k] = AsTask(w[k])
  <2>1. IsCut(m, events, w, j - 1)
    BY <1>9, <1>10, MutantIs, Zenon
  <2> QED BY <2>1 DEF IsCut
<1>12. j - 1 <= Len(events) /\ Len(events) < Len(a) /\ Len(events) <= Len(log) - 1
  <2>1. /\ Len(events) = Len(m) /\ Len(m) \in Nat /\ Len(m) <= Len(log) - 1
        /\ Len(m) = Len(log) - 1 \/ j - 1 <= Len(m)
    BY <1>8, <1>11
  <2>2. Len(a) = Len(log) /\ Len(log) \in Nat /\ j \in Nat /\ j <= Len(log)
    BY <1>1, <1>6
  <2> QED BY <2>1, <2>2
<1>13. \A k \in 1..(Len(log) - 1) : (k < i => AsTask(w[k]) = a[k]) /\ (k >= i => AsTask(w[k]) = a[k + 1])
  <2>1. \A k \in 1..(Len(log) - 1) : k \in 1..Len(log) /\ k + 1 \in 1..Len(log) /\ (k >= i <=> ~(k < i))
    BY <1>1, <1>4
  <2> QED BY <1>1, <1>8, <2>1
<1>14. BeginsWithout(events, a, i)
  <2>1. \A k \in 1..Len(events) : k \in 1..(Len(log) - 1) /\ k \in 1..Len(m)
    <3>1. Len(events) = Len(m) /\ Len(m) \in Nat /\ Len(log) \in Nat
      BY <1>1, <1>11
    <3> QED BY <1>12, <3>1
  <2>2. \A k \in 1..Len(events) : events[k] = AsTask(w[k])
    BY <1>11, <2>1
  <2> QED BY <1>12, <1>13, <2>1, <2>2 DEF BeginsWithout
<1>15. a[i] = EnterOf(t, "QuotaDisable") /\ Waited(a, i - 1, t)
  BY <1>1, <1>6, <1>11, <1>12, <1>14, DropIsNoticed
<1>16. ReadsAsUnmount(log, i)
  BY <1>1, <1>4, <1>15, WaitedReads DEF a, t
<1>17. ASSUME ~OpenAt(i, Len(log)) PROVE ~InOrder(Tasks(Drop(log, i)))
  <2>1. PICK q \in (i + 1)..Len(log) : /\ log[q].at = "Done" /\ log[q].tid = log[i].tid
                                       /\ log[q].call = log[i].call
    BY <1>1, <1>4, <1>17 DEF OpenAt
  <2>2. log[i].call = "QuotaDisable"
    BY <1>16 DEF ReadsAsUnmount
  <2>3. TaskOf(log[q]) = t
    BY <2>1, <2>2 DEF TaskOf, t
  <2>4. q \in 1..Len(log)
    BY <1>1, <1>4
  <2>5. a[q] = [task |-> t, call |-> "QuotaDisable", at |-> "Done"]
    BY <1>1, <2>1, <2>2, <2>3, <2>4 DEF AsTask
  <2>6. /\ Tasks(w) \in Seq(TaskEvents) /\ Len(Tasks(w)) = Len(w)
        /\ \A k \in 1..Len(w) : Tasks(w)[k] = AsTask(w[k])
    BY <1>8, TasksIs
  <2>7. BeginsWithout(Tasks(w), a, i)
    <3>1. Len(Tasks(w)) = Len(log) - 1 /\ Len(Tasks(w)) < Len(a)
      BY <1>1, <1>8, <2>6
    <3>2. \A k \in 1..(Len(log) - 1) : Tasks(w)[k] = AsTask(w[k])
      BY <1>8, <2>6
    <3> QED BY <1>13, <3>1, <3>2 DEF BeginsWithout
  <2>8. ~InOrder(Tasks(w))
    BY <1>1, <1>4, <1>8, <1>15, <2>5, <2>6, <2>7, DisableIsNoticed
  <2> QED BY <1>7, <2>8
<1> QED BY <1>1, <1>4, <1>7, <1>11, <1>16, <1>17 DEF ReadsOnward

LEMMA DuplicatesAreNoticed ==
    ASSUME NEW f, Sole(f), NEW mutant \in DupDone(log), NEW m, m = Stamp(Cut(mutant)),
           NEW events \in Convert(m)
    PROVE  ~InOrder(events)
<1> DEFINE P == Ends(log, "Done")
           a == Tasks(log)
<1>1. /\ log \in Seq(RealEntries) /\ \A k \in 1..Len(log) : log[k].fs = f /\ log[k] \in RealEntries
      /\ Len(log) \in Nat /\ DOMAIN log = 1..Len(log)
      /\ a \in Seq(TaskEvents) /\ Len(a) = Len(log) /\ InOrder(a)
      /\ \A k \in 1..Len(log) : a[k] = AsTask(log[k]) /\ a[k].at = log[k].at
  BY SoleTasks
<1>2. PICK i \in Spread(Ascending(P), PerOp) : mutant = <<InsertAt(log, i + 1, log[i]), i + 1>>
  BY DEF DupDone
<1>3. i \in P
  <2>1. P \in SUBSET (1..Len(log)) /\ P \in SUBSET Nat
    BY <1>1 DEF Ends
  <2>2. IsFiniteSet(P)
    BY <1>1, <2>1, IntervalCount, FS_Subset
  <2> HIDE DEF P
  <2> QED BY <1>2, <2>1, <2>2, SpreadTakes, ToolsAssumption
<1>4. i \in 1..Len(log) /\ i \in Nat /\ log[i].at = "Done" /\ i + 1 \in Nat /\ i + 1 \in 1..(Len(log) + 1)
      /\ (i + 1) - 1 = i
  BY <1>1, <1>3 DEF Ends
<1>5. PICK w : w = InsertAt(log, i + 1, log[i])
  OBVIOUS
<1> HIDE DEF a, P
<1>6. /\ w \in Seq(RealEntries) /\ Len(w) = Len(log) + 1 /\ w[i + 1] = log[i]
      /\ \A k \in 1..i : w[k] = log[k]
      /\ \A k \in (i + 1)..Len(log) : w[k + 1] = log[k]
  <2>1. log[i] \in RealEntries /\ log \in Seq(RealEntries)
    BY <1>1, <1>4
  <2>2. w \in Seq(RealEntries) /\ IsWith(w, log, i + 1, log[i])
    BY <1>4, <1>5, <2>1, InsertAtIs, Zenon
  <2> QED BY <1>4, <2>2 DEF IsWith
<1>7. OnlyOf(w, f)
  <2>1. ASSUME NEW k \in 1..Len(w) PROVE w[k].fs = f
    <3>1. k \in 1..i \/ k = i + 1 \/ (k - 1 \in (i + 1)..Len(log) /\ (k - 1) + 1 = k)
      BY <1>1, <1>4, <1>6
    <3>2. CASE k \in 1..i
      <4>1. k \in 1..Len(log) /\ w[k] = log[k]
        BY <1>1, <1>4, <1>6, <3>2
      <4> QED BY <1>1, <4>1
    <3>3. CASE k = i + 1
      BY <1>1, <1>4, <1>6, <3>3
    <3>4. CASE k - 1 \in (i + 1)..Len(log) /\ (k - 1) + 1 = k
      <4>1. w[(k - 1) + 1] = log[k - 1]
        BY <1>6, <3>4
      <4>2. k - 1 \in 1..Len(log)
        BY <1>4, <3>4
      <4> QED BY <1>1, <3>4, <4>1, <4>2
    <3> QED BY <3>1, <3>2, <3>3, <3>4
  <2> QED BY <1>6, <2>1 DEF OnlyOf
<1>8. m = Stamp(Cut(<<w, i + 1>>))
  BY <1>2, <1>5
<1>9. /\ Len(m) \in Nat /\ Len(m) <= Len(w) /\ (Len(m) = Len(w) \/ i + 1 <= Len(m))
      /\ events \in Seq(TaskEvents) /\ Len(events) = Len(m)
      /\ \A k \in 1..Len(m) : events[k] = AsTask(w[k])
  <2>1. IsCut(m, events, w, i + 1)
    BY <1>4, <1>7, <1>8, MutantIs, Zenon
  <2> QED BY <2>1 DEF IsCut
<1>10. i + 1 <= Len(m) /\ i + 1 \in 1..Len(m) /\ \A k \in 1..i : k \in 1..Len(m) /\ k \in 1..Len(log)
  <2>1. Len(w) = Len(log) + 1 /\ Len(log) \in Nat /\ i <= Len(log)
    BY <1>1, <1>4, <1>6
  <2> QED BY <1>4, <1>9, <2>1
<1>11. events[i + 1] = a[i] /\ \A k \in 1..i : events[k] = a[k]
  BY <1>1, <1>4, <1>6, <1>9, <1>10
<1>12. i \in 1..Len(a) /\ a[i].at = "Done" /\ i + 1 <= Len(events)
  BY <1>1, <1>4, <1>9, <1>10
<1> QED BY <1>1, <1>9, <1>11, <1>12, DuplicateIsNoticed

\* The k-th event of a kind has k of them up to it.
Begun(call) == {i \in Ends(log, "Enter") : log[i].call = call}

LEMMA BegunIs ==
    ASSUME NEW f, Sole(f), NEW call, NEW k \in DOMAIN Ascending(Begun(call))
    PROVE  /\ Ascending(Begun(call))[k] \in 1..Len(log)
           /\ log[Ascending(Begun(call))[k]].at = "Enter" /\ log[Ascending(Begun(call))[k]].call = call
           /\ Cardinality(Entered(Tasks(log), call, Ascending(Begun(call))[k])) = k
<1>1. /\ Len(log) \in Nat /\ DOMAIN log = 1..Len(log)
      /\ \A i \in 1..Len(log) : Tasks(log)[i].call = log[i].call /\ Tasks(log)[i].at = log[i].at
  BY SoleTasks
<1>2. \A i : i \in Begun(call) <=> i \in 1..Len(log) /\ log[i].at = "Enter" /\ log[i].call = call
  BY <1>1 DEF Begun, Ends
<1>3. Begun(call) \in SUBSET Int /\ IsFiniteSet(Begun(call))
  <2>1. Begun(call) \in SUBSET (1..Len(log))
    BY <1>2
  <2> QED BY <1>1, <2>1, IntervalCount, FS_Subset
<1>4. PICK i : i = Ascending(Begun(call))[k]
  OBVIOUS
<1>5. i \in Begun(call) /\ Rank(Begun(call), i) = k
  BY <1>3, <1>4, AscendingIs
<1>6. {j \in Begun(call) : j <= i} = Entered(Tasks(log), call, i)
  <2>1. \A j : j \in 1..i <=> j \in 1..Len(log) /\ j <= i
    BY <1>1, <1>2, <1>5
  <2> QED BY <1>1, <1>2, <2>1 DEF Entered
<1> QED BY <1>2, <1>4, <1>5, <1>6 DEF Rank

LEMMA EarlyWorkersAreNoticed ==
    ASSUME NEW f, Sole(f), NEW mutant \in EarlyWorker(log), NEW m, m = Stamp(Cut(mutant)),
           NEW events \in Convert(m)
    PROVE  ~InOrder(events)
<1> DEFINE starts == Ascending(Begun("RescanWorker"))
           zeros  == Ascending(Begun("RescanZeroTracking"))
           P == {k \in DOMAIN starts \cap DOMAIN zeros : zeros[k] < starts[k]}
           a == Tasks(log)
<1>1. /\ log \in Seq(RealEntries) /\ \A k \in 1..Len(log) : log[k].fs = f /\ log[k] \in RealEntries
      /\ Len(log) \in Nat /\ DOMAIN log = 1..Len(log)
      /\ a \in Seq(TaskEvents) /\ Len(a) = Len(log) /\ InOrder(a)
      /\ \A k \in 1..Len(log) : a[k] = AsTask(log[k]) /\ a[k].at = log[k].at /\ a[k].call = log[k].call
  BY SoleTasks
<1>2. PICK k \in Spread(Ascending(P), PerOp) :
         mutant = <<InsertAt(Drop(log, starts[k]), zeros[k], log[starts[k]]), starts[k] + 1>>
  BY DEF EarlyWorker, Begun
<1>3. k \in P
  <2>1. DOMAIN starts = 1..Cardinality(Begun("RescanWorker"))
    BY DEF Ascending
  <2>2. Cardinality(Begun("RescanWorker")) \in Nat
    <3>1. Begun("RescanWorker") \in SUBSET (1..Len(log))
      BY <1>1 DEF Begun, Ends
    <3>2. IsFiniteSet(Begun("RescanWorker"))
      BY <1>1, <3>1, IntervalCount, FS_Subset
    <3> QED BY <3>2, FS_CardinalityType
  <2> HIDE DEF starts, zeros
  <2>3. P \in SUBSET (1..Cardinality(Begun("RescanWorker"))) /\ P \in SUBSET Nat
    BY <2>1, <2>2
  <2>4. IsFiniteSet(P)
    BY <2>2, <2>3, IntervalCount, FS_Subset
  <2> HIDE DEF P
  <2> QED BY <1>2, <2>3, <2>4, SpreadTakes, ToolsAssumption
<1>4. k \in DOMAIN starts /\ k \in DOMAIN zeros /\ zeros[k] < starts[k]
  BY <1>3
<1>5. PICK s, z : s = starts[k] /\ z = zeros[k]
  OBVIOUS
<1>6. /\ s \in 1..Len(log) /\ log[s].at = "Enter" /\ log[s].call = "RescanWorker"
      /\ Cardinality(Entered(a, "RescanWorker", s)) = k
  BY <1>4, <1>5, BegunIs
<1>7. /\ z \in 1..Len(log) /\ log[z].at = "Enter" /\ log[z].call = "RescanZeroTracking"
      /\ Cardinality(Entered(a, "RescanZeroTracking", z)) = k
  BY <1>4, <1>5, BegunIs
<1>8. PICK d, w : d = Drop(log, s) /\ w = InsertAt(d, z, log[s])
  OBVIOUS
<1>9. m = Stamp(Cut(<<w, s + 1>>))
  BY <1>2, <1>5, <1>8
<1>10. z < s
  BY <1>4, <1>5
<1> HIDE DEF starts, zeros, P, a
<1>11. /\ s \in Nat /\ z \in Nat /\ z \in 1..(s - 1) /\ s + 1 \in Nat /\ Len(log) - 1 \in Nat
       /\ z \in 1..((Len(log) - 1) + 1) /\ (Len(log) - 1) + 1 = Len(log)
  BY <1>1, <1>6, <1>7, <1>10
<1>12. /\ d \in Seq(RealEntries) /\ Len(d) = Len(log) - 1
       /\ \A j \in 1..(Len(log) - 1) : d[j] = IF j < s THEN log[j] ELSE log[j + 1]
  BY <1>1, <1>6, <1>8, RemoveAtIs DEF Drop
<1>13. /\ w \in Seq(RealEntries) /\ Len(w) = Len(log) /\ w[z] = log[s]
       /\ \A j \in 1..(z - 1) : w[j] = d[j]
       /\ \A j \in z..(Len(log) - 1) : w[j + 1] = d[j]
  <2>1. log[s] \in RealEntries
    BY <1>1, <1>6
  <2>2. z \in 1..(Len(d) + 1)
    BY <1>11, <1>12
  <2>3. w \in Seq(RealEntries) /\ IsWith(w, d, z, log[s])
    BY <1>8, <1>12, <2>1, <2>2, InsertAtIs, Zenon
  <2> QED BY <1>11, <1>12, <2>3 DEF IsWith
<1>14. \A j \in 1..(Len(log) - 1) : d[j].fs = f
  <2>1. \A j \in 1..(Len(log) - 1) : j \in 1..Len(log) /\ j + 1 \in 1..Len(log)
    BY <1>1
  <2> QED BY <1>1, <1>12, <2>1
<1>15. OnlyOf(w, f)
  <2>1. ASSUME NEW j \in 1..Len(w) PROVE w[j].fs = f
    <3>1. j \in 1..(z - 1) \/ j = z \/ (j - 1 \in z..(Len(log) - 1) /\ (j - 1) + 1 = j)
      BY <1>1, <1>11, <1>13
    <3>2. CASE j \in 1..(z - 1)
      <4>1. j \in 1..(Len(log) - 1) /\ w[j] = d[j]
        BY <1>1, <1>11, <1>13, <3>2
      <4> QED BY <1>14, <4>1
    <3>3. CASE j = z
      BY <1>1, <1>6, <1>13, <3>3
    <3>4. CASE j - 1 \in z..(Len(log) - 1) /\ (j - 1) + 1 = j
      <4>1. j - 1 \in 1..(Len(log) - 1) /\ w[(j - 1) + 1] = d[j - 1]
        BY <1>1, <1>11, <1>13, <3>4
      <4> QED BY <1>14, <3>4, <4>1
    <3> QED BY <3>1, <3>2, <3>3, <3>4
  <2> QED BY <1>13, <2>1 DEF OnlyOf
<1>16. /\ Len(m) \in Nat /\ Len(m) <= Len(w) /\ (Len(m) = Len(w) \/ s + 1 <= Len(m))
       /\ events \in Seq(TaskEvents) /\ Len(events) = Len(m)
       /\ \A j \in 1..Len(m) : events[j] = AsTask(w[j])
  <2>1. IsCut(m, events, w, s + 1)
    BY <1>9, <1>11, <1>15, MutantIs, Zenon
  <2> QED BY <2>1 DEF IsCut
<1>17. s <= Len(m)
  <2>1. Len(w) = Len(log) /\ s <= Len(log) /\ Len(log) \in Nat
    BY <1>1, <1>6, <1>13
  <2> QED BY <1>11, <1>16, <2>1
<1>18. /\ events[z] = a[s]
       /\ \A j \in 1..(z - 1) : events[j] = a[j]
       /\ \A j \in z..(s - 1) : events[j + 1] = a[j]
  <2>1. z \in 1..Len(m) /\ \A j \in 1..(z - 1) : j \in 1..Len(m) /\ j \in 1..(Len(log) - 1) /\ j \in 1..Len(log) /\ j < s
    <3>1. s <= Len(log) /\ Len(log) \in Nat /\ Len(m) \in Nat
      BY <1>1, <1>6, <1>16
    <3> QED BY <1>11, <1>17, <3>1
  <2>2. \A j \in z..(s - 1) : /\ j + 1 \in 1..Len(m) /\ j \in z..(Len(log) - 1) /\ j \in 1..(Len(log) - 1)
                              /\ j \in 1..Len(log) /\ j < s
    <3>1. s <= Len(log) /\ Len(log) \in Nat /\ Len(m) \in Nat
      BY <1>1, <1>6, <1>16
    <3> QED BY <1>11, <1>17, <3>1
  <2>3. events[z] = a[s]
    BY <1>1, <1>6, <1>13, <1>16, <2>1
  <2>4. ASSUME NEW j \in 1..(z - 1) PROVE events[j] = a[j]
    <3>1. events[j] = AsTask(w[j]) /\ w[j] = d[j] /\ d[j] = log[j] /\ a[j] = AsTask(log[j])
      BY <1>1, <1>12, <1>13, <1>16, <2>1
    <3> QED BY <3>1
  <2>5. ASSUME NEW j \in z..(s - 1) PROVE events[j + 1] = a[j]
    <3>1. events[j + 1] = AsTask(w[j + 1]) /\ w[j + 1] = d[j] /\ d[j] = log[j] /\ a[j] = AsTask(log[j])
      BY <1>1, <1>12, <1>13, <1>16, <2>2
    <3> QED BY <3>1
  <2> QED BY <2>3, <2>4, <2>5
<1>19. BeginsEarly(events, a, z, s)
  BY <1>16, <1>17, <1>18 DEF BeginsEarly
<1>20. a[s] = EnterOf(Scanner, "RescanWorker") /\ a[z].call = "RescanZeroTracking" /\ a[z].at = "Enter"
  BY <1>1, <1>6, <1>7 DEF AsTask, TaskOf, EnterOf
<1>21. s \in 1..Len(a) /\ Cardinality(Entered(a, "RescanWorker", s)) = Cardinality(Entered(a, "RescanZeroTracking", z))
  BY <1>1, <1>6, <1>7
<1> QED BY <1>1, <1>11, <1>16, <1>19, <1>20, <1>21, EarlyScanIsNoticed

LEMMA ControlsPass ==
    ASSUME NEW f, Sole(f), NEW c \in Controls(log)
    PROVE  InOrder(Tasks(c))
<1>1. /\ log \in Seq(RealEntries) /\ Len(log) \in Nat
      /\ Tasks(log) \in Seq(TaskEvents) /\ Len(Tasks(log)) = Len(log) /\ InOrder(Tasks(log))
      /\ \A k \in 1..Len(log) : Tasks(log)[k] = AsTask(log[k])
  BY SoleTasks
<1>2. PICK n \in 0..Len(log) : c = SubSeq(log, 1, n)
  <2>1. Len(log) \div 4 \in 0..Len(log) /\ (9 * Len(log)) \div 10 \in 0..Len(log)
    BY <1>1
  <2> QED BY <2>1 DEF Controls
<1>3. n \in Nat /\ n <= Len(log)
  BY <1>1
<1>4. c \in Seq(RealEntries) /\ Len(c) = n /\ \A k \in 1..n : c[k] = log[k]
  BY <1>1, <1>2, <1>3
<1>5. Tasks(c) \in Seq(TaskEvents) /\ Len(Tasks(c)) = n /\ \A k \in 1..n : Tasks(c)[k] = AsTask(c[k])
  BY <1>4, TasksIs
<1>6. \A k \in 1..n : Tasks(c)[k] = Tasks(log)[k]
  BY <1>1, <1>3, <1>4, <1>5
<1>7. SubSeq(Tasks(c), 1, n) = SubSeq(Tasks(log), 1, n) /\ SubSeq(Tasks(c), 1, n) = Tasks(c)
  <2>1. SubSeq(Tasks(c), 1, n) = SubSeq(Tasks(log), 1, n)
    BY <1>1, <1>3, <1>5, <1>6, SamePrefix
  <2>2. SubSeq(Tasks(c), 1, Len(Tasks(c))) = Tasks(c)
    BY <1>5
  <2> QED BY <1>5, <2>1, <2>2
<1>8. InOrder(SubSeq(Tasks(log), 1, n))
  BY <1>1, PrefixInOrder
<1> QED BY <1>7, <1>8

\* Whatever the trace of one file system: each mutant is out of program order before
\* it is cut, but for those that read as an unmount; the controls are in order.
THEOREM MutantsAreNoticed == Spec => []MutantsAreIllegal
<1>1. ASSUME LogIsReal, CallsInv PROVE MutantsAreIllegal
  <2> SUFFICES ASSUME OneFileSystem, warm = {}
               PROVE  /\ \A m \in Mutants(log) : \A events \in Convert(m) : ~InOrder(events) \/ ReadsOnward(m)
                      /\ \A c \in Controls(log) : InOrder(Tasks(c))
    BY DEF MutantsAreIllegal, ReadsOnward
  <2>1. PICK f \in FileSystems : Sole(f)
    BY <1>1, SoleIs
  <2>2. ASSUME NEW m \in Mutants(log), NEW events \in Convert(m), InOrder(events)
        PROVE  ReadsOnward(m)
    <3>1. PICK mutant \in SwapSameTask(log) \cup DropEnter(log) \cup DupDone(log) \cup EarlyWorker(log) :
             m = Stamp(Cut(mutant))
      BY DEF Mutants
    <3>2. CASE mutant \in SwapSameTask(log)
      BY <2>1, <2>2, <3>1, <3>2, SwapsAreNoticed
    <3>3. CASE mutant \in DropEnter(log)
      BY <2>1, <2>2, <3>1, <3>3, DropsAreNoticed
    <3>4. CASE mutant \in DupDone(log)
      BY <2>1, <2>2, <3>1, <3>4, DuplicatesAreNoticed
    <3>5. CASE mutant \in EarlyWorker(log)
      BY <2>1, <2>2, <3>1, <3>5, EarlyWorkersAreNoticed
    <3> QED BY <3>1, <3>2, <3>3, <3>4, <3>5
  <2>3. \A c \in Controls(log) : InOrder(Tasks(c))
    BY <2>1, ControlsPass
  <2> QED BY <2>2, <2>3
<1> QED BY <1>1, TracesAreInOrder, PTL
=============================================================================
