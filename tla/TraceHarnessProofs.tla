-------------------------- MODULE TraceHarnessProofs --------------------------
(***************************************************************************)
(* The harness, for any number of CPUs, blocks, calls and any size of the  *)
(* buffers.                                                                *)
(***************************************************************************)
EXTENDS TraceHarness, DataLemmas, FiniteSetTheorems, TLAPS

-----------------------------------------------------------------------------
(* The way of the events.                                                  *)

Actions == {"AddFreeSpace", "RemoveFreeSpace", "VIOLATION_DoubleAdd", "CacheBlockGroup_Start"}
Pairs == Nat \X Nat
Entries == [action : Actions, range : Pairs]

Unsorted == {"attaching", "workload", "stopping", "waiting", "sorting"}

HarnessTypes ==
    /\ source \in {"workload"} \cup Scenarios /\ checked \in BOOLEAN
    /\ phase \in Unsorted \cup {"checking", "reporting", "exited"}
    /\ bpftrace \in {"starting", "live", "draining", "dead"}
    /\ buffers \in [CPUs -> Seq(Nat)]
    /\ \E n \in Nat : DOMAIN trace = 1..n
    /\ phase \in Unsorted => trace \in Seq(Nat)
    /\ cut \in BOOLEAN /\ checker_exit \in {0, 1}
    /\ result \in {"none", "CONFORMS", "VIOLATIONS"}

Empty == \A c \in CPUs : buffers[c] = <<>>

\* Every event so far is in one place, the file or a buffer.
InOnePlace ==
    /\ \A k \in DOMAIN trace : trace[k] \in 1..Len(log)
    /\ \A c \in CPUs : \A k \in DOMAIN buffers[c] : buffers[c][k] \in 1..Len(log)
    /\ \A k, l \in DOMAIN trace : trace[k] = trace[l] => k = l
    /\ \A c, d \in CPUs : \A k \in DOMAIN buffers[c], l \in DOMAIN buffers[d] :
          buffers[c][k] = buffers[d][l] => c = d /\ k = l
    /\ \A c \in CPUs : \A k \in DOMAIN buffers[c], l \in DOMAIN trace : buffers[c][k] # trace[l]
    /\ \A i \in 1..Len(log) :
          \/ \E k \in DOMAIN trace : trace[k] = i
          \/ \E c \in CPUs : \E k \in DOMAIN buffers[c] : buffers[c][k] = i

Given == Events(trace)          \* what the checker is given
GivenExit == ExitCode(Given)

\* What holds as long as nothing went wrong.
NothingWrong ==
    /\ ~cut
    /\ phase = "workload" => bpftrace = "live"
    /\ phase \notin {"attaching", "workload"} => bpftrace \in {"draining", "dead"}
    /\ bpftrace = "dead" => Empty
    /\ phase \in Unsorted => InOnePlace
    /\ phase \notin Unsorted => Given = log

\* How far the script and bpftrace are.
PhaseOrder ==
    /\ result = "none" <=> phase # "exited"
    /\ phase = "attaching" => log = <<>>
    /\ phase = "attaching" \/ bpftrace = "starting" => trace = <<>> /\ Empty
    /\ phase \notin {"attaching", "workload", "stopping", "waiting"} => bpftrace = "dead"
    /\ phase \in {"reporting", "exited"} => checker_exit = IF checked THEN GivenExit ELSE 0

PipeInv == HarnessTypes /\ PhaseOrder /\ (faults = {} => NothingWrong)

-----------------------------------------------------------------------------
(* The cache and the checker's view of it.                                 *)

View == FoldLeft(Process, NoCache, log)

AddedRanges == {log[i].range : i \in {j \in DOMAIN log : log[j].action = "AddFreeSpace"}}
FirstBlocks == {r[1] : r \in AddedRanges}
Busy == {c \in CPUs : ~Free(c)}
Adders == {c \in CPUs : Adding(c)}
Coming == {calling[c].range[1] : c \in Adders}

\* Counted and not yet in the cache, or out of it and still counted.
Owed == {calling[c].range[1] : c \in {d \in CPUs : calling[d].stage \in {"alarm", "lower", "lessen"}}}

Stages == {"none", "raise", "alarm", "add", "lower", "lessen", "remove"}
Calls == [stage : Stages, range : Ranges \cup {NoRange}, read : Int]

CacheTypes ==
    /\ serialized \in BOOLEAN /\ doubled \in BOOLEAN /\ contested \in BOOLEAN /\ warm \in BOOLEAN
    /\ cached \in [Blocks -> Nat] /\ add_count \in [Blocks -> Int]
    /\ found \in [CPUs -> Ranges \cup {NoRange}]
    /\ calling \in [CPUs -> Calls]
    /\ calls \in Nat /\ log \in Seq(Entries)

\* What is on its way or counted was seen by a probe.
LogIsReal ==
    /\ AddedRanges \subseteq Ranges
    /\ \A c \in Busy : calling[c].range \in Ranges
    /\ \A c \in Adders : calling[c].range \in AddedRanges
    /\ \A c \in CPUs : calling[c].stage \in {"lower", "lessen"} =>
          calling[c].range[1] \in FirstBlocks
    /\ \A b \in Blocks : add_count[b] > 0 => b \in FirstBlocks

\* Of a cold cache that is used by whole ranges.
WholeRanges ==
    /\ \A b \in Blocks : cached[b] > 0 => \E r \in AddedRanges : b \in In(r)
    /\ \A r \in AddedRanges : \A a, b \in In(r) : cached[a] = cached[b]
    /\ \A c \in Busy : calling[c].range \in AddedRanges

\* Whoever is at a range is alone there and finds it out of the cache, so the
\* probes count as if they took no time.
ViewCounts ==
    /\ View.conforming
    /\ \A b \in Blocks : View.cache[b] =
          IF b \in FirstBlocks THEN cached[b] + (IF b \in Coming THEN 1 ELSE 0) ELSE 0

Alone ==
    /\ \A c, d \in Busy : Concerns(c, calling[d].range) => c = d
    /\ \A b \in Blocks : cached[b] <= 1
    /\ \A c \in Busy : cached[calling[c].range[1]] = 0

Counted == \A b \in Blocks : add_count[b] <= cached[b] + (IF b \in Owed THEN 1 ELSE 0)

HasReadWell(c) ==
    /\ calling[c].stage = "raise" => calling[c].read <= 0
    /\ calling[c].stage = "lessen" => calling[c].read <= 1

NothingDoubled == ViewCounts /\ Alone /\ Counted /\ \A c \in Busy : HasReadWell(c)

ViewIsTrue ==
    /\ WholeRanges
    /\ doubled => ~View.conforming
    /\ ~doubled => NothingDoubled

CheckerInv == ~warm /\ Aligned /\ ~contested /\ faults = {} => ViewIsTrue

-----------------------------------------------------------------------------
(* The checker's fold.                                                     *)

Views == [cache : [Blocks -> Int], conforming : BOOLEAN]

LEMMA CountType ==
    ASSUME NEW f \in [Blocks -> Int], NEW b
    PROVE  [f EXCEPT ![b] = @ + 1] \in [Blocks -> Int] /\ [f EXCEPT ![b] = @ - 1] \in [Blocks -> Int]
<1>1. CASE b \in Blocks
  BY <1>1
<1>2. CASE b \notin Blocks
  <2>1. [f EXCEPT ![b] = @ + 1] = f /\ [f EXCEPT ![b] = @ - 1] = f
    BY <1>2
  <2> QED BY <2>1
<1> QED BY <1>1, <1>2

LEMMA ProcessType ==
    ASSUME NEW s \in Views, NEW e
    PROVE  Process(s, e) \in Views
<1>1. \A b : [s.cache EXCEPT ![b] = @ + 1] \in [Blocks -> Int]
  BY CountType DEF Views
<1>2. \A b : [s.cache EXCEPT ![b] = @ - 1] \in [Blocks -> Int]
  BY CountType DEF Views
<1>3. \A b : OnAdd(s, b) \in Views
  BY <1>1 DEF OnAdd, Views
<1>4. \A b : OnRemove(s, b) \in Views
  BY <1>2 DEF OnRemove, Views
<1>5. [s EXCEPT !.conforming = FALSE] \in Views
  BY DEF Views
<1> QED BY <1>3, <1>4, <1>5 DEF Process

LEMMA NoCacheType == NoCache \in Views
BY DEF NoCache, Views

\* What a fold over n events chooses.
Folds(it, n, events) ==
    it = [s \in SUBSET (1..n) |->
            IF s = {} THEN NoCache ELSE Process(it[s \ {Max(s)}], events[Max(s)])]

LEMMA FoldExists ==
    ASSUME NEW n \in Nat, NEW events
    PROVE  \E it : Folds(it, n, events)
<1> DEFINE step == [k \in 1..n |-> [v \in Views |-> Process(v, events[k])]]
<1>1. step \in [1..n -> [Views -> Views]]
  BY ProcessType
<1>2. PICK it \in [SUBSET (1..n) -> Views] : Iterates(it, n, NoCache, step)
  <2> HIDE DEF step
  <2> QED BY <1>1, NoCacheType, IterationExists
<1>3. ASSUME NEW s \in SUBSET (1..n)
      PROVE  it[s] = IF s = {} THEN NoCache ELSE Process(it[s \ {Max(s)}], events[Max(s)])
  <2>1. CASE s = {}
    BY <1>2, <2>1 DEF Iterates
  <2>2. CASE s # {}
    <3>1. Max(s) \in 1..n
      BY <2>2, MaxIsGreatest
    <3>2. it[s \ {Max(s)}] \in Views
      BY <1>2
    <3>3. it[s] = step[Max(s)][it[s \ {Max(s)}]]
      <4> HIDE DEF step
      <4> QED BY <1>2, <2>2 DEF Iterates
    <3> QED BY <2>2, <3>1, <3>2, <3>3
  <2> QED BY <2>1, <2>2
<1>4. it = [s \in SUBSET (1..n) |-> it[s]]
  BY <1>2
<1>5. Folds(it, n, events)
  <2> HIDE DEF step
  <2> QED BY <1>3, <1>4, Zenon DEF Folds
<1> QED BY <1>5

\* The views of the checker on its way through the events.
IsRun(run, n, events) ==
    /\ run \in [0..n -> Views] /\ run[0] = NoCache
    /\ \A k \in 1..n : run[k] = Process(run[k - 1], events[k])

LEMMA FoldIsRun ==
    ASSUME NEW n \in Nat, NEW events, DOMAIN events = 1..n
    PROVE  \E run : IsRun(run, n, events) /\ run[n] = FoldLeft(Process, NoCache, events)
<1> DEFINE it  == CHOOSE x : Folds(x, n, events)
           run == [k \in 0..n |-> it[1..k]]
           T   == {k \in 0..n : it[1..k] \in Views}
<1>1. Folds(it, n, events)
  BY FoldExists
<1>2. FoldLeft(Process, NoCache, events) = it[1..n]
  BY DEF FoldLeft, MapThenFoldSet, Folds
<1> HIDE DEF it
<1>3. it[1..0] = NoCache
  <2>1. 1..0 = {} /\ {} \in SUBSET (1..n)
    OBVIOUS
  <2> QED BY <1>1, <2>1 DEF Folds
<1>4. ASSUME NEW k \in 1..n PROVE it[1..k] = Process(it[1..(k - 1)], events[k])
  <2>1. 1..k \in SUBSET (1..n)
    OBVIOUS
  <2>2. 1..k # {} /\ Max(1..k) = k /\ (1..k) \ {k} = 1..(k - 1)
    BY MaxOfInterval
  <2>3. it[1..k] = Process(it[(1..k) \ {Max(1..k)}], events[Max(1..k)])
    BY <1>1, <2>1, <2>2 DEF Folds
  <2> QED BY <2>2, <2>3
<1>5. 0..n \subseteq T
  <2>1. 0 \in T
    BY <1>3, NoCacheType
  <2>2. ASSUME NEW k \in 0..(n - 1), k \in T PROVE k + 1 \in T
    <3>1. k + 1 \in 1..n /\ (k + 1) - 1 = k
      OBVIOUS
    <3>2. it[1..(k + 1)] = Process(it[1..k], events[k + 1])
      BY <1>4, <3>1
    <3> QED BY <2>2, <3>1, <3>2, ProcessType
  <2> HIDE DEF T
  <2> QED BY <2>1, <2>2, PositionsBySuccession
<1>6. IsRun(run, n, events)
  <2>1. run \in [0..n -> Views]
    BY <1>5
  <2>2. ASSUME NEW k \in 1..n PROVE run[k] = Process(run[k - 1], events[k])
    <3>1. k \in 0..n /\ k - 1 \in 0..n
      OBVIOUS
    <3> QED BY <1>4, <3>1
  <2> QED BY <1>3, <2>1, <2>2 DEF IsRun
<1>7. n \in 0..n
  OBVIOUS
<1> QED BY <1>2, <1>6, <1>7

\* The two equations of the checker.
LEMMA FoldOfNone == FoldLeft(Process, NoCache, <<>>) = NoCache
<1>1. 0 \in Nat /\ DOMAIN <<>> = 1..0
  OBVIOUS
<1>2. PICK run : IsRun(run, 0, <<>>) /\ run[0] = FoldLeft(Process, NoCache, <<>>)
  BY <1>1, FoldIsRun
<1> QED BY <1>2 DEF IsRun

LEMMA FoldOfAppend ==
    ASSUME NEW S, NEW events \in Seq(S), NEW e \in S
    PROVE  FoldLeft(Process, NoCache, Append(events, e)) =
              Process(FoldLeft(Process, NoCache, events), e)
<1> DEFINE n == Len(events)
           more == Append(events, e)
           it == CHOOSE x : Folds(x, n + 1, more)
           it2 == CHOOSE x : Folds(x, n, events)
<1>1. n \in Nat /\ n + 1 \in Nat /\ DOMAIN events = 1..n /\ DOMAIN more = 1..(n + 1)
  OBVIOUS
<1>2. more[n + 1] = e /\ \A k \in 1..n : events[k] = more[k]
  OBVIOUS
<1> HIDE DEF n, more
<1>3. FoldLeft(Process, NoCache, more) = it[1..(n + 1)] /\ FoldLeft(Process, NoCache, events) = it2[1..n]
  BY <1>1 DEF FoldLeft, MapThenFoldSet, Folds
<1>4. Folds(it, n + 1, more) /\ Folds(it2, n, events)
  BY <1>1, FoldExists
<1> HIDE DEF it, it2
<1>5. 1..(n + 1) # {} /\ Max(1..(n + 1)) = n + 1 /\ 1..(n + 1) \ {n + 1} = 1..n
  <2>1. n + 1 \in 1..(n + 1) /\ (n + 1) - 1 = n
    BY <1>1
  <2> QED BY <1>1, <2>1, MaxOfInterval
<1>6. it[1..(n + 1)] = Process(it[1..n], e)
  <2>1. 1..(n + 1) \in SUBSET (1..(n + 1))
    OBVIOUS
  <2>2. it[1..(n + 1)] = Process(it[(1..(n + 1)) \ {Max(1..(n + 1))}], more[Max(1..(n + 1))])
    BY <1>4, <1>5, <2>1 DEF Folds
  <2> QED BY <1>2, <1>5, <2>2
<1>7. it[1..n] = it2[1..n]
  <2>1. it[{}] = it2[{}]
    BY <1>4 DEF Folds
  <2>2. ASSUME NEW s \in SUBSET (1..n), s # {}, it[s \ {Max(s)}] = it2[s \ {Max(s)}]
        PROVE  it[s] = it2[s]
    <3>1. Max(s) \in 1..n
      BY <1>1, <2>2, MaxIsGreatest
    <3>2. s \in SUBSET (1..(n + 1))
      BY <1>1
    <3>3. it[s] = Process(it[s \ {Max(s)}], more[Max(s)])
      BY <1>4, <2>2, <3>2 DEF Folds
    <3>4. it2[s] = Process(it2[s \ {Max(s)}], events[Max(s)])
      BY <1>4, <2>2 DEF Folds
    <3> QED BY <1>2, <2>2, <3>1, <3>3, <3>4
  <2>3. StepsAgree(n, it, it2)
    BY <2>1, <2>2 DEF StepsAgree
  <2>4. \A s \in SUBSET (1..n) : it[s] = it2[s]
    BY <1>1, <2>3, IterationsAgree
  <2> QED BY <2>4
<1> QED BY <1>3, <1>6, <1>7 DEF more

LEMMA FoldType ==
    ASSUME NEW n \in Nat, NEW events, DOMAIN events = 1..n
    PROVE  FoldLeft(Process, NoCache, events) \in Views
<1>1. PICK run : IsRun(run, n, events) /\ run[n] = FoldLeft(Process, NoCache, events)
  BY FoldIsRun
<1>2. n \in 0..n
  OBVIOUS
<1> QED BY <1>1, <1>2 DEF IsRun

\* A verdict against is not taken back.
LEMMA ProcessSticky ==
    ASSUME NEW s \in Views, NEW e, ~s.conforming
    PROVE  ~Process(s, e).conforming
BY DEF Process, OnAdd, OnRemove, Views

\* The script's own alarms reach the verdict.
LEMMA ConformsWithoutAlarms ==
    ASSUME NEW n \in Nat, NEW events, DOMAIN events = 1..n, Conforms(events)
    PROVE  Inline(events) = 0
<1>1. PICK run : IsRun(run, n, events) /\ run[n] = FoldLeft(Process, NoCache, events)
  BY FoldIsRun
<1>2. run[n].conforming
  BY <1>1 DEF Conforms
<1>3. ASSUME NEW i \in 1..n, events[i].action = "VIOLATION_DoubleAdd" PROVE FALSE
  <2> DEFINE T == {k \in 0..(n - i) : ~run[i + k].conforming}
  <2>1. 0 \in T
    <3>1. run[i] = Process(run[i - 1], events[i])
      BY <1>1 DEF IsRun
    <3>2. i - 1 \in 0..n /\ i + 0 = i /\ 0 \in 0..(n - i)
      OBVIOUS
    <3>3. run[i - 1] \in Views
      BY <1>1, <3>2 DEF IsRun
    <3>4. ~Process(run[i - 1], events[i]).conforming
      BY <1>3, <3>3 DEF Process, Views
    <3> QED BY <3>1, <3>2, <3>4
  <2>2. ASSUME NEW k \in 0..((n - i) - 1), k \in T PROVE k + 1 \in T
    <3>1. i + k \in 0..n /\ i + (k + 1) \in 1..n /\ (i + (k + 1)) - 1 = i + k
          /\ k + 1 \in 0..(n - i)
      OBVIOUS
    <3>2. run[i + (k + 1)] = Process(run[i + k], events[i + (k + 1)])
      BY <1>1, <3>1 DEF IsRun
    <3>3. run[i + k] \in Views
      BY <1>1, <3>1 DEF IsRun
    <3> QED BY <2>2, <3>1, <3>2, <3>3, ProcessSticky
  <2>3. n - i \in Nat /\ n - i \in 0..(n - i) /\ i + (n - i) = n
    OBVIOUS
  <2>4. 0..(n - i) \subseteq T
    <3> HIDE DEF T
    <3> QED BY <2>1, <2>2, <2>3, PositionsBySuccession
  <2> QED BY <2>3, <2>4, <1>2
<1>4. {i \in DOMAIN events : events[i].action = "VIOLATION_DoubleAdd"} = {}
  BY <1>3
<1> QED BY <1>4, FS_EmptySet DEF Inline
-----------------------------------------------------------------------------
(* The log.                                                                *)

LEMMA RangeFacts ==
    /\ Ranges \subseteq Blocks \X Blocks /\ Blocks \subseteq Nat
    /\ \A r \in Ranges : <<r[1], 0>> \in Nat \X Nat /\ r \in Nat \X Nat /\ r[1] \in Blocks
                         /\ r[1] \in In(r) /\ In(r) \subseteq Blocks /\ r[2] # 0
    /\ NoRange \in Nat \X Nat /\ NoRange \notin Ranges
BY CacheAssumption DEF Ranges, Blocks, NoRange, In

LEMMA LogGrows ==
    ASSUME log \in Seq(Entries), NEW e \in Entries, log' = Append(log, e)
    PROVE  /\ log' \in Seq(Entries) /\ Len(log') = Len(log) + 1 /\ Len(log) \in Nat
           /\ DOMAIN log = 1..Len(log) /\ DOMAIN log' = 1..(Len(log) + 1)
           /\ log'[Len(log) + 1] = e /\ \A i \in DOMAIN log : log'[i] = log[i]
           /\ View' = Process(View, e)
           /\ AddedRanges' = AddedRanges \cup (IF e.action = "AddFreeSpace" THEN {e.range} ELSE {})
<1>1. /\ log' \in Seq(Entries) /\ Len(log') = Len(log) + 1 /\ Len(log) \in Nat
      /\ DOMAIN log = 1..Len(log) /\ DOMAIN log' = 1..(Len(log) + 1)
      /\ log'[Len(log) + 1] = e /\ \A i \in DOMAIN log : log'[i] = log[i]
  OBVIOUS
<1>2. \A i \in DOMAIN log' : i \in DOMAIN log \/ i = Len(log) + 1
  BY <1>1
<1>3. \A i \in DOMAIN log : i \in DOMAIN log'
  BY <1>1
<1>4. Len(log) + 1 \in DOMAIN log'
  BY <1>1
<1>5. View' = Process(View, e)
  BY FoldOfAppend DEF View
<1>6. \A r : r \in AddedRanges' <=> r \in AddedRanges \/ (e.action = "AddFreeSpace" /\ r = e.range)
  BY <1>1, <1>2, <1>3, <1>4, Zenon DEF AddedRanges
<1> QED BY <1>1, <1>5, <1>6

LEMMA LogKept ==
    ASSUME UNCHANGED log
    PROVE  View' = View /\ AddedRanges' = AddedRanges /\ FirstBlocks' = FirstBlocks
BY DEF View, AddedRanges, FirstBlocks

LEMMA AddGrows ==
    ASSUME log \in Seq(Entries), NEW r, [action |-> "AddFreeSpace", range |-> r] \in Entries,
           log' = Append(log, [action |-> "AddFreeSpace", range |-> r])
    PROVE  AddedRanges' = AddedRanges \cup {r} /\ FirstBlocks' = FirstBlocks \cup {r[1]}
<1>1. AddedRanges' = AddedRanges \cup {r}
  BY LogGrows
<1> QED BY <1>1 DEF FirstBlocks

LEMMA OtherGrows ==
    ASSUME log \in Seq(Entries), NEW e \in Entries, e.action # "AddFreeSpace", log' = Append(log, e)
    PROVE  AddedRanges' = AddedRanges /\ FirstBlocks' = FirstBlocks
<1>1. AddedRanges' = AddedRanges
  BY LogGrows
<1> QED BY <1>1 DEF FirstBlocks

\* What each call puts into the log.
AddEntry(r) == [action |-> "AddFreeSpace", range |-> r]
AlarmEntry(r) == [action |-> "VIOLATION_DoubleAdd", range |-> <<r[1], 0>>]
RemoveEntry(r) == [action |-> "RemoveFreeSpace", range |-> r]

LEMMA EntryTypes ==
    \A r \in Ranges : /\ AddEntry(r) \in Entries /\ AlarmEntry(r) \in Entries /\ RemoveEntry(r) \in Entries
                      /\ AlarmEntry(r).action # "AddFreeSpace" /\ RemoveEntry(r).action # "AddFreeSpace"
<1> TAKE r \in Ranges
<1>1. r \in Pairs /\ <<r[1], 0>> \in Pairs
  BY RangeFacts DEF Pairs
<1>2. AddEntry(r) \in Entries
  BY <1>1 DEF AddEntry, Entries, Actions
<1>3. AlarmEntry(r) \in Entries /\ AlarmEntry(r).action # "AddFreeSpace"
  BY <1>1 DEF AlarmEntry, Entries, Actions
<1>4. RemoveEntry(r) \in Entries /\ RemoveEntry(r).action # "AddFreeSpace"
  BY <1>1 DEF RemoveEntry, Entries, Actions
<1> QED BY <1>2, <1>3, <1>4

LEMMA CacheStepTypes ==
    ASSUME CacheTypes, LogIsReal, NEW c \in CPUs, NEW a \in BOOLEAN, CacheStep(c, a)
    PROVE  CacheTypes' /\ LogIsReal' /\ (log' = log \/ \E e \in Entries : log' = Append(log, e))
<1> DEFINE r == calling[c].range
           first == r[1]
<1>0. /\ calling[c] \in Calls
      /\ ~Free(c) => /\ c \in Busy /\ r \in Ranges /\ first \in Blocks
                     /\ AlarmEntry(r) \in Entries /\ AlarmEntry(r).action # "AddFreeSpace"
      /\ Adding(c) => ~Free(c) /\ r \in AddedRanges /\ first \in FirstBlocks
  <2>1. calling[c] \in Calls /\ (~Free(c) => c \in Busy) /\ (Adding(c) => ~Free(c) /\ c \in Adders)
    BY DEF CacheTypes, Busy, Adders, Adding, Free
  <2> QED BY <2>1, EntryTypes, RangeFacts DEF LogIsReal, FirstBlocks
<1> HIDE DEF r, first
<1>1. CASE Find(c)
  <2>1. CacheTypes'
    BY <1>1 DEF Find, CacheTypes, scriptVars
  <2>2. LogIsReal'
    <3>1. UNCHANGED <<log, add_count, calling>> /\ Busy' = Busy /\ Adders' = Adders
      BY <1>1 DEF Find, scriptVars, Busy, Adders, Adding, Free
    <3> QED BY <3>1, LogKept DEF LogIsReal
  <2> QED BY <1>1, <2>1, <2>2 DEF Find
<1>2. CASE AddFreeSpace(c, a)
  <2>1. /\ found[c] \in Ranges /\ AddEntry(found[c]) \in Entries
        /\ log' = Append(log, AddEntry(found[c]))
    BY <1>2, EntryTypes DEF AddFreeSpace, AddEntry, CacheTypes
  <2>2. /\ calling'[c].range = found[c] /\ calling'[c] \in Calls /\ calling'[c].stage \in {"raise", "add"}
        /\ calling' = [calling EXCEPT ![c] = calling'[c]]
    <3>1. add_count[found[c][1]] \in Int
      BY <2>1, RangeFacts DEF CacheTypes
    <3> QED BY <1>2, <2>1, <3>1 DEF AddFreeSpace, CacheTypes, Calls, Stages
  <2>3. CacheTypes'
    <3>1. calling' \in [CPUs -> Calls]
      BY <2>2 DEF CacheTypes
    <3>2. doubled' \in BOOLEAN /\ contested' \in BOOLEAN
      BY <1>2 DEF AddFreeSpace, CacheTypes
    <3>3. log' \in Seq(Entries)
      BY <2>1 DEF CacheTypes
    <3>4. calls' \in Nat /\ UNCHANGED <<serialized, cached, warm, add_count>>
      BY <1>2 DEF AddFreeSpace, CacheTypes
    <3>5. found' \in [CPUs -> Ranges \cup {NoRange}]
      BY <1>2 DEF AddFreeSpace, CacheTypes
    <3> QED BY <3>1, <3>2, <3>3, <3>4, <3>5 DEF CacheTypes
  <2>4. LogIsReal'
    <3>1. /\ AddedRanges' = AddedRanges \cup {found[c]}
          /\ FirstBlocks' = FirstBlocks \cup {found[c][1]}
      BY <2>1, AddGrows DEF CacheTypes, AddEntry
    <3>2. /\ UNCHANGED add_count /\ Busy' = Busy \cup {c} /\ Adders' = Adders \cup {c}
          /\ \A d \in CPUs : d = c \/ calling'[d] = calling[d]
      BY <1>2, <2>2 DEF AddFreeSpace, Busy, Adders, Adding, Free, CacheTypes
    <3> QED BY <2>1, <2>2, <3>1, <3>2 DEF LogIsReal, Adders, Busy
  <2> QED BY <2>1, <2>3, <2>4
<1>3. CASE RaiseCount(c)
  <2>1. /\ Adding(c) /\ UNCHANGED <<kernelVars, log>>
        /\ add_count' = [add_count EXCEPT ![first] = calling[c].read + 1]
        /\ calling' = [calling EXCEPT ![c].stage = "alarm", ![c].read = 0]
    BY <1>3 DEF RaiseCount, Adding, first, r
  <2>2. AddedRanges' = AddedRanges /\ FirstBlocks' = FirstBlocks
    BY <2>1, LogKept
  <2>3. CacheTypes'
    <3>1. calling' \in [CPUs -> Calls]
      <4>1. \A x \in Calls : [x EXCEPT !.stage = "alarm"] \in Calls
        BY DEF Calls, Stages
      <4>2. \A x \in Calls : [x EXCEPT !.read = 0] \in Calls
        BY DEF Calls
      <4>3. calling' = [[calling EXCEPT ![c].stage = "alarm"] EXCEPT ![c].read = 0]
        BY <2>1
      <4> DEFINE once == [calling EXCEPT ![c].stage = "alarm"]
      <4>4. once \in [CPUs -> Calls]
        BY <4>1 DEF CacheTypes
      <4> HIDE DEF once
      <4>5. [once EXCEPT ![c].read = 0] \in [CPUs -> Calls]
        BY <4>2, <4>4
      <4> QED BY <4>3, <4>5 DEF once
    <3>2. add_count' \in [Blocks -> Int]
      BY <1>0, <2>1 DEF CacheTypes, Calls
    <3> QED BY <2>1, <3>1, <3>2 DEF CacheTypes, kernelVars
  <2>4. LogIsReal'
    <3>1. /\ Busy' = Busy /\ Adders' = Adders
          /\ \A d \in CPUs : calling'[d].range = calling[d].range
          /\ \A d \in CPUs : d = c \/ calling'[d] = calling[d]
          /\ calling'[c].stage = "alarm"
      BY <1>0, <2>1 DEF Busy, Adders, Adding, Free, CacheTypes, Calls
    <3>2. \A b \in Blocks : b = first \/ add_count'[b] = add_count[b]
      BY <2>1 DEF CacheTypes
    <3>3. \A b \in Blocks : add_count'[b] > 0 => b \in FirstBlocks'
      BY <1>0, <2>1, <2>2, <3>2 DEF LogIsReal
    <3>4. /\ AddedRanges' \subseteq Ranges
          /\ \A d \in Busy' : calling'[d].range \in Ranges
          /\ \A d \in Adders' : calling'[d].range \in AddedRanges'
      BY <2>2, <3>1 DEF LogIsReal, Busy, Adders
    <3>5. \A d \in CPUs : calling'[d].stage \in {"lower", "lessen"} =>
             calling'[d].range[1] \in FirstBlocks'
      BY <2>2, <3>1 DEF LogIsReal
    <3> QED BY <3>3, <3>4, <3>5 DEF LogIsReal
  <2> QED BY <2>1, <2>3, <2>4
<1>4. CASE AddFreeSpace_Done(c)
  <2>1. /\ Adding(c) /\ UNCHANGED <<serialized, warm, found, doubled, contested, calls, add_count>>
        /\ calling' = [calling EXCEPT ![c] = NoCall]
        /\ log' = log \/ log' = Append(log, AlarmEntry(r))
    BY <1>4 DEF AddFreeSpace_Done, AlarmEntry, Adding, r
  <2>2. AddedRanges' = AddedRanges /\ FirstBlocks' = FirstBlocks
    BY <1>0, <2>1, LogKept, OtherGrows DEF CacheTypes
  <2>3. CacheTypes'
    <3>1. cached' \in [Blocks -> Nat]
      BY <1>4 DEF AddFreeSpace_Done, CacheTypes
    <3>2. calling' \in [CPUs -> Calls]
      BY <2>1 DEF CacheTypes, NoCall, Calls, Stages
    <3>3. log' \in Seq(Entries)
      <4>1. Append(log, AlarmEntry(r)) \in Seq(Entries) /\ log \in Seq(Entries)
        BY <1>0, <2>1 DEF CacheTypes
      <4> QED BY <2>1, <4>1
    <3> QED BY <2>1, <3>1, <3>2, <3>3 DEF CacheTypes
  <2>4. LogIsReal'
    <3>1. /\ Busy' = Busy \ {c} /\ Adders' = Adders \ {c} /\ calling'[c].stage = "none"
          /\ \A d \in CPUs : d = c \/ calling'[d] = calling[d]
      BY <2>1 DEF Busy, Adders, Adding, Free, CacheTypes, NoCall
    <3> QED BY <2>1, <2>2, <3>1 DEF LogIsReal, Busy, Adders
  <2> QED BY <1>0, <2>1, <2>3, <2>4
<1>5. CASE RemoveFreeSpace(c, a)
  <2>1. PICK x \in Ranges :
          /\ cached' = [b \in Blocks |-> IF b \in In(x) THEN cached[b] - 1 ELSE cached[b]]
          /\ \A b \in In(x) : cached[b] > 0
          /\ log' = Append(log, RemoveEntry(x))
          /\ calling' = [calling EXCEPT ![c] =
                [stage |-> IF a /\ add_count[x[1]] > 0 THEN "lower" ELSE "remove",
                 range |-> x, read |-> 0]]
    BY <1>5 DEF RemoveFreeSpace, RemoveEntry
  <2>2. /\ RemoveEntry(x) \in Entries /\ RemoveEntry(x).action # "AddFreeSpace"
        /\ In(x) \subseteq Blocks
    BY EntryTypes, RangeFacts
  <2>3. UNCHANGED <<serialized, warm, found, doubled, contested, add_count>> /\ calls' = calls + 1
    BY <1>5 DEF RemoveFreeSpace
  <2>4. AddedRanges' = AddedRanges /\ FirstBlocks' = FirstBlocks
    BY <2>1, <2>2, OtherGrows DEF CacheTypes
  <2>5. CacheTypes'
    <3>1. cached' \in [Blocks -> Nat]
      BY <2>1, <2>2 DEF CacheTypes
    <3>2. calling' \in [CPUs -> Calls]
      BY <2>1 DEF CacheTypes, Calls, Stages
    <3>3. log' \in Seq(Entries)
      BY <2>1, <2>2 DEF CacheTypes
    <3> QED BY <2>3, <3>1, <3>2, <3>3 DEF CacheTypes
  <2>6. LogIsReal'
    <3>1. /\ Busy' = Busy \cup {c} /\ Adders' = Adders
          /\ calling'[c].stage \in {"lower", "remove"} /\ calling'[c].range = x
          /\ calling'[c].stage = "lower" => add_count[x[1]] > 0
          /\ \A d \in CPUs : d = c \/ calling'[d] = calling[d]
      BY <1>5, <2>1 DEF RemoveFreeSpace, Busy, Adders, Adding, Free, CacheTypes
    <3>2. /\ AddedRanges' \subseteq Ranges
          /\ \A d \in Busy' : calling'[d].range \in Ranges
      BY <2>4, <3>1 DEF LogIsReal, Busy
    <3>3. \A d \in Adders' : calling'[d].range \in AddedRanges'
      <4>1. c \notin Adders
        BY <1>5 DEF RemoveFreeSpace, Adders, Adding, Free
      <4> QED BY <2>4, <3>1, <4>1 DEF LogIsReal, Adders
    <3>4. \A d \in CPUs : calling'[d].stage \in {"lower", "lessen"} =>
             calling'[d].range[1] \in FirstBlocks'
      <4>1. x[1] \in Blocks
        BY RangeFacts
      <4> QED BY <2>4, <3>1, <4>1 DEF LogIsReal
    <3>5. \A b \in Blocks : add_count'[b] > 0 => b \in FirstBlocks'
      BY <2>3, <2>4 DEF LogIsReal
    <3> QED BY <3>2, <3>3, <3>4, <3>5 DEF LogIsReal
  <2> QED BY <2>1, <2>2, <2>5, <2>6
<1>6. CASE LowerCount(c)
  <2>1. /\ ~Free(c) /\ calling[c].stage = "lower" /\ UNCHANGED <<kernelVars, add_count, log>>
        /\ calling' = [calling EXCEPT ![c].stage = "lessen", ![c].read = add_count[first]]
    BY <1>6 DEF LowerCount, Free, first, r
  <2>2. AddedRanges' = AddedRanges /\ FirstBlocks' = FirstBlocks
    BY <2>1, LogKept
  <2>3. CacheTypes'
    <3>1. calling' \in [CPUs -> Calls]
      BY <1>0, <2>1 DEF CacheTypes, Calls, Stages
    <3> QED BY <2>1, <3>1 DEF CacheTypes, kernelVars
  <2>4. LogIsReal'
    <3>1. /\ Busy' = Busy /\ Adders' = Adders
          /\ \A d \in CPUs : calling'[d].range = calling[d].range
          /\ \A d \in CPUs : d = c \/ calling'[d] = calling[d]
      BY <1>0, <2>1 DEF Busy, Adders, Adding, Free, CacheTypes, Calls
    <3>2. /\ AddedRanges' \subseteq Ranges
          /\ \A d \in Busy' : calling'[d].range \in Ranges
          /\ \A d \in Adders' : calling'[d].range \in AddedRanges'
      BY <2>2, <3>1 DEF LogIsReal, Busy, Adders
    <3>3. \A d \in CPUs : calling'[d].stage \in {"lower", "lessen"} =>
             calling'[d].range[1] \in FirstBlocks'
      <4>1. calling[c].range[1] \in FirstBlocks
        BY <2>1 DEF LogIsReal
      <4> QED BY <2>2, <3>1, <4>1 DEF LogIsReal
    <3>4. \A b \in Blocks : add_count'[b] > 0 => b \in FirstBlocks'
      BY <2>1, <2>2 DEF LogIsReal
    <3> QED BY <3>2, <3>3, <3>4 DEF LogIsReal
  <2> QED BY <2>1, <2>3, <2>4
<1>7. CASE RemoveFreeSpace_Done(c)
  <2>1. /\ ~Free(c) /\ ~Adding(c) /\ UNCHANGED <<kernelVars, log>>
        /\ add_count' = IF calling[c].stage = "remove" THEN add_count
                        ELSE [add_count EXCEPT ![first] = calling[c].read - 1]
        /\ calling' = [calling EXCEPT ![c] = NoCall]
        /\ calling[c].stage \in {"lessen", "remove"}
    BY <1>7 DEF RemoveFreeSpace_Done, Free, Adding, first, r
  <2>2. AddedRanges' = AddedRanges /\ FirstBlocks' = FirstBlocks
    BY <2>1, LogKept
  <2>3. CacheTypes'
    <3>1. calling' \in [CPUs -> Calls]
      BY <2>1 DEF CacheTypes, NoCall, Calls, Stages
    <3>2. add_count' \in [Blocks -> Int]
      BY <1>0, <2>1 DEF CacheTypes, Calls
    <3> QED BY <2>1, <3>1, <3>2 DEF CacheTypes, kernelVars
  <2>4. LogIsReal'
    <3>1. /\ Busy' = Busy \ {c} /\ Adders' = Adders /\ calling'[c].stage = "none"
          /\ \A d \in CPUs : d = c \/ calling'[d] = calling[d]
      BY <2>1 DEF Busy, Adders, Adding, Free, CacheTypes, NoCall
    <3>2. \A b \in Blocks : (b = first /\ first \in FirstBlocks) \/ add_count'[b] = add_count[b]
      BY <2>1 DEF CacheTypes, LogIsReal, first, r
    <3> QED BY <2>1, <2>2, <3>1, <3>2 DEF LogIsReal, Busy, Adders
  <2> QED BY <2>1, <2>3, <2>4
<1> QED BY <1>1, <1>2, <1>3, <1>4, <1>5, <1>6, <1>7 DEF CacheStep
-----------------------------------------------------------------------------
(* The pipe, step by step.                                                 *)

LEMMA SortedIsOrder ==
    ASSUME NEW n \in Nat, NEW t \in Seq(Nat), \A k \in DOMAIN t : t[k] \in 1..n,
           \A k, l \in DOMAIN t : t[k] = t[l] => k = l,
           \A i \in 1..n : \E k \in DOMAIN t : t[k] = i
    PROVE  DOMAIN t = 1..n /\ Ascending(Range(t)) = [k \in 1..n |-> k]
<1>1. DOMAIN t = 1..n
  <2>1. DOMAIN t = 1..Len(t) /\ Len(t) \in Nat
    OBVIOUS
  <2>2. t \in [1..Len(t) -> 1..n]
    OBVIOUS
  <2>3. t \in Injection(1..Len(t), 1..n) /\ t \in Surjection(1..Len(t), 1..n)
    BY <2>1, <2>2 DEF Injection, Surjection, IsInjective
  <2>4. /\ IsFiniteSet(1..n) /\ Cardinality(1..n) = n
        /\ Cardinality(1..Len(t)) = Len(t)
    BY <2>1, IntervalCount
  <2>5. Len(t) = n
    BY <2>3, <2>4, FS_Injection
  <2> QED BY <2>1, <2>5
<1>2. Range(t) = 1..n
  BY DEF Range
<1> QED BY <1>1, <1>2, AscendingInterval

\* What a step of the kernel hands to bpftrace.
LEMMA KernelDelivers ==
    ASSUME CacheTypes, LogIsReal, NEW c \in CPUs, Kernel(c)
    PROVE  \/ UNCHANGED <<log, buffers, faults>>
           \/ /\ \E e \in Entries : log' = Append(log, e)
              /\ \/ bpftrace # "live" /\ UNCHANGED <<buffers, faults>>
                 \/ buffers' = [buffers EXCEPT ![c] = Append(@, Len(log) + 1)] /\ UNCHANGED faults
                 \/ faults' = faults \cup {"lost"} /\ UNCHANGED buffers
<1>1. log' = log \/ \E e \in Entries : log' = Append(log, e)
  BY CacheStepTypes DEF Kernel
<1>2. CASE log' = log
  <2>1. {i \in DOMAIN log' : i > Len(log)} = {}
    BY <1>2 DEF CacheTypes
  <2> QED BY <1>2, <2>1 DEF Kernel, Deliver
<1>3. CASE \E e \in Entries : log' = Append(log, e)
  <2>1. Len(log') = Len(log) + 1 /\ Len(log) + 1 \in DOMAIN log' /\ Len(log) + 1 > Len(log)
    BY <1>3 DEF CacheTypes
  <2>2. {i \in DOMAIN log' : i > Len(log)} # {}
    BY <2>1
  <2> QED BY <1>3, <2>1, <2>2 DEF Kernel, Deliver
<1> QED BY <1>1, <1>2, <1>3

LEMMA DeliveredInOnePlace ==
    ASSUME CacheTypes, InOnePlace, NEW c \in CPUs, NEW e \in Entries, log' = Append(log, e),
           UNCHANGED trace, trace \in Seq(Nat), buffers \in [CPUs -> Seq(Nat)],
           buffers' = [buffers EXCEPT ![c] = Append(@, Len(log) + 1)]
    PROVE  InOnePlace'
<1> DEFINE n == Len(log)
           m == Len(buffers[c])
<1>1. n \in Nat /\ Len(log') = n + 1
  BY DEF CacheTypes
<1>2. buffers[c] \in Seq(Nat) /\ m \in Nat /\ DOMAIN buffers[c] = 1..m
  OBVIOUS
<1>3. /\ DOMAIN buffers'[c] = 1..(m + 1) /\ buffers'[c][m + 1] = n + 1
      /\ \A k \in 1..m : buffers'[c][k] = buffers[c][k]
  BY <1>2
<1>4. \A d \in CPUs : d # c => buffers'[d] = buffers[d]
  OBVIOUS
<1>5. \A d \in CPUs, k \in Nat :
         k \in DOMAIN buffers'[d] <=> k \in DOMAIN buffers[d] \/ (d = c /\ k = m + 1)
  BY <1>2, <1>3, <1>4
<1>6. \A d \in CPUs : DOMAIN buffers[d] \subseteq Nat /\ DOMAIN buffers'[d] \subseteq Nat
  <2>1. buffers' \in [CPUs -> Seq(Nat)]
    BY <1>1
  <2> QED BY <2>1
<1>7. \A d \in CPUs : \A k \in DOMAIN buffers[d] : buffers'[d][k] = buffers[d][k] /\ k \in DOMAIN buffers'[d]
  BY <1>2, <1>3, <1>4, <1>5, <1>6
<1>8. \A i \in 1..(n + 1) : i \in 1..n \/ i = n + 1
  BY <1>1
<1>9. \A i \in 1..n : i \in 1..(n + 1) /\ i # n + 1
  BY <1>1
<1> HIDE DEF n, m
<1>10. \A k \in DOMAIN trace : trace[k] \in 1..n
  BY DEF InOnePlace, n
<1>11. \A d \in CPUs : \A k \in DOMAIN buffers[d] : buffers[d][k] \in 1..n
  BY DEF InOnePlace, n
<1>12. \A d \in CPUs : \A k \in DOMAIN buffers'[d] :
          \/ k \in DOMAIN buffers[d] /\ buffers'[d][k] = buffers[d][k]
          \/ d = c /\ k = m + 1 /\ buffers'[d][k] = n + 1
  BY <1>3, <1>5, <1>6, <1>7
<1>old. \A d \in CPUs : \A k \in DOMAIN buffers[d] : buffers'[d][k] \in 1..n
  BY <1>7, <1>11
<1>new. \A d \in CPUs : \A k \in DOMAIN buffers'[d] :
          k \notin DOMAIN buffers[d] => buffers'[d][k] = n + 1
  BY <1>12
<1>13. (\A k \in DOMAIN trace : trace[k] \in 1..Len(log))'
  BY <1>1, <1>9, <1>10
<1>14. (\A d \in CPUs : \A k \in DOMAIN buffers[d] : buffers[d][k] \in 1..Len(log))'
  <2>1. n + 1 \in 1..(n + 1)
    BY <1>1
  <2> QED BY <1>1, <1>9, <1>11, <1>12, <2>1
<1>15. (\A k, l \in DOMAIN trace : trace[k] = trace[l] => k = l)'
  BY DEF InOnePlace
<1>16. (\A b, d \in CPUs : \A k \in DOMAIN buffers[b], l \in DOMAIN buffers[d] :
           buffers[b][k] = buffers[d][l] => b = d /\ k = l)'
  <2> SUFFICES ASSUME NEW b \in CPUs, NEW d \in CPUs, NEW k \in DOMAIN buffers'[b],
                      NEW l \in DOMAIN buffers'[d], buffers'[b][k] = buffers'[d][l]
               PROVE  b = d /\ k = l
    OBVIOUS
  <2>1. CASE k \in DOMAIN buffers[b] /\ l \in DOMAIN buffers[d]
    <3>1. buffers[b][k] = buffers[d][l]
      BY <1>7, <2>1
    <3>2. \A x, y \in CPUs : \A i \in DOMAIN buffers[x], j \in DOMAIN buffers[y] :
             buffers[x][i] = buffers[y][j] => x = y /\ i = j
      BY DEF InOnePlace
    <3>3. k \in DOMAIN buffers[b] /\ l \in DOMAIN buffers[d]
      BY <2>1
    <3> QED BY <3>1, <3>2, <3>3
  <2>2. CASE k \in DOMAIN buffers[b] /\ l \notin DOMAIN buffers[d]
    <3>1. buffers'[b][k] \in 1..n
      BY <1>old, <2>2
    <3>2. buffers'[d][l] = n + 1
      BY <1>new, <2>2
    <3> QED BY <1>9, <3>1, <3>2
  <2>3. CASE k \notin DOMAIN buffers[b] /\ l \in DOMAIN buffers[d]
    <3>1. buffers'[d][l] \in 1..n
      BY <1>old, <2>3
    <3>2. buffers'[b][k] = n + 1
      BY <1>new, <2>3
    <3> QED BY <1>9, <3>1, <3>2
  <2>4. CASE k \notin DOMAIN buffers[b] /\ l \notin DOMAIN buffers[d]
    BY <1>12, <2>4
  <2> QED BY <2>1, <2>2, <2>3, <2>4
<1>17. (\A d \in CPUs : \A k \in DOMAIN buffers[d], l \in DOMAIN trace : buffers[d][k] # trace[l])'
  <2> SUFFICES ASSUME NEW d \in CPUs, NEW k \in DOMAIN buffers'[d], NEW l \in DOMAIN trace,
                      buffers'[d][k] = trace[l]
               PROVE  FALSE
    OBVIOUS
  <2>1. CASE k \in DOMAIN buffers[d]
    BY <1>7, <2>1 DEF InOnePlace
  <2>2. CASE k \notin DOMAIN buffers[d]
    BY <1>9, <1>10, <1>12, <2>2
  <2> QED BY <2>1, <2>2
<1>18. (\A i \in 1..Len(log) :
           \/ \E k \in DOMAIN trace : trace[k] = i
           \/ \E d \in CPUs : \E k \in DOMAIN buffers[d] : buffers[d][k] = i)'
  <2> SUFFICES ASSUME NEW i \in 1..(n + 1)
               PROVE  \/ \E k \in DOMAIN trace : trace[k] = i
                      \/ \E d \in CPUs : \E k \in DOMAIN buffers'[d] : buffers'[d][k] = i
    BY <1>1
  <2>1. CASE i = n + 1
    <3>1. m + 1 \in DOMAIN buffers'[c] /\ buffers'[c][m + 1] = n + 1
      BY <1>2, <1>3
    <3> QED BY <2>1, <3>1
  <2>2. CASE i \in 1..n /\ \E k \in DOMAIN trace : trace[k] = i
    BY <2>2
  <2>3. CASE i \in 1..n /\ \E d \in CPUs : \E k \in DOMAIN buffers[d] : buffers[d][k] = i
    <3>1. PICK d \in CPUs : \E k \in DOMAIN buffers[d] : buffers[d][k] = i
      BY <2>3
    <3>2. PICK k \in DOMAIN buffers[d] : buffers[d][k] = i
      BY <3>1
    <3> QED BY <1>7, <3>2
  <2> QED BY <1>8, <2>1, <2>2, <2>3 DEF InOnePlace, n
<1> QED BY <1>13, <1>14, <1>15, <1>16, <1>17, <1>18 DEF InOnePlace

LEMMA PolledInOnePlace ==
    ASSUME InOnePlace, trace \in Seq(Nat), buffers \in [CPUs -> Seq(Nat)], NEW c \in CPUs, Poll(c)
    PROVE  InOnePlace'
<1> DEFINE n == Len(trace)
           m == Len(buffers[c])
           head == Head(buffers[c])
<1>1. /\ n \in Nat /\ DOMAIN trace = 1..n /\ DOMAIN trace' = 1..(n + 1)
      /\ trace'[n + 1] = head /\ \A k \in 1..n : trace'[k] = trace[k]
      /\ n + 1 \in 1..(n + 1) /\ n + 1 \notin 1..n
  <2>1. head \in Nat
    BY DEF Poll
  <2> QED BY <2>1 DEF Poll
<1>2. m \in Nat \ {0} /\ DOMAIN buffers[c] = 1..m /\ 1 \in 1..m /\ buffers[c][1] = head
  BY DEF Poll
<1>3. /\ DOMAIN buffers'[c] = 1..(m - 1)
      /\ \A k \in 1..(m - 1) : buffers'[c][k] = buffers[c][k + 1]
  BY <1>2 DEF Poll
<1>4. \A d \in CPUs : d # c => buffers'[d] = buffers[d]
  BY DEF Poll
<1>5. Len(log') = Len(log)
  BY DEF Poll, cacheVars
<1> HIDE DEF n, m, head
<1>6. \A k \in DOMAIN trace' : (k \in DOMAIN trace /\ trace'[k] = trace[k]) \/ (k = n + 1 /\ trace'[k] = head)
  BY <1>1
<1>7. ASSUME NEW d \in CPUs, NEW k \in DOMAIN buffers'[d]
      PROVE  \/ d # c /\ k \in DOMAIN buffers[d] /\ buffers'[d][k] = buffers[d][k]
             \/ /\ d = c /\ k \in Nat /\ k + 1 \in DOMAIN buffers[d] /\ k + 1 # 1
                /\ buffers'[d][k] = buffers[d][k + 1]
  <2>1. CASE d # c
    BY <1>4, <2>1
  <2>2. CASE d = c
    <3>1. k \in 1..(m - 1)
      BY <1>3, <2>2
    <3>2. k + 1 \in 1..m /\ k \in Nat /\ k + 1 # 1
      BY <1>2, <3>1
    <3> QED BY <1>2, <1>3, <2>2, <3>1, <3>2
  <2> QED BY <2>1, <2>2
<1>8. (\A k \in DOMAIN trace : trace[k] \in 1..Len(log))'
  BY <1>2, <1>5, <1>6 DEF InOnePlace
<1>9. (\A d \in CPUs : \A k \in DOMAIN buffers[d] : buffers[d][k] \in 1..Len(log))'
  <2> SUFFICES ASSUME NEW d \in CPUs, NEW k \in DOMAIN buffers'[d]
               PROVE  buffers'[d][k] \in 1..Len(log)
    BY <1>5
  <2>1. \E j \in DOMAIN buffers[d] : buffers'[d][k] = buffers[d][j]
    BY <1>7
  <2> QED BY <2>1 DEF InOnePlace
<1>10. (\A k, l \in DOMAIN trace : trace[k] = trace[l] => k = l)'
  <2> SUFFICES ASSUME NEW k \in DOMAIN trace', NEW l \in DOMAIN trace', trace'[k] = trace'[l]
               PROVE  k = l
    OBVIOUS
  <2>1. \A j \in DOMAIN trace : trace[j] # head
    <3>1. \A d \in CPUs : \A i \in DOMAIN buffers[d], j \in DOMAIN trace : buffers[d][i] # trace[j]
      BY DEF InOnePlace
    <3> QED BY <1>2, <3>1
  <2>2. CASE k = n + 1 /\ trace'[k] = head
    BY <1>6, <2>1, <2>2
  <2>3. CASE k \in DOMAIN trace /\ trace'[k] = trace[k]
    BY <1>6, <2>1, <2>3 DEF InOnePlace
  <2> QED BY <1>6, <2>2, <2>3
<1>11. (\A b, d \in CPUs : \A k \in DOMAIN buffers[b], l \in DOMAIN buffers[d] :
           buffers[b][k] = buffers[d][l] => b = d /\ k = l)'
  <2> SUFFICES ASSUME NEW b \in CPUs, NEW d \in CPUs, NEW k \in DOMAIN buffers'[b],
                      NEW l \in DOMAIN buffers'[d], buffers'[b][k] = buffers'[d][l]
               PROVE  b = d /\ k = l
    OBVIOUS
  <2>1. CASE b = c /\ d = c
    <3>1. k + 1 \in DOMAIN buffers[c] /\ l + 1 \in DOMAIN buffers[c] /\ buffers[c][k + 1] = buffers[c][l + 1]
          /\ k \in Nat /\ l \in Nat
      BY <1>7, <2>1
    <3>2. k + 1 = l + 1
      BY <3>1 DEF InOnePlace
    <3> QED BY <3>1, <3>2, <2>1
  <2>2. CASE b = c /\ d # c
    BY <1>7, <2>2 DEF InOnePlace
  <2>3. CASE b # c /\ d = c
    BY <1>7, <2>3 DEF InOnePlace
  <2>4. CASE b # c /\ d # c
    BY <1>7, <2>4 DEF InOnePlace
  <2> QED BY <2>1, <2>2, <2>3, <2>4
<1>12. (\A d \in CPUs : \A k \in DOMAIN buffers[d], l \in DOMAIN trace : buffers[d][k] # trace[l])'
  <2> SUFFICES ASSUME NEW d \in CPUs, NEW k \in DOMAIN buffers'[d], NEW l \in DOMAIN trace',
                      buffers'[d][k] = trace'[l]
               PROVE  FALSE
    OBVIOUS
  <2>1. CASE l \in DOMAIN trace /\ trace'[l] = trace[l]
    BY <1>7, <2>1 DEF InOnePlace
  <2>2. CASE trace'[l] = head
    <3>1. \/ d # c /\ k \in DOMAIN buffers[d] /\ buffers[d][k] = buffers[c][1]
          \/ d = c /\ k + 1 \in DOMAIN buffers[c] /\ k + 1 # 1 /\ buffers[c][k + 1] = buffers[c][1]
      BY <1>2, <1>7, <2>2
    <3> QED BY <1>2, <3>1 DEF InOnePlace
  <2> QED BY <1>6, <2>1, <2>2
<1>13. (\A i \in 1..Len(log) :
           \/ \E k \in DOMAIN trace : trace[k] = i
           \/ \E d \in CPUs : \E k \in DOMAIN buffers[d] : buffers[d][k] = i)'
  <2> SUFFICES ASSUME NEW i \in 1..Len(log)
               PROVE  \/ \E k \in DOMAIN trace' : trace'[k] = i
                      \/ \E d \in CPUs : \E k \in DOMAIN buffers'[d] : buffers'[d][k] = i
    BY <1>5
  <2>1. CASE \E k \in DOMAIN trace : trace[k] = i
    <3>1. PICK k \in 1..n : trace[k] = i
      BY <1>1, <2>1
    <3>2. k \in 1..(n + 1)
      BY <1>1
    <3> QED BY <1>1, <3>1, <3>2
  <2>2. CASE \E d \in CPUs : \E k \in DOMAIN buffers[d] : buffers[d][k] = i
    <3>1. PICK d \in CPUs : \E k \in DOMAIN buffers[d] : buffers[d][k] = i
      BY <2>2
    <3>2. PICK k \in DOMAIN buffers[d] : buffers[d][k] = i
      BY <3>1
    <3>3. CASE d # c
      BY <1>4, <3>2, <3>3
    <3>4. CASE d = c /\ k = 1
      BY <1>1, <1>2, <3>2, <3>4
    <3>5. CASE d = c /\ k # 1
      <4>1. k - 1 \in 1..(m - 1) /\ (k - 1) + 1 = k
        BY <1>2, <3>5
      <4>2. k - 1 \in DOMAIN buffers'[d] /\ buffers'[d][k - 1] = i
        BY <1>3, <3>2, <3>5, <4>1
      <4> QED BY <4>2
    <3> QED BY <3>3, <3>4, <3>5
  <2> QED BY <2>1, <2>2 DEF InOnePlace
<1> QED BY <1>8, <1>9, <1>10, <1>11, <1>12, <1>13 DEF InOnePlace
-----------------------------------------------------------------------------
(* Every step keeps the invariant of the pipe.                             *)

LEMMA HarnessInit == Init => CacheTypes /\ LogIsReal /\ PipeInv
<1> SUFFICES ASSUME Init PROVE CacheTypes /\ LogIsReal /\ PipeInv
  OBVIOUS
<1>1. 1 \in Blocks /\ <<1, 1>> \in Ranges
  BY CacheAssumption DEF Blocks, Ranges
<1>2. /\ log \in Seq(Entries) /\ AddedRanges \subseteq Ranges
      /\ DOMAIN trace = DOMAIN log /\ (\A i \in DOMAIN log : trace[i] = i) /\ doubled \in BOOLEAN
      /\ phase = "attaching" => log = <<>> /\ trace = <<>>
  <2>1. CASE InitHarness
    <3>1. log = <<>> /\ AddedRanges = {}
      BY <2>1 DEF InitHarness, AddedRanges
    <3>2. log \in Seq(Entries) /\ DOMAIN trace = DOMAIN log /\ \A i \in DOMAIN log : trace[i] = i
      BY <2>1 DEF InitHarness
    <3> QED BY <2>1, <3>1, <3>2 DEF InitHarness
  <2>2. CASE InitSimulated
    <3> DEFINE add    == [action |-> "AddFreeSpace", range |-> <<1, 1>>]
               remove == [action |-> "RemoveFreeSpace", range |-> <<1, 1>>]
               other  == [action |-> "CacheBlockGroup_Start", range |-> NoRange]
    <3>1. add \in Entries /\ remove \in Entries /\ other \in Entries
      BY DEF Entries, Actions, Pairs, NoRange
    <3>2. add.range \in Ranges /\ remove.range \in Ranges /\ other.action # "AddFreeSpace"
      BY <1>1
    <3>3. log = <<other, other, add, add>> \/ log = <<other, add, other, remove>>
      BY <2>2 DEF InitSimulated, Scenario, Scenarios
    <3> HIDE DEF add, remove, other
    <3>4. log \in Seq(Entries) /\ DOMAIN log = 1..4
          /\ \A i \in 1..4 : log[i] \in {add, remove, other}
      <4>1. CASE log = <<other, other, add, add>>
        BY <3>1, <4>1
      <4>2. CASE log = <<other, add, other, remove>>
        BY <3>1, <4>2
      <4> QED BY <3>3, <4>1, <4>2
    <3>5. AddedRanges \subseteq Ranges
      BY <3>2, <3>4 DEF AddedRanges
    <3> QED BY <2>2, <3>4, <3>5 DEF InitSimulated
  <2> QED BY <2>1, <2>2 DEF Init
<1>3. CacheTypes
  <2>1. cached \in [Blocks -> Nat] /\ warm \in BOOLEAN
    BY DEF Init, CacheInit
  <2>2. NoCall \in Calls /\ calling = [c \in CPUs |-> NoCall]
    BY DEF Init, CacheInit, NoCall, Calls, Stages
  <2>3. calling \in [CPUs -> Calls]
    BY <2>2
  <2>4. add_count \in [Blocks -> Int] /\ found \in [CPUs -> Ranges \cup {NoRange}]
    BY DEF Init, CacheInit
  <2> QED BY <1>2, <2>1, <2>3, <2>4 DEF Init, CacheInit, CacheTypes
<1>4. Busy = {} /\ Adders = {} /\ \A c \in CPUs : calling[c].stage = "none"
  BY DEF Init, CacheInit, Busy, Free, Adders, Adding, NoCall
<1>5. LogIsReal
  BY <1>2, <1>4 DEF Init, CacheInit, LogIsReal
<1>6. DOMAIN log = 1..Len(log) /\ Len(log) \in Nat
  BY <1>2
<1>7. Given = log
  BY <1>2, <1>6 DEF Given, Events
<1>8. HarnessTypes
  <2>1. \E n \in Nat : DOMAIN trace = 1..n
    <3>1. CASE trace = <<>>
      <4>1. DOMAIN <<>> = 1..0 /\ 0 \in Nat
        OBVIOUS
      <4> QED BY <3>1, <4>1
    <3> QED BY <1>2, <1>6, <3>1
  <2>2. phase \in Unsorted => trace \in Seq(Nat)
    BY <1>2 DEF Init, InitHarness, InitSimulated, Unsorted
  <2>3. /\ source \in {"workload"} \cup Scenarios /\ checked \in BOOLEAN
        /\ phase \in Unsorted \cup {"checking", "reporting", "exited"}
        /\ bpftrace \in {"starting", "live", "draining", "dead"}
    BY DEF Init, InitHarness, InitSimulated, Unsorted
  <2>4. buffers \in [CPUs -> Seq(Nat)] /\ cut \in BOOLEAN /\ checker_exit \in {0, 1} /\ result = "none"
    <3>1. <<>> \in Seq(Nat) /\ buffers = [c \in CPUs |-> <<>>]
      BY DEF Init
    <3>2. buffers \in [CPUs -> Seq(Nat)]
      BY <3>1
    <3> QED BY <3>2 DEF Init
  <2> QED BY <2>1, <2>2, <2>3, <2>4 DEF HarnessTypes
<1>9. Empty
  BY DEF Init, Empty
<1>10. PhaseOrder
  BY <1>2, <1>9 DEF Init, InitHarness, InitSimulated, PhaseOrder
<1>11. NothingWrong
  <2>1. phase \in Unsorted => InOnePlace
    BY <1>2, <1>6, <1>9 DEF Init, InitHarness, InitSimulated, Unsorted, InOnePlace, Empty
  <2> QED BY <1>7, <1>9, <2>1 DEF Init, InitHarness, InitSimulated, NothingWrong
<1> QED BY <1>3, <1>5, <1>8, <1>10, <1>11 DEF PipeInv
LEMMA CacheInvStep ==
    ASSUME CacheTypes, LogIsReal, [Next]_vars
    PROVE  CacheTypes' /\ LogIsReal'
<1>1. CASE \E c \in CPUs : Kernel(c)
  <2>1. PICK c \in CPUs : Kernel(c)
    BY <1>1
  <2>2. (bpftrace = "live") \in BOOLEAN
    OBVIOUS
  <2> QED BY <2>1, <2>2, CacheStepTypes DEF Kernel
<1>2. CASE UNCHANGED cacheVars
  <2>1. UNCHANGED <<serialized, cached, warm, found, doubled, contested, calls, add_count, calling, log>>
    BY <1>2 DEF cacheVars, kernelVars, scriptVars
  <2>2. Busy' = Busy /\ Adders' = Adders /\ AddedRanges' = AddedRanges /\ FirstBlocks' = FirstBlocks
    BY <2>1, LogKept DEF Busy, Adders, Adding, Free
  <2> QED BY <2>1, <2>2 DEF CacheTypes, LogIsReal
<1>3. UNCHANGED cacheVars \/ \E c \in CPUs : Kernel(c)
  BY DEF Next, Script, vars, Attach, Drained, Poll, StartWorkload, StopTracing, Terminate, Wait, Sort,
         RunChecker, Report
<1> QED BY <1>1, <1>2, <1>3

\* Steps that do not move an event.
LEMMA NothingMoves ==
    ASSUME UNCHANGED <<log, trace, buffers>>
    PROVE  /\ Empty' <=> Empty
           /\ InOnePlace' <=> InOnePlace
           /\ Given' = Given /\ GivenExit' = GivenExit
BY DEF Empty, InOnePlace, Given, Events, GivenExit, ExitCode, Conforms

LEMMA GivenExitType == GivenExit \in {0, 1}
BY DEF GivenExit, ExitCode

LEMMA SortTypes ==
    ASSUME NEW t \in Seq(Nat), NEW lines, NEW b,
           lines = IF b /\ t # <<>> THEN Tail(Ascending(Range(t))) ELSE Ascending(Range(t))
    PROVE  /\ \E n \in Nat : DOMAIN lines = 1..n
           /\ \A k \in 0..Len(lines) : \E n \in Nat : DOMAIN SubSeq(lines, 1, k) = 1..n
<1> DEFINE S == Range(t)
           sorted == Ascending(S)
<1>1. /\ sorted \in Seq(S) /\ DOMAIN sorted = 1..Cardinality(S)
      /\ Cardinality(S) \in Nat /\ (t # <<>> => Cardinality(S) # 0)
  <2>1. IsFiniteSet(S) /\ S \in SUBSET Int /\ (t # <<>> => S # {})
    BY RangeIsFinite
  <2>2. /\ Cardinality(S) \in Nat /\ DOMAIN sorted = 1..Cardinality(S)
        /\ \A k \in 1..Cardinality(S) : sorted[k] \in S
    BY <2>1, AscendingIs
  <2>3. sorted = [k \in 1..Cardinality(S) |-> sorted[k]]
    BY AscendingIsFunction, Zenon
  <2>4. sorted \in Seq(S)
    <3> HIDE DEF sorted, S
    <3> QED BY <2>2, <2>3
  <2> QED BY <2>1, <2>2, <2>4, FS_EmptySet
<1> HIDE DEF S
<1>2. lines \in Seq(S)
  <2>1. lines = IF b /\ t # <<>> THEN Tail(sorted) ELSE sorted
    BY DEF S
  <2> HIDE DEF sorted
  <2>2. t # <<>> => sorted # <<>>
    BY <1>1
  <2>3. t # <<>> => Tail(sorted) \in Seq(S)
    BY <1>1, <2>2
  <2> QED BY <1>1, <2>1, <2>3
<1>3. DOMAIN lines = 1..Len(lines) /\ Len(lines) \in Nat
  BY <1>2
<1>4. \A k \in 0..Len(lines) : DOMAIN SubSeq(lines, 1, k) = 1..k /\ k \in Nat
  BY <1>2, <1>3
<1> QED BY <1>3, <1>4

LEMMA HarnessTypesStep ==
    ASSUME CacheTypes, LogIsReal, PipeInv, [Next]_vars
    PROVE  HarnessTypes'
<1> USE DEF PipeInv, PhaseOrder
<1>1. CASE Attach
  BY <1>1 DEF Attach, HarnessTypes
<1>2. CASE Drained
  BY <1>2 DEF Drained, HarnessTypes
<1>3. ASSUME NEW c \in CPUs, Kernel(c) PROVE HarnessTypes'
  <2>1. buffers' \in [CPUs -> Seq(Nat)]
    <3>1. Len(log) + 1 \in Nat
      BY DEF CacheTypes
    <3>2. buffers \in [CPUs -> Seq(Nat)] /\ Append(buffers[c], Len(log) + 1) \in Seq(Nat)
      BY <3>1 DEF HarnessTypes
    <3> QED BY <1>3, <3>2, KernelDelivers
  <2> QED BY <1>3, <2>1 DEF Kernel, HarnessTypes
<1>4. ASSUME NEW c \in CPUs, Poll(c) PROVE HarnessTypes'
  <2>1. phase \in Unsorted /\ trace \in Seq(Nat) /\ buffers[c] \in Seq(Nat) /\ buffers[c] # <<>>
    BY <1>4 DEF Poll, HarnessTypes, Unsorted
  <2>2. trace' \in Seq(Nat) /\ DOMAIN trace' = 1..Len(trace') /\ Len(trace') \in Nat
    BY <1>4, <2>1 DEF Poll
  <2>3. buffers' \in [CPUs -> Seq(Nat)]
    BY <1>4, <2>1 DEF Poll, HarnessTypes
  <2> QED BY <1>4, <2>2, <2>3 DEF Poll, HarnessTypes
<1>5. CASE StartWorkload
  BY <1>5 DEF StartWorkload, Phase, HarnessTypes, Unsorted
<1>6. CASE StopTracing
  BY <1>6 DEF StopTracing, Phase, HarnessTypes, Unsorted
<1>7. CASE Terminate
  <2>1. buffers' \in [CPUs -> Seq(Nat)]
    <3>1. <<>> \in Seq(Nat) /\ buffers' \in {buffers, [c \in CPUs |-> <<>>]}
      BY <1>7 DEF Terminate
    <3> QED BY <3>1 DEF HarnessTypes
  <2>2. bpftrace' \in {bpftrace, "dead"} /\ cut' \in BOOLEAN
    BY <1>7 DEF Terminate, HarnessTypes
  <2> QED BY <1>7, <2>1, <2>2 DEF Terminate, Phase, HarnessTypes, Unsorted
<1>8. CASE Wait
  BY <1>8 DEF Wait, Phase, HarnessTypes, Unsorted
<1>9. CASE Sort
  <2>1. \E n \in Nat : DOMAIN trace' = 1..n
    <3> DEFINE lines == IF cut /\ trace # <<>> THEN Tail(Ascending(Range(trace))) ELSE Ascending(Range(trace))
    <3>1. trace' \in {trace, lines} \/ \E k \in 0..Len(lines) : trace' = SubSeq(lines, 1, k)
      BY <1>9 DEF Sort
    <3>2. trace \in Seq(Nat)
      BY <1>9 DEF Sort, Phase, HarnessTypes, Unsorted
    <3>3. /\ \E n \in Nat : DOMAIN lines = 1..n
          /\ \A k \in 0..Len(lines) : \E n \in Nat : DOMAIN SubSeq(lines, 1, k) = 1..n
      BY <3>2, SortTypes
    <3>4. \E n \in Nat : DOMAIN trace = 1..n
      BY DEF HarnessTypes
    <3> HIDE DEF lines
    <3> QED BY <3>1, <3>3, <3>4
  <2>2. cut' \in BOOLEAN
    BY <1>9 DEF Sort, HarnessTypes
  <2> QED BY <1>9, <2>1, <2>2 DEF Sort, Phase, HarnessTypes, Unsorted
<1>10. CASE RunChecker
  <2>1. checker_exit' \in {0, 1}
    BY <1>10, GivenExitType DEF RunChecker, GivenExit, Given
  <2> QED BY <1>10, <2>1 DEF RunChecker, Phase, HarnessTypes, Unsorted
<1>11. CASE Report
  <2>1. result' \in {"CONFORMS", "VIOLATIONS"}
    BY <1>11 DEF Report, Concludes
  <2> QED BY <1>11, <2>1 DEF Report, Phase, HarnessTypes, Unsorted
<1>12. CASE UNCHANGED vars
  BY <1>12 DEF vars, harnessVars, HarnessTypes
<1> QED BY <1>1, <1>2, <1>3, <1>4, <1>5, <1>6, <1>7, <1>8, <1>9, <1>10, <1>11, <1>12 DEF Next, Script

LEMMA PhaseOrderStep ==
    ASSUME CacheTypes, LogIsReal, PipeInv, [Next]_vars
    PROVE  PhaseOrder'
<1> USE DEF PipeInv, PhaseOrder
<1>1. CASE Attach
  <2>1. UNCHANGED <<log, trace, buffers>>
    BY <1>1 DEF Attach, cacheVars
  <2> QED BY <1>1, <2>1, NothingMoves DEF Attach
<1>2. CASE Drained
  <2>1. UNCHANGED <<log, trace, buffers>>
    BY <1>2 DEF Drained, cacheVars
  <2> QED BY <1>2, <2>1, NothingMoves DEF Drained
<1>3. ASSUME NEW c \in CPUs, Kernel(c) PROVE PhaseOrder'
  <2>1. bpftrace = "starting" => UNCHANGED <<buffers, trace>>
    BY <1>3 DEF Kernel, Deliver
  <2>2. bpftrace = "starting" => Empty'
    BY <2>1 DEF Empty
  <2> QED BY <1>3, <2>1, <2>2 DEF Kernel
<1>4. ASSUME NEW c \in CPUs, Poll(c) PROVE PhaseOrder'
  <2>1. phase \in {"workload", "stopping", "waiting"}
    BY <1>4 DEF Poll, HarnessTypes, Unsorted, Empty
  <2> QED BY <1>4, <2>1 DEF Poll
<1>5. CASE StartWorkload
  <2>1. UNCHANGED <<log, trace, buffers>>
    BY <1>5 DEF StartWorkload, cacheVars
  <2> QED BY <1>5, <2>1, NothingMoves DEF StartWorkload, Phase
<1>6. CASE StopTracing
  BY <1>6 DEF StopTracing, Phase
<1>7. CASE Terminate
  <2>1. UNCHANGED <<log, trace, result>> /\ phase = "stopping" /\ phase' = "waiting"
    BY <1>7 DEF Terminate, Phase, cacheVars
  <2>2. CASE UNCHANGED <<bpftrace, buffers>>
    BY <2>1, <2>2, NothingMoves
  <2>3. CASE bpftrace' = "dead"
    BY <2>1, <2>3
  <2> QED BY <1>7, <2>2, <2>3 DEF Terminate
<1>8. CASE Wait
  BY <1>8 DEF Wait, Phase
<1>9. CASE Sort
  BY <1>9 DEF Sort, Phase
<1>10. CASE RunChecker
  <2>1. UNCHANGED <<log, trace, buffers, checked>>
    BY <1>10 DEF RunChecker, cacheVars
  <2>2. checker_exit' = IF checked THEN GivenExit ELSE 0
    BY <1>10 DEF RunChecker, GivenExit, Given
  <2> QED BY <1>10, <2>1, <2>2, NothingMoves DEF RunChecker, Phase
<1>11. CASE Report
  <2>1. UNCHANGED <<log, trace, buffers, checked>>
    BY <1>11 DEF Report, cacheVars
  <2>2. result' # "none"
    BY <1>11 DEF Report, Concludes
  <2> QED BY <1>11, <2>1, <2>2, NothingMoves DEF Report, Phase
<1>12. CASE UNCHANGED vars
  <2>1. UNCHANGED <<log, trace, buffers>>
    BY <1>12 DEF vars, harnessVars, cacheVars
  <2> QED BY <1>12, <2>1, NothingMoves DEF vars, harnessVars
<1> QED BY <1>1, <1>2, <1>3, <1>4, <1>5, <1>6, <1>7, <1>8, <1>9, <1>10, <1>11, <1>12 DEF Next, Script

LEMMA NothingWrongStep ==
    ASSUME CacheTypes, LogIsReal, PipeInv, [Next]_vars, faults' = {}
    PROVE  faults = {} /\ NothingWrong'
<1> USE DEF PipeInv
<1>0. faults = {}
  <2>1. ASSUME NEW c \in CPUs, Kernel(c) PROVE faults = {}
    BY <2>1 DEF Kernel, Deliver
  <2>2. CASE \E c \in CPUs : Kernel(c)
    BY <2>1, <2>2
  <2>3. CASE ~ \E c \in CPUs : Kernel(c)
    BY <2>3
       DEF Next, Script, vars, harnessVars, Attach, Drained, Poll, StartWorkload, StopTracing, Terminate,
                Wait, Sort, RunChecker, Report
  <2> QED BY <2>2, <2>3
<1>00. NothingWrong
  BY <1>0
<1>1. CASE Attach
  <2>1. UNCHANGED <<log, trace, buffers>> /\ phase = "attaching" /\ Empty
    BY <1>1, <1>00 DEF Attach, cacheVars, NothingWrong, HarnessTypes, PhaseOrder
  <2> QED BY <1>1, <1>00, <2>1, NothingMoves DEF Attach, NothingWrong, Unsorted
<1>2. CASE Drained
  <2>1. UNCHANGED <<log, trace, buffers>> /\ Empty
    BY <1>2 DEF Drained, cacheVars, Empty
  <2> QED BY <1>2, <1>00, <2>1, NothingMoves DEF Drained, NothingWrong, Unsorted
<1>3. ASSUME NEW c \in CPUs, Kernel(c) PROVE NothingWrong'
  <2>1. phase = "workload" /\ phase' = phase /\ bpftrace' = bpftrace /\ bpftrace = "live" /\ ~cut' /\ trace' = trace
    BY <1>3, <1>00 DEF Kernel, NothingWrong
  <2>2. InOnePlace'
    <3>1. CASE UNCHANGED <<log, buffers>>
      BY <2>1, <3>1, <1>00, NothingMoves DEF NothingWrong, Unsorted
    <3>2. CASE /\ \E e \in Entries : log' = Append(log, e)
               /\ buffers' = [buffers EXCEPT ![c] = Append(@, Len(log) + 1)]
      BY <2>1, <3>2, <1>00, DeliveredInOnePlace DEF NothingWrong, Unsorted, HarnessTypes
    <3>3. faults' # faults \cup {"lost"}
      OBVIOUS
    <3> QED BY <1>3, <2>1, <3>1, <3>2, <3>3, KernelDelivers
  <2> QED BY <2>1, <2>2 DEF NothingWrong, Unsorted
<1>4. ASSUME NEW c \in CPUs, Poll(c) PROVE NothingWrong'
  <2>1. phase \in Unsorted /\ UNCHANGED <<phase, bpftrace, cut>> /\ bpftrace # "dead"
    BY <1>4 DEF Poll, HarnessTypes, Unsorted, PhaseOrder
  <2>2. InOnePlace'
    BY <1>4, <1>00, <2>1, PolledInOnePlace DEF NothingWrong, HarnessTypes
  <2> QED BY <1>00, <2>1, <2>2 DEF NothingWrong
<1>5. CASE StartWorkload
  <2>1. UNCHANGED <<log, trace, buffers>> /\ bpftrace = "live"
    BY <1>5 DEF StartWorkload, cacheVars
  <2> QED BY <1>5, <1>00, <2>1, NothingMoves DEF StartWorkload, Phase, NothingWrong, Unsorted
<1>6. CASE StopTracing
  <2>1. UNCHANGED <<log, trace, buffers>>
    BY <1>6 DEF StopTracing, cacheVars
  <2> QED BY <1>6, <1>00, <2>1, NothingMoves DEF StopTracing, Phase, NothingWrong, Unsorted
<1>7. CASE Terminate
  <2>1. UNCHANGED <<log, trace, buffers, bpftrace, cut, faults>> /\ phase' = "waiting"
    <3>1. "killed" \notin faults'
      BY <1>00
    <3> QED BY <1>7, <3>1 DEF Terminate, Phase, cacheVars
  <2> QED BY <1>7, <1>00, <2>1, NothingMoves DEF Terminate, Phase, NothingWrong, Unsorted
<1>8. CASE Wait
  <2>1. UNCHANGED <<log, trace, buffers>>
    BY <1>8 DEF Wait, cacheVars
  <2> QED BY <1>8, <1>00, <2>1, NothingMoves DEF Wait, Phase, NothingWrong, Unsorted
<1>9. CASE Sort
  <2>1. /\ trace' = Ascending(Range(trace)) /\ ~cut' /\ UNCHANGED <<log, buffers, bpftrace>>
        /\ phase = "sorting" /\ phase' = "checking"
    BY <1>9, <1>00 DEF Sort, Phase, NothingWrong, cacheVars
  <2>2. bpftrace = "dead" /\ Empty /\ InOnePlace /\ trace \in Seq(Nat)
    BY <2>1, <1>00 DEF PhaseOrder, NothingWrong, Unsorted, HarnessTypes
  <2>3. Empty'
    BY <2>1, <2>2 DEF Empty
  <2>4. Len(log) \in Nat /\ DOMAIN log = 1..Len(log) /\ log = [k \in 1..Len(log) |-> log[k]]
    BY DEF CacheTypes
  <2>5. \A i \in 1..Len(log) : \E k \in DOMAIN trace : trace[k] = i
    BY <2>2 DEF InOnePlace, Empty
  <2>6. DOMAIN trace = 1..Len(log) /\ Ascending(Range(trace)) = [k \in 1..Len(log) |-> k]
    BY <2>2, <2>4, <2>5, SortedIsOrder DEF InOnePlace
  <2>7. Given' = log'
    BY <2>1, <2>4, <2>6 DEF Given, Events
  <2>8. bpftrace' = "dead" /\ phase' = "checking" /\ ~cut'
    BY <2>1, <2>2
  <2> QED BY <1>0, <2>3, <2>7, <2>8 DEF NothingWrong, Unsorted
<1>10. CASE RunChecker
  <2>1. UNCHANGED <<log, trace, buffers>>
    BY <1>10 DEF RunChecker, cacheVars
  <2> QED BY <1>10, <1>00, <2>1, NothingMoves DEF RunChecker, Phase, NothingWrong, Unsorted
<1>11. CASE Report
  <2>1. UNCHANGED <<log, trace, buffers>>
    BY <1>11 DEF Report, cacheVars
  <2> QED BY <1>11, <1>00, <2>1, NothingMoves DEF Report, Phase, NothingWrong, Unsorted
<1>12. CASE UNCHANGED vars
  <2>1. UNCHANGED <<log, trace, buffers>>
    BY <1>12 DEF vars, harnessVars, cacheVars
  <2> QED BY <1>12, <1>00, <2>1, NothingMoves DEF vars, harnessVars, NothingWrong
<1> QED BY <1>0, <1>1, <1>2, <1>3, <1>4, <1>5, <1>6, <1>7, <1>8, <1>9, <1>10, <1>11, <1>12
   DEF Next, Script

LEMMA PipeInvariance == Spec => [](CacheTypes /\ LogIsReal /\ PipeInv)
<1>1. Init => CacheTypes /\ LogIsReal /\ PipeInv
  BY HarnessInit
<1>2. CacheTypes /\ LogIsReal /\ PipeInv /\ [Next]_vars => (CacheTypes /\ LogIsReal /\ PipeInv)'
  BY CacheInvStep, HarnessTypesStep, PhaseOrderStep, NothingWrongStep DEF PipeInv
<1> QED BY <1>1, <1>2, PTL DEF Spec
-----------------------------------------------------------------------------
(* The verdict.                                                            *)

LEMMA InlineType ==
    ASSUME NEW n \in Nat, NEW events, DOMAIN events = 1..n
    PROVE  Inline(events) \in Nat
<1>1. {i \in DOMAIN events : events[i].action = "VIOLATION_DoubleAdd"} \in SUBSET (1..n)
  OBVIOUS
<1>2. IsFiniteSet(1..n)
  BY IntervalCount
<1>3. IsFiniteSet({i \in DOMAIN events : events[i].action = "VIOLATION_DoubleAdd"})
  BY <1>1, <1>2, FS_Subset
<1> QED BY <1>3, FS_CardinalityType DEF Inline

\* The line of the report, from the trace that was read.
LEMMA ReportIs ==
    ASSUME PipeInv, Report
    PROVE  /\ result' \in {"CONFORMS", "VIOLATIONS"} /\ UNCHANGED <<checked, log, checker_exit>>
           /\ checker_exit = IF checked THEN GivenExit ELSE 0
           /\ result' = "CONFORMS" => checker_exit = 0
           /\ ~cut /\ "copy" \notin faults' =>
                 (result' = "CONFORMS" <=> checker_exit = 0 /\ Inline(Given) = 0)
<1>1. /\ result' \in {"CONFORMS", "VIOLATIONS"} /\ UNCHANGED <<checked, log, checker_exit>>
      /\ result' = "CONFORMS" => checker_exit = 0
  BY DEF Report, Concludes, cacheVars
<1>2. checker_exit = IF checked THEN GivenExit ELSE 0
  BY DEF Report, Phase, PipeInv, PhaseOrder
<1>3. ASSUME ~cut, "copy" \notin faults'
      PROVE  result' = "CONFORMS" <=> checker_exit = 0 /\ Inline(Given) = 0
  <2>1. PICK n \in {0} : Concludes(Inline(Given) + n)
    BY <1>3 DEF Report, Given
  <2>2. Inline(Given) \in Nat
    <3>1. PICK k \in Nat : DOMAIN trace = 1..k
      BY DEF PipeInv, HarnessTypes
    <3>2. DOMAIN Given = 1..k
      BY <3>1 DEF Given, Events
    <3> QED BY <3>2, InlineType
  <2>3. Inline(Given) + 0 = Inline(Given)
    BY <2>2
  <2> QED BY <2>1, <2>3 DEF Concludes
<1> QED BY <1>1, <1>2, <1>3

LEMMA GivenConforms ==
    ASSUME HarnessTypes
    PROVE  GivenExit = 0 <=> Conforms(Given) /\ Inline(Given) = 0
<1>1. PICK n \in Nat : DOMAIN trace = 1..n
  BY DEF HarnessTypes
<1>2. DOMAIN Given = 1..n
  BY <1>1 DEF Given, Events
<1>3. Conforms(Given) => Inline(Given) = 0
  BY <1>2, ConformsWithoutAlarms
<1> QED BY <1>3 DEF GivenExit, ExitCode

LEMMA PipeStep ==
    ASSUME CacheTypes, LogIsReal, PipeInv, [Next]_vars
    PROVE  [Pipe!Happens \/ Pipe!GoesWrong \/ Pipe!Conclude]_(Pipe!pipeVars)
<1>1. ASSUME NEW c \in CPUs, Kernel(c) PROVE Pipe!Happens \/ UNCHANGED Pipe!pipeVars
  <2>1. result = "none" /\ UNCHANGED <<result, checked>>
    BY <1>1 DEF Kernel, PipeInv, PhaseOrder
  <2>2. CASE UNCHANGED <<log, faults>>
    BY <2>1, <2>2 DEF Pipe!pipeVars
  <2>3. CASE \E e \in Entries : log' = Append(log, e)
    <3>1. Len(log') = Len(log) + 1 /\ SubSeq(log', 1, Len(log)) = log
      <4>1. PICK e \in Entries : log' = Append(log, e)
        BY <2>3
      <4>2. log \in Seq(Entries)
        BY DEF CacheTypes
      <4> QED BY <4>1, <4>2
    <3>2. faults = {} \/ faults' # {}
      BY <1>1 DEF Kernel, Deliver
    <3>3. (faults' = {}) \in {faults = {}, FALSE}
      BY <3>2
    <3> QED BY <2>1, <3>1, <3>3 DEF Pipe!Happens
  <2> QED BY <1>1, <2>2, <2>3, KernelDelivers
<1>2. CASE Report
  <2>1. result = "none" /\ UNCHANGED <<checked, log>> /\ result' \in {"CONFORMS", "VIOLATIONS"}
    BY <1>2, ReportIs DEF Report, Phase, PipeInv, PhaseOrder
  <2>2. (faults' = {}) \in {faults = {}, FALSE}
    BY <1>2 DEF Report
  <2>3. ASSUME faults' = {} PROVE result' = Judge(checked, log)
    <3>1. faults = {} /\ ~cut /\ Given = log
      BY <1>2, <2>3 DEF Report, Phase, PipeInv, NothingWrong, Unsorted
    <3>2. result' = "CONFORMS" <=> checker_exit = 0 /\ Inline(Given) = 0
      BY <1>2, <2>3, <3>1, ReportIs
    <3>3. checker_exit = IF checked THEN GivenExit ELSE 0
      BY <1>2, ReportIs
    <3>4. GivenExit = 0 <=> Conforms(Given) /\ Inline(Given) = 0
      BY GivenConforms DEF PipeInv
    <3>5. checked \in BOOLEAN
      BY DEF PipeInv, HarnessTypes
    <3>6. result' = "CONFORMS" <=> IF checked THEN Conforms(log) ELSE Inline(log) = 0
      <4>1. CASE checked
        <5>1. result' = "CONFORMS" <=> Conforms(Given) /\ Inline(Given) = 0
          BY <3>2, <3>3, <3>4, <4>1
        <5>2. Conforms(Given) => Inline(Given) = 0
          BY <3>4 DEF GivenExit, ExitCode
        <5>3. result' = "CONFORMS" <=> Conforms(log)
          BY <3>1, <5>1, <5>2, Zenon
        <5> QED BY <4>1, <5>3
      <4>2. CASE ~checked
        BY <3>1, <3>2, <3>3, <4>2
      <4> QED BY <4>1, <4>2
    <3> QED BY <2>1, <3>6 DEF Judge
  <2> QED BY <2>1, <2>2, <2>3 DEF Pipe!Conclude
<1>3. CASE ~Report /\ ~ \E c \in CPUs : Kernel(c)
  <2>1. UNCHANGED <<log, result, checked>> /\ (faults' = faults \/ (faults' # {} /\ phase # "exited"))
    BY <1>3 DEF Next, Script, vars, harnessVars, cacheVars, Attach, Drained, Poll, StartWorkload,
                StopTracing, Terminate, Wait, Sort, RunChecker, Phase
  <2>2. CASE faults' = faults
    BY <2>1, <2>2 DEF Pipe!pipeVars
  <2>3. CASE faults' # {} /\ phase # "exited"
    <3>1. result = "none" /\ (faults' = {}) = FALSE
      BY <2>3 DEF PipeInv, PhaseOrder
    <3> QED BY <2>1, <3>1 DEF Pipe!GoesWrong
  <2> QED BY <2>1, <2>2, <2>3
<1> QED BY <1>1, <1>2, <1>3

\* The script implements the pipe, for any number of CPUs and any buffers: as
\* long as nothing was lost, cut, late, unsorted or not copied, the result line is
\* the judgement on the events in their true order.
THEOREM HarnessIsAPipe == Spec => IsAPipe
<1>1. Init => Pipe!PipeInit
  BY DEF Init, Pipe!PipeInit
<1>2. CacheTypes /\ LogIsReal /\ PipeInv /\ [Next]_vars =>
         [Pipe!Happens \/ Pipe!GoesWrong \/ Pipe!Conclude]_(Pipe!pipeVars)
  BY PipeStep
<1> QED BY <1>1, <1>2, PipeInvariance, PTL DEF Spec, IsAPipe, Pipe!PipeSpec

\* What a pipe promises: an intact one's verdict is the judge's, and nothing
\* changes after it.
LEMMA PipePromise == IsAPipe => []Pipe!VerdictIsJudged /\ Pipe!VerdictIsLast
<1> DEFINE Step == Pipe!Happens \/ Pipe!GoesWrong \/ Pipe!Conclude
<1> USE DEF Pipe!Happens, Pipe!GoesWrong, Pipe!Conclude, Pipe!pipeVars
<1>1. Pipe!PipeInit => Pipe!VerdictIsJudged
  BY DEF Pipe!PipeInit, Pipe!VerdictIsJudged
<1>2. Pipe!VerdictIsJudged /\ [Step]_(Pipe!pipeVars) => Pipe!VerdictIsJudged'
  BY DEF Pipe!VerdictIsJudged
<1>3. [Step]_(Pipe!pipeVars) => [result = "none"]_(Pipe!pipeVars)
  OBVIOUS
<1> QED BY <1>1, <1>2, <1>3, PTL DEF IsAPipe, Pipe!PipeSpec, Pipe!VerdictIsLast

\* So it is with the harness: where nothing went wrong the line of the report is
\* the verdict on the log, and nothing happens or goes wrong after it.
THEOREM VerdictsAreJudged == Spec => []Pipe!VerdictIsJudged /\ Pipe!VerdictIsLast
BY HarnessIsAPipe, PipePromise, PTL

LEMMA ExitAgreesStep ==
    ASSUME PipeInv, ExitAgrees, [Next]_vars, HarnessTypes'
    PROVE  ExitAgrees'
<1>1. CASE Report
  <2>1. GivenExit = 0 <=> Conforms(Given) /\ Inline(Given) = 0
    BY GivenConforms DEF PipeInv
  <2>2. checked \in BOOLEAN /\ cut' = cut
    BY <1>1 DEF PipeInv, HarnessTypes, Report
  <2> QED BY <1>1, <2>1, <2>2, ReportIs DEF ExitAgrees
<1>2. CASE ~Report /\ phase # "exited"
  <2>1. phase' # "exited"
    BY <1>2 DEF Next, Script, vars, harnessVars, Attach, Drained, Kernel, Poll, StartWorkload,
                StopTracing, Terminate, Wait, Sort, RunChecker, Phase
  <2> QED BY <2>1 DEF ExitAgrees
<1>3. CASE ~Report /\ phase = "exited"
  <2>1. bpftrace = "dead"
    BY <1>3 DEF PipeInv, PhaseOrder
  <2>2. UNCHANGED <<checked, cut, faults, checker_exit, result, phase>>
    BY <1>3, <2>1 DEF Next, Script, vars, harnessVars, Attach, Drained, Kernel, Poll, StartWorkload,
                StopTracing, Terminate, Wait, Sort, RunChecker, Phase
  <2> QED BY <2>2 DEF ExitAgrees
<1> QED BY <1>1, <1>2, <1>3

\* Whatever is lost on the way, the exit status and the result line agree if the
\* file is whole and was copied; a status other than 0 is always a reported
\* violation; without a checker the status is 0.
THEOREM ExitStatusAgrees == Spec => []ExitAgrees
<1>1. Init => ExitAgrees
  BY DEF Init, InitHarness, InitSimulated, ExitAgrees
<1>2. PipeInv /\ HarnessTypes' /\ ExitAgrees /\ [Next]_vars => ExitAgrees'
  BY ExitAgreesStep
<1>3. PipeInv => HarnessTypes
  BY DEF PipeInv
<1> QED BY <1>1, <1>2, <1>3, PipeInvariance, PTL DEF Spec
-----------------------------------------------------------------------------
(* The checker's view against the cache.                                   *)

\* A range that holds the first block of another, of which it is not apart.
LEMMA FirstBlockInside ==
    ASSUME NEW r \in Ranges, NEW s \in Ranges, r = s \/ ~Meets(r, s), s[1] \in In(r)
    PROVE  r = s
BY RangeFacts DEF Meets

LEMMA AlignedRanges ==
    ASSUME CacheTypes, LogIsReal, Aligned, NEW r \in AddedRanges, NEW s \in AddedRanges
    PROVE  r = s \/ ~Meets(r, s)
<1>1. PICK i \in DOMAIN log : log[i].range = r
  BY DEF AddedRanges
<1>2. PICK j \in DOMAIN log : log[j].range = s
  BY DEF AddedRanges
<1>3. 0 \notin {r[2], s[2]}
  BY RangeFacts DEF LogIsReal
<1> QED BY <1>1, <1>2, <1>3 DEF Aligned

LEMMA AlignedGrows ==
    ASSUME CacheTypes, LogIsReal, NEW e \in Entries, log' = Append(log, e), Aligned'
    PROVE  /\ Aligned
           /\ e.range \in Ranges => \A s \in AddedRanges : e.range = s \/ ~Meets(e.range, s)
<1>1. /\ \A i \in DOMAIN log : i \in DOMAIN log' /\ log'[i] = log[i]
      /\ Len(log) + 1 \in DOMAIN log' /\ log'[Len(log) + 1] = e
  BY LogGrows DEF CacheTypes
<1>2. \A i, j \in DOMAIN log' :
         0 \notin {log'[i].range[2], log'[j].range[2]} =>
            log'[i].range = log'[j].range \/ ~Meets(log'[i].range, log'[j].range)
  BY DEF Aligned
<1>3. Aligned
  BY <1>1, <1>2 DEF Aligned
<1>4. ASSUME e.range \in Ranges, NEW s \in AddedRanges PROVE e.range = s \/ ~Meets(e.range, s)
  <2>1. PICK j \in DOMAIN log : log[j].range = s
    BY DEF AddedRanges
  <2>2. 0 \notin {e.range[2], s[2]}
    BY <1>4, RangeFacts DEF LogIsReal
  <2> QED BY <1>1, <1>2, <2>1, <2>2
<1> QED BY <1>3, <1>4

LEMMA ViewType ==
    ASSUME CacheTypes
    PROVE  View \in Views
<1>1. Len(log) \in Nat /\ DOMAIN log = 1..Len(log)
  BY DEF CacheTypes
<1> QED BY <1>1, FoldType DEF View

\* A call under way is for a range that was added; nobody else is at its first block.
LEMMA CallFacts ==
    ASSUME LogIsReal, WholeRanges, NEW c \in Busy
    PROVE  LET r == calling[c].range IN
           /\ r \in AddedRanges /\ r \in Ranges /\ r[1] \in FirstBlocks
           /\ r[1] \in Blocks /\ r[1] \in In(r) /\ In(r) \subseteq Blocks
           /\ NothingDoubled => \A d \in Busy : d # c => calling[d].range[1] \notin In(r)
<1>1. calling[c].range \in AddedRanges /\ calling[c].range \in Ranges
  BY DEF LogIsReal, WholeRanges
<1>2. ASSUME NothingDoubled, NEW d \in Busy, d # c
      PROVE  calling[d].range[1] \notin In(calling[c].range)
  <2>1. calling[d].range[1] \in In(calling[d].range)
    BY RangeFacts DEF LogIsReal
  <2>2. ~Meets(calling[d].range, calling[c].range)
    BY <1>2 DEF NothingDoubled, ViewCounts, Alone, Counted, HasReadWell, Concerns
  <2> QED BY <2>1, <2>2 DEF Meets
<1> QED BY <1>1, <1>2, RangeFacts DEF FirstBlocks

LEMMA FindKeepsView ==
    ASSUME CacheTypes, LogIsReal, ViewIsTrue, NEW c \in CPUs, Find(c)
    PROVE  ViewIsTrue'
<1>1. UNCHANGED <<cached, doubled, add_count, calling, log>>
  BY DEF Find, scriptVars
<1>2. Busy' = Busy /\ Coming' = Coming /\ Owed' = Owed
  BY <1>1 DEF Busy, Free, Coming, Adders, Adding, Owed
<1> QED BY <1>1, <1>2, LogKept
   DEF ViewIsTrue, WholeRanges, NothingDoubled, ViewCounts, Alone, Counted, HasReadWell, Concerns

\* A step inside a probe changes no more than the counter of its own range and
\* what is owed there.
LEMMA ProbeKeepsView ==
    ASSUME CacheTypes, LogIsReal, ViewIsTrue, NEW c \in CPUs, UNCHANGED <<kernelVars, log>>,
           RaiseCount(c) \/ LowerCount(c) \/ RemoveFreeSpace_Done(c)
    PROVE  ViewIsTrue'
<1> DEFINE r == calling[c].range
           first == r[1]
<1>1. /\ c \in Busy /\ UNCHANGED <<cached, doubled, log>> /\ calling[c] \in Calls
  BY DEF RaiseCount, LowerCount, RemoveFreeSpace_Done, Busy, Free, kernelVars, CacheTypes
<1>2. /\ r \in AddedRanges /\ r \in Ranges /\ first \in Blocks /\ first \in In(r)
      /\ NothingDoubled => \A d \in Busy : d # c => calling[d].range[1] # first
  BY <1>1, CallFacts DEF ViewIsTrue
<1>3. View' = View /\ AddedRanges' = AddedRanges /\ FirstBlocks' = FirstBlocks
  BY <1>1, LogKept
<1>4. /\ \A d \in CPUs : d = c \/ calling'[d] = calling[d]
      /\ calling'[c].range \in {r, NoRange} /\ Busy' \subseteq Busy
      /\ \A d \in Busy' : calling'[d].range = calling[d].range
      /\ Adders' = Adders
  <2>0. calling[c] \in Calls /\ \A d \in CPUs : calling[d] \in Calls
    BY DEF CacheTypes
  <2>1. /\ \A d \in CPUs : d = c \/ calling'[d] = calling[d]
        /\ \/ /\ calling'[c].stage = "none" /\ calling'[c].range = NoRange
              /\ calling[c].stage \in {"lessen", "remove"}
           \/ /\ calling'[c].range = calling[c].range
              /\ \/ calling[c].stage = "raise" /\ calling'[c].stage = "alarm"
                 \/ calling[c].stage = "lower" /\ calling'[c].stage = "lessen"
    <3>1. CASE RaiseCount(c)
      BY <2>0, <3>1 DEF RaiseCount, CacheTypes, Calls
    <3>2. CASE LowerCount(c)
      BY <2>0, <3>2 DEF LowerCount, CacheTypes, Calls
    <3>3. CASE RemoveFreeSpace_Done(c)
      BY <2>0, <3>3 DEF RemoveFreeSpace_Done, CacheTypes, NoCall
    <3> QED BY <3>1, <3>2, <3>3
  <2>2. Adders' = Adders
    BY <2>1 DEF Adders, Adding
  <2> QED BY <1>1, <2>1, <2>2 DEF Busy, Free
<1>5. /\ Coming' = Coming /\ \A d \in Adders : calling'[d].range = calling[d].range
  <2>1. Adders \subseteq Busy'
    BY <1>4 DEF Adders, Busy, Adding, Free
  <2> QED BY <1>4, <2>1 DEF Coming
<1> HIDE DEF r, first
<1>6. WholeRanges'
  BY <1>1, <1>3, <1>4 DEF ViewIsTrue, WholeRanges
<1>7. ASSUME NothingDoubled PROVE NothingDoubled'
  <2>0. /\ cached[first] = 0 /\ \A b \in Blocks : cached[b] \in Nat
        /\ \A b \in Blocks : add_count[b] \in Int /\ calling[c].read \in Int
    BY <1>1, <1>7
       DEF NothingDoubled, ViewCounts, Alone, Counted, HasReadWell, CacheTypes, Calls, first, r
  <2>1. \A b \in Blocks : b # first => (b \in Owed => b \in Owed')
    BY <1>4 DEF Owed, first, r
  <2>2. first \in Owed => \E d \in Busy : calling[d].range[1] = first /\ calling[d].stage \in {"alarm", "lower", "lessen"}
    BY DEF Owed, Busy, Free
  <2>3. /\ \A b \in Blocks : b # first => add_count'[b] = add_count[b]
        /\ add_count'[first] <= (IF first \in Owed' THEN 1 ELSE 0)
        /\ calling'[c].stage # "raise" /\ (calling'[c].stage = "lessen" => calling'[c].read <= 1)
    <3>1. CASE RaiseCount(c)
      <4>1. /\ add_count' = [add_count EXCEPT ![first] = calling[c].read + 1]
            /\ calling'[c].stage = "alarm" /\ calling'[c].range = r
        BY <3>1, <1>1 DEF RaiseCount, CacheTypes, Calls, r, first
      <4>2. calling[c].read <= 0
        BY <1>1, <1>7, <3>1 DEF NothingDoubled, ViewCounts, Alone, Counted, HasReadWell, RaiseCount
      <4>3. first \in Owed'
        BY <4>1 DEF Owed, first
      <4>4. add_count'[first] = calling[c].read + 1 /\ \A b \in Blocks : b # first => add_count'[b] = add_count[b]
        BY <1>2, <4>1 DEF CacheTypes
      <4> QED BY <1>2, <2>0, <4>1, <4>2, <4>3, <4>4
    <3>2. CASE LowerCount(c)
      <4>1. /\ add_count' = add_count /\ calling[c].stage = "lower"
            /\ calling'[c].stage = "lessen" /\ calling'[c].range = r /\ calling'[c].read = add_count[first]
        BY <3>2, <1>1 DEF LowerCount, CacheTypes, Calls, r, first
      <4>2. first \in Owed'
        BY <4>1 DEF Owed, first
      <4>3. add_count[first] <= 1
        <5>1. add_count[first] <= cached[first] + (IF first \in Owed THEN 1 ELSE 0)
          BY <1>2, <1>7 DEF NothingDoubled, ViewCounts, Alone, Counted, HasReadWell
        <5> QED BY <1>2, <2>0, <5>1
      <4> QED BY <4>1, <4>2, <4>3
    <3>3. CASE RemoveFreeSpace_Done(c) /\ calling[c].stage = "lessen"
      <4>1. /\ add_count' = [add_count EXCEPT ![first] = calling[c].read - 1]
            /\ calling'[c].stage = "none"
        BY <3>3, <1>1 DEF RemoveFreeSpace_Done, CacheTypes, NoCall, r, first
      <4>2. calling[c].read <= 1
        BY <1>1, <1>7, <3>3 DEF NothingDoubled, ViewCounts, Alone, Counted, HasReadWell
      <4>3. add_count'[first] = calling[c].read - 1 /\ \A b \in Blocks : b # first => add_count'[b] = add_count[b]
        BY <1>2, <4>1 DEF CacheTypes
      <4> QED BY <1>2, <2>0, <4>1, <4>2, <4>3
    <3>4. CASE RemoveFreeSpace_Done(c) /\ calling[c].stage = "remove"
      <4>1. add_count' = add_count /\ calling'[c].stage = "none"
        BY <3>4, <1>1 DEF RemoveFreeSpace_Done, CacheTypes, NoCall
      <4>2. first \notin Owed
        BY <1>2, <1>7, <2>2, <3>4
      <4>3. add_count[first] <= cached[first] + (IF first \in Owed THEN 1 ELSE 0)
        BY <1>2, <1>7 DEF NothingDoubled, ViewCounts, Alone, Counted, HasReadWell
      <4> QED BY <1>2, <2>0, <4>1, <4>2, <4>3
    <3>5. RemoveFreeSpace_Done(c) => calling[c].stage \in {"lessen", "remove"}
      BY DEF RemoveFreeSpace_Done
    <3> QED BY <3>1, <3>2, <3>3, <3>4, <3>5
  <2>4. ASSUME NEW b \in Blocks
        PROVE  add_count'[b] <= cached'[b] + (IF b \in Owed' THEN 1 ELSE 0)
    <3>1. CASE b = first
      BY <1>1, <2>0, <2>3, <3>1
    <3>2. CASE b # first
      <4>1. add_count[b] <= cached[b] + (IF b \in Owed THEN 1 ELSE 0)
        BY <1>7 DEF NothingDoubled, ViewCounts, Alone, Counted, HasReadWell
      <4> QED BY <1>1, <2>0, <2>1, <2>3, <3>2, <4>1
    <3> QED BY <3>1, <3>2
  <2>5. /\ (\A d, e \in Busy : Concerns(d, calling[e].range) => d = e)'
        /\ \A d \in Busy' : cached'[calling'[d].range[1]] = 0
    BY <1>1, <1>4, <1>7 DEF NothingDoubled, ViewCounts, Alone, Counted, HasReadWell, Concerns
  <2>6. \A d \in Busy' : /\ calling'[d].stage = "raise" => calling'[d].read <= 0
                         /\ calling'[d].stage = "lessen" => calling'[d].read <= 1
    <3> SUFFICES ASSUME NEW d \in Busy'
                 PROVE  /\ calling'[d].stage = "raise" => calling'[d].read <= 0
                        /\ calling'[d].stage = "lessen" => calling'[d].read <= 1
      OBVIOUS
    <3>1. d \in Busy /\ d \in CPUs
      BY <1>4 DEF Busy
    <3> QED BY <1>4, <1>7, <2>3, <3>1 DEF NothingDoubled, ViewCounts, Alone, Counted, HasReadWell
  <2>7. /\ View'.conforming /\ \A b \in Blocks : cached'[b] <= 1
        /\ \A b \in Blocks : View'.cache[b] =
              IF b \in FirstBlocks' THEN cached'[b] + (IF b \in Coming' THEN 1 ELSE 0) ELSE 0
    BY <1>1, <1>3, <1>5, <1>7 DEF NothingDoubled, ViewCounts, Alone, Counted, HasReadWell
  <2>8. ViewCounts'
    BY <2>7 DEF ViewCounts
  <2>9. Alone'
    BY <2>5, <2>7 DEF Alone
  <2>10. Counted'
    BY <2>4 DEF Counted
  <2>11. (\A d \in Busy : HasReadWell(d))'
    BY <2>6 DEF HasReadWell
  <2> QED BY <2>8, <2>9, <2>10, <2>11 DEF NothingDoubled
<1> QED BY <1>1, <1>3, <1>6, <1>7 DEF ViewIsTrue

LEMMA AddKeepsView ==
    ASSUME CacheTypes, LogIsReal, ViewIsTrue, NEW c \in CPUs, AddFreeSpace(c, TRUE), Aligned',
           ~contested'
    PROVE  ViewIsTrue'
<1> DEFINE r == found[c]
           first == r[1]
<1>1. /\ r \in Ranges /\ AddEntry(r) \in Entries /\ log' = Append(log, AddEntry(r))
      /\ c \notin Busy /\ first \in Blocks /\ first \in In(r) /\ In(r) \subseteq Blocks
  BY EntryTypes, RangeFacts DEF AddFreeSpace, AddEntry, CacheTypes, Busy
<1>2. /\ AddedRanges' = AddedRanges \cup {r} /\ FirstBlocks' = FirstBlocks \cup {first}
  BY <1>1, AddGrows DEF CacheTypes, AddEntry
<1>3. View' = Process(View, AddEntry(r))
  BY <1>1, LogGrows DEF CacheTypes
<1>4. View' = OnAdd(View, first)
  BY <1>3 DEF Process, AddEntry
<1>5. /\ UNCHANGED <<cached, add_count>> /\ Busy' = Busy \cup {c} /\ Adders' = Adders \cup {c}
      /\ \A d \in Busy : calling'[d] = calling[d]
      /\ calling'[c] = [stage |-> "raise", range |-> r, read |-> add_count[first]]
      /\ Adders \subseteq Busy
  BY <1>1 DEF AddFreeSpace, Busy, Adders, Adding, Free, CacheTypes
<1>6. \A s \in AddedRanges : r = s \/ ~Meets(r, s)
  BY <1>1, AlignedGrows DEF AddEntry
<1>7. Coming' = Coming \cup {first} /\ Owed' = Owed
  <2>1. Coming' = Coming \cup {first}
    BY <1>5 DEF Coming
  <2>2. {d \in CPUs : calling'[d].stage \in {"alarm", "lower", "lessen"}}
          = {d \in CPUs : calling[d].stage \in {"alarm", "lower", "lessen"}}
    BY <1>1 DEF AddFreeSpace, Free, CacheTypes
  <2>3. \A d \in CPUs : calling[d].stage \in {"alarm", "lower", "lessen"} => d \in Busy
    BY DEF Busy, Free
  <2> QED BY <1>5, <2>1, <2>2, <2>3 DEF Owed
<1>8. View \in Views
  BY ViewType
<1>9. doubled' <=> \/ doubled
                   \/ \E b \in In(r) : cached[b] > 0
                   \/ \E d \in Adders : Meets(calling[d].range, r)
  BY DEF AddFreeSpace, Adders, Concerns
<1>a. \A d \in Busy : d \in Adders \/ ~Meets(calling[d].range, r)
  <2>1. \A d \in CPUs : ~(Removing(d) /\ Meets(calling[d].range, r))
    BY DEF AddFreeSpace, Concerns
  <2>2. \A d \in Busy : d \in CPUs /\ (Adding(d) \/ Removing(d))
    BY DEF Busy, Free, Adding, Removing, CacheTypes, Calls, Stages
  <2> QED BY <2>1, <2>2 DEF Adders
<1> HIDE DEF r, first
<1>10. WholeRanges'
  <2>1. ASSUME NEW b \in Blocks, cached[b] > 0 PROVE \E s \in AddedRanges' : b \in In(s)
    BY <1>2, <2>1 DEF ViewIsTrue, WholeRanges
  <2>2. ASSUME NEW s \in AddedRanges', NEW x \in In(s), NEW y \in In(s) PROVE cached[x] = cached[y]
    <3>1. CASE s \in AddedRanges
      BY <3>1 DEF ViewIsTrue, WholeRanges
    <3>2. CASE s = r /\ r \notin AddedRanges
      <4>1. \A b \in In(r) : ~(cached[b] > 0)
        BY <1>1, <1>6, <3>2 DEF ViewIsTrue, WholeRanges, Meets
      <4>2. cached[x] = 0 /\ cached[y] = 0
        BY <1>1, <3>2, <4>1 DEF CacheTypes
      <4> QED BY <4>2
    <3> QED BY <1>2, <3>1, <3>2
  <2>3. \A d \in Busy' : calling'[d].range \in AddedRanges'
    BY <1>2, <1>5 DEF ViewIsTrue, WholeRanges
  <2> QED BY <1>5, <2>1, <2>2, <2>3 DEF WholeRanges
<1>11. ASSUME doubled' PROVE ~View'.conforming
  <2>1. CASE doubled
    BY <1>3, <1>8, <2>1, ProcessSticky DEF ViewIsTrue
  <2>2. CASE ~doubled /\ r \in AddedRanges /\ (cached[first] > 0 \/ first \in Coming)
    <3>1. first \in FirstBlocks
      BY <2>2 DEF FirstBlocks, first
    <3>2. View.cache[first] = cached[first] + (IF first \in Coming THEN 1 ELSE 0)
      BY <1>1, <2>2, <3>1 DEF ViewIsTrue, NothingDoubled, ViewCounts, Alone, Counted, HasReadWell
    <3>3. View.cache[first] # 0
      BY <1>1, <2>2, <3>2 DEF CacheTypes
    <3> QED BY <1>4, <3>3 DEF OnAdd
  <2>3. CASE ~doubled /\ \E b \in In(r) : cached[b] > 0
    <3>1. PICK b \in In(r) : cached[b] > 0
      BY <2>3
    <3>2. PICK s \in AddedRanges : b \in In(s)
      BY <1>1, <3>1 DEF ViewIsTrue, WholeRanges
    <3>3. r = s
      BY <1>6, <3>2 DEF Meets
    <3>4. cached[first] = cached[b]
      BY <1>1, <3>2, <3>3 DEF ViewIsTrue, WholeRanges
    <3> QED BY <2>2, <2>3, <3>1, <3>2, <3>3, <3>4
  <2>4. CASE ~doubled /\ \E d \in Adders : Meets(calling[d].range, r)
    <3>1. PICK d \in Adders : Meets(calling[d].range, r)
      BY <2>4
    <3>2. calling[d].range \in AddedRanges /\ Meets(r, calling[d].range)
      BY <3>1 DEF LogIsReal, Meets
    <3>3. r = calling[d].range
      BY <1>6, <3>2
    <3>4. first \in Coming
      BY <3>3 DEF Coming, first
    <3> QED BY <2>2, <2>4, <3>2, <3>3, <3>4
  <2> QED BY <1>9, <1>11, <2>1, <2>3, <2>4
<1>12. ASSUME ~doubled' PROVE NothingDoubled'
  <2>1. /\ ~doubled /\ cached[first] = 0 /\ first \notin Coming
        /\ \A d \in Busy : ~Meets(calling[d].range, r) /\ calling[d].range[1] # first
    <3>1. ~doubled /\ ~(cached[first] > 0) /\ \A d \in Adders : ~Meets(calling[d].range, r)
      BY <1>1, <1>9, <1>12
    <3>2. \A d \in Busy : ~Meets(calling[d].range, r)
      BY <1>a, <3>1
    <3>3. ASSUME NEW d \in Busy PROVE calling[d].range[1] # first
      <4>1. calling[d].range[1] \in In(calling[d].range)
        BY RangeFacts DEF LogIsReal
      <4> QED BY <1>1, <3>2, <4>1 DEF Meets
    <3>4. first \notin Coming
      BY <1>5, <3>3 DEF Coming
    <3> QED BY <1>1, <3>1, <3>2, <3>3, <3>4 DEF CacheTypes
  <2>2. NothingDoubled
    BY <2>1 DEF ViewIsTrue
  <2>3. View.cache[first] = 0
    BY <1>1, <2>1, <2>2 DEF NothingDoubled, ViewCounts, Alone, Counted, HasReadWell
  <2>4. View'.conforming
    BY <1>4, <2>2, <2>3 DEF OnAdd, NothingDoubled, ViewCounts, Alone, Counted, HasReadWell
  <2>5. ASSUME NEW b \in Blocks
        PROVE  View'.cache[b] =
                  IF b \in FirstBlocks' THEN cached'[b] + (IF b \in Coming' THEN 1 ELSE 0) ELSE 0
    <3>1. View'.cache = [View.cache EXCEPT ![first] = @ + 1]
      BY <1>4 DEF OnAdd
    <3>2. CASE b = first
      BY <1>1, <1>2, <1>5, <1>7, <1>8, <2>1, <2>3, <3>1, <3>2 DEF Views
    <3>3. CASE b # first
      <4>1. View'.cache[b] = View.cache[b]
        BY <1>1, <1>8, <3>1, <3>3 DEF Views
      <4> QED BY <1>2, <1>5, <1>7, <2>2, <3>3, <4>1
         DEF NothingDoubled, ViewCounts, Alone, Counted, HasReadWell
    <3> QED BY <3>2, <3>3
  <2>6. ASSUME NEW d \in Busy', NEW e \in Busy', Meets(calling'[d].range, calling'[e].range)
        PROVE  d = e
    <3>1. \A x \in Busy : ~Meets(r, calling[x].range)
      BY <2>1 DEF Meets
    <3> QED BY <1>5, <2>1, <2>2, <2>6, <3>1
       DEF NothingDoubled, ViewCounts, Alone, Counted, HasReadWell, Concerns
  <2>7. \A b \in Blocks : add_count'[b] <= cached'[b] + (IF b \in Owed' THEN 1 ELSE 0)
    BY <1>5, <1>7, <2>2 DEF NothingDoubled, ViewCounts, Alone, Counted, HasReadWell
  <2>8. add_count[first] <= 0
    <3>1. first \notin Owed
      BY <2>1 DEF Owed, Busy, Free
    <3>2. add_count[first] <= cached[first] + (IF first \in Owed THEN 1 ELSE 0)
      BY <1>1, <2>2 DEF NothingDoubled, ViewCounts, Alone, Counted, HasReadWell
    <3> QED BY <1>1, <2>1, <3>1, <3>2 DEF CacheTypes
  <2>9. \A d \in Busy' : /\ cached'[calling'[d].range[1]] = 0
                         /\ calling'[d].stage = "raise" => calling'[d].read <= 0
                         /\ calling'[d].stage = "lessen" => calling'[d].read <= 1
    <3>1. ASSUME NEW d \in Busy
          PROVE  /\ cached'[calling'[d].range[1]] = 0
                 /\ calling'[d].stage = "raise" => calling'[d].read <= 0
                 /\ calling'[d].stage = "lessen" => calling'[d].read <= 1
      BY <1>5, <2>2 DEF NothingDoubled, ViewCounts, Alone, Counted, HasReadWell
    <3>2. /\ cached'[calling'[c].range[1]] = 0 /\ calling'[c].stage = "raise"
          /\ calling'[c].read <= 0
      BY <1>5, <2>1, <2>8 DEF first
    <3> QED BY <1>5, <3>1, <3>2
  <2>10. \A b \in Blocks : cached'[b] <= 1
    BY <1>5, <2>2 DEF NothingDoubled, ViewCounts, Alone, Counted, HasReadWell
  <2>11. ViewCounts'
    BY <2>4, <2>5 DEF ViewCounts
  <2>12. Alone'
    BY <2>6, <2>9, <2>10 DEF Alone, Concerns
  <2>13. Counted'
    BY <2>7 DEF Counted
  <2>14. (\A d \in Busy : HasReadWell(d))'
    BY <2>9 DEF HasReadWell
  <2> QED BY <2>11, <2>12, <2>13, <2>14 DEF NothingDoubled
<1> QED BY <1>10, <1>11, <1>12 DEF ViewIsTrue
LEMMA DoneKeepsView ==
    ASSUME CacheTypes, LogIsReal, ViewIsTrue, NEW c \in CPUs, AddFreeSpace_Done(c), Aligned'
    PROVE  ViewIsTrue'
<1> DEFINE r == calling[c].range
           first == r[1]
<1>0. c \in Busy /\ c \in Adders
  BY DEF AddFreeSpace_Done, Busy, Adders, Adding, Free
<1>1. /\ r \in AddedRanges /\ r \in Ranges /\ AlarmEntry(r) \in Entries
      /\ AlarmEntry(r).action # "AddFreeSpace"
      /\ first \in Blocks /\ first \in In(r) /\ In(r) \subseteq Blocks
      /\ first \in FirstBlocks /\ first \in Coming
  BY <1>0, EntryTypes, CallFacts DEF ViewIsTrue, Coming
<1>2. log' = log \/ log' = Append(log, AlarmEntry(r))
  BY DEF AddFreeSpace_Done, AlarmEntry
<1>3. Aligned /\ AddedRanges' = AddedRanges /\ FirstBlocks' = FirstBlocks
  <2>1. CASE log' = log
    BY <2>1, LogKept DEF Aligned
  <2>2. CASE log' = Append(log, AlarmEntry(r))
    BY <1>1, <2>2, OtherGrows, AlignedGrows DEF CacheTypes
  <2> QED BY <1>2, <2>1, <2>2
<1>4. \A s \in AddedRanges : r = s \/ ~Meets(r, s)
  BY <1>1, <1>3, AlignedRanges
<1>5. /\ doubled' = doubled /\ add_count' = add_count
      /\ Busy' = Busy \ {c} /\ Adders' = Adders \ {c} /\ Adders \subseteq Busy
      /\ cached' = [b \in Blocks |-> IF b \in In(r) THEN cached[b] + 1 ELSE cached[b]]
      /\ calling'[c].stage = "none" /\ \A d \in CPUs : d = c \/ calling'[d] = calling[d]
  BY <1>0 DEF AddFreeSpace_Done, Busy, Adders, Adding, Free, CacheTypes, NoCall
<1>6. \A b \in FirstBlocks : b \in In(r) => b = first
  BY <1>1, <1>4, FirstBlockInside DEF FirstBlocks, LogIsReal
<1>7. View \in Views
  BY ViewType
<1>8. add_count[first] <= 1 => log' = log
  <2>1. add_count[first] \in Int
    BY <1>1 DEF CacheTypes
  <2> QED BY <2>1 DEF AddFreeSpace_Done
<1> HIDE DEF r, first
<1>10. WholeRanges'
  <2>1. ASSUME NEW b \in Blocks, cached'[b] > 0 PROVE \E s \in AddedRanges' : b \in In(s)
    <3>1. CASE b \in In(r)
      BY <1>1, <1>3, <3>1
    <3>2. CASE b \notin In(r)
      BY <1>3, <1>5, <2>1, <3>2 DEF ViewIsTrue, WholeRanges
    <3> QED BY <3>1, <3>2
  <2>2. ASSUME NEW s \in AddedRanges', NEW x \in In(s), NEW y \in In(s) PROVE cached'[x] = cached'[y]
    <3>1. s \in AddedRanges /\ x \in Blocks /\ y \in Blocks /\ cached[x] = cached[y]
      BY <1>3, <2>2, RangeFacts DEF ViewIsTrue, WholeRanges, LogIsReal
    <3>2. CASE r = s
      BY <1>5, <3>1, <3>2
    <3>3. CASE ~Meets(r, s)
      BY <1>5, <3>1, <3>3 DEF Meets
    <3> QED BY <1>4, <3>1, <3>2, <3>3
  <2>3. \A d \in Busy' : calling'[d].range \in AddedRanges'
    BY <1>3, <1>5 DEF ViewIsTrue, WholeRanges, Busy
  <2> QED BY <2>1, <2>2, <2>3 DEF WholeRanges
<1>11. ASSUME doubled' PROVE ~View'.conforming
  <2>1. ~View.conforming
    BY <1>5, <1>11 DEF ViewIsTrue
  <2>2. CASE log' = log
    BY <2>1, <2>2, LogKept
  <2>3. CASE log' = Append(log, AlarmEntry(r))
    <3>1. View' = Process(View, AlarmEntry(r))
      BY <1>1, <2>3, LogGrows DEF CacheTypes
    <3> QED BY <1>7, <2>1, <3>1, ProcessSticky
  <2> QED BY <1>2, <2>2, <2>3
<1>12. ASSUME ~doubled' PROVE NothingDoubled'
  <2>1. NothingDoubled
    BY <1>5, <1>12 DEF ViewIsTrue
  <2>a. \A d \in Busy : d # c => calling[d].range[1] \notin In(r)
    BY <1>0, <2>1, CallFacts DEF ViewIsTrue, r
  <2>b. cached[first] = 0 /\ add_count[first] \in Int /\ add_count[first] <= 1
    <3>1. cached[first] = 0
      BY <1>0, <2>1 DEF NothingDoubled, ViewCounts, Alone, Counted, HasReadWell, r, first
    <3>2. add_count[first] \in Int /\ add_count[first] <= cached[first] + (IF first \in Owed THEN 1 ELSE 0)
      BY <1>1, <2>1 DEF NothingDoubled, ViewCounts, Alone, Counted, HasReadWell, CacheTypes
    <3> QED BY <3>1, <3>2
  <2>2. View' = View
    BY <1>8, <2>b, LogKept
  <2>3. \A d \in Busy : d # c => calling[d].range[1] # first
    BY <1>1, <2>a
  <2>4. /\ first \notin Coming' /\ \A b \in Blocks : b # first => (b \in Coming' <=> b \in Coming)
        /\ \A b \in Blocks : b # first /\ b \in Owed => b \in Owed'
    <3>1. first \notin Coming'
      <4>1. \A d \in Adders' : d \in Busy /\ d # c /\ calling'[d] = calling[d]
        BY <1>5 DEF Adders
      <4> QED BY <2>3, <4>1 DEF Coming
    <3>2. \A b \in Blocks : b # first => (b \in Coming' <=> b \in Coming)
      <4>1. calling[c].range[1] = first /\ \A d \in Adders : d # c => calling'[d] = calling[d]
        BY <1>5 DEF Adders, first, r
      <4> QED BY <1>5, <4>1 DEF Coming
    <3>3. \A b \in Blocks : b # first /\ b \in Owed => b \in Owed'
      <4>1. calling[c].range[1] = first
        BY DEF first, r
      <4> QED BY <1>5, <4>1 DEF Owed
    <3> QED BY <3>1, <3>2, <3>3
  <2>5. ASSUME NEW b \in Blocks
        PROVE  View'.cache[b] =
                  IF b \in FirstBlocks' THEN cached'[b] + (IF b \in Coming' THEN 1 ELSE 0) ELSE 0
    <3>1. View.cache[b] = IF b \in FirstBlocks THEN cached[b] + (IF b \in Coming THEN 1 ELSE 0) ELSE 0
      BY <2>1 DEF NothingDoubled, ViewCounts, Alone, Counted, HasReadWell
    <3>2. CASE b = first
      <4>1. cached'[b] = cached[b] + 1 /\ cached[b] \in Nat
        BY <1>1, <1>5, <3>2 DEF CacheTypes
      <4> QED BY <1>1, <1>3, <2>2, <2>4, <3>1, <3>2, <4>1
    <3>3. CASE b # first
      <4>1. b \in FirstBlocks => cached'[b] = cached[b]
        BY <1>5, <1>6, <3>3
      <4> QED BY <1>3, <2>2, <2>4, <3>1, <3>3, <4>1
    <3> QED BY <3>2, <3>3
  <2>6. ASSUME NEW d \in Busy', NEW e \in Busy', Meets(calling'[d].range, calling'[e].range)
        PROVE  d = e
    <3>1. /\ d \in Busy /\ e \in Busy /\ calling'[d] = calling[d] /\ calling'[e] = calling[e]
      BY <1>5 DEF Busy
    <3> QED BY <2>1, <2>6, <3>1 DEF NothingDoubled, ViewCounts, Alone, Counted, HasReadWell, Concerns
  <2>7. ASSUME NEW b \in Blocks
        PROVE  /\ add_count'[b] <= cached'[b] + (IF b \in Owed' THEN 1 ELSE 0)
               /\ cached'[b] <= 1
    <3>1. /\ add_count[b] <= cached[b] + (IF b \in Owed THEN 1 ELSE 0)
          /\ cached[b] \in Nat /\ cached[b] <= 1 /\ add_count[b] \in Int
      BY <2>1 DEF NothingDoubled, ViewCounts, Alone, Counted, HasReadWell, CacheTypes
    <3>2. b \in In(r) => cached[b] = 0
      BY <1>1, <2>b DEF ViewIsTrue, WholeRanges
    <3>3. cached'[b] = IF b \in In(r) THEN cached[b] + 1 ELSE cached[b]
      BY <1>5
    <3>4. CASE b = first
      BY <1>1, <1>5, <2>b, <3>3, <3>4
    <3>5. CASE b # first
      BY <1>5, <2>4, <3>1, <3>2, <3>3, <3>5
    <3> QED BY <3>4, <3>5
  <2>8. \A d \in Busy' : /\ cached'[calling'[d].range[1]] = 0
                         /\ calling'[d].stage = "raise" => calling'[d].read <= 0
                         /\ calling'[d].stage = "lessen" => calling'[d].read <= 1
    <3> SUFFICES ASSUME NEW d \in Busy'
                 PROVE  /\ cached'[calling'[d].range[1]] = 0
                        /\ calling'[d].stage = "raise" => calling'[d].read <= 0
                        /\ calling'[d].stage = "lessen" => calling'[d].read <= 1
      OBVIOUS
    <3>1. d \in Busy /\ d # c /\ calling'[d] = calling[d]
      BY <1>5 DEF Busy
    <3>2. calling[d].range[1] \in Blocks /\ calling[d].range[1] \notin In(r)
      BY <2>a, <3>1, RangeFacts DEF LogIsReal
    <3> QED BY <1>5, <2>1, <3>1, <3>2 DEF NothingDoubled, ViewCounts, Alone, Counted, HasReadWell
  <2>9. View'.conforming
    BY <2>1, <2>2 DEF NothingDoubled, ViewCounts, Alone, Counted, HasReadWell
  <2>11. ViewCounts'
    BY <2>5, <2>9 DEF ViewCounts
  <2>12. Alone'
    BY <2>6, <2>8, <2>7 DEF Alone, Concerns
  <2>13. Counted'
    BY <2>7 DEF Counted
  <2>14. (\A d \in Busy : HasReadWell(d))'
    BY <2>8 DEF HasReadWell
  <2> QED BY <2>11, <2>12, <2>13, <2>14 DEF NothingDoubled
<1> QED BY <1>10, <1>11, <1>12 DEF ViewIsTrue

LEMMA RemoveKeepsView ==
    ASSUME CacheTypes, LogIsReal, ViewIsTrue, NEW c \in CPUs, RemoveFreeSpace(c, TRUE), Aligned'
    PROVE  ViewIsTrue'
<1>1. PICK r \in Ranges :
        /\ \A b \in In(r) : cached[b] > 0
        /\ cached' = [b \in Blocks |-> IF b \in In(r) THEN cached[b] - 1 ELSE cached[b]]
        /\ log' = Append(log, RemoveEntry(r))
        /\ calling' = [calling EXCEPT ![c] =
              [stage |-> IF add_count[r[1]] > 0 THEN "lower" ELSE "remove", range |-> r, read |-> 0]]
  BY DEF RemoveFreeSpace, RemoveEntry
<1> DEFINE first == r[1]
<1>2. /\ RemoveEntry(r) \in Entries /\ RemoveEntry(r).action # "AddFreeSpace" /\ RemoveEntry(r).range = r
      /\ first \in Blocks /\ first \in In(r) /\ In(r) \subseteq Blocks
  BY EntryTypes, RangeFacts DEF RemoveEntry
<1>3. /\ UNCHANGED <<doubled, found, add_count>> /\ Busy' = Busy \cup {c} /\ Coming' = Coming
      /\ c \notin Busy /\ \A d \in Busy : calling'[d] = calling[d]
      /\ calling'[c] = [stage |-> IF add_count[first] > 0 THEN "lower" ELSE "remove", range |-> r, read |-> 0]
      /\ \A b : b \in Owed' <=> b \in Owed \/ (add_count[first] > 0 /\ b = first)
  <2>1. UNCHANGED <<doubled, found, add_count>> /\ c \notin Busy /\ Free(c)
    BY DEF RemoveFreeSpace, Busy
  <2>2. \A d \in CPUs : d = c \/ calling'[d] = calling[d]
    BY <1>1
  <2>3. calling'[c] = [stage |-> IF add_count[first] > 0 THEN "lower" ELSE "remove", range |-> r, read |-> 0]
    BY <1>1 DEF CacheTypes
  <2>4. Busy' = Busy \cup {c} /\ Adders' = Adders /\ c \notin Adders
    BY <2>1, <2>2, <2>3 DEF Busy, Adders, Adding, Free
  <2>5. Coming' = Coming
    BY <2>2, <2>4 DEF Coming, Adders
  <2>6. \A b : b \in Owed' <=> b \in Owed \/ (add_count[first] > 0 /\ b = first)
    BY <2>1, <2>2, <2>3 DEF Owed, Free
  <2> QED BY <2>1, <2>2, <2>3, <2>4, <2>5, <2>6 DEF Busy
<1>4. AddedRanges' = AddedRanges /\ FirstBlocks' = FirstBlocks
  BY <1>1, <1>2, OtherGrows DEF CacheTypes
<1>5. \A s \in AddedRanges : r = s \/ ~Meets(r, s)
  BY <1>1, <1>2, AlignedGrows
<1>6. r \in AddedRanges
  <2>1. PICK s \in AddedRanges : first \in In(s)
    BY <1>1, <1>2 DEF ViewIsTrue, WholeRanges
  <2>2. Meets(r, s)
    BY <1>2, <2>1 DEF Meets
  <2> QED BY <1>5, <2>1, <2>2
<1>7. View' = OnRemove(View, first) /\ View \in Views
  <2>1. View' = Process(View, RemoveEntry(r))
    BY <1>1, <1>2, LogGrows DEF CacheTypes
  <2> QED BY <2>1, ViewType DEF Process, RemoveEntry
<1>8. \A b \in FirstBlocks : b \in In(r) => b = first
  BY <1>1, <1>5, FirstBlockInside DEF FirstBlocks, LogIsReal
<1>9. first \in FirstBlocks
  BY <1>6 DEF FirstBlocks
<1> HIDE DEF first
<1>10. WholeRanges'
  <2>1. ASSUME NEW b \in Blocks, cached'[b] > 0 PROVE \E s \in AddedRanges' : b \in In(s)
    <3>1. cached[b] > 0
      BY <1>1, <2>1 DEF CacheTypes
    <3> QED BY <1>4, <3>1 DEF ViewIsTrue, WholeRanges
  <2>2. ASSUME NEW s \in AddedRanges', NEW x \in In(s), NEW y \in In(s) PROVE cached'[x] = cached'[y]
    <3>1. s \in AddedRanges /\ x \in Blocks /\ y \in Blocks /\ cached[x] = cached[y]
      BY <1>4, <2>2, RangeFacts DEF ViewIsTrue, WholeRanges, LogIsReal
    <3>2. CASE r = s
      BY <1>1, <3>1, <3>2
    <3>3. CASE ~Meets(r, s)
      BY <1>1, <3>1, <3>3 DEF Meets
    <3> QED BY <1>5, <3>1, <3>2, <3>3
  <2>3. \A d \in Busy' : calling'[d].range \in AddedRanges'
    BY <1>3, <1>4, <1>6 DEF ViewIsTrue, WholeRanges
  <2> QED BY <2>1, <2>2, <2>3 DEF WholeRanges
<1>11. ASSUME doubled' PROVE ~View'.conforming
  BY <1>3, <1>7, <1>11 DEF ViewIsTrue, OnRemove, Views
<1>12. ASSUME ~doubled' PROVE NothingDoubled'
  <2>1. NothingDoubled
    BY <1>3, <1>12 DEF ViewIsTrue
  <2>2. \A b \in Blocks :
           View.cache[b] = IF b \in FirstBlocks THEN cached[b] + (IF b \in Coming THEN 1 ELSE 0) ELSE 0
    BY <2>1 DEF NothingDoubled, ViewCounts, Alone, Counted, HasReadWell
  <2>3. View.cache[first] > 0
    <3>1. View.cache[first] = cached[first] + (IF first \in Coming THEN 1 ELSE 0)
      BY <1>2, <1>9, <2>2
    <3>2. cached[first] > 0 /\ cached[first] \in Nat
      BY <1>1, <1>2 DEF CacheTypes
    <3> QED BY <3>1, <3>2
  <2>4. View'.conforming = View.conforming /\ View'.cache = [View.cache EXCEPT ![first] = @ - 1]
    BY <1>7, <2>3 DEF OnRemove, Views
  <2>5. ASSUME NEW b \in Blocks
        PROVE  View'.cache[b] =
                  IF b \in FirstBlocks' THEN cached'[b] + (IF b \in Coming' THEN 1 ELSE 0) ELSE 0
    <3>1. View.cache[b] \in Int /\ cached[b] \in Nat /\ View.cache \in [Blocks -> Int]
      BY <1>7 DEF Views, CacheTypes
    <3>2. CASE b = first
      <4>1. cached'[b] = cached[b] - 1 /\ View'.cache[b] = View.cache[b] - 1
        BY <1>1, <1>2, <2>4, <3>1, <3>2
      <4> QED BY <1>3, <1>4, <1>9, <2>2, <3>1, <3>2, <4>1
    <3>3. CASE b # first
      <4>1. b \in FirstBlocks => cached'[b] = cached[b]
        BY <1>1, <1>8, <3>3
      <4>2. View'.cache[b] = View.cache[b]
        BY <2>4, <3>1, <3>3
      <4> QED BY <1>3, <1>4, <2>2, <4>1, <4>2
    <3> QED BY <3>2, <3>3
  <2>a. \A d \in Busy : ~Meets(calling[d].range, r) /\ calling[d].range[1] \notin In(r)
    <3> SUFFICES ASSUME NEW d \in Busy
                 PROVE  ~Meets(calling[d].range, r) /\ calling[d].range[1] \notin In(r)
      OBVIOUS
    <3>1. /\ cached[calling[d].range[1]] = 0 /\ calling[d].range \in AddedRanges
          /\ calling[d].range[1] \in In(calling[d].range)
      BY <2>1, CallFacts DEF NothingDoubled, ViewCounts, Alone, Counted, HasReadWell, ViewIsTrue
    <3>2. r # calling[d].range
      BY <1>1, <1>2, <3>1
    <3>3. ~Meets(r, calling[d].range)
      BY <1>5, <3>1, <3>2
    <3> QED BY <3>1, <3>3 DEF Meets
  <2>b. cached[first] = 1 /\ first \notin Owed /\ add_count[first] \in Int /\ add_count[first] <= 1
    <3>1. cached[first] > 0 /\ cached[first] <= 1 /\ cached[first] \in Nat
      BY <1>1, <1>2, <2>1 DEF NothingDoubled, ViewCounts, Alone, Counted, HasReadWell, CacheTypes
    <3>2. first \notin Owed
      BY <1>2, <2>a DEF Owed, Busy, Free
    <3>3. add_count[first] \in Int /\ add_count[first] <= cached[first] + (IF first \in Owed THEN 1 ELSE 0)
      BY <1>2, <2>1 DEF NothingDoubled, ViewCounts, Alone, Counted, HasReadWell, CacheTypes
    <3> QED BY <3>1, <3>2, <3>3
  <2>6. ASSUME NEW b \in Blocks
        PROVE  /\ add_count'[b] <= cached'[b] + (IF b \in Owed' THEN 1 ELSE 0)
               /\ cached'[b] <= 1
    <3>1. /\ add_count[b] <= cached[b] + (IF b \in Owed THEN 1 ELSE 0)
          /\ cached[b] \in Nat /\ cached[b] <= 1 /\ add_count[b] \in Int
      BY <2>1 DEF NothingDoubled, ViewCounts, Alone, Counted, HasReadWell, CacheTypes
    <3>2. /\ cached'[b] = IF b \in In(r) THEN cached[b] - 1 ELSE cached[b]
          /\ b \in In(r) => cached[b] > 0
      BY <1>1
    <3>3. CASE b = first
      BY <1>2, <1>3, <2>b, <3>2, <3>3
    <3>4. CASE b # first /\ b \in In(r)
      <4>1. ~(add_count[b] > 0)
        BY <1>8, <3>4 DEF LogIsReal
      <4> QED BY <1>3, <3>1, <3>2, <4>1
    <3>5. CASE b # first /\ b \notin In(r)
      BY <1>3, <3>1, <3>2, <3>5
    <3> QED BY <3>3, <3>4, <3>5
  <2>7. ASSUME NEW d \in Busy', NEW e \in Busy', Meets(calling'[d].range, calling'[e].range)
        PROVE  d = e
    <3>1. calling'[c].range = r /\ \A x \in Busy : ~Meets(r, calling[x].range) /\ ~Meets(calling[x].range, r)
      BY <1>3, <2>a DEF Meets
    <3> QED BY <1>3, <2>1, <2>7, <3>1
       DEF NothingDoubled, ViewCounts, Alone, Counted, HasReadWell, Concerns
  <2>8. \A d \in Busy' : /\ cached'[calling'[d].range[1]] = 0
                         /\ calling'[d].stage = "raise" => calling'[d].read <= 0
                         /\ calling'[d].stage = "lessen" => calling'[d].read <= 1
    <3>1. ASSUME NEW d \in Busy
          PROVE  /\ cached'[calling'[d].range[1]] = 0
                 /\ calling'[d].stage = "raise" => calling'[d].read <= 0
                 /\ calling'[d].stage = "lessen" => calling'[d].read <= 1
      <4>1. calling[d].range[1] \in Blocks /\ calling[d].range[1] \notin In(r)
        BY <2>a, RangeFacts DEF LogIsReal
      <4> QED BY <1>1, <1>3, <2>1, <4>1 DEF NothingDoubled, ViewCounts, Alone, Counted, HasReadWell
    <3>2. /\ cached'[calling'[c].range[1]] = 0 /\ calling'[c].stage \in {"lower", "remove"}
      BY <1>1, <1>2, <1>3, <2>b DEF first
    <3> QED BY <1>3, <3>1, <3>2
  <2>9. View'.conforming
    BY <2>1, <2>4 DEF NothingDoubled, ViewCounts, Alone, Counted, HasReadWell
  <2>11. ViewCounts'
    BY <2>5, <2>9 DEF ViewCounts
  <2>12. Alone'
    BY <2>7, <2>8, <2>6 DEF Alone, Concerns
  <2>13. Counted'
    BY <2>6 DEF Counted
  <2>14. (\A d \in Busy : HasReadWell(d))'
    BY <2>8 DEF HasReadWell
  <2> QED BY <2>11, <2>12, <2>13, <2>14 DEF NothingDoubled
<1> QED BY <1>10, <1>11, <1>12 DEF ViewIsTrue

LEMMA CheckerInvStep ==
    ASSUME CacheTypes, LogIsReal, PipeInv, CheckerInv, [Next]_vars
    PROVE  CheckerInv'
<1> SUFFICES ASSUME ~warm', Aligned', ~contested', faults' = {} PROVE ViewIsTrue'
  BY DEF CheckerInv
<1>1. faults = {} /\ NothingWrong
  BY NothingWrongStep DEF PipeInv
<1>2. ASSUME NEW c \in CPUs, Kernel(c) PROVE ViewIsTrue'
  <2>1. bpftrace = "live" /\ warm' = warm /\ ~contested
    <3>1. CacheStep(c, TRUE) /\ bpftrace = "live"
      BY <1>1, <1>2 DEF NothingWrong, Kernel
    <3>2. warm' = warm /\ (contested' = contested \/ AddFreeSpace(c, TRUE))
      BY <3>1 DEF CacheStep, Find, AddFreeSpace, RaiseCount, AddFreeSpace_Done, RemoveFreeSpace,
                  LowerCount, RemoveFreeSpace_Done, kernelVars
    <3>3. AddFreeSpace(c, TRUE) => (contested => contested')
      BY DEF AddFreeSpace
    <3>4. contested => contested'
      BY <3>2, <3>3, Zenon
    <3> QED BY <3>1, <3>2, <3>4, Zenon
  <2>2. CacheStep(c, TRUE)
    BY <1>2, <2>1 DEF Kernel
  <2>3. Aligned
    <3>1. CASE log' = log
      BY <3>1 DEF Aligned
    <3>2. CASE \E e \in Entries : log' = Append(log, e)
      BY <3>2, AlignedGrows
    <3> QED BY <2>2, <3>1, <3>2, CacheStepTypes
  <2>4. ViewIsTrue
    BY <1>1, <2>1, <2>3 DEF CheckerInv
  <2>5. RaiseCount(c) \/ LowerCount(c) \/ RemoveFreeSpace_Done(c) => UNCHANGED <<kernelVars, log>>
    BY DEF RaiseCount, LowerCount, RemoveFreeSpace_Done
  <2> QED BY <2>2, <2>4, <2>5, FindKeepsView, AddKeepsView, ProbeKeepsView, DoneKeepsView, RemoveKeepsView
          DEF CacheStep
<1>3. CASE UNCHANGED cacheVars
  <2>1. UNCHANGED <<serialized, cached, warm, found, doubled, contested, calls, add_count, calling, log>>
    BY <1>3 DEF cacheVars, kernelVars, scriptVars
  <2>2. Busy' = Busy /\ Coming' = Coming /\ Owed' = Owed /\ (Aligned' <=> Aligned)
    BY <2>1 DEF Busy, Free, Coming, Adders, Adding, Owed, Aligned
  <2>3. ViewIsTrue
    BY <1>1, <2>1, <2>2 DEF CheckerInv
  <2> QED BY <2>1, <2>2, <2>3, LogKept
     DEF ViewIsTrue, WholeRanges, NothingDoubled, ViewCounts, Alone, Counted, HasReadWell, Concerns
<1>4. UNCHANGED cacheVars \/ \E c \in CPUs : Kernel(c)
  BY DEF Next, Script, vars, Attach, Drained, Poll, StartWorkload, StopTracing, Terminate, Wait, Sort,
         RunChecker, Report
<1> QED BY <1>2, <1>3, <1>4
\* The checker's state after a sequence of events.
After(events) == FoldLeft(Process, NoCache, events)

LEMMA AfterAppend ==
    /\ After(<<>>) = NoCache
    /\ \A s \in Seq(Entries), e \in Entries :
          Append(s, e) \in Seq(Entries) /\ After(Append(s, e)) = Process(After(s), e)
<1>1. After(<<>>) = NoCache
  BY FoldOfNone DEF After
<1>2. ASSUME NEW s \in Seq(Entries), NEW e \in Entries PROVE After(Append(s, e)) = Process(After(s), e)
  BY FoldOfAppend DEF After
<1> QED BY <1>1, <1>2

LEMMA CheckerInit == Init => CheckerInv
<1> SUFFICES ASSUME Init, ~warm PROVE ViewIsTrue
  BY DEF CheckerInv
<1>1. 1 \in Blocks
  BY CacheAssumption DEF Blocks
<1>2. cached \in [Blocks -> Nat] /\ \A b \in Blocks : cached[b] = 0
  BY <1>1 DEF Init, CacheInit
<1>3. /\ Busy = {} /\ Coming = {}
      /\ \A b \in Blocks : add_count[b] = 0
  BY DEF Init, CacheInit, Busy, Free, Adders, Adding, NoCall, Coming
<1>4. AddedRanges \subseteq Ranges
  BY HarnessInit DEF LogIsReal
<1>5. WholeRanges
  <2>1. \A r \in AddedRanges : In(r) \subseteq Blocks
    BY <1>4, RangeFacts
  <2>2. \A r \in AddedRanges : \A a, b \in In(r) : cached[a] = cached[b]
    BY <1>2, <2>1
  <2>3. \A b \in Blocks : ~(cached[b] > 0)
    BY <1>2
  <2> QED BY <1>3, <2>2, <2>3 DEF WholeRanges
<1>6. CASE InitHarness
  <2>1. log = <<>> /\ doubled = FALSE
    BY <1>6 DEF InitHarness
  <2>2. View = NoCache
    BY <2>1, FoldOfNone DEF View
  <2>3. FirstBlocks = {}
    BY <2>1 DEF FirstBlocks, AddedRanges
  <2> QED BY <1>2, <1>3, <1>5, <2>1, <2>2, <2>3
     DEF ViewIsTrue, NothingDoubled, ViewCounts, Alone, Counted, HasReadWell, NoCache
<1>7. CASE InitSimulated
  <2> DEFINE add    == [action |-> "AddFreeSpace", range |-> <<1, 1>>]
             remove == [action |-> "RemoveFreeSpace", range |-> <<1, 1>>]
             other  == [action |-> "CacheBlockGroup_Start", range |-> NoRange]
             one    == OnAdd(NoCache, 1)
  <2>1. /\ \A s : Process(s, other) = s
        /\ \A s : Process(s, add) = OnAdd(s, 1)
        /\ \A s : Process(s, remove) = OnRemove(s, 1)
    BY DEF Process
  <2>2. \/ doubled /\ log = <<other, other, add, add>>
        \/ ~doubled /\ log = <<other, add, other, remove>>
    <3>1. CASE source = "buggy"
      BY <1>7, <3>1 DEF InitSimulated, Scenario
    <3>2. CASE source = "fixed"
      BY <1>7, <3>2 DEF InitSimulated, Scenario
    <3> QED BY <1>7, <3>1, <3>2 DEF InitSimulated, Scenarios
  <2>3. add \in Entries /\ remove \in Entries /\ other \in Entries
    BY DEF Entries, Actions, Pairs, NoRange
  <2>4. one.conforming /\ one.cache = [b \in Blocks |-> IF b = 1 THEN 1 ELSE 0]
    <3>1. NoCache.cache = [b \in Blocks |-> 0] /\ NoCache.conforming = TRUE
      BY DEF NoCache
    <3>2. [NoCache.cache EXCEPT ![1] = @ + 1] = [b \in Blocks |-> IF b = 1 THEN 1 ELSE 0]
      BY <1>1, <3>1
    <3> QED BY <1>1, <3>1, <3>2 DEF OnAdd
  <2> HIDE DEF add, remove, other, one
  <2>5. View = After(log) /\ <<>> \in Seq(Entries)
    BY DEF View, After
  <2>6. CASE doubled /\ log = <<other, other, add, add>>
    <3>1. View = OnAdd(one, 1)
      <4> DEFINE l1 == Append(<<>>, other)
                 l2 == Append(l1, other)
                 l3 == Append(l2, add)
                 l4 == Append(l3, add)
      <4>1. log = l4
        BY <2>3, <2>6
      <4> HIDE DEF l2, l3, l4
      <4>2. l1 \in Seq(Entries) /\ After(l1) = NoCache
        BY <2>1, <2>3, <2>5, AfterAppend
      <4> HIDE DEF l1
      <4>3. l2 \in Seq(Entries) /\ After(l2) = NoCache
        BY <2>1, <2>3, <4>2, AfterAppend DEF l2
      <4>4. l3 \in Seq(Entries) /\ After(l3) = one
        BY <2>1, <2>3, <4>3, AfterAppend DEF l3, one
      <4>5. After(l4) = OnAdd(one, 1)
        BY <2>1, <2>3, <4>4, AfterAppend DEF l4
      <4> QED BY <2>5, <4>1, <4>5
    <3>2. ~View.conforming
      <4>1. one.cache[1] = 1
        BY <1>1, <2>4
      <4>2. one.cache[1] # 0
        BY <4>1
      <4>3. OnAdd(one, 1).conforming = (one.conforming /\ one.cache[1] = 0)
        BY DEF OnAdd
      <4> HIDE DEF View
      <4>4. ~OnAdd(one, 1).conforming
        BY <4>2, <4>3, Zenon
      <4> QED BY <3>1, <4>4, Zenon
    <3> QED BY <1>5, <2>6, <3>2 DEF ViewIsTrue
  <2>7. CASE ~doubled /\ log = <<other, add, other, remove>>
    <3>1. View = OnRemove(one, 1)
      <4> DEFINE l1 == Append(<<>>, other)
                 l2 == Append(l1, add)
                 l3 == Append(l2, other)
                 l4 == Append(l3, remove)
      <4>1. log = l4
        BY <2>3, <2>7
      <4> HIDE DEF l2, l3, l4
      <4>2. l1 \in Seq(Entries) /\ After(l1) = NoCache
        BY <2>1, <2>3, <2>5, AfterAppend
      <4> HIDE DEF l1
      <4>3. l2 \in Seq(Entries) /\ After(l2) = one
        BY <2>1, <2>3, <4>2, AfterAppend DEF l2, one
      <4>4. l3 \in Seq(Entries) /\ After(l3) = one
        BY <2>1, <2>3, <4>3, AfterAppend DEF l3
      <4>5. After(l4) = OnRemove(one, 1)
        BY <2>1, <2>3, <4>4, AfterAppend DEF l4
      <4> QED BY <2>5, <4>1, <4>5
    <3>2. one \in Views
      BY ProcessType, NoCacheType, <2>1 DEF one
    <3>3. View.conforming /\ \A b \in Blocks : View.cache[b] = 0
      BY <1>1, <2>4, <3>1, <3>2 DEF OnRemove, Views
    <3> QED BY <1>2, <1>3, <1>5, <2>7, <3>3
       DEF ViewIsTrue, NothingDoubled, ViewCounts, Alone, Counted, HasReadWell
  <2> QED BY <2>2, <2>6, <2>7
<1> QED BY <1>6, <1>7 DEF Init

LEMMA VerdictStep ==
    ASSUME CacheTypes, PipeInv, CheckerInv, VerdictIsTruth, [Next]_vars
    PROVE  VerdictIsTruth'
<1>1. CASE Report
  <2> SUFFICES ASSUME checked', faults' = {}, ~warm', Aligned', ~contested'
               PROVE  result' = "CONFORMS" <=> ~doubled'
    BY DEF VerdictIsTruth
  <2>1. UNCHANGED <<checked, log, warm, doubled, contested, cut>>
    BY <1>1 DEF Report, cacheVars, kernelVars
  <2>2. Aligned
    BY <2>1 DEF Aligned
  <2>3. faults = {} /\ ~cut /\ Given = log
    BY <1>1 DEF Report, Phase, PipeInv, NothingWrong, Unsorted
  <2>4. result' = "CONFORMS" <=> checker_exit = 0 /\ Inline(Given) = 0
    BY <1>1, <2>3, ReportIs
  <2>5. checker_exit = GivenExit
    BY <1>1, <2>1, ReportIs
  <2>6. GivenExit = 0 <=> Conforms(Given) /\ Inline(Given) = 0
    BY GivenConforms DEF PipeInv
  <2>7. GivenExit = 0 <=> View.conforming
    BY <2>3 DEF GivenExit, ExitCode, Conforms, View
  <2>8. result' = "CONFORMS" <=> View.conforming
    BY <2>4, <2>5, <2>6, <2>7
  <2>9. View.conforming <=> ~doubled
    BY <2>1, <2>2, <2>3
       DEF CheckerInv, ViewIsTrue, NothingDoubled, ViewCounts, Alone, Counted, HasReadWell
  <2>10. doubled' = doubled
    BY <2>1
  <2> QED BY <2>8, <2>9, <2>10
<1>2. CASE ~Report /\ phase # "exited"
  <2>1. phase' # "exited"
    BY <1>2 DEF Next, Script, vars, harnessVars, Attach, Drained, Kernel, Poll, StartWorkload,
                StopTracing, Terminate, Wait, Sort, RunChecker, Phase
  <2> QED BY <2>1 DEF VerdictIsTruth
<1>3. CASE ~Report /\ phase = "exited"
  <2>1. bpftrace = "dead"
    BY <1>3 DEF PipeInv, PhaseOrder
  <2>2. UNCHANGED <<checked, faults, result, phase, warm, doubled, contested, log>>
    BY <1>3, <2>1 DEF Next, Script, vars, harnessVars, cacheVars, kernelVars, Attach, Drained, Kernel,
                Poll, StartWorkload, StopTracing, Terminate, Wait, Sort, RunChecker, Phase
  <2>3. Aligned' <=> Aligned
    BY <2>2 DEF Aligned
  <2> QED BY <2>2, <2>3 DEF VerdictIsTruth
<1> QED BY <1>1, <1>2, <1>3

\* A checker that counts first blocks only, behind a counter without a lock, is
\* right about every double add of a cold cache that is used by whole ranges, if
\* nothing went wrong on the way: for any block group, any number of threads and
\* calls, and for the two simulated scenarios.
THEOREM VerdictTellsDoubleAdds == Spec => []VerdictIsTruth
<1>1. Init => CheckerInv /\ VerdictIsTruth
  BY CheckerInit DEF Init, InitHarness, InitSimulated, VerdictIsTruth
<1>2. CacheTypes /\ LogIsReal /\ PipeInv /\ CheckerInv /\ VerdictIsTruth /\ [Next]_vars =>
         CheckerInv' /\ VerdictIsTruth'
  BY CheckerInvStep, VerdictStep
<1> QED BY <1>1, <1>2, PipeInvariance, PTL DEF Spec
=============================================================================
