------------------------ MODULE ExtentBufferLockProofs ------------------------
(***************************************************************************)
(* Proofs about the extent buffer lock checker, for any threads, buffers,  *)
(* levels and trees.                                                       *)
(***************************************************************************)
EXTENDS ExtentBufferLock, TLAPS

Step(t, b) ==
    \/ AcquireWrite(t, b) \/ AcquireWriteDone(t, b) \/ Release(t, b)
    \/ AcquireRead(t, b) \/ AcquireReadDone(t, b) \/ ReleaseRead(t, b)

\* The steps of an allocation, which concern headers only.
Writes(b) == Allocate(b) \/ \E t \in Threads : WriteHeader(t, b)

\* All but the headers that are not written yet: what the invariants relate.
others == <<writer, readers, wantsWrite, wantsRead, checker, cold>>

LEMMA NextSteps ==
    ASSUME [Next]_vars
    PROVE  (\E t \in Threads, b \in Buffers : Step(t, b)) \/ UNCHANGED others
  BY DEF Next, Step, Allocate, WriteHeader, vars, kernel, others

-----------------------------------------------------------------------------
(* Types.                                                                  *)

LEMMA TrueIsHeader ==
    ASSUME NEW b \in Buffers PROVE True(b) \in Headers /\ True(b) # Unknown
  BY BuffersAssumption DEF BuffersAssumption, True, Headers, Unknown

\* What the checker takes from an event is a header.
LEMMA SeenAreHeaders ==
    ASSUME NEW b \in Buffers PROVE SeenHeaders(b) \subseteq Headers
<1> SUFFICES ASSUME NEW h \in Readable(b) PROVE Judged(h) \in Headers
  BY DEF SeenHeaders, Headers
<1>1. h \in (0..MaxLevel) \X Trees
  BY BuffersAssumption DEF BuffersAssumption, Readable, True
<1>2. PICK l \in 0..MaxLevel, o \in Trees : h = <<l, o>>
  BY <1>1
<1>3. CASE l >= MaxLevel \/ o \in LogTrees
  BY <1>2, <1>3 DEF Judged, Headers
<1>4. CASE ~(l >= MaxLevel \/ o \in LogTrees)
  <2>1. l \in 0..(MaxLevel - 1)
    BY <1>4, BuffersAssumption DEF BuffersAssumption
  <2> QED BY <1>2, <1>4, <2>1 DEF Judged, Headers
<1> QED BY <1>3, <1>4

LEMMA TypeInit == Init => TypeOK
  BY DEF Init, TypeOK, Headers

LEMMA TypeStep == ASSUME TypeOK, [Next]_vars PROVE TypeOK'
<1> USE DEF TypeOK
<1>1. ASSUME NEW t \in Threads, NEW b \in Buffers, AcquireWrite(t, b) PROVE TypeOK'
  <2>1. PICK header \in SeenHeaders(b) :
           Reports(t, b, header) /\ seen' = [seen EXCEPT ![t] = header]
    BY <1>1 DEF AcquireWrite
  <2>2. seen' \in [Threads -> Headers]
    BY <2>1, SeenAreHeaders
  <2>3. inverted' \subseteq Threads /\ reported' \subseteq Threads \X Threads
    BY <2>1 DEF Reports, ReportsInversion, Opponents
  <2> QED BY <1>1, <2>2, <2>3 DEF AcquireWrite
<1>2. ASSUME NEW t \in Threads, NEW b \in Buffers, AcquireWriteDone(t, b)
      PROVE  TypeOK'
  <2>1. Note(t) \in SUBSET (Buffers \X Headers)
    BY DEF Note, Forget
  <2>2. Unknown \in Headers
    BY DEF Headers
  <2> QED BY <1>2, <2>1, <2>2 DEF AcquireWriteDone
<1>3. ASSUME NEW t \in Threads, NEW b \in Buffers, Release(t, b) PROVE TypeOK'
  BY <1>3 DEF Release, Forget
<1>4. ASSUME NEW t \in Threads, NEW b \in Buffers, AcquireRead(t, b) PROVE TypeOK'
  <2>1. PICK header \in SeenHeaders(b) :
           ReportsInversion(t, header) /\ seen' = [seen EXCEPT ![t] = header]
    BY <1>4 DEF AcquireRead
  <2>2. seen' \in [Threads -> Headers] /\ inverted' \subseteq Threads
    BY <2>1, SeenAreHeaders DEF ReportsInversion
  <2> QED BY <1>4, <2>2 DEF AcquireRead
<1>5. ASSUME NEW t \in Threads, NEW b \in Buffers,
             AcquireReadDone(t, b) \/ ReleaseRead(t, b)
      PROVE  TypeOK'
  <2>1. Unknown \in Headers
    BY DEF Headers
  <2> QED BY <1>5, <2>1 DEF AcquireReadDone, ReleaseRead, checker
<1>6. ASSUME NEW b \in Buffers, Writes(b) PROVE TypeOK'
  BY <1>6 DEF Writes, Allocate, WriteHeader, checker
<1>7. CASE UNCHANGED vars
  BY <1>7 DEF vars, kernel, checker
<1> QED BY <1>1, <1>2, <1>3, <1>4, <1>5, <1>6, <1>7 DEF Next, Writes

\* The type invariant.
THEOREM LocksTypeCorrect == Spec => []TypeOK
<1>1. Init => TypeOK
  BY TypeInit
<1>2. TypeOK /\ [Next]_vars => TypeOK'
  BY TypeStep
<1> QED BY <1>1, <1>2, PTL DEF Spec

-----------------------------------------------------------------------------
(* The checker's view.                                                     *)

LEMMA ViewInit == Init => ViewIsReal
  BY BuffersAssumption
     DEF Init, ViewIsReal, Tracked, Idle, BuffersAssumption

LEMMA ViewStep == ASSUME TypeOK, ViewIsReal, [Next]_vars PROVE ViewIsReal'
<1> USE BuffersAssumption DEF BuffersAssumption, TypeOK, ViewIsReal, Tracked
<1>1. ASSUME NEW t \in Threads, NEW b \in Buffers, AcquireWrite(t, b)
      PROVE  ViewIsReal'
  BY <1>1 DEF AcquireWrite, Idle
<1>2. ASSUME NEW t \in Threads, NEW b \in Buffers, AcquireWriteDone(t, b)
      PROVE  ViewIsReal'
  <2>1. \A u \in Threads \ {t} : held'[u] = held[u]
    BY <1>2 DEF AcquireWriteDone
  <2>2. \A c \in Buffers \ {b} : writer'[c] = writer[c]
    BY <1>2 DEF AcquireWriteDone
  <2>3. writer'[b] = t /\ \A u \in Threads : b \notin Tracked(u)
    BY <1>2 DEF AcquireWriteDone
  <2>4. held'[t] = Note(t) /\ wantsWrite[t] = b
    BY <1>2 DEF AcquireWriteDone
  <2>5. \A c \in Tracked(t)' : c \in Tracked(t) \/ c = b
    BY <2>4 DEF Note, Forget
  <2>6. \A c \in Tracked(t) : c \in Tracked(t)'
    BY <2>3, <2>4 DEF Note, Forget
  <2>7. ASSUME cold PROVE b \in Tracked(t)'
    <3>1. waiting[t] = b /\ b # NoBuffer
      BY <2>4, <2>7
    <3>2. <<b, seen[t]>> \in held'[t]
      BY <2>4, <3>1 DEF Note
    <3> QED BY <3>2
  <2>8. \A u \in Threads : \A c \in Tracked(u)' : writer'[c] = u
    <3>1. ASSUME NEW u \in Threads \ {t}, NEW c \in Tracked(u)' PROVE writer'[c] = u
      <4>1. c \in Tracked(u) /\ c \in Buffers \ {b}
        BY <2>1, <2>3, <3>1
      <4> QED BY <2>2, <4>1
    <3>2. ASSUME NEW c \in Tracked(t)' PROVE writer'[c] = t
      <4>1. CASE c = b
        BY <2>3, <4>1
      <4>2. CASE c # b
        <5>1. c \in Tracked(t)
          BY <2>5, <3>2, <4>2
        <5>2. c \in Buffers
          BY <5>1
        <5> QED BY <2>2, <4>2, <5>1, <5>2
      <4> QED BY <4>1, <4>2
    <3> QED BY <3>1, <3>2
  <2>9. \A u \in Threads : /\ waiting'[u] \in {wantsWrite'[u], NoBuffer}
                           /\ cold' => waiting'[u] = wantsWrite'[u]
    BY <1>2 DEF AcquireWriteDone
  <2>10. ASSUME NEW u \in Threads, cold', NEW c \in Buffers, writer'[c] = u
         PROVE  c \in Tracked(u)'
    <3>1. cold
      BY <1>2, <2>10 DEF AcquireWriteDone
    <3>2. CASE c = b
      BY <2>3, <2>7, <2>10, <3>1, <3>2
    <3>3. CASE c # b
      BY <2>1, <2>2, <2>6, <2>10, <3>1, <3>3
    <3> QED BY <3>2, <3>3
  <2> QED BY <2>8, <2>9, <2>10
<1>3. ASSUME NEW t \in Threads, NEW b \in Buffers, Release(t, b)
      PROVE  ViewIsReal'
  <2>1. \A u \in Threads \ {t} : held'[u] = held[u] /\ b \notin Tracked(u)
    BY <1>3 DEF Release
  <2>2. Tracked(t)' = Tracked(t) \ {b}
    BY <1>3 DEF Release, Forget
  <2>3. /\ \A c \in Buffers \ {b} : writer'[c] = writer[c]
        /\ writer'[b] = NoBuffer
        /\ UNCHANGED <<wantsWrite, waiting, cold>>
    BY <1>3 DEF Release
  <2>4. ASSUME NEW u \in Threads, NEW c \in Tracked(u)' PROVE writer'[c] = u
    <3>1. c \in Tracked(u) /\ c # b
      BY <2>1, <2>2
    <3> QED BY <2>3, <3>1
  <2>5. ASSUME NEW u \in Threads, cold', NEW c \in Buffers, writer'[c] = u
        PROVE  c \in Tracked(u)'
    <3>1. c # b /\ c \in Tracked(u)
      BY <2>3, <2>5
    <3> QED BY <2>1, <2>2, <3>1
  <2> QED BY <2>3, <2>4, <2>5
<1>4. ASSUME NEW t \in Threads, NEW b \in Buffers,
             AcquireRead(t, b) \/ AcquireReadDone(t, b) \/ ReleaseRead(t, b)
      PROVE  ViewIsReal'
  BY <1>4 DEF AcquireRead, AcquireReadDone, ReleaseRead, checker
<1>5. CASE UNCHANGED others
  BY <1>5 DEF others, checker
<1> QED BY <1>1, <1>2, <1>3, <1>4, <1>5, NextSteps DEF Step, others

\* Wherever the tracer attaches, the checker's entries are real locks and
\* its waits real waits; attached to an idle kernel it knows all of them.
THEOREM ViewsAreReal == Spec => []ViewIsReal
<1>1. Init => TypeOK /\ ViewIsReal
  BY TypeInit, ViewInit
<1>2. TypeOK /\ ViewIsReal /\ [Next]_vars => (TypeOK /\ ViewIsReal)'
  BY TypeStep, ViewStep
<1> QED BY <1>1, <1>2, PTL DEF Spec

-----------------------------------------------------------------------------
(* Deadlocks.                                                              *)

\* An opponent is in an ABBA wait with the thread that finds it.
LEMMA OpponentsAreReal ==
    ASSUME TypeOK, ViewIsReal, NEW t \in Threads, NEW b \in Buffers,
           NEW u \in Opponents(t, b)
    PROVE  u \in Threads \ {t} /\ writer[b] = u
           /\ \E c \in Buffers : wantsWrite[u] = c /\ writer[c] = t
<1>1. u \in Threads \ {t} /\ b \in Tracked(u) /\ waiting[u] \in Tracked(t)
  BY DEF Opponents
<1>2. waiting[u] \in Buffers
  BY <1>1 DEF TypeOK, Tracked
<1>3. wantsWrite[u] = waiting[u]
  BY <1>1, <1>2, BuffersAssumption DEF BuffersAssumption, ViewIsReal
<1> QED BY <1>1, <1>2, <1>3 DEF ViewIsReal

\* If the view is complete, whoever is in an ABBA wait is found.
LEMMA OpponentsAreAll ==
    ASSUME TypeOK, ViewIsReal, cold, NEW t \in Threads, NEW u \in Threads \ {t},
           NEW b \in Buffers, NEW c \in Buffers,
           writer[b] = u, wantsWrite[u] = c, writer[c] = t
    PROVE  u \in Opponents(t, b)
  BY DEF Opponents, ViewIsReal

\* Two threads in an ABBA wait stay in it: neither can go on or let go.
LEMMA ABBAIsForEver ==
    ASSUME TypeOK, NEW t \in Threads, NEW u \in Threads, MutualWriteWait(t, u),
           [Next]_vars
    PROVE  MutualWriteWait(t, u)'
<1> USE BuffersAssumption DEF BuffersAssumption, TypeOK
<1>0. PICK b \in Buffers, c \in Buffers :
        /\ wantsWrite[t] = b /\ writer[b] = u
        /\ wantsWrite[u] = c /\ writer[c] = t
  BY DEF MutualWriteWait
<1>1. /\ t # u /\ b # NoBuffer /\ c # NoBuffer
      /\ ~Idle(t) /\ ~Idle(u)
  BY <1>0 DEF MutualWriteWait, Idle
<1>2. ASSUME NEW a \in Threads, NEW d \in Buffers, Step(a, d)
      PROVE  /\ wantsWrite'[t] = b /\ writer'[b] = u
             /\ wantsWrite'[u] = c /\ writer'[c] = t
  <2>1. CASE AcquireWrite(a, d)
    BY <1>0, <1>1, <2>1 DEF AcquireWrite
  <2>2. CASE AcquireWriteDone(a, d)
    BY <1>0, <1>1, <2>2 DEF AcquireWriteDone
  <2>3. CASE Release(a, d)
    BY <1>0, <1>1, <2>3 DEF Release
  <2>4. CASE AcquireRead(a, d) \/ AcquireReadDone(a, d) \/ ReleaseRead(a, d)
    BY <1>0, <2>4 DEF AcquireRead, AcquireReadDone, ReleaseRead
  <2> QED BY <1>2, <2>1, <2>2, <2>3, <2>4 DEF Step
<1>3. CASE UNCHANGED others
  BY <1>0, <1>1, <1>3 DEF others, MutualWriteWait
<1> QED BY <1>1, <1>2, <1>3, NextSteps DEF MutualWriteWait, others

\* Only a write acquisition reports, and it reports its opponents.
LEMMA ReportsGrow ==
    ASSUME [Next]_vars
    PROVE  \/ \E t \in Threads, b \in Buffers :
                 /\ AcquireWrite(t, b)
                 /\ reported' = reported \cup ({t} \X Opponents(t, b))
           \/ /\ reported' = reported
              /\ ~\E t \in Threads, b \in Buffers : AcquireWrite(t, b)
           \/ UNCHANGED others
<1>1. ASSUME NEW t \in Threads, NEW b \in Buffers, AcquireWrite(t, b)
      PROVE  reported' = reported \cup ({t} \X Opponents(t, b))
  BY <1>1 DEF AcquireWrite, Reports
<1>2. ASSUME NEW t \in Threads, NEW b \in Buffers,
             Step(t, b), ~AcquireWrite(t, b)
      PROVE  reported' = reported
  BY <1>2 DEF Step, AcquireWriteDone, Release, AcquireRead, AcquireReadDone,
              ReleaseRead, checker
<1> QED BY <1>1, <1>2, NextSteps DEF others

LEMMA ReportedStep ==
    ASSUME TypeOK, ViewIsReal, ReportedAreDeadlocked, [Next]_vars
    PROVE  ReportedAreDeadlocked'
<1> SUFFICES ASSUME NEW p \in reported' PROVE MutualWriteWait(p[1], p[2])'
  BY DEF ReportedAreDeadlocked
<1>1. CASE p \in reported
  <2>1. p[1] \in Threads /\ p[2] \in Threads
    BY <1>1 DEF TypeOK
  <2> QED BY <1>1, <2>1, ABBAIsForEver DEF ReportedAreDeadlocked
<1>2. CASE p \notin reported
  <2>1. PICK t \in Threads, b \in Buffers :
           /\ AcquireWrite(t, b)
           /\ reported' = reported \cup ({t} \X Opponents(t, b))
    BY <1>2, ReportsGrow DEF others, checker
  <2>2. p[1] = t /\ p[2] \in Opponents(t, b)
    BY <1>2, <2>1
  <2>3. PICK c \in Buffers : wantsWrite[p[2]] = c /\ writer[c] = t
    BY <2>2, OpponentsAreReal
  <2>4. p[2] \in Threads \ {t} /\ writer[b] = p[2]
    BY <2>2, OpponentsAreReal
  <2>5. /\ UNCHANGED writer
        /\ wantsWrite'[t] = b /\ wantsWrite'[p[2]] = c
    BY <2>1, <2>3, <2>4 DEF AcquireWrite, TypeOK
  <2> QED BY <2>2, <2>3, <2>4, <2>5 DEF MutualWriteWait
<1> QED BY <1>1, <1>2

\* The checker never reports a deadlock that is not one.
THEOREM NoFalseDeadlock == Spec => []ReportedAreDeadlocked
<1> DEFINE Inv == TypeOK /\ ViewIsReal /\ ReportedAreDeadlocked
<1>1. Init => Inv
  BY TypeInit, ViewInit DEF Init, ReportedAreDeadlocked
<1>2. Inv /\ [Next]_vars => Inv'
  BY TypeStep, ViewStep, ReportedStep
<1> QED BY <1>1, <1>2, PTL DEF Spec

\* Before a step that is no write acquisition two threads in an ABBA wait
\* were in it already.
LEMMA ABBABegins ==
    ASSUME TypeOK, NEW t \in Threads, NEW u \in Threads,
           MutualWriteWait(t, u)', [Next]_vars
    PROVE  \/ MutualWriteWait(t, u)
           \/ \E b \in Buffers : AcquireWrite(t, b) \/ AcquireWrite(u, b)
<1> USE BuffersAssumption DEF BuffersAssumption, TypeOK
<1>0. PICK b \in Buffers, c \in Buffers :
        /\ wantsWrite'[t] = b /\ writer'[b] = u
        /\ wantsWrite'[u] = c /\ writer'[c] = t
  BY DEF MutualWriteWait
<1>1. t # u /\ b # NoBuffer /\ c # NoBuffer
  BY <1>0 DEF MutualWriteWait
<1>2. ASSUME NEW a \in Threads, NEW d \in Buffers, Step(a, d),
             ~(AcquireWrite(a, d) /\ a \in {t, u})
      PROVE  /\ wantsWrite[t] = b /\ writer[b] = u
             /\ wantsWrite[u] = c /\ writer[c] = t
  <2>1. CASE AcquireWrite(a, d)
    BY <1>0, <1>2, <2>1 DEF AcquireWrite
  <2>2. CASE AcquireWriteDone(a, d)
    <3>1. a \notin {t, u}
      BY <1>0, <1>1, <2>2 DEF AcquireWriteDone
    <3> QED BY <1>0, <1>1, <2>2, <3>1 DEF AcquireWriteDone
  <2>3. CASE Release(a, d)
    BY <1>0, <1>1, <2>3 DEF Release
  <2>4. CASE AcquireRead(a, d) \/ AcquireReadDone(a, d) \/ ReleaseRead(a, d)
    BY <1>0, <2>4 DEF AcquireRead, AcquireReadDone, ReleaseRead
  <2> QED BY <1>2, <2>1, <2>2, <2>3, <2>4 DEF Step
<1>3. CASE UNCHANGED others
  BY <1>0, <1>1, <1>3 DEF others, MutualWriteWait
<1> QED BY <1>1, <1>2, <1>3, NextSteps DEF MutualWriteWait, others

\* The thread whose request closes the ABBA wait reports it.
LEMMA CloserReports ==
    ASSUME TypeOK, ViewIsReal, cold, NEW t \in Threads, NEW u \in Threads,
           NEW b \in Buffers, AcquireWrite(t, b), MutualWriteWait(t, u)'
    PROVE  <<t, u>> \in reported'
<1>1. PICK c \in Buffers :
        writer'[b] = u /\ wantsWrite'[u] = c /\ writer'[c] = t
  BY DEF MutualWriteWait, AcquireWrite, TypeOK
<1>2. u # t
  BY DEF MutualWriteWait
<1>3. writer[b] = u /\ wantsWrite[u] = c /\ writer[c] = t
  BY <1>1, <1>2 DEF AcquireWrite, TypeOK
<1>4. u \in Opponents(t, b)
  BY <1>2, <1>3, OpponentsAreAll
<1> QED BY <1>4 DEF AcquireWrite, Reports

LEMMA MissedStep ==
    ASSUME TypeOK, ViewIsReal, NoMissedABBA, [Next]_vars PROVE NoMissedABBA'
<1> SUFFICES ASSUME cold', NEW t \in Threads, NEW u \in Threads,
                    MutualWriteWait(t, u)'
             PROVE  <<t, u>> \in reported' \/ <<u, t>> \in reported'
  BY DEF NoMissedABBA
<1>0. cold
  <2>1. CASE UNCHANGED others
    BY <2>1 DEF others, checker
  <2>2. ASSUME NEW a \in Threads, NEW d \in Buffers, Step(a, d) PROVE cold
    BY <2>2 DEF Step, AcquireWrite, AcquireWriteDone, Release, AcquireRead,
                AcquireReadDone, ReleaseRead
  <2> QED BY <2>1, <2>2, NextSteps
<1>1. reported \subseteq reported'
  BY ReportsGrow DEF others, checker
<1>2. CASE MutualWriteWait(t, u)
  BY <1>0, <1>1, <1>2 DEF NoMissedABBA
<1>3. ASSUME NEW b \in Buffers, AcquireWrite(t, b) PROVE <<t, u>> \in reported'
  BY <1>0, <1>3, CloserReports
<1>4. ASSUME NEW b \in Buffers, AcquireWrite(u, b) PROVE <<u, t>> \in reported'
  <2>1. MutualWriteWait(u, t)'
    BY DEF MutualWriteWait
  <2> QED BY <1>0, <1>4, <2>1, CloserReports
<1> QED BY <1>2, <1>3, <1>4, ABBABegins

\* Attached to an idle kernel the checker misses no ABBA wait for write
\* locks, whichever of the two requests comes last.
THEOREM NoDeadlockIsMissed == Spec => []NoMissedABBA
<1> DEFINE Inv == TypeOK /\ ViewIsReal /\ NoMissedABBA
<1>1. Init => Inv
  <2>1. Init => NoMissedABBA
    BY BuffersAssumption
       DEF BuffersAssumption, Init, NoMissedABBA, MutualWriteWait, Idle
  <2> QED BY <2>1, TypeInit, ViewInit
<1>2. Inv /\ [Next]_vars => Inv'
  BY TypeStep, ViewStep, MissedStep
<1> QED BY <1>1, <1>2, PTL DEF Spec

-----------------------------------------------------------------------------
(* Inversions.                                                             *)

Pending(t) == {wantsWrite[t], wantsRead[t]} \cap Buffers

\* A step leaves the other threads' locks and waits, and what the checker knows
\* of them, as they are.
LEMMA OthersKeep ==
    ASSUME TypeOK, ViewIsReal, NEW a \in Threads, NEW d \in Buffers, Step(a, d),
           NEW t \in Threads \ {a}
    PROVE  /\ Pending(t)' = Pending(t) /\ held'[t] = held[t] /\ seen'[t] = seen[t]
           /\ t \in inverted' <=> t \in inverted
           /\ \A c \in Buffers : writer[c] = t => writer'[c] = t
<1> USE BuffersAssumption DEF BuffersAssumption, TypeOK, Pending
<1>1. CASE AcquireWrite(a, d) \/ AcquireRead(a, d)
  BY <1>1 DEF AcquireWrite, AcquireRead, Reports, ReportsInversion
<1>2. CASE AcquireWriteDone(a, d)
  BY <1>2 DEF AcquireWriteDone
<1>3. CASE AcquireReadDone(a, d)
  BY <1>3 DEF AcquireReadDone
<1>4. CASE Release(a, d)
  BY <1>4 DEF Release
<1>5. CASE ReleaseRead(a, d)
  BY <1>5 DEF ReleaseRead, checker
<1> QED BY <1>1, <1>2, <1>3, <1>4, <1>5 DEF Step

\* What a thread asks for is the one thing it waits for then.
LEMMA Asks ==
    ASSUME TypeOK, NEW t \in Threads, NEW b \in Buffers,
           AcquireWrite(t, b) \/ AcquireRead(t, b)
    PROVE  /\ Pending(t)' = {b} /\ UNCHANGED <<writer, held>> /\ Pending(t) = {}
           /\ \E header \in SeenHeaders(b) :
                 /\ seen'[t] = header
                 /\ t \in inverted' <=> t \in inverted \/ Inversion(t, header)
  BY BuffersAssumption DEF BuffersAssumption, TypeOK, Pending, Idle, AcquireWrite,
     AcquireRead, Reports, ReportsInversion

\* A level that counts for the comparison is misread, or that of a lock.
LEMMA KnownAreReal ==
    ASSUME TypeOK, ViewIsReal, NEW t \in Threads, NEW b \in Buffers,
           NEW l \in Known(t, Owner[b])
    PROVE  \/ \E e \in held[t] : Misread(e[2], e[1])
           \/ \E c \in Buffers : writer[c] = t /\ Owner[c] = Owner[b] /\ Level[c] = l
<1>1. PICK e \in held[t] : e[2][2] = Owner[b] /\ l = e[2][1]
  BY DEF Known
<1>2. e[1] \in Buffers /\ writer[e[1]] = t
  BY <1>1 DEF TypeOK, ViewIsReal, Tracked
<1>3. e[2] # Unknown
  BY <1>1, BuffersAssumption DEF BuffersAssumption, Unknown
<1>4. CASE ~Misread(e[2], e[1])
  <2>1. e[2] = <<Level[e[1]], Owner[e[1]]>>
    BY <1>3, <1>4 DEF Misread, True
  <2> QED BY <1>1, <1>2, <2>1
<1> QED BY <1>4

\* An inversion that is found is one, unless a header was misread.
LEMMA InversionIsReal ==
    ASSUME TypeOK, ViewIsReal, NEW t \in Threads, NEW b \in Buffers,
           NEW header \in SeenHeaders(b), Inversion(t, header)
    PROVE  \/ Misread(header, b) \/ \E e \in held[t] : Misread(e[2], e[1])
           \/ \E c \in Buffers :
                 writer[c] = t /\ Owner[c] = Owner[b] /\ Level[c] < Level[b]
<1>1. CASE ~Misread(header, b)
  <2>1. header = <<Level[b], Owner[b]>>
    BY <1>1 DEF Inversion, Misread, True
  <2>2. PICK l \in Known(t, Owner[b]) : Level[b] > l
    BY <2>1 DEF Inversion
  <2>3. CASE \E c \in Buffers : writer[c] = t /\ Owner[c] = Owner[b] /\ Level[c] = l
    <3>1. PICK c \in Buffers : writer[c] = t /\ Owner[c] = Owner[b] /\ Level[c] = l
      BY <2>3
    <3>2. Level[c] < Level[b]
      BY <2>2, <3>1, BuffersAssumption DEF BuffersAssumption
    <3> QED BY <3>1, <3>2
  <2> QED BY <2>2, <2>3, KnownAreReal
<1> QED BY <1>1

LEMMA InversionStep ==
    ASSUME TypeOK, ViewIsReal, InversionsAreReal, [Next]_vars
    PROVE  InversionsAreReal'
<1> DEFINE Lower(t, b, c) == writer[c] = t /\ Owner[c] = Owner[b] /\ Level[c] < Level[b]
<1>1. ASSUME NEW a \in Threads, NEW d \in Buffers, Step(a, d), NEW t \in inverted'
      PROVE  \E b \in Pending(t)' : MisreadIn(t, b)' \/ \E c \in Buffers : Lower(t, b, c)'
  <2>0. t \in Threads
    BY <1>1, TypeStep DEF TypeOK
  <2>1. CASE t # a
    <3>1. PICK b \in Pending(t) : MisreadIn(t, b) \/ \E c \in Buffers : Lower(t, b, c)
      BY <1>1, <2>0, <2>1, OthersKeep DEF InversionsAreReal, Pending
    <3>2. b \in Pending(t)' /\ (MisreadIn(t, b) => MisreadIn(t, b)')
      BY <1>1, <2>0, <2>1, OthersKeep DEF MisreadIn
    <3>3. \A c \in Buffers : Lower(t, b, c) => Lower(t, b, c)'
      BY <1>1, <2>0, <2>1, OthersKeep
    <3> QED BY <3>1, <3>2, <3>3
  <2>2. CASE t = a /\ (AcquireWrite(a, d) \/ AcquireRead(a, d))
    <3>1. t \notin inverted
      BY <2>0, <2>2, Asks DEF InversionsAreReal, Pending
    <3>2. PICK header \in SeenHeaders(d) : seen'[t] = header /\ Inversion(t, header)
      BY <1>1, <2>0, <2>2, <3>1, Asks
    <3>3. \/ Misread(header, d) \/ \E e \in held[t] : Misread(e[2], e[1])
          \/ \E c \in Buffers : Lower(t, d, c)
      BY <2>0, <3>2, InversionIsReal
    <3>4. Pending(t)' = {d} /\ UNCHANGED <<writer, held>>
      BY <2>0, <2>2, Asks
    <3>5. MisreadIn(t, d)' \/ \E c \in Buffers : Lower(t, d, c)'
      BY <3>2, <3>3, <3>4 DEF MisreadIn
    <3> QED BY <3>4, <3>5
  <2>3. CASE t = a /\ ~(AcquireWrite(a, d) \/ AcquireRead(a, d))
    <3>1. AcquireWriteDone(a, d) \/ AcquireReadDone(a, d) => t \notin inverted'
      BY <2>3 DEF AcquireWriteDone, AcquireReadDone
    <3>2. Release(a, d) \/ ReleaseRead(a, d) => t \in inverted /\ Pending(t) = {}
      BY <1>1, <2>3, BuffersAssumption
         DEF BuffersAssumption, Release, ReleaseRead, checker, Idle, Pending
    <3> QED BY <1>1, <2>3, <3>1, <3>2 DEF Step, InversionsAreReal, Pending
  <2> QED BY <2>1, <2>2, <2>3
<1>2. CASE UNCHANGED others
  BY <1>2 DEF others, checker, InversionsAreReal, MisreadIn
<1> QED BY <1>1, <1>2, NextSteps DEF InversionsAreReal, Pending

\* A reported inversion is one, for any headers the tracer finds, unless a header
\* that the comparison used was read before it was written.
THEOREM NoFalseInversion == Spec => []InversionsAreReal
<1> DEFINE Inv == TypeOK /\ ViewIsReal /\ InversionsAreReal
<1>1. Init => Inv
  <2>1. Init => InversionsAreReal
    BY DEF Init, InversionsAreReal
  <2> QED BY <2>1, TypeInit, ViewInit
<1>2. Inv /\ [Next]_vars => Inv'
  BY TypeStep, ViewStep, InversionStep
<1> QED BY <1>1, <1>2, PTL DEF Spec

\* A comparison that finds no inversion over a lower buffer met one as high.
LEMMA InversionIsFound ==
    ASSUME TypeOK, ViewIsReal, NEW t \in Threads, NEW b \in Buffers, NEW c \in Buffers,
           <<c, True(c)>> \in held[t], Owner[c] = Owner[b], ~Inversion(t, True(b)),
           ~\E e \in held[t] : Misread(e[2], e[1])
    PROVE  \E d \in Buffers :
              writer[d] = t /\ Owner[d] = Owner[b] /\ Level[d] >= Level[b]
<1>1. Level[c] \in Known(t, Owner[b])
  <2>1. \E f \in {f \in held[t] : f[2][2] = Owner[b]} : Level[c] = f[2][1]
    BY DEF True
  <2> QED BY <2>1 DEF Known
<1>2. PICK l \in Known(t, Owner[b]) : ~(Level[b] > l)
  BY <1>1, TrueIsHeader DEF Inversion, True
<1>3. PICK d \in Buffers : writer[d] = t /\ Owner[d] = Owner[b] /\ Level[d] = l
  BY <1>2, KnownAreReal
<1>4. Level[d] >= Level[b]
  BY <1>2, <1>3, BuffersAssumption DEF BuffersAssumption
<1> QED BY <1>3, <1>4

LEMMA FoundStep ==
    ASSUME TypeOK, ViewIsReal, InversionsAreFound, [Next]_vars
    PROVE  InversionsAreFound'
<1> DEFINE High(t, b, d) == writer[d] = t /\ Owner[d] = Owner[b] /\ Level[d] >= Level[b]
           Seen(t, b, c) ==
              /\ b \in Pending(t) /\ seen[t] = True(b) /\ ~MisreadIn(t, b)
              /\ <<c, True(c)>> \in held[t]
<1>1. ASSUME NEW a \in Threads, NEW q \in Buffers, Step(a, q), NEW t \in Threads,
             NEW b \in Buffers, NEW c \in Buffers, Seen(t, b, c)',
             Owner[c] = Owner[b], Level[c] < Level[b]
      PROVE  t \in inverted' \/ \E d \in Buffers : High(t, b, d)'
  <2>1. CASE t # a
    <3>1. Seen(t, b, c)
      BY <1>1, <2>1, OthersKeep DEF MisreadIn, True
    <3>2. t \in inverted \/ \E d \in Buffers : High(t, b, d)
      BY <1>1, <3>1 DEF InversionsAreFound, Pending
    <3> QED BY <1>1, <2>1, <3>2, OthersKeep
  <2>2. CASE t = a /\ (AcquireWrite(a, q) \/ AcquireRead(a, q))
    <3>1. b = q /\ UNCHANGED <<writer, held>>
      BY <1>1, <2>2, Asks
    <3>2. CASE Inversion(t, True(b))
      BY <1>1, <2>2, <3>1, <3>2, Asks DEF True
    <3>3. CASE ~Inversion(t, True(b))
      <4>1. <<c, True(c)>> \in held[t] /\ ~\E e \in held[t] : Misread(e[2], e[1])
        BY <1>1, <3>1 DEF MisreadIn, Misread, True
      <4>2. \E d \in Buffers : High(t, b, d)
        BY <1>1, <3>3, <4>1, InversionIsFound
      <4> QED BY <3>1, <4>2
    <3> QED BY <3>2, <3>3
  <2>3. CASE t = a /\ ~(AcquireWrite(a, q) \/ AcquireRead(a, q))
    <3>1. AcquireWriteDone(a, q) \/ AcquireReadDone(a, q) => seen'[t] = Unknown
      BY <2>3 DEF AcquireWriteDone, AcquireReadDone, TypeOK
    <3>2. Release(a, q) \/ ReleaseRead(a, q) => Pending(t)' = {}
      BY <2>3, BuffersAssumption DEF BuffersAssumption, Release, ReleaseRead, Idle, Pending
    <3>3. seen'[t] # Unknown
      BY <1>1, TrueIsHeader DEF True
    <3> QED BY <1>1, <2>3, <3>1, <3>2, <3>3 DEF Step
  <2> QED BY <2>1, <2>2, <2>3
<1>2. CASE UNCHANGED others
  BY <1>2 DEF others, checker, InversionsAreFound, MisreadIn, True
<1> QED BY <1>1, <1>2, NextSteps DEF InversionsAreFound, Pending, True

\* A thread that waits for a buffer above one it holds is reported, if the headers
\* were read right, unless it holds another of the tree that is as high.
THEOREM OutOfOrderIsReported == Spec => []InversionsAreFound
<1> DEFINE Inv == TypeOK /\ ViewIsReal /\ InversionsAreFound
<1>1. Init => Inv
  <2>1. Init => InversionsAreFound
    BY DEF Init, InversionsAreFound
  <2> QED BY <2>1, TypeInit, ViewInit
<1>2. Inv /\ [Next]_vars => Inv'
  BY TypeStep, ViewStep, FoundStep
<1> QED BY <1>1, <1>2, PTL DEF Spec
=============================================================================
