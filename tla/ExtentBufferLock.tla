--------------------------- MODULE ExtentBufferLock ---------------------------
(***************************************************************************)
(* Write and read locks on extent buffers, and the checker that follows    *)
(* them through the tracer's events.  The kernel side is any set of        *)
(* threads that take locks one after another in whatever order: whether    *)
(* they keep to top-down order is for the checker to find out.             *)
(*                                                                         *)
(* The tracer attaches to a running kernel, so the checker starts with an  *)
(* empty view of locks that may already be held or waited for.  It reads a *)
(* buffer's level and owner from the header in the buffer itself.  It may  *)
(* fail to, and a buffer that is allocated anew is locked before its       *)
(* header is written: what is read of it then may be anything, a level     *)
(* and an owner that look right included.                                  *)
(***************************************************************************)
EXTENDS Integers, FiniteSets

CONSTANTS
    Threads, Buffers, Trees,
    MaxLevel,   \* BTRFS_MAX_LEVEL: no level is that high
    Level,      \* height of a buffer in its tree
    Owner,      \* the tree a buffer belongs to
    LogTrees,   \* trees that are exempt from ordering
    Recycled,   \* buffers whose blocks are given out again while traced
    Garbage     \* what can stand where a header is not written yet

NoBuffer == "none"
NoTree == "none"

ASSUME BuffersAssumption ==
    /\ NoBuffer \notin Buffers /\ NoBuffer \notin Threads /\ NoTree \notin Trees
    /\ MaxLevel \in Nat /\ LogTrees \subseteq Trees
    /\ Level \in [Buffers -> 0..(MaxLevel - 1)] /\ Owner \in [Buffers -> Trees]
    /\ Recycled \subseteq Buffers /\ Garbage \subseteq (0..MaxLevel) \X Trees

VARIABLES
    writer, readers,        \* kernel: who holds a buffer
    wantsWrite, wantsRead,  \* kernel: what a thread waits for, or NoBuffer
    unwritten,              \* kernel: buffers whose header is not written yet
    held,                   \* checker: <<buffer, header>> entries by thread
    waiting,                \* checker: the buffer in waiting_for, by thread
    seen,                   \* the header in the event of a pending acquisition
    inverted,               \* threads whose pending lock was reported as inversion
    reported,               \* pairs of threads reported as deadlocked
    cold                    \* no lock was in use when the tracer attached

kernel  == <<writer, readers, wantsWrite, wantsRead, unwritten>>
checker == <<held, waiting, seen, inverted, reported>>
vars    == <<kernel, checker, cold>>

\* A level and a tree, as the checker takes them.
Unknown == <<-1, NoTree>>
Headers == ((0..(MaxLevel - 1)) \X Trees) \cup {Unknown}

TypeOK ==
    /\ writer \in [Buffers -> Threads \cup {NoBuffer}]
    /\ readers \in [Buffers -> SUBSET Threads]
    /\ wantsWrite \in [Threads -> Buffers \cup {NoBuffer}]
    /\ wantsRead \in [Threads -> Buffers \cup {NoBuffer}]
    /\ unwritten \subseteq Recycled
    /\ held \in [Threads -> SUBSET (Buffers \X Headers)]
    /\ waiting \in [Threads -> Buffers \cup {NoBuffer}]
    /\ seen \in [Threads -> Headers]
    /\ inverted \subseteq Threads
    /\ reported \subseteq Threads \X Threads
    /\ cold \in BOOLEAN

Idle(t) == wantsWrite[t] = NoBuffer /\ wantsRead[t] = NoBuffer

Holds(t, b) == writer[b] = t \/ t \in readers[b]

\* A state of the kernel's locks: exclusive writers, one wait per thread.
LocksConsistent ==
    /\ \A b \in Buffers : writer[b] # NoBuffer => readers[b] = {}
    /\ \A t \in Threads : wantsWrite[t] = NoBuffer \/ wantsRead[t] = NoBuffer

Init ==
    /\ writer \in [Buffers -> Threads \cup {NoBuffer}]
    /\ readers \in [Buffers -> SUBSET Threads]
    /\ wantsWrite \in [Threads -> Buffers \cup {NoBuffer}]
    /\ wantsRead \in [Threads -> Buffers \cup {NoBuffer}]
    /\ LocksConsistent /\ unwritten \in SUBSET Recycled
    /\ \A t \in Threads, b \in Buffers :
          b \in {wantsWrite[t], wantsRead[t]} => ~Holds(t, b)
    /\ held = [t \in Threads |-> {}]
    /\ waiting = [t \in Threads |-> NoBuffer]
    /\ seen = [t \in Threads |-> Unknown]
    /\ inverted = {} /\ reported = {}
    /\ cold = (/\ \A b \in Buffers : writer[b] = NoBuffer /\ readers[b] = {}
               /\ \A t \in Threads : Idle(t))

-----------------------------------------------------------------------------
(* What the checker works out from its entries.                            *)

Tracked(t) == {e[1] : e \in held[t]}

Forget(entries, b) == {e \in entries : e[1] # b}

\* Mutant: levels of different trees are compared.
KnownAnyTree(t, tree) == {e[2][1] : e \in {f \in held[t] : f[2] # Unknown}}

\* Levels of one tree that t holds, as far as they are known.
Known(t, tree) == {e[2][1] : e \in {f \in held[t] : f[2][2] = tree}}

\* Mutant: a step of one level is let through.
InversionByTwo(t, header) ==
    /\ header # Unknown /\ Known(t, header[2]) # {}
    /\ \A l \in Known(t, header[2]) : header[1] > l + 1

\* level > max(known)
Inversion(t, header) ==
    /\ header # Unknown /\ Known(t, header[2]) # {}
    /\ \A l \in Known(t, header[2]) : header[1] > l

\* Mutants: any thread that holds b and waits is an opponent; a thread that
\* waits for b is.
OpponentsWaiting(t, b) ==
    {u \in Threads \ {t} : b \in Tracked(u) /\ waiting[u] # NoBuffer}

OpponentsQueued(t, b) ==
    {u \in Threads \ {t} : waiting[u] = b /\ b \in Tracked(t)}

\* Threads that hold what t is about to ask for and wait for what t holds.
Opponents(t, b) ==
    {u \in Threads \ {t} : b \in Tracked(u) /\ waiting[u] \in Tracked(t)}

True(b) == <<Level[b], Owner[b]>>

\* Impossible levels are garbage, log-tree blocks are exempt.
Judged(header) ==
    IF header[1] >= MaxLevel \/ header[2] \in LogTrees THEN Unknown ELSE header

\* What the tracer may read in b; it may find no header at all.
Readable(b) == IF b \in unwritten THEN Garbage ELSE {True(b)}
SeenHeaders(b) == {Unknown} \cup {Judged(h) : h \in Readable(b)}

-----------------------------------------------------------------------------
(* AcquireWrite, AcquireWrite_Done, Release.                               *)

ReportsInversion(t, header) ==
    inverted' = IF Inversion(t, header) THEN inverted \cup {t} ELSE inverted

Reports(t, b, header) ==
    /\ ReportsInversion(t, header)
    /\ reported' = reported \cup ({t} \X Opponents(t, b))

AcquireWrite(t, b) ==
    /\ Idle(t) /\ ~Holds(t, b)
    /\ wantsWrite' = [wantsWrite EXCEPT ![t] = b]
    /\ \E header \in SeenHeaders(b) :
          Reports(t, b, header) /\ seen' = [seen EXCEPT ![t] = header]
    /\ waiting' = [waiting EXCEPT ![t] = b]
    /\ UNCHANGED <<writer, readers, wantsRead, unwritten, held, cold>>

\* The entry for a buffer is keyed by its bytenr: a new one replaces it.
Note(t) ==
    IF waiting[t] = NoBuffer THEN held[t]
    ELSE Forget(held[t], waiting[t]) \cup {<<waiting[t], seen[t]>>}

AcquireWriteDone(t, b) ==
    /\ wantsWrite[t] = b /\ writer[b] = NoBuffer /\ readers[b] = {}
    /\ writer' = [writer EXCEPT ![b] = t]
    /\ wantsWrite' = [wantsWrite EXCEPT ![t] = NoBuffer]
    /\ held' = [held EXCEPT ![t] = Note(t)]
    /\ waiting' = [waiting EXCEPT ![t] = NoBuffer]
    /\ seen' = [seen EXCEPT ![t] = Unknown]
    /\ inverted' = inverted \ {t}
    /\ UNCHANGED <<readers, wantsRead, unwritten, reported, cold>>

\* Mutant: the level is the key, so another buffer's entry may go.
ReleaseByLevel(t, b) ==
    /\ Idle(t) /\ writer[b] = t
    /\ writer' = [writer EXCEPT ![b] = NoBuffer]
    /\ \E header \in SeenHeaders(b) :
          held' = [held EXCEPT ![t] = {e \in @ : e[2] # header}]
    /\ UNCHANGED <<readers, wantsWrite, wantsRead, unwritten, waiting, seen,
                   inverted, reported, cold>>

Release(t, b) ==
    /\ Idle(t) /\ writer[b] = t
    /\ writer' = [writer EXCEPT ![b] = NoBuffer]
    /\ held' = [held EXCEPT ![t] = Forget(@, b)]
    /\ UNCHANGED <<readers, wantsWrite, wantsRead, unwritten, waiting, seen,
                   inverted, reported, cold>>

-----------------------------------------------------------------------------
(* AcquireRead, AcquireRead_Done, ReleaseRead: checked against the write   *)
(* locks held, and not remembered.                                         *)

AcquireRead(t, b) ==
    /\ Idle(t) /\ ~Holds(t, b)
    /\ wantsRead' = [wantsRead EXCEPT ![t] = b]
    /\ \E header \in SeenHeaders(b) :
          ReportsInversion(t, header) /\ seen' = [seen EXCEPT ![t] = header]
    /\ UNCHANGED <<writer, readers, wantsWrite, unwritten, held, waiting,
                   reported, cold>>

AcquireReadDone(t, b) ==
    /\ wantsRead[t] = b /\ writer[b] = NoBuffer
    /\ readers' = [readers EXCEPT ![b] = @ \cup {t}]
    /\ wantsRead' = [wantsRead EXCEPT ![t] = NoBuffer]
    /\ seen' = [seen EXCEPT ![t] = Unknown]
    /\ inverted' = inverted \ {t}
    /\ UNCHANGED <<writer, wantsWrite, unwritten, held, waiting, reported, cold>>

ReleaseRead(t, b) ==
    /\ Idle(t) /\ t \in readers[b]
    /\ readers' = [readers EXCEPT ![b] = @ \ {t}]
    /\ UNCHANGED <<writer, wantsWrite, wantsRead, unwritten, checker, cold>>

-----------------------------------------------------------------------------
(* Allocation: the block of a buffer that nobody uses is given out again,  *)
(* and who has locked it writes its header.                                *)

Allocate(b) ==
    /\ b \in Recycled
    /\ \A t \in Threads : ~Holds(t, b) /\ b \notin {wantsWrite[t], wantsRead[t]}
    /\ unwritten' = unwritten \cup {b}
    /\ UNCHANGED <<writer, readers, wantsWrite, wantsRead, checker, cold>>

WriteHeader(t, b) ==
    /\ Idle(t) /\ writer[b] = t /\ b \in unwritten
    /\ unwritten' = unwritten \ {b}
    /\ UNCHANGED <<writer, readers, wantsWrite, wantsRead, checker, cold>>

Next ==
    \E b \in Buffers :
        \/ Allocate(b)
        \/ \E t \in Threads :
              \/ AcquireWrite(t, b) \/ AcquireWriteDone(t, b) \/ Release(t, b)
              \/ AcquireRead(t, b) \/ AcquireReadDone(t, b) \/ ReleaseRead(t, b)
              \/ WriteHeader(t, b)

Spec == Init /\ [][Next]_vars

-----------------------------------------------------------------------------
(* Properties.                                                             *)

WaitsForWriter(t, u) ==
    \E b \in Buffers : b \in {wantsWrite[t], wantsRead[t]} /\ writer[b] = u

\* Two threads wait for write locks that the other holds: ABBA.
MutualWriteWait(t, u) ==
    /\ t # u
    /\ \E b, c \in Buffers : /\ wantsWrite[t] = b /\ writer[b] = u
                             /\ wantsWrite[u] = c /\ writer[c] = t

\* The checker believes only in locks that are really held and waits that
\* are really going on, wherever in the kernel's life it was attached; if
\* no lock was in use then, it knows all of them.
ViewIsReal ==
    \A t \in Threads :
        /\ \A b \in Tracked(t) : writer[b] = t
        /\ waiting[t] \in {wantsWrite[t], NoBuffer}
        /\ cold => /\ \A b \in Buffers : writer[b] = t => b \in Tracked(t)
                   /\ waiting[t] = wantsWrite[t]

\* No false deadlock: a reported pair is, and stays, in an ABBA wait.
ReportedAreDeadlocked == \A p \in reported : MutualWriteWait(p[1], p[2])

\* No missed deadlock: whichever of the two waits begins last, an ABBA wait
\* for write locks is reported, if the tracer saw all locks taken.
NoMissedABBA ==
    cold => \A t, u \in Threads :
               MutualWriteWait(t, u) => <<t, u>> \in reported \/ <<u, t>> \in reported

Misread(header, b) == header \notin {True(b), Unknown}

\* What a false alarm about t waiting for b takes: a wrong header of b, or of a
\* buffer that t holds, as it is read before the header is written.
MisreadIn(t, b) == Misread(seen[t], b) \/ \E e \in held[t] : Misread(e[2], e[1])

\* No false inversion but by a misread header: a thread that is reported does
\* hold a lower buffer of the same tree, or one of the headers the comparison
\* used was read before it was written.
InversionsAreReal ==
    \A t \in inverted : \E b \in Buffers :
        /\ b \in {wantsWrite[t], wantsRead[t]}
        /\ \/ MisreadIn(t, b)
           \/ \E c \in Buffers :
                 writer[c] = t /\ Owner[c] = Owner[b] /\ Level[c] < Level[b]

\* Which inversions are missed.  A thread waits for a buffer above one that it
\* holds, both headers were read and none was misread: it is reported, unless
\* it holds another buffer of the tree that is at least as high.
InversionsAreFound ==
    \A t \in Threads, b, c \in Buffers :
        /\ b \in {wantsWrite[t], wantsRead[t]} /\ seen[t] = True(b) /\ ~MisreadIn(t, b)
        /\ <<c, True(c)>> \in held[t] /\ Owner[c] = Owner[b] /\ Level[c] < Level[b]
        => \/ t \in inverted
           \/ \E d \in Buffers :
                 writer[d] = t /\ Owner[d] = Owner[b] /\ Level[d] >= Level[b]
=============================================================================
