-------------------------- MODULE ExtentBufferStress --------------------------
(***************************************************************************)
(* The extent-buffer-lock workload.  Each writer creates a file, renames   *)
(* an older one, and deletes the first of its list once the list is longer *)
(* than fifty; readers walk the writers' directories, and truncators       *)
(* truncate files in the first four of them.                               *)
(***************************************************************************)
EXTENDS StressRun, SequencesExt

CONSTANTS
    BufferNames,
    BufferThreads,  \* --threads
    Keep            \* the fifty files a writer keeps

ASSUME BufferAssumption ==
    BufferThreads \in Nat /\ Keep \in Nat \ {0, 1}

VARIABLES
    dir,        \* by writer: the names in its directory; the others have none
    list,       \* by thread: the names a writer remembers, oldest first
    newest,     \* by thread: the file of this round
    skipped,    \* by thread: rounds an error cut short
    target      \* by thread: the name a truncator found in its listing

bufferVars == <<dir, list, newest, skipped, target>>

NWriters(n) == n \div 2
NReaders(n) == n \div 4

\* The rest are truncators.
Role(n, i) ==
    IF i <= NWriters(n) THEN "creator"
    ELSE IF i <= NWriters(n) + NReaders(n) THEN "reader" ELSE "truncator"

BufferTeam == [i \in 1..BufferThreads |-> Role(BufferThreads, i)]

WriterNumbers(n) == {i \in 1..n : Role(n, i) = "creator"}

BufferWriters == WriterNumbers(BufferThreads)

\* The directory of a truncator: tid % 4, whoever writes there.
BaseOf(n, i) == ((i - NWriters(n) - NReaders(n) - 1) % 4) + 1

BufferStart ==
    /\ dir = [w \in BufferWriters |-> {}]
    /\ list = [w \in BufferWriters |-> <<>>]
    /\ newest = [w \in BufferWriters |-> "none"]
    /\ skipped = [w \in BufferWriters |-> 0]
    /\ target = [t \in 1..BufferThreads |-> "none"]

Listed(w) == {list[w][i] : i \in DOMAIN list[w]}
Unused(w) == BufferNames \ dir[w]

-----------------------------------------------------------------------------
(* A writer: create, rename, trim.                                         *)

\* A failed open, write or fsync ends the round; the file may be there.
BufferCreate(w) ==
    \E n \in Unused(w) :
        \/ /\ Move(w, "create", "rename")
           /\ dir' = [dir EXCEPT ![w] = @ \cup {n}]
           /\ list' = [list EXCEPT ![w] = Append(@, n)]
           /\ newest' = [newest EXCEPT ![w] = n]
           /\ UNCHANGED <<skipped, target>>
        \/ /\ Move(w, "create", "loop")
           /\ \/ dir' = [dir EXCEPT ![w] = @ \cup {n}]
              \/ UNCHANGED dir
           /\ newest' = [newest EXCEPT ![w] = "none"]
           /\ UNCHANGED <<list, skipped, target>>

\* The i-th file of the list gets the name dst, and moves to the list's end.
MovedTo(w, i, dst) ==
    /\ dir' = [dir EXCEPT ![w] = (@ \ {list[w][i]}) \cup {dst}]
    /\ list' = [list EXCEPT ![w] = Append(RemoveAt(@, i), dst)]

Older(w) == 1..(Len(list[w]) - 1)

\* Mutant: any file may be renamed, the one just created too.
BufferRenameAny(w) ==
    \/ /\ Len(list[w]) > 1
       /\ \E i \in DOMAIN list[w], dst \in Unused(w) :
             Move(w, "rename", "trim") /\ MovedTo(w, i, dst)
       /\ UNCHANGED <<newest, skipped, target>>
    \/ /\ Len(list[w]) <= 1 /\ Move(w, "rename", "trim") /\ UNCHANGED bufferVars

\* An older file is renamed.  An error other than a missing file leaves the
\* round before the trim.
BufferRename(w) ==
    \/ /\ \E i \in Older(w), dst \in Unused(w) :
             Move(w, "rename", "trim") /\ MovedTo(w, i, dst)
       /\ UNCHANGED <<newest, skipped, target>>
    \/ /\ Older(w) # {} /\ Move(w, "rename", "loop")
       /\ skipped' = [skipped EXCEPT ![w] = @ + 1]
       /\ UNCHANGED <<dir, list, newest, target>>
    \/ /\ Older(w) = {} /\ Move(w, "rename", "trim") /\ UNCHANGED bufferVars

\* The name leaves the list, whether or not the file goes.
BufferTrim(w) ==
    /\ Move(w, "trim", "loop")
    /\ IF Len(list[w]) > Keep
       THEN /\ list' = [list EXCEPT ![w] = Tail(@)]
            /\ \/ dir' = [dir EXCEPT ![w] = @ \ {Head(list[w])}]
               \/ UNCHANGED dir
       ELSE UNCHANGED <<list, dir>>
    /\ UNCHANGED <<newest, skipped, target>>

BufferWriter(w) ==
    \/ (Prepare(w) \/ Round(w, "create") \/ Leave(w)) /\ UNCHANGED bufferVars
    \/ BufferCreate(w) \/ BufferRename(w) \/ BufferTrim(w)

-----------------------------------------------------------------------------
(* Readers and truncators change no name.                                  *)

\* Between two directories a reader looks at the event once more.
BufferReader(t) ==
    /\ \/ Round(t, "scan") \/ Leave(t)
       \/ Move(t, "scan", "scan") /\ ~stop
       \/ Move(t, "scan", "loop")
    /\ UNCHANGED bufferVars

\* What it finds in the listing may be gone when it is opened.
BufferTruncate(t) ==
    LET b == BaseOf(BufferThreads, t) IN
    \/ (Round(t, "list") \/ Leave(t)) /\ UNCHANGED bufferVars
    \/ \E n \in IF b \in BufferWriters THEN dir[b] ELSE {} :
          /\ Move(t, "list", "open")
          /\ target' = [target EXCEPT ![t] = n]
          /\ UNCHANGED <<dir, list, newest, skipped>>
    \/ Move(t, "list", "loop") /\ UNCHANGED bufferVars
    \/ /\ Move(t, "open", "loop")
       /\ target' = [target EXCEPT ![t] = "none"]
       /\ UNCHANGED <<dir, list, newest, skipped>>

BufferNext ==
    \/ Main /\ UNCHANGED bufferVars
    \/ \E t \in Members : CASE threads[t] = "creator" -> BufferWriter(t)
                            [] threads[t] = "reader" -> BufferReader(t)
                            [] OTHER -> BufferTruncate(t)

-----------------------------------------------------------------------------
(* Properties.                                                             *)

\* What is in the lists is the subject of NewestAreKept.
BufferTypeOK ==
    /\ dir \in [BufferWriters -> SUBSET BufferNames]
    /\ newest \in [BufferWriters -> BufferNames \cup {"none"}]
    /\ skipped \in [BufferWriters -> Nat]
    /\ target \in [1..BufferThreads -> BufferNames \cup {"none"}]

\* A writer remembers at most fifty files between rounds, and one more for
\* each rename that failed: an error skips the trim of its round, and no
\* later round makes up for it.  What it remembers exists, once, and the file
\* its round created is among it, under the name it was given, in spite of
\* the rename and the trim.
NewestAreKept ==
    /\ workload = "extent_buffer" => \A w \in BufferWriters :
          Len(list[w]) <= Keep + skipped[w] + (IF pc[w] \in {"rename", "trim"} THEN 1 ELSE 0)
    /\ \A w \in BufferWriters :
          /\ newest[w] # "none" => newest[w] \in Listed(w)
          /\ Listed(w) \subseteq dir[w]
          /\ Cardinality(Listed(w)) = Len(list[w])
=============================================================================
