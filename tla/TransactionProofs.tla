-------------------------- MODULE TransactionProofs --------------------------
(***************************************************************************)
(* Chained transactions, for any finite set of writers and any number of   *)
(* joins; then the traced ones, wherever the tracer attaches and stops.    *)
(***************************************************************************)
EXTENDS TransactionTracing, FiniteSetTheorems, TLAPS

InCommit == DOMAIN After \cup {"SUPER_COMMITTED"}

\* Where the committer stands determines how far the transactions are.
CommitInOrder ==
    /\ committer_state = "Idle" =>
          committer_trans = 0 /\ trans_state[1] = "RUNNING" /\ trans_state[2] = "NONE"
    /\ committer_state = "Committing" => committer_trans \in Transactions
    /\ committer_state = "Committing" /\ committer_trans = 1 =>
          /\ trans_state[1] \in InCommit
          /\ trans_state[2] = IF trans_state[1] \in WakingStates THEN "RUNNING" ELSE "NONE"
    /\ committer_state = "Committing" /\ committer_trans = 2 =>
          trans_state[1] = "COMPLETED" /\ trans_state[2] \in InCommit
    /\ committer_state = "Done" => \A t \in Transactions : trans_state[t] = "COMPLETED"

Inv == TypeOK /\ RefcountIsExact /\ CommitInOrder /\ NothingToBailOut

-----------------------------------------------------------------------------
(* Counting.                                                               *)

LEMMA HoldersFinite ==
    \A t \in Transactions : IsFiniteSet(Holders(t)) /\ Cardinality(Holders(t)) \in Nat
<1> TAKE t \in Transactions
<1>1. Holders(t) \in SUBSET Writers
  BY DEF Holders
<1>2. IsFiniteSet(Holders(t))
  BY <1>1, WritersAssumption, FS_Subset DEF WritersAssumption
<1> QED BY <1>2, FS_CardinalityType

\* A step that leaves references alone leaves the count exact.
LEMMA CountKept ==
    ASSUME RefcountIsExact, \A t \in Transactions : Holders(t)' = Holders(t),
           UNCHANGED trans_refcount
    PROVE  RefcountIsExact'
BY DEF RefcountIsExact

LEMMA CountTaken ==
    ASSUME TypeOK, RefcountIsExact, NEW w \in Writers, NEW t \in Transactions,
           w \notin Holders(t), Get(t),
           \A u \in Transactions : Holders(u)' = IF u = t THEN Holders(t) \cup {w}
                                                 ELSE Holders(u)
    PROVE  RefcountIsExact'
<1>1. Cardinality(Holders(t) \cup {w}) = Cardinality(Holders(t)) + 1
  BY HoldersFinite, FS_AddElement
<1> QED BY <1>1 DEF RefcountIsExact, Get, TypeOK

LEMMA CountDropped ==
    ASSUME TypeOK, RefcountIsExact, NEW w \in Writers, NEW t \in Transactions,
           w \in Holders(t), Put(t),
           \A u \in Transactions : Holders(u)' = IF u = t THEN Holders(t) \ {w}
                                                 ELSE Holders(u)
    PROVE  RefcountIsExact'
<1>1. Cardinality(Holders(t) \ {w}) = Cardinality(Holders(t)) - 1
  BY HoldersFinite, FS_RemoveElement
<1> QED BY <1>1 DEF RefcountIsExact, Put, TypeOK

\* A transaction somebody holds has a reference to give back.
LEMMA HeldIsCounted ==
    ASSUME TypeOK, RefcountIsExact, NEW t \in Transactions, NEW w \in Holders(t)
    PROVE  trans_refcount[t] - 1 \in Nat
<1>1. Cardinality(Holders(t)) # 0
  BY HoldersFinite, FS_EmptySet
<1> QED BY <1>1, HoldersFinite DEF RefcountIsExact, TypeOK

-----------------------------------------------------------------------------
(* The count, action by action.                                            *)

\* How the set of holders moves in each action.
LEMMA HoldersMove ==
    ASSUME TypeOK, NothingToBailOut, NEW w \in Writers
    PROVE  /\ WriterTryJoin(w) \/ WriterReset(w) =>
                 \A u \in Transactions : Holders(u)' = Holders(u)
           /\ WriterJoinSuccess(w) \/ WriterBlocked(w) =>
                 /\ w \notin Holders(writer_trans[w])
                 /\ \A u \in Transactions :
                       Holders(u)' = IF u = writer_trans[w] THEN Holders(u) \cup {w}
                                     ELSE Holders(u)
           /\ WriterWoken(w) \/ WriterDone(w) =>
                 /\ w \in Holders(writer_trans[w])
                 /\ \A u \in Transactions :
                       Holders(u)' = IF u = writer_trans[w] THEN Holders(u) \ {w}
                                     ELSE Holders(u)
<1> USE DEF TypeOK, Holders, BecomesWriter
<1>1. WriterTryJoin(w) \/ WriterReset(w) => \A u \in Transactions : Holders(u)' = Holders(u)
  BY DEF WriterTryJoin, WriterReset
<1>2. ASSUME WriterJoinSuccess(w) \/ WriterBlocked(w)
      PROVE  /\ w \notin Holders(writer_trans[w])
             /\ \A u \in Transactions :
                   Holders(u)' = IF u = writer_trans[w] THEN Holders(u) \cup {w}
                                 ELSE Holders(u)
  BY <1>2 DEF WriterJoinSuccess, WriterBlocked
<1>3. ASSUME WriterDone(w)
      PROVE  /\ w \in Holders(writer_trans[w])
             /\ \A u \in Transactions :
                   Holders(u)' = IF u = writer_trans[w] THEN Holders(u) \ {w} ELSE Holders(u)
  BY <1>3 DEF WriterDone
<1>4. ASSUME WriterWoken(w)
      PROVE  /\ w \in Holders(writer_trans[w])
             /\ \A u \in Transactions :
                   Holders(u)' = IF u = writer_trans[w] THEN Holders(u) \ {w} ELSE Holders(u)
  BY <1>4 DEF WriterWoken
<1> QED BY <1>1, <1>2, <1>3, <1>4

LEMMA CommitterKeepsHolders ==
    ASSUME CommitterNext \/ UNCHANGED vars
    PROVE  /\ \A u \in Transactions : Holders(u)' = Holders(u)
           /\ UNCHANGED <<trans_refcount, writer, ops_count>>
BY DEF CommitterNext, CommitterStart, CommitterAdvance, CommitterComplete, Holders, vars,
       writer, trans

LEMMA CountStep ==
    ASSUME TypeOK, RefcountIsExact, NothingToBailOut, [Next]_vars
    PROVE  RefcountIsExact'
<1>1. CASE CommitterNext \/ UNCHANGED vars
  BY <1>1, CommitterKeepsHolders, CountKept
<1>2. ASSUME NEW w \in Writers, WriterTryJoin(w) \/ WriterReset(w) PROVE RefcountIsExact'
  BY <1>2, HoldersMove, CountKept DEF WriterTryJoin, WriterReset, trans
<1>3. ASSUME NEW w \in Writers, WriterJoinSuccess(w) \/ WriterBlocked(w)
      PROVE  RefcountIsExact'
  <2>1. writer_trans[w] \in Transactions
    BY <1>3 DEF NothingToBailOut, WriterJoinSuccess, WriterBlocked, Under
  <2>2. Get(writer_trans[w])
    BY <1>3 DEF WriterJoinSuccess, WriterBlocked
  <2> QED BY <1>3, <2>1, <2>2, HoldersMove, CountTaken
<1>4. ASSUME NEW w \in Writers, WriterWoken(w) \/ WriterDone(w) PROVE RefcountIsExact'
  <2>1. writer_trans[w] \in Transactions
    BY <1>4 DEF NothingToBailOut, WriterWoken, WriterDone, Under
  <2>2. Put(writer_trans[w])
    BY <1>4 DEF WriterWoken, WriterDone
  <2> QED BY <1>4, <2>1, <2>2, HoldersMove, CountDropped
<1> QED BY <1>1, <1>2, <1>3, <1>4 DEF Next, WriterNext

-----------------------------------------------------------------------------
(* Types.                                                                  *)

LEMMA TypeStep ==
    ASSUME Inv, [Next]_vars
    PROVE  TypeOK'
<1> USE DEF Inv, TypeOK, BecomesWriter, trans, writer, committer, After, TransStates,
            Transactions
<1>1. ASSUME NEW w \in Writers, WriterTryJoin(w) \/ WriterReset(w) PROVE TypeOK'
  BY <1>1, MaxOpsAssumption DEF WriterTryJoin, WriterReset, CurrentTrans, MaxOpsAssumption
<1>2. ASSUME NEW w \in Writers, WriterJoinSuccess(w) \/ WriterBlocked(w) PROVE TypeOK'
  BY <1>2 DEF WriterJoinSuccess, WriterBlocked, Get
<1>3. ASSUME NEW w \in Writers, WriterWoken(w) \/ WriterDone(w) PROVE TypeOK'
  <2>1. writer_trans[w] \in Transactions
    BY <1>3 DEF NothingToBailOut, WriterWoken, WriterDone, Under
  <2>2. trans_refcount[writer_trans[w]] - 1 \in Nat
    BY <1>3, <2>1, HoldersMove, HeldIsCounted
  <2> QED BY <1>3, <2>2 DEF WriterWoken, WriterDone, Put
<1>4. CASE CommitterStart
  BY <1>4 DEF CommitterStart
<1>5. CASE CommitterAdvance
  BY <1>5 DEF CommitterAdvance
<1>6. CASE CommitterComplete
  BY <1>6 DEF CommitterComplete
<1>7. CASE UNCHANGED vars
  BY <1>7 DEF vars
<1> QED
  BY <1>1, <1>2, <1>3, <1>4, <1>5, <1>6, <1>7 DEF Next, WriterNext, CommitterNext

-----------------------------------------------------------------------------
(* The order of the commits, and what writers find.                        *)

LEMMA OrderStep ==
    ASSUME TypeOK, CommitInOrder, [Next]_vars
    PROVE  CommitInOrder'
<1> USE DEF CommitInOrder, InCommit, After, WakingStates, Transactions
<1>1. ASSUME NEW w \in Writers, WriterNext(w) PROVE CommitInOrder'
  BY <1>1 DEF WriterNext, WriterTryJoin, WriterJoinSuccess, WriterBlocked, WriterWoken,
              WriterDone, WriterReset, trans, committer
<1>2. CASE CommitterStart
  BY <1>2 DEF CommitterStart, TypeOK
<1>3. CASE CommitterAdvance
  BY <1>3 DEF CommitterAdvance, TypeOK, committer
<1>4. CASE CommitterComplete
  BY <1>4 DEF CommitterComplete, TypeOK, Exists
<1>5. CASE UNCHANGED vars
  BY <1>5 DEF vars, trans, committer
<1> QED BY <1>1, <1>2, <1>3, <1>4, <1>5 DEF Next, CommitterNext

LEMMA OpenStep ==
    ASSUME Inv, [Next]_vars
    PROVE  NothingToBailOut'
<1>0. CommitInOrder'
  BY OrderStep DEF Inv
<1>1. committer_state' = "Done" => \A t \in Transactions : trans_state'[t] = "COMPLETED"
  BY <1>0 DEF CommitInOrder
<1>c. \/ \E w \in Writers :
            \/ WriterTryJoin(w) \/ WriterWoken(w)
            \/ WriterJoinSuccess(w) \/ WriterBlocked(w) \/ WriterDone(w) \/ WriterReset(w)
      \/ CommitterNext \/ UNCHANGED vars
  BY DEF Next, WriterNext
<1> USE DEF Inv, TypeOK, NothingToBailOut, Under, Transactions
<1>2. ASSUME NEW v \in Writers, writer_state'[v] \in Under
      PROVE  /\ writer_trans'[v] \in Transactions
             /\ trans_state'[writer_trans'[v]] \notin {"NONE", "COMPLETED"}
  <2> USE <1>2
  <2> DEFINE Served == /\ writer_trans'[v] \in Transactions
                       /\ trans_state'[writer_trans'[v]] \notin {"NONE", "COMPLETED"}
  <2>1. ASSUME NEW w \in Writers, WriterTryJoin(w) PROVE Served
    <3>1. trans_state[CurrentTrans] \notin {"NONE", "COMPLETED"} /\ CurrentTrans \in {1, 2}
      BY <2>1 DEF WriterTryJoin, CurrentTrans, CommitInOrder, InCommit, After
    <3> QED BY <2>1, <3>1 DEF WriterTryJoin, BecomesWriter, trans
  <2>2. ASSUME NEW w \in Writers,
               WriterJoinSuccess(w) \/ WriterBlocked(w) \/ WriterDone(w) \/ WriterReset(w)
        PROVE  Served
    BY <2>2 DEF WriterJoinSuccess, WriterBlocked, WriterDone, WriterReset, BecomesWriter,
                trans
  <2>3. ASSUME NEW w \in Writers, WriterWoken(w) PROVE Served
    <3>1. writer_trans[w] = 1 /\ Exists(2) => trans_state[2] = "RUNNING"
      BY <2>3 DEF WriterWoken, Exists, CommitInOrder
    <3> QED BY <2>3, <3>1 DEF WriterWoken, BecomesWriter
  <2>4. CASE CommitterNext
    <3>1. UNCHANGED writer
      BY <2>4, CommitterKeepsHolders
    <3>2. /\ v \in Busy(writer_trans[v]) /\ writer_trans[v] \in {1, 2}
          /\ trans_state[writer_trans[v]] \notin {"NONE", "COMPLETED"}
      BY <3>1 DEF Busy, writer
    <3>3. trans_state'[writer_trans[v]] \notin {"NONE", "COMPLETED"}
      BY <2>4, <3>2 DEF CommitterNext, CommitterStart, CommitterAdvance, CommitterComplete,
                        After, TransStates
    <3> QED BY <3>1, <3>2, <3>3 DEF writer
  <2>5. CASE UNCHANGED vars
    BY <2>5 DEF vars, writer, trans
  <2> QED BY <1>c, <2>1, <2>2, <2>3, <2>4, <2>5
<1> QED BY <1>1, <1>2

-----------------------------------------------------------------------------
(* Theorems.                                                               *)

LEMMA InitInv == Init => Inv
<1> SUFFICES ASSUME Init PROVE Inv
  OBVIOUS
<1>1. TypeOK
  BY MaxOpsAssumption DEF MaxOpsAssumption, Init, TypeOK, TransStates, After, Transactions
<1>2. RefcountIsExact
  BY FS_EmptySet DEF Init, RefcountIsExact, Holders
<1>3. CommitInOrder /\ NothingToBailOut
  BY DEF Init, CommitInOrder, NothingToBailOut, Under, Transactions
<1> QED BY <1>1, <1>2, <1>3 DEF Inv

LEMMA InvStep == Inv /\ [Next]_vars => Inv'
BY TypeStep, CountStep, OrderStep, OpenStep DEF Inv

LEMMA Invariance == Spec => []Inv
BY InitInv, InvStep, PTL DEF Spec

\* Every variable keeps its type; no reference count falls below zero.
THEOREM ChainTypeCorrect == Spec => []TypeOK
<1>1. Inv => TypeOK
  BY DEF Inv
<1> QED BY <1>1, Invariance, PTL

\* The reference count of a transaction is the number of its holders.
THEOREM CountsAreExact == Spec => []RefcountIsExact
<1>1. Inv => RefcountIsExact
  BY DEF Inv
<1> QED BY <1>1, Invariance, PTL

\* No writer joins, works in or sleeps on a completed transaction: the source's
\* bail-out and its committer reset are never taken.
THEOREM NobodyBailsOut == Spec => []NothingToBailOut
<1>1. Inv => NothingToBailOut
  BY DEF Inv
<1> QED BY <1>1, Invariance, PTL

\* At any time at most one of the two transactions can be joined.
THEOREM OneTransactionIsJoinable == Spec => []OneIsJoinable
<1>1. Inv => OneIsJoinable
  BY DEF Inv, TypeOK, CommitInOrder, NothingToBailOut, OneIsJoinable, InCommit, After,
         WakingStates, Joinable, Exists, Under, Transactions
<1> QED BY <1>1, Invariance, PTL

-----------------------------------------------------------------------------
(* Nobody is stuck.                                                        *)

\* Nobody sleeps on a transaction that can still be joined.
SleepersInv ==
    \A w \in Writers : writer_state[w] = "Blocked" => trans_state[writer_trans[w]] \in Blocking

LEMMA SleepersStep == ASSUME Inv, SleepersInv, [Next]_vars PROVE SleepersInv'
<1> USE DEF Inv, TypeOK, SleepersInv, BecomesWriter
<1>1. ASSUME NEW w \in Writers, WriterNext(w) PROVE SleepersInv'
  BY <1>1 DEF WriterNext, WriterTryJoin, WriterJoinSuccess, WriterBlocked, WriterWoken,
              WriterDone, WriterReset, trans
<1>2. CASE CommitterNext
  <2> SUFFICES ASSUME NEW w \in Writers, writer_state'[w] = "Blocked"
               PROVE  trans_state'[writer_trans'[w]] \in Blocking
    OBVIOUS
  <2>1. UNCHANGED writer
    BY <1>2, CommitterKeepsHolders
  <2> DEFINE t == writer_trans[w]
  <2>2. t \in Transactions /\ trans_state[t] \in Blocking /\ w \in Busy(t)
    BY <2>1 DEF NothingToBailOut, Under, Busy, writer
  <2>3. trans_state'[t] \in Blocking
    BY <1>2, <2>2 DEF CommitterNext, CommitterStart, CommitterAdvance, CommitterComplete,
                      CommitInOrder, After, Blocking, WakingStates, Transactions
  <2> QED BY <2>1, <2>3 DEF writer
<1>3. CASE UNCHANGED vars
  BY <1>3 DEF vars, trans, writer
<1> QED BY <1>1, <1>2, <1>3 DEF Next

\* A sleeper that is not woken yet sleeps on the transaction in commit.
LEMMA SleeperIsServed ==
    ASSUME Inv, SleepersInv, NEW w \in Writers, writer_state[w] \in Under, ~WriterGoes(w)
    PROVE  committer_trans = writer_trans[w] /\ CommitterGoes
<1> USE DEF Inv, TypeOK, TransStates, After, WakingStates, Under, Transactions, Blocking
<1>1. writer_trans[w] \in Transactions /\ trans_state[writer_trans[w]] \notin {"NONE", "COMPLETED"}
  BY DEF NothingToBailOut
<1>2. writer_state[w] = "Blocked" /\ trans_state[writer_trans[w]] = "COMMIT_DOING"
  BY <1>1 DEF WriterGoes, SleepersInv, Joinable
<1> QED BY <1>1, <1>2 DEF CommitterGoes, CommitInOrder

\* A reference that holds the committer up is a writer's.
LEMMA CountedAreBusy ==
    ASSUME Inv, NEW t \in Transactions, Busy(t) = {}
    PROVE  trans_refcount[t] = 0
<1>1. Holders(t) = {}
  BY DEF Holders, Busy, Under
<1> QED BY <1>1, FS_EmptySet DEF Inv, RefcountIsExact

\* No writer and no commit waits behind the other in a circle.
THEOREM NobodyIsEverStuck == Spec => []NobodyIsStuck
<1>1. ASSUME Inv, SleepersInv PROVE NobodyIsStuck
  <2> USE <1>1
  <2>1. ASSUME committer_state # "Done", ~CommitterGoes
        PROVE  /\ committer_state = "Committing" /\ committer_trans \in Transactions
               /\ trans_state[committer_trans] = "SUPER_COMMITTED"
    BY <2>1 DEF Inv, TypeOK, CommitInOrder, CommitterGoes, InCommit, Transactions
  <2>2. ASSUME committer_state # "Done", ~CommitterGoes
        PROVE  Busy(committer_trans) # {}
    BY <2>1, <2>2, CountedAreBusy DEF CommitterGoes
  <2>3. ASSUME committer_state # "Done", ~CommitterGoes, NEW w \in Busy(committer_trans)
        PROVE  WriterGoes(w)
    BY <2>1, <2>3 DEF Busy, Under, WriterGoes, WakingStates, Blocking
  <2> QED BY <2>2, <2>3, SleeperIsServed DEF NobodyIsStuck
<1>2. Init => SleepersInv
  BY DEF Init, SleepersInv
<1>3. Inv /\ SleepersInv /\ [Next]_vars => SleepersInv'
  BY SleepersStep
<1> QED BY <1>1, <1>2, <1>3, Invariance, PTL DEF Spec

-----------------------------------------------------------------------------
(* Refinement.                                                             *)

Completed == {t \in Transactions : trans_state[t] = "COMPLETED"}

LEMMA LifetimeStep ==
    ASSUME Inv, [Next]_vars
    PROVE  [Lifetime!Next]_(Lifetime!vars)
<1> DEFINE users == [t \in Transactions |-> Holders(t)]
<1> SUFFICES \/ \E t \in Transactions :
                   \/ Lifetime!Free(t)
                   \/ \E w \in Writers : Lifetime!Take(t, w) \/ Lifetime!Drop(t, w)
             \/ users' = users /\ Completed' = Completed
  BY DEF Lifetime!Next, Lifetime!vars, Completed
<1>1. ASSUME NEW w \in Writers, WriterTryJoin(w) \/ WriterReset(w)
      PROVE  users' = users /\ Completed' = Completed
  BY <1>1, HoldersMove DEF Inv, WriterTryJoin, WriterReset, trans, Completed
<1>2. ASSUME NEW w \in Writers, WriterJoinSuccess(w) \/ WriterBlocked(w)
      PROVE  \E t \in Transactions : Lifetime!Take(t, w)
  <2>1. PICK t \in Transactions : t = writer_trans[w]
    BY <1>2 DEF Inv, NothingToBailOut, WriterJoinSuccess, WriterBlocked, Under
  <2>2. trans_state[t] # "COMPLETED" /\ UNCHANGED trans_state
    BY <1>2, <2>1 DEF Inv, NothingToBailOut, WriterJoinSuccess, WriterBlocked, Under
  <2> QED BY <1>2, <2>1, <2>2, HoldersMove DEF Inv, Lifetime!Take
<1>3. ASSUME NEW w \in Writers, WriterWoken(w) \/ WriterDone(w)
      PROVE  \E t \in Transactions : Lifetime!Drop(t, w)
  <2>1. PICK t \in Transactions : t = writer_trans[w]
    BY <1>3 DEF Inv, NothingToBailOut, WriterWoken, WriterDone, Under
  <2>2. UNCHANGED trans_state
    BY <1>3 DEF WriterWoken, WriterDone
  <2> QED BY <1>3, <2>1, <2>2, HoldersMove DEF Inv, Lifetime!Drop
<1>4. CASE CommitterStart \/ CommitterAdvance
  <2>1. users' = users
    BY <1>4, CommitterKeepsHolders DEF CommitterNext
  <2>2. Completed' = Completed
    BY <1>4 DEF CommitterStart, CommitterAdvance, Completed, After, Inv, TypeOK,
                  CommitInOrder, InCommit, WakingStates, Transactions
  <2> QED BY <2>1, <2>2
<1>5. CASE CommitterComplete
  <2>1. users' = users
    BY <1>5, CommitterKeepsHolders DEF CommitterNext
  <2>2. PICK t \in Transactions : t = committer_trans
    BY <1>5 DEF CommitterComplete, Inv, CommitInOrder
  <2>3. t \notin Completed /\ Completed' = Completed \cup {t}
    BY <1>5, <2>2 DEF CommitterComplete, Completed, Inv, TypeOK
  <2>4. users[t] = {}
    BY <1>5, <2>2 DEF CommitterComplete, Busy, Under, Holders
  <2>5. Lifetime!Free(t)
    BY <2>1, <2>3, <2>4 DEF Lifetime!Free, Completed
  <2> QED BY <2>5
<1>6. CASE UNCHANGED vars
  <2>1. users' = users
    BY <1>6, CommitterKeepsHolders
  <2> QED BY <1>6, <2>1 DEF vars, trans, Completed
<1> QED
  BY <1>1, <1>2, <1>3, <1>4, <1>5, <1>6 DEF Next, WriterNext, CommitterNext

\* A transaction in use is not freed, and one that was freed is not used again.
THEOREM TransactionsOutliveUsers == Spec => LifetimeSpec
<1>1. Init => Lifetime!Init
  BY DEF Init, Lifetime!Init, Holders
<1>2. Inv /\ [Next]_vars => [Lifetime!Next]_(Lifetime!vars)
  BY LifetimeStep
<1> QED BY <1>1, <1>2, InitInv, InvStep, PTL DEF Spec, LifetimeSpec, Lifetime!Spec

\* What reference counting promises of any objects: a freed one has no users,
\* stays freed and is not used again.
LEMMA LifetimePromise == LifetimeSpec => []Lifetime!FreedIsUnused /\ Lifetime!GoneForGood
<1> DEFINE users == [t \in Transactions |-> Holders(t)]
<1> USE DEF Lifetime!FreedIsUnused
<1>1. Lifetime!Init => Lifetime!FreedIsUnused
  BY DEF Lifetime!Init
<1>2. Lifetime!FreedIsUnused /\ [Lifetime!Next]_(Lifetime!vars)
         => /\ Lifetime!FreedIsUnused'
            /\ [\A o \in Completed : o \in Completed' /\ users'[o] = {}]_(Lifetime!vars)
  BY DEF Lifetime!Next, Lifetime!vars, Lifetime!Free, Lifetime!Take, Lifetime!Drop, Completed
<1> QED BY <1>1, <1>2, PTL DEF LifetimeSpec, Lifetime!Spec, Lifetime!GoneForGood, Completed

\* So it is with the chain: a completed transaction has no writer that works in
\* it or sleeps on it, and never gets one again.
THEOREM CompletedForGood == Spec => []Lifetime!FreedIsUnused /\ Lifetime!GoneForGood
BY TransactionsOutliveUsers, LifetimePromise, PTL

-----------------------------------------------------------------------------
(* Under the tracer.                                                       *)

\* Detached, the script and the checker know nobody.
OffKnowsNobody == tracer = "off" => active_tx_tids = {} /\ waiting_tids = {}

TracerState ==
    /\ tracer \in {"off", "cold", "attached", "stopped"}
    /\ handles \in {"positive", "negative"}

\* Inner starts are those of threads with a transaction.
NestedAreActive == nested \subseteq In("Active") /\ uncovered \subseteq In("Active")

TracedInv ==
    TypeOK /\ TracerState /\ OffKnowsNobody /\ NestedAreActive /\ ViewIsOpen /\ NoFalseCircle

LEMMA TracedInitInv == TracedInit => TracedInv
<1> SUFFICES ASSUME TracedInit PROVE TracedInv
  OBVIOUS
<1>1. TypeOK
  BY InitInv DEF TracedInit, Inv
<1> QED
  BY <1>1 DEF TracedInit, TracedInv, TracerState, OffKnowsNobody, NestedAreActive, ViewIsOpen,
              NoFalseCircle, Attached, In, Init

\* The traced transactions are the transactions.
LEMMA TracedIsNext == [TracedNext]_traced => [Next]_vars
BY DEF TracedNext, TracedWriter, TracedDone, TracedWoken, Nest, Unnest, TracedCommitter, Threshold,
       Attach, Stop, traced, Next, WriterNext

\* A wait starts when the waiter has no transaction open, so the threads with
\* one, if there are any, do not all wait.
LEMMA NobodyCircles ==
    ASSUME ViewIsOpen, Attached, NEW w \in Writers, writer_state[w] # "Active",
           WaitCurrentTrans_Enter(w)
    PROVE  ~AllWait
BY DEF ViewIsOpen, AllWait, WaitCurrentTrans_Enter, In

LEMMA ViewStep ==
    ASSUME TracedInv, [TracedNext]_traced
    PROVE  (TracerState /\ OffKnowsNobody /\ NestedAreActive /\ ViewIsOpen /\ NoFalseCircle)'
<1> DEFINE Goal == (TracerState /\ OffKnowsNobody /\ NestedAreActive /\ ViewIsOpen /\ NoFalseCircle)'
<1> USE DEF TracedInv, TypeOK, TracerState, OffKnowsNobody, NestedAreActive, ViewIsOpen,
            NoFalseCircle, nesting, Attached, In, checker, Observed, BecomesWriter
<1>1. ASSUME NEW w \in Writers, WriterTryJoin(w) \/ WriterReset(w), Observed(UNCHANGED checker), UNCHANGED <<nesting, handles>>
      PROVE  Goal
  BY <1>1 DEF WriterTryJoin, WriterReset
<1>2. ASSUME NEW w \in Writers, WriterJoinSuccess(w), Observed(StartTransaction_Done(w)), UNCHANGED <<nesting, handles>>
      PROVE  Goal
  BY <1>2 DEF WriterJoinSuccess, StartTransaction_Done
<1>3. ASSUME NEW w \in Writers, TracedDone(w), UNCHANGED handles PROVE Goal
  BY <1>3 DEF TracedDone, WriterDone, EndTransaction
<1>4. ASSUME NEW w \in Writers, WriterBlocked(w), Observed(WaitCurrentTrans_Enter(w)), UNCHANGED <<nesting, handles>>
      PROVE  Goal
  <2>1. Attached /\ WaitCurrentTrans_Enter(w) => ~AllWait
    BY <1>4, NobodyCircles DEF WriterBlocked
  <2>2. /\ writer_state[w] = "TryJoin" /\ writer_state' = [writer_state EXCEPT ![w] = "Blocked"]
        /\ UNCHANGED <<tracer, nesting, handles>>
    BY <1>4 DEF WriterBlocked
  <2>3. CASE Attached
    <3>1. /\ timed' = timed \cup {w} /\ waiting_tids' = waiting_tids \cup {w}
          /\ UNCHANGED <<active_tx_tids, alarms>>
      BY <1>4, <2>1, <2>3 DEF WaitCurrentTrans_Enter
    <3> QED BY <2>2, <2>3, <3>1
  <2>4. CASE ~Attached
    BY <1>4, <2>2, <2>4
  <2> QED BY <2>3, <2>4
<1>5. ASSUME NEW w \in Writers, TracedWoken(w), UNCHANGED handles PROVE Goal
  <2>1. PICK s \in {"TryJoin", "Idle"} :
           writer_state[w] = "Blocked" /\ writer_state' = [writer_state EXCEPT ![w] = s]
    BY <1>5 DEF TracedWoken, WriterWoken
  <2>2. CASE Attached
    <3>1. /\ timed' = timed \ {w} /\ waiting_tids' = waiting_tids \ {w}
          /\ UNCHANGED <<active_tx_tids, tracer, nesting, handles>>
      BY <1>5, <2>2 DEF TracedWoken, WaitCurrentTrans_Done
    <3>2. \A v : Circular # Late(v)
      BY DEF Circular, Late
    <3>3. Circular \notin alarms'
      BY <1>5, <2>2, <3>2 DEF TracedWoken, WaitCurrentTrans_Done
    <3> QED BY <2>1, <2>2, <3>1, <3>3
  <2>3. CASE ~Attached
    BY <1>5, <2>1, <2>3 DEF TracedWoken
  <2> QED BY <2>2, <2>3
<1>6. ASSUME TracedCommitter, UNCHANGED handles PROVE Goal
  BY <1>6, CommitterKeepsHolders DEF TracedCommitter, writer
<1>7. ASSUME NEW w \in Writers, Threshold(w), UNCHANGED handles PROVE Goal
  BY <1>7 DEF Threshold, vars, writer
<1>8. CASE (Attach \/ Stop) /\ UNCHANGED handles
  BY <1>8 DEF Attach, Stop, vars, writer
<1>9. ASSUME NEW w \in Writers, Nest(w), UNCHANGED handles PROVE Goal
  BY <1>9 DEF Nest, StartTransaction_Done, vars, writer
<1>10. ASSUME NEW w \in Writers, Unnest(w), UNCHANGED handles PROVE Goal
  BY <1>10 DEF Unnest, EndTransaction, vars, writer
<1>11. CASE UNCHANGED traced
  BY <1>11 DEF traced, vars, writer
<1> QED
  BY <1>1, <1>2, <1>3, <1>4, <1>5, <1>6, <1>7, <1>8, <1>9, <1>10, <1>11
  DEF TracedNext, TracedWriter

LEMMA TracedInvariance == TracedSpec => [](Inv /\ TracedInv)
<1>1. TracedInit => Inv /\ TracedInv
  BY TracedInitInv, InitInv DEF TracedInit
<1>2. Inv /\ TracedInv /\ [TracedNext]_traced => (Inv /\ TracedInv)'
  <2> SUFFICES ASSUME Inv, TracedInv, [TracedNext]_traced PROVE (Inv /\ TracedInv)'
    OBVIOUS
  <2>1. Inv'
    BY TracedIsNext, InvStep
  <2>2. TypeOK'
    BY <2>1 DEF Inv
  <2> QED BY <2>1, <2>2, ViewStep DEF TracedInv
<1> QED BY <1>1, <1>2, PTL DEF TracedSpec

\* What the checker takes for open transactions and for waits are that.
THEOREM ViewsAreOpen == TracedSpec => []ViewIsOpen
<1>1. TracedInv => ViewIsOpen
  BY DEF TracedInv
<1> QED BY <1>1, TracedInvariance, PTL

\* The circular-wait rule never fires on chained transactions.
THEOREM NoCircleIsReported == TracedSpec => []NoFalseCircle
<1>1. TracedInv => NoFalseCircle
  BY DEF TracedInv
<1> QED BY <1>1, TracedInvariance, PTL

\* Alarms come from waits that begin, and those are of the other rule, or that end.
LEMMA AlarmsOfWaits ==
    ASSUME TracedInv, [TracedNext]_traced, ~\E v \in Writers : TracedWoken(v)
    PROVE  /\ UNCHANGED alarms
           /\ overdue \subseteq overdue' /\ timed \subseteq timed'
<1> USE DEF checker, Observed, TracedInv
<1>1. ASSUME NEW w \in Writers, WriterBlocked(w), Observed(WaitCurrentTrans_Enter(w))
      PROVE  UNCHANGED <<alarms, overdue>> /\ timed \subseteq timed'
  <2>1. Attached /\ WaitCurrentTrans_Enter(w) => ~AllWait
    BY <1>1, NobodyCircles DEF WriterBlocked
  <2> QED BY <1>1, <2>1 DEF WaitCurrentTrans_Enter
<1>2. ASSUME NEW w \in Writers, TracedDone(w) \/ Nest(w) \/ Unnest(w)
      PROVE  UNCHANGED <<alarms, overdue, timed>>
  BY <1>2 DEF TracedDone, Nest, Unnest, EndTransaction, StartTransaction_Done
<1>3. ASSUME NEW w \in Writers, TracedWriter(w)
      PROVE  \/ WriterBlocked(w) /\ Observed(WaitCurrentTrans_Enter(w))
             \/ UNCHANGED <<alarms, overdue, timed>>
  BY <1>3 DEF TracedWriter, StartTransaction_Done
<1>4. ASSUME NEW w \in Writers, Threshold(w)
      PROVE  UNCHANGED <<alarms, timed>> /\ overdue \subseteq overdue'
  BY <1>4 DEF Threshold
<1>5. CASE TracedCommitter \/ Attach \/ Stop
  BY <1>5 DEF TracedCommitter, Attach, Stop
<1>6. CASE UNCHANGED traced
  BY <1>6 DEF traced
<1> QED BY <1>1, <1>2, <1>3, <1>4, <1>5, <1>6 DEF TracedNext

\* The thirty-second rule tells the truth, and at the first moment at which the
\* script can.
THEOREM LateIsToldAtTheEnd == TracedSpec => LateWhenItEnds
<1> DEFINE Step ==
      \A w \in Writers :
          /\ Late(w) \in alarms' \ alarms =>
                w \in overdue \cap timed /\ writer_state[w] = "Blocked" /\ writer_state'[w] # "Blocked"
          /\ Attached /\ w \in overdue \cap timed =>
                w \in overdue' \cap timed' \/ Late(w) \in alarms'
<1>1. TracedInv /\ [TracedNext]_traced => [Step]_traced
  <2> SUFFICES ASSUME TracedInv, [TracedNext]_traced, NEW w \in Writers
               PROVE  /\ Late(w) \in alarms' \ alarms =>
                            w \in overdue \cap timed /\ writer_state[w] = "Blocked" /\ writer_state'[w] # "Blocked"
                      /\ Attached /\ w \in overdue \cap timed =>
                            w \in overdue' \cap timed' \/ Late(w) \in alarms'
    OBVIOUS
  <2>1. ASSUME NEW v \in Writers, TracedWoken(v)
        PROVE  /\ Late(w) \in alarms' \ alarms =>
                     w \in overdue \cap timed /\ writer_state[w] = "Blocked" /\ writer_state'[w] # "Blocked"
               /\ Attached /\ w \in overdue \cap timed =>
                     w \in overdue' \cap timed' \/ Late(w) \in alarms'
    <3>1. writer_state[v] = "Blocked" /\ writer_state'[v] # "Blocked" /\ overdue' = overdue \ {v}
      BY <2>1 DEF TracedWoken, WriterWoken, BecomesWriter, TracedInv, TypeOK
    <3>2. \A u : Late(u) = Late(w) => u = w
      BY DEF Late
    <3>3. CASE Attached
      <4>1. /\ timed' = timed \ {v}
            /\ alarms' = alarms \cup {Late(u) : u \in {v} \cap timed \cap overdue}
        BY <2>1, <3>3 DEF TracedWoken, WaitCurrentTrans_Done
      <4> QED BY <3>1, <3>2, <4>1
    <3>4. CASE ~Attached
      BY <2>1, <3>4 DEF TracedWoken, checker
    <3> QED BY <3>3, <3>4
  <2>2. CASE ~\E v \in Writers : TracedWoken(v)
    BY <2>2, AlarmsOfWaits
  <2> QED BY <2>1, <2>2
<1> QED BY <1>1, TracedInvariance, PTL DEF TracedSpec, LateWhenItEnds

\* The tracer and the time that passes add no behaviour of the transactions, so
\* that their reference counts stay exact under it.
THEOREM TracingIsPassive == TracedSpec => Spec
<1>1. TracedInit => Init
  BY DEF TracedInit
<1> QED BY <1>1, TracedIsNext, PTL DEF TracedSpec, Spec
=============================================================================
