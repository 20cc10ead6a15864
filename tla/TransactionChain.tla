--------------------------- MODULE TransactionChain ---------------------------
(***************************************************************************)
(* Two chained btrfs transactions.  Writers join the current transaction   *)
(* and hold a reference to it while they work; one committer takes the     *)
(* first transaction and then the second through the commit states.  A     *)
(* writer that comes too late sleeps on the old transaction, with a        *)
(* reference, and is handed over to the new one.                           *)
(*                                                                         *)
(* There is no aborter here, so COMPLETED is the only terminal state.  Two *)
(* steps of the source can then never be taken and have no action: a       *)
(* joining writer's bail-out and the committer's return to idle            *)
(* (NothingToBailOut).                                                     *)
(***************************************************************************)
EXTENDS Naturals, FiniteSets

CONSTANTS
    Writers,
    MaxOps      \* joins attempted in all

ASSUME WritersAssumption == IsFiniteSet(Writers)
ASSUME MaxOpsAssumption == MaxOps \in Nat

VARIABLES
    trans_state, trans_refcount,        \* by transaction
    writer_state, writer_trans,         \* by writer; 0 is no transaction
    committer_state, committer_trans,
    ops_count

trans     == <<trans_state, trans_refcount>>
writer    == <<writer_state, writer_trans>>
committer == <<committer_state, committer_trans>>
vars      == <<trans, writer, committer, ops_count>>

Transactions == {1, 2}

\* The commit states in the order in which they are passed.
After ==
    [RUNNING |-> "COMMIT_PREP", COMMIT_PREP |-> "COMMIT_START",
     COMMIT_START |-> "COMMIT_DOING", COMMIT_DOING |-> "UNBLOCKED",
     UNBLOCKED |-> "SUPER_COMMITTED"]

TransStates == DOMAIN After \cup {"NONE", "SUPER_COMMITTED", "COMPLETED"}

TypeOK ==
    /\ trans_state \in [Transactions -> TransStates]
    /\ trans_refcount \in [Transactions -> Nat]
    /\ writer_state \in [Writers -> {"Idle", "TryJoin", "Active", "Blocked", "Done"}]
    /\ writer_trans \in [Writers -> Transactions \cup {0}]
    /\ committer_state \in {"Idle", "Committing", "Done"}
    /\ committer_trans \in Transactions \cup {0}
    /\ ops_count \in 0..MaxOps

Init ==
    /\ trans_state = [t \in Transactions |-> IF t = 1 THEN "RUNNING" ELSE "NONE"]
    /\ trans_refcount = [t \in Transactions |-> 0]
    /\ writer_state = [w \in Writers |-> "Idle"]
    /\ writer_trans = [w \in Writers |-> 0]
    /\ committer_state = "Idle" /\ committer_trans = 0
    /\ ops_count = 0

Exists(t) == trans_state[t] # "NONE"

CurrentTrans == IF trans_state[2] \notin {"NONE", "COMPLETED"} THEN 2 ELSE 1

Joinable == {"RUNNING", "COMMIT_PREP", "COMMIT_START"}
Blocking == {"COMMIT_DOING", "UNBLOCKED", "SUPER_COMMITTED"}

-----------------------------------------------------------------------------
(* Writers.                                                                *)

BecomesWriter(w, state) == writer_state' = [writer_state EXCEPT ![w] = state]

WriterTryJoin(w) ==
    /\ writer_state[w] = "Idle" /\ ops_count < MaxOps
    /\ trans_state[CurrentTrans] # "COMPLETED"
    /\ BecomesWriter(w, "TryJoin")
    /\ writer_trans' = [writer_trans EXCEPT ![w] = CurrentTrans]
    /\ ops_count' = ops_count + 1
    /\ UNCHANGED <<trans, committer>>

Get(t) == trans_refcount' = [trans_refcount EXCEPT ![t] = @ + 1]
Put(t) == trans_refcount' = [trans_refcount EXCEPT ![t] = @ - 1]

WriterJoinSuccess(w) ==
    /\ writer_state[w] = "TryJoin" /\ trans_state[writer_trans[w]] \in Joinable
    /\ Get(writer_trans[w])
    /\ BecomesWriter(w, "Active")
    /\ UNCHANGED <<trans_state, writer_trans, committer, ops_count>>

\* wait_current_trans: the sleeper keeps the transaction alive.
WriterBlocked(w) ==
    /\ writer_state[w] = "TryJoin" /\ trans_state[writer_trans[w]] \in Blocking
    /\ Get(writer_trans[w])
    /\ BecomesWriter(w, "Blocked")
    /\ UNCHANGED <<trans_state, writer_trans, committer, ops_count>>

\* Mutant: the sleeper waits for the transaction to complete.
WakingStatesLate == {"COMPLETED"}

WakingStates == {"UNBLOCKED", "SUPER_COMMITTED", "COMPLETED"}

\* Mutant: the hand-over forgets the old transaction's reference.
WriterWokenLeaks(w) ==
    /\ writer_state[w] = "Blocked" /\ trans_state[writer_trans[w]] \in WakingStates
    /\ LET chained == writer_trans[w] = 1 /\ Exists(2)
       IN  /\ BecomesWriter(w, IF chained THEN "TryJoin" ELSE "Idle")
           /\ writer_trans' = [writer_trans EXCEPT ![w] = IF chained THEN 2 ELSE @]
    /\ UNCHANGED <<trans, committer, ops_count>>

\* The hand-over: back to joining on the second transaction, if the writer
\* slept on the first, and otherwise it gives up.
WriterWoken(w) ==
    /\ writer_state[w] = "Blocked" /\ trans_state[writer_trans[w]] \in WakingStates
    /\ Put(writer_trans[w])
    /\ LET chained == writer_trans[w] = 1 /\ Exists(2)
       IN  /\ BecomesWriter(w, IF chained THEN "TryJoin" ELSE "Idle")
           /\ writer_trans' = [writer_trans EXCEPT ![w] = IF chained THEN 2 ELSE @]
    /\ UNCHANGED <<trans_state, committer, ops_count>>

WriterDone(w) ==
    /\ writer_state[w] = "Active"
    /\ Put(writer_trans[w])
    /\ BecomesWriter(w, "Done")
    /\ UNCHANGED <<trans_state, writer_trans, committer, ops_count>>

WriterReset(w) ==
    /\ writer_state[w] = "Done"
    /\ BecomesWriter(w, "Idle")
    /\ writer_trans' = [writer_trans EXCEPT ![w] = 0]
    /\ UNCHANGED <<trans, committer, ops_count>>

-----------------------------------------------------------------------------
(* The committer.                                                          *)

CommitterStart ==
    /\ committer_state = "Idle" /\ trans_state[1] = "RUNNING"
    /\ committer_state' = "Committing" /\ committer_trans' = 1
    /\ trans_state' = [trans_state EXCEPT ![1] = After[@]]
    /\ UNCHANGED <<trans_refcount, writer, ops_count>>

\* Mutant: the second transaction begins one state too early.
CommitterAdvanceEarly ==
    LET t == committer_trans
        opens == t = 1 /\ trans_state[t] = "COMMIT_PREP"
    IN  /\ committer_state = "Committing" /\ trans_state[t] \in DOMAIN After
        /\ trans_state' = [trans_state EXCEPT ![t] = After[@],
                                              ![2] = IF opens THEN "RUNNING"
                                                     ELSE IF t = 2 THEN After[@] ELSE @]
        /\ UNCHANGED <<trans_refcount, writer, committer, ops_count>>

\* One state further; the second transaction begins when the first unblocks.
CommitterAdvance ==
    LET t == committer_trans
        opens == t = 1 /\ trans_state[t] = "COMMIT_DOING"
    IN  /\ committer_state = "Committing" /\ trans_state[t] \in DOMAIN After
        /\ trans_state' = [u \in Transactions |-> CASE u = t -> After[trans_state[t]]
                                                    [] u # t /\ opens -> "RUNNING"
                                                    [] OTHER -> trans_state[u]]
        /\ UNCHANGED <<trans_refcount, writer, committer, ops_count>>

Under == {"TryJoin", "Active", "Blocked"}

Busy(t) == {w \in Writers : writer_state[w] \in Under /\ writer_trans[w] = t}

\* Mutant: the transaction goes as soon as its super block is written.
CommitterCompleteAtOnce ==
    LET t == committer_trans
        chained == t = 1 /\ Exists(2)
    IN  /\ committer_state = "Committing" /\ trans_state[t] = "SUPER_COMMITTED"
        /\ trans_state' = [trans_state EXCEPT ![t] = "COMPLETED"]
        /\ committer_state' = IF chained THEN "Committing" ELSE "Done"
        /\ committer_trans' = IF chained THEN 2 ELSE 0
        /\ UNCHANGED <<trans_refcount, writer, ops_count>>

\* On to the second transaction, or done.
CommitterComplete ==
    LET t == committer_trans
        chained == t = 1 /\ Exists(2)
    IN  /\ committer_state = "Committing" /\ trans_state[t] = "SUPER_COMMITTED"
        /\ trans_refcount[t] = 0 /\ Busy(t) = {}
        /\ trans_state' = [trans_state EXCEPT ![t] = "COMPLETED"]
        /\ committer_state' = IF chained THEN "Committing" ELSE "Done"
        /\ committer_trans' = IF chained THEN 2 ELSE 0
        /\ UNCHANGED <<trans_refcount, writer, ops_count>>

WriterNext(w) ==
    \/ WriterTryJoin(w) \/ WriterJoinSuccess(w) \/ WriterBlocked(w)
    \/ WriterWoken(w) \/ WriterDone(w) \/ WriterReset(w)

CommitterNext == CommitterStart \/ CommitterAdvance \/ CommitterComplete

Next == CommitterNext \/ \E w \in Writers : WriterNext(w)

Spec == Init /\ [][Next]_vars

\* The kernel thread commits sooner or later and goes on with it; a writer
\* that has begun goes on.  Nobody has to begin.
Fairness ==
    /\ WF_vars(CommitterNext)
    /\ \A w \in Writers : WF_vars(WriterJoinSuccess(w) \/ WriterBlocked(w)
                                  \/ WriterWoken(w) \/ WriterDone(w))

FairSpec == Spec /\ Fairness

-----------------------------------------------------------------------------
(* Properties.                                                             *)

Holders(t) == {w \in Writers : writer_state[w] \in {"Active", "Blocked"}
                               /\ writer_trans[w] = t}

\* The count is the number of writers that work in a transaction or sleep on
\* it: the hand-over neither leaks a reference nor drops one too many.
RefcountIsExact == \A t \in Transactions : trans_refcount[t] = Cardinality(Holders(t))

\* Chaining keeps the transactions apart: the second begins when the first
\* can no longer be joined, so no two writers ever join different ones.
OneIsJoinable ==
    /\ Exists(2) => trans_state[1] \in WakingStates
    /\ \A w, v \in Writers :
          /\ writer_state[w] = "TryJoin" /\ trans_state[writer_trans[w]] \in Joinable
          /\ writer_state[v] = "TryJoin" /\ trans_state[writer_trans[v]] \in Joinable
          => writer_trans[w] = writer_trans[v]

\* What a writer joins, works in or sleeps on is there and not completed, and
\* a committer that is done has committed both.
NothingToBailOut ==
    /\ \A w \in Writers :
          writer_state[w] \in Under =>
              /\ writer_trans[w] \in Transactions
              /\ trans_state[writer_trans[w]] \notin {"NONE", "COMPLETED"}
    /\ committer_state = "Done" => \A t \in Transactions : trans_state[t] = "COMPLETED"

\* What a writer, and the committer, need to take their next step.
WriterGoes(w) ==
    \/ writer_state[w] = "Active"
    \/ writer_state[w] = "TryJoin" /\ trans_state[writer_trans[w]] \in Joinable \cup Blocking
    \/ writer_state[w] = "Blocked" /\ trans_state[writer_trans[w]] \in WakingStates

CommitterGoes ==
    \/ committer_state = "Idle" /\ trans_state[1] = "RUNNING"
    \/ /\ committer_state = "Committing"
       /\ \/ trans_state[committer_trans] \in DOMAIN After
          \/ /\ trans_state[committer_trans] = "SUPER_COMMITTED"
             /\ trans_refcount[committer_trans] = 0 /\ Busy(committer_trans) = {}

\* The wait of wait_current_trans never closes a circle: a sleeper sleeps on the
\* transaction that the committer has in hand and can take further, and the
\* committer waits only for writers that are there and can all go on.
NobodyIsStuck ==
    /\ \A w \in Writers :
          writer_state[w] \in Under =>
              WriterGoes(w) \/ (committer_trans = writer_trans[w] /\ CommitterGoes)
    /\ committer_state # "Done" =>
          \/ CommitterGoes
          \/ Busy(committer_trans) # {} /\ \A w \in Busy(committer_trans) : WriterGoes(w)

\* A transaction is freed once nobody refers to it, and is not used again.
Lifetime == INSTANCE ObjectLifetime
                WITH Objects <- Transactions, Users <- Writers,
                     users <- [t \in Transactions |-> Holders(t)],
                     freed <- {t \in Transactions : trans_state[t] = "COMPLETED"}
LifetimeSpec == Lifetime!Spec

\* The first transaction completes and its successor is taken up, however the
\* writers come and go.  (The second completes only because MaxOps bounds the
\* joins: new ones can be blocked and woken on it for ever.)
FirstCompletes == <>(trans_state[1] = "COMPLETED" /\ committer_trans = 2)
=============================================================================
