--------------------------- MODULE QgroupTreeAccess ---------------------------
(***************************************************************************)
(* What qgroup_lock promises about the qgroup tree: a task walks it or     *)
(* frees its records, and while it does nobody else does either.           *)
(***************************************************************************)
CONSTANT Tasks

VARIABLES walking, freeing   \* the sets of tasks that walk and that free

vars == <<walking, freeing>>

Init == walking = {} /\ freeing = {}

Unused == walking = {} /\ freeing = {}

BeginWalk(t) == Unused /\ walking' = {t} /\ UNCHANGED freeing
EndWalk(t)   == walking = {t} /\ walking' = {} /\ UNCHANGED freeing
BeginFree(t) == Unused /\ freeing' = {t} /\ UNCHANGED walking
EndFree(t)   == freeing = {t} /\ freeing' = {} /\ UNCHANGED walking

Next == \E t \in Tasks : BeginWalk(t) \/ EndWalk(t) \/ BeginFree(t) \/ EndFree(t)

Spec == Init /\ [][Next]_vars

\* At most one task is inside the tree, and it walks or it frees.
Exclusive ==
    /\ \A t, u \in walking \cup freeing : t = u
    /\ walking \cap freeing = {}
=============================================================================
