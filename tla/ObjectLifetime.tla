---------------------------- MODULE ObjectLifetime ----------------------------
(***************************************************************************)
(* What reference counting promises: an object that is in use is not       *)
(* freed, and one that was freed is not used again.                        *)
(***************************************************************************)
CONSTANTS Objects, Users

VARIABLES
    users,  \* for each object, who uses it
    freed   \* the objects that are gone

vars == <<users, freed>>

Init == users = [o \in Objects |-> {}] /\ freed = {}

Take(o, u) ==
    /\ o \notin freed /\ u \notin users[o]
    /\ users' = [users EXCEPT ![o] = @ \cup {u}]
    /\ UNCHANGED freed

Drop(o, u) ==
    /\ u \in users[o]
    /\ users' = [users EXCEPT ![o] = @ \ {u}]
    /\ UNCHANGED freed

Free(o) ==
    /\ o \notin freed /\ users[o] = {}
    /\ freed' = freed \cup {o}
    /\ UNCHANGED users

Next == \E o \in Objects : Free(o) \/ \E u \in Users : Take(o, u) \/ Drop(o, u)

Spec == Init /\ [][Next]_vars

\* An object that is gone has no users.
FreedIsUnused == \A o \in freed : users[o] = {}

\* It stays gone, and nobody comes to use it.
GoneForGood == [][\A o \in freed : o \in freed' /\ users'[o] = {}]_vars
=============================================================================
