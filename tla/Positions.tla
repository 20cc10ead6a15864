------------------------------- MODULE Positions -------------------------------
(***************************************************************************)
(* Sequences in the order of numbers: of times, or of places in a trace.   *)
(* They say what a sort or a filter leaves, not how.                       *)
(***************************************************************************)
EXTENDS Integers, Sequences, FiniteSets

\* The numbers of P from the least on: the k-th has k of them up to it.
Ascending(P) ==
    [k \in 1..Cardinality(P) |-> CHOOSE i \in P : Cardinality({j \in P : j <= i}) = k]

\* What s has at the places of P, in its order.
Pick(s, P) == LET at == Ascending(P) IN [k \in DOMAIN at |-> s[at[k]]]
=============================================================================
