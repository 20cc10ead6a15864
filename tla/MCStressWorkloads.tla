-------------------------- MODULE MCStressWorkloads --------------------------
(***************************************************************************)
(* Instances of the workloads for TLC.                                     *)
(***************************************************************************)
EXTENDS StressWorkloads

Rounds == [w \in Workloads |-> CASE w \in {"fsync", "chain"} -> 2 [] w = "space" -> 4 [] OTHER -> 3]

HalfFullOrMore == {2, 5}

TwoFiles   == {"f1", "f2"}
ThreeNames == {"n1", "n2", "n3"}
FourNames  == {"n1", "n2", "n3", "n4"}
=============================================================================
