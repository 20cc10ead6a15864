----------------------------- MODULE MCTraceTools -----------------------------
(***************************************************************************)
(* An instance of the trace tools for TLC.                                 *)
(***************************************************************************)
EXTENDS TraceTools, TLC

CONSTANTS t1, t2, k1, f1, f2

TwoThreads == {t1, t2}
OneKWorker == {k1}
TwoFileSystems == {f1, f2}
Symmetry == Permutations(TwoThreads) \cup Permutations(TwoFileSystems)
=============================================================================
