---------------------------- MODULE MCTraceHarness ----------------------------
(***************************************************************************)
(* An instance of the harness for TLC.                                     *)
(***************************************************************************)
EXTENDS TraceHarness

CONSTANTS c1, c2

TwoCPUs == {c1, c2}
=============================================================================
