------------------------- MODULE MCTransactionTracing -------------------------
(***************************************************************************)
(* Instances of the traced transactions for TLC.                           *)
(***************************************************************************)
EXTENDS TransactionTracing

CONSTANTS w1, w2

TwoWriters == {w1, w2}
=============================================================================
