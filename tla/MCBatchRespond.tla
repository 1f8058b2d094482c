----------------------------- MODULE MCBatchRespond -----------------------------
(***************************************************************************)
(* BatchRespond on batches of a few queries, for TLC.                      *)
(***************************************************************************)
EXTENDS BatchRespond

CONSTANTS q1, q2, bad
=============================================================================
