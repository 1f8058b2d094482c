---------------------------- MODULE MCBulkRecords -----------------------------
(***************************************************************************)
(* BulkRecords on a few lengths, for TLC.                                  *)
(***************************************************************************)
EXTENDS BulkRecords
=============================================================================
