---------------------------- MODULE MCEthPirExample ----------------------------
(***************************************************************************)
(* EthPirExample with a few addresses in place of its millions, for TLC.   *)
(***************************************************************************)
EXTENDS EthPirExample

CONSTANTS zero, a1, a2, a3, v0, v1
=============================================================================
