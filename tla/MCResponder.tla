------------------------------ MODULE MCResponder ------------------------------
(***************************************************************************)
(* Responder with a few threads, for TLC.                                  *)
(***************************************************************************)
EXTENDS ResponderRefinesAtomic, TLC

CONSTANTS t1, t2, t3

ThreadSymmetry == Permutations(Thread)
=============================================================================
