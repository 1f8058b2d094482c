--------------------------- MODULE MCTornCheckpoint ---------------------------
(***************************************************************************)
(* TornCheckpoint on a small instance, for TLC.                            *)
(***************************************************************************)
EXTENDS TornCheckpoint

CONSTANTS zero, a1, a2, a3, v0, v1

\* Addresses other than the zero address are interchangeable.
AddressSymmetry == Permutations(NonZero)
=============================================================================
