---------------------------- MODULE MCEthPirServer ----------------------------
(***************************************************************************)
(* EthPirServer on small instances, for TLC.                               *)
(***************************************************************************)
EXTENDS ServerRefinesBook

CONSTANTS zero, a1, a2, a3, v0, v1

\* Addresses other than the zero address are interchangeable.
AddressSymmetry == Permutations(NonZero)
=============================================================================
