---------------------------- MODULE TornCheckpoint ----------------------------
(***************************************************************************)
(* A KeywordCheckpoint is two things to store, a blob and a list of keys,  *)
(* and restore() is handed the two apart (src/server/restore.rs).  Here    *)
(* the process may stop between storing one and the other, so that the     *)
(* server is restored from halves of two checkpoints; the lengths are all  *)
(* that is compared.                                                       *)
(***************************************************************************)
EXTENDS EthPirServer

CONSTANT MaxStops   \* bound: restarts

ASSUME StopsAssumption == MaxStops \in Nat

VARIABLES
  earlier,   \* a checkpoint stored before saved, or None
  stops      \* restarts so far

tornVars == <<vars, earlier, stops>>
-------------------------------------------------------------------------------
\* restore with the directory of one checkpoint and the keys of another.
RestoreTorn(map) ==
  /\ stops < MaxStops
  /\ saved # None /\ earlier # None
  /\ \/ RestoreFrom(saved.directory, earlier.keys, map)
     \/ RestoreFrom(earlier.directory, saved.keys, map)
  /\ stops' = stops + 1
  /\ UNCHANGED <<saved, earlier>>

\* A checkpoint replaces the last one, which it may keep as the earlier one.
TornNext ==
  \/ (ServerRuns \/ Install) /\ UNCHANGED <<earlier, stops>>
  \/ TakeCheckpoint /\ earlier' = saved /\ UNCHANGED stops
  \/ \E map \in UserMap : RestoreTorn(map)

TornInit == Init /\ earlier = None /\ stops = 0

TornSpec == TornInit /\ [][TornNext]_tornVars
-------------------------------------------------------------------------------
(***************************************************************************)
(* TornHoldsBook: a server restored from halves of two checkpoints answers *)
(* for every address but the zero one as the map does all the same: a key  *)
(* placed where the MPHF does not send it is missed by is_restored_record  *)
(* and appended again, and the copy left behind loses against the appended *)
(* record when the index is rebuilt from the records.                      *)
(***************************************************************************)
TornHoldsBook == HoldsBook
=============================================================================
