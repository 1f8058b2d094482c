------------------------------- MODULE Records -------------------------------
(***************************************************************************)
(* The plaintext records of an EthPirServer and the functions that build   *)
(* them: src/lib.rs (a record), src/server/records.rs (the bulk loops),    *)
(* src/server/core.rs and rebuild.rs (scatter), src/server/restore.rs      *)
(* (checkpoint and restore).                                               *)
(*                                                                         *)
(* A record is 20 bytes of address and 44 bytes written by the codec.  A   *)
(* zeroed record is a record like any other: it carries the address whose  *)
(* bytes are all zero and the value the codec reads in 44 zero bytes.  The *)
(* code uses the zero address as its sign for "vacant slot", and nothing   *)
(* but the address bytes tells a vacant slot from a record.                *)
(*                                                                         *)
(* records is a sequence: slot s of the code is records[s + 1].            *)
(***************************************************************************)
EXTENDS KeywordDirectory, SequencesExt

CONSTANTS
  ZeroAddress,  \* [0u8; 20], an address an application may well use
  Value,        \* RecordCodec::Value
  ZeroValue,    \* what C::decode reads in a zeroed payload
  None          \* "no entry" of a HashMap; also "no checkpoint" and the like

ASSUME ZeroAssumption == ZeroAddress \in Address /\ ZeroValue \in Value
ASSUME NoneAssumption == None \notin Value

NonZero == Address \ {ZeroAddress}

Record == [addr : Address, value : Value]

\* record_of: decode(encode(value)) = value, so a record keeps its value.
RecordOf(a, v) == [addr |-> a, value |-> v]

ZeroRecord == RecordOf(ZeroAddress, ZeroValue)

\* HashMap<Address, C::Value>, as a total function.
Map == [Address -> Value \cup {None}]

Keys(map) == {a \in Address : map[a] # None}

(***************************************************************************)
(* The record at the slot an address resolves to, when it is that of the   *)
(* address: the test of update, is_restored_record and try_decrypt.        *)
(***************************************************************************)
Carries(directory, records, a) ==
  LET s == Index(directory, a) IN
    s < Len(records) /\ records[s + 1].addr = a

\* Variant of TryDecrypt that takes any record for that of the address.
DecryptUnchecked(record, addr) == record.value

\* What try_decrypt makes of the record it decodes; None is NotInSet.
TryDecrypt(record, addr) == IF record.addr = addr THEN record.value ELSE None

(***************************************************************************)
(* zeroed_records, then scatter_records: each key's record at the slot the *)
(* MPHF gives it.                                                          *)
(***************************************************************************)
ScatterRecords(directory, map) ==
  [ i \in 1 .. directory.base |->
      LET a == CHOOSE k \in Keys(map) : directory.mphf[k] = i - 1
      IN  RecordOf(a, map[a]) ]

\* Variant of RecordsToMap that takes a zeroed payload for a vacant slot.
RecordsToMapByPayload(records) ==
  [ a \in Address |->
      LET at == {i \in 1 .. Len(records) : records[i].addr = a
                                           /\ records[i].value # ZeroValue} IN
      IF at = {} THEN None
      ELSE records[CHOOSE i \in at : \A j \in at : j <= i].value ]

\* Variant of RecordsToMap that keeps the first record of an address.
RecordsToMapEarliest(records) ==
  [ a \in Address |->
      LET at == {i \in 1 .. Len(records) : records[i].addr = a} IN
      IF at = {} THEN None
      ELSE records[CHOOSE i \in at : \A j \in at : i <= j].value ]

\* records_to_map: a later record replaces an earlier one of the same address.
RecordsToMap(records) ==
  [ a \in Address |->
      LET at == {i \in 1 .. Len(records) : records[i].addr = a} IN
      IF at = {} THEN None
      ELSE records[CHOOSE i \in at : \A j \in at : j <= i].value ]

\* checkpoint_keys(&self.records[..mphf_len])
CheckpointKeys(directory, records) ==
  [i \in 1 .. directory.base |-> records[i].addr]

\* Variant of PlacedRecords that zeroes as many records as the MPHF has slots.
PlacedInMphfSlots(directory, keys, map) ==
  [ i \in 1 .. directory.base |->
      IF map[keys[i]] # None /\ keys[i] # ZeroAddress
      THEN RecordOf(keys[i], map[keys[i]])
      ELSE ZeroRecord ]

(***************************************************************************)
(* zeroed_records(directory.len()), place_checkpoint_slots over the MPHF's *)
(* slots and place_delta_slots over the delta's.  Only the first refuses   *)
(* to place the zero address.                                              *)
(***************************************************************************)
PlacedRecords(directory, keys, map) ==
  [ i \in 1 .. DirectoryLen(directory) |->
      LET inBase == i <= directory.base
          a == IF inBase THEN keys[i] ELSE directory.delta[i - directory.base]
      IN  IF map[a] # None /\ ~(inBase /\ a = ZeroAddress)
          THEN RecordOf(a, map[a])
          ELSE ZeroRecord ]

\* Variant of KeysToAppend that takes any slot in use for the address's own.
KeysPastRecords(directory, placed, map) ==
  {a \in Keys(map) : Index(directory, a) >= Len(placed)}

\* Variant of KeysToAppend that leaves it to push to refuse known addresses.
KeysOutsideDelta(directory, placed, map) ==
  {a \in Keys(map) : ~InDelta(directory, a)}

\* The addresses append_new_slots pushes: those is_restored_record misses.
KeysToAppend(directory, placed, map) ==
  {a \in Keys(map) : ~Carries(directory, placed, a)}

(***************************************************************************)
(* The RestoreReport of a restore: the slots of the MPHF and of the delta  *)
(* that got their record, the keys appended, and the slots of the MPHF     *)
(* left vacant.                                                            *)
(***************************************************************************)
Report(directory, keys, map) ==
  LET placed == PlacedRecords(directory, keys, map)
      inMphf == { i \in 1 .. directory.base :
                    placed[i].addr = keys[i] /\ keys[i] # ZeroAddress }
      inDelta == { a \in Keys(map) : Index(directory, a) >= directory.base }
  IN  [ placed |-> Cardinality(inMphf) + Cardinality(inDelta),
        appended |-> Cardinality(KeysToAppend(directory, placed, map)),
        vacant |-> Cardinality({ i \in 1 .. directory.base :
                                   keys[i] = ZeroAddress \/ map[keys[i]] = None }) ]

\* The records append_new_slots pushes, meeting the new keys in some order.
RecordsOf(order, map) ==
  [i \in 1 .. Len(order) |-> RecordOf(order[i], map[order[i]])]
-------------------------------------------------------------------------------
(***************************************************************************)
(* What a directory and the records, or the keys of a checkpoint, owe each *)
(* other: an address that is not the zero address stands where the         *)
(* directory says, so it stands nowhere else.                              *)
(***************************************************************************)
RecordsPlaced(directory, records) ==
  \A i \in 1 .. Len(records) :
    records[i].addr \in NonZero => Index(directory, records[i].addr) = i - 1

KeysPlaced(directory, keys) ==
  /\ Len(keys) = directory.base
  /\ \A i \in 1 .. Len(keys) :
       keys[i] \in NonZero => Index(directory, keys[i]) = i - 1

\* The map entry an address has in the records, through the directory.
Held(directory, records, a) ==
  IF Carries(directory, records, a)
  THEN records[Index(directory, a) + 1].value
  ELSE None

\* The records answer for every address but the zero one as the map does.
Holds(directory, records, map) ==
  \A a \in NonZero : Held(directory, records, a) = map[a]

\* The records list the map: all it says of an address, and nothing else.
Lists(records, map) ==
  /\ \A i \in 1 .. Len(records) :
       records[i].addr \in NonZero =>
         map[records[i].addr] = records[i].value
  /\ \A a \in NonZero :
       map[a] # None => \E i \in 1 .. Len(records) : records[i].addr = a

\* One record per slot, each where the directory says, listing the map.
Sound(directory, records, map) ==
  /\ directory \in Directory
  /\ records \in Seq(Record)
  /\ Len(records) = DirectoryLen(directory)
  /\ RecordsPlaced(directory, records)
  /\ Lists(records, map)
=============================================================================
