-------------------------- MODULE EthPirServerProofs --------------------------
(***************************************************************************)
(* The invariants of EthPirServer, for every value of its constants.       *)
(* Inductive holds of the initial states and is kept by every action; the  *)
(* invariants a reader cares about follow from it, and so do that the      *)
(* server is an AddressBook to its user, where the directory finds what is *)
(* served between two calls, and that an address keeps its slot.           *)
(***************************************************************************)
EXTENDS ServerRefinesBook, RecordsProofs

\* What an encoded buffer holds, when the records are sound.
LEMMA EncodedServes ==
  ASSUME NEW d, NEW recs, NEW map \in Map, Sound(d, recs, map)
  PROVE  /\ Encoded(recs) \in Database
         /\ Serves(Encoded(recs), map)
<1> DEFINE db == Encoded(recs)
<1>1. /\ d \in Directory /\ recs \in Seq(Record)
      /\ Len(recs) = DirectoryLen(d)
      /\ RecordsPlaced(d, recs) /\ Lists(recs, map)
  BY DEF Sound
<1>2. PICK n \in Nat : n = Len(recs)
  BY <1>1, LenProperties
<1>3. n <= Capacity
  BY <1>1, <1>2 DEF Directory, Fits
<1>4. db = [s \in Slot |-> IF s < n THEN recs[s + 1] ELSE ZeroRecord]
  BY <1>2 DEF Encoded
<1> HIDE DEF db
<1>5. ASSUME NEW s \in Slot
      PROVE  \/ s + 1 \in 1 .. n /\ db[s] = recs[s + 1]
             \/ db[s].addr \notin NonZero /\ db[s] = ZeroRecord
  <2>1. CASE s < n
    BY <1>4, <2>1, CapacityAssumption DEF Slot
  <2>2. CASE ~(s < n)
    BY <1>4, <2>2, RecordFields
  <2> QED BY <2>1, <2>2
<1>6. db \in Database
  <2>1. \A s \in Slot : db[s] \in Record
    BY <1>1, <1>2, <1>5, ElementOfSeq, RecordFields
  <2> QED BY <1>4, <2>1 DEF Database
<1>7. Serves(db, map)
  <2> SUFFICES ASSUME NEW a \in NonZero
               PROVE  LET at == {s \in Slot : db[s].addr = a} IN
                      IF map[a] = None
                      THEN at = {}
                      ELSE \E s \in Slot : at = {s} /\ db[s].value = map[a]
    BY DEF Serves
  <2> DEFINE at == {s \in Slot : db[s].addr = a}
  <2>1. \A s \in at : /\ s + 1 \in 1 .. n /\ db[s] = recs[s + 1]
                      /\ recs[s + 1].addr = a
    BY <1>5
  <2>2. \A s \in at : s = Index(d, a) /\ db[s].value = map[a]
    BY <1>1, <1>2, <2>1, CapacityAssumption DEF RecordsPlaced, Lists, Slot
  <2>3. CASE map[a] = None
    <3>1. \A s \in at : recs[s + 1].value \in Value
      BY <1>1, <1>2, <2>1, ElementOfSeq, RecordFields
    <3>2. at = {}
      BY <2>1, <2>2, <2>3, <3>1, NoneAssumption
    <3> QED BY <2>3, <3>2
  <2>4. CASE map[a] # None
    <3>1. PICK i \in 1 .. n : recs[i].addr = a
      BY <1>1, <1>2, <2>4 DEF Lists
    <3>2. i - 1 \in Slot /\ i - 1 < n /\ (i - 1) + 1 = i
      BY <1>3, CapacityAssumption DEF Slot
    <3>3. i - 1 \in at
      BY <1>4, <3>1, <3>2
    <3>4. at = {i - 1}
      BY <2>2, <3>3
    <3>5. db[i - 1].value = map[a]
      BY <2>2, <3>3
    <3> QED BY <2>4, <3>2, <3>4, <3>5
  <2> QED BY <2>3, <2>4
<1> QED BY <1>6, <1>7 DEF db

\* A zeroed buffer is a database.
LEMMA VacantBuffer == Encoded(<< >>) \in Database
<1>1. \A s \in Slot : ~(s < 0)
  BY DEF Slot
<1>2. Len(<< >>) = 0
  OBVIOUS
<1>3. Encoded(<< >>) = [s \in Slot |-> ZeroRecord]
  BY <1>1, <1>2 DEF Encoded
<1> QED BY <1>3, RecordFields DEF Database

(***************************************************************************)
(* A server just assembled from sound records satisfies the invariant, if  *)
(* the checkpoint kept does.                                               *)
(***************************************************************************)
LEMMA Assembled ==
  ASSUME NEW d, NEW recs, NEW map \in Map, Sound(d, recs, map),
         Assemble(d, recs, map),
         (saved \in Checkpoint \cup {None} /\ SavedPlaced)'
  PROVE  Inductive'
<1>1. /\ Encoded(recs) \in Database /\ Serves(Encoded(recs), map)
      /\ Encoded(<< >>) \in Database
  BY EncodedServes, VacantBuffer
<1>2. d \in Directory /\ recs \in Seq(Record)
  BY DEF Sound
<1>3. TypeOK'
  <2>1. poisoned' \in BOOLEAN
    BY Zenon DEF Assemble
  <2>2. (step \in Step /\ pending \in 0 .. MaxPending)'
    BY BoundAssumption DEF Assemble, Step
  <2> QED BY <1>1, <1>2, <2>1, <2>2 DEF Assemble, TypeOK
<1>4. Sound(directory, records, book)'
  BY DEF Assemble
<1>5. (RefreshUnderWay /\ ServedAsPair /\ ServesPublished)'
  BY <1>1 DEF Assemble, RefreshUnderWay, ServedAsPair, ServesPublished
<1> QED BY <1>3, <1>4, <1>5 DEF Inductive

LEMMA InitInductive == Init => Inductive
<1> SUFFICES ASSUME Init PROVE Inductive
  OBVIOUS
<1>1. PICK map \in UserMap :
        /\ Fits(Cardinality(Keys(map)))
        /\ \E dir \in NewDirectories(Keys(map), 0) :
             LET recs == ScatterRecords(dir, map) IN
             /\ directory = dir
             /\ records = recs
             /\ serving = [db |-> Encoded(recs), precomp |-> Encoded(recs)]
             /\ staging = Encoded(<< >>)
             /\ pending = 0
             /\ poisoned = FALSE
             /\ step = "idle"
             /\ precomputation = None
             /\ saved = None
             /\ book = map
             /\ published = map
  BY DEF Init
<1>2. /\ directory \in NewDirectories(Keys(map), 0)
      /\ records = ScatterRecords(directory, map)
      /\ serving = [db |-> Encoded(records), precomp |-> Encoded(records)]
      /\ staging = Encoded(<< >>)
      /\ pending = 0
      /\ poisoned = FALSE
      /\ step = "idle"
      /\ precomputation = None
      /\ saved = None
      /\ book = map
      /\ published = map
  BY <1>1
<1>3. map \in Map
  BY DEF UserMap
<1>4. Sound(directory, records, book)
  BY <1>1, <1>2, <1>3, Scattered
<1>5. /\ Encoded(records) \in Database /\ Serves(Encoded(records), map)
      /\ Encoded(<< >>) \in Database
  BY <1>2, <1>3, <1>4, EncodedServes, VacantBuffer
<1>6. directory \in Directory /\ records \in Seq(Record)
  BY <1>4 DEF Sound
<1>7. TypeOK
  <2>1. poisoned \in BOOLEAN
    BY <1>2, Zenon
  <2>2. step \in Step /\ pending \in 0 .. MaxPending
    BY <1>2, BoundAssumption DEF Step
  <2> QED BY <1>2, <1>3, <1>5, <1>6, <2>1, <2>2 DEF TypeOK
<1>8. SavedPlaced /\ RefreshUnderWay /\ ServedAsPair /\ ServesPublished
  BY <1>2, <1>5 DEF SavedPlaced, RefreshUnderWay, ServedAsPair, ServesPublished
<1> QED BY <1>4, <1>7, <1>8 DEF Inductive
-------------------------------------------------------------------------------
(***************************************************************************)
(* Each action keeps the invariant.                                        *)
(***************************************************************************)
LEMMA RestartInductive ==
  ASSUME Inductive, NEW map \in UserMap, Restart(map)
  PROVE  Inductive'
<1>1. map \in Map
  BY DEF UserMap
<1>2. (saved \in Checkpoint \cup {None} /\ SavedPlaced)'
  BY DEF Restart, Inductive, TypeOK, SavedPlaced
<1>3. CASE InitWith(map)
  <2>1. PICK dir \in NewDirectories(Keys(map), 0) :
          /\ Fits(Cardinality(Keys(map)))
          /\ Assemble(dir, ScatterRecords(dir, map), map)
    BY <1>3 DEF InitWith
  <2>2. Sound(dir, ScatterRecords(dir, map), map)
    BY <1>1, <2>1, Scattered
  <2> QED BY <1>1, <1>2, <2>1, <2>2, Assembled
<1>4. CASE RestoreWith(map)
  <2> DEFINE placed == PlacedRecords(saved.directory, saved.keys, map)
             new == KeysToAppend(saved.directory, placed, map)
  <2>1. /\ saved # None
        /\ Fits(DirectoryLen(saved.directory) + Cardinality(new))
        /\ \A a \in new : ~InDelta(saved.directory, a)
        /\ \E order \in SetToSeqs(new) :
             Assemble(Extended(saved.directory, order),
                      placed \o RecordsOf(order, map), map)
    BY <1>4, Zenon DEF RestoreWith, RestoreFrom
  <2>2. PICK order \in SetToSeqs(new) :
          Assemble(Extended(saved.directory, order),
                   placed \o RecordsOf(order, map), map)
    BY <2>1
  <2>3. /\ saved.directory \in Directory /\ saved.keys \in Seq(Address)
        /\ KeysPlaced(saved.directory, saved.keys)
    BY <2>1 DEF Inductive, TypeOK, SavedPlaced, Checkpoint
  <2> HIDE DEF placed, new
  <2>4. Sound(Extended(saved.directory, order),
              placed \o RecordsOf(order, map), map)
    BY <1>1, <2>1, <2>2, <2>3, Restored DEF placed, new
  <2> QED BY <1>1, <1>2, <2>2, <2>4, Assembled
<1> QED BY <1>3, <1>4 DEF Restart

LEMMA UpdateInductive ==
  ASSUME Inductive, NEW a \in UserAddress, NEW v \in Value, Update(a, v)
  PROVE  Inductive'
<1>1. a \in Address /\ book \in Map
  BY UserAssumption DEF Inductive, TypeOK
<1>2. PICK d, recs :
        /\ d = directory /\ recs = records
        /\ d \in Directory /\ recs \in Seq(Record) /\ Len(recs) = DirectoryLen(d)
        /\ Sound(d, recs, book)
  BY DEF Inductive, Sound
<1>3. Sound(directory', records', [book EXCEPT ![a] = v])
  <2>1. CASE Overwrite(a, v)
    <3>1. /\ directory' = d
          /\ records' = [recs EXCEPT ![Index(d, a) + 1] = RecordOf(a, v)]
          /\ Carries(d, recs, a)
      BY <1>2, <2>1 DEF Overwrite
    <3>2. PICK i : i = Index(d, a) + 1
      OBVIOUS
    <3>3. i \in 1 .. Len(recs) /\ recs[i].addr = a
      BY <1>1, <1>2, <3>1, <3>2, IndexRange, LenProperties DEF Carries
    <3> QED BY <1>1, <1>2, <3>1, <3>2, <3>3, Replaced
  <2>2. CASE Insert(a, v)
    <3>1. /\ directory' = Pushed(d, a)
          /\ records' = Append(recs, RecordOf(a, v))
          /\ ~Carries(d, recs, a) /\ ~InDelta(d, a)
          /\ Fits(DirectoryLen(d) + 1)
      BY <1>2, <2>2 DEF Insert
    <3> QED BY <1>1, <1>2, <3>1, Inserted
  <2>3. CASE Reclaim(a, v)
    <3>1. /\ directory' = d
          /\ records' = [recs EXCEPT ![Index(d, a) + 1] = RecordOf(a, v)]
          /\ InDelta(d, a)
      BY <1>2, <2>3 DEF Reclaim
    <3>2. PICK i : i = Index(d, a) + 1
      OBVIOUS
    <3>3. i \in 1 .. Len(recs) /\ recs[i].addr \in {a, ZeroAddress}
      BY <1>1, <1>2, <3>1, <3>2, DeltaSlot
    <3> QED BY <1>1, <1>2, <3>1, <3>2, <3>3, Replaced
  <2> QED BY <2>1, <2>2, <2>3 DEF Update
<1>4. Sound(directory, records, book)'
  BY <1>3 DEF Update
<1>5. TypeOK'
  <2>1. (directory \in Directory /\ records \in Seq(Record))'
    BY <1>4 DEF Sound
  <2>2. pending' \in 0 .. MaxPending
    BY BoundAssumption DEF Update, Inductive, TypeOK
  <2>3. book' \in Map
    BY <1>1 DEF Update, Map
  <2>4. poisoned' \in BOOLEAN
    BY Zenon DEF Update, Inductive, TypeOK
  <2> QED BY <2>1, <2>2, <2>3, <2>4 DEF Update, Inductive, TypeOK
<1>6. SavedPlaced'
  BY DEF Update, Inductive, SavedPlaced
<1>7. RefreshUnderWay'
  BY DEF Update, Inductive, RefreshUnderWay
<1>8. (ServedAsPair /\ ServesPublished)'
  BY DEF Update, Inductive, ServedAsPair, ServesPublished
<1> QED BY <1>4, <1>5, <1>6, <1>7, <1>8 DEF Inductive

\* Both index rebuilds: the map is one the book agrees with afterwards.
LEMMA ReindexInductive ==
  ASSUME Inductive, NEW map \in Map, Reindex(map),
         book' \in Map, \A a \in NonZero : book'[a] = map[a]
  PROVE  Inductive'
<1>1. PICK next \in RebuiltDirectories(directory, Keys(map)) :
        /\ records' = ScatterRecords(next, map)
        /\ directory' = next
        /\ Fits(Cardinality(Keys(map)))
  BY DEF Reindex
<1>2. directory.version + 1 \in Nat
  BY DEF Inductive, TypeOK, Directory
<1>3. Sound(directory', records', map)
  BY <1>1, <1>2, Scattered DEF RebuiltDirectories
<1>4. Sound(directory, records, book)'
  BY <1>3, SoundForEqualMaps
<1>5. TypeOK'
  <2>1. (directory \in Directory /\ records \in Seq(Record))'
    BY <1>4 DEF Sound
  <2>2. poisoned' \in BOOLEAN
    BY Zenon DEF Reindex, Inductive, TypeOK
  <2> QED BY <2>1, <2>2 DEF Reindex, Inductive, TypeOK, Step
<1>6. SavedPlaced'
  BY DEF Reindex, Inductive, SavedPlaced
<1>7. RefreshUnderWay'
  BY DEF Reindex, RefreshUnderWay
<1>8. (ServedAsPair /\ ServesPublished)'
  BY DEF Reindex, Inductive, ServedAsPair, ServesPublished
<1> QED BY <1>4, <1>5, <1>6, <1>7, <1>8 DEF Inductive

LEMMA RebuildFromInductive ==
  ASSUME Inductive, NEW map \in UserMap, RebuildKeywordIndexFrom(map)
  PROVE  Inductive'
BY ReindexInductive DEF RebuildKeywordIndexFrom, UserMap

LEMMA RebuildInductive ==
  ASSUME Inductive, RebuildKeywordIndex
  PROVE  Inductive'
<1>1. book \in Map /\ Sound(directory, records, book) /\ book' = book
  BY DEF Inductive, TypeOK, RebuildKeywordIndex
<1>2. PICK map : map = RecordsToMap(records)
  OBVIOUS
<1>3. /\ map \in Map
      /\ \A a \in NonZero : map[a] = book[a]
  BY <1>1, <1>2, Reread
<1>4. Reindex(map)
  BY <1>2 DEF RebuildKeywordIndex
<1> QED BY <1>1, <1>3, <1>4, ReindexInductive

(***************************************************************************)
(* The actions that leave the directory, the records, the book and what is *)
(* served alone.                                                           *)
(***************************************************************************)
LEMMA Quiet ==
  ASSUME Inductive, TypeOK', SavedPlaced', RefreshUnderWay',
         UNCHANGED <<directory, records, book, serving, published>>
  PROVE  Inductive'
<1>1. Sound(directory, records, book)'
  BY DEF Inductive
<1>2. (ServedAsPair /\ ServesPublished)'
  BY DEF Inductive, ServedAsPair, ServesPublished
<1> QED BY <1>1, <1>2 DEF Inductive

LEMMA EncodeStagingInductive ==
  ASSUME Inductive, EncodeStaging
  PROVE  Inductive'
<1>1. Encoded(records) \in Database
  BY EncodedServes DEF Inductive, TypeOK
<1>2. TypeOK'
  BY <1>1 DEF EncodeStaging, Inductive, TypeOK, Step
<1>3. SavedPlaced' /\ RefreshUnderWay'
  BY DEF EncodeStaging, Inductive, SavedPlaced, RefreshUnderWay
<1> QED BY <1>2, <1>3, Quiet DEF EncodeStaging

LEMMA InstallInductive ==
  ASSUME Inductive, Install
  PROVE  Inductive'
<1>1. /\ staging = Encoded(records) /\ precomputation = staging
      /\ Sound(directory, records, book) /\ book \in Map
  BY DEF Install, Inductive, TypeOK, RefreshUnderWay
<1>2. Encoded(records) \in Database /\ Serves(Encoded(records), book)
  BY <1>1, EncodedServes
<1>3. TypeOK'
  BY <1>1, <1>2, BoundAssumption DEF Install, Inductive, TypeOK, Step
<1>4. Sound(directory, records, book)'
  BY <1>1 DEF Install
<1>5. (SavedPlaced /\ RefreshUnderWay)'
  BY DEF Install, Inductive, SavedPlaced, RefreshUnderWay
<1>6. (ServedAsPair /\ ServesPublished)'
  BY <1>1, <1>2 DEF Install, ServedAsPair, ServesPublished
<1> QED BY <1>3, <1>4, <1>5, <1>6 DEF Inductive

LEMMA TakeCheckpointInductive ==
  ASSUME Inductive, TakeCheckpoint
  PROVE  Inductive'
<1>1. Sound(directory, records, book) /\ directory \in Directory
  BY DEF Inductive, TypeOK
<1>2. PICK keys : keys = CheckpointKeys(directory, records)
  OBVIOUS
<1>3. keys \in Seq(Address) /\ KeysPlaced(directory, keys)
  BY <1>1, <1>2, CheckpointPlaced
<1>4. saved' = [directory |-> directory, keys |-> keys]
  BY <1>2 DEF TakeCheckpoint
<1>5. saved' \in Checkpoint
  BY <1>1, <1>3, <1>4 DEF Checkpoint
<1>6. TypeOK'
  BY <1>5 DEF TakeCheckpoint, Inductive, TypeOK
<1>7. SavedPlaced' /\ RefreshUnderWay'
  BY <1>3, <1>4 DEF TakeCheckpoint, Inductive, SavedPlaced, RefreshUnderWay
<1> QED BY <1>6, <1>7, Quiet DEF TakeCheckpoint

\* What is left of the steps leaves the records and what is served alone.
LEMMA ControlInductive ==
  ASSUME Inductive,
         \/ RebuildDatabase \/ EncodeFails \/ TakeContext \/ Precompute
         \/ RefreshPoisoned \/ ResponderPanics
  PROVE  Inductive'
<1>1. CASE RebuildDatabase
  BY <1>1, Quiet
    DEF RebuildDatabase, Inductive, TypeOK, Step, SavedPlaced, RefreshUnderWay
<1>2. CASE EncodeFails
  <2>1. Encoded(records) \in Database
    BY EncodedServes DEF Inductive, TypeOK
  <2>2. staging' \in Database
    BY <1>2, <2>1 DEF EncodeFails, Inductive, TypeOK, Database
  <2>3. TypeOK' /\ SavedPlaced' /\ RefreshUnderWay'
    BY <1>2, <2>2
      DEF EncodeFails, Inductive, TypeOK, Step, SavedPlaced, RefreshUnderWay
  <2> QED BY <1>2, <2>3, Quiet DEF EncodeFails
<1>3. CASE TakeContext
  BY <1>3, Quiet
    DEF TakeContext, Inductive, TypeOK, Step, SavedPlaced, RefreshUnderWay
<1>4. CASE Precompute
  BY <1>4, Quiet
    DEF Precompute, Inductive, TypeOK, Step, SavedPlaced, RefreshUnderWay
<1>5. CASE RefreshPoisoned
  BY <1>5, Quiet
    DEF RefreshPoisoned, Inductive, TypeOK, Step, SavedPlaced, RefreshUnderWay
<1>6. CASE ResponderPanics
  BY <1>6, Quiet
    DEF ResponderPanics, Inductive, TypeOK, Step, SavedPlaced, RefreshUnderWay
<1> QED BY <1>1, <1>2, <1>3, <1>4, <1>5, <1>6

LEMMA StepInductive == Inductive /\ [Next]_vars => Inductive'
<1> SUFFICES ASSUME Inductive, [Next]_vars PROVE Inductive'
  OBVIOUS
<1>1. ASSUME NEW map \in UserMap, Restart(map) PROVE Inductive'
  BY <1>1, RestartInductive
<1>2. ASSUME NEW map \in UserMap, RebuildKeywordIndexFrom(map)
      PROVE  Inductive'
  BY <1>2, RebuildFromInductive
<1>3. ASSUME NEW a \in UserAddress, NEW v \in Value, Update(a, v)
      PROVE  Inductive'
  BY <1>3, UpdateInductive
<1>4. CASE RebuildKeywordIndex
  BY <1>4, RebuildInductive
<1>5. CASE EncodeStaging \/ TakeContext \/ Precompute
  BY <1>5, EncodeStagingInductive, ControlInductive
<1>6. CASE RebuildDatabase \/ EncodeFails \/ RefreshPoisoned \/ ResponderPanics
  BY <1>6, ControlInductive
<1>7. CASE TakeCheckpoint
  BY <1>7, TakeCheckpointInductive
<1>8. CASE Install
  BY <1>8, InstallInductive
<1>9. CASE UNCHANGED vars
  <2>1. TypeOK' /\ SavedPlaced' /\ RefreshUnderWay'
    BY <1>9 DEF vars, serverVars, Inductive, TypeOK, SavedPlaced, RefreshUnderWay
  <2> QED BY <1>9, <2>1, Quiet DEF vars, serverVars
<1>10. ASSUME ServerRuns PROVE Inductive'
  BY <1>10, <1>2, <1>3, <1>4, <1>5, <1>6, <1>7 DEF ServerRuns
<1> QED BY <1>1, <1>8, <1>9, <1>10 DEF Next

\* The inductive invariant holds in every reachable state.
THEOREM Invariance == Spec => []Inductive
BY InitInductive, StepInductive, PTL DEF Spec
-------------------------------------------------------------------------------
(***************************************************************************)
(* The properties of EthPirServer that follow.                             *)
(***************************************************************************)
\* What Inductive says in the terms of the properties.
LEMMA Consequences ==
  ASSUME Inductive
  PROVE  RecordPerSlot /\ HoldsBook /\ HeldOnce
<1>1. /\ directory \in Directory /\ records \in Seq(Record) /\ book \in Map
      /\ Len(records) = DirectoryLen(directory)
      /\ RecordsPlaced(directory, records) /\ Lists(records, book)
  BY DEF Inductive, TypeOK, Sound
<1>2. HoldsBook
  BY <1>1, HoldsIsLists DEF HoldsBook
<1>3. HeldOnce
  BY <1>1, LenProperties DEF HeldOnce, RecordsPlaced
<1> QED BY <1>1, <1>2, <1>3 DEF RecordPerSlot

\* TypeOK: every variable keeps its type.
THEOREM TypeCorrect == Spec => []TypeOK
BY Invariance, PTL DEF Inductive

(***************************************************************************)
(* RecordPerSlot: the directory addresses exactly the records there are    *)
(* (the debug assertions of insert_or_reclaim and append_new_slots).       *)
(***************************************************************************)
THEOREM OneRecordPerSlot == Spec => []RecordPerSlot
BY Invariance, Consequences, PTL

(***************************************************************************)
(* HoldsBook: update, both index rebuilds, checkpoint and restore together *)
(* keep every address but the zero one at the value it was last given.     *)
(***************************************************************************)
THEOREM RecordsHoldTheBook == Spec => []HoldsBook
BY Invariance, Consequences, PTL

(***************************************************************************)
(* HeldOnce: no address has a second record, where records_to_map or a     *)
(* client with a shorter delta would still find an old value.              *)
(***************************************************************************)
THEOREM NoSecondRecord == Spec => []HeldOnce
BY Invariance, Consequences, PTL

(***************************************************************************)
(* ServesPublished: whatever a refresh under way or a failed one did, the  *)
(* database answered from is the one last published.                       *)
(***************************************************************************)
THEOREM ServedIsPublished == Spec => []ServesPublished
BY Invariance, PTL DEF Inductive

(***************************************************************************)
(* ServedAsPair: install never leaves a database in service with the       *)
(* precomputation of another.                                              *)
(***************************************************************************)
THEOREM DatabaseAndPrecomputationArePaired == Spec => []ServedAsPair
BY Invariance, PTL DEF Inductive
-------------------------------------------------------------------------------
(***************************************************************************)
(* EthPirServer implements AddressBook, call by call.  Under Inductive the *)
(* mapped variables are the two history variables, cut down to the         *)
(* addresses other than the zero one, and whether a refresh is under way.  *)
(***************************************************************************)
\* The records hold the book, the served database the published edition.
LEMMA Mapped ==
  Inductive => HeldMap = Cut(book) /\ ServedMap = Cut(published)
<1> SUFFICES ASSUME Inductive
             PROVE  HeldMap = Cut(book) /\ ServedMap = Cut(published)
  OBVIOUS
<1>1. HeldMap = Cut(book)
  BY Consequences DEF HoldsBook, Holds, HeldMap, Cut
<1> DEFINE at(a) == {s \in Slot : serving.db[s].addr = a}
           value(a) == IF at(a) = {} THEN None
                       ELSE serving.db[CHOOSE s \in at(a) : TRUE].value
<1>2. ASSUME NEW a \in NonZero PROVE value(a) = published[a]
  <2>1. IF published[a] = None
        THEN at(a) = {}
        ELSE \E s \in Slot : at(a) = {s} /\ serving.db[s].value = published[a]
    BY <1>2 DEF Inductive, ServesPublished, Serves
  <2> HIDE DEF at
  <2>2. CASE at(a) = {}
    BY <2>1, <2>2
  <2>3. CASE at(a) # {}
    <3>1. PICK s \in Slot : at(a) = {s} /\ serving.db[s].value = published[a]
      BY <2>1, <2>3
    <3>2. (CHOOSE t \in at(a) : TRUE) = s
      BY <3>1
    <3> QED BY <2>3, <3>1, <3>2
  <2> QED BY <2>2, <2>3
<1>3. ServedMap = [a \in NonZero |-> value(a)]
  BY Zenon DEF ServedMap
<1>4. ServedMap = Cut(published)
  <2> HIDE DEF value
  <2> QED BY <1>2, <1>3 DEF Cut
<1> QED BY <1>1, <1>4

LEMMA CutIsBook ==
  ASSUME NEW map \in Map
  PROVE  Cut(map) \in Promise!Book
BY DEF Map, Cut, Promise!Book, NonZero

\* The initial states map to initial states of the book.
LEMMA InitStarts == Init => Promise!Init
<1> SUFFICES ASSUME Init PROVE Promise!Init
  OBVIOUS
<1>1. Inductive
  BY InitInductive
<1>2. book = published /\ step = "idle"
  BY DEF Init
<1>3. book \in Map
  BY <1>1 DEF Inductive, TypeOK
<1> QED BY <1>1, <1>2, <1>3, Mapped, CutIsBook DEF Promise!Init

\* What changes neither history variable nor whether a refresh is under way.
LEMMA Unseen ==
  ASSUME Inductive, Inductive', UNCHANGED <<book, published>>
  PROVE  UNCHANGED <<HeldMap, ServedMap>>
<1>1. (HeldMap = Cut(book) /\ ServedMap = Cut(published))'
  BY Mapped, PTL
<1> QED BY <1>1, Mapped

\* An update changes the entry of its address, and no other.
LEMMA UpdatePuts ==
  ASSUME Inductive, Inductive', NEW a \in UserAddress, NEW v \in Value,
         Update(a, v)
  PROVE  IF a \in NonZero THEN Promise!Put(a, v) ELSE UNCHANGED Promise!vars
<1>1. (HeldMap = Cut(book) /\ ServedMap = Cut(published))'
  BY Mapped, PTL
<1>2. HeldMap = Cut(book) /\ ServedMap = Cut(published)
  BY Mapped
<1>3. /\ book' = [book EXCEPT ![a] = v] /\ published' = published
      /\ step = "idle" /\ step' = "idle"
  BY DEF Update
<1>4. book \in Map /\ a \in Address
  BY UserAssumption DEF Inductive, TypeOK
<1>5. CASE a \in NonZero
  <2>1. HeldMap' = [HeldMap EXCEPT ![a] = v] /\ ServedMap' = ServedMap
    BY <1>1, <1>2, <1>3, <1>4, <1>5 DEF Cut, Map
  <2> QED BY <1>3, <1>5, <2>1 DEF Promise!Put
<1>6. CASE a \notin NonZero
  <2>1. HeldMap' = HeldMap /\ ServedMap' = ServedMap
    BY <1>1, <1>2, <1>3, <1>4, <1>6 DEF Cut, Map
  <2> QED BY <1>3, <1>6, <2>1 DEF Promise!vars
<1> QED BY <1>5, <1>6

LEMMA StepKeeps ==
  ASSUME Inductive, Inductive'
  PROVE  CallsDoAsNamed
<1>1. /\ HeldMap = Cut(book) /\ ServedMap = Cut(published)
      /\ HeldMap' = Cut(book') /\ ServedMap' = Cut(published')
  <2>1. (HeldMap = Cut(book) /\ ServedMap = Cut(published))'
    BY Mapped, PTL
  <2> QED BY <2>1, Mapped
<1>2. ASSUME RebuildDatabase \/ RebuildKeywordIndex
      PROVE  Promise!Begin
  <2>1. UNCHANGED <<book, published>> /\ step = "idle" /\ step' = "encode"
    BY <1>2 DEF RebuildDatabase, RebuildKeywordIndex, Reindex
  <2> QED BY <2>1, Unseen DEF Promise!Begin
<1>3. ASSUME RebuildKeywordIndexFrom(book')
      PROVE  Promise!Replace(Cut(book'))
  <2>1. published' = published /\ step = "idle" /\ step' = "encode"
    BY <1>3 DEF RebuildKeywordIndexFrom, Reindex
  <2> QED BY <1>1, <2>1 DEF Promise!Replace
<1>4. ASSUME Install
      PROVE  Promise!Publish
  <2>1. /\ published' = book /\ book' = book
        /\ step = "install" /\ step' = "idle"
    BY <1>4 DEF Install
  <2> QED BY <1>1, <2>1 DEF Promise!Publish
<1>5. ASSUME EncodeFails \/ RefreshPoisoned
      PROVE  Promise!GiveUp
  <2>1. UNCHANGED <<book, published>> /\ step # "idle" /\ step' = "idle"
    BY <1>5 DEF EncodeFails, RefreshPoisoned
  <2> QED BY <2>1, Unseen DEF Promise!GiveUp
<1>6. ASSUME EncodeStaging \/ TakeContext \/ Precompute \/ ResponderPanics
               \/ TakeCheckpoint
      PROVE  UNCHANGED Promise!vars
  <2>1. UNCHANGED <<book, published>> /\ (step # "idle" <=> step' # "idle")
    BY <1>6 DEF EncodeStaging, TakeContext, Precompute, ResponderPanics,
                TakeCheckpoint
  <2> QED BY <2>1, Unseen DEF Promise!vars
<1>7. ASSUME Restart(book')
      PROVE  Promise!Restart(Cut(book'))
  <2>1. published' = book' /\ step' = "idle"
    BY <1>7 DEF Restart, InitWith, RestoreWith, RestoreFrom, Assemble
  <2> QED BY <1>1, <2>1 DEF Promise!Restart
<1> QED BY <1>2, <1>3, <1>4, <1>5, <1>6, <1>7, UpdatePuts DEF CallsDoAsNamed

\* So every step of the server is a step of the book or leaves it alone.
LEMMA StepRefines ==
  ASSUME Inductive, Inductive', [Next]_vars, CallsDoAsNamed
  PROVE  [Promise!Next]_(Promise!vars)
<1>1. Cut(book') \in Promise!Book
  BY CutIsBook DEF Inductive, TypeOK
<1>2. ASSUME NEW a \in UserAddress, NEW v \in Value, Update(a, v)
      PROVE  [Promise!Next]_(Promise!vars)
  BY <1>2 DEF CallsDoAsNamed, Promise!Next
<1>3. ASSUME NEW map \in UserMap, RebuildKeywordIndexFrom(map)
      PROVE  RebuildKeywordIndexFrom(book')
  BY <1>3 DEF RebuildKeywordIndexFrom
<1>4. ASSUME NEW map \in UserMap, Restart(map)
      PROVE  Restart(book')
  <2>1. book' = map
    BY <1>4 DEF Restart, InitWith, RestoreWith, RestoreFrom, Assemble
  <2> QED BY <1>4, <2>1
<1>5. CASE UNCHANGED vars
  <2>1. UNCHANGED <<book, published, step>>
    BY <1>5 DEF vars, serverVars
  <2> QED BY <2>1, Unseen DEF Promise!vars
<1>6. CASE Next
  BY <1>1, <1>2, <1>3, <1>4, <1>6 DEF Next, ServerRuns, CallsDoAsNamed, Promise!Next
<1> QED BY <1>5, <1>6

(***************************************************************************)
(* KeepsPromise: to its user, the server is an AddressBook, whatever it    *)
(* does with slots, hashes, buffers, failures and checkpoints: an update   *)
(* changes its entry alone, a compaction none, an index rebuild leaves the *)
(* map it was given, and only an install or a restart publishes, all of    *)
(* it.  That each step does what its call is named for is more than the    *)
(* steps being among those of the book, which is stated with it.           *)
(***************************************************************************)
THEOREM ServerKeepsPromise == Spec => KeepsPromise /\ Promise!Spec
<1>1. Init => Promise!Init
  BY InitStarts
<1>2. Inductive /\ Inductive' /\ [Next]_vars
        => CallsDoAsNamed /\ [Promise!Next]_(Promise!vars)
  BY StepKeeps, StepRefines
<1> QED BY <1>1, <1>2, Invariance, PTL DEF Spec, KeepsPromise, Promise!Spec
-------------------------------------------------------------------------------
(***************************************************************************)
(* Where the directory of EthPirServer sends an address, over time: what   *)
(* is served between two calls, and what an insert or a rebuild may move.  *)
(***************************************************************************)
LEMMA DirectoryFields ==
  ASSUME NEW d \in Directory
  PROVE  /\ d.mphf \in [Address -> 0 .. Capacity - 1]
         /\ d.base \in 1 .. Capacity
         /\ d.delta \in Seq(Address)
         /\ d.version \in Nat
         /\ Len(d.delta) \in 0 .. Capacity
<1>1. d.delta \in Seq(Address) /\ d.base \in 1 .. Capacity
  BY DEF Directory
<1>2. Len(d.delta) \in Nat
  BY <1>1, LenProperties
<1>3. d.base + Len(d.delta) <= Capacity
  BY DEF Directory, Fits, DirectoryLen
<1>4. Len(d.delta) \in 0 .. Capacity
  BY <1>1, <1>2, <1>3, CapacityAssumption
<1> QED BY <1>1, <1>4 DEF Directory

LEMMA SlotOfIndex ==
  ASSUME NEW d \in Directory, NEW a \in Address
  PROVE  Index(d, a) \in Slot
<1>1. Index(d, a) \in 0 .. DirectoryLen(d) - 1
  BY IndexRange
<1>2. d.base + Len(d.delta) <= Capacity
  BY DEF Directory, Fits, DirectoryLen
<1>3. d.base \in Nat /\ Len(d.delta) \in Nat
  BY DirectoryFields, CapacityAssumption
<1> QED BY <1>1, <1>2, <1>3, CapacityAssumption DEF DirectoryLen, Slot

(***************************************************************************)
(* e prolongs d when it has the MPHF of d and begins with its delta.       *)
(***************************************************************************)
Prolongs(d, e) ==
  /\ d.mphf = e.mphf
  /\ d.base = e.base
  /\ Len(d.delta) <= Len(e.delta)
  /\ \A i \in 1 .. Len(d.delta) : d.delta[i] = e.delta[i]

\* Pushing an address makes the directory longer.
LEMMA PushProlongs ==
  ASSUME NEW d \in Directory, NEW a \in Address, ~InDelta(d, a),
         Fits(DirectoryLen(d) + 1)
  PROVE  /\ Pushed(d, a) \in Directory
         /\ Pushed(d, a).version = d.version
         /\ Prolongs(d, Pushed(d, a))
         /\ \A b \in Address : b # a => Index(Pushed(d, a), b) = Index(d, b)
<1> DEFINE e == Pushed(d, a)
           order == << a >>
<1>1. /\ order \in Seq(Address) /\ Len(order) = 1 /\ order[1] = a
  OBVIOUS
<1>2. d.delta \in Seq(Address) /\ Len(d.delta) \in Nat
  BY DirectoryFields
<1>3. Append(d.delta, a) = d.delta \o order
  BY <1>2
<1>4. e = Extended(d, order)
  BY <1>3 DEF Pushed, Extended
<1>5. Extends(d, order)
  BY <1>1 DEF Extends
<1> HIDE DEF order, e
<1>6. /\ e \in Directory
      /\ \A b \in Address :
           (\A i \in 1 .. Len(order) : order[i] # b) => Index(e, b) = Index(d, b)
  BY <1>1, <1>4, <1>5, Extension
<1>7. /\ e.mphf = d.mphf /\ e.base = d.base /\ e.version = d.version
      /\ e.delta = Append(d.delta, a)
  BY DEF e, Pushed, Directory
<1>8. /\ Len(e.delta) = Len(d.delta) + 1
      /\ \A i \in 1 .. Len(d.delta) : e.delta[i] = d.delta[i]
  BY <1>2, <1>7, AppendProperties
<1>9. Prolongs(d, e)
  BY <1>2, <1>7, <1>8 DEF Prolongs
<1> QED BY <1>1, <1>6, <1>7, <1>9 DEF e

\* An address in the book has its record, and is encoded where it belongs.
LEMMA HasRecord ==
  ASSUME Inductive, NEW a \in NonZero, book[a] # None
  PROVE  /\ Carries(directory, records, a)
         /\ Index(directory, a) \in Slot
         /\ Encoded(records)[Index(directory, a)].addr = a
<1>1. directory \in Directory /\ a \in Address
  BY DEF Inductive, TypeOK, NonZero
<1>2. Held(directory, records, a) = book[a]
  BY Consequences DEF HoldsBook, Holds
<1>3. Carries(directory, records, a)
  BY <1>2 DEF Held
<1>4. Index(directory, a) \in Slot
  BY <1>1, SlotOfIndex
<1>5. Encoded(records)[Index(directory, a)].addr = a
  BY <1>3, <1>4 DEF Encoded, Carries
<1> QED BY <1>3, <1>4, <1>5

-------------------------------------------------------------------------------
(***************************************************************************)
(* Between two calls, if no refresh failed, everything published is still  *)
(* in the book and served where the directory says, and with nothing       *)
(* pending the records are served as they are.                             *)
(***************************************************************************)
Found(a) ==
  /\ book[a] # None
  /\ serving.db[Index(directory, a)] = RecordOf(a, published[a])

Idle == step = "idle" /\ ~poisoned

IdleSound ==
  Idle => /\ \A a \in NonZero : published[a] # None => Found(a)
          /\ pending = 0 => serving.db = Encoded(records)

\* What was just encoded and published is found.
JustServed == serving.db = Encoded(records) /\ published = book

LEMMA ServedNow == Inductive /\ JustServed => IdleSound
<1> SUFFICES ASSUME Inductive, serving.db = Encoded(records), published = book,
                    NEW a \in NonZero, book[a] # None
             PROVE  Found(a)
  BY DEF JustServed, IdleSound
<1> DEFINE s == Index(directory, a)
           r == serving.db[s]
<1>1. s \in Slot /\ r.addr = a
  BY HasRecord
<1>2. serving.db \in Database
  BY DEF Inductive, TypeOK
<1>3. r.value = published[a]
  <2> DEFINE at == {t \in Slot : serving.db[t].addr = a}
  <2>1. IF published[a] = None
        THEN at = {}
        ELSE \E t \in Slot : at = {t} /\ serving.db[t].value = published[a]
    BY DEF Inductive, ServesPublished, Serves
  <2>2. s \in at
    BY <1>1
  <2> QED BY <2>1, <2>2
<1>4. r \in Record
  BY <1>1, <1>2 DEF Database
<1>5. r = RecordOf(a, published[a])
  BY <1>1, <1>3, <1>4 DEF Record, RecordOf
<1> QED BY <1>5 DEF Found

LEMMA IdleInit == Init => IdleSound
<1>1. Init => JustServed
  BY DEF Init, JustServed
<1> QED BY <1>1, InitInductive, ServedNow

LEMMA IdleUpdate ==
  ASSUME Inductive, IdleSound, NEW a \in UserAddress, NEW v \in Value, Update(a, v)
  PROVE  IdleSound'
<1>1. /\ a \in Address /\ v # None /\ book \in Map /\ directory \in Directory
      /\ pending \in Nat
  BY UserAssumption, NoneAssumption DEF Inductive, TypeOK
<1>2. /\ pending' # 0 /\ step = "idle" /\ book' = [book EXCEPT ![a] = v]
      /\ UNCHANGED <<serving, poisoned, published>>
  BY <1>1 DEF Update
<1>3. ASSUME NEW b \in NonZero, published[b] # None, Idle
      PROVE  Found(b)'
  <2>1. Found(b) /\ b \in Address
    BY <1>3 DEF IdleSound, NonZero
  <2>2. book'[b] # None
    BY <1>1, <1>2, <2>1 DEF Found, Map
  <2>3. CASE UNCHANGED directory
    BY <1>2, <2>1, <2>2, <2>3 DEF Found
  <2>4. CASE Insert(a, v)
    <3>1. b # a
      BY <2>1, <2>4, HasRecord DEF Insert, Found
    <3>2. Index(directory', b) = Index(directory, b)
      BY <1>1, <2>1, <2>4, <3>1, PushProlongs DEF Insert
    <3> QED BY <1>2, <2>1, <2>2, <3>2 DEF Found
  <2> QED BY <2>3, <2>4 DEF Update, Overwrite, Reclaim
<1> QED BY <1>2, <1>3 DEF IdleSound, Idle

LEMMA IdleStep ==
  ASSUME "encode" \notin Faults
  PROVE  Inductive /\ IdleSound /\ [Next]_vars => IdleSound'
<1> SUFFICES ASSUME Inductive, IdleSound, [Next]_vars PROVE IdleSound'
  OBVIOUS
<1>1. Inductive'
  BY StepInductive
<1>2. (Inductive /\ JustServed => IdleSound)'
  BY ServedNow, PTL
<1>3. ASSUME NEW map \in UserMap, Restart(map) PROVE IdleSound'
  <2>1. JustServed'
    <3>1. \E dir, recs : Assemble(dir, recs, map)
      BY <1>3, Zenon DEF Restart, InitWith, RestoreWith, RestoreFrom
    <3>2. PICK dir, recs : Assemble(dir, recs, map)
      BY <3>1
    <3>3. /\ records' = recs /\ serving'.db = Encoded(recs)
          /\ book' = map /\ published' = map
      BY <3>2 DEF Assemble
    <3> QED BY <3>3 DEF JustServed
  <2> QED BY <1>1, <1>2, <2>1
<1>4. CASE Install
  <2>1. JustServed'
    <3>1. /\ UNCHANGED <<records, book>>
          /\ serving'.db = staging /\ published' = book
          /\ staging = Encoded(records)
      BY <1>4 DEF Install, Inductive, RefreshUnderWay
    <3> QED BY <3>1 DEF JustServed
  <2> QED BY <1>1, <1>2, <2>1
<1>5. ASSUME NEW a \in UserAddress, NEW v \in Value, Update(a, v) PROVE IdleSound'
  BY <1>5, IdleUpdate
<1>6. ASSUME NEW map \in UserMap, RebuildKeywordIndexFrom(map) PROVE IdleSound'
  BY <1>6 DEF RebuildKeywordIndexFrom, Reindex, IdleSound, Idle
<1>7. CASE RebuildKeywordIndex \/ RebuildDatabase \/ EncodeStaging \/ TakeContext
           \/ Precompute \/ EncodeFails \/ RefreshPoisoned \/ ResponderPanics
  BY <1>7 DEF RebuildKeywordIndex, Reindex, RebuildDatabase, EncodeStaging,
              TakeContext, Precompute, EncodeFails, RefreshPoisoned,
              ResponderPanics, IdleSound, Idle
<1>8. CASE TakeCheckpoint \/ UNCHANGED vars
  BY <1>8 DEF TakeCheckpoint, vars, serverVars, IdleSound, Idle, Found
<1> QED BY <1>3, <1>4, <1>5, <1>6, <1>7, <1>8 DEF Next, ServerRuns

(***************************************************************************)
(* IdleLookupsFind: the directory handed out between two calls finds what  *)
(* is published, unless a refresh failed.                                  *)
(***************************************************************************)
THEOREM IdleLookupsFind ==
  ASSUME "encode" \notin Faults
  PROVE  Spec => []IdleDirectoryFindsServed
<1>1. IdleSound => IdleDirectoryFindsServed
  BY DEF IdleSound, Idle, IdleDirectoryFindsServed, DirectoryFindsServed, Found
<1> QED BY <1>1, IdleInit, IdleStep, Invariance, PTL DEF Spec

(***************************************************************************)
(* NothingToPublish: and a database rebuild that finds nothing pending has *)
(* nothing to publish.                                                     *)
(***************************************************************************)
THEOREM NothingToPublish ==
  ASSUME "encode" \notin Faults
  PROVE  Spec => []NothingPendingIsServed
<1>1. IdleSound => NothingPendingIsServed
  BY DEF IdleSound, Idle, NothingPendingIsServed
<1> QED BY <1>1, IdleInit, IdleStep, Invariance, PTL DEF Spec
-------------------------------------------------------------------------------
\* An update leaves every other address its slot and its record.
LEMMA UpdateMovesNothing ==
  ASSUME Inductive, NEW a \in UserAddress, NEW v \in Value, Update(a, v),
         NEW b \in NonZero, Carries(directory, records, b)
  PROVE  /\ Index(directory', b) = Index(directory, b)
         /\ Carries(directory', records', b)
<1> DEFINE s == Index(directory, b)
           t == Index(directory, a)
<1>1. /\ a \in Address /\ b \in Address /\ directory \in Directory
      /\ records \in Seq(Record) /\ Len(records) = DirectoryLen(directory)
  BY UserAssumption DEF Inductive, TypeOK, Sound, NonZero
<1>2. PICK n \in Nat : n = Len(records)
  BY <1>1, LenProperties
<1>3. s \in Nat /\ s < n /\ s + 1 \in 1 .. n /\ records[s + 1].addr = b
  <2>1. s \in 0 .. DirectoryLen(directory) - 1
    BY <1>1, IndexRange
  <2>2. s < n /\ records[s + 1].addr = b
    BY <1>2 DEF Carries
  <2>3. s \in Nat
    BY <1>1, <1>2, <2>1
  <2> QED BY <2>2, <2>3
<1>4. CASE Overwrite(a, v) \/ Reclaim(a, v)
  <2>1. /\ directory' = directory
        /\ records' = [records EXCEPT ![t + 1] = RecordOf(a, v)]
    BY <1>4 DEF Overwrite, Reclaim
  <2>2. t \in Nat
    <3>1. t \in 0 .. DirectoryLen(directory) - 1
      BY <1>1, IndexRange
    <3> QED BY <1>1, <1>2, <3>1
  <2>3. t = s => a = b
    <3>1. CASE Overwrite(a, v)
      BY <1>3, <3>1 DEF Overwrite, Carries
    <3>2. CASE Reclaim(a, v)
      <4>1. t < Len(records) /\ records[t + 1].addr # a
        BY <3>2 DEF Reclaim, Carries
      <4>2. records[t + 1].addr \in {a, ZeroAddress}
        BY <1>1, <3>2, DeltaSlot DEF Inductive, Reclaim
      <4> QED BY <1>3, <4>1, <4>2 DEF NonZero
    <3> QED BY <1>4, <3>1, <3>2
  <2>4. Len(records') = n /\ DOMAIN records = 1 .. n
    BY <1>1, <1>2, <2>1
  <2>5. records'[s + 1].addr = b
    <3>1. CASE t = s
      <4>1. records'[s + 1] = RecordOf(a, v)
        BY <1>3, <2>1, <2>4, <3>1
      <4> QED BY <2>3, <3>1, <4>1 DEF RecordOf
    <3>2. CASE t # s
      BY <1>3, <2>1, <2>2, <3>2
    <3> QED BY <3>1, <3>2
  <2>6. Index(directory', b) = s
    BY <2>1
  <2> QED BY <1>3, <2>4, <2>5, <2>6 DEF Carries
<1>5. CASE Insert(a, v)
  <2>1. /\ directory' = Pushed(directory, a)
        /\ records' = Append(records, RecordOf(a, v))
        /\ ~InDelta(directory, a) /\ Fits(DirectoryLen(directory) + 1)
        /\ ~Carries(directory, records, a)
    BY <1>5 DEF Insert
  <2>2. Index(directory', b) = s
    BY <1>1, <2>1, PushProlongs
  <2>3. RecordOf(a, v) \in Record
    BY <1>1, RecordFields
  <2>4. Len(records') = n + 1 /\ records'[s + 1] = records[s + 1]
    BY <1>1, <1>2, <1>3, <2>1, <2>3, AppendProperties
  <2> QED BY <1>3, <2>2, <2>4 DEF Carries
<1> QED BY <1>4, <1>5 DEF Update

(***************************************************************************)
(* SlotsStay: AddressesStay.  An address keeps its slot as long as the     *)
(* version stays the same and the process runs on.                         *)
(***************************************************************************)
THEOREM SlotsStay == Spec => AddressesStay
<1> DEFINE Stays ==
             \/ directory'.version # directory.version
             \/ Restart(book')
             \/ \A a \in NonZero : Carries(directory, records, a) =>
                  /\ Carries(directory, records, a)'
                  /\ Index(directory, a)' = Index(directory, a)
<1>1. Inductive /\ [Next]_vars => [Stays]_vars
  <2> SUFFICES ASSUME Inductive, Next PROVE Stays
    OBVIOUS
  <2>0. directory \in Directory /\ directory.version \in Nat
    BY DirectoryFields DEF Inductive, TypeOK
  <2>1. ASSUME NEW map \in UserMap, Restart(map) PROVE Stays
    <3>1. book' = map
      BY <2>1 DEF Restart, InitWith, RestoreWith, RestoreFrom, Assemble
    <3> QED BY <2>1, <3>1
  <2>2. ASSUME NEW map \in Map, Reindex(map)
        PROVE  directory'.version # directory.version
    <3>1. directory.version + 1 \in Nat /\ Keys(map) \in SUBSET Address
      BY <2>0 DEF Keys
    <3>2. PICK next \in NewDirectories(Keys(map), directory.version + 1) :
            directory' = next
      BY <2>2 DEF Reindex, RebuiltDirectories
    <3>3. next.version = directory.version + 1
      BY <2>2, <3>1, <3>2, NewDirectory DEF Reindex
    <3> QED BY <2>0, <3>2, <3>3
  <2>3. ASSUME NEW map \in UserMap, RebuildKeywordIndexFrom(map) PROVE Stays
    BY <2>2, <2>3 DEF RebuildKeywordIndexFrom, UserMap
  <2>4. CASE RebuildKeywordIndex
    <3>1. RecordsToMap(records) \in Map
      BY Reread DEF Inductive, TypeOK
    <3> QED BY <2>2, <2>4, <3>1 DEF RebuildKeywordIndex
  <2>5. ASSUME NEW a \in UserAddress, NEW v \in Value, Update(a, v) PROVE Stays
    BY <2>5, UpdateMovesNothing
  <2>6. CASE RebuildDatabase \/ EncodeStaging \/ TakeContext \/ Precompute
             \/ EncodeFails \/ RefreshPoisoned \/ ResponderPanics
             \/ TakeCheckpoint \/ Install
    <3>1. UNCHANGED <<directory, records>>
      BY <2>6 DEF RebuildDatabase, EncodeStaging, TakeContext, Precompute,
                  EncodeFails, RefreshPoisoned, ResponderPanics,
                  TakeCheckpoint, Install
    <3> QED BY <3>1
  <2> QED BY <2>1, <2>3, <2>4, <2>5, <2>6 DEF Next, ServerRuns
<1>2. [][Stays]_vars => AddressesStay
  BY PTL DEF AddressesStay
<1> QED BY <1>1, <1>2, Invariance, PTL DEF Spec
=============================================================================
