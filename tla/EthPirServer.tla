----------------------------- MODULE EthPirServer -----------------------------
(***************************************************************************)
(* The server of eth-pir (src/server.rs and src/server/): the keyword      *)
(* directory, the plaintext records, one PIR server behind a mutex that    *)
(* answers queries (serving), and a second database buffer (staging).      *)
(*                                                                         *)
(* The methods that change the server take &mut self, so one runs at a     *)
(* time.  Rebuilding runs for seconds while clones of EthPirResponder go   *)
(* on answering from serving under its mutex, so it is one action per      *)
(* stretch between two points where that mutex is taken; step says where   *)
(* the call in progress stands.  All else is atomic: no one else can see   *)
(* what &mut self changes, and what holds the mutex excludes the rest.     *)
(*                                                                         *)
(* The process may stop at any point.  What it starts from again is the    *)
(* last checkpoint the application stored, or nothing, and a map: a        *)
(* restart is one action, for in between there is no server.               *)
(*                                                                         *)
(* Two history variables say what the calls so far add up to: book, the    *)
(* map the server was asked to hold, and published, the map it held when   *)
(* the served database was last replaced.                                  *)
(***************************************************************************)
EXTENDS Records

CONSTANTS
  UserAddress,    \* the addresses the application's maps and updates name
  Faults,         \* which of Fault the surroundings may produce
  MaxVersion,     \* bound: MPHF generations
  MaxPending      \* bound: updates between two rebuilds

(***************************************************************************)
(* What may go wrong around the server: try_encode_shard returns an error, *)
(* a responder panics while it holds the mutex, the process stops.         *)
(***************************************************************************)
Fault == {"encode", "panic", "stop"}

ASSUME UserAssumption == UserAddress \subseteq Address
ASSUME FaultAssumption == Faults \subseteq Fault
ASSUME BoundAssumption == MaxVersion \in Nat /\ MaxPending \in Nat

VARIABLES
  directory,       \* EthPirServer.directory
  records,         \* EthPirServer.records
  serving,         \* EthPirServer.serving: a database and its precomputation
  staging,         \* EthPirServer.staging
  pending,         \* EthPirServer.pending
  poisoned,        \* whether the mutex of serving is poisoned
  step,            \* what the refresh in progress does next; "idle" if none
  precomputation,  \* the local of refresh() between precompute and install
  saved,           \* the KeywordCheckpoint the application keeps, or None
  book,            \* history: the map the server was asked to hold
  published        \* history: book when serving was last replaced

serverVars == <<directory, records, serving, staging, pending, poisoned, step,
                precomputation, saved>>
vars == <<serverVars, book, published>>
-------------------------------------------------------------------------------
Slot == 0 .. Capacity - 1

\* A database by the record at each slot.
Database == [Slot -> Record]

\* try_encode_shard(0, records): slots past the records hold zero bytes.
Encoded(recs) ==
  [s \in Slot |-> IF s < Len(recs) THEN recs[s + 1] ELSE ZeroRecord]

\* The database holds each address of the map once, and no other address.
Serves(db, map) ==
  \A a \in NonZero :
    LET at == {s \in Slot : db[s].addr = a} IN
    IF map[a] = None
    THEN at = {}
    ELSE \E s \in Slot : at = {s} /\ db[s].value = map[a]

(***************************************************************************)
(* try_respond on a slot.  A database met with the precomputation of       *)
(* another one gives garbage.                                              *)
(***************************************************************************)
Responses(slot) ==
  IF serving.precomp = serving.db THEN {serving.db[slot]} ELSE Record

\* The maps an application hands over.  Of an empty one there is no MPHF.
UserMap == {map \in Map : Keys(map) \subseteq UserAddress}

\* A checkpoint: the wire form of the directory, and the keys of its MPHF.
Checkpoint == [directory : Directory, keys : Seq(Address)]

Step == {"idle", "encode", "context", "precompute", "install"}

(***************************************************************************)
(* assemble_timed: the records encoded into a new PIR server, with the     *)
(* precomputation of that database and an empty staging buffer.  A         *)
(* precomputation is identified by the database it was computed from.      *)
(***************************************************************************)
Assemble(dir, recs, map) ==
  /\ directory' = dir
  /\ records' = recs
  /\ serving' = [db |-> Encoded(recs), precomp |-> Encoded(recs)]
  /\ staging' = Encoded(<< >>)
  /\ pending' = 0
  /\ poisoned' = FALSE
  /\ step' = "idle"
  /\ precomputation' = None
  /\ book' = map
  /\ published' = map

\* init_with_timed(map): the directory starts at version 0.
InitWith(map) ==
  /\ Fits(Cardinality(Keys(map)))
  /\ \E dir \in NewDirectories(Keys(map), 0) :
       Assemble(dir, ScatterRecords(dir, map), map)

\* Variant of RestoreWith that builds a fresh index from the map.
RestoreRebuilding(map) == saved # None /\ InitWith(map)

(***************************************************************************)
(* restore_with(dir, keys, map).  A key list that does not fit the MPHF or *)
(* a failing push makes the whole call fail, and no server comes of it.    *)
(***************************************************************************)
RestoreFrom(dir, keys, map) ==
  /\ Len(keys) = dir.base
  /\ LET placed == PlacedRecords(dir, keys, map)
         new == KeysToAppend(dir, placed, map)
     IN  /\ Fits(DirectoryLen(dir) + Cardinality(new))
         /\ \A a \in new : ~InDelta(dir, a)
         /\ \E order \in SetToSeqs(new) :
              Assemble(Extended(dir, order), placed \o RecordsOf(order, map), map)

\* The checkpoint restored is the one the application stored last.
RestoreWith(map) ==
  saved # None /\ RestoreFrom(saved.directory, saved.keys, map)

Init ==
  \E map \in UserMap :
    /\ Fits(Cardinality(Keys(map)))
    /\ \E dir \in NewDirectories(Keys(map), 0) :
         LET recs == ScatterRecords(dir, map) IN
         /\ directory = dir
         /\ records = recs
         /\ serving = [db |-> Encoded(recs), precomp |-> Encoded(recs)]
         /\ staging = Encoded(<< >>)
         /\ pending = 0
         /\ poisoned = FALSE
         /\ step = "idle"
         /\ precomputation = None
         /\ saved = None
         /\ book = map
         /\ published = map

\* The process stops, at any point, and the application starts a new server.
Restart(map) ==
  /\ "stop" \in Faults
  /\ InitWith(map) \/ RestoreWith(map)
  /\ UNCHANGED saved
-------------------------------------------------------------------------------
\* Variant of Overwrite that does not look whose record the slot holds.
OverwriteAny(a, v) ==
  /\ Index(directory, a) < Len(records)
  /\ records' = [records EXCEPT ![Index(directory, a) + 1] = RecordOf(a, v)]
  /\ UNCHANGED directory

(***************************************************************************)
(* update(addr, value).  A refused push returns its error before anything  *)
(* is assigned, so it is no step.                                          *)
(***************************************************************************)
Overwrite(a, v) ==
  /\ Carries(directory, records, a)
  /\ records' = [records EXCEPT ![Index(directory, a) + 1] = RecordOf(a, v)]
  /\ UNCHANGED directory

\* Variant of Insert that does not refuse an address when the slots run out.
InsertUnbounded(a, v) ==
  /\ ~Carries(directory, records, a)
  /\ ~InDelta(directory, a)
  /\ directory' = Pushed(directory, a)
  /\ records' = Append(records, RecordOf(a, v))

\* insert_or_reclaim when push succeeds: a new slot at the end.
Insert(a, v) ==
  /\ ~Carries(directory, records, a)
  /\ ~InDelta(directory, a)
  /\ Fits(DirectoryLen(directory) + 1)
  /\ directory' = Pushed(directory, a)
  /\ records' = Append(records, RecordOf(a, v))

\* Variant of Reclaim that takes an address in the delta for a record in place.
ReclaimNothing(a, v) ==
  /\ ~Carries(directory, records, a)
  /\ InDelta(directory, a)
  /\ Index(directory, a) < Len(records)
  /\ UNCHANGED <<directory, records>>

\* insert_or_reclaim when push finds the address in the delta already.
Reclaim(a, v) ==
  /\ ~Carries(directory, records, a)
  /\ InDelta(directory, a)
  /\ Index(directory, a) < Len(records)
  /\ records' = [records EXCEPT ![Index(directory, a) + 1] = RecordOf(a, v)]
  /\ UNCHANGED directory

\* insert_or_reclaim returns the error of push, and update with it.
UpdateRefused(a) ==
  /\ ~Carries(directory, records, a)
  /\ IF InDelta(directory, a) THEN Index(directory, a) >= Len(records)
                              ELSE ~Fits(DirectoryLen(directory) + 1)

\* Variant of Update that counts records changed in place only as pending.
UpdateCountingOverwrites(a, v) ==
  /\ step = "idle"
  /\ pending < MaxPending
  /\ \/ (Overwrite(a, v) \/ Reclaim(a, v)) /\ pending' = pending + 1
     \/ Insert(a, v) /\ UNCHANGED pending
  /\ book' = [book EXCEPT ![a] = v]
  /\ UNCHANGED <<serving, staging, poisoned, step, precomputation, saved,
                 published>>

Update(a, v) ==
  /\ step = "idle"
  /\ pending < MaxPending
  /\ Overwrite(a, v) \/ Insert(a, v) \/ Reclaim(a, v)
  /\ pending' = pending + 1
  /\ book' = [book EXCEPT ![a] = v]
  /\ UNCHANGED <<serving, staging, poisoned, step, precomputation, saved,
                 published>>

(***************************************************************************)
(* try_rebuild_database().  With nothing pending it returns None at once.  *)
(***************************************************************************)
RebuildDatabase ==
  /\ step = "idle"
  /\ pending # 0
  /\ step' = "encode"
  /\ UNCHANGED <<directory, records, serving, staging, pending, poisoned,
                 precomputation, saved, book, published>>

\* Variant of Reindex that gives the new MPHF the version of the old one.
ReindexSameVersion(map) ==
  /\ step = "idle"
  /\ directory.version < MaxVersion
  /\ Fits(Cardinality(Keys(map)))
  /\ \E next \in NewDirectories(Keys(map), directory.version) :
       /\ records' = ScatterRecords(next, map)
       /\ directory' = next
  /\ step' = "encode"
  /\ UNCHANGED <<serving, staging, pending, poisoned, precomputation, saved,
                 published>>

\* Variant of Reindex that leaves the refresh to the next rebuild_database.
ReindexUnserved(map) ==
  /\ step = "idle"
  /\ directory.version < MaxVersion
  /\ Fits(Cardinality(Keys(map)))
  /\ \E next \in RebuiltDirectories(directory, Keys(map)) :
       /\ records' = ScatterRecords(next, map)
       /\ directory' = next
  /\ UNCHANGED <<serving, staging, pending, poisoned, step, precomputation,
                 saved, published>>

(***************************************************************************)
(* rebuild_keyword_index_from(map) up to its call of refresh().  A refused *)
(* rebuilt() returns before anything is assigned.                          *)
(***************************************************************************)
Reindex(map) ==
  /\ step = "idle"
  /\ directory.version < MaxVersion
  /\ Fits(Cardinality(Keys(map)))
  /\ \E next \in RebuiltDirectories(directory, Keys(map)) :
       /\ records' = ScatterRecords(next, map)
       /\ directory' = next
  /\ step' = "encode"
  /\ UNCHANGED <<serving, staging, pending, poisoned, precomputation, saved,
                 published>>

\* rebuilt() returns an error: of no keys there is no MPHF.
ReindexRefused(map) == Keys(map) = {} \/ ~Fits(Cardinality(Keys(map)))

RebuildKeywordIndexFrom(map) == Reindex(map) /\ book' = map

\* rebuild_keyword_index(): the map is read back from the records.
RebuildKeywordIndex == Reindex(RecordsToMap(records)) /\ UNCHANGED book
-------------------------------------------------------------------------------
\* Variant of EncodeStaging that writes the buffer queries are answered from.
EncodeServing ==
  /\ step = "encode"
  /\ serving' = [db |-> Encoded(records), precomp |-> Encoded(records)]
  /\ step' = "context"
  /\ UNCHANGED <<directory, records, staging, pending, poisoned,
                 precomputation, saved, book, published>>

(***************************************************************************)
(* refresh(), the tail of every rebuild.  Any error ends the call with     *)
(* what it has done so far left in place.                                  *)
(***************************************************************************)
EncodeStaging ==
  /\ step = "encode"
  /\ staging' = Encoded(records)
  /\ step' = "context"
  /\ UNCHANGED <<directory, records, serving, pending, poisoned,
                 precomputation, saved, book, published>>

\* The error may come when some of the slots are written.
EncodeFails ==
  /\ "encode" \in Faults
  /\ step = "encode"
  /\ \E n \in 0 .. Capacity :
       staging' = [s \in Slot |-> IF s < n THEN Encoded(records)[s] ELSE staging[s]]
  /\ step' = "idle"
  /\ UNCHANGED <<directory, records, serving, pending, poisoned,
                 precomputation, saved, book, published>>

\* precompute: serving is locked for its precomp_context only ...
TakeContext ==
  /\ step = "context"
  /\ ~poisoned
  /\ step' = "precompute"
  /\ UNCHANGED <<directory, records, serving, staging, pending, poisoned,
                 precomputation, saved, book, published>>

\* ... and offline_for(&mut staging) runs with the mutex free.
Precompute ==
  /\ step = "precompute"
  /\ precomputation' = staging
  /\ step' = "install"
  /\ UNCHANGED <<directory, records, serving, staging, pending, poisoned,
                 saved, book, published>>

\* Variant of Install that swaps the database alone.
InstallDatabase ==
  /\ step = "install"
  /\ ~poisoned
  /\ serving' = [serving EXCEPT !.db = staging]
  /\ staging' = serving.db
  /\ precomputation' = None
  /\ pending' = 0
  /\ step' = "idle"
  /\ published' = book
  /\ UNCHANGED <<directory, records, poisoned, saved, book>>

\* install: database and precomputation change together, under the mutex.
Install ==
  /\ step = "install"
  /\ ~poisoned
  /\ serving' = [db |-> staging, precomp |-> precomputation]
  /\ staging' = serving.db
  /\ precomputation' = None
  /\ pending' = 0
  /\ step' = "idle"
  /\ published' = book
  /\ UNCHANGED <<directory, records, poisoned, saved, book>>

\* Either lock() of refresh() on a poisoned mutex: ServerPoisoned.
RefreshPoisoned ==
  /\ step \in {"context", "install"}
  /\ poisoned
  /\ step' = "idle"
  /\ precomputation' = None
  /\ UNCHANGED <<directory, records, serving, staging, pending, poisoned,
                 saved, book, published>>

\* A responder panics while it holds the mutex.
ResponderPanics ==
  /\ "panic" \in Faults
  /\ ~poisoned
  /\ poisoned' = TRUE
  /\ UNCHANGED <<directory, records, serving, staging, pending, step,
                 precomputation, saved, book, published>>

(***************************************************************************)
(* checkpoint(), kept by the application in the place of the one before.   *)
(* Nothing reads it but a restart.                                         *)
(***************************************************************************)
TakeCheckpoint ==
  /\ "stop" \in Faults
  /\ step = "idle"
  /\ saved' = [ directory |-> directory,
                keys |-> CheckpointKeys(directory, records) ]
  /\ UNCHANGED <<directory, records, serving, staging, pending, poisoned,
                 step, precomputation, book, published>>
-------------------------------------------------------------------------------
\* Everything that leaves what is served alone.
ServerRuns ==
  \/ \E map \in UserMap : RebuildKeywordIndexFrom(map)
  \/ \E a \in UserAddress, v \in Value : Update(a, v)
  \/ RebuildDatabase
  \/ RebuildKeywordIndex
  \/ EncodeStaging \/ TakeContext \/ Precompute
  \/ EncodeFails
  \/ RefreshPoisoned
  \/ ResponderPanics
  \/ TakeCheckpoint

Next ==
  \/ ServerRuns
  \/ Install
  \/ \E map \in UserMap : Restart(map)

Spec == Init /\ [][Next]_vars
-------------------------------------------------------------------------------
(***************************************************************************)
(* TypeOK: every variable holds a value of its type in src/server.rs.      *)
(***************************************************************************)
TypeOK ==
  /\ directory \in Directory
  /\ records \in Seq(Record)
  /\ serving \in [db : Database, precomp : Database]
  /\ staging \in Database
  /\ pending \in 0 .. MaxPending
  /\ poisoned \in BOOLEAN
  /\ step \in Step
  /\ precomputation \in Database \cup {None}
  /\ saved \in Checkpoint \cup {None}
  /\ book \in Map
  /\ published \in Map

(***************************************************************************)
(* RecordPerSlot: the directory addresses exactly the records there are,   *)
(* what the debug_assert_eq of update and of restore, the bound check of   *)
(* update and the slice of checkpoint count on.                            *)
(***************************************************************************)
RecordPerSlot == Len(records) = DirectoryLen(directory)

(***************************************************************************)
(* HoldsBook: through the directory, the records answer for every address  *)
(* but the zero one with the value it was last given and with none for an  *)
(* address not in the map, across overwrites, inserts into the delta,      *)
(* compaction, pruning, checkpoints taken at any time and restores with a  *)
(* map that has lost or gained addresses since.                            *)
(***************************************************************************)
HoldsBook == Holds(directory, records, book)

(***************************************************************************)
(* HeldOnce: no address has two records.  A second one would be a value    *)
(* left behind where a client with a shorter delta, or the next            *)
(* records_to_map, still finds it.                                         *)
(***************************************************************************)
HeldOnce ==
  \A i, j \in 1 .. Len(records) :
    records[i].addr = records[j].addr /\ records[i].addr \in NonZero => i = j

(***************************************************************************)
(* ServesPublished: the served database holds each address of the last     *)
(* published map once, with its value of then, and no other address,       *)
(* whatever a rebuild in progress or one that failed has done to the       *)
(* records, the directory or the staging buffer.                           *)
(***************************************************************************)
ServesPublished == Serves(serving.db, published)

(***************************************************************************)
(* ServedAsPair: the precomputation in service is that of the database in  *)
(* service; a query never meets one without the other.                     *)
(***************************************************************************)
ServedAsPair == serving.precomp = serving.db

(***************************************************************************)
(* The inductive invariant behind the six above: what the records, the     *)
(* keys of the checkpoint and the buffers of a refresh in progress owe to  *)
(* the directory, the book and each other.                                 *)
(***************************************************************************)
SavedPlaced == saved # None => KeysPlaced(saved.directory, saved.keys)

RefreshUnderWay ==
  /\ step \in {"context", "precompute", "install"} =>
       staging = Encoded(records)
  /\ step = "install" => precomputation = staging

Inductive ==
  /\ TypeOK
  /\ Sound(directory, records, book)
  /\ SavedPlaced
  /\ RefreshUnderWay
  /\ ServedAsPair
  /\ ServesPublished

\* Every published address is served at the slot the directory gives it.
DirectoryFindsServed ==
  \A a \in NonZero : published[a] # None =>
    serving.db[Index(directory, a)] = RecordOf(a, published[a])

(***************************************************************************)
(* IdleDirectoryFindsServed: the directory handed out between two calls    *)
(* resolves every published address to its slot in the served database,    *)
(* provided no refresh failed: Faults leaves "encode" out, and the mutex   *)
(* is not poisoned.                                                        *)
(***************************************************************************)
IdleDirectoryFindsServed ==
  step = "idle" /\ ~poisoned => DirectoryFindsServed

(***************************************************************************)
(* NothingPendingIsServed: under the same provisos, a rebuild_database()   *)
(* that finds nothing to do leaves nothing unserved.                       *)
(***************************************************************************)
NothingPendingIsServed ==
  step = "idle" /\ pending = 0 /\ ~poisoned => serving.db = Encoded(records)

(***************************************************************************)
(* AddressesStay: as long as the version stays the same and the process    *)
(* runs on, an address keeps its slot, so that a client which only applies *)
(* tails never has to move one.                                            *)
(***************************************************************************)
AddressesStay ==
  [][ \/ directory'.version # directory.version
      \/ Restart(book')
      \/ \A a \in NonZero : Carries(directory, records, a) =>
           /\ Carries(directory, records, a)'
           /\ Index(directory, a)' = Index(directory, a) ]_vars

(***************************************************************************)
(* RestoreMovesNothing: restoring a checkpoint leaves every address it     *)
(* holds, and the map still names, at its slot (src/server/keyword.rs:     *)
(* "the index state a server needs to restart without moving any           *)
(* address").                                                              *)
(***************************************************************************)
InCheckpoint(a) ==
  IF InDelta(saved.directory, a) THEN TRUE
  ELSE saved.keys[Index(saved.directory, a) + 1] = a

RestoreMovesNothing ==
  [][ RestoreWith(book') =>
        \A a \in NonZero : InCheckpoint(a) /\ book'[a] # None =>
          /\ Carries(directory, records, a)'
          /\ Index(directory, a)' = Index(saved.directory, a) ]_vars

(***************************************************************************)
(* ReportAddsUp: whatever checkpoint is stored and whatever map it will be *)
(* restored with, the report counts each address of the map once, as       *)
(* placed or as appended, and the slots of the delta it leaves empty are   *)
(* those it counts nowhere.                                                *)
(***************************************************************************)
ReportAddsUp ==
  saved # None =>
    \A map \in UserMap : ZeroAddress \notin Keys(map) =>
      LET report == Report(saved.directory, saved.keys, map)
          empty == {i \in 1 .. Len(saved.directory.delta) :
                      map[saved.directory.delta[i]] = None}
      IN  /\ report.placed + report.appended = Cardinality(Keys(map))
          /\ report.placed + report.vacant + Cardinality(empty)
               = DirectoryLen(saved.directory)

(***************************************************************************)
(* ZeroAddressHeld: the zero address, an address like any other to update  *)
(* and init, is held with the value it was given, and not at all if it was *)
(* given none.                                                             *)
(***************************************************************************)
ZeroAddressHeld == Held(directory, records, ZeroAddress) = book[ZeroAddress]

(***************************************************************************)
(* LiveUnlessPending: between two calls with nothing pending, the served   *)
(* database is that of the records, and the directory handed out resolves  *)
(* every published address to its slot there.                              *)
(***************************************************************************)
LiveUnlessPending ==
  step = "idle" /\ pending = 0 =>
    serving.db = Encoded(records) /\ DirectoryFindsServed
=============================================================================
