# eth-pir in TLA+

eth-pir serves token balances by private information retrieval: a client turns
an address into a slot of the server's database with a keyword directory it has
downloaded, asks for the slot without revealing it, and accepts the answer only
when the record that comes back carries the address it asked for. This
directory models the service layer of eth-pir, `src/src/`, above the
cryptography of poulpy-pir: what the server keeps, how it changes it while it
goes on answering, and what survives failures and restarts.

Paths below are those of the repository. Line numbers of the code each
definition stands for are in `PROJECT.json`.

## Inventory

| component | state | operations | talks to |
|---|---|---|---|
| Keyword directory (poulpy-pir; used in `core.rs`, `rebuild.rs`, `restore.rs`, `client.rs`) | an MPHF over the addresses it was built from, an append-only delta, the capacity, the version | `build`, `new`, `index`, `push`, `rebuilt`, wire forms | owned by the server; a copy of it by every client |
| Records and bulk loops (`records.rs`) | the plaintext records by slot | `zeroed_records`, `scatter_records` (worker threads on a raw pointer), `records_to_map` | init, rebuilds |
| Server (`server.rs`, `core.rs`) | `directory`, `records`, `serving`, `staging`, `pending` | `init*`, `update`, `len`, `pending`, `memory_report` | all parts |
| Rebuilds (`rebuild.rs`) | the refresh in progress | `rebuild_database`, `rebuild_keyword_index`, `rebuild_keyword_index_from`, `refresh` | the serving mutex |
| Checkpoint and restore (`restore.rs`, `keyword.rs`) | `KeywordCheckpoint`, kept by the application | `checkpoint`, `restore`, `restore_with` | storage of the application |
| Responders (`responder.rs`) | a handle on the serving mutex | `respond`, `respond_batch`, the byte variants | the serving mutex; clients |
| Keyword wire (`keyword.rs`) | none: a view of the directory | `full`, `tail`, `mphf`, `sync_mode` | clients |
| Client (`client.rs`) | its copy of the directory, one `LookupState` per lookup | `new`, `apply_tail`, `resync`, `query`, `decrypt` | the wire, responders |
| Record layout and codec (`lib.rs`) | none | `record_of`, `payload_of`, `RecordCodec`, `U256Balance` | server and client |
| Example program (`examples/eth_pir.rs`) | a server, a client, a thread that looks up one address over and over | the life of a deployment, with asserts after each step | all parts |
| Errors, shape, reports (`lib.rs`, `report.rs`) | none | conversions, sums | |

What is hard here:

- **Concurrency.** Methods that change the server take `&mut self`, so they
  exclude each other; clones of `EthPirResponder` answer from `serving` under
  its mutex all the while, also during a rebuild of seconds. The rebuild holds
  the mutex twice for an instant (to take a context, to install).
- **Failure.** An encode may return an error; a panic under the mutex poisons
  it for good, and every later lock reports `ServerPoisoned`; a refresh that
  fails leaves what it has done in place.
- **Restart.** The process may stop anywhere. The application has a checkpoint
  of some age and a current map, which may have lost and gained addresses.
- **Total index.** An MPHF sends an address it does not know to a slot of
  another one. Only the address bytes of a record tell them apart, and a slot
  without a record is told by its address bytes being zero.
- **Ordering.** Clients hold directories of other versions and lengths, and
  lookups straddle rebuilds.

What makes each part correct:

- *Records.* The records answer for every address as the map the server was
  asked to hold: nothing lost, no address held twice, one record for each slot
  the directory addresses.
- *Rebuilds.* The served database is the one last published, complete, with its
  own precomputation, whatever is under way or has failed; the directory
  resolves what is served; nothing unserved is forgotten.
- *Checkpoint and restore.* No address moves, none is lost or held twice.
- *Responders.* An answer comes from one published pair; batch results line up
  with the queries; one bad query harms no other.
- *Clients.* A lookup yields the value of the address asked for, or
  `NotInSet`, and never another value; a client in sync finds what is published.
- *Bulk loops.* Each slot is written once, for every length and worker count.

`PROJECT.json` lists the hazards one by one, at the line where each bites, with
the properties that watch it.

## How the modules fit together

| module | models | uses |
|---|---|---|
| `KeywordDirectory` | the external directory, as operators | |
| `Records` | a record, and the functions on records of init, rebuild and restore | `KeywordDirectory` |
| `EthPirServer` | the server with its rebuilds, faults, checkpoints and restarts | `Records` |
| `AddressBook` | what the server promises, without slots or buffers | |
| `ServerRefinesBook` | the mapping under which `EthPirServer` implements `AddressBook` | `EthPirServer`, instance of `AddressBook` |
| `TornCheckpoint` | the server restored from halves of two checkpoints | `EthPirServer` |
| `KeywordWire` | full blobs, tails, `sync_mode`, as operators | `KeywordDirectory` |
| `EthPirService` | the server with a client, messages and lookups | `EthPirServer`, `KeywordWire` |
| `Responder` | the mutex step by step: threads that answer, one that rebuilds | |
| `AtomicResponder` | what the responders promise: a call is answered at one instant | |
| `ResponderRefinesAtomic` | the mapping under which `Responder` implements `AtomicResponder` | `Responder`, instance of `AtomicResponder` |
| `BatchRespond` | the loops of a batch with malformed queries | |
| `BulkRecords` | the worker threads of the bulk loops | |
| `EthPirExample` | the example program over the server | `EthPirServer`, `KeywordWire` |

An `MC` module next to each of the checked ones has the model values and
symmetry sets for TLC; the modules in `...Proofs` have the theorems.

What is left, in the order in which it would be done:

1. `EthPirService` as an implementation of an abstract lookup service: an
   `AddressBook` of which a client asks for an address and is told the value in
   some edition published between question and answer, or nothing.
2. A second client. Clients share nothing but the server, so it can only show
   what one shows.

## Modules and the code

**KeywordDirectory.** poulpy-pir is not in the repository, so this module says
what its callers rely on. A directory is a record `[mphf, base, delta,
version]`. `NewDirectories(keys, version)` is the *set* of all directories
`KeywordDirectory::new` may return: any total function that is a bijection from
the keys to `0 .. base-1`, with a free choice for every other address, since an
MPHF may send those anywhere. `Index` looks in the delta first. `push` refuses
an address in the delta (`DuplicateKey`, matched in `core.rs:92`) and one over
the capacity; it accepts an address the MPHF knows, for the MPHF cannot tell.

**Records.** A record is an address and a value. The codec's bytes are
abstracted: `tests.rs` pins the layout and the round trip. What matters is
kept: a zeroed record *is* a record, of the zero address, with the value 44
zero bytes decode to (`ZeroValue`). Slot *s* of the code is index *s + 1*.
`PlacedRecords`, `KeysToAppend` and `RecordsOf` are the three steps of
`restore_with`; iteration over a `HashMap` is a choice among the orders of the
new keys (`SetToSeqs`).

**EthPirServer.** The variables `directory`, `records`, `serving`, `staging`
and `pending` are the fields of the struct, `poisoned` the state of the mutex,
`step` and `precomputation` the program counter and the local of a refresh in
progress, and `saved` the checkpoint the application stored last. Two history
variables say what the calls amount to: `book` is the map the server was asked
to hold, `published` what it was when the served database was last replaced.

| action | code | note |
|---|---|---|
| `Update` (`Overwrite`, `Insert`, `Reclaim`) | `update`, `insert_or_reclaim` | atomic: `&mut self`, and responders see nothing of it |
| `RebuildDatabase` | `try_rebuild_database` | no step when nothing is pending |
| `RebuildKeywordIndexFrom`, `RebuildKeywordIndex` | the same names | records and directory are assigned before the refresh |
| `EncodeStaging`, `TakeContext`, `Precompute`, `Install` | `refresh` | one action per stretch between two uses of the mutex |
| `EncodeFails`, `RefreshPoisoned` | error exits of `refresh` | what is done stays done |
| `ResponderPanics` | `respond_with` and the others under the lock | poisons the mutex, at any step |
| `TakeCheckpoint` | `checkpoint` | replaces the stored one |
| `Restart` (`InitWith`, `RestoreWith`) | a stop, then `init_with_timed` or `restore_with` | one action: in between there is no server |

A call that returns an error before it assigns anything is no step: a refused
`push`, a refused `rebuilt`, a `restore_with` that finds too many addresses.
`UpdateRefused` and `ReindexRefused` say when, for a caller that `expect`s none.
Answers change nothing, so a responder is present as what it would read:
`serving`. `Responses(slot)` is what it may return: the record there, or
anything at all when the precomputation in service is of another database.
`RestoreFrom(dir, keys, map)` is `restore_with` on any directory and keys;
`RestoreWith` hands it the stored checkpoint. `Report` counts what
`RestoreReport` counts, in the same three loops. `ServerRuns` collects the
actions that leave what is served alone, for the modules that compose the
server with something else.

Assumed of the library, from its callers:

- `try_encode_shard(0, records)` determines the whole database: slots past the
  records are zero (`examples/eth_pir.rs:274-275` sees zero bodies at delta
  slots not yet published, and the retired buffer is refilled by the next
  refresh with fewer records after a prune). When it fails, a
  first part of the slots may be written; the next refresh encodes the buffer
  anew before use.
- `offline_for` and `install` do not fail; `precomp_context` gives a context
  that does not depend on the database in service.
- There is no MPHF over no keys, so `init` and the index rebuilds refuse an
  empty map; `restore` takes one, and leaves every slot vacant.

**BulkRecords.** `Records` has the result of `zeroed_records` and
`scatter_records`; this module has the threads. `left[w]` is what thread *w*
has yet to write, `cells` the memory, and `writers` a history variable with the
threads that wrote a cell in the loop under way. `ZeroSlot` and `PlaceKey` are
one write of a thread, `StartScatter` and `Return` the ends of the two scopes.
`ZeroChunk` and `ScatterChunk` are computed as the code does, the first from
start and count, the second as `chunks(per)`. `EveryKeyPlaced` is what
`ScatterRecords` of `Records` takes for granted. A panic of a thread, which the
scope passes on and which leaves the vector empty, is not modelled.

**AddressBook and ServerRefinesBook.** The state of the book is a map, the
edition of it that is served, and whether a rebuild is under way. It has one
action per call: `Put` (an update, of one entry), `Begin` (a database rebuild or
a compaction, which leave the map as it is), `Replace` (an index rebuild from a
map), `Restart`, and the two ways a rebuild ends, `Publish` (the edition becomes
the map) and `GiveUp`. The refinement maps them to the server without a history
variable: `HeldMap` is what the records answer through the directory,
`ServedMap` what the served database holds at any slot.

That each step of the server is *some* step of the book would say little of
updates, since a book may be replaced by any map. `KeepsPromise` therefore says
which: `CallsDoAsNamed` has `Update(a, v)` do `Put(a, v)` and nothing else,
`RebuildKeywordIndex` and `RebuildDatabase` do `Begin`,
`RebuildKeywordIndexFrom(map)` do `Replace` by that map, `Install` do `Publish`,
the failures of a refresh `GiveUp`, `Restart(map)` do `Restart` with that map;
everything else is stuttering. An update that hits another address's record, or
a compaction that loses or changes an entry, breaks it. The zero address is left
out on both sides, for the reason given below.

**TornCheckpoint.** `KeywordCheckpoint` is a blob and a list of keys, `restore`
gets the two apart, and only `keys.len() == mphf_len` is compared
(`restore.rs:27-71`). `earlier` is a checkpoint stored before `saved`;
`RestoreTorn` restores from the directory of one and the keys of the other.

**KeywordWire.** `ModeFor`, `Full` and `Tails` are `sync_mode`, `try_full` and
`try_tail`. The envelope of a tail and its checks belong to poulpy-pir;
`Accepts` has those the README lists (`README.md:200-213`: version, offset, base
length, capacity, duplicates) but for the magic number. A blob or a tail is the
part of the directory it carries.

**EthPirService.** `client` is the directory in an `EthPirClient`, `mode` the
`KeywordSyncMode` it was given, `wire` the messages under way, `lookup` one
lookup, and the history variable `laidOut` the directory the served database
was laid out by.

| action | code | note |
|---|---|---|
| `ServerStep` | everything in `EthPirServer` | |
| `AskMode` | `version`, `tail_len` and `sync_mode` | between two calls of the server: `keyword()` borrows it |
| `Fetch` | `full` or `tail(have)` | by a mode that may be out of date by now |
| `Receive`, `ReceiveEarly` | `try_resync`, `try_apply_tail` | in any order; the second leaves the message to come again |
| `Lose` | the network | |
| `Query` | `try_query` | with the directory of the moment |
| `Respond` | `try_respond` | at any time, also inside a rebuild or after a restart; not on a poisoned mutex |
| `EndLookup` | `try_decrypt`, or the lookup fails | `TryDecrypt` in the properties is its result |

**Responder.** Databases are numbered as they are encoded. A call of a thread
goes from `waiting` to `scan` (it has the guard), `fold` (it has read the
database) and back `out`; `Panic` unwinds it at either point, which drops the
guard and poisons the mutex. `TakeContext` and `Install` of the rebuilding
thread lock and unlock within one block each, so each is one step that requires
the mutex free. The pass over the database works in the scratch memory of the
PIR server (`&mut` behind the guard); `clean` is an assumption about it: a
finished pass leaves it as it was, one cut off by a panic does not. It is what
poisoning is for.

**BatchRespond.** The two loops of `try_respond_batch_bytes` one round at a
time, with a pass between them that answers in order (`responder.rs:56-94`).

**EthPirExample.** One action per numbered step of `main`, over the actions of
`EthPirServer`. An assert or an `expect` is a condition a step must meet, or
main is `panicked`: an update that is refused (`UpdateRefused`), a tail the
client does not accept, a `rebuild_database` with nothing pending, a compaction
that is refused (`ReindexRefused`), and every lookup. The load generator has one
action per half of its loop, so it interleaves with every step of the rebuild;
`LoadFails` is a panic of its responder under the mutex, which poisons it. Then,
and when an encode fails, main panics for a reason outside of the program: it
is `failed`, at the rebuild if the mutex is still needed there, at the join
otherwise.

## Runs

Addresses other than zero are interchangeable model values
(`AddressSymmetry`, used where no constant names one of them and no liveness is
checked). `Capacity` is 2 or 3 slots; one of the values is what a zeroed payload
decodes to. Deadlock is checked unless noted.

| run | checks | instance | what it is for |
|---|---|---|---|
| `server_rebuild` | `HoldsBook`, `ServesPublished`, `ServedAsPair`, `AddressesStay`, `KeepsPromise` | 3 addresses with zero, 3 slots, 2 values, encode failures and panics | the refresh against updates, errors and poisoning; what each call does to the book |
| `server_restore` | `TypeOK`, `RecordPerSlot`, `HoldsBook`, `HeldOnce`, `ReportAddsUp`, `RestoreMovesNothing` | 3 addresses, 3 slots, 1 value, stops | checkpoint, drift of the map, restore; vacated, delta and appended slots together, up to the capacity |
| `torn_checkpoint` | `TornHoldsBook` | 2 addresses, 3 slots, 2 values, one restart | a restore from halves of two checkpoints |
| `service_sync` | `ServiceTypeOK`, `ClientFollows`, `CatchesUp` | 2 addresses, 2 slots, encode failures, 2 messages that may be repeated and lost | synchronization over two generations |
| `service_lookup` | `NeverWrongValue`, `LookupFindsPublished`, `IdleDirectoryFindsServed`, `NothingPendingIsServed` | 2 addresses, 2 slots, 2 values, a lookup of one of them | lookups that straddle updates, swaps and index rebuilds |
| `responder` | `WholeAnswers`, `OneDatabasePerCall`, `EveryCallReturns`, `RefreshReturns`, `AnswersAtOnce` | 2 threads, batches of 2, 2 rebuilds, encode failures and panics | the mutex |
| `batch_respond` | `OwnResult` | batches of up to 4 of two queries and malformed ones; a batch ends, so no deadlock check | positions |
| `bulk_records` | `OneWriter`, `NothingUninitialized`, `EveryKeyPlaced` | 0 to 5 records, every MPHF, every number of threads; the loops end, so no deadlock check | the bulk loops |
| `example` | `AssertionsHold`, `ExampleEnds` | two initial addresses, one new one, encode failures and panics; the program ends, so no deadlock check | the example, every MPHF and schedule |

Three more runs end in a counterexample, see below.

Bounds: `MaxVersion` (index rebuilds since init), `MaxPending` (updates between
two rebuilds), `MaxStops` (restarts, in `TornCheckpoint` only), `MaxInFlight`
(messages on the wire), `MaxBatch` (queries of a call) and `MaxRefresh`
(databases encoded). One change of generation is what makes every address move
and the delta empty; a second one repeats it from a state of the same kind. The
exception is liveness: that index rebuilds pause is true of every behaviour of
`service_sync` because of this bound, and `CatchesUp` says so in its premise. One
pending update with a restart is enough to put an address into the delta of a
checkpoint, and a restore with another map to empty or refill its slot;
restarts and checkpoints are not bounded in `server_restore`. Three slots hold
one base, one delta and one appended slot at once, and three addresses fill
them. Two messages make a pair that can arrive in the wrong order, out of one
or of two generations. Five is the smallest number of records for which one
chunk is short and another one empty (four threads). Where a theorem below
states a property, it has none of these bounds; what only the runs show is
listed there.

Every property of a passing run is broken by a plausible error in the code,
written next to the definition it replaces ("Variant of ...") and named in
`PROJECT.json`.

### Fairness

- `CatchesUp` is under `FairServiceSpec`: a call of the server that has begun
  goes on (its steps are computation and two locks; weak fairness); the client
  asks and fetches again and again although the server is borrowed in between,
  and of the messages that keep arriving some get through (strong fairness of
  `AskMode`, `Fetch` and of receiving). `Lose` and `ReceiveEarly` may happen as
  often as they like. The client's part is the application's loop around
  `sync_mode`, which the README asks for. The property has two parts. The client
  gets to every generation there ever was or past it, which asks nothing of
  updates and rebuilds. That it has the server's very directory, again and
  again, has a premise: the generation changes finitely often
  (`IndexRebuildsPause`). Without it each blob may arrive after the next index
  rebuild, and nothing in the code prevents that. Updates need no such premise,
  for the delta of one generation can grow only up to the capacity.
- `EveryCallReturns` is under `FairSpec` of `Responder`: a thread runs on with
  the guard it has (weak), and one that finds the mutex free again and again
  gets it (strong). `std::sync::Mutex` does not promise the latter in so many
  words, but a thread parked in it is woken by an unlock, and each round of
  competition is open to it; without it, no call of any program that shares a
  mutex could be shown to return. Nothing is assumed of the rebuilding thread,
  which is the point: a guard kept over the precomputation would break it.
- `RefreshReturns` assumes, in its own premise `RefreshFairness`, the same of
  the rebuilding thread.
- `ExampleEnds` is under `ExampleSpec`: both threads run (weak). That the
  responder panics is no part of the fairness, it may happen or not.

### Where the code and its documentation differ

- `zero_address` (`ZeroAddressHeld`): the zero address, accepted by `init` and
  `update`, is taken for a vacancy by `restore` (`restore.rs:81`). Its value is
  lost and a lookup returns a zeroed payload, not `NotInSet`: initialize with
  the zero address and a value, checkpoint, restore with the same map. The
  reverse happens too: after a restore with a map that lost an address its slot
  is vacant, and if the MPHF sends the zero address there, a lookup of it
  succeeds although it was never given a value.
- `reindex_failed` (`LiveUnlessPending`): `rebuild_keyword_index_from` assigns
  the new records and directory before the refresh (`rebuild.rs:38-40`) and does
  not count them as pending. If the refresh then fails at the encode, clients
  are handed the new version over the old layout, where the README has it
  published last, and the next `rebuild_database` says there is nothing to do.
  (A mutex found poisoned leaves the same state, but then nothing is answered.)
  `IdleDirectoryFindsServed` and `NothingPendingIsServed` show what holds
  otherwise.
- `version_repeats` (`TailOnlyWithinGeneration`): `sync_mode` compares versions
  (`keyword.rs:38`), and a restart from an older checkpoint, or from nothing,
  counts from there again. A client of the stopped process can find its version
  repeated over another MPHF, and is sent to the tail. `ClientFollows` shows
  that it takes a restart. A lookup of such a client still never gives a wrong
  value (`NeverWrongValue`, proved with restarts): it gives `NotInSet`.

`HoldsBook`, `ServesPublished`, `HeldOnce` and `KeepsPromise` speak of the
addresses other than the zero one. `server_rebuild` has the zero address in use
and shows that it disturbs no other.

The example has one assert that `AssertionsHold` leaves out: that the load
generator was answered before and after the swap (`examples/eth_pir.rs:355`).
`stop` is set as soon as `rebuild_database` returns, and nothing makes the
thread get an answer between the install and its next look at `stop`, or before
the install at all. Whether it holds is a matter of timing, so `ExampleEnds`
counts it as one of the ends of the program.

## Proofs

The theorems are checked by TLAPS. Those on the server, in `RecordsProofs` and
`EthPirServerProofs`, hold for every finite set of addresses, every capacity,
every set of values, every bound and every combination of faults, from the named
assumptions of the modules: `AddressAssumption` (finitely many addresses), `CapacityAssumption`,
`ZeroAssumption`, `NoneAssumption`, `UserAssumption`, `FaultAssumption` and
`BoundAssumption`. TLC evaluates them in every run.

| theorem | states |
|---|---|
| `Invariance` | `Spec => []Inductive` |
| `TypeCorrect` | `Spec => []TypeOK` |
| `OneRecordPerSlot` | `Spec => []RecordPerSlot` |
| `RecordsHoldTheBook` | `Spec => []HoldsBook` |
| `NoSecondRecord` | `Spec => []HeldOnce` |
| `ServedIsPublished` | `Spec => []ServesPublished` |
| `DatabaseAndPrecomputationArePaired` | `Spec => []ServedAsPair` |

None of these is inductive alone. `HoldsBook` speaks of the records through the
directory; an insert keeps it only if no *other* address resolves to the new
slot and no record of the address stands elsewhere, and a checkpoint keeps it
only through the keys that will be restored. `Inductive` therefore adds:

- `RecordsPlaced`: a record whose address is not zero stands where the
  directory resolves that address. This is what makes every address occur
  once, and it survives an append because the delta takes precedence over the
  MPHF for the new address only.
- `Lists`: the records, read as a list without the directory, are the book.
  With `RecordsPlaced` it is equivalent to `HoldsBook` (lemma `HoldsIsLists`),
  and it does not mention the index, so a new directory need not be compared
  with the old one.
- `SavedPlaced`: the keys of the stored checkpoint stand where its directory
  resolves them (lemma `CheckpointPlaced`: the prefix of sound records has that
  property). It is all a restore needs (lemmas `Placed`, `Restored`), whatever
  map it is given.
- `RefreshUnderWay`: from the encode on, `staging` is the encoding of the
  records - no update can come in between, for `step` is not idle - and the
  precomputation about to be installed is that of `staging`. With `Sound` this
  gives `ServesPublished` at `Install` (lemma `EncodedServes`).

`StepInductive` has one lemma per action or group of actions that disturb the
same conjuncts; the lemmas of `RecordsProofs` carry the content: `Scattered`
(scatter of a map over any directory of its keys), `Inserted` and `Replaced`
(the three outcomes of `update`), `Reread` (the map read back from the
records), `CheckpointPlaced`, `Placed` and `Restored`.

`BulkRecordsProofs` proves for every number of records and threads, from
`LengthsAssumption` alone:

| theorem | states |
|---|---|
| `NoDataRace` | `Spec => []OneWriter` |
| `ZeroedBeforeUse` | `Spec => []NothingUninitialized` |
| `ScatterIsComplete` | `Spec => []EveryKeyPlaced` |

The chunks of both loops are the same intervals (`ChunkBounds`), cover the
items (`ChunksCover`) and are disjoint (`ChunksDisjoint`); all three rest on
`Division` and `TimesMonotone`, the arithmetic of `div_ceil`. The inductive
invariant treats both loops at once: an item has one cell (itself, or the slot
of its key) and one value (zero, or its record), and what is not yet written is
left to the thread of its chunk.

`EthPirServerProofs` goes on with what the directory does over time:

| theorem | states |
|---|---|
| `SlotsStay` | `Spec => AddressesStay` |
| `IdleLookupsFind` | `Spec => []IdleDirectoryFindsServed`, if `"encode" \notin Faults` |
| `NothingToPublish` | `Spec => []NothingPendingIsServed`, if `"encode" \notin Faults` |

The assumption is the point of `reindex_failed`: without failing encodes, only a
poisoned mutex can end a refresh early, and it stays poisoned, which the two
properties exclude. They need one more conjunct, `IdleSound`: what is published
is still in the book (an update never removes an entry) and served where the
directory says; an insert keeps it because pushing an address moves no other
(`PushProlongs`). For `AddressesStay`, a reclaimed slot
of the delta is vacant or the address's own (`DeltaSlot`), so no record is
overwritten by another address's.

It also proves `ServerKeepsPromise`, `Spec => KeepsPromise /\ Promise!Spec`: each
call does its own step of the book (`StepKeeps`), and so every behaviour of the
server is one of the book (`StepRefines`). The second is proved only; the run
checks the first, which is the stronger for each step.
Under `Inductive` the mapped variables are the two history variables cut down to
the non-zero addresses (`Mapped`, from `HoldsBook` and `ServesPublished`) and
`step # "idle"`. What changes neither is a step of the refresh alone (`Unseen`);
that an update of a non-zero address changes that entry and no other, and one of
the zero address none, is `UpdatePuts`.

`RestoreProofs` is about what a restore gives back:

| theorem | states |
|---|---|
| `RestoresMoveNothing` | `Spec => RestoreMovesNothing` |
| `ReportsAddUp` | `Spec => []ReportAddsUp` |
| `TornRestoresHold` | `TornSpec => []TornHoldsBook` |

For the first, keys that were placed are found again through the directory
(`PlacedAgain`), so nothing pushes them anew. The second is a matter of counting
(`ReportCounts`, from `SavedPlaced`): the keys of the map are of three kinds
that do not overlap, those placed in the MPHF's slots, one for each slot by the
bijection that takes a slot to its key; those in the delta, one for each slot of
the delta that is not empty; and those to append. The MPHF's slots in turn are
those that got their record and those left vacant.

The third needs another invariant, for `SavedPlaced` is lost: the keys of one
checkpoint do not stand where the directory of another sends them. The
`Inductive` of `EthPirServer` fails after the first torn restore, `HoldsBook`
does not. `TornInductive` keeps `HoldsBook` itself, together with what saves it
(`Settled`): a record that is not where the directory says stands in one of the
MPHF's slots, and its address is in the delta and has its record there. That
the addresses in the MPHF's slots are distinct, as are the keys of every
checkpoint, keeps a placement from meeting two of them. An append turns a
misplaced record into such a leftover rather than into a second answer
(`TornInserted`, `TornRestored`), and when the map is read back the copy in the
delta comes later and wins (`LastIsCarried`, `TornReread`), which is the
argument in the comment of the property. The served database may hold the
leftover too, so `HeldOnce` and `ServesPublished` are not claimed of a torn
restore.

`EthPirExampleProofs` proves `EveryAssertHolds`, `ExampleSpec =>
[]AssertionsHold`, for any addresses, MPHFs and schedule, and without the bounds
of the run's instance. Its invariant `Driven` adds to `Inductive` what main has
made true so far: which map is published and, once the updates are in, what the
book is (`MapsSoFar`); that the records are of the example's own addresses and,
when the rebuild is called, that there is something to publish (`SlotsSoFar`);
that the client's directory is a beginning of the
server's, so that the tail makes it the same (`TailCatchesUp`); that everything
published is seen through the directory except while the index is being rebuilt
(`Sees`); and that the slot the load generator got from the first blob is that
of its address until the index is rebuilt, by which time it has been joined
(`DirectoriesSoFar`, `LoadRuns`). An answer from a slot that `Sees` the address
is the published one, and an address not published is met nowhere
(`SeenIsPublished`), which gives each assert. The expects are a matter of
counting: records have distinct addresses, so an address without one finds
fewer records than the example has addresses, and those fit (`UpdateFits`); the
keys read back for the compaction are among them, and there are some
(`CompactionFits`). A lookup of main needs the mutex, which is poisoned only
once the load generator has failed, and then main ends at the rebuild or the
join. `ExampleAssumption` says that none
of the example's addresses is the zero address: the first eight bytes of
`address_at(i)` are a bijective image of `i` (`splitmix64`) that is zero for no
`i` in use.

`EthPirServiceProofs` is about a client, for any number of messages and
generations, any order of delivery, and any faults of the network:

| theorem | states |
|---|---|
| `ServiceTypeCorrect` | `ServiceSpec => []ServiceTypeOK` |
| `LookupsNeverLie` | `ServiceSpec => []NeverWrongValue` |
| `CopiesFollow` | `ServiceSpec => []ClientFollows`, if `"stop" \notin Faults` |
| `CurrentLookupsFind` | `ServiceSpec => LookupFindsPublished`, if `"stop" \notin Faults` |

The first two hold with the server's invariant alone: a record that carries the
address asked for has its published value, wherever the slot came from. The
other two are false over a restart (`version_repeats`). Without one, versions
only grow and each belongs to one MPHF, which the invariant `Account` makes
explicit: `last[v]` is the latest directory of version *v* there has been, and
the client's copy, every blob, every tail and `laidOut` are beginnings or
pieces of the one of their version (`Copy`, `Fragment`). A tail that is accepted
then continues the copy (`AcceptedTail`). For lookups it also keeps that every
published address stands where `laidOut` and all later directories of its
version send it (`PlaceSound`), so any copy of that version that knows the
address gives the same slot (`SameSlot`).

`ResponderProofs`, for any number of threads, queries and rebuilds:

| theorem | states |
|---|---|
| `AnswersAreWhole` | `Spec => []WholeAnswers` |
| `BatchSeesOneDatabase` | `Spec => []OneDatabasePerCall` |
| `CallsAreAtomic` | `Spec => AnswersAtOnce` |

A thread is in a pass exactly if it holds the mutex, so no install comes
between its read and its last answer; the scratch is clean whenever the mutex is
free and not poisoned, which is what a later thread needs to begin with.

The third is the refinement. To its caller a call is open until it returns, and
has its answers then and not before (`AskedFor`, `Returned`). Taking the mutex,
the pass and all answers but the last are steps nobody sees (`NothingSeen`); the
last answer of a call is the instant at which all of them are given, and its
database is the one served then because the guard was never dropped since the
pass. A refresh is seen at its install, which puts a later database in place:
for that the invariant `Newer` is added, that a database encoded and not yet
installed has a higher number than the one served. This is what licenses
`EthPirServer` and `EthPirService` to take an answer, and an install, for one
step each.

`BatchRespondProofs` proves `ResultsAreOwn`, `Spec => []OwnResult`, for batches
of every length: the positions kept for the parsed queries are distinct and
those of no malformed query, and every other position has its parse error.

Model-checked only: the liveness properties `CatchesUp`, `EveryCallReturns`,
`RefreshReturns` and `ExampleEnds`. Every other property of a passing
run is stated by a theorem. Out of the prover's reach: liveness and `ENABLED`,
and induction over data. There are no `RECURSIVE` operators here.

## Not modelled

- The cryptography of poulpy-pir: a query is its slot, an answer the record
  there, a precomputation the database it was computed from.
- `mphf()` and the MPHF blob alone, which nothing in the repository reads.
- `MemoryReport`, timings, error texts and conversions, `default_shape`: no
  state, and nothing in the code depends on them. The bytes of a record and of
  `U256Balance` are pinned by tests.
- `init` and `restore` that fail at the encode: no server comes of them, so the
  application starts again, which is another `Restart`.
- A panic of a worker thread of the bulk loops, which the scope passes on; the
  `&mut self` call that runs it never returns, and no other reads the records.
