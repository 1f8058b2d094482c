-------------------------- MODULE EthPirExampleProofs --------------------------
(***************************************************************************)
(* The asserts and expects of the example program hold for any addresses,  *)
(* any MPHFs and any schedule of its two threads.                          *)
(*                                                                         *)
(* The invariant of the server does not say who is looking.  What is added *)
(* to it is, for each stretch of main, which map is published and which    *)
(* addresses have a record, how far the client's directory is behind the   *)
(* server's, and that the slot the load generator took from the first blob *)
(* is still that of its address.                                           *)
(***************************************************************************)
EXTENDS EthPirExample, EthPirServerProofs

InitialMap == [a \in Address |-> IF a \in Initial THEN OldBalance ELSE None]

\* The places of main up to the swap of step 7, and from there to step 9.
Before == {"bootstrap", "update", "tail", "spawn", "rebuild", "rebuilding"}
Swapped == {"stop", "join", "no straddle", "rebuilt", "compact"}

\* The directory leads to the record of everything published.
Sees(dir) ==
  \A a \in NonZero :
    published[a] # None => serving.db[Index(dir, a)].addr = a

\* The load generator: it runs from spawn to join, or to a poisoned mutex.
LoadRuns ==
  /\ load.pc \in {"none", "check", "query", "done", "failed"}
  /\ load.pc \in {"check", "query", "failed"} =>
       at \in {"rebuild", "rebuilding", "stop", "join", "failed"}
  /\ poisoned => load.pc = "failed"

\* What was asked of the server, and what of it is served.
MapsSoFar ==
  /\ at \in Before => published = InitialMap
  /\ at \notin Before \cup {"failed"} => published = UpdatedMap
  /\ \A a \in Initial : book[a] # None
  /\ at \notin {"bootstrap", "update"} => book = UpdatedMap

\* No slot has gone to an address the example does not name.
SlotsSoFar ==
  /\ at \in Before \cup Swapped =>
       \A i \in 1 .. Len(records) : records[i].addr \in Initial \cup New
  /\ at \in {"tail", "spawn", "rebuild"} => pending # 0

\* The directory of the server, and those the clients have of it.
DirectoriesSoFar ==
  /\ at \notin {"compacting", "failed"} => Sees(directory)
  /\ at \in {"compacting", "resync"} => directory.version = 1
  /\ at \in Before \cup Swapped =>
       /\ directory.version = 0
       /\ client.version = 0
       /\ Prolongs(client, directory)
       /\ Index(blob, SampleExisting) = Index(directory, SampleExisting)
  /\ at \in {"spawn", "rebuild", "rebuilding"} \cup Swapped => client = directory

Driven ==
  /\ Inductive
  /\ client \in Directory
  /\ at \in Before \cup Swapped \cup {"compacting", "resync", "done", "failed"}
  /\ LoadRuns
  /\ MapsSoFar
  /\ SlotsSoFar
  /\ DirectoriesSoFar
-------------------------------------------------------------------------------
LEMMA Samples ==
  /\ SampleExisting \in NonZero /\ SampleNew \in NonZero
  /\ SampleExisting \in Initial /\ SampleNew \notin Initial
  /\ InitialMap[SampleExisting] = OldBalance /\ InitialMap[SampleNew] = None
  /\ UpdatedMap[SampleExisting] = NewBalance /\ UpdatedMap[SampleNew] = OldBalance
  /\ OldBalance # None /\ NewBalance # None
<1>1. /\ SampleExisting \in NonZero /\ SampleNew \in NonZero
      /\ SampleExisting \in Initial /\ SampleNew \notin Initial
      /\ SampleExisting \in Updated /\ SampleNew \notin Updated
      /\ SampleNew \in New
  BY ExampleAssumption
<1>2. SampleExisting \in Address /\ SampleNew \in Address
  BY <1>1 DEF NonZero
<1>3. OldBalance # None /\ NewBalance # None
  BY ExampleAssumption, NoneAssumption
<1> QED BY <1>1, <1>2, <1>3 DEF InitialMap, UpdatedMap

LEMMA InitialAddresses ==
  \A a \in Initial : a \in NonZero /\ a \in Address /\ InitialMap[a] = OldBalance
                     /\ UpdatedMap[a] # None
<1> SUFFICES ASSUME NEW a \in Initial
             PROVE  a \in NonZero /\ a \in Address /\ InitialMap[a] = OldBalance
                    /\ UpdatedMap[a] # None
  OBVIOUS
<1>1. a \in NonZero /\ a \in Address
  BY ExampleAssumption DEF NonZero
<1>2. OldBalance # None /\ NewBalance # None
  BY Samples
<1> QED BY <1>1, <1>2 DEF InitialMap, UpdatedMap

(***************************************************************************)
(* A slot whose record is that of the address, or an address that is not   *)
(* published at all: either way the lookup gives what is published.        *)
(***************************************************************************)
LEMMA SeenIsPublished ==
  ASSUME Inductive, NEW s \in Slot, NEW a \in NonZero,
         published[a] # None => serving.db[s].addr = a
  PROVE  \A r \in Responses(s) : TryDecrypt(r, a) = published[a]
<1> DEFINE on == {t \in Slot : serving.db[t].addr = a}
           r == serving.db[s]
<1>1. Responses(s) = {r}
  BY DEF Inductive, ServedAsPair, Responses
<1>2. IF published[a] = None
      THEN on = {}
      ELSE \E t \in Slot : on = {t} /\ serving.db[t].value = published[a]
  BY DEF Inductive, ServesPublished, Serves
<1>3. CASE published[a] = None
  <2>1. r.addr # a
    BY <1>2, <1>3
  <2> QED BY <1>1, <1>3, <2>1 DEF TryDecrypt
<1>4. CASE published[a] # None
  <2>1. r.addr = a /\ s \in on
    BY <1>4
  <2>2. r.value = published[a]
    BY <1>2, <1>4, <2>1
  <2> QED BY <1>1, <2>1, <2>2 DEF TryDecrypt
<1> QED BY <1>3, <1>4

LEMMA SeesFinds ==
  ASSUME Inductive, ~poisoned, NEW dir \in Directory, Sees(dir), NEW a \in NonZero
  PROVE  Finds(dir, a, published[a])
<1>1. Index(dir, a) \in Slot
  BY SlotOfIndex DEF NonZero
<1>2. published[a] # None => serving.db[Index(dir, a)].addr = a
  BY DEF Sees
<1> QED BY <1>1, <1>2, SeenIsPublished DEF Finds

\* What was just encoded and published is seen through the directory.
LEMMA SeenNow == Inductive /\ JustServed => Sees(directory)
<1> SUFFICES ASSUME Inductive, serving.db = Encoded(records), published = book,
                    NEW a \in NonZero, published[a] # None
             PROVE  serving.db[Index(directory, a)].addr = a
  BY DEF JustServed, Sees
<1> QED BY HasRecord

\* A sequence is a beginning of it and the rest.
LEMMA BeginningAndRest ==
  ASSUME NEW p \in Seq(Address), NEW q \in Seq(Address), Len(p) <= Len(q),
         \A i \in 1 .. Len(p) : p[i] = q[i],
         NEW rest, rest = SubSeq(q, Len(p) + 1, Len(q))
  PROVE  p \o rest = q
<1> PICK m \in Nat : m = Len(p)
  BY LenProperties
<1> PICK n \in Nat : n = Len(q)
  BY LenProperties
<1>1. m <= n /\ m + 1 \in 1 .. n + 1
  OBVIOUS
<1>2. /\ rest \in Seq(Address)
      /\ Len(rest) = n - (m + 1) + 1
      /\ \A i \in 1 .. n - (m + 1) + 1 : rest[i] = q[m + 1 + i - 1]
  <2>1. \A i \in m + 1 .. n : q[i] \in Address
    BY <1>1
  <2>2. rest = SubSeq(q, m + 1, n)
    OBVIOUS
  <2> QED BY <1>1, <2>1, <2>2, SubSeqProperties
<1>3. Len(rest) = n - m
  BY <1>2
<1>4. ASSUME NEW i \in 1 .. n - m PROVE rest[i] = q[m + i]
  <2>1. i \in 1 .. n - (m + 1) + 1 /\ m + 1 + i - 1 = m + i
    OBVIOUS
  <2> QED BY <1>2, <2>1
<1> PICK both : both = p \o rest
  OBVIOUS
<1>5. /\ both \in Seq(Address) /\ Len(both) = Len(p) + Len(rest)
      /\ \A i \in 1 .. Len(p) + Len(rest) :
           both[i] = IF i <= Len(p) THEN p[i] ELSE rest[i - Len(p)]
  <2>1. p \in Seq(Address) /\ rest \in Seq(Address)
    BY <1>2
  <2> QED BY <2>1, ConcatProperties, Zenon
<1>6. /\ Len(both) = n
      /\ \A i \in 1 .. n : both[i] = IF i <= m THEN p[i] ELSE rest[i - m]
  <2>1. Len(p) + Len(rest) = n
    BY <1>3
  <2> QED BY <1>5, <2>1
<1>7. ASSUME NEW i \in 1 .. n PROVE both[i] = q[i]
  <2>1. CASE i <= m
    BY <1>6, <2>1
  <2>2. CASE i > m
    <3>1. i - m \in 1 .. n - m /\ m + (i - m) = i
      BY <1>1, <2>2
    <3>2. rest[i - m] = q[m + (i - m)]
      BY <1>4, <3>1
    <3> QED BY <1>6, <2>2, <3>1, <3>2
  <2> QED BY <2>1, <2>2
<1> QED BY <1>5, <1>6, <1>7, SeqEqual

\* A longer directory is a tail away.
LEMMA TailCatchesUp ==
  ASSUME NEW d \in Directory, NEW e \in Directory, Prolongs(d, e),
         d.version = e.version,
         NEW tail \in Tails(e, Len(d.delta))
  PROVE  Accepts(d, tail) /\ Applied(d, tail) = e
<1>1. d.delta \in Seq(Address) /\ e.delta \in Seq(Address)
  BY DirectoryFields
<1>2. PICK keys : keys = SubSeq(e.delta, Len(d.delta) + 1, Len(e.delta))
  OBVIOUS
<1>3. tail = [ kind |-> "tail", version |-> e.version, base |-> e.base,
               start |-> Len(d.delta), keys |-> keys ]
  BY <1>2 DEF Tails
<1>4. d.delta \o keys = e.delta
  BY <1>1, <1>2, BeginningAndRest DEF Prolongs
<1>5. Extended(d, tail.keys) = e
  <2>1. Extended(d, keys) = [d EXCEPT !.delta = e.delta]
    BY <1>4 DEF Extended
  <2>2. d.mphf = e.mphf /\ d.base = e.base
    BY DEF Prolongs
  <2>3. /\ d \in [ mphf : [Address -> 0 .. Capacity - 1], base : 1 .. Capacity,
                   delta : Seq(Address), version : Nat ]
        /\ e \in [ mphf : [Address -> 0 .. Capacity - 1], base : 1 .. Capacity,
                   delta : Seq(Address), version : Nat ]
    BY DEF Directory
  <2>4. [d EXCEPT !.delta = e.delta] = e
    BY <2>2, <2>3
  <2> QED BY <1>3, <2>1, <2>4
<1>6. Accepts(d, tail)
  <2>1. d.base = e.base
    BY DEF Prolongs
  <2> QED BY <1>3, <1>5, <2>1 DEF Accepts
<1> QED BY <1>3, <1>5, <1>6 DEF Applied
-------------------------------------------------------------------------------
(***************************************************************************)
(* Every update of the example finds a slot: there is one for each address *)
(* it names, and none is taken by another.                                 *)
(***************************************************************************)
LEMMA UpdateFits ==
  ASSUME Inductive, NEW a \in Updated \cup New,
         \A i \in 1 .. Len(records) : records[i].addr \in Initial \cup New
  PROVE  ~UpdateRefused(a)
<1> DEFINE used == Initial \cup New
           rest == used \ {a}
           slots == 1 .. Len(records)
           f == [i \in slots |-> records[i].addr]
<1>1. /\ directory \in Directory /\ records \in Seq(Record)
      /\ RecordsPlaced(directory, records)
      /\ Len(records) = DirectoryLen(directory) /\ HeldOnce
  BY Consequences DEF Inductive, TypeOK, Sound, RecordPerSlot
<1>2. /\ a \in used /\ a \in NonZero /\ a \in Address
      /\ used \subseteq NonZero /\ used \subseteq Address
  BY ExampleAssumption DEF NonZero
<1>3. /\ IsFiniteSet(used) /\ Cardinality(used) \in Nat
      /\ Cardinality(used) <= Capacity
  BY <1>2, AddressAssumption, FS_Subset, FS_CardinalityType, ExampleAssumption
  DEF Fits
<1>4. IsFiniteSet(rest) /\ Cardinality(rest) = Cardinality(used) - 1
  BY <1>2, <1>3, FS_RemoveElement
<1>5. /\ Len(records) \in Nat
      /\ IsFiniteSet(slots) /\ Cardinality(slots) = Len(records)
  <2>1. Len(records) \in Nat
    BY <1>1, LenProperties
  <2> PICK n \in Nat : n = Len(records)
    BY <2>1
  <2>2. IsFiniteSet(1 .. n) /\ Cardinality(1 .. n) = n
    <3>1. 1 \in Int /\ n \in Int
      OBVIOUS
    <3>2. IsFiniteSet(1 .. n)
          /\ Cardinality(1 .. n) = IF 1 > n THEN 0 ELSE n - 1 + 1
      BY <3>1, FS_Interval
    <3> QED BY <3>2
  <2> QED BY <2>1, <2>2
<1>6. Index(directory, a) \in 0 .. Len(records) - 1
  BY <1>1, <1>2, IndexRange
<1>7. ASSUME ~Carries(directory, records, a)
      PROVE  Len(records) + 1 <= Capacity
  <2>1. ASSUME NEW i \in slots PROVE records[i].addr \in rest
    <3>1. records[i].addr = a => Index(directory, a) = i - 1
      BY <1>1, <1>2 DEF RecordsPlaced
    <3>2. i - 1 < Len(records) /\ (i - 1) + 1 = i
      BY <1>5
    <3> QED BY <1>7, <3>1, <3>2 DEF Carries
  <2>2. f \in Injection(slots, rest)
    <3>1. f \in [slots -> rest]
      BY <2>1
    <3>2. \A i, j \in slots : f[i] = f[j] => i = j
      BY <1>1, <1>2 DEF HeldOnce
    <3> QED BY <3>1, <3>2 DEF Injection, IsInjective
  <2>3. Cardinality(slots) <= Cardinality(rest)
    BY <1>4, <2>2, FS_Injection
  <2> QED BY <1>3, <1>4, <1>5, <2>3, CapacityAssumption
<1>8. ~(Index(directory, a) >= Len(records))
  BY <1>5, <1>6
<1>9. ~Carries(directory, records, a) => Fits(DirectoryLen(directory) + 1)
  BY <1>1, <1>7 DEF Fits
<1> QED BY <1>8, <1>9 DEF UpdateRefused

\* An update leaves each slot its address, or gives it the address named.
LEMMA UpdateUses ==
  ASSUME Inductive, NEW a \in Updated \cup New, NEW v, Update(a, v),
         \A i \in 1 .. Len(records) : records[i].addr \in Initial \cup New
  PROVE  \A i \in 1 .. Len(records') : records'[i].addr \in Initial \cup New
<1>1. /\ records \in Seq(Record) /\ a \in Initial \cup New
      /\ RecordOf(a, v).addr = a
  BY ExampleAssumption DEF Inductive, TypeOK, RecordOf
<1>2. CASE Overwrite(a, v) \/ Reclaim(a, v)
  <2>1. records' = [records EXCEPT ![Index(directory, a) + 1] = RecordOf(a, v)]
    BY <1>2 DEF Overwrite, Reclaim
  <2>2. Len(records') = Len(records)
    BY <1>1, <2>1
  <2> QED BY <1>1, <2>1, <2>2
<1>3. CASE Insert(a, v)
  <2>1. records' = Append(records, RecordOf(a, v))
    BY <1>3 DEF Insert
  <2>2. /\ Len(records') = Len(records) + 1 /\ Len(records) \in Nat
        /\ \A i \in 1 .. Len(records') :
             records'[i] = IF i <= Len(records) THEN records[i] ELSE RecordOf(a, v)
    BY <1>1, <2>1
  <2> QED BY <1>1, <2>2
<1> QED BY <1>2, <1>3 DEF Update

\* The compaction of step 9 is not refused: there are keys, and they fit.
LEMMA CompactionFits ==
  ASSUME Inductive, book[SampleExisting] # None,
         \A i \in 1 .. Len(records) : records[i].addr \in Initial \cup New
  PROVE  ~ReindexRefused(RecordsToMap(records))
<1> DEFINE keys == Keys(RecordsToMap(records))
           used == Initial \cup New
<1>1. SampleExisting \in keys
  <2>1. /\ Sound(directory, records, book) /\ book \in Map
        /\ SampleExisting \in NonZero
    BY Samples DEF Inductive, TypeOK
  <2>2. RecordsToMap(records)[SampleExisting] = book[SampleExisting]
    BY <2>1, Reread
  <2> QED BY <2>1, <2>2 DEF Keys, NonZero
<1>2. keys \subseteq used
  <2> SUFFICES ASSUME NEW a \in Address, RecordsToMap(records)[a] # None
               PROVE  a \in used
    BY DEF Keys
  <2> DEFINE on == {i \in 1 .. Len(records) : records[i].addr = a}
  <2>1. on # {}
    BY DEF RecordsToMap
  <2>2. PICK i \in 1 .. Len(records) : records[i].addr = a
    BY <2>1
  <2> QED BY <2>2
<1>3. IsFiniteSet(used)
  <2>1. used \subseteq Address
    BY ExampleAssumption DEF NonZero
  <2> QED BY <2>1, AddressAssumption, FS_Subset
<1>4. /\ Cardinality(keys) <= Cardinality(used)
      /\ Cardinality(keys) \in Nat /\ Cardinality(used) \in Nat
  BY <1>2, <1>3, FS_Subset, FS_CardinalityType
<1>5. Fits(Cardinality(keys))
  BY <1>4, ExampleAssumption, CapacityAssumption DEF Fits
<1> QED BY <1>1, <1>5 DEF ReindexRefused
-------------------------------------------------------------------------------
\* main calls the server as anyone may, and the rest leaves it alone.
LEMMA ExampleIsServer == [ExampleNext]_exampleVars => [Next]_vars
<1> SUFFICES ASSUME ExampleNext PROVE [Next]_vars
  BY DEF exampleVars
<1>1. ASSUME ApplyUpdate PROVE [Next]_vars
  <2>1. PICK a \in Updated \cup New :
          UNCHANGED vars \/ Update(a, UpdatedMap[a])
    BY <1>1 DEF ApplyUpdate
  <2>2. a \in UserAddress /\ a \in Address
    BY ExampleAssumption, UserAssumption
  <2>3. UpdatedMap[a] \in Value
    BY <2>2, ExampleAssumption DEF UpdatedMap
  <2> QED BY <2>1, <2>2, <2>3 DEF Next, ServerRuns
<1>2. ASSUME StartRebuild \/ Rebuild \/ LoadFails PROVE [Next]_vars
  BY <1>2 DEF StartRebuild, Rebuild, LoadFails, Next, ServerRuns
<1>3. ASSUME \/ Bootstrap \/ SyncTail \/ Spawn \/ StopLoad \/ Join
             \/ CheckRebuilt \/ Resync \/ LoadCheck \/ LoadQuery
      PROVE  UNCHANGED vars
  BY <1>3 DEF Bootstrap, SyncTail, Spawn, StopLoad, Join, CheckRebuilt, Resync,
              LoadCheck, LoadQuery
<1> QED BY <1>1, <1>2, <1>3 DEF ExampleNext, Main

\* The records of a fresh directory are those of its keys.
LEMMA ScatteredKeys ==
  ASSUME NEW map \in Map, Fits(Cardinality(Keys(map))),
         NEW d \in NewDirectories(Keys(map), 0)
  PROVE  /\ Len(ScatterRecords(d, map)) = d.base
         /\ \A i \in 1 .. d.base :
              \E a \in Keys(map) : ScatterRecords(d, map)[i].addr = a
<1> DEFINE key(i) == CHOOSE k \in Keys(map) : d.mphf[k] = i - 1
           recs == ScatterRecords(d, map)
<1>1. /\ d \in Directory /\ d.base \in Nat
      /\ \A s \in 0 .. d.base - 1 : \E a \in Keys(map) : d.mphf[a] = s
  <2>1. Keys(map) \in SUBSET Address
    BY DEF Keys
  <2>2. /\ d \in Directory
        /\ \A s \in 0 .. d.base - 1 : \E a \in Keys(map) : d.mphf[a] = s
    BY <2>1, NewDirectory
  <2> QED BY <2>2, DirectoryFields, CapacityAssumption
<1>2. ASSUME NEW i \in 1 .. d.base PROVE key(i) \in Keys(map)
  <2>1. i - 1 \in 0 .. d.base - 1
    BY <1>1
  <2> QED BY <1>1, <2>1
<1>3. recs = [i \in 1 .. d.base |-> RecordOf(key(i), map[key(i)])]
  BY DEF ScatterRecords
<1>4. Len(recs) = d.base
  BY <1>1, <1>3
<1>5. \A i \in 1 .. d.base : recs[i].addr = key(i)
  BY <1>3 DEF RecordOf
<1> QED BY <1>2, <1>4, <1>5

LEMMA DrivenInit == ExampleInit => Driven
<1> SUFFICES ASSUME ExampleInit PROVE Driven
  OBVIOUS
<1>1. Inductive /\ directory \in Directory
  BY InitInductive DEF ExampleInit, Inductive, TypeOK
<1>2. JustServed /\ directory.version = 0
  <2>1. PICK map \in UserMap :
          /\ Fits(Cardinality(Keys(map)))
          /\ \E dir \in NewDirectories(Keys(map), 0) :
               LET recs == ScatterRecords(dir, map) IN
               /\ directory = dir
               /\ records = recs
               /\ serving = [db |-> Encoded(recs), precomp |-> Encoded(recs)]
               /\ book = map
               /\ published = map
    BY DEF ExampleInit, Init
  <2>2. directory \in NewDirectories(Keys(map), 0)
    BY <2>1
  <2>3. directory.version = 0
    BY <2>2 DEF NewDirectories
  <2> QED BY <2>1, <2>3 DEF JustServed
<1>3. Sees(directory)
  BY <1>1, <1>2, SeenNow
<1>4. /\ at = "bootstrap" /\ client = directory /\ blob = directory
      /\ load.pc = "none" /\ book = InitialMap /\ ~poisoned
  BY DEF ExampleInit, Init, InitialMap
<1>5. Prolongs(client, directory)
  BY <1>1, <1>4, DirectoryFields DEF Prolongs
<1>6. MapsSoFar
  <2>1. \A a \in Initial : InitialMap[a] # None
    BY InitialAddresses, Samples
  <2> QED BY <1>2, <1>4, <2>1 DEF MapsSoFar, JustServed, Before
<1>7. LoadRuns /\ DirectoriesSoFar
  BY <1>2, <1>3, <1>4, <1>5 DEF LoadRuns, DirectoriesSoFar, Swapped
<1>8. SlotsSoFar
  <2>1. PICK map \in UserMap :
          /\ Fits(Cardinality(Keys(map)))
          /\ \E dir \in NewDirectories(Keys(map), 0) :
               records = ScatterRecords(dir, map)
          /\ book = map
    BY DEF ExampleInit, Init
  <2>2. PICK dir \in NewDirectories(Keys(map), 0) :
          records = ScatterRecords(dir, map)
    BY <2>1
  <2>3. Keys(map) \subseteq Initial
    BY <1>4, <2>1 DEF Keys, InitialMap
  <2>4. /\ Len(records) = dir.base
        /\ \A i \in 1 .. dir.base : \E a \in Keys(map) : records[i].addr = a
    BY <2>1, <2>2, ScatteredKeys DEF UserMap
  <2> QED BY <1>4, <2>3, <2>4 DEF SlotsSoFar
<1> QED BY <1>1, <1>4, <1>6, <1>7, <1>8 DEF Driven, Before

LEMMA BootstrapDriven ==
  ASSUME Driven, Inductive', Bootstrap
  PROVE  Driven'
<1>1. /\ at = "bootstrap" /\ client' = directory /\ blob' = directory
      /\ UNCHANGED <<directory, records, serving, pending, poisoned, book,
                     published, load>>
  BY DEF Bootstrap, vars, serverVars
<1>2. /\ directory \in Directory /\ Sees(directory) /\ directory.version = 0
      /\ published = InitialMap /\ \A a \in Initial : book[a] # None
      /\ Inductive /\ ~poisoned
  BY <1>1
  DEF Driven, LoadRuns, DirectoriesSoFar, MapsSoFar, Before, Inductive, TypeOK
<1>3. \A a \in Initial : Finds(directory, a, OldBalance)
  BY <1>2, SeesFinds, InitialAddresses
<1>4. at' = "update"
  <2>1. \A a \in Initial : Finds(client', a, OldBalance)
    BY <1>1, <1>3 
  <2>2. Continue(\A a \in Initial : Finds(client', a, OldBalance), "update")
    BY DEF Bootstrap
  <2> QED BY <2>1, <2>2 DEF Continue
<1>5. LoadRuns' /\ MapsSoFar' /\ SlotsSoFar'
  BY <1>1, <1>2, <1>4 DEF Driven, LoadRuns, MapsSoFar, SlotsSoFar, Before
<1>6. Sees(directory)'
  BY <1>1, <1>2 DEF Sees
<1>7. Prolongs(client, directory)'
  BY <1>1, <1>2, DirectoryFields DEF Prolongs
<1>8. DirectoriesSoFar'
  BY <1>1, <1>2, <1>4, <1>6, <1>7 DEF DirectoriesSoFar, Swapped
<1> QED BY <1>1, <1>2, <1>4, <1>5, <1>8 DEF Driven, Before

(***************************************************************************)
(* An update of step 5 moves no address published, and the directory       *)
(* grows at its end if at all.                                             *)
(***************************************************************************)
LEMMA UpdateProlongs ==
  ASSUME Inductive, NEW a \in UserAddress, NEW v \in Value, Update(a, v)
  PROVE  /\ directory'.version = directory.version
         /\ Prolongs(directory, directory')
         /\ UNCHANGED <<serving, published>>
         /\ book' = [book EXCEPT ![a] = v]
<1>1. directory \in Directory /\ a \in Address
  BY UserAssumption DEF Inductive, TypeOK
<1>2. Prolongs(directory, directory)
  BY <1>1, DirectoryFields DEF Prolongs
<1>3. CASE Overwrite(a, v) \/ Reclaim(a, v)
  BY <1>2, <1>3 DEF Overwrite, Reclaim, Update
<1>4. CASE Insert(a, v)
  BY <1>1, <1>4, PushProlongs DEF Insert, Update
<1> QED BY <1>3, <1>4 DEF Update

LEMMA ApplyUpdateDriven ==
  ASSUME Driven, Inductive', ApplyUpdate
  PROVE  Driven'
<1>1. /\ at = "update" /\ UNCHANGED <<client, blob, load>>
      /\ \A i \in 1 .. Len(records) : records[i].addr \in Initial \cup New
  BY DEF ApplyUpdate, Driven, SlotsSoFar, Before
<1>2. PICK a \in Updated \cup New :
        /\ Update(a, UpdatedMap[a])
        /\ at' = IF book' = UpdatedMap THEN "tail" ELSE "update"
  BY <1>1, UpdateFits DEF ApplyUpdate, Driven
<1>3. /\ Inductive /\ client \in Directory
      /\ directory \in Directory /\ directory' \in Directory
      /\ Sees(directory) /\ directory.version = 0 /\ client.version = 0
      /\ Prolongs(client, directory)
      /\ Index(blob, SampleExisting) = Index(directory, SampleExisting)
      /\ published = InitialMap /\ \A b \in Initial : book[b] # None
      /\ book \in Map
  BY <1>1 DEF Driven, DirectoriesSoFar, MapsSoFar, Before, Inductive, TypeOK
<1>4. /\ a \in UserAddress /\ a \in Address
      /\ UpdatedMap[a] \in Value /\ UpdatedMap[a] # None
  <2>1. a \in UserAddress /\ a \in Address
    BY ExampleAssumption, UserAssumption
  <2> QED BY <2>1, ExampleAssumption, NoneAssumption DEF UpdatedMap
<1>5. /\ directory'.version = 0
      /\ Prolongs(directory, directory')
      /\ UNCHANGED <<serving, published>>
      /\ book' = [book EXCEPT ![a] = UpdatedMap[a]]
  BY <1>2, <1>3, <1>4, UpdateProlongs
<1>6. \A b \in Initial : book'[b] # None
  BY <1>3, <1>4, <1>5, InitialAddresses DEF Map
<1>7. \A b \in Initial : Index(directory', b) = Index(directory, b)
  <2> SUFFICES ASSUME NEW b \in Initial
               PROVE  Index(directory', b) = Index(directory, b)
    OBVIOUS
  <2>1. b \in NonZero /\ book[b] # None
    BY <1>3, InitialAddresses
  <2>2. Carries(directory, records, b)
    BY <1>3, <2>1, HasRecord
  <2> QED BY <1>2, <1>3, <1>4, <2>1, <2>2, UpdateMovesNothing
<1>8. Sees(directory)'
  <2> SUFFICES ASSUME NEW b \in NonZero, published[b] # None
               PROVE  serving.db[Index(directory', b)].addr = b
    BY <1>5 DEF Sees
  <2>1. b \in Initial
    BY <1>3 DEF InitialMap, NonZero
  <2> QED BY <1>3, <1>7, <2>1 DEF Sees
<1>9. Prolongs(client, directory)'
  <2>1. /\ Len(client.delta) \in Nat /\ Len(directory.delta) \in Nat
        /\ Len(directory'.delta) \in Nat
    BY <1>3, DirectoryFields
  <2>2. Prolongs(client, directory')
    BY <1>3, <1>5, <2>1 DEF Prolongs
  <2> QED BY <1>1, <2>2
<1>10. Index(blob', SampleExisting) = Index(directory', SampleExisting)
  BY <1>1, <1>3, <1>7, Samples
<1>11. at' \in {"tail", "update"} /\ (at' # "update" => book' = UpdatedMap)
  BY <1>2
<1>12. LoadRuns'
  BY <1>1, <1>2, <1>11 DEF Driven, LoadRuns, Update
<1>13. SlotsSoFar'
  <2>1. pending' # 0
    BY <1>2, <1>3 DEF Update, Inductive, TypeOK
  <2>2. \A i \in 1 .. Len(records') : records'[i].addr \in Initial \cup New
    BY <1>1, <1>2, <1>3, UpdateUses
  <2> QED BY <2>1, <2>2 DEF SlotsSoFar
<1>14. MapsSoFar'
  BY <1>3, <1>5, <1>6, <1>11 DEF MapsSoFar, Before
<1>15. DirectoriesSoFar'
  BY <1>1, <1>3, <1>5, <1>8, <1>9, <1>10, <1>11 DEF DirectoriesSoFar, Swapped
<1> QED BY <1>1, <1>3, <1>11, <1>12, <1>13, <1>14, <1>15 DEF Driven, Before

LEMMA SyncTailDriven ==
  ASSUME Driven, Inductive', SyncTail
  PROVE  Driven'
<1>1. PICK tail \in Tails(directory, Len(client.delta)) :
        /\ client' = Applied(client, tail)
        /\ Continue(/\ Accepts(client, tail)
                    /\ Finds(client', SampleExisting, OldBalance)
                    /\ Finds(client', SampleNew, None), "spawn")
  BY DEF SyncTail
<1>2. /\ at = "tail"
      /\ UNCHANGED <<directory, records, serving, pending, poisoned, book,
                     published, blob, load>>
  BY DEF SyncTail, vars, serverVars
<1>3. /\ Inductive /\ client \in Directory /\ directory \in Directory
      /\ Sees(directory) /\ directory.version = 0 /\ client.version = 0
      /\ Prolongs(client, directory)
      /\ Index(blob, SampleExisting) = Index(directory, SampleExisting)
      /\ published = InitialMap /\ book = UpdatedMap
      /\ \A b \in Initial : book[b] # None
      /\ ~poisoned
  BY <1>2
  DEF Driven, LoadRuns, DirectoriesSoFar, MapsSoFar, Before, Inductive, TypeOK
<1>4. Accepts(client, tail) /\ client' = directory
  BY <1>1, <1>3, TailCatchesUp
<1>5. /\ Finds(directory, SampleExisting, OldBalance)
      /\ Finds(directory, SampleNew, None)
  <2>1. /\ Finds(directory, SampleExisting, published[SampleExisting])
        /\ Finds(directory, SampleNew, published[SampleNew])
    BY <1>3, SeesFinds, Samples
  <2> QED BY <1>3, <2>1, Samples
<1>6. at' = "spawn"
  BY <1>1, <1>4, <1>5 DEF Continue
<1>7. LoadRuns' /\ MapsSoFar' /\ SlotsSoFar'
  BY <1>2, <1>3, <1>6 DEF Driven, LoadRuns, MapsSoFar, SlotsSoFar, Before
<1>8. Sees(directory)'
  BY <1>2, <1>3 DEF Sees
<1>9. Prolongs(client, directory)'
  BY <1>2, <1>3, <1>4, DirectoryFields DEF Prolongs
<1>10. DirectoriesSoFar'
  BY <1>2, <1>3, <1>4, <1>6, <1>8, <1>9 DEF DirectoriesSoFar, Swapped
<1> QED BY <1>3, <1>4, <1>6, <1>7, <1>10 DEF Driven, Before

\* Where main moves on and nothing else changes.
LEMMA QuietDriven ==
  ASSUME Driven, Inductive', Spawn \/ StopLoad \/ CheckRebuilt \/ Join
  PROVE  Driven'
<1>1. UNCHANGED <<directory, records, serving, pending, poisoned, book,
                  published, client, blob>>
  BY DEF Spawn, StopLoad, CheckRebuilt, Join, vars, serverVars
<1>2. /\ Inductive /\ client \in Directory /\ directory \in Directory
      /\ LoadRuns
  BY DEF Driven, Inductive, TypeOK
<1>3. CASE Spawn
  <2>1. at = "spawn" /\ at' = "rebuild" /\ load' = [load EXCEPT !.pc = "check"]
    BY <1>3 DEF Spawn
  <2>2. LoadRuns'
    BY <1>1, <1>2, <2>1 DEF LoadRuns
  <2> QED
    BY <1>1, <2>1, <2>2
    DEF Driven, MapsSoFar, SlotsSoFar, DirectoriesSoFar, Sees, Before, Swapped,
        Prolongs
<1>4. CASE StopLoad
  <2>1. at = "stop" /\ at' = "join" /\ load' = load
    BY <1>4 DEF StopLoad
  <2>2. LoadRuns'
    BY <1>1, <1>2, <2>1 DEF LoadRuns
  <2> QED BY <1>1, <2>1, <2>2
    DEF Driven, MapsSoFar, SlotsSoFar, DirectoriesSoFar, Sees, Before, Swapped,
        Prolongs
<1>5. CASE Join
  <2>1. /\ at = "join" /\ load' = load
        /\ \/ load.pc = "done" /\ at' \in {"rebuilt", "no straddle"}
           \/ load.pc = "failed" /\ at' = "failed"
    BY <1>2, <1>5 DEF Join, LoadRuns
  <2>2. LoadRuns'
    BY <1>1, <1>2, <2>1 DEF LoadRuns
  <2> QED BY <1>1, <2>1, <2>2
    DEF Driven, MapsSoFar, SlotsSoFar, DirectoriesSoFar, Sees, Before, Swapped,
        Prolongs
<1>6. CASE CheckRebuilt
  <2>1. at = "rebuilt" /\ load' = load
    BY <1>6 DEF CheckRebuilt
  <2>2. /\ Sees(directory) /\ directory.version = 0 /\ client = directory
        /\ published = UpdatedMap /\ ~poisoned
    BY <2>1 DEF Driven, LoadRuns, MapsSoFar, DirectoriesSoFar, Before, Swapped
  <2>3. /\ Finds(client, SampleExisting, NewBalance)
        /\ Finds(client, SampleNew, OldBalance)
    <3>1. /\ Finds(directory, SampleExisting, published[SampleExisting])
          /\ Finds(directory, SampleNew, published[SampleNew])
      BY <1>2, <2>2, SeesFinds, Samples
    <3> QED BY <2>2, <3>1, Samples
  <2>4. at' = "compact"
    <3>1. Continue(/\ Finds(client, SampleExisting, NewBalance)
                   /\ directory.version = 0 /\ client.version = 0
                   /\ Finds(client, SampleNew, OldBalance), "compact")
      BY <1>6 DEF CheckRebuilt
    <3> QED BY <2>2, <2>3, <3>1 DEF Continue
  <2>5. LoadRuns'
    BY <1>1, <1>2, <2>1, <2>4 DEF LoadRuns
  <2> QED BY <1>1, <2>1, <2>4, <2>5
    DEF Driven, MapsSoFar, SlotsSoFar, DirectoriesSoFar, Sees, Before, Swapped,
        Prolongs
<1> QED BY <1>3, <1>4, <1>5, <1>6

LEMMA StartRebuildDriven ==
  ASSUME Driven, Inductive', StartRebuild
  PROVE  Driven'
<1>1. UNCHANGED <<serving, book, published, poisoned, client, blob, load>>
  BY DEF StartRebuild, RebuildDatabase, RebuildKeywordIndex, Reindex, vars,
         serverVars
<1>2. LoadRuns /\ directory \in Directory
  BY DEF Driven, Inductive, TypeOK
<1>3. CASE at = "rebuild"
  <2>1. at' = "rebuilding" /\ UNCHANGED <<directory, records>>
    BY <1>3 DEF StartRebuild, RebuildDatabase, Driven, SlotsSoFar
  <2>2. LoadRuns'
    BY <1>1, <1>2, <1>3, <2>1 DEF LoadRuns
  <2> QED BY <1>1, <1>3, <2>1, <2>2
    DEF Driven, MapsSoFar, SlotsSoFar, DirectoriesSoFar, Sees, Before, Swapped,
        Prolongs
<1>4. CASE at = "compact"
  <2>1. ~ReindexRefused(RecordsToMap(records))
    <3>1. /\ Inductive /\ book = UpdatedMap
          /\ \A i \in 1 .. Len(records) : records[i].addr \in Initial \cup New
      BY <1>4 DEF Driven, MapsSoFar, SlotsSoFar, Swapped
    <3> QED BY <3>1, Samples, CompactionFits
  <2>2. at' = "compacting" /\ Reindex(RecordsToMap(records))
    BY <1>4, <2>1 DEF StartRebuild, RebuildKeywordIndex
  <2>3. directory'.version = 1
    <3>1. directory.version = 0
      BY <1>4 DEF Driven, DirectoriesSoFar, Swapped
    <3> QED BY <2>2, <3>1 DEF Reindex, RebuiltDirectories, NewDirectories
  <2>4. LoadRuns'
    BY <1>1, <1>2, <1>4, <2>2 DEF LoadRuns
  <2> QED BY <1>1, <1>4, <2>2, <2>3, <2>4
    DEF Driven, MapsSoFar, SlotsSoFar, DirectoriesSoFar, Before, Swapped
<1> QED BY <1>3, <1>4 DEF StartRebuild

(***************************************************************************)
(* The stretches of refresh(): until the install nothing served changes,   *)
(* and with it main's call is over.                                        *)
(***************************************************************************)
LEMMA RebuildDriven ==
  ASSUME Driven, Inductive', Rebuild
  PROVE  Driven'
<1>1. /\ at \in {"rebuilding", "compacting"}
      /\ UNCHANGED <<directory, records, poisoned, book, client, blob, load>>
      /\ LoadRuns /\ Inductive
  BY DEF Rebuild, EncodeStaging, TakeContext, Precompute, Install, EncodeFails,
         RefreshPoisoned, Driven
<1>2. CASE EncodeStaging \/ TakeContext \/ Precompute
  <2>1. at' = at /\ UNCHANGED <<serving, published>>
    BY <1>2 DEF Rebuild, EncodeStaging, TakeContext, Precompute, EncodeFails,
                RefreshPoisoned
  <2>2. LoadRuns'
    BY <1>1, <2>1 DEF LoadRuns
  <2> QED BY <1>1, <2>1, <2>2
    DEF Driven, MapsSoFar, SlotsSoFar, DirectoriesSoFar, Sees, Before, Swapped,
        Prolongs
<1>3. CASE Install
  <2>1. at' = IF at = "rebuilding" THEN "stop" ELSE "resync"
    BY <1>3 DEF Rebuild, Install, EncodeFails, RefreshPoisoned
  <2>2. JustServed'
    <3>1. staging = Encoded(records) /\ step = "install"
      BY <1>1, <1>3 DEF Install, Inductive, RefreshUnderWay
    <3>2. records' = records /\ serving'.db = staging /\ published' = book
          /\ book' = book
      BY <1>3 DEF Install
    <3>3. Encoded(records') = Encoded(records)
      BY <3>2
    <3>4. serving'.db = Encoded(records') /\ published' = book'
      BY <3>1, <3>2, <3>3
    <3>5. JustServed' <=> (serving'.db = Encoded(records') /\ published' = book')
      BY DEF JustServed, Encoded
    <3> QED BY <3>4, <3>5
  <2>3. Sees(directory)'
    BY <2>2, SeenNow, PTL
  <2>4. published' = UpdatedMap /\ book' = UpdatedMap
    BY <1>1, <1>3 DEF Install, Driven, MapsSoFar
  <2>5. LoadRuns'
    BY <1>1, <2>1 DEF LoadRuns
  <2>6. MapsSoFar' /\ SlotsSoFar'
    BY <1>1, <2>1, <2>4 DEF Driven, MapsSoFar, SlotsSoFar, Before, Swapped
  <2>7. DirectoriesSoFar'
    BY <1>1, <2>1, <2>3 DEF Driven, DirectoriesSoFar, Before, Swapped, Prolongs
  <2> QED BY <1>1, <2>1, <2>5, <2>6, <2>7 DEF Driven, Before, Swapped
<1>4. CASE EncodeFails \/ RefreshPoisoned
  <2>1. at' = "failed" /\ UNCHANGED <<serving, published>>
    BY <1>4 DEF Rebuild, EncodeFails, RefreshPoisoned, EncodeStaging, TakeContext,
                Precompute, Install
  <2>2. LoadRuns'
    BY <1>1, <2>1 DEF LoadRuns
  <2> QED BY <1>1, <2>1, <2>2
    DEF Driven, MapsSoFar, SlotsSoFar, DirectoriesSoFar, Before, Swapped
<1> QED BY <1>2, <1>3, <1>4 DEF Rebuild

LEMMA ResyncDriven ==
  ASSUME Driven, Inductive', Resync
  PROVE  Driven'
<1>1. /\ at = "resync" /\ client' = Applied(client, Full(directory))
      /\ UNCHANGED <<directory, records, serving, poisoned, book, published, blob,
                     load>>
  BY DEF Resync, vars, serverVars
<1>2. /\ Inductive /\ directory \in Directory /\ LoadRuns
      /\ Sees(directory) /\ directory.version = 1
      /\ published = UpdatedMap /\ book = UpdatedMap /\ ~poisoned
  BY <1>1
  DEF Driven, LoadRuns, DirectoriesSoFar, MapsSoFar, Before, Inductive, TypeOK
<1>3. client' = directory
  BY <1>1 DEF Applied, Full
<1>4. /\ Finds(directory, SampleExisting, NewBalance)
      /\ Finds(directory, SampleNew, OldBalance)
  <2>1. /\ Finds(directory, SampleExisting, published[SampleExisting])
        /\ Finds(directory, SampleNew, published[SampleNew])
    BY <1>2, SeesFinds, Samples
  <2> QED BY <1>2, <2>1, Samples
<1>5. at' = "done"
  <2>1. Continue(/\ directory.version = 1
                 /\ Finds(client', SampleExisting, NewBalance)
                 /\ Finds(client', SampleNew, OldBalance), "done")
    BY DEF Resync
  <2> QED BY <1>2, <1>3, <1>4, <2>1 DEF Continue
<1>6. LoadRuns'
  BY <1>1, <1>2, <1>5 DEF LoadRuns
<1>7. MapsSoFar' /\ SlotsSoFar'
  BY <1>1, <1>2, <1>5 DEF Driven, MapsSoFar, SlotsSoFar, Before, Swapped
<1>8. Sees(directory)'
  BY <1>1, <1>2 DEF Sees
<1>9. DirectoriesSoFar'
  BY <1>5, <1>8 DEF DirectoriesSoFar, Before, Swapped
<1> QED BY <1>2, <1>3, <1>5, <1>6, <1>7, <1>9 DEF Driven

(***************************************************************************)
(* The load generator meets the old balance before the install and the new *)
(* one after it, at the same slot.                                         *)
(***************************************************************************)
LEMMA LoadDriven ==
  ASSUME Driven, Inductive', LoadCheck \/ LoadQuery \/ LoadFails
  PROVE  Driven'
<1>1. UNCHANGED <<directory, records, serving, pending, book, published, at,
                  client, blob>>
  BY DEF LoadCheck, LoadQuery, LoadFails, ResponderPanics, vars, serverVars
<1>2. LoadRuns /\ at # "failed"
  BY DEF Driven, LoadCheck, LoadQuery, LoadFails, Running
<1>3. CASE LoadCheck
  <2>1. /\ load.pc = "check" /\ poisoned' = poisoned
        /\ load' = [load EXCEPT !.pc = IF stop THEN "done" ELSE "query"]
    BY <1>3 DEF LoadCheck, vars, serverVars
  <2>2. load'.pc \in {"done", "query", "check"}
    BY <1>1, <1>2, <2>1 DEF LoadRuns
  <2>3. LoadRuns'
    BY <1>1, <1>2, <2>1, <2>2 DEF LoadRuns
  <2> QED BY <1>1, <2>3
    DEF Driven, MapsSoFar, SlotsSoFar, DirectoriesSoFar, Sees, Before, Swapped,
        Prolongs
<1>4. CASE LoadQuery
  <2> DEFINE slot == Index(blob, SampleExisting)
  <2>1. /\ load.pc = "query"
        /\ at \in {"rebuild", "rebuilding", "stop", "join"}
        /\ ~poisoned /\ ~poisoned'
    BY <1>2, <1>4 DEF LoadQuery, LoadRuns, vars, serverVars
  <2>2. /\ Inductive /\ directory \in Directory /\ Sees(directory)
        /\ slot = Index(directory, SampleExisting)
        /\ published \in {InitialMap, UpdatedMap}
    BY <2>1 DEF Driven, DirectoriesSoFar, MapsSoFar, Before, Swapped, Inductive,
                TypeOK
  <2>3. \A r \in Responses(slot) :
          TryDecrypt(r, SampleExisting) \in {OldBalance, NewBalance}
    <3>1. Finds(directory, SampleExisting, published[SampleExisting])
      BY <2>1, <2>2, SeesFinds, Samples
    <3>2. published[SampleExisting] \in {OldBalance, NewBalance}
      BY <2>2, Samples
    <3> QED BY <2>2, <3>1, <3>2 DEF Finds
  <2>4. load'.pc = "check"
    <3>1. PICK r \in Responses(slot) :
            load' = [ pc |-> IF TryDecrypt(r, SampleExisting)
                                  \in {OldBalance, NewBalance}
                             THEN "check" ELSE "panicked",
                      before |-> load.before
                                   \/ TryDecrypt(r, SampleExisting) = OldBalance,
                      after |-> load.after
                                  \/ TryDecrypt(r, SampleExisting) = NewBalance ]
      BY <1>4 DEF LoadQuery
    <3>2. TryDecrypt(r, SampleExisting) \in {OldBalance, NewBalance}
      BY <2>3
    <3> HIDE DEF slot
    <3> QED BY <3>1, <3>2
  <2>5. LoadRuns'
    BY <1>1, <2>1, <2>4 DEF LoadRuns
  <2> QED BY <1>1, <2>5
    DEF Driven, MapsSoFar, SlotsSoFar, DirectoriesSoFar, Sees, Before, Swapped,
        Prolongs
<1>5. CASE LoadFails
  <2>1. load.pc = "query" /\ load' = [load EXCEPT !.pc = "failed"]
    BY <1>5 DEF LoadFails
  <2>2. load'.pc = "failed"
    BY <1>2, <2>1 DEF LoadRuns
  <2>3. LoadRuns'
    BY <1>1, <1>2, <2>1, <2>2 DEF LoadRuns
  <2> QED BY <1>1, <2>3
    DEF Driven, MapsSoFar, SlotsSoFar, DirectoriesSoFar, Sees, Before, Swapped,
        Prolongs
<1> QED BY <1>3, <1>4, <1>5

LEMMA DrivenStep == Driven /\ [ExampleNext]_exampleVars => Driven'
<1> SUFFICES ASSUME Driven, [ExampleNext]_exampleVars PROVE Driven'
  OBVIOUS
<1>1. Inductive'
  BY ExampleIsServer, StepInductive DEF Driven
<1>2. CASE UNCHANGED exampleVars
  <2>1. UNCHANGED <<directory, records, serving, pending, poisoned, book,
                    published, at, client, blob, load>>
    BY <1>2 DEF exampleVars, vars, serverVars
  <2> QED BY <1>1, <2>1
    DEF Driven, LoadRuns, MapsSoFar, SlotsSoFar, DirectoriesSoFar, Sees, Before,
        Swapped, Prolongs
<1>3. CASE Main
  BY <1>1, <1>3, BootstrapDriven, ApplyUpdateDriven, SyncTailDriven, QuietDriven,
     StartRebuildDriven, RebuildDriven, ResyncDriven DEF Main
<1>4. CASE LoadCheck \/ LoadQuery \/ LoadFails
  BY <1>1, <1>4, LoadDriven
<1> QED BY <1>2, <1>3, <1>4 DEF ExampleNext

THEOREM ExampleInvariance == ExampleSpec => []Driven
BY DrivenInit, DrivenStep, PTL DEF ExampleSpec

(***************************************************************************)
(* EveryAssertHolds: AssertionsHold, the asserts of examples/eth_pir.rs on *)
(* what is looked up and on the versions, and its expects: no update finds *)
(* the database full, the tail is accepted, neither rebuild is refused or  *)
(* has nothing to do.                                                      *)
(***************************************************************************)
THEOREM EveryAssertHolds == ExampleSpec => []AssertionsHold
<1>1. Driven => AssertionsHold
  BY DEF Driven, LoadRuns, AssertionsHold, Before, Swapped
<1> QED BY <1>1, ExampleInvariance, PTL
=============================================================================
