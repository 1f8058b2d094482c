----------------------------- MODULE RestoreProofs -----------------------------
(***************************************************************************)
(* What a restore gives back: every address of the checkpoint at its slot, *)
(* a report that adds up and, when blob and keys come from two             *)
(* checkpoints, a server that holds the map all the same.                  *)
(***************************************************************************)
EXTENDS TornCheckpoint, EthPirServerProofs

(***************************************************************************)
(* An address a checkpoint holds gets its record back at its own slot, so  *)
(* it is not pushed again.                                                 *)
(***************************************************************************)
LEMMA PlacedAgain ==
  ASSUME NEW d \in Directory, NEW keys \in Seq(Address), KeysPlaced(d, keys),
         NEW map \in Map, NEW a \in NonZero, map[a] # None,
         IF InDelta(d, a) THEN TRUE ELSE keys[Index(d, a) + 1] = a
  PROVE  Carries(d, PlacedRecords(d, keys, map), a)
<1> DEFINE placed == PlacedRecords(d, keys, map)
           s == Index(d, a)
<1>1. PICK m \in Nat, base \in Nat : m = Len(d.delta) /\ base = d.base
  BY DirectoryFields
<1>2. a \in Address /\ a # ZeroAddress /\ DirectoryLen(d) = base + m
  BY <1>1 DEF NonZero, DirectoryLen
<1>3. s \in 0 .. base + m - 1 /\ (InDelta(d, a) <=> s >= base)
  BY <1>1, <1>2, IndexRange
<1>4. PICK i \in 1 .. base + m : i = s + 1
  BY <1>3
<1>5. (IF i <= base THEN keys[i] ELSE d.delta[i - base]) = a
  <2>1. CASE InDelta(d, a)
    <3>1. PICK j \in 1 .. m : d.delta[j] = a
      BY <1>1, <2>1 DEF InDelta
    <3>2. s = base - 1 + j
      BY <1>1, <3>1, IndexInDelta
    <3>3. ~(i <= base) /\ i - base = j
      BY <1>4, <3>2
    <3> QED BY <3>1, <3>3
  <2>2. CASE ~InDelta(d, a)
    <3>1. i <= base /\ keys[i] = a
      BY <1>3, <1>4, <2>2
    <3> QED BY <3>1
  <2> QED BY <2>1, <2>2
<1>6. placed[i] = RecordOf(a, map[a])
  BY <1>1, <1>2, <1>5 DEF PlacedRecords
<1>7. Len(placed) = base + m
  BY <1>2, Placed
<1> HIDE DEF placed, s
<1>8. s < Len(placed) /\ placed[s + 1].addr = a
  BY <1>3, <1>4, <1>6, <1>7 DEF RecordOf
<1> QED BY <1>8 DEF Carries, placed, s

(***************************************************************************)
(* RestoresMoveNothing: RestoreMovesNothing, for any checkpoint stored and *)
(* any map it is restored with.                                            *)
(***************************************************************************)
THEOREM RestoresMoveNothing == Spec => RestoreMovesNothing
<1> DEFINE Stays ==
             RestoreWith(book') =>
               \A a \in NonZero : InCheckpoint(a) /\ book'[a] # None =>
                 /\ Carries(directory, records, a)'
                 /\ Index(directory, a)' = Index(saved.directory, a)
<1>1. Inductive /\ [Next]_vars => [Stays]_vars
  <2> SUFFICES ASSUME Inductive, Next, RestoreWith(book'), NEW a \in NonZero,
                      InCheckpoint(a), book'[a] # None
               PROVE  /\ Carries(directory, records, a)'
                      /\ Index(directory, a)' = Index(saved.directory, a)
    OBVIOUS
  <2>1. Inductive' /\ HoldsBook'
    <3>1. Inductive'
      BY StepInductive
    <3>2. (Inductive => HoldsBook)'
      BY Consequences, PTL
    <3> QED BY <3>1, <3>2
  <2>2. Carries(directory, records, a)'
    BY <2>1 DEF HoldsBook, Holds, Held
  <2>3. PICK map \in Map : map = book'
    BY <2>1 DEF Inductive, TypeOK
  <2>4. PICK d \in Directory, keys \in Seq(Address) :
          d = saved.directory /\ keys = saved.keys /\ KeysPlaced(d, keys)
    BY DEF RestoreWith, Inductive, TypeOK, SavedPlaced, Checkpoint
  <2> DEFINE placed == PlacedRecords(d, keys, map)
             new == KeysToAppend(d, placed, map)
  <2>5. /\ Fits(DirectoryLen(d) + Cardinality(new))
        /\ \A b \in new : ~InDelta(d, b)
        /\ \E order \in SetToSeqs(new) : directory' = Extended(d, order)
    BY <2>3, <2>4, Zenon DEF RestoreWith, RestoreFrom, Assemble
  <2>6. PICK order \in SetToSeqs(new) : directory' = Extended(d, order)
    BY <2>5
  <2>7. a \notin new /\ a \in Address
    BY <2>3, <2>4, PlacedAgain DEF InCheckpoint, KeysToAppend, NonZero
  <2>8. new \in SUBSET Address
    BY DEF KeysToAppend, Keys
  <2> HIDE DEF placed, new
  <2>9. /\ order \in Seq(Address) /\ Len(order) = Cardinality(new)
        /\ \A i, j \in 1 .. Len(order) : order[i] = order[j] => i = j
        /\ \A i \in 1 .. Len(order) : order[i] \in new
    BY <2>6, <2>8, Ordering
  <2>10. Extends(d, order)
    BY <2>5, <2>9 DEF Extends
  <2>11. Index(directory', a) = Index(d, a)
    BY <2>6, <2>7, <2>9, <2>10, Extension
  <2> QED BY <2>2, <2>4, <2>11
<1>2. [][Stays]_vars => RestoreMovesNothing
  BY PTL DEF RestoreMovesNothing
<1> QED BY <1>1, <1>2, Invariance, PTL DEF Spec
-------------------------------------------------------------------------------
(***************************************************************************)
(* Restores from halves of two checkpoints.  The keys need not stand where *)
(* the directory says any more, so Inductive is not kept.  What is kept is *)
(* weaker: a record that does not stand where the directory says was left  *)
(* behind, in a slot of the MPHF, by an address that has its record in the *)
(* delta.  For this no two keys of a checkpoint may be the same.           *)
(***************************************************************************)
Settled(d, recs) ==
  \A i \in 1 .. Len(recs) : recs[i].addr \in NonZero =>
    \/ Index(d, recs[i].addr) = i - 1
    \/ /\ i <= d.base
       /\ InDelta(d, recs[i].addr)
       /\ Carries(d, recs, recs[i].addr)

DistinctKeys(keys) ==
  \A i, j \in 1 .. Len(keys) :
    keys[i] = keys[j] /\ keys[i] \in NonZero => i = j

TornSound(d, recs, map) ==
  /\ d \in Directory
  /\ recs \in Seq(Record)
  /\ Len(recs) = DirectoryLen(d)
  /\ Settled(d, recs)
  /\ \A i, j \in 1 .. d.base :
       recs[i].addr = recs[j].addr /\ recs[i].addr \in NonZero => i = j
  /\ Holds(d, recs, map)

TornCheckpoints(c) == c # None => c \in Checkpoint /\ DistinctKeys(c.keys)

TornInductive ==
  /\ book \in Map
  /\ TornSound(directory, records, book)
  /\ TornCheckpoints(saved)
  /\ TornCheckpoints(earlier)

\* The lengths of a directory and its records, as numbers.
LEMMA Lengths ==
  ASSUME NEW d \in Directory, NEW recs \in Seq(Record),
         Len(recs) = DirectoryLen(d)
  PROVE  \E base, m, n \in Nat :
           /\ base = d.base /\ m = Len(d.delta) /\ n = Len(recs)
           /\ n = base + m /\ base >= 1
<1>1. /\ d.base \in Nat /\ d.base >= 1 /\ Len(d.delta) \in Nat
      /\ Len(recs) = d.base + Len(d.delta)
  BY DirectoryFields, CapacityAssumption DEF DirectoryLen
<1>2. Len(recs) \in Nat
  BY LenProperties
<1> QED BY <1>1, <1>2

\* Sound records are settled.
LEMMA SoundIsTornSound ==
  ASSUME NEW d, NEW recs, NEW map \in Map, Sound(d, recs, map)
  PROVE  TornSound(d, recs, map)
<1>1. /\ d \in Directory /\ recs \in Seq(Record) /\ Len(recs) = DirectoryLen(d)
      /\ RecordsPlaced(d, recs) /\ Lists(recs, map)
  BY DEF Sound
<1>2. PICK base \in Nat, m \in Nat, n \in Nat :
        base = d.base /\ n = Len(recs) /\ n = base + m
  BY <1>1, Lengths
<1>3. Settled(d, recs)
  BY <1>1 DEF RecordsPlaced, Settled
<1>4. Holds(d, recs, map)
  BY <1>1, HoldsIsLists
<1>5. ASSUME NEW i \in 1 .. base, NEW j \in 1 .. base,
             recs[i].addr = recs[j].addr, recs[i].addr \in NonZero
      PROVE  i = j
  <2>1. i \in 1 .. n /\ j \in 1 .. n
    BY <1>2
  <2>2. Index(d, recs[i].addr) = i - 1 /\ Index(d, recs[i].addr) = j - 1
    BY <1>1, <1>2, <1>5, <2>1 DEF RecordsPlaced
  <2> QED BY <2>2
<1> QED BY <1>1, <1>2, <1>3, <1>4, <1>5 DEF TornSound

(***************************************************************************)
(* An address that has a record anywhere is carried, by the last of its    *)
(* records; a slot of the delta has the record of its own address or none. *)
(***************************************************************************)
LEMMA LastIsCarried ==
  ASSUME NEW d, NEW recs, NEW map, TornSound(d, recs, map), NEW a \in NonZero
  PROVE  /\ \A i \in 1 .. Len(recs) : recs[i].addr = a =>
              Carries(d, recs, a) /\ i <= Index(d, a) + 1
         /\ Carries(d, recs, a) => Index(d, a) + 1 \in 1 .. Len(recs)
<1>1. /\ d \in Directory /\ recs \in Seq(Record) /\ Len(recs) = DirectoryLen(d)
      /\ Settled(d, recs) /\ a \in Address
  BY DEF TornSound, NonZero
<1>2. PICK base \in Nat, m \in Nat, n \in Nat :
        /\ base = d.base /\ m = Len(d.delta) /\ n = Len(recs)
        /\ n = base + m
  BY <1>1, Lengths
<1>3. PICK s \in Nat : s = Index(d, a) /\ s < n /\ (InDelta(d, a) <=> s >= base)
  <2>1. Index(d, a) \in 0 .. DirectoryLen(d) - 1
    BY <1>1, IndexRange
  <2> QED BY <1>1, <1>2, <2>1, IndexRange
<1>4. ASSUME NEW i \in 1 .. n, recs[i].addr = a
      PROVE  Carries(d, recs, a) /\ i <= s + 1
  <2>1. CASE s = i - 1
    BY <1>2, <1>3, <1>4, <2>1 DEF Carries
  <2>2. CASE i <= base /\ InDelta(d, a) /\ Carries(d, recs, a)
    BY <1>2, <1>3, <2>2
  <2> QED BY <1>1, <1>2, <1>3, <1>4, <2>1, <2>2 DEF Settled
<1>5. s + 1 \in 1 .. n
  BY <1>3
<1> QED BY <1>2, <1>3, <1>4, <1>5

LEMMA TornDeltaSlot ==
  ASSUME NEW d, NEW recs, NEW map, TornSound(d, recs, map),
         NEW a \in Address, InDelta(d, a)
  PROVE  /\ Index(d, a) + 1 \in 1 .. Len(recs)
         /\ Index(d, a) + 1 > d.base
         /\ recs[Index(d, a) + 1].addr \in {a, ZeroAddress}
<1>1. /\ d \in Directory /\ recs \in Seq(Record) /\ Len(recs) = DirectoryLen(d)
      /\ Settled(d, recs)
  BY DEF TornSound
<1>2. PICK base \in Nat, m \in Nat, n \in Nat :
        /\ base = d.base /\ m = Len(d.delta) /\ n = Len(recs)
        /\ n = base + m
  BY <1>1, Lengths
<1>3. PICK i \in 1 .. m : d.delta[i] = a
  BY <1>2 DEF InDelta
<1>4. PICK k \in 1 .. n : k = base + i
  BY <1>2
<1>5. Index(d, a) + 1 = k /\ k > base
  <2>1. Index(d, a) = base - 1 + i
    BY <1>1, <1>2, <1>3, IndexInDelta
  <2> QED BY <1>4, <2>1
<1>6. ASSUME NEW b \in NonZero, recs[k].addr = b
      PROVE  b = a
  <2>1. Index(d, b) = k - 1 /\ b \in Address
    BY <1>1, <1>2, <1>5, <1>6 DEF Settled, NonZero
  <2>2. InDelta(d, b)
    BY <1>1, <1>2, <1>5, <2>1, IndexRange
  <2>3. PICK j \in 1 .. m : d.delta[j] = b
    BY <1>2, <2>2 DEF InDelta
  <2>4. Index(d, b) = base - 1 + j
    BY <1>1, <1>2, <2>3, IndexInDelta
  <2>5. i = j
    BY <1>4, <2>1, <2>4
  <2> QED BY <1>3, <2>3, <2>5
<1>7. recs[k].addr \in Address
  BY <1>1, <1>2, ElementOfSeq, RecordFields
<1> QED BY <1>2, <1>5, <1>6, <1>7 DEF NonZero

(***************************************************************************)
(* records_to_map takes the last record of an address, so it reads the map *)
(* back whatever leftovers there are.                                      *)
(***************************************************************************)
LEMMA TornReread ==
  ASSUME NEW d, NEW recs, NEW map \in Map, TornSound(d, recs, map)
  PROVE  /\ RecordsToMap(recs) \in Map
         /\ \A a \in NonZero : RecordsToMap(recs)[a] = map[a]
<1> DEFINE at(a) == {i \in 1 .. Len(recs) : recs[i].addr = a}
           last(a) == CHOOSE i \in at(a) : \A j \in at(a) : j <= i
<1>1. /\ d \in Directory /\ recs \in Seq(Record) /\ Len(recs) = DirectoryLen(d)
      /\ Holds(d, recs, map)
  BY DEF TornSound
<1>2. PICK n \in Nat : n = Len(recs)
  BY <1>1, LenProperties
<1>3. \A i \in 1 .. n : recs[i].addr \in Address /\ recs[i].value \in Value
  BY <1>1, <1>2, ElementOfSeq, RecordFields
<1>4. ASSUME NEW a \in Address, at(a) # {}
      PROVE  last(a) \in at(a) /\ \A j \in at(a) : j <= last(a)
  <2>1. at(a) \in SUBSET (1 .. n)
    BY <1>2
  <2>2. \E i \in at(a) : \A j \in at(a) : j <= i
    BY <1>4, <2>1, Greatest
  <2> QED BY <2>2, Zenon
<1>5. \A a \in Address : RecordsToMap(recs)[a] =
        IF at(a) = {} THEN None ELSE recs[last(a)].value
  BY DEF RecordsToMap
<1>6. \A a \in Address : \A i \in at(a) : i \in 1 .. n /\ recs[i].addr = a
  BY <1>2
<1>7. \A a \in Address : \A i \in 1 .. n : recs[i].addr = a => i \in at(a)
  BY <1>2
<1>8. RecordsToMap(recs) = [a \in Address |-> RecordsToMap(recs)[a]]
  BY DEF RecordsToMap
<1> HIDE DEF at, last
<1>9. RecordsToMap(recs) \in Map
  <2>1. \A a \in Address : RecordsToMap(recs)[a] \in Value \cup {None}
    BY <1>3, <1>4, <1>5, <1>6
  <2> QED BY <1>8, <2>1 DEF Map
<1>10. ASSUME NEW a \in NonZero
       PROVE  RecordsToMap(recs)[a] = map[a]
  <2>1. a \in Address /\ Held(d, recs, a) = map[a]
    BY <1>1 DEF NonZero, Holds
  <2>2. CASE at(a) = {}
    <3>1. ~Carries(d, recs, a)
      BY <1>2, <1>7, <2>1, <2>2, LastIsCarried DEF Carries
    <3> QED BY <1>5, <2>1, <2>2, <3>1 DEF Held
  <2>3. CASE at(a) # {}
    <3>1. last(a) \in 1 .. n /\ recs[last(a)].addr = a
      BY <1>4, <1>6, <2>1, <2>3
    <3>2. /\ Carries(d, recs, a) /\ last(a) <= Index(d, a) + 1
          /\ Index(d, a) + 1 \in 1 .. n
      BY <1>2, <3>1, LastIsCarried
    <3>3. Index(d, a) + 1 \in at(a)
      BY <1>7, <2>1, <3>2 DEF Carries
    <3>4. Index(d, a) + 1 <= last(a)
      BY <1>4, <2>1, <2>3, <3>3
    <3>5. last(a) = Index(d, a) + 1
      BY <3>1, <3>2, <3>4
    <3> QED BY <1>5, <2>1, <2>3, <3>2, <3>5 DEF Held
  <2> QED BY <2>2, <2>3
<1> QED BY <1>9, <1>10
-------------------------------------------------------------------------------
\* update on a slot the address already has.
LEMMA TornReplaced ==
  ASSUME NEW d, NEW recs, NEW map \in Map, TornSound(d, recs, map),
         NEW a \in Address, NEW v \in Value,
         NEW i \in 1 .. Len(recs), i = Index(d, a) + 1,
         recs[i].addr = a \/ (i > d.base /\ recs[i].addr = ZeroAddress)
  PROVE  TornSound(d, [recs EXCEPT ![i] = RecordOf(a, v)], [map EXCEPT ![a] = v])
<1> DEFINE after == [recs EXCEPT ![i] = RecordOf(a, v)]
           wanted == [map EXCEPT ![a] = v]
<1>1. /\ d \in Directory /\ recs \in Seq(Record) /\ Len(recs) = DirectoryLen(d)
      /\ Settled(d, recs) /\ Holds(d, recs, map)
  BY DEF TornSound
<1>2. PICK base \in Nat, m \in Nat, n \in Nat :
        base = d.base /\ n = Len(recs) /\ n = base + m
  BY <1>1, Lengths
<1>3. /\ after \in Seq(Record) /\ Len(after) = n
      /\ after[i].addr = a /\ after[i].value = v
      /\ \A j \in 1 .. n : j # i => after[j] = recs[j]
  BY <1>1, <1>2, RecordFields, ExceptSeq
<1>4. wanted[a] = v /\ \A b \in Address : b # a => wanted[b] = map[b]
  BY DEF Map
<1>5. Index(d, a) = i - 1
  BY <1>1, IndexRange
<1> HIDE DEF after, wanted
<1>6. Carries(d, after, a) /\ Held(d, after, a) = v
  <2>1. Index(d, a) < Len(after) /\ Index(d, a) + 1 = i
    BY <1>2, <1>3, <1>5
  <2> QED BY <1>3, <2>1 DEF Carries, Held
<1>7. ASSUME NEW b \in NonZero, b # a
      PROVE  /\ Carries(d, after, b) <=> Carries(d, recs, b)
             /\ Held(d, after, b) = Held(d, recs, b)
  <2>1. PICK s \in Nat : s = Index(d, b) /\ s < n
    <3>1. Index(d, b) \in 0 .. DirectoryLen(d) - 1
      BY <1>1, IndexRange DEF NonZero
    <3> QED BY <1>1, <1>2, <3>1
  <2>2. CASE s + 1 = i
    BY <1>3, <1>7, <2>1, <2>2 DEF Carries, Held, NonZero
  <2>3. CASE s + 1 # i
    <3>1. after[s + 1] = recs[s + 1]
      BY <1>3, <2>1, <2>3
    <3> QED BY <1>2, <1>3, <2>1, <3>1 DEF Carries, Held
  <2> QED BY <2>2, <2>3
<1>8. Settled(d, after)
  <2> SUFFICES ASSUME NEW j \in 1 .. n, after[j].addr \in NonZero
               PROVE  \/ Index(d, after[j].addr) = j - 1
                      \/ /\ j <= d.base
                         /\ InDelta(d, after[j].addr)
                         /\ Carries(d, after, after[j].addr)
    BY <1>3 DEF Settled
  <2>1. CASE j = i
    BY <1>3, <1>5, <2>1
  <2>2. CASE j # i
    <3>1. after[j] = recs[j] /\ j \in 1 .. Len(recs)
      BY <1>2, <1>3, <2>2
    <3>2. \/ Index(d, recs[j].addr) = j - 1
          \/ /\ j <= d.base
             /\ InDelta(d, recs[j].addr)
             /\ Carries(d, recs, recs[j].addr)
      BY <1>1, <3>1 DEF Settled
    <3>3. Carries(d, recs, recs[j].addr) => Carries(d, after, recs[j].addr)
      BY <1>6, <1>7, <3>1
    <3> QED BY <3>1, <3>2, <3>3
  <2> QED BY <2>1, <2>2
<1>9. \A j, k \in 1 .. d.base :
        after[j].addr = after[k].addr /\ after[j].addr \in NonZero => j = k
  <2> SUFFICES ASSUME NEW j \in 1 .. base, NEW k \in 1 .. base,
                      after[j].addr = after[k].addr, after[j].addr \in NonZero
               PROVE  j = k
    BY <1>2
  <2>1. \A l \in 1 .. base : l \in 1 .. n /\ after[l].addr = recs[l].addr
    <3> SUFFICES ASSUME NEW l \in 1 .. base
                 PROVE  l \in 1 .. n /\ after[l].addr = recs[l].addr
      OBVIOUS
    <3>1. l \in 1 .. n
      BY <1>2
    <3>2. CASE l = i
      BY <1>2, <1>3, <3>1, <3>2
    <3>3. CASE l # i
      BY <1>3, <3>1, <3>3
    <3> QED BY <3>1, <3>2, <3>3
  <2> QED BY <1>2, <2>1 DEF TornSound
<1>10. Holds(d, after, wanted)
  <2> SUFFICES ASSUME NEW b \in NonZero PROVE Held(d, after, b) = wanted[b]
    BY DEF Holds
  <2>1. CASE b = a
    BY <1>4, <1>6, <2>1
  <2>2. CASE b # a
    BY <1>1, <1>4, <1>7, <2>2 DEF Holds, NonZero
  <2> QED BY <2>1, <2>2
<1> QED BY <1>1, <1>2, <1>3, <1>8, <1>9, <1>10 DEF TornSound, after, wanted

\* update on an address that has no slot.
LEMMA TornInserted ==
  ASSUME NEW d, NEW recs, NEW map \in Map, TornSound(d, recs, map),
         NEW a \in Address, NEW v \in Value,
         ~Carries(d, recs, a), ~InDelta(d, a), Fits(DirectoryLen(d) + 1)
  PROVE  TornSound(Pushed(d, a), Append(recs, RecordOf(a, v)),
                   [map EXCEPT ![a] = v])
<1> DEFINE e == Pushed(d, a)
           after == Append(recs, RecordOf(a, v))
           wanted == [map EXCEPT ![a] = v]
<1>1. /\ d \in Directory /\ recs \in Seq(Record) /\ Len(recs) = DirectoryLen(d)
      /\ Settled(d, recs) /\ Holds(d, recs, map)
  BY DEF TornSound
<1>2. PICK base \in Nat, m \in Nat, n \in Nat :
        /\ base = d.base /\ m = Len(d.delta) /\ n = Len(recs)
        /\ n = base + m
  BY <1>1, Lengths
<1>3. /\ e \in Directory /\ e.base = base /\ DirectoryLen(e) = n + 1
      /\ Index(e, a) = n /\ InDelta(e, a)
      /\ \A b \in Address : b # a => Index(e, b) = Index(d, b)
      /\ \A b \in Address : InDelta(d, b) => InDelta(e, b)
  <2>1. /\ e \in Directory /\ Prolongs(d, e)
        /\ \A b \in Address : b # a => Index(e, b) = Index(d, b)
    BY <1>1, PushProlongs
  <2>2. d.delta \in Seq(Address) /\ e.delta = Append(d.delta, a)
    BY <1>1, DirectoryFields DEF Pushed, Directory
  <2> HIDE DEF e
  <2>3. /\ Len(e.delta) = m + 1 /\ e.delta[m + 1] = a
        /\ \A i \in 1 .. m : e.delta[i] = d.delta[i]
    BY <1>2, <2>2, AppendProperties
  <2>4. e.base = base /\ m + 1 \in 1 .. Len(e.delta)
    BY <1>2, <2>1, <2>3 DEF Prolongs
  <2>5. InDelta(e, a) /\ Index(e, a) = base - 1 + (m + 1)
    BY <2>1, <2>3, <2>4, IndexInDelta
  <2>6. DirectoryLen(e) = n + 1
    BY <1>2, <2>3, <2>4 DEF DirectoryLen
  <2>7. ASSUME NEW b \in Address, InDelta(d, b) PROVE InDelta(e, b)
    <3>1. PICK i \in 1 .. m : d.delta[i] = b
      BY <1>2, <2>7 DEF InDelta
    <3>2. i \in 1 .. Len(e.delta) /\ e.delta[i] = b
      BY <2>3, <3>1
    <3> QED BY <3>2 DEF InDelta
  <2> QED BY <1>2, <2>1, <2>4, <2>5, <2>6, <2>7
<1>4. /\ after \in Seq(Record) /\ Len(after) = n + 1
      /\ after[n + 1].addr = a /\ after[n + 1].value = v
      /\ \A j \in 1 .. n : after[j] = recs[j]
  BY <1>1, <1>2, RecordFields, AppendProperties
<1>5. wanted[a] = v /\ \A b \in Address : b # a => wanted[b] = map[b]
  BY DEF Map
<1> HIDE DEF e, after, wanted
<1>6. Carries(e, after, a) /\ Held(e, after, a) = v
  BY <1>3, <1>4 DEF Carries, Held
<1>7. ASSUME NEW b \in NonZero, b # a
      PROVE  /\ Carries(e, after, b) <=> Carries(d, recs, b)
             /\ Held(e, after, b) = Held(d, recs, b)
  <2>1. PICK s \in Nat : s = Index(d, b) /\ s < n
    <3>1. Index(d, b) \in 0 .. DirectoryLen(d) - 1
      BY <1>1, IndexRange DEF NonZero
    <3> QED BY <1>1, <1>2, <3>1
  <2>2. Index(e, b) = s /\ after[s + 1] = recs[s + 1] /\ s < Len(after)
    BY <1>3, <1>4, <1>7, <2>1 DEF NonZero
  <2> QED BY <1>2, <2>1, <2>2 DEF Carries, Held
<1>8. ASSUME NEW j \in 1 .. n, recs[j].addr \in NonZero
      PROVE  recs[j].addr # a
  BY <1>2, <1>8, LastIsCarried
<1>9. Settled(e, after)
  <2> SUFFICES ASSUME NEW j \in 1 .. n + 1, after[j].addr \in NonZero
               PROVE  \/ Index(e, after[j].addr) = j - 1
                      \/ /\ j <= e.base
                         /\ InDelta(e, after[j].addr)
                         /\ Carries(e, after, after[j].addr)
    BY <1>4 DEF Settled
  <2>1. CASE j = n + 1
    BY <1>3, <1>4, <2>1
  <2>2. CASE j \in 1 .. n
    <3> DEFINE b == recs[j].addr
    <3>1. after[j].addr = b /\ b \in NonZero /\ b # a /\ b \in Address
      BY <1>4, <1>8, <2>2 DEF NonZero
    <3>2. \/ Index(d, b) = j - 1
          \/ j <= d.base /\ InDelta(d, b) /\ Carries(d, recs, b)
      BY <1>1, <1>2, <2>2, <3>1 DEF Settled
    <3>3. /\ Index(e, b) = Index(d, b)
          /\ InDelta(d, b) => InDelta(e, b)
          /\ Carries(e, after, b) <=> Carries(d, recs, b)
          /\ e.base = d.base
      BY <1>2, <1>3, <1>7, <3>1
    <3> HIDE DEF b
    <3> QED BY <3>1, <3>2, <3>3
  <2> QED BY <1>2, <2>1, <2>2
<1>10. \A j, k \in 1 .. e.base :
         after[j].addr = after[k].addr /\ after[j].addr \in NonZero => j = k
  <2>1. \A l \in 1 .. base : after[l] = recs[l]
    BY <1>2, <1>4
  <2> QED BY <1>2, <1>3, <2>1 DEF TornSound
<1>11. Holds(e, after, wanted)
  <2> SUFFICES ASSUME NEW b \in NonZero PROVE Held(e, after, b) = wanted[b]
    BY DEF Holds
  <2>1. CASE b = a
    BY <1>5, <1>6, <2>1
  <2>2. CASE b # a
    BY <1>1, <1>5, <1>7, <2>2 DEF Holds, NonZero
  <2> QED BY <2>1, <2>2
<1> QED BY <1>3, <1>4, <1>9, <1>10, <1>11 DEF TornSound, e, after, wanted

(***************************************************************************)
(* place_checkpoint_slots and place_delta_slots with keys that have only   *)
(* their number to do with the directory.                                  *)
(***************************************************************************)
LEMMA TornPlaced ==
  ASSUME NEW d \in Directory, NEW keys \in Seq(Address), Len(keys) = d.base,
         NEW map \in Map
  PROVE  LET placed == PlacedRecords(d, keys, map) IN
         /\ placed \in Seq(Record)
         /\ Len(placed) = DirectoryLen(d)
         /\ \A i \in 1 .. Len(placed) : placed[i].addr \in NonZero =>
              /\ map[placed[i].addr] = placed[i].value
              /\ placed[i].addr = IF i <= d.base THEN keys[i]
                                  ELSE d.delta[i - d.base]
<1> DEFINE placed == PlacedRecords(d, keys, map)
           addr(i) == IF i <= d.base THEN keys[i] ELSE d.delta[i - d.base]
           kept(i) == map[addr(i)] # None /\ ~(i <= d.base /\ addr(i) = ZeroAddress)
<1>1. PICK m \in Nat, base \in Nat : m = Len(d.delta) /\ base = d.base
  BY DirectoryFields
<1>2. DirectoryLen(d) = base + m /\ Len(keys) = base
  BY <1>1 DEF DirectoryLen
<1>3. ASSUME NEW i \in 1 .. base + m
      PROVE  addr(i) \in Address
  <2>1. CASE i <= base
    <3>1. i \in 1 .. Len(keys) /\ addr(i) = keys[i]
      BY <1>1, <1>2, <2>1
    <3> QED BY <3>1, ElementOfSeq
  <2>2. CASE ~(i <= base)
    <3>1. PICK j \in 1 .. m : j = i - base
      BY <2>2
    <3>2. addr(i) = d.delta[j]
      BY <1>1, <2>2, <3>1
    <3> QED BY <1>1, <3>1, <3>2, ElementOfSeq DEF Directory
  <2> QED BY <2>1, <2>2
<1>4. placed = [ i \in 1 .. base + m |->
                   IF kept(i) THEN RecordOf(addr(i), map[addr(i)])
                   ELSE ZeroRecord ]
  BY <1>2 DEF PlacedRecords
<1> HIDE DEF placed, addr
<1>5. ASSUME NEW i \in 1 .. base + m
      PROVE  /\ placed[i] \in Record
             /\ \/ /\ placed[i].addr = addr(i)
                   /\ placed[i].value = map[addr(i)]
                \/ placed[i].addr \notin NonZero
  <2>1. CASE kept(i)
    <3>1. addr(i) \in Address /\ map[addr(i)] \in Value
      BY <1>3, <2>1 DEF Map
    <3> QED BY <1>4, <2>1, <3>1, RecordFields
  <2>2. CASE ~kept(i)
    BY <1>4, <2>2, RecordFields
  <2> QED BY <2>1, <2>2
<1>6. placed \in Seq(Record) /\ Len(placed) = base + m
  <2>1. placed \in [1 .. base + m -> Record]
    <3>1. placed = [i \in 1 .. base + m |-> placed[i]]
      BY <1>4
    <3> QED BY <1>5, <3>1
  <2> QED BY <2>1
<1>7. \A i \in 1 .. base + m : placed[i].addr \in NonZero =>
        map[placed[i].addr] = placed[i].value /\ placed[i].addr = addr(i)
  BY <1>5
<1> QED BY <1>2, <1>6, <1>7 DEF placed, addr

(***************************************************************************)
(* restore_with: an address of the map that is not found where the         *)
(* directory sends it is appended, and then found in the delta.            *)
(***************************************************************************)
LEMMA TornRestored ==
  ASSUME NEW d \in Directory, NEW keys \in Seq(Address), DistinctKeys(keys),
         Len(keys) = d.base,
         NEW map \in Map, NEW placed, placed = PlacedRecords(d, keys, map),
         NEW new, new = KeysToAppend(d, placed, map),
         Fits(DirectoryLen(d) + Cardinality(new)),
         \A a \in new : ~InDelta(d, a),
         NEW order \in SetToSeqs(new)
  PROVE  TornSound(Extended(d, order), placed \o RecordsOf(order, map), map)
<1> DEFINE e == Extended(d, order)
           added == RecordsOf(order, map)
           recs == placed \o added
<1>1. /\ placed \in Seq(Record)
      /\ Len(placed) = DirectoryLen(d)
      /\ \A i \in 1 .. Len(placed) : placed[i].addr \in NonZero =>
           /\ map[placed[i].addr] = placed[i].value
           /\ placed[i].addr = IF i <= d.base THEN keys[i]
                               ELSE d.delta[i - d.base]
  BY TornPlaced
<1>2. new \in SUBSET Address /\ \A a \in new : map[a] \in Value
  BY DEF KeysToAppend, Keys, Map
<1>3. /\ order \in Seq(Address)
      /\ Len(order) = Cardinality(new)
      /\ \A i, j \in 1 .. Len(order) : order[i] = order[j] => i = j
      /\ \A i \in 1 .. Len(order) : order[i] \in new
      /\ \A a \in new : \E i \in 1 .. Len(order) : order[i] = a
  BY <1>2, Ordering
<1>4. PICK base \in Nat, m \in Nat, n \in Nat :
        base = d.base /\ m = Len(d.delta) /\ n = Len(placed) /\ n = base + m
  <2>1. placed \in Seq(Record) /\ Len(placed) = DirectoryLen(d)
    BY <1>1
  <2> QED BY <2>1, Lengths
<1>5. PICK l \in Nat : l = Len(order)
  BY <1>3, LenProperties
<1>6. /\ e \in Directory /\ e.base = base
      /\ DirectoryLen(e) = n + l
      /\ \A i \in 1 .. l : Index(e, order[i]) = n - 1 + i
      /\ \A a \in Address : a \notin new => Index(e, a) = Index(d, a)
  <2>1. Extends(d, order)
    BY <1>3 DEF Extends
  <2> HIDE DEF e
  <2>2. /\ e \in Directory /\ e.base = d.base
        /\ DirectoryLen(e) = DirectoryLen(d) + Len(order)
        /\ \A i \in 1 .. Len(order) : Index(e, order[i]) = DirectoryLen(d) - 1 + i
        /\ \A a \in Address :
             (\A i \in 1 .. Len(order) : order[i] # a) => Index(e, a) = Index(d, a)
    BY <1>3, <2>1, Extension DEF e
  <2>3. \A i \in 1 .. l : Index(e, order[i]) = n - 1 + i
    BY <1>1, <1>4, <1>5, <2>2
  <2> QED BY <1>1, <1>3, <1>4, <1>5, <2>2, <2>3
<1>7. /\ added \in Seq(Record) /\ Len(added) = l
      /\ \A i \in 1 .. l : added[i].addr = order[i] /\ added[i].value = map[order[i]]
  <2>1. \A i \in 1 .. l : RecordOf(order[i], map[order[i]]) \in Record
    BY <1>2, <1>3, <1>5, RecordFields
  <2>2. added = [i \in 1 .. l |-> RecordOf(order[i], map[order[i]])]
    BY <1>5 DEF RecordsOf
  <2> HIDE DEF added
  <2>3. added \in Seq(Record) /\ Len(added) = l
    BY <2>1, <2>2
  <2> QED BY <1>2, <1>3, <1>5, <2>2, <2>3, RecordFields
<1> HIDE DEF e, added
<1>8. /\ recs \in Seq(Record) /\ Len(recs) = n + l
      /\ \A i \in 1 .. n : recs[i] = placed[i]
      /\ \A i \in 1 .. l : recs[n + i] = added[i]
      /\ \A i \in 1 .. n + l : i \in 1 .. n \/ \E j \in 1 .. l : i = n + j
  <2>1. /\ recs \in Seq(Record) /\ Len(recs) = Len(placed) + Len(added)
        /\ \A i \in 1 .. Len(placed) + Len(added) : recs[i] =
             IF i <= Len(placed) THEN placed[i] ELSE added[i - Len(placed)]
    <3>1. placed \in Seq(Record) /\ added \in Seq(Record)
      BY <1>1, <1>7
    <3> QED BY <3>1, ConcatProperties, Zenon
  <2> HIDE DEF recs
  <2>2. \A i \in 1 .. n + l :
          recs[i] = IF i <= n THEN placed[i] ELSE added[i - n]
    BY <1>4, <1>7, <2>1
  <2>3. ASSUME NEW i \in 1 .. l PROVE recs[n + i] = added[i]
    <3>1. PICK k \in 1 .. n + l : k = n + i /\ ~(k <= n) /\ k - n = i
      OBVIOUS
    <3> QED BY <2>2, <3>1
  <2>4. \A i \in 1 .. n : recs[i] = placed[i]
    BY <1>4, <1>7, <2>1
  <2>5. ASSUME NEW i \in 1 .. n + l, i \notin 1 .. n
        PROVE  \E j \in 1 .. l : i = n + j
    <3>1. i - n \in 1 .. l /\ i = n + (i - n)
      BY <2>5
    <3> QED BY <3>1
  <2> QED BY <1>4, <1>7, <2>1, <2>3, <2>4, <2>5
<1> HIDE DEF recs
\* Every record is one of the map, and every address of the map is carried.
<1>9. ASSUME NEW i \in 1 .. n + l, recs[i].addr \in NonZero
      PROVE  map[recs[i].addr] = recs[i].value /\ map[recs[i].addr] # None
  <2>1. map[recs[i].addr] = recs[i].value
    <3>1. CASE i \in 1 .. n
      BY <1>1, <1>4, <1>8, <1>9, <3>1
    <3>2. ASSUME NEW j \in 1 .. l, i = n + j PROVE map[recs[i].addr] = recs[i].value
      <4>1. recs[i] = added[j]
        BY <1>8, <3>2
      <4>2. recs[i].addr = order[j] /\ recs[i].value = map[order[j]]
        BY <1>7, <4>1
      <4> QED BY <4>2
    <3> QED BY <1>8, <3>1, <3>2
  <2>2. recs[i].value \in Value
    BY <1>8, ElementOfSeq, RecordFields
  <2> QED BY <2>1, <2>2, NoneAssumption
<1>10. ASSUME NEW a \in NonZero, a \notin new
       PROVE  /\ Index(e, a) = Index(d, a)
              /\ Index(d, a) + 1 \in 1 .. n
              /\ Carries(e, recs, a) <=> Carries(d, placed, a)
  <2>1. Index(e, a) = Index(d, a) /\ a \in Address
    BY <1>6, <1>10 DEF NonZero
  <2>2. PICK s \in Nat : s = Index(d, a) /\ s < n
    <3>1. Index(d, a) \in 0 .. DirectoryLen(d) - 1
      BY <2>1, IndexRange
    <3> QED BY <1>1, <1>4, <3>1
  <2>3. s + 1 \in 1 .. n /\ recs[s + 1] = placed[s + 1] /\ s < n + l
    BY <1>8, <2>2
  <2> QED BY <1>4, <1>8, <2>1, <2>2, <2>3 DEF Carries
<1>11. ASSUME NEW a \in NonZero, map[a] # None
       PROVE  /\ Carries(e, recs, a)
              /\ Held(e, recs, a) = map[a]
  <2>1. CASE a \in new
    <3>1. PICK j \in 1 .. l : order[j] = a
      BY <1>3, <1>5, <2>1
    <3>2. PICK i \in 1 .. n + l : i = n + j
      OBVIOUS
    <3>3. Index(e, a) + 1 = i /\ Index(e, a) < Len(recs)
      BY <1>6, <1>8, <3>1, <3>2
    <3>4. recs[i].addr = a /\ recs[i].value = map[a]
      BY <1>7, <1>8, <3>1, <3>2
    <3> QED BY <3>3, <3>4 DEF Carries, Held
  <2>2. CASE a \notin new
    <3>1. Carries(d, placed, a)
      BY <1>11, <2>2 DEF KeysToAppend, Keys, NonZero
    <3>2. Carries(e, recs, a) /\ Index(e, a) + 1 \in 1 .. n
      BY <1>10, <2>2, <3>1
    <3>3. PICK i \in 1 .. n + l : i = Index(e, a) + 1
      BY <3>2
    <3>4. map[a] = recs[i].value
      BY <1>9, <3>2, <3>3 DEF Carries
    <3> QED BY <3>2, <3>3, <3>4 DEF Held
  <2> QED BY <2>1, <2>2
<1>12. Holds(e, recs, map)
  <2> SUFFICES ASSUME NEW a \in NonZero, map[a] = None
               PROVE  ~Carries(e, recs, a)
    BY <1>11 DEF Holds, Held
  <2>1. a \in Address
    BY DEF NonZero
  <2>2. Index(e, a) + 1 \in 1 .. n + l
    <3>1. Index(e, a) \in 0 .. DirectoryLen(e) - 1
      BY <1>6, <2>1, IndexRange
    <3> QED BY <1>6, <3>1
  <2> QED BY <1>9, <2>2 DEF Carries
\* A record in the MPHF's slots is that of the key of its slot.
<1>13. ASSUME NEW i \in 1 .. base, recs[i].addr \in NonZero
       PROVE  i \in 1 .. n /\ i \in 1 .. Len(keys) /\ recs[i].addr = keys[i]
  <2>1. i \in 1 .. n /\ recs[i] = placed[i]
    BY <1>4, <1>8
  <2> QED BY <1>1, <1>4, <1>13, <2>1
<1>14. Settled(e, recs)
  <2> SUFFICES ASSUME NEW i \in 1 .. n + l, NEW a \in NonZero, recs[i].addr = a
               PROVE  \/ Index(e, a) = i - 1
                      \/ i <= e.base /\ InDelta(e, a) /\ Carries(e, recs, a)
    BY <1>8 DEF Settled
  <2>1. a \in Address /\ map[a] # None
    BY <1>9 DEF NonZero
  <2>2. ASSUME NEW j \in 1 .. l, i = n + j PROVE Index(e, a) = i - 1
    <3>1. order[j] = a
      BY <1>7, <1>8, <2>2
    <3> QED BY <1>6, <2>2, <3>1
  <2>3. CASE i \in 1 .. n /\ ~(i <= base)
    <3>1. PICK j \in 1 .. m : j = i - base
      <4>1. n = base + m /\ i <= n /\ base < i
        BY <1>4, <2>3
      <4> QED BY <4>1
    <3>2. d.delta[j] = a
      BY <1>1, <1>4, <1>8, <2>3, <3>1
    <3>3. Index(d, d.delta[j]) = base - 1 + j /\ InDelta(d, d.delta[j])
      BY <1>4, <3>1, IndexInDelta
    <3>4. Index(d, a) = i - 1 /\ InDelta(d, a)
      BY <3>1, <3>2, <3>3
    <3> QED BY <1>10, <3>4
  <2>4. CASE i <= base /\ ~InDelta(e, a)
    <3>1. Index(e, a) \in Nat /\ Index(e, a) < base
      <4>1. Index(e, a) \in 0 .. DirectoryLen(e) - 1
        BY <1>6, <2>1, IndexRange
      <4> QED BY <1>6, <2>1, <2>4, <4>1, IndexRange
    <3>2. a \notin new
      <4> SUFFICES ASSUME a \in new PROVE FALSE
        OBVIOUS
      <4>1. PICK j \in 1 .. l : order[j] = a
        BY <1>3, <1>5
      <4>2. Index(e, a) = n - 1 + j
        BY <1>6, <4>1
      <4> QED BY <1>4, <3>1, <4>2
    <3>3. PICK k \in 1 .. base : k = Index(e, a) + 1
      BY <3>1
    <3>4. recs[k].addr = a
      BY <1>11, <2>1, <3>3 DEF Carries
    <3>5. i \in 1 .. base
      BY <2>4
    <3>6. keys[k] = a /\ keys[i] = a /\ {i, k} \subseteq 1 .. Len(keys)
      BY <1>13, <3>3, <3>4, <3>5
    <3>7. i = k
      BY <3>6 DEF DistinctKeys
    <3> QED BY <3>1, <3>3, <3>7
  <2>5. CASE i <= base /\ InDelta(e, a)
    BY <1>6, <1>11, <2>1, <2>5
  <2> QED BY <1>8, <2>2, <2>3, <2>4, <2>5
<1>15. \A i, j \in 1 .. e.base :
         recs[i].addr = recs[j].addr /\ recs[i].addr \in NonZero => i = j
  BY <1>6, <1>13 DEF DistinctKeys
<1> QED BY <1>6, <1>8, <1>12, <1>14, <1>15 DEF TornSound, recs, added, e

\* The keys of a checkpoint are pairwise distinct.
LEMMA TornCheckpointTaken ==
  ASSUME NEW d, NEW recs, NEW map, TornSound(d, recs, map), NEW c,
         c = [directory |-> d, keys |-> CheckpointKeys(d, recs)]
  PROVE  TornCheckpoints(c)
<1>1. /\ d \in Directory /\ recs \in Seq(Record) /\ Len(recs) = DirectoryLen(d)
  BY DEF TornSound
<1>2. PICK base \in Nat, m \in Nat, n \in Nat :
        base = d.base /\ n = Len(recs) /\ n = base + m
  BY <1>1, Lengths
<1>3. PICK keys : keys = CheckpointKeys(d, recs)
  OBVIOUS
<1>4. /\ keys \in Seq(Address) /\ Len(keys) = base
      /\ \A i \in 1 .. base : keys[i] = recs[i].addr
  <2>1. \A i \in 1 .. base : i \in 1 .. n /\ recs[i].addr \in Address
    BY <1>1, <1>2, ElementOfSeq, RecordFields
  <2>2. keys = [i \in 1 .. base |-> recs[i].addr]
    BY <1>2, <1>3 DEF CheckpointKeys
  <2> QED BY <2>1, <2>2
<1>5. DistinctKeys(keys)
  BY <1>2, <1>4 DEF DistinctKeys, TornSound
<1> QED BY <1>1, <1>3, <1>4, <1>5 DEF TornCheckpoints, Checkpoint
-------------------------------------------------------------------------------
LEMMA TornUpdate ==
  ASSUME TornInductive, NEW a \in UserAddress, NEW v \in Value, Update(a, v)
  PROVE  book' \in Map /\ TornSound(directory', records', book')
<1>1. a \in Address /\ book \in Map
  BY UserAssumption DEF TornInductive
<1>2. PICK d, recs :
        /\ d = directory /\ recs = records
        /\ d \in Directory /\ recs \in Seq(Record) /\ Len(recs) = DirectoryLen(d)
        /\ TornSound(d, recs, book)
  BY DEF TornInductive, TornSound
<1>3. TornSound(directory', records', [book EXCEPT ![a] = v])
  <2>1. CASE Overwrite(a, v)
    <3>1. /\ directory' = d
          /\ records' = [recs EXCEPT ![Index(d, a) + 1] = RecordOf(a, v)]
          /\ Carries(d, recs, a)
      BY <1>2, <2>1 DEF Overwrite
    <3>2. PICK i : i = Index(d, a) + 1
      OBVIOUS
    <3>3. i \in 1 .. Len(recs) /\ recs[i].addr = a
      BY <1>1, <1>2, <3>1, <3>2, IndexRange, LenProperties DEF Carries
    <3> QED BY <1>1, <1>2, <3>1, <3>2, <3>3, TornReplaced
  <2>2. CASE Insert(a, v)
    <3>1. /\ directory' = Pushed(d, a)
          /\ records' = Append(recs, RecordOf(a, v))
          /\ ~Carries(d, recs, a) /\ ~InDelta(d, a)
          /\ Fits(DirectoryLen(d) + 1)
      BY <1>2, <2>2 DEF Insert
    <3> QED BY <1>1, <1>2, <3>1, TornInserted
  <2>3. CASE Reclaim(a, v)
    <3>1. /\ directory' = d
          /\ records' = [recs EXCEPT ![Index(d, a) + 1] = RecordOf(a, v)]
          /\ InDelta(d, a)
      BY <1>2, <2>3 DEF Reclaim
    <3>2. PICK i : i = Index(d, a) + 1
      OBVIOUS
    <3>3. /\ i \in 1 .. Len(recs) /\ i > d.base
          /\ recs[i].addr \in {a, ZeroAddress}
      BY <1>1, <1>2, <3>1, <3>2, TornDeltaSlot
    <3> QED BY <1>1, <1>2, <3>1, <3>2, <3>3, TornReplaced
  <2> QED BY <2>1, <2>2, <2>3 DEF Update
<1> QED BY <1>1, <1>3 DEF Update, Map

\* Both index rebuilds make the records sound, not just settled.
LEMMA TornReindex ==
  ASSUME TornInductive, NEW map \in Map, Reindex(map),
         book' \in Map, \A a \in NonZero : book'[a] = map[a]
  PROVE  TornSound(directory', records', book')
<1>1. PICK next \in RebuiltDirectories(directory, Keys(map)) :
        /\ records' = ScatterRecords(next, map)
        /\ directory' = next
        /\ Fits(Cardinality(Keys(map)))
  BY DEF Reindex
<1>2. directory.version + 1 \in Nat
  BY DEF TornInductive, TornSound, Directory
<1>3. Sound(directory', records', map)
  BY <1>1, <1>2, Scattered DEF RebuiltDirectories
<1>4. Sound(directory', records', book')
  BY <1>3, SoundForEqualMaps
<1> QED BY <1>4, SoundIsTornSound

LEMMA TornRestore ==
  ASSUME TornInductive, NEW map \in UserMap, NEW dir, NEW keys,
         dir \in Directory, keys \in Seq(Address), DistinctKeys(keys),
         RestoreFrom(dir, keys, map)
  PROVE  book' \in Map /\ TornSound(directory', records', book')
<1> DEFINE placed == PlacedRecords(dir, keys, map)
           new == KeysToAppend(dir, placed, map)
<1>1. map \in Map
  BY DEF UserMap
<1>2. /\ Len(keys) = dir.base
      /\ Fits(DirectoryLen(dir) + Cardinality(new))
      /\ \A a \in new : ~InDelta(dir, a)
      /\ \E order \in SetToSeqs(new) :
           Assemble(Extended(dir, order), placed \o RecordsOf(order, map), map)
  BY Zenon DEF RestoreFrom
<1>3. PICK order \in SetToSeqs(new) :
        Assemble(Extended(dir, order), placed \o RecordsOf(order, map), map)
  BY <1>2
<1> HIDE DEF placed, new
<1>4. TornSound(Extended(dir, order), placed \o RecordsOf(order, map), map)
  BY <1>1, <1>2, TornRestored DEF placed, new
<1> QED BY <1>1, <1>3, <1>4 DEF Assemble

LEMMA TornInitInductive == TornInit => TornInductive
<1>1. Init => Sound(directory, records, book) /\ book \in Map /\ saved = None
  BY InitInductive DEF Init, Inductive, TypeOK
<1> QED BY <1>1, SoundIsTornSound DEF TornInit, TornInductive, TornCheckpoints

LEMMA TornStepInductive == TornInductive /\ [TornNext]_tornVars => TornInductive'
<1> SUFFICES ASSUME TornInductive, [TornNext]_tornVars PROVE TornInductive'
  OBVIOUS
<1>1. /\ book \in Map /\ TornSound(directory, records, book)
      /\ TornCheckpoints(saved) /\ TornCheckpoints(earlier)
  BY DEF TornInductive
<1>2. ASSUME book' \in Map, TornSound(directory', records', book'),
             UNCHANGED <<saved, earlier>>
      PROVE  TornInductive'
  BY <1>1, <1>2 DEF TornInductive
<1>3. ASSUME TakeCheckpoint, earlier' \in {saved, earlier}
      PROVE  TornInductive'
  <2>1. PICK c : c = [ directory |-> directory,
                       keys |-> CheckpointKeys(directory, records) ]
    OBVIOUS
  <2>2. TornCheckpoints(c)
    BY <1>1, <2>1, TornCheckpointTaken
  <2>3. /\ UNCHANGED <<directory, records, book>>
        /\ saved' = c
    BY <1>3, <2>1 DEF TakeCheckpoint
  <2>4. TornCheckpoints(earlier')
    BY <1>1, <1>3
  <2> QED BY <1>1, <2>2, <2>3, <2>4 DEF TornInductive
<1>4. ASSUME NEW a \in UserAddress, NEW v \in Value, Update(a, v),
             UNCHANGED earlier
      PROVE  TornInductive'
  <2>1. UNCHANGED saved
    BY <1>4 DEF Update
  <2> QED BY <1>2, <1>4, <2>1, TornUpdate
<1>5. ASSUME NEW map \in UserMap, RebuildKeywordIndexFrom(map),
             UNCHANGED earlier
      PROVE  TornInductive'
  <2>1. map \in Map /\ Reindex(map) /\ book' = map /\ UNCHANGED saved
    BY <1>5 DEF RebuildKeywordIndexFrom, Reindex, UserMap
  <2> QED BY <1>2, <1>5, <2>1, TornReindex
<1>6. ASSUME RebuildKeywordIndex, UNCHANGED earlier
      PROVE  TornInductive'
  <2>1. PICK map : map = RecordsToMap(records)
    OBVIOUS
  <2>2. map \in Map /\ \A a \in NonZero : map[a] = book[a]
    BY <1>1, <2>1, TornReread
  <2>3. Reindex(map) /\ book' = book /\ UNCHANGED saved
    BY <1>6, <2>1 DEF RebuildKeywordIndex, Reindex
  <2> QED BY <1>1, <1>2, <1>6, <2>2, <2>3, TornReindex
<1>7. ASSUME \/ RebuildDatabase \/ EncodeStaging \/ TakeContext \/ Precompute
             \/ EncodeFails \/ RefreshPoisoned \/ ResponderPanics \/ Install,
             UNCHANGED earlier
      PROVE  TornInductive'
  <2>1. UNCHANGED <<directory, records, book, saved>>
    BY <1>7 DEF RebuildDatabase, EncodeStaging, TakeContext, Precompute,
                EncodeFails, RefreshPoisoned, ResponderPanics, Install
  <2> QED BY <1>1, <1>7, <2>1 DEF TornInductive
<1>8. ASSUME NEW map \in UserMap, RestoreTorn(map)
      PROVE  TornInductive'
  <2>1. /\ saved.directory \in Directory /\ earlier.directory \in Directory
        /\ saved.keys \in Seq(Address) /\ earlier.keys \in Seq(Address)
        /\ DistinctKeys(saved.keys) /\ DistinctKeys(earlier.keys)
        /\ UNCHANGED <<saved, earlier>>
    BY <1>1, <1>8 DEF RestoreTorn, TornCheckpoints, Checkpoint
  <2>2. \/ RestoreFrom(saved.directory, earlier.keys, map)
        \/ RestoreFrom(earlier.directory, saved.keys, map)
    BY <1>8 DEF RestoreTorn
  <2> QED BY <1>2, <2>1, <2>2, TornRestore
<1>9. CASE UNCHANGED tornVars
  <2>1. UNCHANGED <<directory, records, book, saved, earlier>>
    BY <1>9 DEF tornVars, vars, serverVars
  <2> QED BY <1>1, <2>1 DEF TornInductive
<1> QED BY <1>3, <1>4, <1>5, <1>6, <1>7, <1>8, <1>9 DEF TornNext, ServerRuns

(***************************************************************************)
(* TornRestoresHold: TornHoldsBook.  Whatever the halves and however often *)
(* a server is restored from them, updated, checkpointed and compacted in  *)
(* between, it holds the book.                                             *)
(***************************************************************************)
THEOREM TornRestoresHold == TornSpec => []TornHoldsBook
<1>1. TornInductive => TornHoldsBook
  BY DEF TornInductive, TornSound, TornHoldsBook, HoldsBook
<1> QED BY <1>1, TornInitInductive, TornStepInductive, PTL DEF TornSpec
-------------------------------------------------------------------------------
\* A one-to-one map onto a set gives it the size of its domain.
LEMMA SameSize ==
  ASSUME NEW S, NEW T, IsFiniteSet(S), NEW f \in [S -> T],
         \A x, y \in S : f[x] = f[y] => x = y,
         \A t \in T : \E x \in S : f[x] = t
  PROVE  IsFiniteSet(T) /\ Cardinality(T) = Cardinality(S)
<1>1. f \in Bijection(S, T)
  BY DEF Bijection, Injection, Surjection, IsInjective
<1>2. ExistsBijection(S, T)
  BY <1>1 DEF ExistsBijection
<1> QED BY <1>2, FS_Bijection

\* The sizes of two parts of a finite set.
LEMMA TwoParts ==
  ASSUME NEW S, NEW T, IsFiniteSet(S), IsFiniteSet(T), S \cap T = {}
  PROVE  /\ IsFiniteSet(S \cup T)
         /\ Cardinality(S) \in Nat /\ Cardinality(T) \in Nat
         /\ Cardinality(S \cup T) = Cardinality(S) + Cardinality(T)
<1>1. Cardinality(S) \in Nat /\ Cardinality(T) \in Nat
  BY FS_CardinalityType
<1>2. Cardinality(S \cap T) = 0
  BY FS_EmptySet
<1>3. /\ IsFiniteSet(S \cup T)
      /\ Cardinality(S \cup T) = Cardinality(S) + Cardinality(T)
                                   - Cardinality(S \cap T)
  BY FS_Union
<1> QED BY <1>1, <1>2, <1>3

(***************************************************************************)
(* The counts of a restore: the keys of the map are those placed in the    *)
(* MPHF's slots, those of the delta and those appended; the MPHF's slots   *)
(* are those that got their record and those left vacant.                  *)
(***************************************************************************)
LEMMA ReportCounts ==
  ASSUME NEW d \in Directory, NEW keys \in Seq(Address), KeysPlaced(d, keys),
         NEW map \in Map, ZeroAddress \notin Keys(map)
  PROVE  LET report == Report(d, keys, map)
             empty == {i \in 1 .. Len(d.delta) : map[d.delta[i]] = None}
         IN  /\ report.placed + report.appended = Cardinality(Keys(map))
             /\ report.placed + report.vacant + Cardinality(empty)
                  = DirectoryLen(d)
<1> DEFINE placed == PlacedRecords(d, keys, map)
           inMphf == { i \in 1 .. d.base :
                         placed[i].addr = keys[i] /\ keys[i] # ZeroAddress }
           vacant == { i \in 1 .. d.base :
                         keys[i] = ZeroAddress \/ map[keys[i]] = None }
           filled == {i \in 1 .. Len(d.delta) : map[d.delta[i]] # None}
           empty == {i \in 1 .. Len(d.delta) : map[d.delta[i]] = None}
           inDelta == { a \in Keys(map) : Index(d, a) >= d.base }
           appended == KeysToAppend(d, placed, map)
           kept == { a \in Keys(map) :
                       Carries(d, placed, a) /\ Index(d, a) < d.base }
<1>1. PICK m \in Nat, base \in Nat : m = Len(d.delta) /\ base = d.base
  BY DirectoryFields
<1>2. /\ placed \in Seq(Record) /\ Len(placed) = DirectoryLen(d)
      /\ Len(keys) = base /\ DirectoryLen(d) = base + m
      /\ \A i \in 1 .. base : keys[i] \in Address
      /\ \A i \in 1 .. m : d.delta[i] \in Address
  BY <1>1, Placed, DirectoryFields, ElementOfSeq DEF KeysPlaced, DirectoryLen
<1>3. \A i \in 1 .. base : keys[i] \in NonZero => Index(d, keys[i]) = i - 1
  BY <1>2 DEF KeysPlaced
<1>4. \A a \in Keys(map) : a \in NonZero /\ a \in Address /\ map[a] # None
  BY DEF Keys, NonZero
<1>5. \A a \in Address : /\ Index(d, a) \in Nat /\ Index(d, a) < base + m
                         /\ InDelta(d, a) <=> Index(d, a) >= base
  <2> SUFFICES ASSUME NEW a \in Address
               PROVE  /\ Index(d, a) \in Nat /\ Index(d, a) < base + m
                      /\ InDelta(d, a) <=> Index(d, a) >= base
    OBVIOUS
  <2>1. Index(d, a) \in 0 .. DirectoryLen(d) - 1
    BY IndexRange
  <2> QED BY <1>1, <1>2, <2>1, IndexRange
\* The slots of the MPHF.
<1>6. ASSUME NEW i \in 1 .. base
      PROVE  i \in inMphf <=> i \notin vacant
  <2>1. placed[i] = IF map[keys[i]] # None /\ keys[i] # ZeroAddress
                    THEN RecordOf(keys[i], map[keys[i]]) ELSE ZeroRecord
    BY <1>1, <1>2 DEF PlacedRecords
  <2>2. ZeroRecord.addr = ZeroAddress
    BY DEF ZeroRecord, RecordOf
  <2>3. RecordOf(keys[i], map[keys[i]]).addr = keys[i]
    BY DEF RecordOf
  <2> HIDE DEF placed
  <2> QED BY <1>1, <2>1, <2>2, <2>3
<1>7. /\ IsFiniteSet(inMphf) /\ IsFiniteSet(vacant)
      /\ Cardinality(inMphf) \in Nat /\ Cardinality(vacant) \in Nat
      /\ Cardinality(inMphf) + Cardinality(vacant) = base
  <2>1. inMphf \cap vacant = {} /\ inMphf \cup vacant = 1 .. base
    BY <1>1, <1>6
  <2>2. inMphf \in SUBSET (1 .. base) /\ vacant \in SUBSET (1 .. base)
    BY <1>1
  <2>3. IsFiniteSet(1 .. base) /\ Cardinality(1 .. base) = base
    BY FS_Interval
  <2> HIDE DEF inMphf, vacant
  <2>4. IsFiniteSet(inMphf) /\ IsFiniteSet(vacant)
    BY <2>2, <2>3, FS_Subset
  <2> QED BY <2>1, <2>3, <2>4, TwoParts
\* The slots of the delta.
<1>8. /\ IsFiniteSet(filled)
      /\ Cardinality(filled) \in Nat /\ Cardinality(empty) \in Nat
      /\ Cardinality(filled) + Cardinality(empty) = m
  <2>1. filled \cap empty = {} /\ filled \cup empty = 1 .. m
    BY <1>1
  <2>2. filled \in SUBSET (1 .. m) /\ empty \in SUBSET (1 .. m)
    BY <1>1
  <2>3. IsFiniteSet(1 .. m) /\ Cardinality(1 .. m) = m
    BY FS_Interval
  <2> HIDE DEF filled, empty
  <2>4. IsFiniteSet(filled) /\ IsFiniteSet(empty)
    BY <2>2, <2>3, FS_Subset
  <2> QED BY <2>1, <2>3, <2>4, TwoParts
<1>9. Cardinality(inDelta) = Cardinality(filled) /\ IsFiniteSet(inDelta)
  <2> DEFINE f == [i \in filled |-> d.delta[i]]
  <2>1. ASSUME NEW i \in filled PROVE d.delta[i] \in inDelta
    <3>1. i \in 1 .. m /\ d.delta[i] \in Keys(map)
      BY <1>1, <1>2 DEF Keys
    <3>2. InDelta(d, d.delta[i])
      BY <1>1, <3>1, IndexInDelta
    <3> QED BY <1>1, <1>2, <1>5, <3>1, <3>2
  <2>2. ASSUME NEW a \in inDelta PROVE \E i \in filled : d.delta[i] = a
    <3>1. InDelta(d, a) /\ map[a] # None
      BY <1>1, <1>4, <1>5
    <3> QED BY <3>1 DEF InDelta
  <2>3. \A i, j \in filled : d.delta[i] = d.delta[j] => i = j
    BY DEF Directory
  <2> HIDE DEF filled, inDelta
  <2>4. /\ f \in [filled -> inDelta]
        /\ \A i, j \in filled : f[i] = f[j] => i = j
        /\ \A a \in inDelta : \E i \in filled : f[i] = a
    BY <2>1, <2>2, <2>3
  <2> HIDE DEF f
  <2> QED BY <1>8, <2>4, SameSize
<1>10. Cardinality(kept) = Cardinality(inMphf) /\ IsFiniteSet(kept)
  <2> DEFINE f == [i \in inMphf |-> keys[i]]
  <2>1. ASSUME NEW i \in inMphf
        PROVE  /\ keys[i] \in kept
               /\ Index(d, keys[i]) = i - 1
    <3>1. /\ i \in 1 .. base /\ placed[i].addr = keys[i] /\ keys[i] \in NonZero
          /\ i \notin vacant
      BY <1>1, <1>2, <1>6 DEF NonZero
    <3>2. keys[i] \in Keys(map)
      BY <1>1, <1>2, <3>1 DEF Keys
    <3>3. Index(d, keys[i]) = i - 1
      BY <1>3, <3>1
    <3> HIDE DEF placed
    <3>4. Carries(d, placed, keys[i]) /\ i - 1 < base
      BY <1>2, <3>1, <3>3 DEF Carries
    <3> QED BY <1>1, <3>2, <3>3, <3>4
  <2>2. ASSUME NEW a \in kept PROVE \E i \in inMphf : keys[i] = a
    <3>1. PICK i \in 1 .. base : i = Index(d, a) + 1
      BY <1>1, <1>4, <1>5
    <3>2. a \in NonZero /\ placed[i].addr = a /\ i \in 1 .. Len(placed)
      BY <1>2, <1>4, <3>1 DEF Carries
    <3>3. Len(keys) = d.base
      BY <1>1, <1>2
    <3>4. placed[i].addr = IF i <= d.base THEN keys[i] ELSE d.delta[i - d.base]
      BY <3>2, <3>3, TornPlaced
    <3>5. keys[i] = a
      <4> HIDE DEF placed
      <4> QED BY <1>1, <3>2, <3>4
    <3> QED BY <1>1, <3>2, <3>5 DEF NonZero
  <2>3. \A i, j \in inMphf : keys[i] = keys[j] => i = j
    BY <1>1, <2>1
  <2> HIDE DEF inMphf, kept
  <2>4. /\ f \in [inMphf -> kept]
        /\ \A i, j \in inMphf : f[i] = f[j] => i = j
        /\ \A a \in kept : \E i \in inMphf : f[i] = a
    BY <2>1, <2>2, <2>3
  <2> HIDE DEF f
  <2> QED BY <1>7, <2>4, SameSize
\* The keys of the map.
<1>11. ASSUME NEW a \in inDelta PROVE Carries(d, placed, a)
  BY <1>1, <1>4, <1>5, PlacedAgain
<1>12. Cardinality(kept) + Cardinality(inDelta) + Cardinality(appended)
         = Cardinality(Keys(map))
  <2>1. /\ kept \cap inDelta = {} /\ (kept \cup inDelta) \cap appended = {}
        /\ (kept \cup inDelta) \cup appended = Keys(map)
    BY <1>1, <1>4, <1>5, <1>11 DEF KeysToAppend
  <2>2. IsFiniteSet(appended)
    <3>1. appended \in SUBSET Address
      BY DEF KeysToAppend, Keys
    <3> QED BY <3>1, AddressAssumption, FS_Subset
  <2> HIDE DEF kept, inDelta, appended
  <2>3. /\ IsFiniteSet(kept \cup inDelta)
        /\ Cardinality(kept \cup inDelta)
             = Cardinality(kept) + Cardinality(inDelta)
    BY <1>9, <1>10, <2>1, TwoParts
  <2> QED BY <2>1, <2>2, <2>3, TwoParts
<1>13. Cardinality(appended) \in Nat
  <2>1. appended \in SUBSET Address
    BY DEF KeysToAppend, Keys
  <2> HIDE DEF appended
  <2> QED BY <2>1, AddressAssumption, FS_Subset, FS_CardinalityType
<1>14. /\ Report(d, keys, map).placed = Cardinality(inMphf) + Cardinality(inDelta)
       /\ Report(d, keys, map).appended = Cardinality(appended)
       /\ Report(d, keys, map).vacant = Cardinality(vacant)
  BY Zenon DEF Report
<1> HIDE DEF placed, inMphf, vacant, filled, inDelta, appended, kept
<1>15. Report(d, keys, map).placed + Report(d, keys, map).appended
         = Cardinality(Keys(map))
  BY <1>7, <1>8, <1>9, <1>10, <1>12, <1>13, <1>14
<1>16. Report(d, keys, map).placed + Report(d, keys, map).vacant
         + Cardinality(empty) = DirectoryLen(d)
  <2> HIDE DEF empty
  <2> QED BY <1>2, <1>7, <1>8, <1>9, <1>14
<1> QED BY <1>15, <1>16

(***************************************************************************)
(* ReportsAddUp: ReportAddsUp, for any checkpoint a server stores and any  *)
(* map it is restored with.                                                *)
(***************************************************************************)
THEOREM ReportsAddUp == Spec => []ReportAddsUp
<1>1. Inductive => ReportAddsUp
  <2> SUFFICES ASSUME Inductive, saved # None,
                      NEW map \in UserMap, ZeroAddress \notin Keys(map)
               PROVE  LET report == Report(saved.directory, saved.keys, map)
                          empty == {i \in 1 .. Len(saved.directory.delta) :
                                      map[saved.directory.delta[i]] = None}
                      IN  /\ report.placed + report.appended
                               = Cardinality(Keys(map))
                          /\ report.placed + report.vacant + Cardinality(empty)
                               = DirectoryLen(saved.directory)
    BY Zenon DEF ReportAddsUp
  <2>1. /\ saved.directory \in Directory /\ saved.keys \in Seq(Address)
        /\ KeysPlaced(saved.directory, saved.keys)
    BY DEF Inductive, TypeOK, SavedPlaced, Checkpoint
  <2>2. map \in Map
    BY DEF UserMap
  <2> QED BY <2>1, <2>2, ReportCounts
<1> QED BY <1>1, Invariance, PTL
=============================================================================
