---------------------------- MODULE RecordsProofs ----------------------------
(***************************************************************************)
(* Lemmas about the keyword directory and the records: where an address    *)
(* resolves to, and what the operators that build records return.  The     *)
(* invariants of EthPirServer rest on them.                                *)
(***************************************************************************)
EXTENDS Records, FiniteSetTheorems, SequenceTheorems, WellFoundedInduction,
        TLAPS

(***************************************************************************)
(* An address of the delta resolves to its own slot there, because the     *)
(* delta holds no address twice.                                           *)
(***************************************************************************)
LEMMA IndexInDelta ==
  ASSUME NEW d \in Directory, NEW i \in 1 .. Len(d.delta)
  PROVE  /\ InDelta(d, d.delta[i])
         /\ Index(d, d.delta[i]) = d.base - 1 + i
<1> DEFINE a == d.delta[i]
           P(j) == d.delta[j] = a
           k == CHOOSE j \in 1 .. Len(d.delta) : P(j)
<1>1. k \in 1 .. Len(d.delta) /\ P(k)
  <2>1. \E j \in 1 .. Len(d.delta) : P(j)
    OBVIOUS
  <2> QED BY <2>1, Zenon
<1>2. k = i
  BY <1>1 DEF Directory
<1>3. InDelta(d, a)
  BY DEF InDelta
<1>4. Index(d, a) = d.base - 1 + k
  BY <1>3, Zenon DEF Index
<1> QED BY <1>2, <1>3, <1>4

(***************************************************************************)
(* Every address resolves to a slot in use.                                *)
(***************************************************************************)
LEMMA IndexRange ==
  ASSUME NEW d \in Directory, NEW a \in Address
  PROVE  /\ Index(d, a) \in 0 .. DirectoryLen(d) - 1
         /\ InDelta(d, a) <=> Index(d, a) >= d.base
<1>1. d.base \in Nat /\ Len(d.delta) \in Nat /\ d.mphf[a] \in 0 .. d.base - 1
  BY CapacityAssumption, LenProperties DEF Directory
<1>2. CASE InDelta(d, a)
  <2>1. PICK i \in 1 .. Len(d.delta) : d.delta[i] = a
    BY <1>2 DEF InDelta
  <2>2. Index(d, a) = d.base - 1 + i
    BY <2>1, IndexInDelta
  <2> QED BY <1>1, <1>2, <2>2 DEF DirectoryLen
<1>3. CASE ~InDelta(d, a)
  BY <1>1, <1>3 DEF Index, DirectoryLen
<1> QED BY <1>2, <1>3

(***************************************************************************)
(* Extending the delta moves no address that is in it already, and none    *)
(* that stays out of it.                                                   *)
(***************************************************************************)
LEMMA IndexStays ==
  ASSUME NEW d \in Directory, NEW e \in Directory, NEW a \in Address,
         e.base = d.base, e.mphf = d.mphf,
         Len(d.delta) <= Len(e.delta),
         \A i \in 1 .. Len(d.delta) : e.delta[i] = d.delta[i],
         InDelta(d, a) \/ ~InDelta(e, a)
  PROVE  Index(e, a) = Index(d, a)
<1>1. Len(d.delta) \in Nat /\ Len(e.delta) \in Nat
  BY LenProperties DEF Directory
<1>2. CASE InDelta(d, a)
  <2>1. PICK i \in 1 .. Len(d.delta) : d.delta[i] = a
    BY <1>2 DEF InDelta
  <2>2. i \in 1 .. Len(e.delta) /\ e.delta[i] = a
    BY <1>1, <2>1
  <2>3. Index(d, a) = d.base - 1 + i
    BY <2>1, IndexInDelta
  <2>4. Index(e, a) = e.base - 1 + i
    BY <2>2, IndexInDelta
  <2> QED BY <2>3, <2>4
<1>3. CASE ~InDelta(d, a)
  BY <1>3 DEF Index
<1> QED BY <1>2, <1>3

\* The addresses are pairwise distinct, new to the delta, and fit.
Extends(d, order) ==
  /\ \A i, j \in 1 .. Len(order) : order[i] = order[j] => i = j
  /\ \A i \in 1 .. Len(order) : ~InDelta(d, order[i])
  /\ Fits(DirectoryLen(d) + Len(order))

(***************************************************************************)
(* Pushing distinct new addresses in some order: each gets the next slot,  *)
(* and no other address moves.  Insert pushes one, restore_with several.   *)
(***************************************************************************)
LEMMA Extension ==
  ASSUME NEW d \in Directory, NEW order \in Seq(Address), Extends(d, order),
         NEW e, e = Extended(d, order)
  PROVE  /\ e \in Directory
         /\ e.base = d.base
         /\ DirectoryLen(e) = DirectoryLen(d) + Len(order)
         /\ \A i \in 1 .. Len(order) :
              Index(e, order[i]) = DirectoryLen(d) - 1 + i
         /\ \A a \in Address :
              (\A i \in 1 .. Len(order) : order[i] # a) => Index(e, a) = Index(d, a)
<1>1. PICK m \in Nat, n \in Nat, base \in Nat :
        m = Len(d.delta) /\ n = Len(order) /\ base = d.base
  BY LenProperties, CapacityAssumption DEF Directory
<1>2. /\ \A i, j \in 1 .. n : order[i] = order[j] => i = j
      /\ \A i, j \in 1 .. m : d.delta[i] = d.delta[j] => i = j
      /\ \A i \in 1 .. m, j \in 1 .. n : d.delta[i] # order[j]
      /\ Fits(base + m + n)
  BY <1>1 DEF Directory, InDelta, DirectoryLen, Extends
<1>3. /\ e.delta = d.delta \o order
      /\ e.base = base /\ e.mphf = d.mphf
      /\ e \in [ mphf : [Address -> 0 .. Capacity - 1], base : 1 .. Capacity,
                 delta : Seq(Address), version : Nat ]
      /\ \A a \in Address : e.mphf[a] < e.base
  BY <1>1, ConcatProperties DEF Directory, Extended
<1>4. /\ Len(e.delta) = m + n
      /\ \A i \in 1 .. m + n :
           e.delta[i] = IF i <= m THEN d.delta[i] ELSE order[i - m]
  BY <1>1, <1>3, ConcatProperties DEF Directory
<1>5. /\ \A i \in 1 .. m : e.delta[i] = d.delta[i]
      /\ \A i \in 1 .. n : e.delta[m + i] = order[i]
  BY <1>4
<1>6. \A i, j \in 1 .. m + n : e.delta[i] = e.delta[j] => i = j
  <2> SUFFICES ASSUME NEW i \in 1 .. m + n, NEW j \in 1 .. m + n,
                      e.delta[i] = e.delta[j]
               PROVE  i = j
    OBVIOUS
  <2>1. CASE i <= m /\ j <= m
    BY <1>2, <1>4, <2>1
  <2>2. CASE ~(i <= m) /\ ~(j <= m)
    <3>1. i - m \in 1 .. n /\ j - m \in 1 .. n /\ order[i - m] = order[j - m]
      BY <1>4, <2>2
    <3>2. i - m = j - m
      BY <1>2, <3>1
    <3> QED BY <3>2
  <2>3. CASE i <= m /\ ~(j <= m)
    <3>1. i \in 1 .. m /\ j - m \in 1 .. n /\ d.delta[i] = order[j - m]
      BY <1>4, <2>3
    <3> QED BY <1>2, <3>1
  <2>4. CASE ~(i <= m) /\ j <= m
    <3>1. j \in 1 .. m /\ i - m \in 1 .. n /\ d.delta[j] = order[i - m]
      BY <1>4, <2>4
    <3> QED BY <1>2, <3>1
  <2> QED BY <2>1, <2>2, <2>3, <2>4
<1>7. DirectoryLen(d) = base + m /\ DirectoryLen(e) = base + m + n
  <2>1. e.base = base /\ Len(e.delta) = m + n
    BY <1>3, <1>4
  <2>2. DirectoryLen(e) = base + (m + n)
    BY <2>1 DEF DirectoryLen
  <2> QED BY <1>1, <2>2 DEF DirectoryLen
<1>8. e \in Directory
  BY <1>2, <1>3, <1>4, <1>6, <1>7 DEF Directory
<1>9. ASSUME NEW i \in 1 .. n
      PROVE  Index(e, order[i]) = base + m - 1 + i
  <2>1. m + i \in 1 .. Len(e.delta) /\ e.delta[m + i] = order[i]
    BY <1>4, <1>5
  <2>2. Index(e, order[i]) = base - 1 + (m + i)
    BY <1>3, <1>8, <2>1, IndexInDelta
  <2> QED BY <2>2
<1>10. ASSUME NEW a \in Address, \A i \in 1 .. n : order[i] # a
       PROVE  Index(e, a) = Index(d, a)
  <2>1. ASSUME InDelta(e, a) PROVE InDelta(d, a)
    <3>1. PICK j \in 1 .. m + n : e.delta[j] = a
      BY <1>4, <2>1 DEF InDelta
    <3>2. j <= m
      <4> SUFFICES ASSUME ~(j <= m) PROVE FALSE
        OBVIOUS
      <4>1. j - m \in 1 .. n /\ order[j - m] = a
        BY <1>4, <3>1
      <4> QED BY <1>10, <4>1
    <3> QED BY <1>1, <1>5, <3>1, <3>2 DEF InDelta
  <2>2. /\ e.base = d.base /\ e.mphf = d.mphf
        /\ Len(d.delta) <= Len(e.delta)
        /\ \A i \in 1 .. Len(d.delta) : e.delta[i] = d.delta[i]
    BY <1>1, <1>3, <1>4, <1>5
  <2> QED BY <1>8, <2>1, <2>2, IndexStays
<1>11. /\ e.base = d.base
       /\ DirectoryLen(e) = DirectoryLen(d) + Len(order)
  BY <1>1, <1>3, <1>7
<1>12. ASSUME NEW i \in 1 .. Len(order)
       PROVE  Index(e, order[i]) = DirectoryLen(d) - 1 + i
  <2>1. i \in 1 .. n
    BY <1>1
  <2>2. Index(e, order[i]) = base + m - 1 + i
    BY <1>9, <2>1
  <2> QED BY <1>7, <2>2
<1>13. \A a \in Address :
         (\A i \in 1 .. Len(order) : order[i] # a) => Index(e, a) = Index(d, a)
  BY <1>1, <1>10
<1> QED BY <1>8, <1>11, <1>12, <1>13

(***************************************************************************)
(* A directory just built has no delta; its MPHF is onto the slots in use  *)
(* and sends no two of its keys to the same one.                           *)
(***************************************************************************)
LEMMA NewDirectory ==
  ASSUME NEW keys \in SUBSET Address, Fits(Cardinality(keys)),
         NEW version \in Nat, NEW d \in NewDirectories(keys, version)
  PROVE  /\ d \in Directory
         /\ d.version = version
         /\ DirectoryLen(d) = d.base
         /\ \A a \in Address : ~InDelta(d, a) /\ Index(d, a) = d.mphf[a]
         /\ \A s \in 0 .. d.base - 1 : \E a \in keys : d.mphf[a] = s
         /\ \A a, b \in keys : d.mphf[a] = d.mphf[b] => a = b
<1>1. Cardinality(keys) \in 0 .. Capacity
  <2>1. IsFiniteSet(keys)
    BY AddressAssumption, FS_Subset
  <2> QED BY <2>1, FS_CardinalityType, CapacityAssumption DEF Fits
<1>2. PICK f \in KeywordIndexes(keys) :
        d = [ mphf |-> f, base |-> Cardinality(keys), delta |-> << >>,
              version |-> version ]
  BY DEF NewDirectories
<1>3. /\ f \in [Address -> 0 .. d.base - 1]
      /\ \A s \in 0 .. d.base - 1 : \E a \in keys : f[a] = s
      /\ \A a, b \in keys : f[a] = f[b] => a = b
  BY <1>2 DEF KeywordIndexes
<1>4. /\ d.delta = << >> /\ Len(d.delta) = 0 /\ d.delta \in Seq(Address)
      /\ d.mphf = f /\ d.base \in 1 .. Capacity /\ d.version = version
  <2>1. d.base \in 0 .. Capacity
    BY <1>1, <1>2
  <2>2. f[ZeroAddress] \in 0 .. d.base - 1
    BY <1>3, ZeroAssumption
  <2> QED BY <1>2, <2>1, <2>2, CapacityAssumption
<1>5. f \in [Address -> 0 .. Capacity - 1] /\ \A a \in Address : f[a] < d.base
  BY <1>3, <1>4, CapacityAssumption
<1>6. d \in [ mphf : [Address -> 0 .. Capacity - 1], base : 1 .. Capacity,
              delta : Seq(Address), version : Nat ]
  BY <1>2, <1>4, <1>5
<1>7. DirectoryLen(d) = d.base
  BY <1>4, CapacityAssumption DEF DirectoryLen
<1>8. d \in Directory
  BY <1>4, <1>5, <1>6, <1>7, CapacityAssumption DEF Directory, Fits
<1>9. \A a \in Address : ~InDelta(d, a) /\ Index(d, a) = d.mphf[a]
  BY <1>4 DEF InDelta, Index
<1> QED BY <1>3, <1>4, <1>7, <1>8, <1>9
-------------------------------------------------------------------------------
\* The fields of a record, and that a vacant slot has no other address.
LEMMA RecordFields ==
  /\ \A r \in Record : r.addr \in Address /\ r.value \in Value
  /\ \A a \in Address, v \in Value :
       RecordOf(a, v) \in Record /\ RecordOf(a, v).addr = a
                                 /\ RecordOf(a, v).value = v
  /\ ZeroRecord \in Record /\ ZeroRecord.addr \notin NonZero
BY ZeroAssumption DEF Record, RecordOf, ZeroRecord, NonZero

(***************************************************************************)
(* The directory finds an address in the records exactly if it is there,   *)
(* and then with the value it has there.                                   *)
(***************************************************************************)
LEMMA CarriedIsListed ==
  ASSUME NEW d \in Directory, NEW recs \in Seq(Record),
         Len(recs) = DirectoryLen(d), RecordsPlaced(d, recs),
         NEW a \in NonZero
  PROVE  /\ \A i \in 1 .. Len(recs) : recs[i].addr = a =>
              /\ Carries(d, recs, a)
              /\ Index(d, a) = i - 1
              /\ Held(d, recs, a) = recs[i].value
         /\ Carries(d, recs, a) =>
              \E i \in 1 .. Len(recs) : recs[i].addr = a
<1>1. a \in Address
  BY DEF NonZero
<1>2. PICK n \in Nat : n = Len(recs)
  BY LenProperties
<1>3. ASSUME NEW i \in 1 .. n, recs[i].addr = a
      PROVE  /\ Carries(d, recs, a)
             /\ Index(d, a) = i - 1
             /\ Held(d, recs, a) = recs[i].value
  <2>1. Index(d, a) = i - 1
    BY <1>2, <1>3 DEF RecordsPlaced
  <2>2. Index(d, a) < Len(recs) /\ Index(d, a) + 1 = i
    BY <1>2, <2>1
  <2>3. Carries(d, recs, a)
    BY <1>3, <2>2 DEF Carries
  <2> QED BY <2>1, <2>2, <2>3 DEF Held
<1>4. ASSUME Carries(d, recs, a)
      PROVE  \E i \in 1 .. n : recs[i].addr = a
  <2>1. Index(d, a) \in 0 .. n - 1
    BY <1>1, <1>2, IndexRange
  <2>2. Index(d, a) + 1 \in 1 .. n
    BY <2>1
  <2> QED BY <1>4, <2>2 DEF Carries
<1> QED BY <1>2, <1>3, <1>4

(***************************************************************************)
(* Records that stand where the directory says hold a map exactly if they  *)
(* list it.                                                                *)
(***************************************************************************)
LEMMA HoldsIsLists ==
  ASSUME NEW d \in Directory, NEW recs \in Seq(Record),
         Len(recs) = DirectoryLen(d), RecordsPlaced(d, recs), NEW map \in Map
  PROVE  Holds(d, recs, map) <=> Lists(recs, map)
<1>1. ASSUME Holds(d, recs, map) PROVE Lists(recs, map)
  <2>1. ASSUME NEW i \in 1 .. Len(recs), recs[i].addr \in NonZero
        PROVE  map[recs[i].addr] = recs[i].value
    BY <1>1, <2>1, CarriedIsListed DEF Holds
  <2>2. ASSUME NEW a \in NonZero, map[a] # None
        PROVE  \E i \in 1 .. Len(recs) : recs[i].addr = a
    BY <1>1, <2>2, CarriedIsListed DEF Holds, Held
  <2> QED BY <2>1, <2>2 DEF Lists
<1>2. ASSUME Lists(recs, map) PROVE Holds(d, recs, map)
  <2> SUFFICES ASSUME NEW a \in NonZero PROVE Held(d, recs, a) = map[a]
    BY DEF Holds
  <2>1. CASE \E i \in 1 .. Len(recs) : recs[i].addr = a
    BY <1>2, <2>1, CarriedIsListed DEF Lists
  <2>2. CASE ~ \E i \in 1 .. Len(recs) : recs[i].addr = a
    BY <1>2, <2>2, CarriedIsListed DEF Lists, Held
  <2> QED BY <2>1, <2>2
<1> QED BY <1>1, <1>2
-------------------------------------------------------------------------------
(***************************************************************************)
(* update on a slot the address already has: a record of the address, or   *)
(* the vacant slot the delta keeps for it.                                 *)
(***************************************************************************)
LEMMA Replaced ==
  ASSUME NEW d, NEW recs, NEW map \in Map, Sound(d, recs, map),
         NEW a \in Address, NEW v \in Value,
         NEW i \in 1 .. Len(recs), i = Index(d, a) + 1,
         recs[i].addr \in {a, ZeroAddress}
  PROVE  Sound(d, [recs EXCEPT ![i] = RecordOf(a, v)], [map EXCEPT ![a] = v])
<1> DEFINE after == [recs EXCEPT ![i] = RecordOf(a, v)]
           wanted == [map EXCEPT ![a] = v]
<1>1. /\ d \in Directory /\ recs \in Seq(Record)
      /\ Len(recs) = DirectoryLen(d)
  BY DEF Sound
<1>2. /\ after \in Seq(Record) /\ Len(after) = Len(recs)
      /\ after[i].addr = a /\ after[i].value = v
      /\ \A j \in 1 .. Len(recs) : j # i => after[j] = recs[j]
  BY <1>1, RecordFields, ExceptSeq
<1>3. wanted[a] = v /\ \A b \in Address : b # a => wanted[b] = map[b]
  BY DEF Map
<1>4. Index(d, a) = i - 1
  BY <1>1, IndexRange
<1>5. ASSUME NEW j \in 1 .. Len(recs), recs[j].addr = a, a \in NonZero
      PROVE  j = i
  <2>1. Index(d, a) = j - 1
    BY <1>5 DEF Sound, RecordsPlaced
  <2> QED BY <1>1, <1>4, <2>1, LenProperties
<1> HIDE DEF after, wanted
<1>6. RecordsPlaced(d, after)
  <2> SUFFICES ASSUME NEW j \in 1 .. Len(recs), after[j].addr \in NonZero
               PROVE  Index(d, after[j].addr) = j - 1
    BY <1>2 DEF RecordsPlaced
  <2>1. CASE j = i
    BY <1>2, <1>4, <2>1
  <2>2. CASE j # i
    BY <1>2, <2>2 DEF Sound, RecordsPlaced
  <2> QED BY <2>1, <2>2
<1>7. ASSUME NEW j \in 1 .. Len(after), after[j].addr \in NonZero
      PROVE  wanted[after[j].addr] = after[j].value
  <2>1. CASE j = i
    BY <1>2, <1>3, <2>1
  <2>2. CASE j # i
    <3>1. after[j] = recs[j] /\ j \in 1 .. Len(recs)
      BY <1>2, <2>2
    <3>2. recs[j].addr # a
      BY <1>5, <1>7, <2>2, <3>1
    <3>3. map[recs[j].addr] = recs[j].value
      BY <1>7, <3>1 DEF Sound, Lists
    <3> QED BY <1>3, <1>7, <3>1, <3>2, <3>3 DEF NonZero
  <2> QED BY <2>1, <2>2
<1>8. ASSUME NEW b \in NonZero, wanted[b] # None
      PROVE  \E j \in 1 .. Len(after) : after[j].addr = b
  <2>1. CASE b = a
    BY <1>2, <2>1
  <2>2. CASE b # a
    <3>1. PICK j \in 1 .. Len(recs) : recs[j].addr = b
      BY <1>3, <1>8, <2>2 DEF Sound, Lists, NonZero
    <3>2. j # i
      BY <2>2, <3>1 DEF NonZero
    <3> QED BY <1>2, <3>1, <3>2
  <2> QED BY <2>1, <2>2
<1>9. Lists(after, wanted)
  BY <1>7, <1>8 DEF Lists
<1> QED BY <1>1, <1>2, <1>6, <1>9 DEF Sound, after, wanted

(***************************************************************************)
(* The slot an address of the delta resolves to holds its record or none:  *)
(* any other address resolves elsewhere.                                   *)
(***************************************************************************)
LEMMA DeltaSlot ==
  ASSUME NEW d, NEW recs, NEW map, Sound(d, recs, map),
         NEW a \in Address, InDelta(d, a)
  PROVE  /\ Index(d, a) + 1 \in 1 .. Len(recs)
         /\ recs[Index(d, a) + 1].addr \in {a, ZeroAddress}
<1>1. d \in Directory /\ recs \in Seq(Record) /\ Len(recs) = DirectoryLen(d)
  BY DEF Sound
<1>2. PICK m \in Nat, n \in Nat, base \in Nat :
        m = Len(d.delta) /\ n = Len(recs) /\ base = d.base
  BY <1>1, LenProperties, CapacityAssumption DEF Directory
<1>3. PICK i \in 1 .. m : d.delta[i] = a
  BY <1>2 DEF InDelta
<1>4. Index(d, a) = base - 1 + i /\ n = base + m
  BY <1>1, <1>2, <1>3, IndexInDelta DEF DirectoryLen
<1>5. Index(d, a) + 1 = base + i /\ base + i \in 1 .. n
  BY <1>4
<1>6. ASSUME NEW b \in NonZero, recs[base + i].addr = b
      PROVE  b = a
  <2>1. Index(d, b) = base + i - 1 /\ b \in Address
    BY <1>2, <1>5, <1>6 DEF Sound, RecordsPlaced, NonZero
  <2>2. InDelta(d, b)
    BY <1>1, <1>2, <2>1, IndexRange
  <2>3. PICK j \in 1 .. m : d.delta[j] = b
    BY <1>2, <2>2 DEF InDelta
  <2>4. Index(d, b) = base - 1 + j
    BY <1>1, <1>2, <2>3, IndexInDelta
  <2>5. i = j
    BY <2>1, <2>4
  <2> QED BY <1>3, <2>3, <2>5
<1>7. recs[base + i].addr \in Address
  BY <1>1, <1>2, <1>5, ElementOfSeq, RecordFields
<1> QED BY <1>2, <1>5, <1>6, <1>7 DEF NonZero

(***************************************************************************)
(* update on an address that has no slot: the directory and the records    *)
(* grow together.                                                          *)
(***************************************************************************)
LEMMA Inserted ==
  ASSUME NEW d, NEW recs, NEW map \in Map, Sound(d, recs, map),
         NEW a \in Address, NEW v \in Value,
         ~Carries(d, recs, a), ~InDelta(d, a), Fits(DirectoryLen(d) + 1)
  PROVE  Sound(Pushed(d, a), Append(recs, RecordOf(a, v)),
               [map EXCEPT ![a] = v])
<1> DEFINE e == Pushed(d, a)
           after == Append(recs, RecordOf(a, v))
           wanted == [map EXCEPT ![a] = v]
<1>1. d \in Directory /\ recs \in Seq(Record) /\ Len(recs) = DirectoryLen(d)
  BY DEF Sound
<1>2. PICK order \in Seq(Address) :
        order = <<a>> /\ Len(order) = 1 /\ order[1] = a
  <2>1. <<a>> \in Seq(Address) /\ Len(<<a>>) = 1 /\ <<a>>[1] = a
    OBVIOUS
  <2> QED BY <2>1, Zenon
<1>3. e = Extended(d, order)
  <2>1. Append(d.delta, a) = d.delta \o order
    BY <1>1, <1>2, AppendIsConcat DEF Directory
  <2> QED BY <2>1 DEF Pushed, Extended
<1>4. Extends(d, order)
  <2>1. \A i \in 1 .. Len(order) : i = 1 /\ order[i] = a
    BY <1>2
  <2> QED BY <1>2, <2>1 DEF Extends
<1>5. PICK n \in Nat : n = Len(recs)
  BY <1>1, LenProperties
<1>6. /\ e \in Directory
      /\ DirectoryLen(e) = n + 1
      /\ Index(e, a) = n
      /\ \A b \in Address : b # a => Index(e, b) = Index(d, b)
  <2> HIDE DEF e
  <2>1. /\ e \in Directory
        /\ DirectoryLen(e) = DirectoryLen(d) + Len(order)
        /\ \A i \in 1 .. Len(order) : Index(e, order[i]) = DirectoryLen(d) - 1 + i
        /\ \A b \in Address :
             (\A i \in 1 .. Len(order) : order[i] # b) => Index(e, b) = Index(d, b)
    BY <1>1, <1>3, <1>4, Extension
  <2>2. DirectoryLen(e) = n + 1
    BY <1>1, <1>2, <1>5, <2>1
  <2>3. Index(e, order[1]) = DirectoryLen(d) - 1 + 1
    BY <1>2, <2>1
  <2>4. Index(e, a) = n
    BY <1>1, <1>2, <1>5, <2>3
  <2>5. ASSUME NEW b \in Address, b # a
        PROVE  Index(e, b) = Index(d, b)
    <3>1. \A i \in 1 .. Len(order) : order[i] # b
      BY <1>2, <2>5
    <3> QED BY <2>1, <3>1
  <2> QED BY <2>1, <2>2, <2>4, <2>5
<1>7. /\ after \in Seq(Record) /\ Len(after) = n + 1
      /\ after[n + 1].addr = a /\ after[n + 1].value = v
      /\ \A j \in 1 .. n : after[j] = recs[j]
  BY <1>1, <1>5, RecordFields, AppendProperties
<1>8. wanted[a] = v /\ \A b \in Address : b # a => wanted[b] = map[b]
  BY DEF Map
<1>9. ASSUME NEW j \in 1 .. n, recs[j].addr \in NonZero
      PROVE  /\ recs[j].addr # a
             /\ Index(e, recs[j].addr) = j - 1
             /\ wanted[recs[j].addr] = recs[j].value
  <2>1. recs[j].addr # a
    BY <1>1, <1>5, <1>9, CarriedIsListed DEF Sound
  <2>2. recs[j].addr \in Address
    BY <1>9 DEF NonZero
  <2>3. Index(d, recs[j].addr) = j - 1 /\ map[recs[j].addr] = recs[j].value
    BY <1>5, <1>9 DEF Sound, RecordsPlaced, Lists
  <2> QED BY <1>6, <1>8, <2>1, <2>2, <2>3
<1> HIDE DEF e, after, wanted
<1>10. \A j \in 1 .. n + 1 : j \in 1 .. n \/ j = n + 1
  OBVIOUS
<1>11. RecordsPlaced(e, after)
  <2> SUFFICES ASSUME NEW j \in 1 .. n + 1, after[j].addr \in NonZero
               PROVE  Index(e, after[j].addr) = j - 1
    BY <1>7 DEF RecordsPlaced
  <2>1. CASE j \in 1 .. n
    BY <1>7, <1>9, <2>1
  <2>2. CASE j = n + 1
    BY <1>6, <1>7, <2>2
  <2> QED BY <1>10, <2>1, <2>2
<1>12. ASSUME NEW j \in 1 .. n + 1, after[j].addr \in NonZero
       PROVE  wanted[after[j].addr] = after[j].value
  <2>1. CASE j \in 1 .. n
    BY <1>7, <1>9, <1>12, <2>1
  <2>2. CASE j = n + 1
    BY <1>7, <1>8, <2>2
  <2> QED BY <1>10, <2>1, <2>2
<1>13. ASSUME NEW b \in NonZero, wanted[b] # None
       PROVE  \E j \in 1 .. n + 1 : after[j].addr = b
  <2>1. CASE b = a
    BY <1>7, <2>1
  <2>2. CASE b # a
    <3>1. PICK j \in 1 .. n : recs[j].addr = b
      BY <1>5, <1>8, <1>13, <2>2 DEF Sound, Lists, NonZero
    <3>2. j \in 1 .. n + 1 /\ after[j].addr = b
      BY <1>7, <3>1
    <3> QED BY <3>2
  <2> QED BY <2>1, <2>2
<1>14. Lists(after, wanted)
  BY <1>7, <1>12, <1>13 DEF Lists
<1> QED BY <1>6, <1>7, <1>11, <1>14 DEF Sound, e, after, wanted

(***************************************************************************)
(* Records scattered over a directory just built from the keys of a map.   *)
(***************************************************************************)
LEMMA Scattered ==
  ASSUME NEW map \in Map, Fits(Cardinality(Keys(map))),
         NEW version \in Nat, NEW d \in NewDirectories(Keys(map), version)
  PROVE  /\ d.version = version
         /\ Sound(d, ScatterRecords(d, map), map)
<1> DEFINE key(i) == CHOOSE k \in Keys(map) : d.mphf[k] = i - 1
           recs == ScatterRecords(d, map)
<1>1. Keys(map) \in SUBSET Address
  BY DEF Keys
<1>2. /\ d \in Directory
      /\ d.version = version
      /\ DirectoryLen(d) = d.base
      /\ \A a \in Address : Index(d, a) = d.mphf[a]
      /\ \A s \in 0 .. d.base - 1 : \E a \in Keys(map) : d.mphf[a] = s
      /\ \A a, b \in Keys(map) : d.mphf[a] = d.mphf[b] => a = b
  BY <1>1, NewDirectory
<1>3. PICK n \in Nat : n = d.base
  BY <1>2, CapacityAssumption DEF Directory
<1>4. ASSUME NEW i \in 1 .. n
      PROVE  key(i) \in Keys(map) /\ d.mphf[key(i)] = i - 1
  <2>1. i - 1 \in 0 .. d.base - 1
    BY <1>3
  <2>2. \E k \in Keys(map) : d.mphf[k] = i - 1
    BY <1>2, <2>1
  <2> QED BY <2>2, Zenon
<1>5. ASSUME NEW i \in 1 .. n
      PROVE  /\ key(i) \in Address
             /\ map[key(i)] \in Value
             /\ Index(d, key(i)) = i - 1
  BY <1>1, <1>2, <1>4 DEF Keys, Map
<1>6. recs = [i \in 1 .. n |-> RecordOf(key(i), map[key(i)])]
  BY <1>3 DEF ScatterRecords
<1> HIDE DEF key, recs
<1>7. /\ recs \in Seq(Record) /\ Len(recs) = n
      /\ \A i \in 1 .. n : recs[i].addr = key(i) /\ recs[i].value = map[key(i)]
  <2>1. \A i \in 1 .. n : RecordOf(key(i), map[key(i)]) \in Record
    BY <1>5, RecordFields
  <2>2. recs \in Seq(Record) /\ Len(recs) = n
    BY <1>6, <2>1
  <2> QED BY <1>5, <1>6, <2>2, RecordFields
<1>8. RecordsPlaced(d, recs)
  BY <1>5, <1>7 DEF RecordsPlaced
<1>9. ASSUME NEW a \in NonZero, map[a] # None
      PROVE  \E i \in 1 .. n : recs[i].addr = a
  <2>1. a \in Keys(map) /\ a \in Address
    BY <1>9 DEF Keys, NonZero
  <2>2. PICK s \in 0 .. n - 1 : s = d.mphf[a]
    BY <1>2, <1>3, <2>1, IndexRange
  <2>3. s + 1 \in 1 .. n /\ d.mphf[key(s + 1)] = s
    BY <1>4, <2>2
  <2>4. key(s + 1) = a
    BY <1>2, <1>4, <2>1, <2>2, <2>3
  <2> QED BY <1>7, <2>3, <2>4
<1>10. Lists(recs, map)
  BY <1>7, <1>9 DEF Lists
<1> QED BY <1>2, <1>3, <1>7, <1>8, <1>10 DEF Sound, recs

\* A nonempty set of numbers up to n has a greatest one.
LEMMA Greatest ==
  ASSUME NEW n \in Nat, NEW S \in SUBSET (1 .. n), S # {}
  PROVE  \E i \in S : \A j \in S : j <= i
<1> DEFINE T == {n - i : i \in S}
           R == OpToRel(<, Nat)
<1>1. T \subseteq Nat /\ T # {}
  <2>1. \A i \in S : n - i \in Nat
    OBVIOUS
  <2>2. T \subseteq Nat
    BY <2>1
  <2>3. PICK i \in S : TRUE
    OBVIOUS
  <2>4. n - i \in T
    BY <2>3
  <2> QED BY <2>2, <2>4
<1>2. IsWellFoundedOn(R, Nat)
  BY NatLessThanWellFounded
<1>3. \A t, u \in Nat : u < t => <<u, t>> \in R
  BY DEF OpToRel
<1> HIDE DEF R
<1>4. PICK t \in T : \A u \in T : <<u, t>> \notin R
  <2> HIDE DEF T
  <2> QED BY <1>1, <1>2, WFMin
<1>5. PICK i \in S : t = n - i
  OBVIOUS
<1>6. ASSUME NEW j \in S PROVE j <= i
  <2>1. n - j \in T
    OBVIOUS
  <2>2. ~(n - j < t)
    BY <1>1, <1>3, <1>4, <2>1
  <2> QED BY <1>5, <2>2
<1> QED BY <1>6

(***************************************************************************)
(* records_to_map reads the map back, the zero address aside.              *)
(***************************************************************************)
LEMMA Reread ==
  ASSUME NEW d, NEW recs, NEW map \in Map, Sound(d, recs, map)
  PROVE  /\ RecordsToMap(recs) \in Map
         /\ \A a \in NonZero : RecordsToMap(recs)[a] = map[a]
<1> DEFINE at(a) == {i \in 1 .. Len(recs) : recs[i].addr = a}
           last(a) == CHOOSE i \in at(a) : \A j \in at(a) : j <= i
<1>1. /\ d \in Directory /\ recs \in Seq(Record)
      /\ Len(recs) = DirectoryLen(d)
      /\ RecordsPlaced(d, recs) /\ Lists(recs, map)
  BY DEF Sound
<1>2. PICK n \in Nat : n = Len(recs) /\ n >= 1
  BY <1>1, LenProperties, CapacityAssumption DEF Directory, DirectoryLen
<1>3. \A i \in 1 .. n : recs[i].addr \in Address /\ recs[i].value \in Value
  BY <1>1, <1>2, ElementOfSeq, RecordFields
<1>4. ASSUME NEW a \in Address, at(a) # {}
      PROVE  last(a) \in 1 .. n /\ recs[last(a)].addr = a
  <2>1. at(a) \in SUBSET (1 .. n)
    BY <1>2
  <2>2. \E i \in at(a) : \A j \in at(a) : j <= i
    BY <1>4, <2>1, Greatest
  <2>3. last(a) \in at(a)
    BY <2>2, Zenon
  <2> QED BY <1>2, <2>3
<1>5. \A a \in Address : RecordsToMap(recs)[a] =
        IF at(a) = {} THEN None ELSE recs[last(a)].value
  BY DEF RecordsToMap
<1>6. RecordsToMap(recs) \in Map
  <2>1. \A a \in Address : RecordsToMap(recs)[a] \in Value \cup {None}
    <3> HIDE DEF at, last
    <3> QED BY <1>3, <1>4, <1>5
  <2>2. RecordsToMap(recs) = [a \in Address |-> RecordsToMap(recs)[a]]
    BY DEF RecordsToMap
  <2> QED BY <2>1, <2>2 DEF Map
<1>7. ASSUME NEW a \in NonZero
      PROVE  RecordsToMap(recs)[a] = map[a]
  <2>1. a \in Address
    BY DEF NonZero
  <2>2. CASE at(a) = {}
    <3>1. map[a] = None
      BY <1>1, <2>2 DEF Lists
    <3> HIDE DEF at, last
    <3> QED BY <1>5, <2>1, <2>2, <3>1
  <2>3. CASE at(a) # {}
    <3>1. map[a] = recs[last(a)].value
      <4> HIDE DEF at, last
      <4> QED BY <1>1, <1>2, <1>4, <2>1, <2>3 DEF Lists
    <3> HIDE DEF at, last
    <3> QED BY <1>5, <2>1, <2>3, <3>1
  <2> QED BY <2>2, <2>3
<1> QED BY <1>6, <1>7

(***************************************************************************)
(* A server that holds a map holds every map that differs from it in the   *)
(* zero address only.                                                      *)
(***************************************************************************)
LEMMA SoundForEqualMaps ==
  ASSUME NEW d, NEW recs, NEW map, NEW other, Sound(d, recs, map),
         \A a \in NonZero : other[a] = map[a]
  PROVE  Sound(d, recs, other)
BY DEF Sound, Lists
-------------------------------------------------------------------------------
\* The keys a checkpoint keeps stand where its directory says.
LEMMA CheckpointPlaced ==
  ASSUME NEW d, NEW recs, NEW map, Sound(d, recs, map)
  PROVE  /\ CheckpointKeys(d, recs) \in Seq(Address)
         /\ KeysPlaced(d, CheckpointKeys(d, recs))
<1> DEFINE keys == CheckpointKeys(d, recs)
<1>1. d \in Directory /\ recs \in Seq(Record) /\ Len(recs) = DirectoryLen(d)
  BY DEF Sound
<1>2. PICK n \in Nat, m \in Nat, base \in Nat :
        n = Len(recs) /\ m = Len(d.delta) /\ base = d.base
  BY <1>1, LenProperties, CapacityAssumption DEF Directory
<1>3. n = base + m
  BY <1>1, <1>2 DEF DirectoryLen
<1>4. \A i \in 1 .. base : i \in 1 .. n /\ recs[i].addr \in Address
  BY <1>1, <1>2, <1>3, ElementOfSeq, RecordFields
<1>5. keys = [i \in 1 .. base |-> recs[i].addr]
  BY <1>2 DEF CheckpointKeys
<1> HIDE DEF keys
<1>6. /\ keys \in Seq(Address) /\ Len(keys) = base
      /\ \A i \in 1 .. base : keys[i] = recs[i].addr
  BY <1>4, <1>5
<1>7. KeysPlaced(d, keys)
  BY <1>2, <1>4, <1>6 DEF KeysPlaced, Sound, RecordsPlaced
<1> QED BY <1>6, <1>7 DEF keys

(***************************************************************************)
(* What restore_with places: each key of the checkpoint and each address   *)
(* of the delta that the map still names, at the slot it had.              *)
(***************************************************************************)
LEMMA Placed ==
  ASSUME NEW d \in Directory, NEW keys \in Seq(Address), KeysPlaced(d, keys),
         NEW map \in Map
  PROVE  LET placed == PlacedRecords(d, keys, map) IN
         /\ placed \in Seq(Record)
         /\ Len(placed) = DirectoryLen(d)
         /\ RecordsPlaced(d, placed)
         /\ \A i \in 1 .. Len(placed) : placed[i].addr \in NonZero =>
              map[placed[i].addr] = placed[i].value
<1> DEFINE placed == PlacedRecords(d, keys, map)
           addr(i) == IF i <= d.base THEN keys[i] ELSE d.delta[i - d.base]
           kept(i) == map[addr(i)] # None /\ ~(i <= d.base /\ addr(i) = ZeroAddress)
<1>1. PICK m \in Nat, base \in Nat : m = Len(d.delta) /\ base = d.base
  BY LenProperties, CapacityAssumption DEF Directory
<1>2. DirectoryLen(d) = base + m /\ Len(keys) = base
  BY <1>1 DEF DirectoryLen, KeysPlaced
<1>3. ASSUME NEW i \in 1 .. base + m
      PROVE  /\ addr(i) \in Address
             /\ addr(i) \in NonZero => Index(d, addr(i)) = i - 1
  <2>1. CASE i <= base
    <3>1. i \in 1 .. Len(keys) /\ addr(i) = keys[i]
      BY <1>1, <1>2, <2>1
    <3>2. keys[i] \in Address
      BY <3>1, ElementOfSeq
    <3> QED BY <3>1, <3>2 DEF KeysPlaced
  <2>2. CASE ~(i <= base)
    <3>1. PICK j \in 1 .. m : j = i - base
      BY <2>2
    <3>2. addr(i) = d.delta[j]
      BY <1>1, <2>2, <3>1
    <3>3. d.delta[j] \in Address
      BY <1>1, <3>1, ElementOfSeq DEF Directory
    <3>4. Index(d, d.delta[j]) = base - 1 + j
      BY <1>1, <3>1, IndexInDelta
    <3> QED BY <3>1, <3>2, <3>3, <3>4
  <2> QED BY <2>1, <2>2
<1>4. placed = [ i \in 1 .. base + m |->
                   IF kept(i) THEN RecordOf(addr(i), map[addr(i)])
                   ELSE ZeroRecord ]
  BY <1>2 DEF PlacedRecords
<1> HIDE DEF placed, addr
<1>5. ASSUME NEW i \in 1 .. base + m
      PROVE  /\ placed[i] \in Record
             /\ \/ /\ placed[i].addr = addr(i)
                   /\ placed[i].value = map[addr(i)]
                \/ placed[i].addr \notin NonZero
  <2>1. CASE kept(i)
    <3>1. addr(i) \in Address /\ map[addr(i)] \in Value
      BY <1>3, <2>1 DEF Map
    <3> QED BY <1>4, <2>1, <3>1, RecordFields
  <2>2. CASE ~kept(i)
    BY <1>4, <2>2, RecordFields
  <2> QED BY <2>1, <2>2
<1>6. placed \in Seq(Record) /\ Len(placed) = base + m
  <2>1. placed \in [1 .. base + m -> Record]
    <3>1. \A i \in 1 .. base + m : placed[i] \in Record
      BY <1>5
    <3>2. placed = [i \in 1 .. base + m |-> placed[i]]
      BY <1>4
    <3> QED BY <3>1, <3>2
  <2> QED BY <2>1
<1>7. RecordsPlaced(d, placed)
  BY <1>3, <1>5, <1>6 DEF RecordsPlaced
<1>8. \A i \in 1 .. base + m : placed[i].addr \in NonZero =>
        map[placed[i].addr] = placed[i].value
  BY <1>5
<1> QED BY <1>2, <1>6, <1>7, <1>8 DEF placed

\* An order of finitely many addresses lists each of them once.
LEMMA Ordering ==
  ASSUME NEW new \in SUBSET Address, NEW order \in SetToSeqs(new)
  PROVE  /\ order \in Seq(Address)
         /\ Len(order) = Cardinality(new)
         /\ \A i, j \in 1 .. Len(order) : order[i] = order[j] => i = j
         /\ \A i \in 1 .. Len(order) : order[i] \in new
         /\ \A a \in new : \E i \in 1 .. Len(order) : order[i] = a
<1>1. IsFiniteSet(new)
  BY AddressAssumption, FS_Subset
<1>2. PICK n \in Nat : n = Cardinality(new)
  BY <1>1, FS_CardinalityType
<1>3. /\ order \in [1 .. n -> new]
      /\ \A i, j \in 1 .. n : order[i] = order[j] => i = j
  BY <1>2 DEF SetToSeqs
<1>4. order \in Seq(Address) /\ Len(order) = n
  BY <1>3
<1>5. order \in Injection(1 .. n, new)
  BY <1>3 DEF Injection, IsInjective
<1>6. Cardinality(1 .. n) = n
  BY FS_Interval
<1>7. order \in Surjection(1 .. n, new)
  BY <1>1, <1>2, <1>5, <1>6, FS_Injection
<1>8. \A a \in new : \E i \in 1 .. n : order[i] = a
  BY <1>7 DEF Surjection
<1> QED BY <1>2, <1>3, <1>4, <1>8

(***************************************************************************)
(* What restore_with makes of a checkpoint and a map: the directory of the *)
(* checkpoint with the addresses new to it appended, and records that list *)
(* the map, the zero address aside.                                        *)
(***************************************************************************)
LEMMA Restored ==
  ASSUME NEW d \in Directory, NEW keys \in Seq(Address), KeysPlaced(d, keys),
         NEW map \in Map, NEW placed, placed = PlacedRecords(d, keys, map),
         NEW new, new = KeysToAppend(d, placed, map),
         Fits(DirectoryLen(d) + Cardinality(new)),
         \A a \in new : ~InDelta(d, a),
         NEW order \in SetToSeqs(new)
  PROVE  Sound(Extended(d, order), placed \o RecordsOf(order, map), map)
<1> DEFINE e == Extended(d, order)
           added == RecordsOf(order, map)
           recs == placed \o added
<1>1. /\ placed \in Seq(Record)
      /\ Len(placed) = DirectoryLen(d)
      /\ RecordsPlaced(d, placed)
      /\ \A i \in 1 .. Len(placed) : placed[i].addr \in NonZero =>
           map[placed[i].addr] = placed[i].value
  BY Placed
<1>2. new \in SUBSET Address /\ \A a \in new : map[a] \in Value
  BY DEF KeysToAppend, Keys, Map
<1>3. /\ order \in Seq(Address)
      /\ Len(order) = Cardinality(new)
      /\ \A i, j \in 1 .. Len(order) : order[i] = order[j] => i = j
      /\ \A i \in 1 .. Len(order) : order[i] \in new
      /\ \A a \in new : \E i \in 1 .. Len(order) : order[i] = a
  BY <1>2, Ordering
<1>4. PICK m \in Nat, n \in Nat : m = Len(placed) /\ n = Len(order)
  BY <1>1, <1>3, LenProperties
<1>5. Extends(d, order)
  BY <1>3 DEF Extends
<1>6. /\ e \in Directory
      /\ DirectoryLen(e) = DirectoryLen(d) + Len(order)
      /\ \A i \in 1 .. Len(order) : Index(e, order[i]) = DirectoryLen(d) - 1 + i
      /\ \A a \in Address :
           (\A i \in 1 .. Len(order) : order[i] # a) => Index(e, a) = Index(d, a)
  BY <1>3, <1>5, Extension
<1>7. DirectoryLen(e) = m + n
  BY <1>1, <1>4, <1>6
<1>8. /\ added \in Seq(Record) /\ Len(added) = n
      /\ \A i \in 1 .. n : added[i].addr = order[i] /\ added[i].value = map[order[i]]
  <2>1. \A i \in 1 .. n : RecordOf(order[i], map[order[i]]) \in Record
    BY <1>2, <1>3, <1>4, RecordFields
  <2>2. added = [i \in 1 .. n |-> RecordOf(order[i], map[order[i]])]
    BY <1>4 DEF RecordsOf
  <2> HIDE DEF added
  <2>3. added \in Seq(Record) /\ Len(added) = n
    BY <2>1, <2>2
  <2> QED BY <1>2, <1>3, <1>4, <2>2, <2>3, RecordFields
<1> HIDE DEF e, added
<1>9. /\ recs \in Seq(Record) /\ Len(recs) = m + n
      /\ \A i \in 1 .. m + n : recs[i] = IF i <= m THEN placed[i] ELSE added[i - m]
  <2>1. /\ recs \in Seq(Record) /\ Len(recs) = Len(placed) + Len(added)
        /\ \A i \in 1 .. Len(placed) + Len(added) : recs[i] =
             IF i <= Len(placed) THEN placed[i] ELSE added[i - Len(placed)]
    <3>1. placed \in Seq(Record) /\ added \in Seq(Record)
      BY <1>1, <1>8
    <3> QED BY <3>1, ConcatProperties, Zenon
  <2> HIDE DEF recs
  <2> QED BY <1>4, <1>8, <2>1
<1> HIDE DEF recs
<1>10. \A i \in 1 .. m + n :
         \/ i \in 1 .. m /\ recs[i] = placed[i]
         \/ \E j \in 1 .. n : j = i - m /\ recs[i] = added[j]
  <2> SUFFICES ASSUME NEW i \in 1 .. m + n
               PROVE  \/ i \in 1 .. m /\ recs[i] = placed[i]
                      \/ \E j \in 1 .. n : j = i - m /\ recs[i] = added[j]
    OBVIOUS
  <2>1. CASE i <= m
    BY <1>9, <2>1
  <2>2. CASE ~(i <= m)
    <3>1. i - m \in 1 .. n /\ recs[i] = added[i - m]
      BY <1>9, <2>2
    <3> QED BY <3>1
  <2> QED BY <2>1, <2>2
<1>11. ASSUME NEW i \in 1 .. m, placed[i].addr \in NonZero
       PROVE  Index(e, placed[i].addr) = i - 1
  <2>1. Index(d, placed[i].addr) = i - 1 /\ placed[i].addr \in Address
    BY <1>1, <1>4, <1>11 DEF RecordsPlaced, NonZero
  <2>2. Carries(d, placed, placed[i].addr)
    BY <1>1, <1>4, <1>11, CarriedIsListed
  <2>3. \A j \in 1 .. Len(order) : order[j] # placed[i].addr
    BY <1>3, <2>2 DEF KeysToAppend
  <2> QED BY <1>6, <2>1, <2>3
<1>12. RecordsPlaced(e, recs)
  <2> SUFFICES ASSUME NEW i \in 1 .. m + n, recs[i].addr \in NonZero
               PROVE  Index(e, recs[i].addr) = i - 1
    BY <1>9 DEF RecordsPlaced
  <2>1. CASE i \in 1 .. m /\ recs[i] = placed[i]
    BY <1>11, <2>1
  <2>2. CASE \E j \in 1 .. n : j = i - m /\ recs[i] = added[j]
    <3>1. PICK j \in 1 .. n : j = i - m /\ recs[i] = added[j]
      BY <2>2
    <3>2. Index(e, order[j]) = DirectoryLen(d) - 1 + j
      BY <1>4, <1>6
    <3>3. Index(e, order[j]) = m - 1 + j
      BY <1>1, <1>4, <3>2
    <3> QED BY <1>8, <3>1, <3>3
  <2> QED BY <1>10, <2>1, <2>2
<1>13. ASSUME NEW i \in 1 .. m + n, recs[i].addr \in NonZero
       PROVE  map[recs[i].addr] = recs[i].value
  <2>1. CASE i \in 1 .. m /\ recs[i] = placed[i]
    BY <1>1, <1>4, <1>13, <2>1
  <2>2. CASE \E j \in 1 .. n : j = i - m /\ recs[i] = added[j]
    BY <1>8, <2>2
  <2> QED BY <1>10, <2>1, <2>2
<1>14. ASSUME NEW a \in NonZero, map[a] # None
       PROVE  \E i \in 1 .. m + n : recs[i].addr = a
  <2>1. CASE Carries(d, placed, a)
    <3>1. PICK i \in 1 .. m : placed[i].addr = a
      BY <1>1, <1>4, <2>1, CarriedIsListed
    <3>2. i \in 1 .. m + n /\ recs[i] = placed[i]
      BY <1>9
    <3> QED BY <3>1, <3>2
  <2>2. CASE ~Carries(d, placed, a)
    <3>1. a \in new
      BY <1>14, <2>2 DEF KeysToAppend, Keys, NonZero
    <3>2. PICK j \in 1 .. n : order[j] = a
      BY <1>3, <1>4, <3>1
    <3>3. PICK i \in 1 .. m + n : i = m + j
      OBVIOUS
    <3>4. recs[i] = added[j]
      BY <1>9, <3>3
    <3> QED BY <1>8, <3>2, <3>4
  <2> QED BY <2>1, <2>2
<1>15. Lists(recs, map)
  BY <1>9, <1>13, <1>14 DEF Lists
<1> QED BY <1>6, <1>7, <1>9, <1>12, <1>15 DEF Sound, recs, added, e
=============================================================================
