-------------------------- MODULE EthPirServiceProofs --------------------------
(***************************************************************************)
(* What the client of EthPirService can count on, for every value of the   *)
(* constants: any number of messages on the wire, generations, updates and *)
(* addresses, and any faults of server and network.                        *)
(*                                                                         *)
(* The types and NeverWrongValue need nothing but the invariant of the     *)
(* server.  ClientFollows and LookupFindsPublished are about a process     *)
(* that runs on.  They follow from an account of the directories there     *)
(* have been: last[v] is the latest one of version v, and every directory  *)
(* and tail that is anywhere is part of the one of its version.            *)
(***************************************************************************)
EXTENDS EthPirService, EthPirServerProofs

\* The part of the invariant that holds across restarts too.
Sane == Inductive /\ ServiceTypeOK /\ NeverWrongValue

LEMMA MessageFields ==
  /\ \A d \in Directory : Full(d) \in Message
  /\ \A m \in Message :
       \/ m.kind = "full" /\ m.directory \in Directory
       \/ /\ m.kind = "tail" /\ m.version \in Nat /\ m.base \in 1 .. Capacity
          /\ m.start \in 0 .. Capacity /\ m.keys \in Seq(Address)
BY DEF Message, Full

\* A tail is the end of the delta, from where the client's ends.
LEMMA TailFields ==
  ASSUME NEW d \in Directory, NEW have, NEW m \in Tails(d, have)
  PROVE  /\ m \in Message
         /\ m.kind = "tail" /\ m.version = d.version /\ m.base = d.base
         /\ m.start = have /\ have \in 0 .. Len(d.delta)
         /\ m.start + Len(m.keys) = Len(d.delta)
         /\ \A i \in 1 .. Len(m.keys) : m.keys[i] = d.delta[m.start + i]
<1>1. have \in 0 .. Len(d.delta)
  BY DEF Tails
<1>2. PICK keys : keys = SubSeq(d.delta, have + 1, Len(d.delta))
  OBVIOUS
<1>3. m = [ kind |-> "tail", version |-> d.version, base |-> d.base,
            start |-> have, keys |-> keys ]
  BY <1>2 DEF Tails
<1>4. d.delta \in Seq(Address) /\ Len(d.delta) \in 0 .. Capacity
  BY DirectoryFields
<1>5. PICK n \in Nat : n = Len(d.delta)
  BY <1>4, LenProperties
<1>6. /\ keys \in Seq(Address) /\ Len(keys) = n - have
      /\ \A i \in 1 .. n - have : keys[i] = d.delta[have + i]
  <2>1. have + 1 \in 1 .. n + 1
    BY <1>1, <1>5
  <2>2. /\ keys \in Seq(Address)
        /\ Len(keys) = n - (have + 1) + 1
        /\ \A i \in 1 .. n - (have + 1) + 1 : keys[i] = d.delta[have + 1 + i - 1]
    BY <1>1, <1>2, <1>4, <1>5, <2>1, SubSeqProperties
  <2>3. n - (have + 1) + 1 = n - have
    BY <1>1, <1>5
  <2>4. \A i \in 1 .. n - have : have + 1 + i - 1 = have + i
    BY <1>1, <1>5
  <2> QED BY <2>2, <2>3, <2>4
<1>7. m \in Message
  <2>1. /\ d.version \in Nat /\ d.base \in 1 .. Capacity
        /\ have \in 0 .. Capacity /\ keys \in Seq(Address)
    BY <1>1, <1>4, <1>6, DirectoryFields, CapacityAssumption
  <2> QED BY <1>3, <2>1, Zenon DEF Message
<1> QED BY <1>1, <1>3, <1>5, <1>6, <1>7

\* A response to a slot is, with the pair whole, the record there.
LEMMA ResponseFields ==
  ASSUME Inductive, NEW slot \in Slot, NEW r \in Responses(slot)
  PROVE  /\ r = serving.db[slot] /\ r \in Record
         /\ \A a \in NonZero : r.addr = a => r.value = published[a]
<1>1. r = serving.db[slot]
  BY DEF Inductive, ServedAsPair, Responses
<1>2. serving.db \in Database
  BY DEF Inductive, TypeOK
<1>3. ASSUME NEW a \in NonZero, r.addr = a PROVE r.value = published[a]
  <2> DEFINE at == {s \in Slot : serving.db[s].addr = a}
  <2>1. IF published[a] = None
        THEN at = {}
        ELSE \E s \in Slot : at = {s} /\ serving.db[s].value = published[a]
    BY DEF Inductive, ServesPublished, Serves
  <2>2. slot \in at
    BY <1>1, <1>3
  <2> QED BY <1>1, <2>1, <2>2
<1> QED BY <1>1, <1>2, <1>3 DEF Database

-------------------------------------------------------------------------------
LEMMA SaneInit == ServiceInit => Sane
<1> SUFFICES ASSUME ServiceInit PROVE Sane
  OBVIOUS
<1>1. Inductive
  BY InitInductive DEF ServiceInit
<1>2. directory \in Directory
  BY <1>1 DEF Inductive, TypeOK
<1> QED BY <1>1, <1>2 DEF ServiceInit, Sane, ServiceTypeOK, NeverWrongValue

LEMMA ServerKeepsSane ==
  ASSUME Sane, ServerStep \/ UNCHANGED serviceVars
  PROVE  Sane'
<1>1. Inductive'
  BY StepInductive DEF Sane, ServerStep, Next, serviceVars
<1>2. directory' \in Directory
  BY <1>1 DEF Inductive, TypeOK
<1>3. ServiceTypeOK'
  BY <1>2 DEF Sane, ServiceTypeOK, ServerStep, serviceVars
<1>4. NeverWrongValue'
  BY DEF Sane, NeverWrongValue, ServerStep, serviceVars
<1> QED BY <1>1, <1>3, <1>4 DEF Sane

\* The client's steps leave the server alone.
LEMMA ServerUntouched ==
  ASSUME Inductive, UNCHANGED vars
  PROVE  Inductive'
BY StepInductive

LEMMA SyncKeepsSane ==
  ASSUME Sane,
         \/ AskMode \/ Fetch
         \/ \E m \in wire : Receive(m) \/ ReceiveEarly(m) \/ Lose(m)
  PROVE  Sane'
<1>1. /\ UNCHANGED <<vars, lookup, laidOut>>
      /\ directory \in Directory
      /\ client \in Directory \cup {None} /\ mode \in SyncMode \cup {None}
      /\ wire \subseteq Message /\ laidOut \in Directory
      /\ lookup \in Asked \cup Answered \cup {None}
  BY DEF AskMode, Fetch, Receive, ReceiveEarly, Lose, Sane, ServiceTypeOK,
         Inductive, TypeOK
<1>2. Inductive'
  BY <1>1, ServerUntouched DEF Sane
<1>3. NeverWrongValue'
  BY <1>1 DEF Sane, NeverWrongValue
<1>4. /\ client' \in Directory \cup {None} /\ mode' \in SyncMode \cup {None}
      /\ wire' \subseteq Message
  <2>1. CASE AskMode
    <3>1. CASE client = None
      BY <1>1, <2>1, <3>1 DEF AskMode, SyncMode
    <3>2. CASE client # None
      <4>1. client \in Directory
        BY <1>1, <3>2
      <4>2. Len(client.delta) \in Nat
        BY <4>1, DirectoryFields
      <4>3. ModeFor(directory, client.version, Len(client.delta)) \in SyncMode
        BY <4>2 DEF ModeFor, SyncMode
      <4> QED BY <1>1, <2>1, <3>2, <4>3 DEF AskMode
    <3> QED BY <3>1, <3>2
  <2>2. CASE Fetch
    <3>1. Payloads(directory, mode) \subseteq Message
      BY <1>1, MessageFields, TailFields DEF Payloads
    <3> QED BY <1>1, <2>2, <3>1 DEF Fetch
  <2>3. ASSUME NEW m \in wire, Receive(m) \/ ReceiveEarly(m)
        PROVE  client' \in Directory \cup {None} /\ wire' \subseteq wire
               /\ mode' = mode
    <3>1. Applied(client, m) \in Directory \cup {None}
      BY <1>1, MessageFields DEF Applied, Accepts
    <3> QED BY <2>3, <3>1 DEF Receive, ReceiveEarly
  <2>4. ASSUME NEW m \in wire, Lose(m)
        PROVE  client' = client /\ wire' \subseteq wire /\ mode' = mode
    BY <2>4 DEF Lose
  <2> QED BY <1>1, <2>1, <2>2, <2>3, <2>4
<1>5. ServiceTypeOK'
  BY <1>1, <1>4 DEF ServiceTypeOK
<1> QED BY <1>2, <1>3, <1>5 DEF Sane

LEMMA LookupKeepsSane ==
  ASSUME Sane, (\E a \in LookupAddress : Query(a)) \/ Respond \/ EndLookup
  PROVE  Sane'
<1>1. /\ UNCHANGED <<vars, client, mode, wire, laidOut>>
      /\ client \in Directory \cup {None} /\ mode \in SyncMode \cup {None}
      /\ wire \subseteq Message /\ laidOut \in Directory
      /\ lookup \in Asked \cup Answered \cup {None}
      /\ Inductive /\ published \in Map
  BY DEF Query, Respond, EndLookup, Sane, ServiceTypeOK, Inductive, TypeOK
<1>2. Inductive'
  BY <1>1, ServerUntouched
<1>3. ASSUME NEW a \in LookupAddress, Query(a)
      PROVE  lookup' \in Asked
  <2>1. client \in Directory /\ a \in Address
    BY <1>1, <1>3, ServiceAssumption DEF Query
  <2>2. /\ Index(client, a) \in Slot /\ client.version \in Nat
        /\ Len(client.delta) \in Nat
    BY <2>1, SlotOfIndex, DirectoryFields
  <2> QED BY <1>3, <2>1, <2>2 DEF Query, Asked
<1>4. ASSUME Respond
      PROVE  /\ lookup' \in Answered
             /\ lookup'.addr \in NonZero =>
                  TryDecrypt(lookup'.response, lookup'.addr)
                    \in {None, lookup'.asOf}
  <2>1. lookup \in Asked
    BY <1>1, <1>4, ServiceAssumption DEF Respond, Answered
  <2>2. lookup.addr \in Address /\ lookup.slot \in Slot
    BY <2>1 DEF Asked
  <2>3. PICK r \in Responses(lookup.slot) :
          lookup' = [ addr |-> lookup.addr, response |-> r,
                      asOf |-> published[lookup.addr] ]
    BY <1>4 DEF Respond
  <2>4. /\ r \in Record
        /\ lookup.addr \in NonZero /\ r.addr = lookup.addr =>
             r.value = published[lookup.addr]
    BY <1>1, <2>2, ResponseFields
  <2>5. published[lookup.addr] \in Value \cup {None}
    BY <1>1, <2>2 DEF Map
  <2> QED BY <2>2, <2>3, <2>4, <2>5 DEF Answered, TryDecrypt
<1>5. ServiceTypeOK'
  BY <1>1, <1>3, <1>4 DEF ServiceTypeOK, EndLookup
<1>6. NeverWrongValue'
  <2>1. CASE \E a \in LookupAddress : Query(a)
    BY <1>3, <2>1 DEF NeverWrongValue, Asked
  <2>2. CASE Respond
    BY <1>4, <2>2 DEF NeverWrongValue
  <2>3. CASE EndLookup
    BY <2>3 DEF NeverWrongValue, EndLookup
  <2> QED BY <2>1, <2>2, <2>3
<1> QED BY <1>2, <1>5, <1>6 DEF Sane

LEMMA SaneStep == Sane /\ [ServiceNext]_serviceVars => Sane'
BY ServerKeepsSane, SyncKeepsSane, LookupKeepsSane DEF ServiceNext, ClientStep

THEOREM ServiceInvariance == ServiceSpec => []Sane
BY SaneInit, SaneStep, PTL DEF ServiceSpec

(***************************************************************************)
(* ServiceTypeCorrect: whatever arrives, the client has a directory that   *)
(* is one.                                                                 *)
(***************************************************************************)
THEOREM ServiceTypeCorrect == ServiceSpec => []ServiceTypeOK
BY ServiceInvariance, PTL DEF Sane

(***************************************************************************)
(* LookupsNeverLie: NeverWrongValue, across restarts of the server with    *)
(* any map and whatever directory the client resolved the address with.    *)
(***************************************************************************)
THEOREM LookupsNeverLie == ServiceSpec => []NeverWrongValue
BY ServiceInvariance, PTL DEF Sane
-------------------------------------------------------------------------------
\* A directory, and a tail, of some version up to v and part of last of it.
Copy(last, v, d) ==
  d \in Directory /\ d.version <= v /\ Prolongs(d, last[d.version])

Fragment(last, v, m) ==
  LET delta == last[m.version].delta IN
  /\ m.version <= v
  /\ m.base = last[m.version].base
  /\ m.start + Len(m.keys) <= Len(delta)
  /\ \A i \in 1 .. Len(m.keys) : m.keys[i] = delta[m.start + i]

ClientSound(last) ==
  /\ client # None => Copy(last, directory.version, client)
  /\ mode # None => (mode.kind = "tail" => client # None)

WireSound(last) ==
  \A m \in wire :
    /\ m.kind = "full" => Copy(last, directory.version, m.directory)
    /\ m.kind = "tail" => client # None /\ Fragment(last, directory.version, m)

\* The slot asked for is that of some directory there has been.
LookupSound(last) ==
  lookup # None /\ lookup.response = None =>
    \E d \in Directory :
      /\ Copy(last, directory.version, d)
      /\ d.version = lookup.version
      /\ Len(d.delta) = lookup.have
      /\ Index(d, lookup.addr) = lookup.slot

(***************************************************************************)
(* A published address is served where laidOut says, later directories of  *)
(* that version say so too, and as long as there are any the address has   *)
(* its record.                                                             *)
(***************************************************************************)
PlaceSound(last, a) ==
  /\ Index(laidOut, a) \in Slot
  /\ serving.db[Index(laidOut, a)].addr = a
  /\ Index(last[laidOut.version], a) = Index(laidOut, a)
  /\ laidOut.version = directory.version => book[a] # None

ServedSound(last) ==
  /\ Copy(last, directory.version, laidOut)
  /\ \A a \in NonZero : published[a] # None => PlaceSound(last, a)

Accounted(last) ==
  /\ last \in [Nat -> Directory]
  /\ last[directory.version] = directory
  /\ ClientSound(last)
  /\ WireSound(last)
  /\ LookupSound(last)
  /\ ServedSound(last)

LEMMA ProlongedIsBehind ==
  ASSUME NEW d \in Directory, NEW e \in Directory, Prolongs(d, e)
  PROVE  Behind(d, e)
<1> DEFINE n == Len(d.delta)
<1>1. /\ d.delta \in Seq(Address) /\ e.delta \in Seq(Address)
      /\ n \in Nat /\ Len(e.delta) \in Nat
  BY DirectoryFields
<1>2. \A i \in 1 .. n : d.delta[i] \in Address /\ e.delta[i] = d.delta[i]
  BY <1>1, ElementOfSeq DEF Prolongs
<1>3. SubSeq(d.delta, 1, n) = SubSeq(e.delta, 1, n)
  BY <1>1, <1>2
<1> QED BY <1>3 DEF Prolongs, Behind, IsPrefix

LEMMA ProlongsTransitive ==
  ASSUME NEW c \in Directory, NEW d \in Directory, NEW e \in Directory,
         Prolongs(c, d), Prolongs(d, e)
  PROVE  Prolongs(c, e)
<1>1. Len(c.delta) \in Nat /\ Len(d.delta) \in Nat /\ Len(e.delta) \in Nat
  BY DirectoryFields
<1> QED BY <1>1 DEF Prolongs

(***************************************************************************)
(* The account goes on when the directory d becomes e: a longer one of the *)
(* same version, or one of the next.                                       *)
(***************************************************************************)
LEMMA Advance ==
  ASSUME NEW last \in [Nat -> Directory], NEW d \in Directory, NEW e \in Directory,
         last[d.version] = d,
         \/ e.version = d.version /\ Prolongs(d, e)
         \/ e.version = d.version + 1,
         NEW next \in [Nat -> Directory], next[e.version] = e,
         \A v \in Nat : v # e.version => next[v] = last[v]
  PROVE  /\ \A c : Copy(last, d.version, c) => Copy(next, e.version, c)
         /\ \A m \in Message :
              m.kind = "tail" /\ Fragment(last, d.version, m) =>
                Fragment(next, e.version, m)
<1>1. d.version \in Nat /\ e.version \in Nat /\ d.version <= e.version
  BY DirectoryFields
<1>3. ASSUME NEW v \in Nat, v <= d.version
      PROVE  /\ last[v] \in Directory /\ next[v] \in Directory
             /\ Prolongs(last[v], next[v])
  <2>1. CASE v = e.version
    <3>1. v = d.version /\ last[v] = d /\ next[v] = e
      BY <1>1, <1>3, <2>1
    <3> QED BY <2>1, <3>1
  <2>2. CASE v # e.version
    <3>1. next[v] = last[v] /\ last[v] \in Directory
      BY <2>2
    <3>2. Len(last[v].delta) \in Nat
      BY <3>1, DirectoryFields
    <3> QED BY <3>1, <3>2 DEF Prolongs
  <2> QED BY <2>1, <2>2
<1>4. ASSUME NEW c, Copy(last, d.version, c)
      PROVE  Copy(next, e.version, c)
  <2>1. c \in Directory /\ c.version \in Nat /\ c.version <= d.version
    BY <1>4, DirectoryFields DEF Copy
  <2>2. Prolongs(c, next[c.version])
    BY <1>3, <1>4, <2>1, ProlongsTransitive DEF Copy
  <2> QED BY <1>1, <2>1, <2>2 DEF Copy
<1>5. ASSUME NEW m \in Message, m.kind = "tail", Fragment(last, d.version, m)
      PROVE  Fragment(next, e.version, m)
  <2>1. /\ m.version \in Nat /\ m.version <= d.version
        /\ m.start \in Nat /\ m.keys \in Seq(Address) /\ Len(m.keys) \in Nat
    BY <1>5, MessageFields, LenProperties, CapacityAssumption DEF Fragment
  <2>2. PICK old \in Directory, new \in Directory :
          old = last[m.version] /\ new = next[m.version]
    BY <1>3, <2>1
  <2>3. Prolongs(old, new) /\ Len(old.delta) \in Nat /\ Len(new.delta) \in Nat
    BY <1>3, <2>1, <2>2, DirectoryFields
  <2>4. /\ m.base = old.base /\ m.start + Len(m.keys) <= Len(old.delta)
        /\ \A i \in 1 .. Len(m.keys) : m.keys[i] = old.delta[m.start + i]
    BY <1>5, <2>2 DEF Fragment
  <2>5. ASSUME NEW i \in 1 .. Len(m.keys)
        PROVE  m.keys[i] = new.delta[m.start + i]
    <3>1. m.start + i \in 1 .. Len(old.delta)
      BY <2>1, <2>3, <2>4
    <3> QED BY <2>3, <2>4, <3>1 DEF Prolongs
  <2>6. m.base = new.base /\ m.start + Len(m.keys) <= Len(new.delta)
    BY <2>1, <2>3, <2>4 DEF Prolongs
  <2> QED BY <1>1, <2>1, <2>2, <2>5, <2>6 DEF Fragment
<1> QED BY <1>4, <1>5

\* A tail that a copy accepts gives a copy: never one of another version.
LEMMA AcceptedTail ==
  ASSUME NEW last \in [Nat -> Directory], NEW v \in Nat, NEW c,
         Copy(last, v, c), NEW m \in Message, m.kind = "tail",
         Fragment(last, v, m), Accepts(c, m)
  PROVE  Copy(last, v, Extended(c, m.keys))
<1> DEFINE e == Extended(c, m.keys)
<1>1. /\ c \in Directory /\ e \in Directory /\ c.version = m.version
      /\ m.start = Len(c.delta)
  BY DEF Copy, Accepts
<1>2. /\ c.delta \in Seq(Address) /\ m.keys \in Seq(Address)
      /\ c.version \in Nat
  BY <1>1, DirectoryFields, MessageFields
<1>3. /\ e.mphf = c.mphf /\ e.base = c.base /\ e.version = c.version
      /\ e.delta = c.delta \o m.keys
  BY <1>1 DEF Extended, Directory
<1>4. PICK n \in Nat, k \in Nat : n = Len(c.delta) /\ k = Len(m.keys)
  BY <1>2, LenProperties
<1>5. /\ Len(e.delta) = n + k
      /\ \A i \in 1 .. n + k :
           e.delta[i] = IF i <= n THEN c.delta[i] ELSE m.keys[i - n]
  <2> DEFINE all == c.delta \o m.keys
  <2>1. /\ Len(all) = Len(c.delta) + Len(m.keys)
        /\ \A i \in 1 .. Len(c.delta) + Len(m.keys) :
             all[i] = IF i <= Len(c.delta) THEN c.delta[i]
                      ELSE m.keys[i - Len(c.delta)]
    BY <1>2, ConcatProperties
  <2> HIDE DEF all, e
  <2> QED BY <1>3, <1>4, <2>1 DEF all
<1>6. PICK full \in Directory : full = last[c.version]
  BY <1>2
<1>7. /\ Prolongs(c, full) /\ n + k <= Len(full.delta)
      /\ \A i \in 1 .. k : m.keys[i] = full.delta[n + i]
  BY <1>1, <1>4, <1>6 DEF Copy, Fragment
<1> HIDE DEF e
<1>8. ASSUME NEW i \in 1 .. n + k PROVE e.delta[i] = full.delta[i]
  <2>1. CASE i <= n
    <3>1. i \in 1 .. Len(c.delta)
      BY <1>4, <2>1
    <3>2. c.delta[i] = full.delta[i]
      BY <1>7, <3>1 DEF Prolongs
    <3> QED BY <1>5, <2>1, <3>2
  <2>2. CASE ~(i <= n)
    <3>1. i - n \in 1 .. k /\ n + (i - n) = i
      BY <2>2
    <3> QED BY <1>5, <1>7, <2>2, <3>1
  <2> QED BY <2>1, <2>2
<1>9. Prolongs(e, full)
  BY <1>3, <1>5, <1>7, <1>8 DEF Prolongs
<1> QED BY <1>1, <1>3, <1>6, <1>9 DEF Copy, e


LEMMA ProlongsReflexive == \A d \in Directory : Prolongs(d, d)
BY DirectoryFields DEF Prolongs
-------------------------------------------------------------------------------
\* What is laid out by the directory there is, is where it says.
JustLaidOut ==
  laidOut = directory /\ serving.db = Encoded(records) /\ published = book

SoundNow ==
  \A last : last[directory.version] = directory => ServedSound(last)

LEMMA LaidOutNow == Inductive /\ JustLaidOut => SoundNow
<1> SUFFICES ASSUME Inductive, JustLaidOut,
                    NEW last, last[directory.version] = directory
             PROVE  ServedSound(last)
  BY DEF SoundNow
<1> USE DEF JustLaidOut
<1>1. directory \in Directory /\ directory.version \in Nat
  BY DirectoryFields DEF Inductive, TypeOK
<1>2. Copy(last, directory.version, laidOut)
  BY <1>1, ProlongsReflexive DEF Copy
<1>3. \A a \in NonZero : published[a] # None => PlaceSound(last, a)
  BY HasRecord DEF PlaceSound
<1> QED BY <1>2, <1>3 DEF ServedSound

\* What a step of the server's does to its directory.
LEMMA DirectorySteps ==
  ASSUME Inductive, ServerRuns
  PROVE  /\ UNCHANGED <<serving, published>>
         /\ \/ directory'.version = directory.version + 1
            \/ /\ \A b \in Address : book[b] # None => book'[b] # None
               /\ \/ UNCHANGED directory
                  \/ \E a \in Address :
                       /\ ~InDelta(directory, a)
                       /\ ~Carries(directory, records, a)
                       /\ Fits(DirectoryLen(directory) + 1)
                       /\ directory' = Pushed(directory, a)
<1>0. directory \in Directory /\ directory.version \in Nat /\ book \in Map
  BY DirectoryFields DEF Inductive, TypeOK
<1>1. ASSUME NEW map, map \in Map, Reindex(map)
      PROVE  /\ UNCHANGED <<serving, published>>
             /\ directory'.version = directory.version + 1
  <2>1. directory.version + 1 \in Nat /\ Keys(map) \in SUBSET Address
    BY <1>0 DEF Keys
  <2>2. PICK next \in NewDirectories(Keys(map), directory.version + 1) :
          directory' = next
    BY <1>1 DEF Reindex, RebuiltDirectories
  <2>3. next.version = directory.version + 1
    BY <1>1, <2>1, <2>2, NewDirectory DEF Reindex
  <2> QED BY <1>1, <2>2, <2>3 DEF Reindex
<1>2. ASSUME NEW map \in UserMap, RebuildKeywordIndexFrom(map)
      PROVE  /\ UNCHANGED <<serving, published>>
             /\ directory'.version = directory.version + 1
  BY <1>1, <1>2 DEF RebuildKeywordIndexFrom, UserMap
<1>3. ASSUME RebuildKeywordIndex
      PROVE  /\ UNCHANGED <<serving, published>>
             /\ directory'.version = directory.version + 1
  <2>1. RecordsToMap(records) \in Map
    BY <1>0, Reread DEF Inductive
  <2> QED BY <1>1, <1>3, <2>1 DEF RebuildKeywordIndex
<1>4. ASSUME NEW a \in UserAddress, NEW v \in Value, Update(a, v)
      PROVE  /\ UNCHANGED <<serving, published>>
             /\ \A b \in Address : book[b] # None => book'[b] # None
             /\ \/ UNCHANGED directory
                \/ \E b \in Address :
                     /\ ~InDelta(directory, b)
                     /\ ~Carries(directory, records, b)
                     /\ Fits(DirectoryLen(directory) + 1)
                     /\ directory' = Pushed(directory, b)
  <2>1. a \in Address /\ v # None
    BY UserAssumption, NoneAssumption
  <2>2. \A b \in Address : book[b] # None => book'[b] # None
    BY <1>0, <1>4, <2>1 DEF Update, Map
  <2> QED BY <1>4, <2>1, <2>2 DEF Update, Overwrite, Insert, Reclaim
<1>5. CASE RebuildDatabase \/ EncodeStaging \/ TakeContext \/ Precompute
           \/ EncodeFails \/ RefreshPoisoned \/ ResponderPanics \/ TakeCheckpoint
  BY <1>5 DEF RebuildDatabase, EncodeStaging, TakeContext, Precompute,
              EncodeFails, RefreshPoisoned, ResponderPanics, TakeCheckpoint
<1> QED BY <1>2, <1>3, <1>4, <1>5 DEF ServerRuns

LEMMA AccountInit ==
  ASSUME ServiceInit
  PROVE  \E last : Accounted(last)
<1>1. Inductive
  BY InitInductive DEF ServiceInit
<1>2. directory \in Directory /\ directory.version \in Nat
  BY <1>1, DirectoryFields DEF Inductive, TypeOK
<1>3. PICK last : last = [v \in Nat |-> directory]
  OBVIOUS
<1>4. last \in [Nat -> Directory] /\ last[directory.version] = directory
  BY <1>2, <1>3
<1>5. serving.db = Encoded(records) /\ published = book
  BY DEF ServiceInit, Init
<1>6. ServedSound(last)
  BY <1>1, <1>4, <1>5, LaidOutNow DEF ServiceInit, JustLaidOut, SoundNow
<1> QED BY <1>4, <1>6
        DEF ServiceInit, Accounted, ClientSound, WireSound, LookupSound

\* A step of the server that leaves what is served alone.
LEMMA AccountRuns ==
  ASSUME Sane, directory' \in Directory, NEW last, Accounted(last), ServerRuns,
         UNCHANGED <<client, mode, wire, lookup, laidOut>>
  PROVE  \E next : Accounted(next)'
<1> DEFINE v == directory.version
           w == directory'.version
<1>1. /\ directory \in Directory /\ v \in Nat
      /\ last \in [Nat -> Directory] /\ last[v] = directory
  BY DirectoryFields DEF Sane, Inductive, TypeOK, Accounted
<1>2. (w = v /\ Prolongs(directory, directory')) \/ w = v + 1
  BY <1>1, DirectorySteps, ProlongsReflexive, PushProlongs DEF Sane
<1>3. PICK next : next = [last EXCEPT ![w] = directory']
  OBVIOUS
<1>4. /\ next \in [Nat -> Directory] /\ next[w] = directory'
      /\ \A c : Copy(last, v, c) => Copy(next, w, c)
      /\ \A m \in Message :
           m.kind = "tail" /\ Fragment(last, v, m) => Fragment(next, w, m)
  <2>1. PICK e \in Directory : e = directory'
    OBVIOUS
  <2>2. /\ directory \in Directory /\ last \in [Nat -> Directory]
        /\ last[directory.version] = directory
        /\ \/ e.version = directory.version /\ Prolongs(directory, e)
           \/ e.version = directory.version + 1
        /\ next \in [Nat -> Directory] /\ next[e.version] = e
        /\ \A u \in Nat : u # e.version => next[u] = last[u]
    BY <1>1, <1>2, <1>3, <2>1
  <2>3. /\ \A c : Copy(last, directory.version, c) => Copy(next, e.version, c)
        /\ \A m \in Message :
             m.kind = "tail" /\ Fragment(last, directory.version, m) =>
               Fragment(next, e.version, m)
    BY <2>2, Advance
  <2> QED BY <2>1, <2>2, <2>3
<1>5. ClientSound(next)'
  BY <1>4 DEF Accounted, ClientSound
<1>6. WireSound(next)'
  BY <1>4 DEF Accounted, WireSound, Sane, ServiceTypeOK
<1>7. LookupSound(next)'
  BY <1>4 DEF Accounted, LookupSound
<1>8. Copy(next, w, laidOut)
  BY <1>4 DEF Accounted, ServedSound
<1>9. ASSUME NEW a \in NonZero, published'[a] # None
      PROVE  PlaceSound(next, a)'
  <2>1. PlaceSound(last, a) /\ UNCHANGED <<serving, published>> /\ a \in Address
    BY <1>9, DirectorySteps DEF Sane, Accounted, ServedSound, NonZero
  <2>2. laidOut.version \in Nat /\ laidOut.version <= v
    BY DirectoryFields DEF Accounted, ServedSound, Copy
  <2>3. CASE w = v + 1
    <3>1. laidOut.version # w
      BY <1>1, <2>2, <2>3
    <3>2. next[laidOut.version] = last[laidOut.version]
      BY <1>1, <1>3, <2>2, <3>1
    <3> QED BY <2>1, <3>1, <3>2 DEF PlaceSound
  <2>4. CASE w # v + 1
    <3>1. book[a] # None => book'[a] # None
      BY <2>1, <2>4, DirectorySteps DEF Sane
    <3>2. w = v
      BY <1>2, <2>4
    <3>3. CASE laidOut.version # v
      <4>1. next[laidOut.version] = last[laidOut.version]
        BY <1>1, <1>3, <2>2, <3>2, <3>3
      <4> QED BY <2>1, <3>2, <3>3, <4>1 DEF PlaceSound
    <3>4. CASE laidOut.version = v
      <4>1. book[a] # None /\ Index(directory, a) = Index(laidOut, a)
        BY <1>1, <2>1, <3>4 DEF PlaceSound
      <4>2. Carries(directory, records, a)
        BY <4>1, HasRecord DEF Sane
      <4>3. Index(directory', a) = Index(directory, a)
        BY <1>1, <2>1, <2>4, <4>2, DirectorySteps, PushProlongs DEF Sane
      <4>4. Index(next[laidOut'.version], a) = Index(laidOut, a)
        BY <1>4, <3>2, <3>4, <4>1, <4>3
      <4> QED BY <2>1, <3>1, <4>1, <4>4 DEF PlaceSound
    <3> QED BY <3>3, <3>4
  <2> QED BY <2>3, <2>4
<1>10. ServedSound(next)'
  BY <1>8, <1>9 DEF ServedSound
<1>11. Accounted(next)'
  BY <1>4, <1>5, <1>6, <1>7, <1>10 DEF Accounted
<1> QED BY <1>11

\* The two steps that replace what is served; the second needs a stop.
LEMMA AccountInstall ==
  ASSUME Sane, Sane', NEW last, Accounted(last), Install, laidOut' = directory',
         UNCHANGED <<client, mode, wire, lookup>>
  PROVE  Accounted(last)'
<1>1. /\ UNCHANGED <<directory, records, book>>
      /\ serving'.db = staging /\ published' = book
      /\ staging = Encoded(records)
  BY DEF Install, Sane, Inductive, RefreshUnderWay
<1>2. last \in [Nat -> Directory] /\ last[directory'.version] = directory'
  BY <1>1 DEF Accounted
<1>3. (ClientSound(last) /\ WireSound(last) /\ LookupSound(last))'
  BY <1>1 DEF Accounted, ClientSound, WireSound, LookupSound
<1>4. (Inductive /\ JustLaidOut => SoundNow)'
  BY LaidOutNow, PTL
<1>5. ServedSound(last)'
  BY <1>1, <1>2, <1>4 DEF Sane, JustLaidOut, SoundNow
<1> QED BY <1>2, <1>3, <1>5 DEF Accounted

LEMMA AccountServer ==
  ASSUME Sane, Sane', "stop" \notin Faults, \E last : Accounted(last),
         ServerStep \/ UNCHANGED serviceVars
  PROVE  (\E last : Accounted(last))'
<1>1. PICK last : Accounted(last)
  OBVIOUS
<1>2. CASE ServerRuns /\ UNCHANGED <<client, mode, wire, lookup, laidOut>>
  <2>1. directory' \in Directory
    BY DEF Sane, Inductive, TypeOK
  <2> QED BY <1>1, <1>2, <2>1, AccountRuns
<1>3. CASE Install /\ laidOut' = directory' /\ UNCHANGED <<client, mode, wire, lookup>>
  BY <1>1, <1>3, AccountInstall
<1>4. CASE UNCHANGED serviceVars
  <2>1. Accounted(last)'
    BY <1>1, <1>4 DEF serviceVars, vars, serverVars, Accounted, ClientSound,
                      WireSound, LookupSound, ServedSound, PlaceSound
  <2> QED BY <2>1
<1>5. ~ \E map \in UserMap : Restart(map)
  BY DEF Restart
<1> QED BY <1>2, <1>3, <1>4, <1>5 DEF ServerStep

\* Asking, sending, receiving, losing.
LEMMA AccountSync ==
  ASSUME Sane, NEW last, Accounted(last),
         \/ AskMode \/ Fetch
         \/ \E m \in wire : Receive(m) \/ ReceiveEarly(m) \/ Lose(m)
  PROVE  Accounted(last)'
<1>1. /\ UNCHANGED vars /\ lookup' = lookup /\ laidOut' = laidOut
      /\ UNCHANGED <<directory, serving, published, book>>
  BY DEF AskMode, Fetch, Receive, ReceiveEarly, Lose, vars, serverVars
<1>2. /\ directory \in Directory /\ last \in [Nat -> Directory]
      /\ last[directory.version] = directory /\ directory.version \in Nat
      /\ wire \subseteq Message
  BY DirectoryFields DEF Sane, Inductive, TypeOK, ServiceTypeOK, Accounted
<1>3. (LookupSound(last) /\ ServedSound(last))'
  BY <1>1 DEF Accounted, LookupSound, ServedSound, PlaceSound
<1>4. ClientSound(last)' /\ WireSound(last)'
  <2>1. CASE AskMode
    <3>1. ClientSound(last)'
      BY <1>1, <2>1 DEF AskMode, Accounted, ClientSound
    <3>2. WireSound(last)'
      BY <1>1, <2>1 DEF AskMode, Accounted, WireSound
    <3> QED BY <3>1, <3>2
  <2>2. CASE Fetch
    <3>1. ClientSound(last)'
      BY <1>1, <2>2 DEF Fetch, Accounted, ClientSound
    <3>2. mode \in SyncMode /\ (mode.kind = "tail" => client # None)
      BY <2>2 DEF Fetch, Sane, ServiceTypeOK, Accounted, ClientSound
    <3>3. ASSUME NEW m \in Payloads(directory, mode)
          PROVE  /\ m.kind = "full" => Copy(last, directory.version, m.directory)
                 /\ m.kind = "tail" => /\ client # None
                                       /\ Fragment(last, directory.version, m)
      <4>1. CASE mode.kind = "full"
        <5>1. m.kind = "full" /\ m.directory = directory
          BY <4>1 DEF Payloads, Full
        <5> QED BY <1>2, <5>1, ProlongsReflexive DEF Copy
      <4>2. CASE mode.kind # "full"
        <5>1. client # None /\ m \in Tails(directory, mode.from)
          BY <3>2, <4>2 DEF Payloads, SyncMode
        <5>2. /\ m.kind = "tail" /\ m.version = directory.version
              /\ m.base = directory.base
              /\ m.start + Len(m.keys) = Len(directory.delta)
              /\ \A i \in 1 .. Len(m.keys) : m.keys[i] = directory.delta[m.start + i]
          BY <1>2, <5>1, TailFields
        <5>3. Len(directory.delta) \in Nat
          BY <1>2, DirectoryFields
        <5> QED BY <1>2, <5>1, <5>2, <5>3 DEF Fragment
      <4> QED BY <4>1, <4>2
    <3>4. WireSound(last)'
      BY <1>1, <2>2, <3>3 DEF Fetch, Accounted, WireSound
    <3> QED BY <3>1, <3>4
  <2>3. ASSUME NEW m \in wire, Receive(m) \/ ReceiveEarly(m)
        PROVE  ClientSound(last)' /\ WireSound(last)'
    <3>1. /\ client' = Applied(client, m) /\ wire' \subseteq wire /\ mode' = mode
          /\ m \in Message
      BY <1>2, <2>3 DEF Receive, ReceiveEarly
    <3>2. client' # None /\ Copy(last, directory.version, client')
      <4>1. CASE m.kind = "full"
        <5>1. client' = m.directory /\ Copy(last, directory.version, client')
          BY <3>1, <4>1 DEF Applied, Accounted, WireSound
        <5> QED BY <5>1, ServiceAssumption DEF Copy
      <4>2. CASE m.kind = "tail"
        <5>1. /\ client # None /\ Copy(last, directory.version, client)
              /\ Fragment(last, directory.version, m)
          BY <4>2 DEF Accounted, ClientSound, WireSound
        <5>2. client' = IF Accepts(client, m) THEN Extended(client, m.keys)
                        ELSE client
          BY <3>1, <4>2 DEF Applied
        <5>3. CASE Accepts(client, m)
          <6>1. Copy(last, directory.version, Extended(client, m.keys))
            BY <1>2, <3>1, <4>2, <5>1, <5>3, AcceptedTail
          <6> QED BY <5>2, <5>3, <6>1, ServiceAssumption DEF Copy
        <5> QED BY <5>1, <5>2, <5>3
      <4> QED BY <3>1, <4>1, <4>2, MessageFields
    <3>3. ClientSound(last)'
      BY <1>1, <3>1, <3>2 DEF ClientSound
    <3>4. WireSound(last)'
      BY <1>1, <3>1, <3>2 DEF Accounted, WireSound
    <3> QED BY <3>3, <3>4
  <2>4. ASSUME NEW m \in wire, Lose(m)
        PROVE  ClientSound(last)' /\ WireSound(last)'
    BY <1>1, <2>4 DEF Lose, Accounted, ClientSound, WireSound
  <2> QED BY <2>1, <2>2, <2>3, <2>4
<1> QED BY <1>1, <1>2, <1>3, <1>4 DEF Accounted

LEMMA AccountLookup ==
  ASSUME Sane, NEW last, Accounted(last),
         (\E a \in LookupAddress : Query(a)) \/ Respond \/ EndLookup
  PROVE  Accounted(last)'
<1>1. /\ UNCHANGED <<client, mode, wire, laidOut>>
      /\ UNCHANGED <<directory, serving, published, book>>
  BY DEF Query, Respond, EndLookup, vars, serverVars
<1>2. (ClientSound(last) /\ WireSound(last) /\ ServedSound(last))'
  BY <1>1 DEF Accounted, ClientSound, WireSound, ServedSound, PlaceSound
<1>3. LookupSound(last)'
  <2>1. ASSUME NEW a \in LookupAddress, Query(a)
        PROVE  LookupSound(last)'
    <3>1. /\ Copy(last, directory.version, client)
          /\ lookup'.version = client.version /\ lookup'.have = Len(client.delta)
          /\ lookup'.slot = Index(client, lookup'.addr)
      BY <2>1 DEF Query, Accounted, ClientSound
    <3> QED BY <1>1, <3>1 DEF LookupSound, Copy
  <2>2. CASE Respond
    <3>1. lookup \in Asked
      BY <2>2, ServiceAssumption DEF Respond, Sane, ServiceTypeOK, Answered
    <3>2. PICK r \in Responses(lookup.slot) : lookup'.response = r
      BY <2>2 DEF Respond
    <3>3. lookup'.response # None
      BY <3>1, <3>2, ResponseFields, ServiceAssumption DEF Sane, Asked
    <3> QED BY <3>3 DEF LookupSound
  <2>3. CASE EndLookup
    BY <2>3 DEF EndLookup, LookupSound
  <2> QED BY <2>1, <2>2, <2>3
<1> QED BY <1>1, <1>2, <1>3 DEF Accounted

Account == Sane /\ \E last : Accounted(last)

LEMMA AccountStep ==
  ASSUME "stop" \notin Faults
  PROVE  Account /\ [ServiceNext]_serviceVars => Account'
<1> SUFFICES ASSUME Account, [ServiceNext]_serviceVars PROVE Account'
  OBVIOUS
<1>1. Sane'
  BY SaneStep DEF Account
<1>2. (\E last : Accounted(last))'
  <2>1. CASE ServerStep \/ UNCHANGED serviceVars
    BY <1>1, <2>1, AccountServer DEF Account
  <2>2. CASE ClientStep
    <3>1. PICK last : Accounted(last)
      BY DEF Account
    <3>2. Accounted(last)'
      BY <2>2, <3>1, AccountSync, AccountLookup DEF Account, ClientStep
    <3> QED BY <3>2
  <2> QED BY <2>1, <2>2 DEF ServiceNext
<1> QED BY <1>1, <1>2 DEF Account

THEOREM DirectoriesAccountedFor ==
  ASSUME "stop" \notin Faults
  PROVE  ServiceSpec => []Account
<1>1. ServiceInit => Account
  BY SaneInit, AccountInit DEF Account
<1> QED BY <1>1, AccountStep, PTL DEF ServiceSpec
-------------------------------------------------------------------------------
(***************************************************************************)
(* CopiesFollow: while the process runs on, ClientFollows, for any number  *)
(* of messages on the wire, repeated, lost and reordered as they may be.   *)
(***************************************************************************)
THEOREM CopiesFollow ==
  ASSUME "stop" \notin Faults
  PROVE  ServiceSpec => []ClientFollows
<1>1. Account => ClientFollows
  <2> SUFFICES ASSUME Account, client # None, client.version = directory.version
               PROVE  Behind(client, directory)
    BY DEF ClientFollows
  <2>1. PICK last : Accounted(last)
    BY DEF Account
  <2>2. client \in Directory /\ Prolongs(client, directory)
    BY <2>1 DEF Accounted, ClientSound, Copy
  <2>3. directory \in Directory
    BY DEF Account, Sane, Inductive, TypeOK
  <2> QED BY <2>2, <2>3, ProlongedIsBehind
<1> QED BY <1>1, DirectoriesAccountedFor, PTL

\* The slot of a published address, by the directory the client had.
LEMMA SameSlot ==
  ASSUME Sane, NEW last, Accounted(last), NEW a \in NonZero, published[a] # None,
         NEW d \in Directory, Copy(last, directory.version, d),
         d.version = laidOut.version,
         \A i \in 1 .. Len(laidOut.delta) :
           i > Len(d.delta) => laidOut.delta[i] # a
  PROVE  Index(d, a) = Index(laidOut, a)
<1>1. PICK full \in Directory : full = last[laidOut.version]
  BY DirectoryFields DEF Accounted, ServedSound, Copy
<1>2. /\ laidOut \in Directory /\ Prolongs(laidOut, full) /\ Prolongs(d, full)
      /\ Index(full, a) = Index(laidOut, a) /\ a \in Address
  BY <1>1 DEF Accounted, ServedSound, PlaceSound, Copy, NonZero
<1>3. PICK m \in Nat, n \in Nat, k \in Nat :
        m = Len(d.delta) /\ n = Len(laidOut.delta) /\ k = Len(full.delta)
  BY <1>2, DirectoryFields
<1>4. /\ d.base = full.base /\ laidOut.base = full.base
      /\ d.mphf = full.mphf /\ laidOut.mphf = full.mphf
      /\ m <= k /\ n <= k
      /\ \A i \in 1 .. m : d.delta[i] = full.delta[i]
      /\ \A i \in 1 .. n : laidOut.delta[i] = full.delta[i]
  BY <1>2, <1>3 DEF Prolongs
<1>5. CASE m <= n
  <2>1. \A i \in 1 .. m : laidOut.delta[i] = d.delta[i]
    BY <1>3, <1>4, <1>5
  <2>2. InDelta(laidOut, a) => InDelta(d, a)
    BY <1>3, <2>1 DEF InDelta
  <2> QED BY <1>2, <1>3, <1>4, <1>5, <2>1, <2>2, IndexStays
<1>6. CASE n <= m
  <2>1. \A i \in 1 .. n : d.delta[i] = laidOut.delta[i]
    BY <1>3, <1>4, <1>6
  <2>2. InDelta(d, a) => InDelta(full, a)
    BY <1>3, <1>4 DEF InDelta
  <2>3. InDelta(full, a) => InDelta(laidOut, a)
    BY <1>2, <1>4, IndexRange
  <2> QED BY <1>2, <1>3, <1>4, <1>6, <2>1, <2>2, <2>3, IndexStays
<1> QED BY <1>3, <1>5, <1>6

(***************************************************************************)
(* CurrentLookupsFind: while the process runs on, LookupFindsPublished.    *)
(***************************************************************************)
THEOREM CurrentLookupsFind ==
  ASSUME "stop" \notin Faults
  PROVE  ServiceSpec => LookupFindsPublished
<1> DEFINE a == lookup.addr
           missing == \E i \in 1 .. Len(laidOut.delta) :
                        i > lookup.have /\ laidOut.delta[i] = a
           Answers == lookup # None /\ Respond =>
                      (lookup.version = laidOut.version /\ published[a] # None
                         /\ a \in NonZero /\ ~missing =>
                         lookup'.response = RecordOf(a, published[a]))
<1>1. Account => [Answers]_serviceVars
  <2> SUFFICES ASSUME Account, lookup # None, Respond,
                      lookup.version = laidOut.version, published[a] # None,
                      a \in NonZero, ~missing
               PROVE  lookup'.response = RecordOf(a, published[a])
    OBVIOUS
  <2>1. PICK last : Accounted(last)
    BY DEF Account
  <2>2. PICK d \in Directory :
          /\ Copy(last, directory.version, d) /\ d.version = laidOut.version
          /\ Len(d.delta) = lookup.have /\ Index(d, a) = lookup.slot
    BY <2>1 DEF Accounted, LookupSound, Respond
  <2>3. lookup.slot = Index(laidOut, a)
    BY <2>1, <2>2, SameSlot DEF Account
  <2>4. lookup.slot \in Slot /\ serving.db[lookup.slot].addr = a
    BY <2>1, <2>3 DEF Accounted, ServedSound, PlaceSound
  <2>5. PICK r \in Responses(lookup.slot) : lookup'.response = r
    BY DEF Respond
  <2>6. /\ r = serving.db[lookup.slot] /\ r \in Record
        /\ r.addr = a => r.value = published[a]
    BY <2>4, <2>5, ResponseFields DEF Account, Sane
  <2>7. r.addr = a /\ r.value = published[a]
    BY <2>4, <2>6
  <2> QED BY <2>5, <2>6, <2>7 DEF Record, RecordOf
<1>2. [][Answers]_serviceVars => LookupFindsPublished
  BY PTL DEF LookupFindsPublished
<1> QED BY <1>1, <1>2, DirectoriesAccountedFor, PTL
=============================================================================
