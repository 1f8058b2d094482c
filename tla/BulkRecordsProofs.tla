-------------------------- MODULE BulkRecordsProofs ---------------------------
(***************************************************************************)
(* For every number of records and of threads, the bulk loops of           *)
(* BulkRecords write each record once, from one thread.                    *)
(***************************************************************************)
EXTENDS BulkRecords, TLAPS

(***************************************************************************)
(* The chunks.                                                             *)
(***************************************************************************)
\* Multiplying with a number keeps the order.
LEMMA TimesMonotone ==
  ASSUME NEW p \in Nat, NEW v \in Nat, NEW w \in Nat, v < w
  PROVE  v * p + p <= w * p
<1>1. PICK d \in Nat : w = v + 1 + d
  <2>1. w - v - 1 \in Nat /\ w = v + 1 + (w - v - 1)
    OBVIOUS
  <2> QED BY <2>1
<1>2. d * p \in Nat
  OBVIOUS
<1>3. w * p = v * p + p + d * p
  BY <1>1
<1> QED BY <1>2, <1>3

\* Integer division.
LEMMA Division ==
  ASSUME NEW m \in Nat, NEW d \in Nat \ {0}
  PROVE  \E q \in Nat : /\ q = m \div d
                       /\ q * d <= m
                       /\ m < q * d + d
<1>1. PICK q \in Int, r \in Int : q = m \div d /\ r = m % d
  OBVIOUS
<1>2. r \in 0 .. d - 1 /\ m = d * q + r
  BY <1>1
<1>3. q >= 0
  <2>1. CASE q < 0
    <3>1. PICK e \in Nat : q = -1 - e
      <4>1. -1 - q \in Nat /\ q = -1 - (-1 - q)
        BY <2>1
      <4> QED BY <4>1
    <3>2. d * q = -d - d * e /\ d * e \in Nat
      BY <3>1
    <3> QED BY <1>2, <3>2
  <2> QED BY <2>1
<1>4. q * d = d * q /\ d * q \in Int
  OBVIOUS
<1> QED BY <1>1, <1>2, <1>3, <1>4

\* The share of a thread, times the threads, is enough for all.
LEMMA Shares ==
  ASSUME NEW n \in Nat, NEW workers \in WorkerCounts(n)
  PROVE  /\ workers \in Nat \ {0}
         /\ Per(n, workers) \in Nat
         /\ n # 0 => Per(n, workers) # 0
         /\ n <= workers * Per(n, workers)
<1>1. workers \in Nat \ {0}
  BY DEF WorkerCounts
<1>2. PICK m \in Nat : m = n + workers - 1
  BY <1>1
<1>3. PICK p \in Nat : /\ p = m \div workers
                       /\ m < p * workers + workers
  BY <1>1, Division
<1>4. workers * p = p * workers /\ workers * p \in Nat
  BY <1>1
<1>5. n <= workers * p
  BY <1>1, <1>2, <1>3, <1>4
<1>6. n # 0 => p # 0
  BY <1>1, <1>5
<1> QED BY <1>1, <1>2, <1>3, <1>5, <1>6 DEF Per

\* Both kinds of chunks are the same numbers.
LEMMA ChunkBounds ==
  ASSUME NEW n \in Nat, NEW workers \in WorkerCounts(n),
         NEW w \in Items(workers)
  PROVE  /\ ScatterChunk(n, workers, w) \subseteq Items(n)
         /\ ZeroChunk(n, workers, w) = ScatterChunk(n, workers, w)
<1>1. PICK p \in Nat : p = Per(n, workers)
  BY Shares
<1>2. w \in Nat
  BY Shares DEF Items
<1>3. PICK start \in Nat : start = w * p
  BY <1>2
<1>4. ScatterChunk(n, workers, w) = {i \in 0 .. n - 1 : start <= i /\ i < start + p}
  BY <1>1, <1>3 DEF ScatterChunk, Items
<1>5. ZeroChunk(n, workers, w) =
        start .. start + (IF start >= n THEN 0
                          ELSE IF p <= n - start THEN p ELSE n - start) - 1
  BY <1>1, <1>3 DEF ZeroChunk
<1> QED BY <1>4, <1>5 DEF Items

\* Every item is in the chunk of a thread ...
LEMMA ChunksCover ==
  ASSUME NEW n \in Nat, NEW workers \in WorkerCounts(n), NEW i \in Items(n)
  PROVE  \E w \in Items(workers) : i \in ScatterChunk(n, workers, w)
<1>1. PICK p \in Nat : p = Per(n, workers)
  BY Shares
<1>2. p # 0 /\ workers \in Nat \ {0} /\ n <= workers * p /\ i \in Nat /\ i < n
  BY <1>1, Shares DEF Items
<1>3. PICK w \in Nat : w * p <= i /\ i < w * p + p
  BY <1>1, <1>2, Division
<1>4. w < workers
  <2>1. CASE workers < w
    <3>1. workers * p + p <= w * p
      BY <1>2, <2>1, TimesMonotone
    <3>2. workers * p \in Nat /\ w * p \in Nat
      BY <1>2
    <3> QED BY <1>2, <1>3, <3>1, <3>2
  <2>2. CASE workers = w
    BY <1>2, <1>3, <2>2
  <2> QED BY <1>2, <2>1, <2>2
<1>5. w \in Items(workers)
  BY <1>2, <1>4 DEF Items
<1>6. i \in ScatterChunk(n, workers, w)
  BY <1>1, <1>3 DEF ScatterChunk
<1> QED BY <1>5, <1>6

\* ... and of no other.
LEMMA ChunksDisjoint ==
  ASSUME NEW n \in Nat, NEW workers \in WorkerCounts(n),
         NEW v \in Items(workers), NEW w \in Items(workers),
         NEW i \in ScatterChunk(n, workers, v),
         i \in ScatterChunk(n, workers, w)
  PROVE  v = w
<1>1. PICK p \in Nat : p = Per(n, workers)
  BY Shares
<1>2. v \in Nat /\ w \in Nat
  BY Shares DEF Items
<1>3. /\ i \in Int /\ v * p <= i /\ i < v * p + p
      /\ w * p <= i /\ i < w * p + p
  BY <1>1 DEF ScatterChunk, Items
<1>4. v * p \in Nat /\ w * p \in Nat
  BY <1>1, <1>2
<1>5. CASE v < w
  BY <1>1, <1>2, <1>3, <1>4, <1>5, TimesMonotone
<1>6. CASE w < v
  BY <1>1, <1>2, <1>3, <1>4, <1>6, TimesMonotone
<1> QED BY <1>2, <1>5, <1>6
-------------------------------------------------------------------------------
(***************************************************************************)
(* The loops.                                                              *)
(***************************************************************************)
\* In either loop the cells of the items are all the cells, each one once.
LEMMA CellsBijective ==
  ASSUME TypeOK
  PROVE  /\ Cell \in [Items(len) -> Items(len)]
         /\ \A i, j \in Items(len) : Cell[i] = Cell[j] => i = j
         /\ \A s \in Items(len) : \E i \in Items(len) : Cell[i] = s
<1>1. CASE loop = "zero"
  BY <1>1 DEF Cell
<1>2. CASE loop # "zero"
  BY <1>2 DEF Cell, TypeOK, Bijections
<1> QED BY <1>1, <1>2

LEMMA InitInductive == Init => Inductive
<1> SUFFICES ASSUME Init PROVE Inductive
  OBVIOUS
<1>1. len \in Nat /\ loop = "zero" /\ slot \in Bijections(len)
  BY LengthsAssumption DEF Init
<1>2. PICK workers \in WorkerCounts(len) :
        left = [w \in Items(workers) |-> ZeroChunk(len, workers, w)]
  BY DEF Init
<1>3. left = [w \in Items(workers) |-> ScatterChunk(len, workers, w)]
  BY <1>1, <1>2, ChunkBounds
<1>4. left \in [Items(workers) -> SUBSET Items(len)]
  BY <1>1, <1>3, ChunkBounds
<1>5. TypeOK
  BY <1>1 DEF Init, TypeOK
<1>6. \A i \in Items(len) : Cell[i] = i /\ writers[i] = {}
  BY <1>1 DEF Cell, Init
<1>7. \A i \in Items(len) : \E w \in Items(workers) : i \in left[w]
  BY <1>1, <1>3, ChunksCover
<1>8. UnderWay
  BY <1>3, <1>4, <1>6, <1>7 DEF UnderWay
<1> QED BY <1>1, <1>5, <1>8 DEF Inductive, NothingUninitialized

\* A thread writes the cell of its first item.
LEMMA WriteInductive ==
  ASSUME Inductive, loop \in {"zero", "scatter"},
         NEW w \in DOMAIN left, NEW i \in left[w],
         Write(w, i, Cell[i], Wanted(i))
  PROVE  Inductive'
<1>1. PICK workers \in WorkerCounts(len) :
        /\ left \in [Items(workers) -> SUBSET Items(len)]
        /\ \A v \in Items(workers) : left[v] \subseteq ScatterChunk(len, workers, v)
        /\ \A j \in Items(len) : \A v \in writers[Cell[j]] :
             v \in Items(workers) /\ j \in ScatterChunk(len, workers, v)
        /\ \A j \in Items(len) :
             cells[Cell[j]] = Wanted(j) \/ \E v \in Items(workers) : j \in left[v]
  BY DEF Inductive, UnderWay
<1>2. /\ w \in Items(workers) /\ i \in Items(len) /\ w \in Nat
      /\ i \in ScatterChunk(len, workers, w)
  BY <1>1, Shares DEF Inductive, TypeOK, Items
<1>3. /\ Cell \in [Items(len) -> Items(len)]
      /\ \A j, k \in Items(len) : Cell[j] = Cell[k] => j = k
  BY CellsBijective DEF Inductive
<1>4. /\ UNCHANGED <<len, slot, loop>> /\ Cell' = Cell
      /\ \A j \in Items(len) : Wanted(j)' = Wanted(j)
  BY DEF Write, Cell, Wanted
<1>5. /\ left' = [left EXCEPT ![w] = @ \ {i}]
      /\ cells' = [cells EXCEPT ![Cell[i]] = Wanted(i)]
      /\ writers' = [writers EXCEPT ![Cell[i]] = @ \cup {w}]
  BY DEF Write
<1>6. /\ left' \in [Items(workers) -> SUBSET Items(len)]
      /\ \A v \in Items(workers) : left'[v] = IF v = w THEN left[w] \ {i} ELSE left[v]
  BY <1>1, <1>5
<1>7. /\ cells' \in [Items(len) -> {Uninitialized, Zeroed} \cup Items(len)]
      /\ \A j \in Items(len) :
           cells'[Cell[j]] = IF j = i THEN Wanted(i) ELSE cells[Cell[j]]
      /\ \A s \in Items(len) : cells'[s] = cells[s] \/ cells'[s] = Wanted(i)
  BY <1>2, <1>3, <1>5 DEF Inductive, TypeOK, Wanted
<1>8. /\ writers' \in [Items(len) -> SUBSET Nat]
      /\ \A j \in Items(len) :
           writers'[Cell[j]] = IF j = i THEN writers[Cell[i]] \cup {w}
                                        ELSE writers[Cell[j]]
  BY <1>2, <1>3, <1>5 DEF Inductive, TypeOK
<1>9. TypeOK'
  BY <1>4, <1>7, <1>8 DEF Inductive, TypeOK
<1>10. UnderWay'
  <2>1. \A v \in Items(workers) : left'[v] \subseteq ScatterChunk(len, workers, v)
    BY <1>1, <1>6
  <2>2. \A j \in Items(len) : \A v \in writers'[Cell[j]] :
          v \in Items(workers) /\ j \in ScatterChunk(len, workers, v)
    BY <1>1, <1>2, <1>8
  <2>3. \A j \in Items(len) :
          cells'[Cell[j]] = Wanted(j) \/ \E v \in Items(workers) : j \in left'[v]
    BY <1>1, <1>6, <1>7
  <2> QED BY <1>4, <1>6, <2>1, <2>2, <2>3 DEF UnderWay
<1>11. NothingUninitialized'
  <2>1. loop # "zero" => Wanted(i) # Uninitialized
    BY <1>2 DEF Wanted, Uninitialized, Items
  <2> QED BY <1>4, <1>7, <2>1 DEF Inductive, NothingUninitialized
<1> QED BY <1>4, <1>9, <1>10, <1>11 DEF Inductive

\* Once the threads have joined, every cell holds what its item wants.
LEMMA AllWritten ==
  ASSUME Inductive, Joined
  PROVE  \A i \in Items(len) : cells[Cell[i]] = Wanted(i)
BY DEF Inductive, UnderWay, Joined

LEMMA StartScatterInductive ==
  ASSUME Inductive, StartScatter
  PROVE  Inductive'
<1>1. /\ UNCHANGED <<len, slot, cells>> /\ loop = "zero" /\ loop' = "scatter"
      /\ Joined /\ writers' = [s \in Items(len) |-> {}]
      /\ len \in Nat /\ slot \in [Items(len) -> Items(len)]
  BY DEF StartScatter, Inductive, TypeOK, Bijections
<1>2. PICK workers \in WorkerCounts(len) :
        left' = [w \in Items(workers) |-> ScatterChunk(len, workers, w)]
  BY DEF StartScatter
<1>3. left' \in [Items(workers) -> SUBSET Items(len)]
  BY <1>1, <1>2, ChunkBounds
<1>4. Cell' = slot
  BY <1>1 DEF Cell
<1>5. TypeOK'
  BY <1>1 DEF Inductive, TypeOK
<1>6. UnderWay'
  <2>1. \A i \in Items(len) : \E w \in Items(workers) : i \in left'[w]
    BY <1>1, <1>2, ChunksCover
  <2>2. \A i \in Items(len) : writers'[Cell'[i]] = {}
    BY <1>1, <1>4
  <2> QED BY <1>1, <1>2, <1>3, <2>1, <2>2 DEF UnderWay
<1>7. NothingUninitialized'
  <2>1. \A i \in Items(len) : Cell[i] = i /\ Wanted(i) = Zeroed
    BY <1>1 DEF Cell, Wanted
  <2> QED BY <1>1, <2>1, AllWritten DEF NothingUninitialized, Zeroed, Uninitialized
<1> QED BY <1>1, <1>5, <1>6, <1>7 DEF Inductive

LEMMA ReturnInductive ==
  ASSUME Inductive, Return
  PROVE  Inductive'
<1>1. /\ UNCHANGED <<len, slot, left, cells, writers>>
      /\ loop = "scatter" /\ loop' = "done" /\ Joined
  BY DEF Return
<1>2. Cell' = Cell /\ \A i \in Items(len) : Wanted(i)' = Wanted(i)
  BY <1>1 DEF Cell, Wanted
<1>3. UnderWay'
  BY <1>1, <1>2 DEF Inductive, UnderWay
<1>4. TypeOK' /\ NothingUninitialized' /\ Joined'
  BY <1>1 DEF Inductive, TypeOK, NothingUninitialized, Joined
<1> QED BY <1>3, <1>4 DEF Inductive

LEMMA StepInductive == Inductive /\ [Next]_vars => Inductive'
<1> SUFFICES ASSUME Inductive, [Next]_vars PROVE Inductive'
  OBVIOUS
<1>1. ASSUME NEW w \in DOMAIN left, ZeroSlot(w) PROVE Inductive'
  <2>1. PICK i \in left[w] : Write(w, i, i, Zeroed) /\ loop = "zero"
    BY <1>1 DEF ZeroSlot
  <2>2. i \in Items(len)
    BY DEF Inductive, UnderWay
  <2>3. Cell[i] = i /\ Wanted(i) = Zeroed
    BY <2>1, <2>2 DEF Cell, Wanted
  <2> QED BY <2>1, <2>3, WriteInductive
<1>2. ASSUME NEW w \in DOMAIN left, PlaceKey(w) PROVE Inductive'
  <2>1. PICK i \in left[w] : Write(w, i, slot[i], i) /\ loop = "scatter"
    BY <1>2 DEF PlaceKey
  <2>2. Cell[i] = slot[i] /\ Wanted(i) = i
    BY <2>1 DEF Cell, Wanted
  <2> QED BY <2>1, <2>2, WriteInductive
<1>3. CASE UNCHANGED vars
  <2>1. Cell' = Cell /\ \A i \in Items(len) : Wanted(i)' = Wanted(i)
    BY <1>3 DEF vars, Cell, Wanted
  <2>2. UnderWay'
    BY <1>3, <2>1 DEF vars, Inductive, UnderWay
  <2>3. TypeOK' /\ NothingUninitialized' /\ (loop = "done" => Joined)'
    BY <1>3 DEF vars, Inductive, TypeOK, NothingUninitialized, Joined
  <2> QED BY <2>2, <2>3 DEF Inductive
<1> QED BY <1>1, <1>2, <1>3, StartScatterInductive, ReturnInductive
      DEF Next, Thread

\* The inductive invariant holds in every reachable state.
THEOREM Invariance == Spec => []Inductive
BY InitInductive, StepInductive, PTL DEF Spec

\* No two threads of a loop ever write the same record.
THEOREM NoDataRace == Spec => []OneWriter
<1>1. ASSUME Inductive PROVE OneWriter
  <2>1. PICK workers \in WorkerCounts(len) :
          \A i \in Items(len) : \A w \in writers[Cell[i]] :
            w \in Items(workers) /\ i \in ScatterChunk(len, workers, w)
    BY <1>1 DEF Inductive, UnderWay
  <2>2. ASSUME NEW s \in Items(len), NEW v \in writers[s], NEW w \in writers[s]
        PROVE  v = w
    <3>1. PICK i \in Items(len) : Cell[i] = s
      BY <1>1, CellsBijective DEF Inductive
    <3>2. len \in Nat
      BY <1>1 DEF Inductive, TypeOK
    <3> QED BY <2>1, <3>1, <3>2, ChunksDisjoint
  <2> QED BY <2>2 DEF OneWriter
<1> QED BY <1>1, Invariance, PTL

\* No record is readable before it is zeroed.
THEOREM ZeroedBeforeUse == Spec => []NothingUninitialized
BY Invariance, PTL DEF Inductive

\* Once both loops are done each slot holds the record of its key.
THEOREM ScatterIsComplete == Spec => []EveryKeyPlaced
<1>1. ASSUME Inductive PROVE EveryKeyPlaced
  <2>1. SUFFICES ASSUME loop = "done"
                 PROVE  \A i \in Items(len) : cells[slot[i]] = i
    BY DEF EveryKeyPlaced
  <2>2. Joined /\ Cell = slot /\ \A i \in Items(len) : Wanted(i) = i
    BY <1>1, <2>1 DEF Inductive, Cell, Wanted
  <2> QED BY <1>1, <2>2, AllWritten
<1> QED BY <1>1, Invariance, PTL
=============================================================================
