----------------------------- MODULE BulkRecords ------------------------------
(***************************************************************************)
(* The bulk loops of src/server/records.rs as init and the index rebuilds  *)
(* run them: zeroed_records allocates and zeroes one record per key, then  *)
(* scatter_records writes the record of each key to the slot the MPHF      *)
(* gives it.  Both divide their work among threads that write through one  *)
(* raw pointer, with no lock, and end when every thread has.               *)
(*                                                                         *)
(* A key is its position in keys, counted from 0; a cell holds the key     *)
(* whose record was written there, or one of the two marks below.          *)
(***************************************************************************)
EXTENDS Integers

CONSTANT Lengths  \* the numbers of keys to consider

ASSUME LengthsAssumption == Lengths \subseteq Nat

Uninitialized == -2   \* memory of Vec::with_capacity
Zeroed == -1

VARIABLES
  len,      \* records.len(), or keys.len()
  slot,     \* the slot of each key: directory.index(keys[i])
  loop,     \* the loop under way: "zero", "scatter"; "done" after both
  left,     \* the items each thread has yet to write
  cells,    \* the memory of records
  writers   \* history: the threads that wrote each cell in this loop

vars == <<len, slot, loop, left, cells, writers>>
-------------------------------------------------------------------------------
Items(n) == 0 .. n - 1

\* What the MPHF of n keys may say of them: no two get the same slot.
Bijections(n) ==
  { f \in [Items(n) -> Items(n)] :
      /\ \A i, j \in Items(n) : f[i] = f[j] => i = j
      /\ \A s \in Items(n) : \E i \in Items(n) : f[i] = s }

\* worker_count(n), for every PIR_THREADS and every machine.
WorkerCounts(n) == IF n <= 1 THEN {1} ELSE 1 .. n

\* Variant of Per that rounds down.
PerFloor(n, workers) == IF n < workers THEN 1 ELSE n \div workers

\* n.div_ceil(workers)
Per(n, workers) == (n + workers - 1) \div workers

\* Variant of ZeroChunk that hands the next thread the last item once more.
ZeroChunkInclusive(n, workers, w) ==
  LET start == w * Per(n, workers)
      end == start + Per(n, workers)
  IN  {i \in Items(n) : start <= i /\ i <= end}

\* spawn_zero_worker(w): the last chunk may be short, those past it are empty.
ZeroChunk(n, workers, w) ==
  LET per == Per(n, workers)
      start == w * per
      count == IF start >= n THEN 0
               ELSE IF per <= n - start THEN per ELSE n - start
  IN  start .. start + count - 1

\* Variant of ScatterChunk that takes keys.chunks_exact(per).
ScatterChunkExact(n, workers, w) ==
  LET per == Per(n, workers) IN
  {i \in Items(n) : w * per <= i /\ i < w * per + per /\ w * per + per <= n}

\* keys.chunks(per).enumerate()
ScatterChunk(n, workers, w) ==
  LET per == Per(n, workers) IN
  {i \in Items(n) : w * per <= i /\ i < w * per + per}

Init ==
  /\ len \in Lengths
  /\ slot \in Bijections(len)
  /\ loop = "zero"
  /\ \E workers \in WorkerCounts(len) :
       left = [w \in Items(workers) |-> ZeroChunk(len, workers, w)]
  /\ cells = [s \in Items(len) |-> Uninitialized]
  /\ writers = [s \in Items(len) |-> {}]

\* Thread w writes val to cell s, for the first item it has left.
Write(w, i, s, val) ==
  /\ i \in left[w] /\ \A j \in left[w] : i <= j
  /\ left' = [left EXCEPT ![w] = @ \ {i}]
  /\ cells' = [cells EXCEPT ![s] = val]
  /\ writers' = [writers EXCEPT ![s] = @ \cup {w}]
  /\ UNCHANGED <<len, slot, loop>>

\* write_bytes in a thread of zeroed_records.
ZeroSlot(w) ==
  /\ loop = "zero"
  /\ \E i \in left[w] : Write(w, i, i, Zeroed)

\* A step of scatter_chunk.
PlaceKey(w) ==
  /\ loop = "scatter"
  /\ \E i \in left[w] : slot[i] < len /\ Write(w, i, slot[i], i)

\* The end of a thread::scope: every thread has joined.
Joined == \A w \in DOMAIN left : left[w] = {}

\* set_len(len), the return of zeroed_records, and the call of scatter_records.
StartScatter ==
  /\ loop = "zero"
  /\ Joined
  /\ loop' = "scatter"
  /\ \E workers \in WorkerCounts(len) :
       left' = [w \in Items(workers) |-> ScatterChunk(len, workers, w)]
  /\ writers' = [s \in Items(len) |-> {}]
  /\ UNCHANGED <<len, slot, cells>>

Return ==
  /\ loop = "scatter"
  /\ Joined
  /\ loop' = "done"
  /\ UNCHANGED <<len, slot, left, cells, writers>>

Thread(w) == ZeroSlot(w) \/ PlaceKey(w)

Next == (\E w \in DOMAIN left : Thread(w)) \/ StartScatter \/ Return

Spec == Init /\ [][Next]_vars
-------------------------------------------------------------------------------
(***************************************************************************)
(* OneWriter: no two threads of a loop write the same record, which        *)
(* without a lock would be a data race ("workers write disjoint indices",  *)
(* src/server/records.rs:25).                                              *)
(***************************************************************************)
OneWriter ==
  \A s \in Items(len) : \A v, w \in writers[s] : v = w

(***************************************************************************)
(* NothingUninitialized: when set_len makes the records readable, every    *)
(* one of them has been zeroed ("workers cover 0..len exactly",            *)
(* src/server/records.rs:45).                                              *)
(***************************************************************************)
NothingUninitialized ==
  loop # "zero" => \A s \in Items(len) : cells[s] # Uninitialized

(***************************************************************************)
(* EveryKeyPlaced: after both loops each slot holds the record of its key, *)
(* for every number of threads: what ScatterRecords of Records says.       *)
(***************************************************************************)
EveryKeyPlaced ==
  loop = "done" => \A i \in Items(len) : cells[slot[i]] = i

(***************************************************************************)
(* The inductive invariant.  An item has one cell and one value in either  *)
(* loop; what is not written is left to a thread whose chunk it is in, and *)
(* only the thread of that chunk writes the cell.                          *)
(***************************************************************************)
TypeOK ==
  /\ len \in Nat
  /\ slot \in Bijections(len)
  /\ loop \in {"zero", "scatter", "done"}
  /\ cells \in [Items(len) -> {Uninitialized, Zeroed} \cup Items(len)]
  /\ writers \in [Items(len) -> SUBSET Nat]

Cell == IF loop = "zero" THEN [i \in Items(len) |-> i] ELSE slot

Wanted(i) == IF loop = "zero" THEN Zeroed ELSE i

UnderWay ==
  \E workers \in WorkerCounts(len) :
    /\ left \in [Items(workers) -> SUBSET Items(len)]
    /\ \A w \in Items(workers) : left[w] \subseteq ScatterChunk(len, workers, w)
    /\ \A i \in Items(len) : \A w \in writers[Cell[i]] :
         w \in Items(workers) /\ i \in ScatterChunk(len, workers, w)
    /\ \A i \in Items(len) :
         cells[Cell[i]] = Wanted(i) \/ \E w \in Items(workers) : i \in left[w]

Inductive ==
  /\ TypeOK
  /\ UnderWay
  /\ NothingUninitialized
  /\ loop = "done" => Joined
=============================================================================
