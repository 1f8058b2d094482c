--------------------------- MODULE KeywordDirectory ---------------------------
(***************************************************************************)
(* The keyword directory of poulpy-pir, the library below eth-pir: what    *)
(* EthPirServer and EthPirClient rely on when they call KeywordIndex and   *)
(* KeywordDirectory.  The library is not part of this repository, so every *)
(* operator here is read off its callers.                                  *)
(*                                                                         *)
(* A directory is a minimal perfect hash (MPHF) over the addresses it was  *)
(* built from, an append-only overlay (the delta) of addresses pushed      *)
(* since, and the generation (version) of its MPHF.  Slots count from 0:   *)
(* the MPHF addresses 0 .. base-1, the delta the slots from base on.       *)
(***************************************************************************)
EXTENDS Integers, Sequences, FiniteSets

CONSTANTS
  Address,    \* the 20-byte addresses
  Capacity    \* the slots of the database: layout.num_payloads(...)

ASSUME AddressAssumption == IsFiniteSet(Address)
ASSUME CapacityAssumption == Capacity \in Nat \ {0}

(***************************************************************************)
(* What KeywordIndex::build(keys) can return.  An MPHF is total: it sends  *)
(* an address outside keys to some slot in use, and which one is nobody's  *)
(* choice.                                                                 *)
(***************************************************************************)
KeywordIndexes(keys) ==
  LET slots == 0 .. Cardinality(keys) - 1 IN
  { f \in [Address -> slots] :
      /\ \A s \in slots : \E a \in keys : f[a] = s
      /\ \A a, b \in keys : f[a] = f[b] => a = b }

\* KeywordDirectory::new(mphf, capacity, version), over any MPHF of the keys.
NewDirectories(keys, version) ==
  { [ mphf |-> f, base |-> Cardinality(keys), delta |-> << >>,
      version |-> version ] : f \in KeywordIndexes(keys) }

\* KeywordDirectory::rebuilt(keys): a fresh MPHF, no delta, the next version.
RebuiltDirectories(directory, keys) ==
  NewDirectories(keys, directory.version + 1)

\* new, rebuilt and push refuse more addresses than the database has slots.
Fits(n) == n <= Capacity

DirectoryLen(directory) == directory.base + Len(directory.delta)

InDelta(directory, a) ==
  \E i \in 1 .. Len(directory.delta) : directory.delta[i] = a

\* KeywordDirectory::index(addr): the delta first, the total MPHF otherwise.
Index(directory, a) ==
  IF InDelta(directory, a)
  THEN directory.base - 1
         + (CHOOSE i \in 1 .. Len(directory.delta) : directory.delta[i] = a)
  ELSE directory.mphf[a]

\* KeywordDirectory::push(addr) when it succeeds.
Pushed(directory, a) == [directory EXCEPT !.delta = Append(@, a)]

\* One push after the other, of the addresses in order, when all succeed.
Extended(directory, order) == [directory EXCEPT !.delta = @ \o order]

(***************************************************************************)
(* The shape every directory has: its slots fit the database, and no       *)
(* address is in the delta twice.                                          *)
(***************************************************************************)
Directory ==
  { d \in [ mphf : [Address -> 0 .. Capacity - 1], base : 1 .. Capacity,
            delta : Seq(Address), version : Nat ] :
      /\ \A a \in Address : d.mphf[a] < d.base
      /\ Fits(DirectoryLen(d))
      /\ \A i, j \in 1 .. Len(d.delta) :
           d.delta[i] = d.delta[j] => i = j }
=============================================================================
