--------------------------- MODULE ServerRefinesBook ---------------------------
(***************************************************************************)
(* EthPirServer implements AddressBook, for the addresses other than the   *)
(* zero one.  The book is what the records answer through the directory,   *)
(* the edition what the served database holds: no history variable is in   *)
(* the mapping.                                                            *)
(***************************************************************************)
EXTENDS EthPirServer

HeldMap == [a \in NonZero |-> Held(directory, records, a)]

ServedMap ==
  [ a \in NonZero |->
      LET at == {s \in Slot : serving.db[s].addr = a} IN
      IF at = {} THEN None ELSE serving.db[CHOOSE s \in at : TRUE].value ]

Promise == INSTANCE AddressBook
  WITH Address <- NonZero, book <- HeldMap, published <- ServedMap,
       rebuilding <- step # "idle"

\* A map as the book has it.
Cut(map) == [a \in NonZero |-> map[a]]

(***************************************************************************)
(* Each step is the step of the book that stands for it, and not just any. *)
(* book' is the map that a call which replaces the whole book was given.   *)
(***************************************************************************)
CallsDoAsNamed ==
  /\ \A a \in UserAddress, v \in Value :
       Update(a, v) => IF a \in NonZero THEN Promise!Put(a, v)
                                        ELSE UNCHANGED Promise!vars
  /\ RebuildDatabase \/ RebuildKeywordIndex => Promise!Begin
  /\ RebuildKeywordIndexFrom(book') => Promise!Replace(Cut(book'))
  /\ Install => Promise!Publish
  /\ EncodeFails \/ RefreshPoisoned => Promise!GiveUp
  /\ EncodeStaging \/ TakeContext \/ Precompute \/ ResponderPanics
       \/ TakeCheckpoint => UNCHANGED Promise!vars
  /\ Restart(book') => Promise!Restart(Cut(book'))

(***************************************************************************)
(* KeepsPromise: to its user, the server is an AddressBook, call by call.  *)
(* An update changes its one entry, whatever slot the address resolves to; *)
(* a compaction changes none; an index rebuild from a map leaves exactly   *)
(* the map; no step of a refresh changes what is served but the install,   *)
(* which publishes all of the book; a failed refresh publishes none of it; *)
(* and a restart holds and serves the map it was given.                    *)
(***************************************************************************)
KeepsPromise == Promise!Init /\ [][CallsDoAsNamed]_vars
=============================================================================
