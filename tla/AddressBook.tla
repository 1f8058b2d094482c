------------------------------ MODULE AddressBook ------------------------------
(***************************************************************************)
(* What an EthPirServer promises its application, without slots, hashes,   *)
(* buffers or checkpoints: a book of addresses and values, the edition of  *)
(* it that lookups are answered from, and whether a rebuild is under way.  *)
(* There is one action for each call, and the two ways a rebuild ends.     *)
(***************************************************************************)
CONSTANTS Address, Value, None

VARIABLES
  book,       \* the map the application has built up
  published,  \* the edition that is served
  rebuilding  \* whether a rebuild has begun and not returned

vars == <<book, published, rebuilding>>

Book == [Address -> Value \cup {None}]

\* A server starts, or starts again, with the map it is given, all served.
Init ==
  /\ book \in Book
  /\ published = book
  /\ rebuilding = FALSE

\* update: this entry and no other, and nobody sees it yet.
Put(a, v) ==
  /\ ~rebuilding
  /\ book' = [book EXCEPT ![a] = v]
  /\ UNCHANGED <<published, rebuilding>>

\* rebuild_database and rebuild_keyword_index: the book stays as it is.
Begin ==
  /\ ~rebuilding
  /\ rebuilding' = TRUE
  /\ UNCHANGED <<book, published>>

\* rebuild_keyword_index_from replaces the whole book by the map it is given.
Replace(map) ==
  /\ ~rebuilding
  /\ book' = map
  /\ rebuilding' = TRUE
  /\ UNCHANGED published

\* A rebuild that succeeds: the edition becomes the book, all of it.
Publish ==
  /\ rebuilding
  /\ published' = book
  /\ rebuilding' = FALSE
  /\ UNCHANGED book

\* A rebuild that fails publishes nothing, and takes nothing back either.
GiveUp ==
  /\ rebuilding
  /\ rebuilding' = FALSE
  /\ UNCHANGED <<book, published>>

Restart(map) ==
  /\ book' = map
  /\ published' = map
  /\ rebuilding' = FALSE

Next ==
  \/ \E a \in Address, v \in Value : Put(a, v)
  \/ Begin \/ Publish \/ GiveUp
  \/ \E map \in Book : Replace(map) \/ Restart(map)

Spec == Init /\ [][Next]_vars
=============================================================================
