---------------------------- MODULE AtomicResponder ----------------------------
(***************************************************************************)
(* What the responders promise their callers, without mutex, passes or     *)
(* scratch: a call with all its queries is answered at one instant between *)
(* its begin and its end, from the one database served then, or it ends    *)
(* with an error.  This is how EthPirServer and EthPirService take it.     *)
(***************************************************************************)
EXTENDS Integers, Sequences

CONSTANTS Thread, Faults, MaxBatch

VARIABLES
  served,     \* the number of the database in service
  poisoned,   \* whether every further call is refused
  asked,      \* the number of queries in the call of each thread; 0 for no call
  answers     \* the databases its last call was answered from, query by query

vars == <<served, poisoned, asked, answers>>

Init ==
  /\ served = 0
  /\ poisoned = FALSE
  /\ asked = [t \in Thread |-> 0]
  /\ answers = [t \in Thread |-> << >>]

Ask(t) ==
  /\ asked[t] = 0
  /\ \E n \in 1 .. MaxBatch : asked' = [asked EXCEPT ![t] = n]
  /\ answers' = [answers EXCEPT ![t] = << >>]
  /\ UNCHANGED <<served, poisoned>>

\* All queries at once.
Respond(t) ==
  /\ asked[t] # 0
  /\ ~poisoned
  /\ asked' = [asked EXCEPT ![t] = 0]
  /\ answers' = [answers EXCEPT ![t] = [i \in 1 .. asked[t] |-> served]]
  /\ UNCHANGED <<served, poisoned>>

\* A query that does not parse, an error of the library, or ServerPoisoned.
Refuse(t) ==
  /\ asked[t] # 0
  /\ asked' = [asked EXCEPT ![t] = 0]
  /\ UNCHANGED <<served, poisoned, answers>>

\* The last call anyone may hope to have answered.
Panic(t) ==
  /\ "panic" \in Faults
  /\ asked[t] # 0
  /\ ~poisoned
  /\ asked' = [asked EXCEPT ![t] = 0]
  /\ poisoned' = TRUE
  /\ UNCHANGED <<served, answers>>

\* A rebuild puts a later database in the place of the one served.
Publish ==
  /\ ~poisoned
  /\ served' > served
  /\ UNCHANGED <<poisoned, asked, answers>>

Next ==
  \/ Publish
  \/ \E t \in Thread : Ask(t) \/ Respond(t) \/ Refuse(t) \/ Panic(t)

Spec == Init /\ [][Next]_vars
=============================================================================
