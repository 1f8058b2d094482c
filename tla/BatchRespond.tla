------------------------------ MODULE BatchRespond ------------------------------
(***************************************************************************)
(* try_respond_batch_bytes (src/server/responder.rs) once it has the       *)
(* guard: parse the queries, answer the parsed ones in one pass, move each *)
(* answer to the place of its query.                                       *)
(***************************************************************************)
EXTENDS Integers, Sequences

CONSTANTS
  Query,      \* the well-formed queries
  Malformed,  \* what does not parse
  MaxBatch    \* bound: queries in a batch

ASSUME BatchAssumption == Malformed \notin Query /\ MaxBatch \in Nat

VARIABLES
  queries,    \* the argument
  parsed,     \* the queries that parsed
  slots,      \* the position in out of each of them
  out,        \* one result for each query read so far
  moved,      \* answers moved to their positions
  phase       \* "parse", "pass", "move", "done", or "failed"

vars == <<queries, parsed, slots, out, moved, phase>>
-------------------------------------------------------------------------------
\* A result: the answer to a query, an error, or the empty Vec put in first.
Result ==
  [ok : Query] \cup {[error |-> "parse"], [error |-> "write"], [empty |-> TRUE]}

Init ==
  /\ \E n \in 0 .. MaxBatch : queries \in [1 .. n -> Query \cup {Malformed}]
  /\ parsed = << >>
  /\ slots = << >>
  /\ out = << >>
  /\ moved = 0
  /\ phase = "parse"

\* Variant of Parse that numbers the parsed queries among themselves.
ParseCompact ==
  /\ phase = "parse"
  /\ Len(out) < Len(queries)
  /\ LET query == queries[Len(out) + 1] IN
     IF query # Malformed
     THEN /\ slots' = Append(slots, Len(parsed) + 1)
          /\ parsed' = Append(parsed, query)
          /\ out' = Append(out, [empty |-> TRUE])
     ELSE /\ out' = Append(out, [error |-> "parse"])
          /\ UNCHANGED <<slots, parsed>>
  /\ UNCHANGED <<queries, moved, phase>>

\* One round of the first loop.
Parse ==
  /\ phase = "parse"
  /\ Len(out) < Len(queries)
  /\ LET query == queries[Len(out) + 1] IN
     IF query # Malformed
     THEN /\ slots' = Append(slots, Len(out) + 1)
          /\ parsed' = Append(parsed, query)
          /\ out' = Append(out, [empty |-> TRUE])
     ELSE /\ out' = Append(out, [error |-> "parse"])
          /\ UNCHANGED <<slots, parsed>>
  /\ UNCHANGED <<queries, moved, phase>>

\* The end of the loop: with nothing parsed the library is not called.
Parsed ==
  /\ phase = "parse"
  /\ Len(out) = Len(queries)
  /\ phase' = IF parsed = << >> THEN "done" ELSE "pass"
  /\ UNCHANGED <<queries, parsed, slots, out, moved>>

\* serving.try_respond_batch(&parsed): an answer for each, or the outer error.
Pass ==
  /\ phase = "pass"
  /\ phase' \in {"move", "failed"}
  /\ UNCHANGED <<queries, parsed, slots, out, moved>>

\* One round of the second loop; writing an answer may fail for that one.
Move ==
  /\ phase = "move"
  /\ moved < Len(slots)
  /\ \E result \in {[ok |-> parsed[moved + 1]], [error |-> "write"]} :
       out' = [out EXCEPT ![slots[moved + 1]] = result]
  /\ moved' = moved + 1
  /\ UNCHANGED <<queries, parsed, slots, phase>>

Moved ==
  /\ phase = "move"
  /\ moved = Len(slots)
  /\ phase' = "done"
  /\ UNCHANGED <<queries, parsed, slots, out, moved>>

Next == Parse \/ Parsed \/ Pass \/ Move \/ Moved

Spec == Init /\ [][Next]_vars
-------------------------------------------------------------------------------
(***************************************************************************)
(* OwnResult: the batch that returns has one result for each query, at its *)
(* position: its own answer or a failure to write that answer, and a parse *)
(* error for the malformed ones and for no other.                          *)
(***************************************************************************)
OwnResult ==
  phase = "done" =>
    /\ Len(out) = Len(queries)
    /\ \A i \in 1 .. Len(queries) :
         IF queries[i] = Malformed
         THEN out[i] = [error |-> "parse"]
         ELSE out[i] \in {[ok |-> queries[i]], [error |-> "write"]}
=============================================================================
