------------------------- MODULE ResponderRefinesAtomic -------------------------
(***************************************************************************)
(* Responder implements AtomicResponder.  A call has its answers when it   *)
(* returns and none before; the instant it is answered at is its last      *)
(* Fold, and the passes of a call, like the stretches of a refresh before  *)
(* its install, are steps nobody sees.                                     *)
(***************************************************************************)
EXTENDS Responder

\* The database of an answer, if it is one whole answer of one database.
Source(answer) ==
  IF answer.db = answer.precomp /\ answer.clean THEN answer.db ELSE None

AskedFor(c) == IF c.pc = "out" THEN 0 ELSE c.left + Len(c.answers)

Returned(c) ==
  IF c.pc = "out"
  THEN [i \in 1 .. Len(c.answers) |-> Source(c.answers[i])]
  ELSE << >>

Asked == [t \in Thread |-> AskedFor(call[t])]

Answers == [t \in Thread |-> Returned(call[t])]

Atomic == INSTANCE AtomicResponder
  WITH served <- serving.db, asked <- Asked, answers <- Answers

(***************************************************************************)
(* AnswersAtOnce: to its caller a call, a batch of any length included, is *)
(* answered in one step, from the database in service at that step and     *)
(* with its own precomputation, although threads take the mutex in any     *)
(* order, refreshes go on between any two of their steps, and a panic may  *)
(* leave a pass half-done (README.md:120: the two are swapped "as a pair   *)
(* under a lock").                                                         *)
(***************************************************************************)
AnswersAtOnce == Atomic!Spec
=============================================================================
