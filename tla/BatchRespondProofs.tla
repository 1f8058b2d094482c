--------------------------- MODULE BatchRespondProofs ---------------------------
(***************************************************************************)
(* OwnResult, for batches of any length.                                   *)
(***************************************************************************)
EXTENDS BatchRespond, SequenceTheorems, TLAPS

Types ==
  /\ queries \in Seq(Query \cup {Malformed})
  /\ parsed \in Seq(Query)
  /\ slots \in Seq(Nat)
  /\ out \in Seq(Result)
  /\ moved \in Nat
  /\ phase \in {"parse", "pass", "move", "done", "failed"}

\* How far the two loops are.
Progress ==
  /\ Len(slots) = Len(parsed)
  /\ Len(out) <= Len(queries)
  /\ phase # "parse" => Len(out) = Len(queries)
  /\ moved <= Len(slots)
  /\ phase \in {"parse", "pass"} => moved = 0
  /\ phase = "done" => moved = Len(slots)

\* Each parsed query has a position of its own, and it is the query's.
SlotsSound ==
  /\ \A k \in 1 .. Len(slots) :
       slots[k] \in 1 .. Len(out) /\ queries[slots[k]] = parsed[k]
  /\ \A j, k \in 1 .. Len(slots) : slots[j] = slots[k] => j = k

\* The positions no slot names are those of the malformed queries.
OthersSound ==
  \A i \in 1 .. Len(out) :
    IF queries[i] = Malformed
    THEN out[i] = [error |-> "parse"]
    ELSE \E k \in 1 .. Len(slots) : slots[k] = i

MovedSound ==
  \A k \in 1 .. moved :
    out[slots[k]] \in {[ok |-> parsed[k]], [error |-> "write"]}

Inductive ==
  Types /\ Progress /\ SlotsSound /\ OthersSound /\ MovedSound

LEMMA InitInductive == Init => Inductive
<1> SUFFICES ASSUME Init PROVE Inductive
  OBVIOUS
<1>1. queries \in Seq(Query \cup {Malformed})
  BY DEF Init
<1>2. /\ parsed = << >> /\ slots = << >> /\ out = << >> /\ moved = 0
      /\ phase = "parse"
  BY DEF Init
<1>3. Len(parsed) = 0 /\ Len(slots) = 0 /\ Len(out) = 0 /\ Len(queries) \in Nat
  BY <1>1, <1>2
<1>4. Types
  BY <1>1, <1>2 DEF Types
<1> QED
  BY <1>2, <1>3, <1>4 DEF Inductive, Progress, SlotsSound, OthersSound, MovedSound

\* A malformed query adds a result, a well-formed one a slot as well.
LEMMA ParseInductive ==
  ASSUME Inductive, Parse
  PROVE  Inductive'
<1> DEFINE n == Len(out) + 1
           m == Len(slots) + 1
           query == queries[n]
<1>1. /\ queries \in Seq(Query \cup {Malformed}) /\ parsed \in Seq(Query)
      /\ slots \in Seq(Nat) /\ out \in Seq(Result)
      /\ Len(slots) = Len(parsed) /\ moved = 0
      /\ phase = "parse" /\ Len(out) < Len(queries)
      /\ UNCHANGED <<queries, moved, phase>>
  BY DEF Inductive, Types, Progress, Parse
<1>2. Len(queries) \in Nat /\ Len(out) \in Nat /\ Len(slots) \in Nat
  BY <1>1, LenProperties
<1>3. query \in Query \cup {Malformed}
  BY <1>1, <1>2, ElementOfSeq
<1>4. /\ [empty |-> TRUE] \in Result /\ [error |-> "parse"] \in Result
  BY DEF Result
<1>5. MovedSound'
  BY <1>1 DEF MovedSound
<1>6. CASE query = Malformed
  <2>1. out' = Append(out, [error |-> "parse"]) /\ slots' = slots /\ parsed' = parsed
    BY <1>6 DEF Parse
  <2>2. /\ out' \in Seq(Result) /\ Len(out') = n
        /\ \A i \in 1 .. Len(out) : out'[i] = out[i]
        /\ out'[n] = [error |-> "parse"]
    BY <1>1, <1>4, <2>1, AppendProperties
  <2>3. Types' /\ Progress'
    BY <1>1, <1>2, <2>1, <2>2 DEF Inductive, Types, Progress
  <2>4. SlotsSound'
    BY <1>1, <1>2, <2>1, <2>2 DEF Inductive, SlotsSound
  <2>5. ASSUME NEW i \in 1 .. n
        PROVE  IF queries[i] = Malformed
               THEN out'[i] = [error |-> "parse"]
               ELSE \E k \in 1 .. Len(slots) : slots[k] = i
    <3>1. CASE i = n
      BY <1>6, <2>2, <3>1
    <3>2. CASE i \in 1 .. Len(out)
      BY <2>2, <3>2 DEF Inductive, OthersSound
    <3> QED BY <1>2, <3>1, <3>2
  <2>6. OthersSound'
    BY <1>1, <2>1, <2>2, <2>5 DEF OthersSound
  <2> QED BY <1>5, <2>3, <2>4, <2>6 DEF Inductive
<1>7. CASE query # Malformed
  <2>1. /\ out' = Append(out, [empty |-> TRUE])
        /\ slots' = Append(slots, n) /\ parsed' = Append(parsed, query)
    BY <1>7 DEF Parse
  <2>2. /\ out' \in Seq(Result) /\ Len(out') = n
        /\ \A i \in 1 .. Len(out) : out'[i] = out[i]
    BY <1>1, <1>4, <2>1, AppendProperties
  <2>3. /\ slots' \in Seq(Nat) /\ Len(slots') = m
        /\ \A k \in 1 .. Len(slots) : slots'[k] = slots[k]
        /\ slots'[m] = n
    BY <1>1, <1>2, <2>1, AppendProperties
  <2>4. /\ parsed' \in Seq(Query) /\ Len(parsed') = m
        /\ \A k \in 1 .. Len(slots) : parsed'[k] = parsed[k]
        /\ parsed'[m] = query
    BY <1>1, <1>3, <1>7, <2>1, AppendProperties
  <2>5. Types' /\ Progress'
    BY <1>1, <1>2, <2>2, <2>3, <2>4 DEF Inductive, Types, Progress
  <2>6. \A k \in 1 .. m : k = m \/ k \in 1 .. Len(slots)
    BY <1>2
  <2>7. SlotsSound'
    <3>1. ASSUME NEW k \in 1 .. m
          PROVE  /\ slots'[k] \in 1 .. n /\ queries[slots'[k]] = parsed'[k]
                 /\ k # m => slots'[k] # n
      <4>1. CASE k = m
        BY <1>2, <2>3, <2>4, <4>1
      <4>2. CASE k \in 1 .. Len(slots)
        BY <1>2, <2>3, <2>4, <4>2 DEF Inductive, SlotsSound
      <4> QED BY <2>6, <4>1, <4>2
    <3>2. ASSUME NEW j \in 1 .. m, NEW k \in 1 .. m, slots'[j] = slots'[k]
          PROVE  j = k
      <4>1. CASE j # m /\ k # m
        BY <2>3, <2>6, <3>2, <4>1 DEF Inductive, SlotsSound
      <4>2. CASE j = m \/ k = m
        BY <2>3, <3>1, <3>2, <4>2
      <4> QED BY <4>1, <4>2
    <3> QED BY <1>1, <2>2, <2>3, <3>1, <3>2 DEF SlotsSound
  <2>8. ASSUME NEW i \in 1 .. n
        PROVE  IF queries[i] = Malformed
               THEN out'[i] = [error |-> "parse"]
               ELSE \E k \in 1 .. m : slots'[k] = i
    <3>1. CASE i = n
      BY <1>2, <1>7, <2>3, <3>1
    <3>2. CASE i \in 1 .. Len(out)
      <4>1. CASE queries[i] = Malformed
        BY <2>2, <3>2, <4>1 DEF Inductive, OthersSound
      <4>2. CASE queries[i] # Malformed
        <5>1. PICK k \in 1 .. Len(slots) : slots[k] = i
          BY <3>2, <4>2 DEF Inductive, OthersSound
        <5> QED BY <1>2, <2>3, <4>2, <5>1
      <4> QED BY <4>1, <4>2
    <3> QED BY <1>2, <3>1, <3>2
  <2>9. OthersSound'
    BY <1>1, <2>2, <2>3, <2>8 DEF OthersSound
  <2> QED BY <1>5, <2>5, <2>7, <2>9 DEF Inductive
<1> QED BY <1>6, <1>7

\* An answer goes to the position of its query and disturbs no other.
LEMMA MoveInductive ==
  ASSUME Inductive, Move
  PROVE  Inductive'
<1> DEFINE k == moved + 1
           s == slots[k]
<1>1. /\ phase = "move" /\ moved < Len(slots) /\ moved' = k
      /\ UNCHANGED <<queries, parsed, slots, phase>>
  BY DEF Move
<1>2. PICK result \in {[ok |-> parsed[k]], [error |-> "write"]} :
        out' = [out EXCEPT ![s] = result]
  BY DEF Move
<1>3. /\ queries \in Seq(Query \cup {Malformed}) /\ parsed \in Seq(Query)
      /\ slots \in Seq(Nat) /\ out \in Seq(Result) /\ moved \in Nat
      /\ Len(slots) = Len(parsed) /\ Len(slots) \in Nat /\ Len(out) \in Nat
  BY LenProperties DEF Inductive, Types, Progress
<1>4. k \in 1 .. Len(slots)
  BY <1>1, <1>3
<1>5. s \in 1 .. Len(out) /\ queries[s] = parsed[k] /\ parsed[k] \in Query
  BY <1>3, <1>4, ElementOfSeq DEF Inductive, SlotsSound
<1>6. result \in Result
  BY <1>2, <1>5 DEF Result
<1>7. /\ out' \in Seq(Result) /\ Len(out') = Len(out) /\ out'[s] = result
      /\ \A i \in 1 .. Len(out) : i # s => out'[i] = out[i]
  <2> HIDE DEF s
  <2> QED BY <1>2, <1>3, <1>5, <1>6, ExceptSeq
<1>8. Types' /\ Progress'
  BY <1>1, <1>3, <1>7 DEF Inductive, Types, Progress
<1>9. SlotsSound'
  BY <1>1, <1>7 DEF Inductive, SlotsSound
<1>10. ASSUME NEW i \in 1 .. Len(out)
       PROVE  IF queries[i] = Malformed
              THEN out'[i] = [error |-> "parse"]
              ELSE \E j \in 1 .. Len(slots) : slots[j] = i
  BY <1>5, <1>7, BatchAssumption DEF Inductive, OthersSound
<1>11. OthersSound'
  BY <1>1, <1>7, <1>10 DEF OthersSound
<1>12. ASSUME NEW j \in 1 .. k
       PROVE  out'[slots[j]] \in {[ok |-> parsed[j]], [error |-> "write"]}
  <2>1. CASE j = k
    BY <1>2, <1>7, <2>1
  <2>2. CASE j \in 1 .. moved
    <3>1. j \in 1 .. Len(slots) /\ j # k
      BY <1>3, <1>4, <2>2
    <3>2. slots[j] \in 1 .. Len(out) /\ slots[j] # s
      BY <1>4, <3>1 DEF Inductive, SlotsSound
    <3> QED BY <1>7, <2>2, <3>2 DEF Inductive, MovedSound
  <2> QED BY <1>3, <2>1, <2>2
<1>13. MovedSound'
  BY <1>1, <1>12 DEF MovedSound
<1> QED BY <1>8, <1>9, <1>11, <1>13 DEF Inductive

LEMMA PhaseInductive ==
  ASSUME Inductive, Parsed \/ Pass \/ Moved
  PROVE  Inductive'
<1>1. /\ UNCHANGED <<queries, parsed, slots, out, moved>>
      /\ phase' \in {"pass", "move", "done", "failed"}
      /\ Len(out) = Len(queries)
      /\ phase' = "pass" => moved = 0
      /\ phase' = "done" => moved = Len(slots)
  BY DEF Parsed, Pass, Moved, Inductive, Progress
<1>2. Types' /\ Progress'
  BY <1>1 DEF Inductive, Types, Progress
<1>3. (SlotsSound /\ OthersSound /\ MovedSound)'
  BY <1>1 DEF Inductive, SlotsSound, OthersSound, MovedSound
<1> QED BY <1>2, <1>3 DEF Inductive

LEMMA StepInductive == Inductive /\ [Next]_vars => Inductive'
<1> SUFFICES ASSUME Inductive, [Next]_vars PROVE Inductive'
  OBVIOUS
<1>1. CASE Parse
  BY <1>1, ParseInductive
<1>2. CASE Move
  BY <1>2, MoveInductive
<1>3. CASE Parsed \/ Pass \/ Moved
  BY <1>3, PhaseInductive
<1>4. CASE UNCHANGED vars
  BY <1>4 DEF vars, Inductive, Types, Progress, SlotsSound, OthersSound, MovedSound
<1> QED BY <1>1, <1>2, <1>3, <1>4 DEF Next

(***************************************************************************)
(* ResultsAreOwn: for a batch of any length every query gets its own       *)
(* result at its own position.                                             *)
(***************************************************************************)
THEOREM ResultsAreOwn == Spec => []OwnResult
<1>1. Inductive => OwnResult
  <2> SUFFICES ASSUME Inductive, phase = "done", NEW i \in 1 .. Len(queries)
               PROVE  /\ Len(out) = Len(queries)
                      /\ IF queries[i] = Malformed
                         THEN out[i] = [error |-> "parse"]
                         ELSE out[i] \in {[ok |-> queries[i]], [error |-> "write"]}
    BY DEF OwnResult, Inductive, Progress
  <2>1. Len(out) = Len(queries) /\ moved = Len(slots)
    BY DEF Inductive, Progress
  <2>2. CASE queries[i] = Malformed
    BY <2>1, <2>2 DEF Inductive, OthersSound
  <2>3. CASE queries[i] # Malformed
    <3>1. PICK k \in 1 .. Len(slots) : slots[k] = i
      BY <2>1, <2>3 DEF Inductive, OthersSound
    <3>2. out[i] \in {[ok |-> parsed[k]], [error |-> "write"]}
      BY <2>1, <3>1 DEF Inductive, MovedSound
    <3>3. queries[i] = parsed[k]
      BY <3>1 DEF Inductive, SlotsSound
    <3> QED BY <2>1, <2>3, <3>2, <3>3
  <2> QED BY <2>1, <2>2, <2>3
<1> QED BY <1>1, InitInductive, StepInductive, PTL DEF Spec
=============================================================================
