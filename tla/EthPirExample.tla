----------------------------- MODULE EthPirExample -----------------------------
(***************************************************************************)
(* The example program (examples/eth_pir.rs): main drives an EthPirServer  *)
(* and a client of its own through the life of a deployment, while a       *)
(* thread with a responder and a client bootstrapped once looks up one     *)
(* address over and over until it is told to stop.  Every assert and       *)
(* expect of the program is a condition here that a step must meet, or     *)
(* main has "panicked".  Where an encode fails, or the thread panicked     *)
(* under the lock, main panics through no fault of the program: it has     *)
(* "failed".  Either way the process ends.                                 *)
(***************************************************************************)
EXTENDS EthPirServer, KeywordWire

CONSTANTS
  Initial,                    \* the addresses of the first map
  Updated,                    \* those of them that get a new balance
  New,                        \* the addresses inserted later
  SampleExisting, SampleNew,  \* the addresses looked up
  OldBalance, NewBalance      \* balance_of, updated_balance_of

\* address_at(i) is never the zero address: its first 8 bytes are a bijective
\* image of i that is zero for none of the i used.
ASSUME ExampleAssumption ==
  /\ Initial \cup New \subseteq UserAddress \cap NonZero
  /\ Initial \cap New = {}
  /\ Fits(Cardinality(Initial \cup New))
  /\ Updated \subseteq Initial
  /\ SampleExisting \in Updated /\ SampleNew \in New
  /\ OldBalance # NewBalance /\ {OldBalance, NewBalance} \subseteq Value

VARIABLES
  at,       \* where main is
  client,   \* the directory of main's client
  blob,     \* the first blob, from which the thread makes its client
  stop,     \* the AtomicBool
  load      \* the thread: where it is, and whether before > 0 and after > 0

exampleVars == <<vars, at, client, blob, stop, load>>

UpdatedMap ==
  [ a \in Address |-> IF a \in Updated THEN NewBalance
                      ELSE IF a \in Initial \cup New THEN OldBalance ELSE None ]
-------------------------------------------------------------------------------
\* lookup(server, client, a) gives v, whatever the answer can be.
Finds(dir, a, v) ==
  ~poisoned /\ \A r \in Responses(Index(dir, a)) : TryDecrypt(r, a) = v

\* An assert: main goes on or panics.
Continue(ok, next) == at' = IF ok THEN next ELSE "panicked"

ExampleInit ==
  /\ Init
  /\ book = [a \in Address |-> IF a \in Initial THEN OldBalance ELSE None]
  /\ at = "bootstrap"
  /\ client = directory
  /\ blob = directory
  /\ stop = FALSE
  /\ load = [pc |-> "none", before |-> FALSE, after |-> FALSE]

\* Steps 3 and 4: bootstrap, one lookup, batches of lookups.
Bootstrap ==
  /\ at = "bootstrap"
  /\ blob' = directory
  /\ client' = directory
  /\ Continue(\A a \in Initial : Finds(client', a, OldBalance), "update")
  /\ UNCHANGED <<vars, stop, load>>

\* Step 5: one update() after the other, the inserts last.
ApplyUpdate ==
  /\ at = "update"
  /\ \E a \in Updated \cup New :
       /\ book[a] # UpdatedMap[a]
       /\ a \in New => \A b \in Updated : book[b] = NewBalance
       /\ IF UpdateRefused(a)
          THEN at' = "panicked" /\ UNCHANGED vars
          ELSE /\ Update(a, UpdatedMap[a])
               /\ at' = IF book' = UpdatedMap THEN "tail" ELSE "update"
  /\ UNCHANGED <<client, blob, stop, load>>

\* Step 6: the tail is applied, and nothing of the updates is served yet.
SyncTail ==
  /\ at = "tail"
  /\ \E tail \in Tails(directory, Len(client.delta)) :
       /\ client' = Applied(client, tail)
       /\ Continue(/\ Accepts(client, tail)
                   /\ Finds(client', SampleExisting, OldBalance)
                   /\ Finds(client', SampleNew, None), "spawn")
  /\ UNCHANGED <<vars, blob, stop, load>>

\* Step 7: the load generator starts, and the rebuild after it.
Spawn ==
  /\ at = "spawn"
  /\ load' = [load EXCEPT !.pc = "check"]
  /\ at' = "rebuild"
  /\ UNCHANGED <<vars, client, blob, stop>>

\* Steps 7 and 9: the call of a rebuild that has something to do.
StartRebuild ==
  /\ \/ /\ at = "rebuild"
        /\ IF pending = 0
           THEN at' = "panicked" /\ UNCHANGED vars
           ELSE at' = "rebuilding" /\ RebuildDatabase
     \/ /\ at = "compact"
        /\ IF ReindexRefused(RecordsToMap(records))
           THEN at' = "panicked" /\ UNCHANGED vars
           ELSE at' = "compacting" /\ RebuildKeywordIndex
  /\ UNCHANGED <<client, blob, stop, load>>

\* The call goes through refresh() and returns, or ends with its error.
Rebuild ==
  /\ at \in {"rebuilding", "compacting"}
  /\ \/ /\ EncodeStaging \/ TakeContext \/ Precompute \/ Install
        /\ at' = IF step' # "idle" THEN at
                 ELSE IF at = "rebuilding" THEN "stop" ELSE "resync"
     \/ (EncodeFails \/ RefreshPoisoned) /\ at' = "failed"
  /\ UNCHANGED <<client, blob, stop, load>>

\* Variant of StopLoad that joins the thread before it tells it to stop.
StopJoined ==
  /\ at = "stop"
  /\ load.pc \in {"done", "panicked", "failed"}
  /\ stop' = TRUE
  /\ at' = "join"
  /\ UNCHANGED <<vars, client, blob, load>>

StopLoad ==
  /\ at = "stop"
  /\ stop' = TRUE
  /\ at' = "join"
  /\ UNCHANGED <<vars, client, blob, load>>

\* load.join(), and the assert that it was answered before and after the swap.
Join ==
  /\ at = "join"
  /\ \/ load.pc \in {"panicked", "failed"} /\ at' = load.pc
     \/ /\ load.pc = "done"
        /\ at' = IF load.before /\ load.after THEN "rebuilt" ELSE "no straddle"
  /\ UNCHANGED <<vars, client, blob, stop, load>>

\* Step 8: the updates and, through the delta, the inserts are served.
CheckRebuilt ==
  /\ at = "rebuilt"
  /\ Continue(/\ Finds(client, SampleExisting, NewBalance)
              /\ directory.version = 0 /\ client.version = 0
              /\ Finds(client, SampleNew, OldBalance), "compact")
  /\ UNCHANGED <<vars, client, blob, stop, load>>

\* Steps 9 to 11, after the call: resync to the new generation.
Resync ==
  /\ at = "resync"
  /\ client' = Applied(client, Full(directory))
  /\ Continue(/\ directory.version = 1
              /\ Finds(client', SampleExisting, NewBalance)
              /\ Finds(client', SampleNew, OldBalance), "done")
  /\ UNCHANGED <<vars, blob, stop, load>>

Main ==
  \/ Bootstrap \/ ApplyUpdate \/ SyncTail \/ Spawn \/ StartRebuild \/ Rebuild
  \/ StopLoad \/ Join \/ CheckRebuilt \/ Resync
-------------------------------------------------------------------------------
\* The end of main is the end of the thread.
Running == at \notin {"panicked", "failed"}

\* while !stop.load()
LoadCheck ==
  /\ Running
  /\ load.pc = "check"
  /\ load' = [load EXCEPT !.pc = IF stop THEN "done" ELSE "query"]
  /\ UNCHANGED <<vars, at, client, blob, stop>>

\* One round: a balance that is neither the old nor the new one is a panic.
LoadQuery ==
  /\ Running
  /\ load.pc = "query"
  /\ ~poisoned
  /\ \E r \in Responses(Index(blob, SampleExisting)) :
       LET balance == TryDecrypt(r, SampleExisting) IN
       load' = [ pc |-> IF balance \in {OldBalance, NewBalance}
                        THEN "check" ELSE "panicked",
                 before |-> load.before \/ balance = OldBalance,
                 after |-> load.after \/ balance = NewBalance ]
  /\ UNCHANGED <<vars, at, client, blob, stop>>

\* The responder panics with the guard, and the thread with it.
LoadFails ==
  /\ Running
  /\ load.pc = "query"
  /\ ResponderPanics
  /\ load' = [load EXCEPT !.pc = "failed"]
  /\ UNCHANGED <<at, client, blob, stop>>

ExampleNext == Main \/ LoadCheck \/ LoadQuery \/ LoadFails

\* Both threads run on.
ExampleSpec ==
  /\ ExampleInit /\ [][ExampleNext]_exampleVars
  /\ WF_exampleVars(Main)
  /\ WF_exampleVars(LoadCheck \/ LoadQuery)
-------------------------------------------------------------------------------
(***************************************************************************)
(* AssertionsHold: whatever the MPHFs and the schedule, no expect fails    *)
(* but over an encode or a poisoned mutex, no assert but the one on        *)
(* straddling, and the load generator never meets a torn read: a client    *)
(* bootstrapped once is served over the swap.                              *)
(***************************************************************************)
AssertionsHold == at # "panicked" /\ load.pc # "panicked"

(***************************************************************************)
(* ExampleEnds: main comes to its end, to the assert on straddling, or to  *)
(* the error of a rebuild or of its thread; neither the join nor a lock    *)
(* waits for ever, also when the thread panics under the mutex.            *)
(***************************************************************************)
ExampleEnds == <>(at \in {"done", "no straddle", "failed"})
=============================================================================
