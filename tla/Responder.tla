------------------------------- MODULE Responder -------------------------------
(***************************************************************************)
(* The mutex of serving, step by step: threads with a clone of             *)
(* EthPirResponder each (src/server/responder.rs) and one thread that      *)
(* rebuilds (src/server/rebuild.rs).  EthPirServer takes an answer, and    *)
(* each stretch of a refresh, for one step; here is why it may.            *)
(*                                                                         *)
(* Databases are numbered in the order they are encoded, a precomputation  *)
(* by its database.  A pass over the database works in the scratch of the  *)
(* PIR server; clean is FALSE while it holds a half-done pass, also one    *)
(* that a panic left there.                                                *)
(***************************************************************************)
EXTENDS Integers, Sequences

CONSTANTS
  Thread,       \* threads with a responder
  None,
  Faults,       \* those that may occur of {"encode", "panic"}
  MaxBatch,     \* bound: queries in one call
  MaxRefresh    \* bound: databases encoded

ASSUME ResponderAssumption ==
  /\ None \notin Thread
  /\ Faults \subseteq {"encode", "panic"}
  /\ MaxBatch \in Nat \ {0}
  /\ MaxRefresh \in Nat

VARIABLES
  holder,     \* the responder thread that holds the mutex, or None
  poisoned,   \* whether the mutex is poisoned
  serving,    \* [db, precomp, clean]
  call,       \* the try_respond* call of each thread, in progress or last
  step,       \* what the refresh in progress does next; "idle" if none
  staged      \* number of the database last encoded into staging

vars == <<holder, poisoned, serving, call, step, staged>>
-------------------------------------------------------------------------------
(***************************************************************************)
(* A call: where it is, how many of its queries are unanswered, what was   *)
(* served when it began, what its pass has read, and the answers so far.   *)
(***************************************************************************)
Read == [db : Nat, clean : BOOLEAN]
Answer == [db : Nat, precomp : Nat, clean : BOOLEAN]
Call == [ pc : {"out", "waiting", "scan", "fold"}, left : Nat, since : Nat,
          read : Read \cup {None}, answers : Seq(Answer) ]

Init ==
  /\ holder = None
  /\ poisoned = FALSE
  /\ serving = [db |-> 0, precomp |-> 0, clean |-> TRUE]
  /\ call = [t \in Thread |-> [ pc |-> "out", left |-> 0, since |-> 0,
                                read |-> None, answers |-> << >> ]]
  /\ step = "idle"
  /\ staged = 0

\* try_respond with one query, try_respond_batch with several.
Ask(t) ==
  /\ call[t].pc = "out"
  /\ \E n \in 1 .. MaxBatch :
       call' = [call EXCEPT ![t] = [ pc |-> "waiting", left |-> n,
                                     since |-> serving.db, read |-> None,
                                     answers |-> << >> ]]
  /\ UNCHANGED <<holder, poisoned, serving, step, staged>>

\* Variant of Lock that takes the data out of a poisoned mutex.
LockPoisoned(t) ==
  /\ call[t].pc = "waiting"
  /\ holder = None
  /\ holder' = t
  /\ call' = [call EXCEPT ![t].pc = "scan"]
  /\ UNCHANGED <<poisoned, serving, step, staged>>

\* serving.lock() ...
Lock(t) ==
  /\ call[t].pc = "waiting"
  /\ holder = None
  /\ ~poisoned
  /\ holder' = t
  /\ call' = [call EXCEPT ![t].pc = "scan"]
  /\ UNCHANGED <<poisoned, serving, step, staged>>

\* ... or ServerPoisoned.
Refused(t) ==
  /\ call[t].pc = "waiting"
  /\ holder = None
  /\ poisoned
  /\ call' = [call EXCEPT ![t].pc = "out"]
  /\ UNCHANGED <<holder, poisoned, serving, step, staged>>

\* The one pass over the database, for all queries of the call.
Scan(t) ==
  /\ call[t].pc = "scan"
  /\ call' = [call EXCEPT ![t].pc = "fold",
                          ![t].read = [db |-> serving.db, clean |-> serving.clean]]
  /\ serving' = [serving EXCEPT !.clean = FALSE]
  /\ UNCHANGED <<holder, poisoned, step, staged>>

\* A query does not parse, or the library returns an error: the guard drops.
Fail(t) ==
  /\ call[t].pc = "scan"
  /\ call' = [call EXCEPT ![t].pc = "out"]
  /\ holder' = None
  /\ UNCHANGED <<poisoned, serving, step, staged>>

AnswerNow(t) ==
  [ db |-> call[t].read.db, precomp |-> serving.precomp,
    clean |-> call[t].read.clean ]

\* Variant of Fold that answers a batch as one call for each of its queries.
FoldOneByOne(t) ==
  /\ call[t].pc = "fold"
  /\ call' = [call EXCEPT ![t].pc = IF call[t].left = 1 THEN "out" ELSE "waiting",
                          ![t].left = @ - 1,
                          ![t].answers = Append(@, AnswerNow(t))]
  /\ serving' = [serving EXCEPT !.clean = TRUE]
  /\ holder' = None
  /\ UNCHANGED <<poisoned, step, staged>>

\* One answer is finished with the precomputation; the last drops the guard.
Fold(t) ==
  /\ call[t].pc = "fold"
  /\ call' = [call EXCEPT ![t].pc = IF call[t].left = 1 THEN "out" ELSE "fold",
                          ![t].left = @ - 1,
                          ![t].answers = Append(@, AnswerNow(t))]
  /\ IF call[t].left = 1
     THEN holder' = None /\ serving' = [serving EXCEPT !.clean = TRUE]
     ELSE UNCHANGED <<holder, serving>>
  /\ UNCHANGED <<poisoned, step, staged>>

\* Variant of Panic without the unwinding that drops the guard.
PanicHolding(t) ==
  /\ "panic" \in Faults
  /\ call[t].pc \in {"scan", "fold"}
  /\ poisoned' = TRUE
  /\ call' = [call EXCEPT ![t].pc = "out", ![t].answers = << >>]
  /\ UNCHANGED <<holder, serving, step, staged>>

\* The thread panics with the guard: its drop poisons the mutex.
Panic(t) ==
  /\ "panic" \in Faults
  /\ call[t].pc \in {"scan", "fold"}
  /\ poisoned' = TRUE
  /\ holder' = None
  /\ call' = [call EXCEPT ![t].pc = "out", ![t].answers = << >>]
  /\ UNCHANGED <<serving, step, staged>>
-------------------------------------------------------------------------------
\* Any of the rebuilds calls refresh().
Refresh ==
  /\ step = "idle"
  /\ staged < MaxRefresh
  /\ step' = "encode"
  /\ UNCHANGED <<holder, poisoned, serving, call, staged>>

Encode ==
  /\ step = "encode"
  /\ staged' = staged + 1
  /\ step' \in {"context"} \cup (IF "encode" \in Faults THEN {"idle"} ELSE {})
  /\ UNCHANGED <<holder, poisoned, serving, call>>

\* Variant of TakeContext that keeps the guard for the precomputation.
TakeContextAndKeep ==
  /\ step = "context"
  /\ holder = None
  /\ ~poisoned
  /\ holder' = "rebuild"
  /\ step' = "precompute"
  /\ UNCHANGED <<poisoned, serving, call, staged>>

\* The first lock() of refresh(), dropped at the end of the block.
TakeContext ==
  /\ step = "context"
  /\ holder = None
  /\ ~poisoned
  /\ step' = "precompute"
  /\ UNCHANGED <<holder, poisoned, serving, call, staged>>

\* offline_for(&mut staging), the seconds of a refresh.
Precompute ==
  /\ step = "precompute"
  /\ step' = "install"
  /\ UNCHANGED <<holder, poisoned, serving, call, staged>>

\* Variant of Install that swaps the pair without the mutex.
InstallUnlocked ==
  /\ step = "install"
  /\ ~poisoned
  /\ serving' = [serving EXCEPT !.db = staged, !.precomp = staged]
  /\ step' = "idle"
  /\ UNCHANGED <<holder, poisoned, call, staged>>

\* The second lock() and install.
Install ==
  /\ step = "install"
  /\ holder = None
  /\ ~poisoned
  /\ serving' = [serving EXCEPT !.db = staged, !.precomp = staged]
  /\ step' = "idle"
  /\ UNCHANGED <<holder, poisoned, call, staged>>

\* Either lock() finds the mutex poisoned.
RefreshPoisoned ==
  /\ step \in {"context", "install"}
  /\ holder = None
  /\ poisoned
  /\ step' = "idle"
  /\ UNCHANGED <<holder, poisoned, serving, call, staged>>
-------------------------------------------------------------------------------
Respond(t) ==
  Ask(t) \/ Lock(t) \/ Refused(t) \/ Scan(t) \/ Fail(t) \/ Fold(t) \/ Panic(t)

Rebuild ==
  Refresh \/ Encode \/ TakeContext \/ Precompute \/ Install \/ RefreshPoisoned

Next == Rebuild \/ \E t \in Thread : Respond(t)

Spec == Init /\ [][Next]_vars

(***************************************************************************)
(* A thread runs on with the guard it has, and one that finds the mutex    *)
(* free again and again gets it.  Nothing is asked of the refresh.         *)
(***************************************************************************)
ThreadFairness ==
  \A t \in Thread : /\ WF_vars(Scan(t))
                    /\ WF_vars(Fold(t))
                    /\ SF_vars(Lock(t))
                    /\ WF_vars(Refused(t))

FairSpec == Spec /\ ThreadFairness

\* The rebuilding thread too runs on and gets the mutex.
RefreshFairness ==
  /\ WF_vars(Encode) /\ WF_vars(Precompute)
  /\ SF_vars(TakeContext) /\ SF_vars(Install) /\ WF_vars(RefreshPoisoned)
-------------------------------------------------------------------------------
(***************************************************************************)
(* WholeAnswers: an answer is computed from one database and its own       *)
(* precomputation, and never in a scratch that a panic left half-used.     *)
(***************************************************************************)
WholeAnswers ==
  \A t \in Thread : \A i \in 1 .. Len(call[t].answers) :
    LET answer == call[t].answers[i]
    IN  answer.db = answer.precomp /\ answer.clean

(***************************************************************************)
(* OneDatabasePerCall: all answers of a batch are of the same database,    *)
(* one served since the call began and not an older one.                   *)
(***************************************************************************)
OneDatabasePerCall ==
  \A t \in Thread : \A i, j \in 1 .. Len(call[t].answers) :
    /\ call[t].answers[i].db = call[t].answers[j].db
    /\ call[t].answers[i].db >= call[t].since

(***************************************************************************)
(* EveryCallReturns: a call gets its answers or an error although a        *)
(* refresh may take for ever (README.md:118: updates "never take the       *)
(* service offline"), and although a thread panics.                        *)
(***************************************************************************)
EveryCallReturns ==
  \A t \in Thread : call[t].pc = "waiting" ~> call[t].pc = "out"

(***************************************************************************)
(* RefreshReturns: a refresh that runs on ends, served or failed, although *)
(* responders keep asking, and although one of them panics.                *)
(***************************************************************************)
RefreshReturns == RefreshFairness => (step # "idle" ~> step = "idle")
=============================================================================
