---------------------------- MODULE ResponderProofs ----------------------------
(***************************************************************************)
(* The safety properties of Responder, for any number of threads, queries  *)
(* and refreshes, whatever fails.                                          *)
(***************************************************************************)
EXTENDS ResponderRefinesAtomic, SequenceTheorems, TLAPS

Types ==
  /\ holder \in Thread \cup {None}
  /\ poisoned \in BOOLEAN
  /\ serving \in [db : Nat, precomp : Nat, clean : BOOLEAN]
  /\ call \in [Thread -> Call]
  /\ step \in {"idle", "encode", "context", "precompute", "install"}
  /\ staged \in Nat

\* What is served is a pair, and the scratch is clean when the mutex is free.
ServingSound ==
  /\ serving.db = serving.precomp
  /\ serving.db <= staged
  /\ holder = None /\ ~poisoned => serving.clean

\* The thread in a pass, and it alone, holds the mutex; its pass is sound.
PassSound(t) ==
  /\ call[t].pc \in {"scan", "fold"} <=> holder = t
  /\ call[t].pc # "out" => call[t].left >= 1
  /\ call[t].pc \in {"waiting", "scan"} => call[t].answers = << >>
  /\ call[t].pc = "scan" => serving.clean /\ ~poisoned
  /\ call[t].pc = "fold" => /\ ~poisoned
                            /\ call[t].read = [db |-> serving.db, clean |-> TRUE]

\* One answer of a call, and any two of them.
AnswersSound(t) ==
  /\ call[t].since <= serving.db
  /\ \A i \in 1 .. Len(call[t].answers) :
       LET answer == call[t].answers[i]
       IN  /\ answer.db = answer.precomp
           /\ answer.clean
           /\ answer.db >= call[t].since
           /\ call[t].pc = "fold" => answer.db = serving.db
  /\ \A i, j \in 1 .. Len(call[t].answers) :
       call[t].answers[i].db = call[t].answers[j].db

Inductive ==
  /\ Types
  /\ ServingSound
  /\ \A t \in Thread : PassSound(t) /\ AnswersSound(t)

LEMMA InitInductive == Init => Inductive
<1> SUFFICES ASSUME Init PROVE Inductive
  OBVIOUS
<1> DEFINE unused == [ pc |-> "out", left |-> 0, since |-> 0,
                        read |-> None, answers |-> << >> ]
<1>1. Types
  <2>1. unused \in Call
    BY DEF Call
  <2> HIDE DEF unused
  <2>2. call \in [Thread -> Call]
    BY <2>1 DEF Init, unused
  <2> QED BY <2>2 DEF Init, Types
<1>2. ServingSound
  BY DEF Init, ServingSound
<1>3. ASSUME NEW t \in Thread PROVE PassSound(t) /\ AnswersSound(t)
  <2>1. call[t] = unused /\ holder = None /\ serving.db = 0
    BY DEF Init
  <2>2. Len(call[t].answers) = 0
    BY <2>1
  <2> QED BY <2>1, <2>2, ResponderAssumption DEF PassSound, AnswersSound
<1> QED BY <1>1, <1>2, <1>3 DEF Inductive

(***************************************************************************)
(* A step that changes the call of one thread at most and nothing that is  *)
(* served leaves what is known of the other threads alone.                 *)
(***************************************************************************)
LEMMA OthersStay ==
  ASSUME Inductive, NEW t \in Thread, NEW u \in Thread, u # t,
         call'[u] = call[u],
         \/ UNCHANGED <<holder, poisoned, serving>>
         \/ holder \in {None, t} /\ holder' \in {None, t} /\ serving'.db = serving.db
  PROVE  PassSound(u)' /\ AnswersSound(u)'
<1>1. PassSound(u) /\ AnswersSound(u)
  BY DEF Inductive
<1>2. CASE UNCHANGED <<holder, poisoned, serving>>
  BY <1>1, <1>2 DEF PassSound, AnswersSound
<1>3. CASE holder \in {None, t} /\ holder' \in {None, t} /\ serving'.db = serving.db
  <2>1. call[u].pc \notin {"scan", "fold"} /\ holder' # u
    BY <1>1, <1>3, ResponderAssumption DEF PassSound
  <2>2. PassSound(u)'
    BY <1>1, <2>1 DEF PassSound
  <2>3. AnswersSound(u)'
    BY <1>1, <1>3 DEF AnswersSound
  <2> QED BY <2>2, <2>3
<1> QED BY <1>2, <1>3

LEMMA AskInductive ==
  ASSUME Inductive, NEW t \in Thread, Ask(t)
  PROVE  Inductive'
<1>1. PICK n \in 1 .. MaxBatch :
        call' = [call EXCEPT ![t] = [ pc |-> "waiting", left |-> n,
                                      since |-> serving.db, read |-> None,
                                      answers |-> << >> ]]
  BY DEF Ask
<1>2. /\ call[t].pc = "out"
      /\ UNCHANGED <<holder, poisoned, serving, step, staged>>
  BY DEF Ask
<1>3. Types'
  BY <1>1, <1>2, ResponderAssumption DEF Inductive, Types, Call
<1>4. ServingSound'
  BY <1>2 DEF Inductive, ServingSound
<1>5. PassSound(t)' /\ AnswersSound(t)'
  BY <1>1, <1>2 DEF Inductive, Types, PassSound, AnswersSound
<1>6. \A u \in Thread : u # t => call'[u] = call[u]
  BY <1>1 DEF Inductive, Types
<1> QED BY <1>2, <1>3, <1>4, <1>5, <1>6, OthersStay DEF Inductive

LEMMA LockInductive ==
  ASSUME Inductive, NEW t \in Thread, Lock(t) \/ Refused(t)
  PROVE  Inductive'
<1>1. PICK pc \in {"scan", "out"} :
        /\ call' = [call EXCEPT ![t].pc = pc]
        /\ IF pc = "scan" THEN holder' = t /\ ~poisoned ELSE holder' = None
  BY DEF Lock, Refused
<1>2. /\ call[t].pc = "waiting" /\ holder = None
      /\ UNCHANGED <<poisoned, serving, step, staged>>
  BY DEF Lock, Refused
<1>3. Types'
  BY <1>1, <1>2 DEF Inductive, Types, Call
<1>4. ServingSound'
  BY <1>1, <1>2 DEF Inductive, ServingSound
<1>5. PassSound(t)' /\ AnswersSound(t)'
  BY <1>1, <1>2, ResponderAssumption
     DEF Inductive, Types, Call, PassSound, AnswersSound, ServingSound
<1>6. \A u \in Thread : u # t => call'[u] = call[u]
  BY <1>1 DEF Inductive, Types
<1> QED BY <1>1, <1>2, <1>3, <1>4, <1>5, <1>6, OthersStay DEF Inductive

LEMMA ScanInductive ==
  ASSUME Inductive, NEW t \in Thread, Scan(t)
  PROVE  Inductive'
<1>1. /\ call[t].pc = "scan" /\ holder = t
      /\ call' = [call EXCEPT ![t].pc = "fold",
                    ![t].read = [db |-> serving.db, clean |-> serving.clean]]
      /\ serving' = [serving EXCEPT !.clean = FALSE]
      /\ UNCHANGED <<holder, poisoned, step, staged>>
  BY DEF Scan, Inductive, PassSound
<1>2. serving.clean /\ ~poisoned /\ call[t].answers = << >> /\ call[t].left >= 1
  BY <1>1 DEF Inductive, PassSound
<1>3. Types'
  <2>1. [db |-> serving.db, clean |-> serving.clean] \in Read
    BY DEF Inductive, Types, Read
  <2>2. PICK read \in Read :
          call' = [call EXCEPT ![t].pc = "fold", ![t].read = read]
    BY <1>1, <2>1
  <2>3. call' \in [Thread -> Call]
    <3>1. call[t] \in Call /\ read \in Read \cup {None}
      BY DEF Inductive, Types
    <3>2. [call[t] EXCEPT !.pc = "fold", !.read = read] \in Call
      BY <3>1, Zenon DEF Call
    <3> QED BY <2>2, <3>2 DEF Inductive, Types
  <2> QED BY <1>1, <2>3 DEF Inductive, Types
<1>4. ServingSound'
  BY <1>1, ResponderAssumption DEF Inductive, Types, ServingSound
<1>5. PassSound(t)' /\ AnswersSound(t)'
  BY <1>1, <1>2 DEF Inductive, Types, Call, PassSound, AnswersSound
<1>6. \A u \in Thread : u # t => call'[u] = call[u]
  BY <1>1 DEF Inductive, Types
<1>7. serving'.db = serving.db
  BY <1>1 DEF Inductive, Types
<1> QED BY <1>1, <1>3, <1>4, <1>5, <1>6, <1>7, OthersStay DEF Inductive

\* The guard is dropped, by an error or by unwinding.
LEMMA GiveUpInductive ==
  ASSUME Inductive, NEW t \in Thread, Fail(t) \/ Panic(t)
  PROVE  Inductive'
<1>1. /\ call[t].pc \in {"scan", "fold"} /\ holder = t /\ holder' = None
      /\ UNCHANGED <<serving, step, staged>>
  BY DEF Fail, Panic, Inductive, PassSound
<1>2. \/ call' = [call EXCEPT ![t].pc = "out"] /\ call[t].pc = "scan"
         /\ poisoned' = poisoned
      \/ call' = [call EXCEPT ![t].pc = "out", ![t].answers = << >>]
         /\ poisoned' = TRUE
  BY DEF Fail, Panic
<1>3. Types'
  <2>1. call[t] \in Call /\ << >> \in Seq(Answer)
    BY DEF Inductive, Types
  <2>2. /\ [call[t] EXCEPT !.pc = "out"] \in Call
        /\ [call[t] EXCEPT !.pc = "out", !.answers = << >>] \in Call
    BY <2>1, Zenon DEF Call
  <2>3. call' \in [Thread -> Call]
    BY <1>2, <2>2 DEF Inductive, Types
  <2>4. poisoned' \in BOOLEAN
    BY <1>2 DEF Inductive, Types
  <2> QED BY <1>1, <2>3, <2>4 DEF Inductive, Types
<1>4. ServingSound'
  BY <1>1, <1>2 DEF Inductive, ServingSound, PassSound
<1>5. PassSound(t)' /\ AnswersSound(t)'
  <2>1. /\ call'[t].pc = "out" /\ call'[t].since = call[t].since
        /\ call'[t].answers = << >>
    BY <1>2 DEF Inductive, Types, Call, PassSound
  <2>2. Len(call'[t].answers) = 0
    BY <2>1
  <2> QED BY <1>1, <2>1, <2>2, ResponderAssumption
          DEF Inductive, PassSound, AnswersSound
<1>6. \A u \in Thread : u # t => call'[u] = call[u]
  BY <1>2 DEF Inductive, Types
<1> QED BY <1>1, <1>3, <1>4, <1>5, <1>6, OthersStay DEF Inductive

LEMMA FoldInductive ==
  ASSUME Inductive, NEW t \in Thread, Fold(t)
  PROVE  Inductive'
<1> DEFINE new == AnswerNow(t)
           old == call[t].answers
           pc == IF call[t].left = 1 THEN "out" ELSE "fold"
<1>1. /\ call[t].pc = "fold" /\ holder = t /\ ~poisoned
      /\ call[t].read = [db |-> serving.db, clean |-> TRUE]
      /\ call[t].left >= 1 /\ call[t].left \in Nat
      /\ UNCHANGED <<poisoned, step, staged>>
      /\ serving.db = serving.precomp
  BY DEF Fold, Inductive, PassSound, Types, Call, ServingSound
<1>2. /\ new = [db |-> serving.db, precomp |-> serving.db, clean |-> TRUE]
      /\ new \in Answer
  BY <1>1 DEF AnswerNow, Inductive, Types, Answer
<1>3. old \in Seq(Answer)
  BY DEF Inductive, Types, Call
<1>4. PICK answers \in Seq(Answer) :
        /\ answers = Append(old, new)
        /\ Len(answers) = Len(old) + 1
        /\ \A i \in 1 .. Len(old) : answers[i] = old[i]
        /\ answers[Len(old) + 1] = new
  <2> HIDE DEF new, old
  <2>1. /\ Append(old, new) \in Seq(Answer)
        /\ Len(Append(old, new)) = Len(old) + 1
        /\ \A i \in 1 .. Len(old) : Append(old, new)[i] = old[i]
        /\ Append(old, new)[Len(old) + 1] = new
    BY <1>2, <1>3, AppendProperties
  <2> QED BY <2>1
<1>5. call' = [call EXCEPT ![t].pc = pc, ![t].left = @ - 1, ![t].answers = answers]
  BY <1>4 DEF Fold
<1>6. /\ IF call[t].left = 1
         THEN holder' = None /\ serving' = [serving EXCEPT !.clean = TRUE]
         ELSE UNCHANGED <<holder, serving>>
      /\ serving'.db = serving.db
      /\ serving'.precomp = serving.precomp
  BY DEF Fold, Inductive, Types
<1>7. /\ call'[t].pc = pc /\ call'[t].left = call[t].left - 1
      /\ call'[t].answers = answers /\ call'[t].since = call[t].since
      /\ call'[t].read = call[t].read
      /\ call'[t] \in Call
  BY <1>1, <1>5 DEF Inductive, Types, Call
<1>8. \A u \in Thread : u # t => call'[u] = call[u]
  BY <1>5 DEF Inductive, Types
<1>9. Types'
  <2>1. call' \in [Thread -> Call]
    BY <1>5, <1>7, <1>8 DEF Inductive, Types
  <2> QED BY <1>1, <1>6, <2>1 DEF Inductive, Types
<1>10. ServingSound'
  <2>1. serving'.db = serving'.precomp /\ serving'.db <= staged'
    BY <1>1, <1>6 DEF Inductive, ServingSound
  <2>2. holder' = None => serving'.clean
    BY <1>1, <1>6, ResponderAssumption DEF Inductive, Types
  <2> QED BY <2>1, <2>2 DEF ServingSound
<1>11. PassSound(t)'
  <2>1. CASE call[t].left = 1
    BY <1>6, <1>7, <2>1, ResponderAssumption DEF PassSound
  <2>2. CASE call[t].left # 1
    <3>1. call'[t].left >= 1 /\ serving' = serving /\ holder' = t
      BY <1>1, <1>6, <1>7, <2>2
    <3> QED BY <1>1, <1>7, <2>2, <3>1 DEF PassSound
  <2> QED BY <2>1, <2>2
<1>12. AnswersSound(t)'
  <2>1. \A i \in 1 .. Len(old) : /\ old[i].db = serving.db
                                 /\ old[i].db = old[i].precomp /\ old[i].clean
    BY <1>1 DEF Inductive, AnswersSound
  <2>2. call[t].since <= serving.db
    BY DEF Inductive, AnswersSound
  <2>3. Len(old) \in Nat
    BY <1>3, LenProperties
  <2> HIDE DEF old, new
  <2>4. \A i \in 1 .. Len(answers) :
          /\ answers[i].db = serving.db
          /\ answers[i].db = answers[i].precomp /\ answers[i].clean
    BY <1>2, <1>4, <2>1, <2>3
  <2> QED BY <1>6, <1>7, <2>2, <2>4 DEF AnswersSound, Inductive, Types
<1> QED
  BY <1>1, <1>6, <1>8, <1>9, <1>10, <1>11, <1>12, OthersStay DEF Inductive

LEMMA RebuildInductive ==
  ASSUME Inductive, Rebuild
  PROVE  Inductive'
<1>1. CASE Refresh \/ Encode \/ TakeContext \/ Precompute \/ RefreshPoisoned
  <2>1. /\ UNCHANGED <<holder, poisoned, serving, call>>
        /\ staged' \in Nat /\ staged' >= staged
        /\ step' \in {"idle", "encode", "context", "precompute", "install"}
    BY <1>1 DEF Refresh, Encode, TakeContext, Precompute, RefreshPoisoned,
                Inductive, Types
  <2>2. Types' /\ ServingSound'
    BY <2>1 DEF Inductive, Types, ServingSound
  <2>3. ASSUME NEW t \in Thread PROVE PassSound(t)' /\ AnswersSound(t)'
    <3>1. PassSound(t) /\ AnswersSound(t)
      BY DEF Inductive
    <3> QED BY <2>1, <3>1 DEF PassSound, AnswersSound
  <2> QED BY <2>2, <2>3 DEF Inductive
<1>2. CASE Install
  <2>1. /\ holder = None /\ ~poisoned /\ step' = "idle"
        /\ serving' = [serving EXCEPT !.db = staged, !.precomp = staged]
        /\ UNCHANGED <<holder, poisoned, call, staged>>
    BY <1>2 DEF Install
  <2>2. /\ serving'.db = staged /\ serving'.precomp = staged
        /\ serving'.clean = serving.clean /\ serving.db <= staged
    BY <2>1 DEF Inductive, Types, ServingSound
  <2>3. Types' /\ ServingSound'
    <3>1. serving' \in [db : Nat, precomp : Nat, clean : BOOLEAN]
      BY <2>1 DEF Inductive, Types
    <3>2. Types'
      BY <2>1, <3>1 DEF Inductive, Types
    <3>3. ServingSound'
      BY <2>1, <2>2, <3>2 DEF Inductive, Types, ServingSound
    <3> QED BY <3>2, <3>3
  <2>4. ASSUME NEW t \in Thread PROVE PassSound(t)' /\ AnswersSound(t)'
    <3>1. call[t].pc \notin {"scan", "fold"} /\ call[t].since \in Nat
      BY <2>1, ResponderAssumption DEF Inductive, PassSound, Types, Call
    <3>2. PassSound(t)'
      BY <2>1, <2>2, <3>1 DEF Inductive, PassSound
    <3>3. AnswersSound(t)'
      BY <2>1, <2>2, <3>1 DEF Inductive, AnswersSound, Types
    <3> QED BY <3>2, <3>3
  <2> QED BY <2>3, <2>4 DEF Inductive
<1> QED BY <1>1, <1>2 DEF Rebuild

LEMMA StepInductive == Inductive /\ [Next]_vars => Inductive'
<1> SUFFICES ASSUME Inductive, [Next]_vars PROVE Inductive'
  OBVIOUS
<1>1. CASE Rebuild
  BY <1>1, RebuildInductive
<1>2. ASSUME NEW t \in Thread, Respond(t) PROVE Inductive'
  BY <1>2, AskInductive, LockInductive, ScanInductive, GiveUpInductive,
     FoldInductive DEF Respond
<1>3. CASE UNCHANGED vars
  <2>1. Types' /\ ServingSound'
    BY <1>3 DEF vars, Inductive, Types, ServingSound
  <2>2. ASSUME NEW t \in Thread PROVE PassSound(t)' /\ AnswersSound(t)'
    <3>1. PassSound(t) /\ AnswersSound(t)
      BY DEF Inductive
    <3> QED BY <1>3, <3>1 DEF vars, PassSound, AnswersSound
  <2> QED BY <2>1, <2>2 DEF Inductive
<1> QED BY <1>1, <1>2, <1>3 DEF Next

THEOREM Invariance == Spec => []Inductive
BY InitInductive, StepInductive, PTL DEF Spec

(***************************************************************************)
(* AnswersAreWhole: an answer is computed from one database, its own       *)
(* precomputation and a clean scratch, for any number of threads.          *)
(***************************************************************************)
THEOREM AnswersAreWhole == Spec => []WholeAnswers
<1>1. Inductive => WholeAnswers
  BY DEF Inductive, AnswersSound, WholeAnswers
<1> QED BY <1>1, Invariance, PTL

(***************************************************************************)
(* BatchSeesOneDatabase: the answers of a call are of one database, and    *)
(* not an older one than was served when the call began.                   *)
(***************************************************************************)
THEOREM BatchSeesOneDatabase == Spec => []OneDatabasePerCall
<1>1. Inductive => OneDatabasePerCall
  BY DEF Inductive, AnswersSound, OneDatabasePerCall
<1> QED BY <1>1, Invariance, PTL
-------------------------------------------------------------------------------
(***************************************************************************)
(* Responder implements AtomicResponder.  Inductive says all that is       *)
(* needed of the calls; of the refresh, that what it installs is newer     *)
(* than what it replaces.                                                  *)
(***************************************************************************)
Newer == step \in {"context", "precompute", "install"} => serving.db < staged

LEMMA NewerStep == Inductive /\ Newer /\ [Next]_vars => Newer'
<1> SUFFICES ASSUME Inductive, Newer, [Next]_vars PROVE Newer'
  OBVIOUS
<1>1. serving.db \in Nat /\ staged \in Nat /\ serving.db <= staged
  BY DEF Inductive, Types, ServingSound
<1>2. CASE Rebuild
  BY <1>1, <1>2 DEF Rebuild, Refresh, Encode, TakeContext, Precompute, Install,
                    RefreshPoisoned, Newer
<1>3. ASSUME NEW t \in Thread, Respond(t) PROVE Newer'
  <2>1. serving'.db = serving.db /\ UNCHANGED <<step, staged>>
    BY <1>3 DEF Respond, Ask, Lock, Refused, Scan, Fail, Fold, Panic, Inductive,
                Types
  <2> QED BY <2>1 DEF Newer
<1>4. CASE UNCHANGED vars
  BY <1>4 DEF vars, Newer
<1> QED BY <1>2, <1>3, <1>4 DEF Next

\* What a call is to its caller, by where it is.
LEMMA CallSeen ==
  ASSUME NEW c \in Call
  PROVE  /\ c.pc = "out" =>
              /\ AskedFor(c) = 0
              /\ Returned(c) = [i \in 1 .. Len(c.answers) |-> Source(c.answers[i])]
         /\ c.pc # "out" =>
              AskedFor(c) = c.left + Len(c.answers) /\ Returned(c) = << >>
BY DEF AskedFor, Returned

\* A step of one call changes what is seen of that call alone.
LEMMA SeenStep ==
  ASSUME NEW t \in Thread, \A u \in Thread : u # t => call'[u] = call[u]
  PROVE  /\ Asked' = [Asked EXCEPT ![t] = AskedFor(call'[t])]
         /\ Answers' = [Answers EXCEPT ![t] = Returned(call'[t])]
<1>1. /\ Asked' = [u \in Thread |-> AskedFor(call'[u])]
      /\ Answers' = [u \in Thread |-> Returned(call'[u])]
  BY DEF Asked, Answers, AskedFor, Returned, Source
<1>2. \A u \in Thread : u # t => /\ AskedFor(call'[u]) = AskedFor(call[u])
                                 /\ Returned(call'[u]) = Returned(call[u])
  OBVIOUS
<1> QED BY <1>1, <1>2 DEF Asked, Answers

LEMMA NothingSeen ==
  ASSUME NEW t \in Thread, \A u \in Thread : u # t => call'[u] = call[u],
         AskedFor(call'[t]) = AskedFor(call[t]),
         Returned(call'[t]) = Returned(call[t])
  PROVE  UNCHANGED <<Asked, Answers>>
<1>1. /\ Asked' = [Asked EXCEPT ![t] = AskedFor(call[t])]
      /\ Answers' = [Answers EXCEPT ![t] = Returned(call[t])]
  BY SeenStep
<1> QED BY <1>1 DEF Asked, Answers

LEMMA InitSeen == Init => Atomic!Init
<1> SUFFICES ASSUME Init PROVE Atomic!Init
  OBVIOUS
<1>1. Inductive
  BY InitInductive
<1>2. serving.db = 0 /\ poisoned = FALSE
  BY DEF Init
<1>3. ASSUME NEW t \in Thread PROVE Asked[t] = 0 /\ Answers[t] = << >>
  <2>1. call[t] \in Call /\ call[t].pc = "out" /\ call[t].answers = << >>
    BY <1>1 DEF Init, Inductive, Types
  <2>2. Len(call[t].answers) = 0
    BY <2>1
  <2>3. AskedFor(call[t]) = 0 /\ Returned(call[t]) = << >>
    BY <2>1, <2>2, CallSeen
  <2> QED BY <2>3 DEF Asked, Answers
<1>4. Asked = [t \in Thread |-> 0] /\ Answers = [t \in Thread |-> << >>]
  BY <1>3 DEF Asked, Answers
<1> QED BY <1>2, <1>4 DEF Atomic!Init

\* The steps of a thread.
LEMMA CallStepSeen ==
  ASSUME Inductive, Inductive', NEW t \in Thread, Respond(t)
  PROVE  [Atomic!Next]_(Atomic!vars)
<1> PICK c \in Call, d \in Call : c = call[t] /\ d = call'[t]
  BY DEF Inductive, Types
<1>1. \A u \in Thread : u # t => call'[u] = call[u]
  BY DEF Respond, Ask, Lock, Refused, Scan, Fail, Fold, Panic, Inductive, Types
<1>2. /\ Asked' = [Asked EXCEPT ![t] = AskedFor(d)]
      /\ Answers' = [Answers EXCEPT ![t] = Returned(d)]
  BY <1>1, SeenStep
<1>3. Asked[t] = AskedFor(c) /\ Answers[t] = Returned(c)
  BY DEF Asked, Answers
<1>4. serving'.db = serving.db
  BY DEF Respond, Ask, Lock, Refused, Scan, Fail, Fold, Panic, Inductive, Types
<1>5. PassSound(t) /\ AnswersSound(t)
  BY DEF Inductive
<1>6. Len(c.answers) \in Nat /\ Len(d.answers) \in Nat
  BY LenProperties DEF Call
<1>7. CASE Ask(t)
  <2>1. PICK n \in 1 .. MaxBatch :
          d = [ pc |-> "waiting", left |-> n, since |-> serving.db,
                read |-> None, answers |-> << >> ]
    BY <1>7 DEF Ask, Inductive, Types
  <2>2. Len(d.answers) = 0
    BY <2>1
  <2>3. AskedFor(d) = n /\ Returned(d) = << >>
    BY <2>1, <2>2, ResponderAssumption, CallSeen
  <2>4. c.pc = "out" /\ UNCHANGED poisoned
    BY <1>7 DEF Ask
  <2>5. AskedFor(c) = 0
    BY <2>4, CallSeen
  <2>6. Atomic!Ask(t)
    BY <1>2, <1>3, <1>4, <2>3, <2>4, <2>5 DEF Atomic!Ask
  <2> QED BY <2>6 DEF Atomic!Next
<1>8. CASE Lock(t) \/ Scan(t)
  <2>1. /\ c.pc # "out" /\ d.pc # "out" /\ d.left = c.left
        /\ d.answers = c.answers /\ UNCHANGED poisoned
    BY <1>8 DEF Lock, Scan, Inductive, Types, Call
  <2>2. AskedFor(d) = AskedFor(c) /\ Returned(d) = Returned(c)
    BY <2>1, CallSeen
  <2>3. UNCHANGED <<Asked, Answers>>
    BY <1>1, <2>2, NothingSeen
  <2> QED BY <1>4, <2>1, <2>3 DEF Atomic!vars
<1>9. CASE Refused(t) \/ Fail(t) \/ Panic(t)
  <2>1. /\ c.pc # "out" /\ d.pc = "out" /\ c.left >= 1
        /\ d.answers = << >>
    BY <1>5, <1>9 DEF Refused, Fail, Panic, Inductive, Types, Call, PassSound
  <2>2. /\ AskedFor(c) # 0 /\ AskedFor(d) = 0
        /\ Returned(c) = << >> /\ Returned(d) = << >>
    <3>1. Len(d.answers) = 0
      BY <2>1
    <3>2. c.left + Len(c.answers) # 0
      BY <1>6, <2>1 DEF Call
    <3> QED BY <2>1, <3>1, <3>2, CallSeen
  <2>3. Asked[t] # 0 /\ Asked' = [Asked EXCEPT ![t] = 0] /\ Answers' = Answers
    BY <1>2, <1>3, <2>2 DEF Answers
  <2>4. CASE Panic(t)
    <3>1. "panic" \in Faults /\ ~poisoned /\ poisoned' = TRUE
      BY <1>5, <2>4 DEF Panic, PassSound
    <3>2. Atomic!Panic(t)
      BY <1>4, <2>3, <3>1, Zenon DEF Atomic!Panic
    <3> QED BY <3>2 DEF Atomic!Next
  <2>5. CASE Refused(t) \/ Fail(t)
    <3>1. UNCHANGED poisoned
      BY <2>5 DEF Refused, Fail
    <3>2. Atomic!Refuse(t)
      BY <1>4, <2>3, <3>1 DEF Atomic!Refuse
    <3> QED BY <3>2 DEF Atomic!Next
  <2> QED BY <1>9, <2>4, <2>5
<1>10. CASE Fold(t)
  <2>1. /\ c.pc = "fold" /\ c.left \in Nat /\ c.left >= 1
        /\ d.pc = IF c.left = 1 THEN "out" ELSE "fold"
        /\ d.left = c.left - 1
        /\ d.answers = Append(c.answers, AnswerNow(t))
        /\ UNCHANGED poisoned /\ ~poisoned
    BY <1>5, <1>10 DEF Fold, PassSound, Inductive, Types, Call
  <2>2. PICK n \in Nat : n = Len(c.answers)
    BY <1>6
  <2>3. c.answers \in Seq(Answer) /\ d.answers \in Seq(Answer)
    BY DEF Call
  <2>4. Len(d.answers) = n + 1
    BY <2>1, <2>2, <2>3
  <2>5. AskedFor(c) = c.left + n /\ Returned(c) = << >>
    BY <2>1, <2>2, CallSeen
  <2>6. CASE c.left # 1
    <3>1. d.pc # "out"
      BY <2>1, <2>6
    <3>2. AskedFor(d) = AskedFor(c) /\ Returned(d) = Returned(c)
      <4>1. AskedFor(d) = d.left + (n + 1) /\ Returned(d) = << >>
        BY <2>4, <3>1, CallSeen
      <4>2. PICK l \in Nat : l = c.left /\ d.left = l - 1
        BY <2>1, Zenon
      <4>3. l - 1 + (n + 1) = l + n
        OBVIOUS
      <4> QED BY <2>5, <4>1, <4>2, <4>3, Zenon
    <3>3. UNCHANGED <<Asked, Answers>>
      BY <1>1, <3>2, NothingSeen
    <3> QED BY <1>4, <2>1, <3>3 DEF Atomic!vars
  <2>7. CASE c.left = 1
    <3>1. AskedFor(c) = n + 1 /\ d.pc = "out" /\ AskedFor(d) = 0
      BY <2>1, <2>5, <2>7, CallSeen
    <3>2. ASSUME NEW i \in 1 .. n + 1 PROVE Source(d.answers[i]) = serving.db
      <4> PICK a : a = d.answers[i]
        OBVIOUS
      <4>1. a.db = serving.db /\ a.db = a.precomp /\ a.clean
        <5>1. CASE i <= n
          <6>1. a = c.answers[i] /\ i \in 1 .. n
            BY <2>1, <2>2, <2>3, <5>1
          <6> QED BY <1>5, <2>1, <2>2, <6>1 DEF AnswersSound
        <5>2. CASE i = n + 1
          <6>1. a = AnswerNow(t)
            BY <2>1, <2>2, <2>3, <5>2
          <6>2. /\ call[t].read = [db |-> serving.db, clean |-> TRUE]
                /\ serving.db = serving.precomp
            BY <1>5, <2>1 DEF PassSound, Inductive, ServingSound
          <6>3. AnswerNow(t) = [ db |-> serving.db, precomp |-> serving.precomp,
                                 clean |-> TRUE ]
            BY <6>2 DEF AnswerNow
          <6> QED BY <6>1, <6>2, <6>3
        <5> QED BY <5>1, <5>2
      <4> QED BY <4>1 DEF Source
    <3>3. Returned(d) = [i \in 1 .. n + 1 |-> serving.db]
      BY <2>4, <3>1, <3>2, CallSeen
    <3>4. Atomic!Respond(t)
      BY <1>2, <1>3, <1>4, <2>1, <3>1, <3>3 DEF Atomic!Respond
    <3> QED BY <3>4 DEF Atomic!Next
  <2> QED BY <2>6, <2>7
<1> QED BY <1>7, <1>8, <1>9, <1>10 DEF Respond

LEMMA StepSeen ==
  ASSUME Inductive, Inductive', Newer, [Next]_vars
  PROVE  [Atomic!Next]_(Atomic!vars)
<1>1. CASE Install
  <2>1. /\ ~poisoned /\ UNCHANGED <<poisoned, call>>
        /\ serving'.db = staged /\ serving.db < staged
    BY <1>1 DEF Install, Inductive, Types, Newer
  <2>2. UNCHANGED <<Asked, Answers>>
    BY <2>1 DEF Asked, Answers
  <2>3. serving'.db > serving.db
    BY <2>1 DEF Inductive, Types
  <2>4. Atomic!Publish
    BY <2>1, <2>2, <2>3 DEF Atomic!Publish
  <2> QED BY <2>4 DEF Atomic!Next
<1>2. CASE \/ Refresh \/ Encode \/ TakeContext \/ Precompute \/ RefreshPoisoned
           \/ UNCHANGED vars
  <2>1. UNCHANGED <<poisoned, call, serving>>
    BY <1>2 DEF Refresh, Encode, TakeContext, Precompute, RefreshPoisoned, vars
  <2>2. UNCHANGED <<Asked, Answers>>
    BY <2>1 DEF Asked, Answers
  <2> QED BY <2>1, <2>2 DEF Atomic!vars
<1> QED BY <1>1, <1>2, CallStepSeen DEF Next, Rebuild

(***************************************************************************)
(* CallsAreAtomic: AnswersAtOnce, for any number of threads, queries and   *)
(* refreshes.  What EthPirServer takes for one step may be taken for one.  *)
(***************************************************************************)
THEOREM CallsAreAtomic == Spec => AnswersAtOnce
<1>1. Init => Newer
  BY DEF Init, Newer
<1>2. Inductive /\ Newer /\ [Next]_vars =>
        Inductive' /\ Newer' /\ [Atomic!Next]_(Atomic!vars)
  BY StepInductive, NewerStep, StepSeen
<1> QED BY <1>1, <1>2, InitInductive, InitSeen, PTL
        DEF Spec, AnswersAtOnce, Atomic!Spec
=============================================================================
