------------------------------ MODULE KeywordWire ------------------------------
(***************************************************************************)
(* What travels between KeywordWire (src/server/keyword.rs) and a client's *)
(* directory (src/client.rs): full blobs and tails of the delta.  The      *)
(* envelope of a tail and the checks on it are those of poulpy-pir, as     *)
(* README.md:200-213 describes them to users of this crate.            *)
(***************************************************************************)
EXTENDS KeywordDirectory

SyncMode == [kind : {"full"}] \cup [kind : {"tail"}, from : Nat]

Message ==
  [kind : {"full"}, directory : Directory] \cup
  [kind : {"tail"}, version : Nat, base : 1 .. Capacity,
   start : 0 .. Capacity, keys : Seq(Address)]

\* Variant of ModeFor that trusts a tail to bring any client up to date.
AlwaysTail(directory, version, tailLen) == [kind |-> "tail", from |-> tailLen]

\* sync_mode(client_version, client_tail_len)
ModeFor(directory, version, tailLen) ==
  IF version = directory.version
  THEN [kind |-> "tail", from |-> tailLen]
  ELSE [kind |-> "full"]

Full(directory) == [kind |-> "full", directory |-> directory]

\* tail(have); there is none from beyond the delta.
Tails(directory, have) ==
  { [ kind |-> "tail", version |-> directory.version, base |-> directory.base,
      start |-> n, keys |-> SubSeq(directory.delta, n + 1, Len(directory.delta)) ]
    : n \in {have} \cap (0 .. Len(directory.delta)) }

\* What the call named by a sync mode returns, if it does.
Payloads(directory, mode) ==
  IF mode.kind = "full" THEN {Full(directory)} ELSE Tails(directory, mode.from)

\* Variant of Accepts that leaves out the generation.
AcceptsAnyVersion(directory, tail) ==
  /\ tail.base = directory.base
  /\ tail.start = Len(directory.delta)
  /\ Extended(directory, tail.keys) \in Directory

\* What apply_delta_envelope requires of a tail before it extends the delta.
Accepts(directory, tail) ==
  /\ tail.version = directory.version
  /\ tail.base = directory.base
  /\ tail.start = Len(directory.delta)
  /\ Extended(directory, tail.keys) \in Directory

\* Variant of Applied that applies a tail as it comes.
AppliedUnchecked(directory, m) ==
  IF m.kind = "full" THEN m.directory ELSE Extended(directory, m.keys)

\* try_resync replaces the directory by any other, try_apply_tail may refuse.
Applied(directory, m) ==
  CASE m.kind = "full" -> m.directory
    [] m.kind = "tail" -> IF Accepts(directory, m)
                          THEN Extended(directory, m.keys)
                          ELSE directory
=============================================================================
