----------------------------- MODULE EthPirService -----------------------------
(***************************************************************************)
(* EthPirServer with a client of it (src/client.rs), the keyword wire      *)
(* between the two (src/server/keyword.rs) and lookups answered by a       *)
(* responder (src/server/responder.rs).                                    *)
(*                                                                         *)
(* The client holds a copy of the directory.  It brings the copy up to     *)
(* date with full blobs and tails, which travel over a network that may    *)
(* delay, repeat, reorder and lose them, and resolves addresses with the   *)
(* copy it has.  keyword() borrows the server, so sync_mode, full and tail *)
(* are answered between two calls only; responders answer at any time.     *)
(*                                                                         *)
(* laidOut is a history variable: the directory the served database was    *)
(* laid out by.                                                            *)
(***************************************************************************)
EXTENDS EthPirServer, KeywordWire

CONSTANTS
  LookupAddress,  \* the addresses the client looks up
  NetworkFaults,  \* those that may occur of {"repeat", "lose"}
  MaxInFlight     \* bound: messages on the wire

ASSUME ServiceAssumption ==
  /\ LookupAddress \subseteq Address
  /\ NetworkFaults \subseteq {"repeat", "lose"}
  /\ MaxInFlight \in Nat
  /\ None \notin Record /\ None \notin Directory

VARIABLES
  client,   \* EthPirClient.directory, None before the bootstrap
  mode,     \* the KeywordSyncMode the client was given, None if it used it
  wire,     \* blobs and tails on their way to the client
  lookup,   \* the lookup in progress, None if there is none
  laidOut   \* history: directory when serving was last replaced

serviceVars == <<vars, client, mode, wire, lookup, laidOut>>
-------------------------------------------------------------------------------
ServiceInit ==
  /\ Init
  /\ client = None
  /\ mode = None
  /\ wire = {}
  /\ lookup = None
  /\ laidOut = directory

(***************************************************************************)
(* The server's own steps; the two that replace what is served set laidOut.*)
(***************************************************************************)
ServerStep ==
  /\ \/ ServerRuns /\ UNCHANGED laidOut
     \/ (Install \/ \E map \in UserMap : Restart(map)) /\ laidOut' = directory'
  /\ UNCHANGED <<client, mode, wire, lookup>>

AskMode ==
  /\ step = "idle"
  /\ mode = None
  /\ mode' = IF client = None THEN [kind |-> "full"]
             ELSE ModeFor(directory, client.version, Len(client.delta))
  /\ UNCHANGED <<vars, client, wire, lookup, laidOut>>

\* The call the mode names; a tail from beyond the delta is an error.
Fetch ==
  /\ step = "idle"
  /\ mode # None
  /\ Cardinality(wire) < MaxInFlight
  /\ wire' = wire \cup Payloads(directory, mode)
  /\ mode' = None
  /\ UNCHANGED <<vars, client, lookup, laidOut>>

\* A message arrives, for the last time or not, in any order.
Receive(m) ==
  /\ client' = Applied(client, m)
  /\ wire' = wire \ {m}
  /\ UNCHANGED <<vars, mode, lookup, laidOut>>

ReceiveEarly(m) ==
  /\ "repeat" \in NetworkFaults
  /\ client' = Applied(client, m)
  /\ UNCHANGED <<vars, mode, wire, lookup, laidOut>>

Lose(m) ==
  /\ "lose" \in NetworkFaults
  /\ wire' = wire \ {m}
  /\ UNCHANGED <<vars, client, mode, lookup, laidOut>>

\* A lookup whose query is under way, and one that has its answer.
Asked == [ addr : Address, slot : Slot, response : {None},
           version : Nat, have : Nat ]
Answered == [addr : Address, response : Record, asOf : Value \cup {None}]

(***************************************************************************)
(* A lookup is try_query, a try_respond and try_decrypt.  version and have *)
(* are the client's when it asked, asOf is what was published when the     *)
(* answer was computed.                                                    *)
(***************************************************************************)
Query(a) ==
  /\ client # None
  /\ lookup = None
  /\ lookup' = [ addr |-> a, slot |-> Index(client, a), response |-> None,
                 version |-> client.version, have |-> Len(client.delta) ]
  /\ UNCHANGED <<vars, client, mode, wire, laidOut>>

Respond ==
  /\ lookup # None
  /\ lookup.response = None
  /\ ~poisoned
  /\ \E r \in Responses(lookup.slot) :
       lookup' = [ addr |-> lookup.addr, response |-> r,
                   asOf |-> published[lookup.addr] ]
  /\ UNCHANGED <<vars, client, mode, wire, laidOut>>

\* The answer is decrypted, or query or answer are lost, or it is an error.
EndLookup ==
  /\ lookup # None
  /\ lookup' = None
  /\ UNCHANGED <<vars, client, mode, wire, laidOut>>

ClientStep ==
  \/ AskMode \/ Fetch
  \/ \E m \in wire : Receive(m) \/ ReceiveEarly(m) \/ Lose(m)
  \/ \E a \in LookupAddress : Query(a)
  \/ Respond \/ EndLookup

ServiceNext == ServerStep \/ ClientStep

ServiceSpec == ServiceInit /\ [][ServiceNext]_serviceVars

(***************************************************************************)
(* A client that goes on synchronizing, over a network that does not lose  *)
(* everything, with a server whose calls end.                              *)
(***************************************************************************)
FairServiceSpec ==
  /\ ServiceSpec
  /\ WF_serviceVars(ServerStep /\ step # "idle" /\ step' # step)
  /\ SF_serviceVars(AskMode)
  /\ SF_serviceVars(Fetch)
  /\ SF_serviceVars(\E m \in wire : Receive(m))
-------------------------------------------------------------------------------
(***************************************************************************)
(* ServiceTypeOK: the types of the client's side.  Only a tail the client  *)
(* checks leaves it with a delta that fits and lists no address twice.     *)
(***************************************************************************)
ServiceTypeOK ==
  /\ client \in Directory \cup {None}
  /\ mode \in SyncMode \cup {None}
  /\ wire \subseteq Message
  /\ laidOut \in Directory
  /\ lookup \in Asked \cup Answered \cup {None}

(***************************************************************************)
(* NeverWrongValue: a lookup of an address other than the zero one gives   *)
(* the value it had in the database that answered, or NotInSet; never the  *)
(* value of another address or an older one, however old the directory is  *)
(* that the client resolved it with.                                       *)
(***************************************************************************)
NeverWrongValue ==
  lookup # None =>
    (lookup.response # None /\ lookup.addr \in NonZero =>
       TryDecrypt(lookup.response, lookup.addr) \in {None, lookup.asOf})

(***************************************************************************)
(* ClientFollows: while the process runs on, a client at the version of    *)
(* the server has the server's MPHF and a prefix of its delta, in whatever *)
(* order blobs and tails of one or several generations have reached it.    *)
(***************************************************************************)
Behind(old, new) ==
  /\ old.mphf = new.mphf
  /\ old.base = new.base
  /\ IsPrefix(old.delta, new.delta)

ClientFollows ==
  client # None =>
    (client.version = directory.version => Behind(client, directory))

(***************************************************************************)
(* LookupFindsPublished: while the process runs on, a lookup asked with a  *)
(* directory of the version the served database is laid out by finds the   *)
(* published value, unless the address is in the part of the delta the     *)
(* client did not have: across database swaps between query and answer,    *)
(* index rebuilds under way, and updates not yet published.                *)
(***************************************************************************)
LookupFindsPublished ==
  [][ lookup # None /\ Respond =>
        LET a == lookup.addr
            missing == \E i \in 1 .. Len(laidOut.delta) :
                         i > lookup.have /\ laidOut.delta[i] = a
        IN  lookup.version = laidOut.version /\ published[a] # None
              /\ a \in NonZero /\ ~missing =>
              lookup'.response = RecordOf(a, published[a]) ]_serviceVars

(***************************************************************************)
(* CatchesUp: a client that goes on synchronizing gets past every          *)
(* generation there ever was, however many rebuilds follow; and once index *)
(* rebuilds pause it has the server's directory again and again, whatever  *)
(* was lost, repeated or refused, and whatever of generations gone by      *)
(* still arrives.  The second needs the pause: without it each blob may    *)
(* arrive after the next rebuild.                                          *)
(***************************************************************************)
IndexRebuildsPause ==
  <>[][directory'.version = directory.version]_serviceVars

CatchesUp ==
  /\ \A n \in 0 .. MaxVersion :
       directory.version = n ~> client # None /\ client.version >= n
  /\ IndexRebuildsPause => []<>(client = directory)

(***************************************************************************)
(* TailOnlyWithinGeneration: sync_mode sends a client to the tail only if  *)
(* it has the MPHF of the server.                                          *)
(***************************************************************************)
TailOnlyWithinGeneration ==
  client # None =>
    (ModeFor(directory, client.version, Len(client.delta)).kind = "tail"
       => client.mphf = directory.mphf)
=============================================================================
