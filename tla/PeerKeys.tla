------------------------------ MODULE PeerKeys ------------------------------
(***************************************************************************)
(* The WireGuard key pair of a node and the private keys of its peers.     *)
(*                                                                         *)
(* The settings row holds the node's pair.  SettingsRepository::load makes *)
(* the pair up when the row has none, in a SELECT followed by an UPDATE;   *)
(* every handler that needs the settings loads them, and save_settings     *)
(* writes back the whole row it loaded.  create_peer and update_peer give  *)
(* a peer without a key of its own the node's key; the rows another node   *)
(* pushes are stored as they come.  In cluster mode main loads the         *)
(* settings once before the server listens.                                *)
(*                                                                         *)
(* A pair is written by one statement and stands for both of its halves.   *)
(* The other columns of the settings are left out, and so is what follows  *)
(* an edit (see ConfigApply).                                              *)
(***************************************************************************)
EXTENDS Naturals

CONSTANTS
    Call,          \* slots for gRPC calls in flight
    Main,          \* the startup
    Key,           \* key pairs that can be generated
    Own,           \* a key that a client supplies
    NoKey,         \* the empty string
    ClusterMode,   \* a node name is configured
    MaxPeers       \* bound: peers ever created

Proc == Call \cup {Main}
NodeKey == Key \cup {NoKey}
PeerKey == NodeKey \cup {Own}
Row == [id : Nat \ {0}, key : PeerKey, local : BOOLEAN]
Op == {"none", "start", "load", "save", "saved", "create", "update", "push"}
PC == {"idle", "select", "store", "serve", "save", "insert", "write",
       "p_find", "p_insert"}
Request == [op : Op, id : Nat, key : {NoKey, Own}, node : NodeKey]

ASSUME KeyAssumption == Own \notin NodeKey /\ NoKey \notin Key
ASSUME MainAssumption == Main \notin Call
ASSUME ModeAssumption == ClusterMode \in BOOLEAN /\ MaxPeers \in Nat

VARIABLES
    nodeKey,   \* node_wg_private_key and its public half
    peers,     \* the peers table; local: last written by create/update_peer
    lastId,    \* the ids given out so far
    pc,
    loc        \* the request, and the node key its handler has loaded

vars == <<nodeKey, peers, lastId, pc, loc>>

NoCall == [op |-> "none", id |-> 0, key |-> NoKey, node |-> NoKey]

Init ==
    /\ nodeKey = NoKey
    /\ peers = {}
    /\ lastId = 0
    /\ pc = [p \in Proc |-> "idle"]
    /\ loc = [p \in Proc |-> NoCall]

Goto(p, label) == pc' = [pc EXCEPT ![p] = label]

Serving == pc[Main] = "serve"

Accept(c, label, request) ==
    /\ Serving
    /\ pc[c] = "idle"
    /\ Goto(c, label)
    /\ loc' = [loc EXCEPT ![c] = request]

Answer(c) ==
    /\ Goto(c, "idle")
    /\ loc' = [loc EXCEPT ![c] = NoCall]

-----------------------------------------------------------------------------
(* SettingsRepository::load *)

\* Where a handler goes on with the settings it has loaded.
Continue(op) ==
    CASE op = "start" -> "serve"
      [] op = "save" -> "save"
      [] op = "create" -> "insert"
      [] op = "update" -> "write"
      [] OTHER -> "idle"

Loaded(p, k) ==
    /\ Goto(p, Continue(loc[p].op))
    /\ loc' = [loc EXCEPT ![p] =
         IF Continue(@.op) = "idle" THEN NoCall ELSE [@ EXCEPT !.node = k]]

\* generate_keypair never repeats a key.
InUse == {nodeKey} \cup {row.key : row \in peers} \cup {loc[p].node : p \in Proc}

\* Mutant: the pair is made up at every load.
SelectAnew(p) ==
    /\ pc[p] = "select"
    /\ \E k \in Key \ InUse : loc' = [loc EXCEPT ![p].node = k]
    /\ Goto(p, "store")
    /\ UNCHANGED <<nodeKey, peers, lastId>>

Select(p) ==
    /\ pc[p] = "select"
    /\ \/ /\ nodeKey # NoKey
          /\ Loaded(p, nodeKey)
       \/ /\ nodeKey = NoKey
          /\ \E k \in Key \ InUse : loc' = [loc EXCEPT ![p].node = k]
          /\ Goto(p, "store")
    /\ UNCHANGED <<nodeKey, peers, lastId>>

Store(p) ==
    /\ pc[p] = "store"
    /\ nodeKey' = loc[p].node
    /\ Loaded(p, loc[p].node)
    /\ UNCHANGED <<peers, lastId>>

-----------------------------------------------------------------------------
(* The process *)

Start ==
    /\ pc[Main] = "idle"
    /\ Goto(Main, IF ClusterMode THEN "select" ELSE "serve")
    /\ loc' = [loc EXCEPT ![Main].op = "start"]
    /\ UNCHANGED <<nodeKey, peers, lastId>>

Crash ==
    /\ pc[Main] # "idle"
    /\ pc' = [p \in Proc |-> "idle"]
    /\ loc' = [p \in Proc |-> NoCall]
    /\ UNCHANGED <<nodeKey, peers, lastId>>

\* A constraint, the database or the validation refuses the call, or its
\* client goes away.
GiveUp(c) ==
    /\ pc[c] # "idle"
    /\ Answer(c)
    /\ UNCHANGED <<nodeKey, peers, lastId>>

-----------------------------------------------------------------------------
(* Settings *)

\* get_settings, the previews of configurations, an apply, a gossip round.
LoadCall(c) ==
    /\ Accept(c, "select", [NoCall EXCEPT !.op = "load"])
    /\ UNCHANGED <<nodeKey, peers, lastId>>

SaveCall(c) ==
    /\ Accept(c, "select", [NoCall EXCEPT !.op = "save"])
    /\ UNCHANGED <<nodeKey, peers, lastId>>

\* Mutant: the node key is taken from the request, whose form has none.
SaveRequestedKey(c) ==
    /\ pc[c] = "save"
    /\ nodeKey' = loc[c].key
    /\ Goto(c, "select")
    /\ loc' = [loc EXCEPT ![c].op = "saved"]
    /\ UNCHANGED <<peers, lastId>>

\* Every column is written, the key pair with the value that was loaded;
\* then the row is loaded again.
Save(c) ==
    /\ pc[c] = "save"
    /\ nodeKey' = loc[c].node
    /\ Goto(c, "select")
    /\ loc' = [loc EXCEPT ![c].op = "saved"]
    /\ UNCHANGED <<peers, lastId>>

-----------------------------------------------------------------------------
(* Peers of this node *)

\* The web interface always leaves the private key empty.
CreateCall(c) ==
    /\ lastId < MaxPeers
    /\ \E k \in {NoKey, Own} :
         Accept(c, "select", [NoCall EXCEPT !.op = "create", !.key = k])
    /\ UNCHANGED <<nodeKey, peers, lastId>>

UpdateCall(c) ==
    /\ \E row \in peers, k \in {NoKey, Own} :
         Accept(c, "select",
                [NoCall EXCEPT !.op = "update", !.id = row.id, !.key = k])
    /\ UNCHANGED <<nodeKey, peers, lastId>>

\* apply_dn42_defaults
Filled(call) == IF call.key = NoKey THEN call.node ELSE call.key

Insert(c) ==
    /\ pc[c] = "insert"
    /\ lastId < MaxPeers
    /\ lastId' = lastId + 1
    /\ peers' = peers \cup
         {[id |-> lastId', key |-> Filled(loc[c]), local |-> TRUE]}
    /\ Answer(c)
    /\ UNCHANGED nodeKey

\* find_by_id, apply_proto and UPDATE ... WHERE id = ?; the row may be gone.
Write(c) ==
    /\ pc[c] = "write"
    /\ peers' = {IF row.id = loc[c].id
                 THEN [row EXCEPT !.key = Filled(loc[c]), !.local = TRUE]
                 ELSE row : row \in peers}
    /\ Answer(c)
    /\ UNCHANGED <<nodeKey, lastId>>

Delete(c) ==
    /\ Serving
    /\ pc[c] = "idle"
    /\ \E row \in peers : peers' = peers \ {row}
    /\ UNCHANGED <<nodeKey, lastId, pc, loc>>

-----------------------------------------------------------------------------
(* Peers pushed by another node, which proxies a creation (id 0, the empty *)
(* string) or an update, and may do so again when the reply was lost.      *)

PushCall(c) ==
    /\ ClusterMode
    /\ \E id \in 0 .. lastId, k \in {NoKey, Own} :
         Accept(c, "p_find",
                [NoCall EXCEPT !.op = "push", !.id = id, !.key = k])
    /\ UNCHANGED <<nodeKey, peers, lastId>>

\* Mutant: an existing row is overwritten whatever its time stamp.
PushFindOverwriting(c) ==
    /\ pc[c] = "p_find"
    /\ peers' = {IF row.id = loc[c].id THEN [row EXCEPT !.key = loc[c].key]
                                       ELSE row : row \in peers}
    /\ Answer(c)
    /\ UNCHANGED <<nodeKey, lastId>>

\* An existing row is kept: the request's updated_at is the empty string,
\* which is never later than the row's.
PushFind(c) ==
    /\ pc[c] = "p_find"
    /\ \/ /\ \E row \in peers : row.id = loc[c].id
          /\ Answer(c)
       \/ /\ \A row \in peers : row.id # loc[c].id
          /\ Goto(c, "p_insert")
          /\ UNCHANGED loc
    /\ UNCHANGED <<nodeKey, peers, lastId>>

\* Mutant: the row keeps the id of the request.
PushInsertUnderId(c) ==
    /\ pc[c] = "p_insert"
    /\ lastId < MaxPeers
    /\ lastId' = lastId + 1
    /\ peers' = peers \cup
         {[id |-> loc[c].id, key |-> loc[c].key, local |-> FALSE]}
    /\ Answer(c)
    /\ UNCHANGED nodeKey

\* A row that is not found is created under a new id, without defaults.
PushInsert(c) ==
    /\ pc[c] = "p_insert"
    /\ lastId < MaxPeers
    /\ lastId' = lastId + 1
    /\ peers' = peers \cup
         {[id |-> lastId', key |-> loc[c].key, local |-> FALSE]}
    /\ Answer(c)
    /\ UNCHANGED nodeKey

-----------------------------------------------------------------------------
(* Specification *)

Next ==
    \/ Start \/ Crash
    \/ \E p \in Proc : Select(p) \/ Store(p)
    \/ \E c \in Call :
         \/ GiveUp(c)
         \/ LoadCall(c) \/ SaveCall(c) \/ Save(c)
         \/ CreateCall(c) \/ UpdateCall(c) \/ Insert(c) \/ Write(c)
         \/ Delete(c)
         \/ PushCall(c) \/ PushFind(c) \/ PushInsert(c)

Spec == Init /\ [][Next]_vars

-----------------------------------------------------------------------------
(* Properties *)

TypeOK ==
    /\ nodeKey \in NodeKey
    /\ peers \subseteq Row
    /\ lastId \in Nat
    /\ pc \in [Proc -> PC]
    /\ loc \in [Proc -> Request]

\* The node keeps its key pair for life, although every save writes the
\* columns of the pair back and every load may make up a new one.
NodeKeyIsStable == [][nodeKey # NoKey => nodeKey' = nodeKey]_vars

\* All peers that were given a key by the node were given the same one, the
\* one the node has and shows to its neighbours: "one per machine, shared
\* across all interfaces".
PeersShareTheNodeKey == \A row \in peers : row.key \in Key => row.key = nodeKey

\* A peer that was created or edited on its own node has a private key,
\* whatever other nodes push.
LocalPeersHaveAKey == \A row \in peers : row.local => row.key # NoKey

=============================================================================
