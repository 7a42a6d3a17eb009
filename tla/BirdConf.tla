------------------------------ MODULE BirdConf ------------------------------
(***************************************************************************)
(* The BGP sessions of the peers that are written into bird.conf.          *)
(*                                                                         *)
(* Two pieces of code write the whole file from the database: the last     *)
(* part of apply_wg_bird, after an edit, and sync_cluster_bird, after an   *)
(* exchange of node lists.  With community filters on, apply_wg_bird tags  *)
(* what a session exports by rules on the link to the node that hosts the  *)
(* peer, as it was last measured.                                          *)
(*                                                                         *)
(* A write is one step here; how it interleaves with edits and other       *)
(* writes is the subject of ConfigApply.  The head of the file is left     *)
(* out, and so are the sessions between nodes: they need the tunnel        *)
(* address of another node, which no exchange brings (see Cluster).        *)
(***************************************************************************)
EXTENDS Naturals

CONSTANTS
    Peer,        \* peers that may exist
    Node,        \* ids in the nodes table
    Me,          \* the id of this node
    ListenAddr,  \* the listen address of this node
    NoOrigin,    \* a peer without origin_node_id
    Rule,        \* community rules an operator may save
    Link,        \* results of a probe
    NoLink,      \* no probe result
    Mode,        \* how a peer speaks BGP, see ModeType
    NoRow,       \* no such peer
    NoConf,      \* bird.conf was never written
    MaxEdits     \* bound: changes of the database

\* sessions: 0 is v4, 1 is v6, 2 is both.  has: the remote addresses given.
ModeType == [multiprotocol : BOOLEAN, extended_nexthop : BOOLEAN,
             sessions : 0 .. 2, has : SUBSET {"v4", "v6"}]
LinkType == [latency : Nat, loss : Nat]

ASSUME NodeAssumption == Me \in Node /\ ListenAddr \notin Node
ASSUME OriginAssumption == NoOrigin \notin Node \cup {ListenAddr}
ASSUME RuleAssumption ==
    Rule \subseteq [latency : Nat, loss : Nat, bandwidth : Nat, crypto : Nat]
ASSUME LinkAssumption == Link \subseteq LinkType /\ NoLink \notin LinkType
ASSUME ModeAssumption == Mode \subseteq ModeType
ASSUME EditAssumption == MaxEdits \in Nat

Row == [enabled : BOOLEAN, origin : Node \cup {ListenAddr, NoOrigin},
        key : BOOLEAN, mode : Mode]
Session == [peer : Peer, name : {"", "_v4", "_v6"}, to : {"", "v4", "v6"},
            tags : SUBSET Rule]

ASSUME RowAssumption == NoRow \notin Row

VARIABLES
    peers,     \* the peers table
    filters,   \* the setting enable_community_filters
    rules,     \* the enabled community rules
    probes,    \* the latest probe result from this node to each node
    conf,      \* the sessions in bird.conf, NoConf before the first write
    edits      \* how often the database was changed

db == <<peers, filters, rules, probes>>
vars == <<db, conf, edits>>

\* The default of the setting, the seeded rules, and no file.
Init ==
    /\ peers = [p \in Peer |-> NoRow]
    /\ filters = FALSE
    /\ rules = Rule
    /\ probes = [t \in Node |-> NoLink]
    /\ conf = NoConf
    /\ edits = 0

-----------------------------------------------------------------------------
(* Changes of the database *)

Edit == edits < MaxEdits /\ edits' = edits + 1

\* Mutant: an empty origin is stored as such.
CreatePeerRawOrigin(p) ==
    /\ Edit
    /\ peers[p] = NoRow
    /\ \E o \in {"", ListenAddr}, m \in Mode :
         peers' = [peers EXCEPT ![p] =
            [enabled |-> TRUE, origin |-> o, key |-> TRUE, mode |-> m]]
    /\ UNCHANGED <<filters, rules, probes, conf>>

\* create_peer: proxied elsewhere unless the origin is empty or this node's
\* listen address; the node's key is filled in.
CreatePeer(p) ==
    /\ Edit
    /\ peers[p] = NoRow
    /\ \E o \in {NoOrigin, ListenAddr}, m \in Mode :
         peers' = [peers EXCEPT ![p] =
            [enabled |-> TRUE, origin |-> o, key |-> TRUE, mode |-> m]]
    /\ UNCHANGED <<filters, rules, probes, conf>>

\* push_peer from a gateway: the origin is a node id, and there is a key
\* only if the request had one.
PushPeer(p) ==
    /\ Edit
    /\ peers[p] = NoRow
    /\ \E o \in Node, k \in BOOLEAN, m \in Mode :
         peers' = [peers EXCEPT ![p] =
            [enabled |-> TRUE, origin |-> o, key |-> k, mode |-> m]]
    /\ UNCHANGED <<filters, rules, probes, conf>>

\* update_peer takes origin and mode from the request.
UpdatePeer(p) ==
    /\ Edit
    /\ peers[p] # NoRow
    /\ \E o \in {NoOrigin, ListenAddr}, m \in Mode :
         peers' = [peers EXCEPT
            ![p] = [@ EXCEPT !.origin = o, !.key = TRUE, !.mode = m]]
    /\ UNCHANGED <<filters, rules, probes, conf>>

TogglePeer(p) ==
    /\ Edit
    /\ peers[p] # NoRow
    /\ peers' = [peers EXCEPT ![p].enabled = ~@]
    /\ UNCHANGED <<filters, rules, probes, conf>>

DeletePeer(p) ==
    /\ Edit
    /\ peers[p] # NoRow
    /\ peers' = [peers EXCEPT ![p] = NoRow]
    /\ UNCHANGED <<filters, rules, probes, conf>>

SaveSettings ==
    /\ Edit
    /\ filters' \in BOOLEAN
    /\ UNCHANGED <<peers, rules, probes, conf>>

\* save_community_rule, enabled: a new rule, or another form of an old one.
SaveRule(r) ==
    /\ Edit
    /\ \E old \in {{}} \cup {{o} : o \in rules} : rules' = (rules \ old) \cup {r}
    /\ UNCHANGED <<peers, filters, probes, conf>>

\* delete_community_rule, or a save that disables the rule.
DropRule(r) ==
    /\ Edit
    /\ rules' = rules \ {r}
    /\ UNCHANGED <<peers, filters, probes, conf>>

\* probe_between this node and t, by the health check or an operator (who may
\* name this node itself), or a result that was pushed.
Probe(t) ==
    /\ Edit
    /\ \E link \in Link : probes' = [probes EXCEPT ![t] = link]
    /\ UNCHANGED <<peers, filters, rules, conf>>

\* Retention deletes results older than seven days: the latest goes last.
ExpireProbes(t) ==
    /\ Edit
    /\ probes[t] # NoLink
    /\ probes' = [probes EXCEPT ![t] = NoLink]
    /\ UNCHANGED <<peers, filters, rules, conf>>

-----------------------------------------------------------------------------
(* Community tags *)

LatestBetween(from, to) ==
    IF from = Me /\ to \in Node THEN probes[to] ELSE NoLink

\* Nothing is measured inside a node.
Perfect == [latency |-> 0, loss |-> 0]

Weight(row) == IF row.key THEN 1 ELSE 0

\* A latency of 0 and a weight of 0 stand for "any".  The bandwidth that a rule
\* demands is not looked at (bw_ok is always true): a probe does not measure it.
Matches(r, link, row) ==
    /\ r.latency = 0 \/ link.latency <= r.latency
    /\ link.loss <= r.loss
    /\ r.crypto = 0 \/ Weight(row) >= r.crypto

\* compute_communities_with_rules.
Communities(row, local) ==
    LET origin == IF row.origin = NoOrigin THEN local ELSE row.origin
        link == IF origin = local THEN Perfect ELSE LatestBetween(local, origin)
    IN  {r \in rules : link # NoLink /\ Matches(r, link, row)}

-----------------------------------------------------------------------------
(* The text *)

\* The neighbour of a multiprotocol session, "" for a session without one.
Neighbor(mode) ==
    CASE mode.extended_nexthop /\ "v6" \in mode.has -> "v6"
      [] ~mode.extended_nexthop /\ "v4" \in mode.has -> "v4"
      [] OTHER -> ""

\* generate_peer_block_with_communities: one session for both families, or
\* one per family that is wanted and has an address.
PeerSessions(p, tags) ==
    LET mode == peers[p].mode
        Of(name, to) == [peer |-> p, name |-> name, to |-> to, tags |-> tags]
    IN  IF mode.multiprotocol
        THEN {Of("", Neighbor(mode))}
        ELSE {s \in {Of("_v4", "v4"), Of("_v6", "v6")} :
                /\ s.to \in mode.has
                /\ mode.sessions = 2
                     \/ mode.sessions = (IF s.to = "v4" THEN 0 ELSE 1)}

Enabled == {p \in Peer : peers[p] # NoRow /\ peers[p].enabled}

\* Mutant: disabled peers are not left out.
FullConfigOfAll(tagsOf) ==
    UNION {PeerSessions(p, tagsOf[p]) : p \in {q \in Peer : peers[q] # NoRow}}

\* The peers' part of generate_full_config.
FullConfig(tagsOf) == UNION {PeerSessions(p, tagsOf[p]) : p \in Enabled}

NoTags == [p \in Peer |-> {}]

\* apply_wg_bird.  A query that fails, for the rules or for a probe, leaves
\* peers untagged and is not reported.  The mapper is given the listen address
\* where it expects a node id, so it finds no probe of any link.
ByApply(failed) ==
    IF filters
    THEN FullConfig([p \in Peer |->
             IF p \notin Enabled \/ p \in failed
             THEN {} ELSE Communities(peers[p], ListenAddr)])
    ELSE FullConfig(NoTags)

\* sync_cluster_bird.
BySync == FullConfig(NoTags)

ApplyBird ==
    /\ \E failed \in SUBSET Peer : conf' = ByApply(failed)
    /\ UNCHANGED <<db, edits>>

SyncBird ==
    /\ conf' = BySync
    /\ UNCHANGED <<db, edits>>

-----------------------------------------------------------------------------
(* Specification *)

Change ==
    \/ \E p \in Peer : \/ CreatePeer(p) \/ PushPeer(p) \/ UpdatePeer(p)
                       \/ TogglePeer(p) \/ DeletePeer(p)
    \/ SaveSettings
    \/ \E r \in Rule : SaveRule(r) \/ DropRule(r)
    \/ \E t \in Node : Probe(t) \/ ExpireProbes(t)

Next == Change \/ ApplyBird \/ SyncBird

Spec == Init /\ [][Next]_vars

-----------------------------------------------------------------------------
(* Properties *)

TypeOK ==
    /\ peers \in [Peer -> Row \cup {NoRow}]
    /\ filters \in BOOLEAN
    /\ rules \subseteq Rule
    /\ probes \in [Node -> Link \cup {NoLink}]
    /\ conf \in {NoConf} \cup SUBSET Session
    /\ edits \in Nat

Wanted(mode) ==
    CASE mode.sessions = 0 -> {"v4"}
      [] mode.sessions = 1 -> {"v6"}
      [] OTHER -> {"v4", "v6"}

Speaks(row) ==
    row.enabled /\ (row.mode.multiprotocol \/ Wanted(row.mode) \cap row.mode.has # {})

\* A peer has a session in a file that is written exactly if it is enabled
\* and has an address for a family it wants (or speaks multiprotocol BGP),
\* never two to the same address, and never one for a single family without
\* an address.
SessionsMatchPeers ==
    [][conf' # conf =>
        /\ {s.peer : s \in conf'} =
              {p \in Peer : peers[p] # NoRow /\ Speaks(peers[p])}
        /\ \A s \in conf' :
              /\ s.name # "" => s.to \in peers[s.peer].mode.has
              /\ \A t \in conf' :
                   s.peer = t.peer /\ s # t => s.to # t.to]_vars

=============================================================================
