------------------------------ MODULE Cluster ------------------------------
(***************************************************************************)
(* How the nodes of a cluster find each other and watch each other.        *)
(*                                                                         *)
(* Every node keeps a table of the nodes it knows, unique by name and by   *)
(* address.  At startup it registers itself, adds its bootstrap peers      *)
(* under made-up names, exchanges node lists with them, makes sure it has  *)
(* a key pair and a tunnel address, and only then serves.  While it serves *)
(* it exchanges lists with peers that its table says are online, checks    *)
(* the health of every node it knows, turns nodes offline that it has not  *)
(* seen for 120 seconds, and lets operators edit every row, its own too.   *)
(*                                                                         *)
(* A node stands for its own listen address.  Nodes call each other at the *)
(* root of an address, where main.rs serves the web page: only a node with *)
(* something in front of it that maps the root to /api answers them.       *)
(* The rewriting of wg-cluster.conf and of bird.conf after an exchange     *)
(* changes no table and is left out here (see ConfigApply for bird.conf).  *)
(***************************************************************************)
EXTENDS Naturals

CONSTANTS
    Node,         \* the configured nodes: their listen addresses
    Elsewhere,    \* addresses where no node listens
    Fronted,      \* the nodes whose services answer at the root
    Boot,         \* peer_nodes: the bootstrap addresses of each node
    NoRow,        \* an address that is not in a table
    Host,         \* host numbers of the tunnel address range
    Typed,        \* bound: the names that operators type
    MaxCrashes,   \* bound: how often a process dies or its database fails it
    MaxEdits      \* bound: how often operators edit a table

Addr == Node \cup Elsewhere

ASSUME FrontAssumption == Fronted \subseteq Node
ASSUME BootAssumption == Boot \in [Node -> SUBSET Addr]
ASSUME HostAssumption == Host \in SUBSET (Nat \ {0})
ASSUME BoundAssumption == MaxCrashes \in Nat /\ MaxEdits \in Nat

\* The configured name of a node, and node-<address>, made up for a bootstrap
\* peer.  Operators may type any of them for any row.
Own(t) == <<"own", t>>
Seed(t) == <<"seed", t>>
Name == {"own", "seed"} \X Addr

Health == {"offline", "online"}
\* A tunnel address, 0 for the empty string.
Address == Host \cup {0}

\* The halves of a key pair are numbers, 0 for the empty string; they belong
\* together when they are equal.
Row == [name : Name, pub : Nat, priv : Nat, ip : Address, health : Health]
Info == [addr : Addr, name : Name, pub : Nat, ip : Address]

ASSUME RowAssumption == NoRow \notin Row
ASSUME TypedAssumption == Typed \subseteq Name

VARIABLES
    nodes,     \* nodes[v][t]: the row of address t in v's table
    pc,        \* what the process of a node is doing
    boot,      \* bootstrap peers still to call, and the list sent to them
    call,      \* the ExchangeNodes call a node has in flight
    streak,    \* fail_streaks[address], counted to the threshold of 2
    crashes,   \* how often a process died or failed to make a tunnel
    edits      \* how often an operator edited a table

vars == <<nodes, pc, boot, call, streak, crashes, edits>>

PC == {"down", "boot", "key", "priv", "ip", "serve"}
\* list: the entries that are still to be merged by the callee, or learned by
\* the caller.
Call == [to : Addr, phase : {"sent", "merging", "replied"}, list : SUBSET Info]
NoCall == [phase |-> "none"]
NoBoot == [todo |-> {}, list |-> {}]

Init ==
    /\ nodes = [v \in Node |-> [t \in Addr |-> NoRow]]
    /\ pc = [v \in Node |-> "down"]
    /\ boot = [v \in Node |-> NoBoot]
    /\ call = [v \in Node |-> NoCall]
    /\ streak = [v \in Node |-> [t \in Addr |-> 0]]
    /\ crashes = 0
    /\ edits = 0

Goto(v, label) == pc' = [pc EXCEPT ![v] = label]

-----------------------------------------------------------------------------
(* The table *)

Known(tbl) == {t \in Addr : tbl[t] # NoRow}

\* The addresses of the rows with a name: one at most, names are unique.
Named(tbl, name) == {t \in Known(tbl) : tbl[t].name = name}

NewRow(name) ==
    [name |-> name, pub |-> 0, priv |-> 0, ip |-> 0, health |-> "offline"]

\* NodeRepository::create, which fails if the name or the address is taken.
Created(tbl, name, t) ==
    IF tbl[t] # NoRow \/ Named(tbl, name) # {}
    THEN tbl ELSE [tbl EXCEPT ![t] = NewRow(name)]

\* The row of address s becomes row at address t.  The statement fails if
\* another row has that address.
Moved(tbl, s, t, row) ==
    IF t # s /\ tbl[t] # NoRow
    THEN tbl
    ELSE [u \in Addr |-> IF u = t THEN row ELSE IF u = s THEN NoRow ELSE tbl[u]]

\* The list a requester sends: names and addresses, no tunnel fields.
ListOf(tbl) ==
    {[addr |-> t, name |-> tbl[t].name, pub |-> 0, ip |-> 0] : t \in Known(tbl)}

\* The reply does carry them.
ReplyOf(tbl) ==
    {[addr |-> t, name |-> tbl[t].name, pub |-> tbl[t].pub, ip |-> tbl[t].ip] :
        t \in Known(tbl)}

-----------------------------------------------------------------------------
(* Startup *)

\* upsert_self: conflicts on the address, keeps everything but the name.
UpsertSelf(tbl, v) ==
    [tbl EXCEPT ![v] = IF @ = NoRow THEN NewRow(Own(v))
                                    ELSE [@ EXCEPT !.name = Own(v)]]

SeedPeers(tbl, seeds) ==
    [t \in Addr |-> IF t \in seeds THEN Created(tbl, Seed(t), t)[t] ELSE tbl[t]]

\* A name that another row has makes upsert_self fail, and the process exits.
\* The list for the bootstrap peers is built once, before the first call.
Start(v) ==
    /\ pc[v] = "down"
    /\ Named(nodes[v], Own(v)) \subseteq {v}
    /\ nodes' = [nodes EXCEPT ![v] = SeedPeers(UpsertSelf(@, v), Boot[v])]
    /\ boot' = [boot EXCEPT ![v] =
                  [todo |-> Boot[v] \ {v}, list |-> ListOf(nodes'[v])]]
    /\ Goto(v, "boot")
    /\ UNCHANGED <<call, streak, crashes, edits>>

BootCall(v) ==
    /\ pc[v] = "boot"
    /\ call[v] = NoCall
    /\ \E t \in boot[v].todo :
         /\ call' = [call EXCEPT ![v] =
                       [to |-> t, phase |-> "sent", list |-> boot[v].list]]
         /\ boot' = [boot EXCEPT ![v].todo = @ \ {t}]
    /\ UNCHANGED <<nodes, pc, streak, crashes, edits>>

BootDone(v) ==
    /\ pc[v] = "boot"
    /\ call[v] = NoCall
    /\ boot[v].todo = {}
    /\ boot' = [boot EXCEPT ![v] = NoBoot]
    /\ Goto(v, "key")
    /\ UNCHANGED <<nodes, call, streak, crashes, edits>>

\* Mutant: only the public key is looked at.
FindKeyByPublicOnly(v) ==
    /\ pc[v] = "key"
    /\ IF nodes[v][v].pub = 0
       THEN nodes' = [nodes EXCEPT ![v][v].pub = crashes + 1] /\ Goto(v, "priv")
       ELSE UNCHANGED nodes /\ Goto(v, "ip")
    /\ UNCHANGED <<boot, call, streak, crashes, edits>>

\* init_local_node: a key pair that is complete is kept, else a new one is
\* generated and its halves are stored one after the other.
FindKey(v) ==
    /\ pc[v] = "key"
    /\ IF nodes[v][v].pub = 0 \/ nodes[v][v].priv = 0
       THEN nodes' = [nodes EXCEPT ![v][v].pub = crashes + 1] /\ Goto(v, "priv")
       ELSE UNCHANGED nodes /\ Goto(v, "ip")
    /\ UNCHANGED <<boot, call, streak, crashes, edits>>

StorePrivateKey(v) ==
    /\ pc[v] = "priv"
    /\ nodes' = [nodes EXCEPT ![v][v].priv = nodes[v][v].pub]
    /\ Goto(v, "ip")
    /\ UNCHANGED <<boot, call, streak, crashes, edits>>

\* Mutant: only the addresses of nodes that are online count as used.
UsedIpsOnline(tbl) ==
    {tbl[t].ip : t \in {s \in Known(tbl) : tbl[s].health # "offline"}}

UsedIps(tbl) == {tbl[t].ip : t \in Known(tbl)}

\* assign_tunnel_ip: the first address of the range no known node has (the
\* IPv6 address is chosen the same way and left out).
FirstUnused(tbl) ==
    LET First(i) == /\ i \notin UsedIps(tbl)
                    /\ \A j \in Host : j < i => j \in UsedIps(tbl)
    IN  IF \E i \in Host : First(i) THEN CHOOSE i \in Host : First(i) ELSE 0

\* A missing address is assigned, the tasks are spawned and the server
\* listens.
AssignIp(v) ==
    /\ pc[v] = "ip"
    /\ nodes' = [nodes EXCEPT ![v][v].ip =
                   IF @ = 0 THEN FirstUnused(nodes[v]) ELSE @]
    /\ Goto(v, "serve")
    /\ UNCHANGED <<boot, call, streak, crashes, edits>>

-----------------------------------------------------------------------------
(* Exchanging node lists *)

Online(row) == row # NoRow /\ row.health # "offline"

\* A call to the address finds the services of a node that is up.
Answers(t) == t \in Fronted /\ pc[t] = "serve"

\* The anti-entropy task calls a random node that is online in its table.
Gossip(v, t) ==
    /\ pc[v] = "serve"
    /\ call[v] = NoCall
    /\ t # v
    /\ Online(nodes[v][t])
    /\ call' = [call EXCEPT ![v] =
                  [to |-> t, phase |-> "sent", list |-> ListOf(nodes[v])]]
    /\ UNCHANGED <<nodes, pc, boot, streak, crashes, edits>>

\* Tunnel fields that the caller did not leave empty are stored.
Told(row, i) ==
    [row EXCEPT !.pub = IF i.pub # 0 THEN i.pub ELSE @,
                !.ip = IF i.ip # 0 THEN i.ip ELSE @]

\* Mutant: upsert by listen_addr.
UpsertedByAddress(tbl, i) ==
    [tbl EXCEPT ![i.addr] =
        IF @ = NoRow THEN Told(NewRow(i.name), i)
                     ELSE Told([@ EXCEPT !.name = i.name], i)]

\* Mutant: INSERT OR REPLACE.
UpsertedByReplace(tbl, i) ==
    [t \in Addr |-> IF t = i.addr THEN Told(NewRow(i.name), i)
                    ELSE IF t \in Named(tbl, i.name) THEN NoRow ELSE tbl[t]]

\* upsert_by_name: the row with the name gets the address that is sent with
\* it, and a row that holds the address under another name makes the statement
\* fail.
Upserted(tbl, i) ==
    IF Named(tbl, i.name) = {}
    THEN IF tbl[i.addr] # NoRow
         THEN tbl ELSE [tbl EXCEPT ![i.addr] = Told(NewRow(i.name), i)]
    ELSE LET s == CHOOSE s \in Addr : s \in Named(tbl, i.name)
         IN  Moved(tbl, s, i.addr, Told(tbl[s], i))

\* exchange_nodes at the callee merges the list entry by entry (in the order
\* of their names, which can be any) ...
Merge(v) ==
    /\ call[v].phase \in {"sent", "merging"}
    /\ LET t == call[v].to IN
         /\ Answers(t)
         /\ \E i \in call[v].list :
              /\ nodes' = [nodes EXCEPT ![t] = Upserted(@, i)]
              /\ call' = [call EXCEPT ![v] =
                            [to |-> t, phase |-> "merging", list |-> @.list \ {i}]]
    /\ UNCHANGED <<pc, boot, streak, crashes, edits>>

\* ... and replies with its own list.
Reply(v) ==
    /\ call[v].phase \in {"sent", "merging"}
    /\ call[v].list = {}
    /\ Answers(call[v].to)
    /\ call' = [call EXCEPT ![v] =
                  [to |-> @.to, phase |-> "replied", list |-> ReplyOf(nodes[@.to])]]
    /\ UNCHANGED <<nodes, pc, boot, streak, crashes, edits>>

\* What is at address t after the nodes of a reply were created that were
\* unknown; they differ in name and address, so in any order.
Learned(tbl, list, t) ==
    IF \E i \in list : i.addr = t
    THEN Created(tbl, (CHOOSE i \in list : i.addr = t).name, t)[t]
    ELSE tbl[t]

\* The caller creates the nodes of the reply that it does not know, without
\* their tunnel fields.
Learn(v) ==
    /\ call[v].phase = "replied"
    /\ nodes' = [nodes EXCEPT ![v] = [t \in Addr |->
                   IF t = v THEN @[t] ELSE Learned(@, call[v].list, t)]]
    /\ call' = [call EXCEPT ![v] = NoCall]
    /\ UNCHANGED <<pc, boot, streak, crashes, edits>>

\* Nobody listens at the address, or the web page answers.
Refused(v) ==
    /\ call[v].phase = "sent"
    /\ ~Answers(call[v].to)
    /\ call' = [call EXCEPT ![v] = NoCall]
    /\ UNCHANGED <<nodes, pc, boot, streak, crashes, edits>>

-----------------------------------------------------------------------------
(* Health *)

\* The check gets no answer.  The second failure in a row turns the node
\* offline, if the database lets it.
Unhealthy(v, t) ==
    /\ streak' = [streak EXCEPT ![v][t] = IF @ < 2 THEN @ + 1 ELSE @]
    /\ \/ UNCHANGED nodes
       \/ /\ streak[v][t] = 1
          /\ nodes' = [nodes EXCEPT ![v][t].health = "offline"]

\* The check is answered.  The node turns online only when it had failed
\* twice in a row; the count is reset even when the database did not store
\* that.
Healthy(v, t) ==
    /\ streak' = [streak EXCEPT ![v][t] = 0]
    /\ \/ streak[v][t] < 2 /\ UNCHANGED nodes
       \/ streak[v][t] = 2 /\ nodes' = [nodes EXCEPT ![v][t].health = "online"]

\* The health check visits every row but the one with the node's name.
Visits(v, t) ==
    /\ pc[v] = "serve"
    /\ nodes[v][t] # NoRow
    /\ nodes[v][t].name # Own(v)

Check(v, t) ==
    /\ Visits(v, t)
    /\ IF Answers(t) THEN Healthy(v, t) ELSE Unhealthy(v, t)
    /\ UNCHANGED <<pc, boot, call, crashes, edits>>

\* Mutant: the cleanup runs once, before the node serves.
StaleCleanupAtStart(v, t) ==
    /\ pc[v] = "boot"
    /\ Online(nodes[v][t])
    /\ nodes' = [nodes EXCEPT ![v][t].health = "offline"]
    /\ UNCHANGED <<pc, boot, call, streak, crashes, edits>>

\* mark_stale(120): an online row that was not marked online for 120 seconds
\* turns offline.  One row per step; how long ago the mark was is left open.
StaleCleanup(v, t) ==
    /\ pc[v] = "serve"
    /\ Online(nodes[v][t])
    /\ nodes' = [nodes EXCEPT ![v][t].health = "offline"]
    /\ UNCHANGED <<pc, boot, call, streak, crashes, edits>>

-----------------------------------------------------------------------------
(* Operators *)

\* A request that reaches the table of a node that serves.
Edits(v) ==
    /\ pc[v] = "serve"
    /\ edits < MaxEdits
    /\ edits' = edits + 1
    /\ UNCHANGED <<pc, boot, call, streak, crashes>>

\* Any name that is typed, with any address.
RegisterNode(v, t) ==
    /\ Edits(v)
    /\ \E name \in Typed : nodes' = [nodes EXCEPT ![v] = Created(@, name, t)]

\* Any row, the node's own too, gets any typed name and any address that no
\* other row has; health and tunnel fields go with it.
UpdateNode(v, t) ==
    /\ Edits(v)
    /\ nodes[v][t] # NoRow
    /\ \E name \in Typed, to \in Addr :
         /\ Named(nodes[v], name) \subseteq {t}
         /\ nodes' = [nodes EXCEPT ![v] =
                        Moved(@, t, to, [@[t] EXCEPT !.name = name])]

\* Any row.  The streak stays in the memory of the health check.
DeleteNode(v, t) ==
    /\ Edits(v)
    /\ nodes[v][t] # NoRow
    /\ nodes' = [nodes EXCEPT ![v][t] = NoRow]

-----------------------------------------------------------------------------
(* What can fail *)

\* A request or a reply is lost, or takes longer than two seconds; a callee
\* that is merging stops where it is.
Lost(v) ==
    /\ call[v] # NoCall
    /\ call' = [call EXCEPT ![v] = NoCall]
    /\ UNCHANGED <<nodes, pc, boot, streak, crashes, edits>>

\* A database error in init_local_node: the node serves without a tunnel.
InitFails(v) ==
    /\ pc[v] \in {"key", "priv", "ip"}
    /\ crashes < MaxCrashes
    /\ crashes' = crashes + 1
    /\ Goto(v, "serve")
    /\ UNCHANGED <<nodes, boot, call, streak, edits>>

\* A check of a node that answers fails all the same.
CheckFails(v, t) ==
    /\ Visits(v, t)
    /\ Unhealthy(v, t)
    /\ UNCHANGED <<pc, boot, call, crashes, edits>>

\* mark_online fails; the error is dropped.
MarkOnlineFails(v, t) ==
    /\ Visits(v, t)
    /\ Answers(t)
    /\ streak[v][t] = 2
    /\ streak' = [streak EXCEPT ![v][t] = 0]
    /\ UNCHANGED <<nodes, pc, boot, call, crashes, edits>>

\* Mutant: a dead process still has its call in flight.
CrashKeepsCall(v) ==
    /\ crashes < MaxCrashes
    /\ pc[v] # "down"
    /\ crashes' = crashes + 1
    /\ Goto(v, "down")
    /\ boot' = [boot EXCEPT ![v] = NoBoot]
    /\ streak' = [streak EXCEPT ![v] = [t \in Addr |-> 0]]
    /\ UNCHANGED <<nodes, call, edits>>

MergesAt(w, v) == call[w].phase = "merging" /\ call[w].to = v

\* The process dies, with the calls it makes and those it is merging: tables
\* and files stay.
Crash(v) ==
    /\ crashes < MaxCrashes
    /\ pc[v] # "down"
    /\ crashes' = crashes + 1
    /\ Goto(v, "down")
    /\ boot' = [boot EXCEPT ![v] = NoBoot]
    /\ call' = [w \in Node |->
                  IF w = v \/ MergesAt(w, v) THEN NoCall ELSE call[w]]
    /\ streak' = [streak EXCEPT ![v] = [t \in Addr |-> 0]]
    /\ UNCHANGED <<nodes, edits>>

-----------------------------------------------------------------------------
(* Specifications *)

Startup(v) ==
    \/ BootCall(v) \/ BootDone(v)
    \/ FindKey(v) \/ StorePrivateKey(v) \/ AssignIp(v)

Exchange(v) == Merge(v) \/ Reply(v) \/ Learn(v) \/ Refused(v)

\* The cluster without failures and without operators.
Quiet ==
    \E v \in Node :
        \/ Start(v) \/ Startup(v) \/ Exchange(v)
        \/ \E t \in Addr : Gossip(v, t) \/ Check(v, t) \/ StaleCleanup(v, t)

Edit ==
    \E v \in Node, t \in Addr :
        RegisterNode(v, t) \/ UpdateNode(v, t) \/ DeleteNode(v, t)

Fault ==
    \E v \in Node :
        \/ Lost(v) \/ InitFails(v) \/ Crash(v)
        \/ \E t \in Addr : CheckFails(v, t) \/ MarkOnlineFails(v, t)

Next == Quiet \/ Edit \/ Fault

Spec == Init /\ [][Next]_vars
QuietSpec == Init /\ [][Quiet]_vars

\* Every await returns, every interval ticks, and time passes.
Scheduling ==
    \A v \in Node :
        /\ WF_vars(Startup(v))
        /\ WF_vars(Exchange(v))
        /\ \A t \in Addr : WF_vars(Check(v, t)) /\ WF_vars(StaleCleanup(v, t))

FairSpec == Spec /\ Scheduling

\* Every node is started, and a node that is online again and again is
\* picked for an exchange again and again.
QuietFairSpec ==
    /\ QuietSpec
    /\ Scheduling
    /\ \A v \in Node : WF_vars(Start(v))
    /\ \A v \in Node, t \in Addr : SF_vars(Gossip(v, t))

-----------------------------------------------------------------------------
(* Properties *)

\* Also: a process that is down has no call, no bootstrap list and no memory
\* of failed checks.
TypeOK ==
    /\ nodes \in [Node -> [Addr -> Row \cup {NoRow}]]
    /\ pc \in [Node -> PC]
    /\ boot \in [Node -> [todo : SUBSET Addr, list : SUBSET Info]]
    /\ call \in [Node -> Call \cup {NoCall}]
    /\ streak \in [Node -> [Addr -> 0 .. 2]]
    /\ crashes \in Nat
    /\ edits \in Nat
    /\ \A v \in Node : pc[v] = "down" =>
         /\ call[v] = NoCall
         /\ boot[v] = NoBoot
         /\ streak[v] = [t \in Addr |-> 0]

\* As long as no operator has edited a table of the cluster, a node that is up
\* finds itself in its table under its own name, and one that is down is not
\* kept from starting by a row that has its name, whatever made-up names the
\* others send.  (An operator's edit of one table can take both from another
\* node: upsert_by_name carries it there.)
OwnRowIntact ==
    edits = 0 =>
        \A v \in Node :
            /\ pc[v] # "down" =>
                 nodes[v][v] # NoRow /\ nodes[v][v].name = Own(v)
            /\ Named(nodes[v], Own(v)) \subseteq {v}

Tunnel(row) == row # NoRow /\ row.ip # 0

\* A row that has a tunnel address has a key pair, and its two halves belong
\* together, wherever a startup was interrupted and wherever the row has been
\* moved to since.
TunnelHasKey ==
    \A v \in Node, t \in Addr :
        Tunnel(nodes[v][t]) => /\ nodes[v][t].pub # 0
                              /\ nodes[v][t].priv = nodes[v][t].pub

\* No two rows of a table have the same tunnel address, also after a node's own
\* row was moved away by an edit or an exchange and it has made itself another.
TunnelsDiffer ==
    \A v \in Node : \A s, t \in Known(nodes[v]) :
        nodes[v][s].ip = nodes[v][t].ip => nodes[v][s].ip = 0 \/ s = t

SameTunnel(r, s) == r.pub = s.pub /\ r.priv = s.priv /\ r.ip = s.ip

\* Only DeleteNode takes a tunnel out of a table: through merges, moves,
\* renamings, restarts and failures its key pair and address stay together in
\* some row.
TunnelsStay ==
    [][\A v \in Node, t \in Addr :
          Tunnel(nodes[v][t]) =>
             \/ \E s \in Addr : /\ nodes'[v][s] # NoRow
                               /\ SameTunnel(nodes[v][t], nodes'[v][s])
             \/ DeleteNode(v, t)]_vars

\* Other nodes stop calling a dead node online, even when the database drops
\* the health check's updates, they are restarted themselves, and operators
\* have renamed and moved rows.
DeadNodeEndsOffline ==
    \A v, t \in Node :
        v # t =>
            (<>[](pc[t] = "down" /\ pc[v] = "serve") =>
                <>[]~Online(nodes[v][t]))

-----------------------------------------------------------------------------
(* What a document says and the code does not do *)

OwnIp(v) == IF nodes[v][v] = NoRow THEN 0 ELSE nodes[v][v].ip

\* "If two nodes claim the same IP, the one with lexicographically smaller
\* node_id keeps it, the other re-assigns": in the end all addresses differ.
CollisionsEnd ==
    <>[](\A v, w \in Node :
            v # w /\ OwnIp(v) # 0 => OwnIp(v) # OwnIp(w))

=============================================================================
