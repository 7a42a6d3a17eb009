--------------------------- MODULE ClusterProofs ---------------------------
(***************************************************************************)
(* Proofs about Cluster for every set of nodes, whichever of them answer   *)
(* at the root, every bootstrap configuration, every address range, and    *)
(* every number of crashes and of edits with every name.                   *)
(***************************************************************************)
EXTENDS Cluster, TLAPS

USE BootAssumption, HostAssumption, RowAssumption, TypedAssumption

-----------------------------------------------------------------------------
(* What the operations do to one table *)

Table == [Addr -> Row \cup {NoRow}]

Blank(row) == row.pub = 0 /\ row.priv = 0 /\ row.ip = 0

\* The tunnel fields are kept, and a row that is new has none.
SameRow(r, s) ==
    IF r = NoRow THEN s = NoRow \/ Blank(s) ELSE s # NoRow /\ SameTunnel(r, s)

\* Every row keeps its place and its tunnel fields.
Place(tbl, new) == \A t \in Addr : SameRow(tbl[t], new[t])

\* One row went to an address that had none.
MovedRow(tbl, new, s, t) ==
    /\ s # t
    /\ tbl[s] # NoRow /\ new[t] # NoRow /\ SameTunnel(tbl[s], new[t])
    /\ tbl[t] = NoRow /\ new[s] = NoRow
    /\ \A u \in Addr \ {s, t} : new[u] = tbl[u]

\* One of the two.
Carried(tbl, new) == Place(tbl, new) \/ \E s, t \in Addr : MovedRow(tbl, new, s, t)

LEMMA PlaceSame ==
  ASSUME NEW tbl \in Table
  PROVE  Place(tbl, tbl)
  BY DEF Place, SameRow, SameTunnel, Blank

\* A row that is inserted is a row without tunnel, and is seen to be there.
LEMMA NewRowTyped ==
  ASSUME NEW name \in Name
  PROVE  /\ NewRow(name) \in Row /\ NewRow(name) # NoRow
         /\ NewRow(name).name = name /\ Blank(NewRow(name))
  BY DEF NewRow, Row, Health, Address, Blank

\* Changing a name or the health changes nothing else.
LEMMA NameChanged ==
  ASSUME NEW row \in Row, NEW name \in Name
  PROVE  /\ [row EXCEPT !.name = name] \in Row
         /\ [row EXCEPT !.name = name] # NoRow
         /\ [row EXCEPT !.name = name].name = name
         /\ SameTunnel(row, [row EXCEPT !.name = name])
  BY DEF Row, SameTunnel

LEMMA HealthChanged ==
  ASSUME NEW row \in Row, NEW health \in Health
  PROVE  /\ [row EXCEPT !.health = health] \in Row
         /\ [row EXCEPT !.health = health] # NoRow
         /\ [row EXCEPT !.health = health].name = row.name
         /\ SameTunnel(row, [row EXCEPT !.health = health])
  BY DEF Row, SameTunnel

\* An entry without tunnel fields tells nothing.
Empty(i) == i.pub = 0 /\ i.ip = 0

LEMMA ToldNothing ==
  ASSUME NEW row \in Row, NEW i \in Info, Empty(i)
  PROVE  Told(row, i) = row
  BY DEF Told, Empty, Row

LEMMA CreatedStep ==
  ASSUME NEW tbl \in Table, NEW name \in Name, NEW t \in Addr
  PROVE  /\ Created(tbl, name, t) \in Table
         /\ Place(tbl, Created(tbl, name, t))
         /\ \A s \in Addr : tbl[s] # NoRow => Created(tbl, name, t)[s] = tbl[s]
         /\ \A s \in Addr : \/ Created(tbl, name, t)[s] = tbl[s]
                            \/ s = t /\ Created(tbl, name, t)[s] = NewRow(name)
<1>1. CASE tbl[t] # NoRow \/ Named(tbl, name) # {}
  BY <1>1, PlaceSame DEF Created
<1>2. CASE ~(tbl[t] # NoRow \/ Named(tbl, name) # {})
  <2>1. Created(tbl, name, t) = [tbl EXCEPT ![t] = NewRow(name)]
    BY <1>2 DEF Created
  <2>2. NewRow(name) \in Row /\ Blank(NewRow(name))
    BY NewRowTyped
  <2>3. \A s \in Addr : s # t => SameRow(tbl[s], tbl[s])
    BY PlaceSame DEF Place
  <2> QED
    BY <1>2, <2>1, <2>2, <2>3 DEF Table, Place, SameRow
<1> QED
  BY <1>1, <1>2

LEMMA MovedStep ==
  ASSUME NEW tbl \in Table, NEW s \in Addr, NEW t \in Addr, NEW row \in Row,
         tbl[s] # NoRow, SameTunnel(tbl[s], row)
  PROVE  /\ Moved(tbl, s, t, row) \in Table
         /\ Carried(tbl, Moved(tbl, s, t, row))
<1> DEFINE new == Moved(tbl, s, t, row)
<1>1. CASE t # s /\ tbl[t] # NoRow
  BY <1>1, PlaceSame DEF Moved, Carried
<1>2. CASE t = s
  <2>1. new = [u \in Addr |-> IF u = t THEN row ELSE IF u = s THEN NoRow ELSE tbl[u]]
    BY <1>2 DEF Moved
  <2>2. \A u \in Addr : SameRow(tbl[u], tbl[u])
    BY PlaceSame DEF Place
  <2>3. Place(tbl, new)
    BY <1>2, <2>1, <2>2 DEF Place, SameRow
  <2> QED
    BY <2>1, <2>3 DEF Table, Carried
<1>3. CASE t # s /\ tbl[t] = NoRow
  <2>1. new = [u \in Addr |-> IF u = t THEN row ELSE IF u = s THEN NoRow ELSE tbl[u]]
    BY <1>3 DEF Moved
  <2>2. MovedRow(tbl, new, s, t)
    BY <1>3, <2>1 DEF MovedRow
  <2> QED
    BY <2>1, <2>2 DEF Table, Carried
<1> QED
  BY <1>1, <1>2, <1>3

\* The row whose name is sent.
Holder(tbl, name) == CHOOSE s \in Addr : s \in Named(tbl, name)

LEMMA HolderNamed ==
  ASSUME NEW tbl \in Table, NEW name \in Name, Named(tbl, name) # {}
  PROVE  /\ Holder(tbl, name) \in Addr
         /\ tbl[Holder(tbl, name)] \in Row
         /\ tbl[Holder(tbl, name)] # NoRow
         /\ tbl[Holder(tbl, name)].name = name
<1>1. \E s \in Addr : s \in Named(tbl, name)
  BY DEF Named, Known
<1>2. Holder(tbl, name) \in Addr /\ Holder(tbl, name) \in Named(tbl, name)
  BY <1>1 DEF Holder
<1> QED
  BY <1>2 DEF Named, Known, Table

\* Merging an entry without tunnel fields inserts a row or moves one.
LEMMA UpsertedStep ==
  ASSUME NEW tbl \in Table, NEW i \in Info, Empty(i)
  PROVE  /\ Upserted(tbl, i) \in Table
         /\ Carried(tbl, Upserted(tbl, i))
<1>0. i.name \in Name /\ i.addr \in Addr
  BY DEF Info
<1>1. CASE Named(tbl, i.name) = {} /\ tbl[i.addr] # NoRow
  BY <1>1, PlaceSame DEF Upserted, Carried
<1>2. CASE Named(tbl, i.name) = {} /\ tbl[i.addr] = NoRow
  <2>1. NewRow(i.name) \in Row /\ Blank(NewRow(i.name))
    BY <1>0, NewRowTyped
  <2>2. Upserted(tbl, i) = [tbl EXCEPT ![i.addr] = NewRow(i.name)]
    BY <1>2, <2>1, ToldNothing DEF Upserted
  <2>3. \A u \in Addr : SameRow(tbl[u], tbl[u])
    BY PlaceSame DEF Place
  <2>4. Place(tbl, Upserted(tbl, i))
    BY <1>0, <1>2, <2>1, <2>2, <2>3 DEF Place, SameRow, Table
  <2> QED
    BY <1>0, <2>1, <2>2, <2>4 DEF Table, Carried
<1>3. CASE Named(tbl, i.name) # {}
  <2> DEFINE s == Holder(tbl, i.name)
  <2>1. s \in Addr /\ tbl[s] \in Row /\ tbl[s] # NoRow
    BY <1>0, <1>3, HolderNamed
  <2>2. Upserted(tbl, i) = Moved(tbl, s, i.addr, tbl[s])
    BY <1>3, <2>1, ToldNothing DEF Upserted, Holder
  <2>3. SameTunnel(tbl[s], tbl[s])
    BY DEF SameTunnel
  <2> HIDE DEF s
  <2> QED
    BY <1>0, <2>1, <2>2, <2>3, MovedStep
<1> QED
  BY <1>1, <1>2, <1>3

-----------------------------------------------------------------------------
(* Type correctness *)

\* A node that is starting has its own row.
Starting ==
    \A v \in Node :
        pc[v] \in {"boot", "key", "priv", "ip"} => nodes[v][v] # NoRow

\* What is sent has no tunnel fields.
SentEmpty ==
    \A v \in Node :
        /\ \A i \in boot[v].list : Empty(i)
        /\ call[v].phase \in {"sent", "merging"} => \A i \in call[v].list : Empty(i)

Base == TypeOK /\ Starting /\ SentEmpty

\* The conjuncts of TypeOK that are not about tables.
CallsTyped ==
    /\ boot \in [Node -> [todo : SUBSET Addr, list : SUBSET Info]]
    /\ call \in [Node -> Call \cup {NoCall}]
    /\ streak \in [Node -> [Addr -> 0 .. 2]]
    /\ \A v \in Node : pc[v] = "down" =>
         /\ call[v] = NoCall
         /\ boot[v] = NoBoot
         /\ streak[v] = [t \in Addr |-> 0]

ProcessesTyped == pc \in [Node -> PC] /\ crashes \in Nat /\ edits \in Nat

LEMMA TypeParts ==
  TypeOK <=> nodes \in [Node -> Table] /\ CallsTyped /\ ProcessesTyped
  BY DEF TypeOK, Table, CallsTyped, ProcessesTyped

LEMMA BaseAfter ==
  ASSUME nodes' \in [Node -> Table], CallsTyped', ProcessesTyped', Starting', SentEmpty'
  PROVE  Base'
  BY DEF Base, TypeOK, Table, CallsTyped, ProcessesTyped

\* What a step may do to the tables, but for startup and DeleteNode.
CarriedAt(v) ==
    /\ \A u \in Node : u # v => nodes'[u] = nodes[u]
    /\ \/ Place(nodes[v], nodes'[v])
       \/ /\ pc[v] = "serve" /\ pc'[v] = "serve"
          /\ \E s, t \in Addr : MovedRow(nodes[v], nodes'[v], s, t)

LEMMA InitBase == Init => Base
<1> HAVE Init
<1>1. TypeOK
  BY DEF Init, TypeOK, NoBoot, PC
<1>2. Starting /\ SentEmpty
  BY DEF Init, Starting, SentEmpty, NoBoot, NoCall
<1> QED
  BY <1>1, <1>2 DEF Base

LEMMA TableReplaced ==
  ASSUME nodes \in [Node -> Table], NEW v \in Node, NEW new \in Table,
         nodes' = [nodes EXCEPT ![v] = new]
  PROVE  /\ nodes' \in [Node -> Table]
         /\ nodes'[v] = new
         /\ \A u \in Node : u # v => nodes'[u] = nodes[u]
  OBVIOUS

\* A row that keeps its place is still there.
LEMMA PlaceStarting ==
  ASSUME Starting, NEW v \in Node, CarriedAt(v),
         \A u \in Node : pc'[u] \in {"boot", "key", "priv", "ip"} =>
            pc[u] \in {"boot", "key", "priv", "ip"} \/ nodes'[u][u] # NoRow
  PROVE  Starting'
<1> SUFFICES ASSUME NEW u \in Node, pc'[u] \in {"boot", "key", "priv", "ip"},
                    nodes[u][u] # NoRow
             PROVE  nodes'[u][u] # NoRow
  BY DEF Starting
<1>1. CASE u # v
  BY <1>1 DEF CarriedAt
<1>2. CASE u = v
  <2>1. Place(nodes[u], nodes'[u])
    BY <1>2 DEF CarriedAt
  <2> QED
    BY <2>1 DEF Place, SameRow, Addr
<1> QED
  BY <1>1, <1>2

LEMMA ListTyped ==
  ASSUME NEW tbl \in Table
  PROVE  /\ ListOf(tbl) \in SUBSET Info /\ \A i \in ListOf(tbl) : Empty(i)
         /\ ReplyOf(tbl) \in SUBSET Info
  BY DEF ListOf, ReplyOf, Known, Table, Info, Row, Address, Empty

\* A call that is on its way.
LEMMA CallTyped ==
  ASSUME TypeOK, NEW v \in Node, call[v].phase \in {"sent", "merging", "replied"}
  PROVE  /\ call[v] \in Call /\ call[v] # NoCall /\ call[v].to \in Addr
         /\ call[v].list \in SUBSET Info /\ pc[v] # "down"
<1>1. call[v] # NoCall
  BY DEF NoCall
<1>2. call[v] \in Call /\ pc[v] # "down"
  BY <1>1 DEF TypeOK
<1> QED
  BY <1>1, <1>2 DEF Call

LEMMA UpsertSelfStep ==
  ASSUME NEW tbl \in Table, NEW v \in Node
  PROVE  /\ UpsertSelf(tbl, v) \in Table
         /\ Place(tbl, UpsertSelf(tbl, v))
         /\ UpsertSelf(tbl, v)[v] # NoRow /\ UpsertSelf(tbl, v)[v].name = Own(v)
         /\ \A t \in Addr \ {v} : UpsertSelf(tbl, v)[t] = tbl[t]
<1>1. Own(v) \in Name /\ v \in Addr
  BY DEF Own, Name, Addr
<1> DEFINE row == IF tbl[v] = NoRow THEN NewRow(Own(v))
                                     ELSE [tbl[v] EXCEPT !.name = Own(v)]
<1>2. row \in Row /\ row # NoRow /\ row.name = Own(v) /\ SameRow(tbl[v], row)
  BY <1>1, NewRowTyped, NameChanged DEF Table, SameRow
<1>3. UpsertSelf(tbl, v) = [tbl EXCEPT ![v] = row]
  BY DEF UpsertSelf
<1>4. \A t \in Addr : SameRow(tbl[t], tbl[t])
  BY PlaceSame DEF Place
<1> HIDE DEF row
<1> QED
  BY <1>1, <1>2, <1>3, <1>4 DEF Table, Place

LEMMA SeedStep ==
  ASSUME NEW tbl \in Table, NEW seeds \in SUBSET Addr
  PROVE  /\ SeedPeers(tbl, seeds) \in Table
         /\ \A t \in Addr : \/ SeedPeers(tbl, seeds)[t] = tbl[t]
                            \/ /\ tbl[t] = NoRow
                               /\ SeedPeers(tbl, seeds)[t] = NewRow(Seed(t))
<1> SUFFICES ASSUME NEW t \in Addr
             PROVE  /\ SeedPeers(tbl, seeds)[t] \in Row \cup {NoRow}
                    /\ \/ SeedPeers(tbl, seeds)[t] = tbl[t]
                       \/ /\ tbl[t] = NoRow
                          /\ SeedPeers(tbl, seeds)[t] = NewRow(Seed(t))
  BY DEF SeedPeers, Table
<1>1. Seed(t) \in Name
  BY DEF Seed, Name
<1>2. CASE SeedPeers(tbl, seeds)[t] = tbl[t]
  BY <1>2 DEF Table
<1>3. CASE SeedPeers(tbl, seeds)[t] # tbl[t]
  <2>1. SeedPeers(tbl, seeds)[t] = Created(tbl, Seed(t), t)[t]
    BY <1>3 DEF SeedPeers
  <2> QED
    BY <1>1, <1>3, <2>1, CreatedStep, NewRowTyped DEF Table
<1> QED
  BY <1>2, <1>3

\* Two tables that keep every row in its place.
LEMMA PlaceTrans ==
  ASSUME NEW tbl \in Table, NEW mid \in Table, NEW new \in Table,
         Place(tbl, mid),
         \A t \in Addr : \/ new[t] = mid[t]
                         \/ mid[t] = NoRow /\ (new[t] = NoRow \/ Blank(new[t]))
  PROVE  Place(tbl, new)
  BY DEF Place, SameRow, SameTunnel

LEMMA StartStep ==
  ASSUME Base, NEW v \in Node, Start(v)
  PROVE  Base' /\ CarriedAt(v)
<1> DEFINE own == UpsertSelf(nodes[v], v)
           new == SeedPeers(own, Boot[v])
<1>1. nodes \in [Node -> Table] /\ CallsTyped /\ ProcessesTyped /\ nodes[v] \in Table
  BY TypeParts DEF Base
<1>2. own \in Table /\ Place(nodes[v], own) /\ own[v] # NoRow
  BY <1>1, UpsertSelfStep
<1>3. /\ new \in Table
      /\ \A t \in Addr : \/ new[t] = own[t]
                         \/ own[t] = NoRow /\ new[t] = NewRow(Seed(t))
  BY <1>2, SeedStep
<1>4. Place(nodes[v], new)
  <2>1. \A t \in Addr : Blank(NewRow(Seed(t)))
    BY DEF NewRow, Blank
  <2> HIDE DEF own, new
  <2> QED
    BY <1>1, <1>2, <1>3, <2>1, PlaceTrans
<1>5. new[v] # NoRow
  <2>1. v \in Addr
    BY DEF Addr
  <2> HIDE DEF new, own
  <2> QED
    BY <1>2, <1>3, <2>1
<1>6. /\ nodes' = [nodes EXCEPT ![v] = new]
      /\ boot' = [boot EXCEPT ![v] = [todo |-> Boot[v] \ {v}, list |-> ListOf(nodes'[v])]]
      /\ pc' = [pc EXCEPT ![v] = "boot"]
      /\ UNCHANGED <<call, streak, crashes, edits>>
  BY DEF Start, Goto
<1> HIDE DEF new, own
<1>7. /\ nodes' \in [Node -> Table] /\ nodes'[v] = new
      /\ \A u \in Node : u # v => nodes'[u] = nodes[u]
  BY <1>1, <1>3, <1>6, TableReplaced
<1>8. CarriedAt(v)
  BY <1>4, <1>7 DEF CarriedAt
<1>9. ListOf(nodes'[v]) \in SUBSET Info /\ \A i \in ListOf(nodes'[v]) : Empty(i)
  BY <1>3, <1>7, ListTyped
<1>10. CallsTyped'
  <2>1. boot' \in [Node -> [todo : SUBSET Addr, list : SUBSET Info]]
    BY <1>1, <1>6, <1>9 DEF CallsTyped
  <2> QED
    BY <1>1, <1>6, <2>1 DEF CallsTyped, ProcessesTyped
<1>11. ProcessesTyped'
  BY <1>1, <1>6 DEF ProcessesTyped, PC
<1>12. Starting'
  BY <1>1, <1>5, <1>6, <1>7, <1>8, PlaceStarting DEF Base, ProcessesTyped
<1>13. SentEmpty'
  BY <1>1, <1>6, <1>9 DEF Base, SentEmpty, CallsTyped
<1> QED
  BY <1>7, <1>8, <1>10, <1>11, <1>12, <1>13, BaseAfter

LEMMA BootStep ==
  ASSUME Base, NEW v \in Node, BootCall(v) \/ BootDone(v)
  PROVE  Base' /\ UNCHANGED nodes
<1>1. nodes \in [Node -> Table] /\ CallsTyped /\ ProcessesTyped
  BY TypeParts DEF Base
<1>2. boot[v] \in [todo : SUBSET Addr, list : SUBSET Info]
  BY <1>1 DEF CallsTyped
<1>3. CASE BootCall(v)
  <2>1. PICK t \in boot[v].todo :
          /\ call' = [call EXCEPT ![v] =
                        [to |-> t, phase |-> "sent", list |-> boot[v].list]]
          /\ boot' = [boot EXCEPT ![v].todo = @ \ {t}]
    BY <1>3 DEF BootCall
  <2>2. [to |-> t, phase |-> "sent", list |-> boot[v].list] \in Call
    BY <1>2, <2>1 DEF Call
  <2>3. call' \in [Node -> Call \cup {NoCall}]
    BY <1>1, <2>1, <2>2 DEF CallsTyped
  <2>4. boot' \in [Node -> [todo : SUBSET Addr, list : SUBSET Info]]
    BY <1>1, <1>2, <2>1 DEF CallsTyped
  <2>5. UNCHANGED <<nodes, pc, streak, crashes, edits>> /\ pc[v] = "boot"
    BY <1>3 DEF BootCall
  <2>6. CallsTyped'
    BY <1>1, <2>1, <2>3, <2>4, <2>5 DEF CallsTyped
  <2>7. SentEmpty'
    BY <1>1, <1>2, <2>1 DEF Base, SentEmpty, CallsTyped
  <2> QED
    BY <1>1, <2>5, <2>6, <2>7, BaseAfter DEF Base, Starting, ProcessesTyped
<1>4. CASE BootDone(v)
  <2>1. CallsTyped'
    BY <1>1, <1>4 DEF BootDone, Goto, CallsTyped, NoBoot, ProcessesTyped
  <2>2. ProcessesTyped'
    BY <1>1, <1>4 DEF BootDone, Goto, ProcessesTyped, PC
  <2>3. Starting'
    BY <1>1, <1>4 DEF BootDone, Goto, ProcessesTyped, Base, Starting
  <2>4. SentEmpty'
    BY <1>1, <1>4 DEF BootDone, CallsTyped, Base, SentEmpty, NoBoot
  <2> QED
    BY <1>1, <1>4, <2>1, <2>2, <2>3, <2>4, BaseAfter DEF BootDone
<1> QED
  BY <1>3, <1>4

\* init_local_node changes the node's own row only.
OwnRowAt(v, row) ==
    /\ nodes' = [nodes EXCEPT ![v][v] = row]
    /\ row \in Row /\ row.name = nodes[v][v].name

LEMMA OwnRowReplaced ==
  ASSUME nodes \in [Node -> Table], NEW v \in Node, NEW row, OwnRowAt(v, row)
  PROVE  /\ nodes' \in [Node -> Table]
         /\ nodes'[v][v] = row /\ row # NoRow
         /\ \A u \in Node : u # v => nodes'[u] = nodes[u]
         /\ \A t \in Addr : t # v => nodes'[v][t] = nodes[v][t]
  BY DEF OwnRowAt, Table, Addr

LEMMA TunnelStep ==
  ASSUME Base, NEW v \in Node, FindKey(v) \/ StorePrivateKey(v) \/ AssignIp(v)
  PROVE  /\ Base'
         /\ \A u \in Node : u # v => nodes'[u] = nodes[u] /\ pc'[u] = pc[u]
         /\ \A t \in Addr : t # v => nodes'[v][t] = nodes[v][t]
         /\ nodes[v][v] \in Row
         /\ nodes'[v][v] # NoRow /\ nodes'[v][v].name = nodes[v][v].name
<1>1. nodes \in [Node -> Table] /\ CallsTyped /\ ProcessesTyped
  BY TypeParts DEF Base
<1>2. nodes[v][v] \in Row
  BY <1>1 DEF Base, Starting, FindKey, StorePrivateKey, AssignIp, Table, Addr
<1>3. \E row : OwnRowAt(v, row)
  <2>1. crashes + 1 \in Nat
    BY <1>1 DEF ProcessesTyped
  <2>2. [nodes EXCEPT ![v][v] = nodes[v][v]] = nodes
    BY <1>1 DEF Table
  <2>3. CASE FindKey(v)
    <3>1. CASE nodes[v][v].pub = 0 \/ nodes[v][v].priv = 0
      <4> DEFINE row == [nodes[v][v] EXCEPT !.pub = crashes + 1]
      <4>1. nodes' = [nodes EXCEPT ![v][v] = row]
        BY <2>3, <3>1 DEF FindKey
      <4>2. row \in Row /\ row.name = nodes[v][v].name
        BY <1>2, <2>1 DEF Row
      <4> QED
        BY <4>1, <4>2 DEF OwnRowAt
    <3>2. CASE ~(nodes[v][v].pub = 0 \/ nodes[v][v].priv = 0)
      BY <1>2, <2>2, <2>3, <3>2 DEF FindKey, OwnRowAt
    <3> QED
      BY <3>1, <3>2
  <2>4. CASE StorePrivateKey(v)
    <3> DEFINE row == [nodes[v][v] EXCEPT !.priv = nodes[v][v].pub]
    <3>1. nodes' = [nodes EXCEPT ![v][v] = row]
      BY <2>4 DEF StorePrivateKey
    <3>2. row \in Row /\ row.name = nodes[v][v].name
      BY <1>2 DEF Row
    <3> QED
      BY <3>1, <3>2 DEF OwnRowAt
  <2>5. CASE AssignIp(v)
    <3>1. FirstUnused(nodes[v]) \in Address
      BY DEF FirstUnused, Address
    <3> DEFINE ip == IF nodes[v][v].ip = 0 THEN FirstUnused(nodes[v]) ELSE nodes[v][v].ip
               row == [nodes[v][v] EXCEPT !.ip = ip]
    <3>2. ip \in Address
      BY <1>2, <3>1 DEF Row
    <3>3. nodes' = [nodes EXCEPT ![v][v] = row]
      BY <2>5 DEF AssignIp
    <3> HIDE DEF ip
    <3>4. row \in Row /\ row.name = nodes[v][v].name
      BY <1>2, <3>2 DEF Row
    <3> QED
      BY <3>3, <3>4 DEF OwnRowAt
  <2> QED
    BY <2>3, <2>4, <2>5
<1>4. PICK row : OwnRowAt(v, row)
  BY <1>3
<1>5. /\ nodes' \in [Node -> Table]
      /\ nodes'[v][v] # NoRow /\ nodes'[v][v].name = nodes[v][v].name
      /\ \A u \in Node : u # v => nodes'[u] = nodes[u]
      /\ \A t \in Addr : t # v => nodes'[v][t] = nodes[v][t]
  BY <1>1, <1>4, OwnRowReplaced DEF OwnRowAt
<1>6. PICK label \in {"priv", "ip", "serve"} : pc' = [pc EXCEPT ![v] = label]
  BY DEF FindKey, StorePrivateKey, AssignIp, Goto
<1>7. UNCHANGED <<boot, call, streak, crashes, edits>>
  BY DEF FindKey, StorePrivateKey, AssignIp
<1>8. CallsTyped' /\ ProcessesTyped'
  BY <1>1, <1>6, <1>7 DEF CallsTyped, ProcessesTyped, PC
<1>9. Starting'
  BY <1>1, <1>5, <1>6 DEF Base, Starting, ProcessesTyped
<1>10. SentEmpty'
  BY <1>7 DEF Base, SentEmpty
<1> QED
  BY <1>1, <1>2, <1>5, <1>6, <1>8, <1>9, <1>10, BaseAfter DEF ProcessesTyped

\* A node that serves merges, edits and checks; nothing starts there.
LEMMA ServingStep ==
  ASSUME Base, NEW v \in Node, pc[v] = "serve", NEW new \in Table,
         Carried(nodes[v], new), nodes' = [nodes EXCEPT ![v] = new],
         UNCHANGED pc
  PROVE  nodes' \in [Node -> Table] /\ nodes'[v] = new /\ CarriedAt(v) /\ Starting'
<1>1. nodes \in [Node -> Table] /\ ProcessesTyped
  BY TypeParts DEF Base
<1>2. /\ nodes' \in [Node -> Table] /\ nodes'[v] = new
      /\ \A u \in Node : u # v => nodes'[u] = nodes[u]
  BY <1>1, TableReplaced
<1>3. CarriedAt(v)
  BY <1>2 DEF CarriedAt, Carried
<1>4. Starting'
  BY <1>1, <1>2 DEF Base, Starting
<1> QED
  BY <1>2, <1>3, <1>4

\* A step that leaves tables and processes alone.
LEMMA CallStep ==
  ASSUME Base, CallsTyped', SentEmpty', UNCHANGED <<nodes, pc, crashes, edits>>
  PROVE  Base'
<1>1. nodes \in [Node -> Table] /\ ProcessesTyped
  BY TypeParts DEF Base
<1>2. nodes' \in [Node -> Table] /\ ProcessesTyped' /\ Starting'
  BY <1>1 DEF Base, Starting, ProcessesTyped
<1> QED
  BY <1>2, BaseAfter

\* Replacing the call a node that is up has in flight.
LEMMA CallReplaced ==
  ASSUME Base, NEW v \in Node, pc[v] # "down", NEW c \in Call \cup {NoCall},
         c.phase \in {"sent", "merging"} => \A i \in c.list : Empty(i),
         call' = [call EXCEPT ![v] = c], UNCHANGED <<pc, boot, streak>>
  PROVE  CallsTyped' /\ SentEmpty'
<1>1. CallsTyped /\ SentEmpty
  BY TypeParts DEF Base
<1>2. call' \in [Node -> Call \cup {NoCall}]
  BY <1>1 DEF CallsTyped
<1>3. \A u \in Node : call'[u] = IF u = v THEN c ELSE call[u]
  BY <1>1 DEF CallsTyped
<1>4. CallsTyped'
  BY <1>1, <1>2, <1>3 DEF CallsTyped
<1>5. SentEmpty'
  BY <1>1, <1>3 DEF SentEmpty
<1> QED
  BY <1>4, <1>5

LEMMA GossipStep ==
  ASSUME Base, NEW v \in Node, NEW t \in Addr, Gossip(v, t)
  PROVE  Base' /\ UNCHANGED nodes
<1> DEFINE c == [to |-> t, phase |-> "sent", list |-> ListOf(nodes[v])]
<1>1. nodes[v] \in Table
  BY TypeParts DEF Base
<1>2. ListOf(nodes[v]) \in SUBSET Info /\ \A i \in ListOf(nodes[v]) : Empty(i)
  BY <1>1, ListTyped
<1>3. c \in Call /\ \A i \in c.list : Empty(i)
  BY <1>2 DEF Call
<1>4. call' = [call EXCEPT ![v] = c] /\ pc[v] # "down"
      /\ UNCHANGED <<nodes, pc, boot, streak, crashes, edits>>
  BY DEF Gossip
<1> HIDE DEF c
<1>5. CallsTyped' /\ SentEmpty'
  BY <1>3, <1>4, CallReplaced
<1> QED
  BY <1>4, <1>5, CallStep

LEMMA MergeStep ==
  ASSUME Base, NEW v \in Node, Merge(v)
  PROVE  /\ Base' /\ call[v].to \in Node /\ CarriedAt(call[v].to)
         /\ pc[call[v].to] = "serve"
<1>1. /\ call[v].phase \in {"sent", "merging"}
      /\ call[v].to \in Fronted /\ pc[call[v].to] = "serve"
      /\ UNCHANGED <<pc, boot, streak, crashes, edits>>
  BY DEF Merge, Answers
<1>2. /\ call[v] \in Call /\ call[v].list \in SUBSET Info /\ pc[v] # "down"
      /\ call[v].to \in Node
  BY <1>1, CallTyped, FrontAssumption DEF Base
<1>3. PICK i \in call[v].list :
        /\ nodes' = [nodes EXCEPT ![call[v].to] = Upserted(@, i)]
        /\ call' = [call EXCEPT ![v] = [to |-> call[v].to, phase |-> "merging",
                                        list |-> call[v].list \ {i}]]
  BY DEF Merge
<1> DEFINE t == call[v].to
           c == [to |-> t, phase |-> "merging", list |-> call[v].list \ {i}]
<1>4. i \in Info /\ Empty(i)
  BY <1>1, <1>2, <1>3 DEF Base, SentEmpty
<1>5. nodes \in [Node -> Table] /\ ProcessesTyped /\ nodes[t] \in Table /\ CallsTyped
  BY <1>2, TypeParts DEF Base
<1>6. Upserted(nodes[t], i) \in Table /\ Carried(nodes[t], Upserted(nodes[t], i))
  BY <1>4, <1>5, UpsertedStep
<1>7. nodes' = [nodes EXCEPT ![t] = Upserted(nodes[t], i)]
  BY <1>3
<1>8. call' = [call EXCEPT ![v] = c]
  BY <1>3
<1>9. c \in Call /\ \A j \in c.list : Empty(j)
  BY <1>1, <1>2 DEF Call, Base, SentEmpty
<1> HIDE DEF c, t
<1>10. CallsTyped' /\ SentEmpty'
  BY <1>1, <1>2, <1>8, <1>9, CallReplaced
<1>11. t \in Node /\ pc[t] = "serve"
  BY <1>1, <1>2 DEF t
<1>12. nodes' \in [Node -> Table] /\ CarriedAt(t) /\ Starting'
  BY <1>1, <1>6, <1>7, <1>11, ServingStep
<1>13. ProcessesTyped'
  BY <1>1, <1>5 DEF ProcessesTyped
<1> QED
  BY <1>1, <1>2, <1>10, <1>12, <1>13, BaseAfter DEF t

LEMMA ReplyStep ==
  ASSUME Base, NEW v \in Node, Reply(v)
  PROVE  Base' /\ UNCHANGED nodes /\ call[v].to \in Node
<1>1. /\ call[v].phase \in {"sent", "merging"} /\ call[v].to \in Fronted
      /\ UNCHANGED <<nodes, pc, boot, streak, crashes, edits>>
      /\ call' = [call EXCEPT ![v] = [to |-> call[v].to, phase |-> "replied",
                                      list |-> ReplyOf(nodes[call[v].to])]]
  BY DEF Reply, Answers
<1>2. call[v] \in Call /\ pc[v] # "down" /\ call[v].to \in Node
  BY <1>1, CallTyped, FrontAssumption DEF Base
<1>3. nodes \in [Node -> Table] /\ CallsTyped
  BY TypeParts DEF Base
<1> DEFINE c == [to |-> call[v].to, phase |-> "replied", list |-> ReplyOf(nodes[call[v].to])]
<1>4. c \in Call
  BY <1>2, <1>3, ListTyped DEF Call, Addr
<1>5. call' = [call EXCEPT ![v] = c]
  BY <1>1
<1>6. c.phase = "replied"
  OBVIOUS
<1> HIDE DEF c
<1>7. CallsTyped' /\ SentEmpty'
  BY <1>1, <1>2, <1>4, <1>5, <1>6, CallReplaced
<1> QED
  BY <1>1, <1>2, <1>7, CallStep

\* A row that is learned is new and empty.
LEMMA LearnedStep ==
  ASSUME NEW tbl \in Table, NEW list \in SUBSET Info, NEW t \in Addr
  PROVE  \/ Learned(tbl, list, t) = tbl[t]
         \/ /\ tbl[t] = NoRow
            /\ \E i \in list : i.addr = t /\ Learned(tbl, list, t) = NewRow(i.name)
<1>1. CASE ~\E i \in list : i.addr = t
  BY <1>1 DEF Learned
<1>2. CASE \E i \in list : i.addr = t
  <2> DEFINE i == CHOOSE i \in list : i.addr = t
  <2>1. i \in list /\ i.addr = t
    BY <1>2
  <2>2. Learned(tbl, list, t) = Created(tbl, i.name, t)[t]
    BY <1>2 DEF Learned
  <2>3. i.name \in Name
    BY <2>1 DEF Info
  <2> HIDE DEF i
  <2>4. \/ Created(tbl, i.name, t)[t] = tbl[t]
        \/ tbl[t] = NoRow /\ Created(tbl, i.name, t)[t] = NewRow(i.name)
    BY <2>3, CreatedStep
  <2> QED
    BY <2>1, <2>2, <2>4
<1> QED
  BY <1>1, <1>2

LEMMA LearnStep ==
  ASSUME Base, NEW v \in Node, Learn(v)
  PROVE  Base' /\ CarriedAt(v) /\ Place(nodes[v], nodes'[v])
<1> DEFINE new == [t \in Addr |-> IF t = v THEN nodes[v][t]
                                  ELSE Learned(nodes[v], call[v].list, t)]
<1>1. /\ call[v].phase = "replied"
      /\ nodes' = [nodes EXCEPT ![v] = new]
      /\ call' = [call EXCEPT ![v] = NoCall]
      /\ UNCHANGED <<pc, boot, streak, crashes, edits>>
  BY DEF Learn
<1>2. call[v].list \in SUBSET Info /\ pc[v] # "down"
  BY <1>1, CallTyped DEF Base
<1>3. nodes \in [Node -> Table] /\ ProcessesTyped /\ nodes[v] \in Table
  BY TypeParts DEF Base
<1>4. \A t \in Addr : \/ new[t] = nodes[v][t]
                      \/ /\ nodes[v][t] = NoRow
                         /\ \E i \in call[v].list : new[t] = NewRow(i.name)
  BY <1>2, <1>3, LearnedStep
<1>5. \A i \in call[v].list : NewRow(i.name) \in Row /\ Blank(NewRow(i.name))
  BY <1>2, NewRowTyped DEF Info
<1>6. new \in Table
  <2>1. \A t \in Addr : new[t] \in Row \cup {NoRow}
    BY <1>3, <1>4, <1>5 DEF Table
  <2> QED
    BY <2>1 DEF Table
<1> HIDE DEF new
<1>7. Place(nodes[v], new)
  BY <1>3, <1>4, <1>5, <1>6, PlaceSame, PlaceTrans
<1>8. /\ nodes' \in [Node -> Table] /\ nodes'[v] = new
      /\ \A u \in Node : u # v => nodes'[u] = nodes[u]
  BY <1>1, <1>3, <1>6, TableReplaced
<1>9. CarriedAt(v)
  BY <1>7, <1>8 DEF CarriedAt
<1>10. Starting'
  BY <1>1, <1>9, PlaceStarting DEF Base
<1>11. CallsTyped' /\ SentEmpty'
  <2>1. NoCall.phase \notin {"sent", "merging"}
    BY DEF NoCall
  <2> QED
    BY <1>1, <1>2, <2>1, CallReplaced
<1>12. ProcessesTyped'
  BY <1>1, <1>3 DEF ProcessesTyped
<1> QED
  BY <1>7, <1>8, <1>9, <1>10, <1>11, <1>12, BaseAfter

LEMMA EndedStep ==
  ASSUME Base, NEW v \in Node, Refused(v) \/ Lost(v)
  PROVE  Base' /\ UNCHANGED nodes
<1>1. /\ call' = [call EXCEPT ![v] = NoCall]
      /\ UNCHANGED <<nodes, pc, boot, streak, crashes, edits>>
  BY DEF Refused, Lost
<1>2. pc[v] # "down"
  <2>1. CASE Refused(v)
    BY <2>1, CallTyped DEF Base, Refused
  <2>2. CASE Lost(v)
    BY <2>2 DEF Base, Lost, TypeOK
  <2> QED
    BY <2>1, <2>2
<1>3. NoCall.phase \notin {"sent", "merging"}
  BY DEF NoCall
<1>4. CallsTyped' /\ SentEmpty'
  BY <1>1, <1>2, <1>3, CallReplaced
<1> QED
  BY <1>1, <1>4, CallStep

\* A step that changes nothing of the tables but the health of one row.
Marks(v, t, health) ==
    /\ nodes[v][t] # NoRow
    /\ nodes' = [nodes EXCEPT ![v][t].health = health]

LEMMA MarksStep ==
  ASSUME Base, NEW v \in Node, NEW t \in Addr, NEW health \in Health,
         Marks(v, t, health), UNCHANGED pc
  PROVE  /\ nodes' \in [Node -> Table] /\ CarriedAt(v) /\ Starting'
         /\ \A u \in Node, s \in Addr : nodes[u][s] # NoRow =>
               nodes'[u][s] # NoRow /\ nodes'[u][s].name = nodes[u][s].name
         /\ \A u \in Node, s \in Addr : nodes[u][s] = NoRow => nodes'[u][s] = NoRow
<1> DEFINE row == [nodes[v][t] EXCEPT !.health = health]
           new == [nodes[v] EXCEPT ![t] = row]
<1>1. nodes \in [Node -> Table] /\ nodes[v] \in Table
  BY TypeParts DEF Base
<1>2. nodes[v][t] \in Row
  BY <1>1 DEF Marks, Table
<1>3. /\ row \in Row /\ row # NoRow /\ row.name = nodes[v][t].name
      /\ SameTunnel(nodes[v][t], row)
  BY <1>2, HealthChanged
<1>4. nodes' = [nodes EXCEPT ![v] = new]
  BY DEF Marks
<1> HIDE DEF row
<1>5. new \in Table
  BY <1>1, <1>3 DEF Table
<1>6. Place(nodes[v], new)
  <2>1. \A s \in Addr : SameRow(nodes[v][s], nodes[v][s])
    BY <1>1, PlaceSame DEF Place
  <2> QED
    BY <1>1, <1>3, <2>1 DEF Marks, Place, SameRow, Table
<1>7. \A s \in Addr : new[s] = IF s = t THEN row ELSE nodes[v][s]
  BY <1>1 DEF Table
<1> HIDE DEF new
<1>8. /\ nodes' \in [Node -> Table] /\ nodes'[v] = new
      /\ \A u \in Node : u # v => nodes'[u] = nodes[u]
  BY <1>1, <1>4, <1>5, TableReplaced
<1>9. CarriedAt(v)
  BY <1>6, <1>8 DEF CarriedAt
<1>10. Starting'
  BY <1>9, PlaceStarting DEF Base
<1> QED
  BY <1>3, <1>7, <1>8, <1>9, <1>10 DEF Marks

\* The tables after a check or a cleanup are those of a mark, or the same.
CheckMarks(v, t) ==
    \/ UNCHANGED nodes
    \/ \E health \in {"offline", "online"} : Marks(v, t, health)

Watch(v, t) ==
    Check(v, t) \/ CheckFails(v, t) \/ MarkOnlineFails(v, t) \/ StaleCleanup(v, t)

LEMMA WatchStep ==
  ASSUME Base, NEW v \in Node, NEW t \in Addr, Watch(v, t)
  PROVE  Base' /\ CheckMarks(v, t) /\ UNCHANGED <<pc, call, boot, crashes, edits>>
<1>1. nodes \in [Node -> Table] /\ CallsTyped /\ ProcessesTyped
  BY TypeParts DEF Base
<1>2. pc[v] = "serve" /\ nodes[v][t] # NoRow
      /\ UNCHANGED <<pc, call, boot, crashes, edits>>
  BY DEF Watch, Check, CheckFails, MarkOnlineFails, Visits, StaleCleanup, Online
<1>3. CheckMarks(v, t)
  BY <1>2 DEF Watch, Check, CheckFails, MarkOnlineFails, Healthy, Unhealthy,
              StaleCleanup, CheckMarks, Marks
<1>4. nodes' \in [Node -> Table] /\ Starting'
  <2>1. CASE UNCHANGED nodes
    BY <1>1, <1>2, <2>1 DEF Base, Starting
  <2>2. CASE \E health \in {"offline", "online"} : Marks(v, t, health)
    BY <1>2, <2>2, MarksStep DEF Health
  <2> QED
    BY <1>3, <2>1, <2>2 DEF CheckMarks
<1>5. PICK n \in 0 .. 2 : streak' = [streak EXCEPT ![v][t] = n]
  <2>1. streak[v][t] \in 0 .. 2
    BY <1>1 DEF CallsTyped
  <2>2. CASE StaleCleanup(v, t)
    BY <1>1, <2>1, <2>2 DEF StaleCleanup, CallsTyped
  <2>3. CASE ~StaleCleanup(v, t)
    BY <2>1, <2>3 DEF Watch, Check, CheckFails, MarkOnlineFails, Healthy, Unhealthy
  <2> QED
    BY <2>2, <2>3
<1>6. streak' \in [Node -> [Addr -> 0 .. 2]]
  BY <1>1, <1>5 DEF CallsTyped
<1>7. CallsTyped'
  BY <1>1, <1>2, <1>5, <1>6 DEF CallsTyped
<1>8. SentEmpty' /\ ProcessesTyped'
  BY <1>1, <1>2 DEF Base, SentEmpty, ProcessesTyped
<1> QED
  BY <1>2, <1>3, <1>4, <1>7, <1>8, BaseAfter

LEMMA EditStep ==
  ASSUME Base, NEW v \in Node, NEW t \in Addr, RegisterNode(v, t) \/ UpdateNode(v, t)
  PROVE  Base' /\ CarriedAt(v)
<1>1. nodes \in [Node -> Table] /\ CallsTyped /\ ProcessesTyped /\ nodes[v] \in Table
  BY TypeParts DEF Base
<1>2. /\ pc[v] = "serve" /\ edits' = edits + 1
      /\ UNCHANGED <<pc, boot, call, streak, crashes>>
  BY DEF RegisterNode, UpdateNode, Edits
<1>3. PICK new \in Table : Carried(nodes[v], new) /\ nodes' = [nodes EXCEPT ![v] = new]
  <2>1. CASE RegisterNode(v, t)
    <3>1. PICK name \in Typed : nodes' = [nodes EXCEPT ![v] = Created(@, name, t)]
      BY <2>1 DEF RegisterNode
    <3> QED
      BY <1>1, <3>1, CreatedStep DEF Carried
  <2>2. CASE UpdateNode(v, t)
    <3>1. PICK name \in Typed, to \in Addr :
            nodes' = [nodes EXCEPT ![v] = Moved(@, t, to, [@[t] EXCEPT !.name = name])]
      BY <2>2 DEF UpdateNode
    <3> DEFINE row == [nodes[v][t] EXCEPT !.name = name]
    <3>2. nodes[v][t] \in Row /\ nodes[v][t] # NoRow
      BY <1>1, <2>2 DEF UpdateNode, Table
    <3>3. row \in Row /\ SameTunnel(nodes[v][t], row)
      BY <3>2, NameChanged
    <3>4. nodes' = [nodes EXCEPT ![v] = Moved(nodes[v], t, to, row)]
      BY <3>1
    <3> HIDE DEF row
    <3> QED
      BY <1>1, <3>2, <3>3, <3>4, MovedStep
  <2> QED
    BY <2>1, <2>2
<1>4. nodes' \in [Node -> Table] /\ CarriedAt(v) /\ Starting'
  BY <1>2, <1>3, ServingStep
<1>5. CallsTyped' /\ ProcessesTyped' /\ SentEmpty'
  BY <1>1, <1>2 DEF CallsTyped, ProcessesTyped, Base, SentEmpty
<1> QED
  BY <1>4, <1>5, BaseAfter

LEMMA DeleteStep ==
  ASSUME Base, NEW v \in Node, NEW t \in Addr, DeleteNode(v, t)
  PROVE  /\ Base'
         /\ \A u \in Node, s \in Addr : u # v \/ s # t => nodes'[u][s] = nodes[u][s]
         /\ nodes'[v][t] = NoRow /\ pc[v] = "serve"
<1>1. nodes \in [Node -> Table] /\ CallsTyped /\ ProcessesTyped
  BY TypeParts DEF Base
<1>2. /\ pc[v] = "serve" /\ edits' = edits + 1
      /\ UNCHANGED <<pc, boot, call, streak, crashes>>
      /\ nodes' = [nodes EXCEPT ![v][t] = NoRow]
  BY DEF DeleteNode, Edits
<1>3. /\ nodes' \in [Node -> Table]
      /\ \A u \in Node, s \in Addr : u # v \/ s # t => nodes'[u][s] = nodes[u][s]
      /\ nodes'[v][t] = NoRow
  BY <1>1, <1>2 DEF Table
<1>4. Starting'
  BY <1>2, <1>3 DEF Base, Starting
<1>5. CallsTyped' /\ ProcessesTyped' /\ SentEmpty'
  BY <1>1, <1>2 DEF CallsTyped, ProcessesTyped, Base, SentEmpty
<1> QED
  BY <1>2, <1>3, <1>4, <1>5, BaseAfter

LEMMA DeathStep ==
  ASSUME Base, NEW v \in Node, InitFails(v) \/ Crash(v)
  PROVE  /\ Base' /\ UNCHANGED nodes
         /\ \A u \in Node : pc'[u] \in {pc[u], "serve", "down"}
<1>1. nodes \in [Node -> Table] /\ CallsTyped /\ ProcessesTyped
  BY TypeParts DEF Base
<1>2. CASE InitFails(v)
  <2>1. /\ UNCHANGED <<nodes, boot, call, streak, edits>>
        /\ pc' = [pc EXCEPT ![v] = "serve"] /\ crashes' = crashes + 1
    BY <1>2 DEF InitFails, Goto
  <2>2. CallsTyped' /\ ProcessesTyped' /\ SentEmpty' /\ Starting'
    BY <1>1, <2>1 DEF CallsTyped, ProcessesTyped, Base, SentEmpty, Starting, PC
  <2>3. \A u \in Node : pc'[u] \in {pc[u], "serve", "down"}
    BY <1>1, <2>1 DEF ProcessesTyped
  <2> QED
    BY <1>1, <2>1, <2>2, <2>3, BaseAfter
<1>3. CASE Crash(v)
  <2>1. /\ UNCHANGED <<nodes, edits>>
        /\ pc' = [pc EXCEPT ![v] = "down"] /\ crashes' = crashes + 1
        /\ boot' = [boot EXCEPT ![v] = NoBoot]
        /\ call' = [w \in Node |-> IF w = v \/ MergesAt(w, v) THEN NoCall ELSE call[w]]
        /\ streak' = [streak EXCEPT ![v] = [t \in Addr |-> 0]]
    BY <1>3 DEF Crash, Goto
  <2>2. /\ boot' \in [Node -> [todo : SUBSET Addr, list : SUBSET Info]]
        /\ streak' \in [Node -> [Addr -> 0 .. 2]]
    BY <1>1, <2>1 DEF CallsTyped, NoBoot
  <2>3. call' \in [Node -> Call \cup {NoCall}]
    BY <1>1, <2>1 DEF CallsTyped
  <2>4. CallsTyped'
    BY <1>1, <2>1, <2>2, <2>3 DEF CallsTyped, ProcessesTyped
  <2>5. ProcessesTyped' /\ Starting'
    BY <1>1, <2>1 DEF ProcessesTyped, Base, Starting, PC
  <2>6. SentEmpty'
    BY <1>1, <2>1 DEF CallsTyped, Base, SentEmpty, NoBoot, NoCall
  <2>7. \A u \in Node : pc'[u] \in {pc[u], "serve", "down"}
    BY <1>1, <2>1 DEF ProcessesTyped
  <2> QED
    BY <1>1, <2>1, <2>4, <2>5, <2>6, <2>7, BaseAfter
<1> QED
  BY <1>2, <1>3

\* Every step keeps the base, and what it does to the tables is one of these.
LEMMA StepBase ==
  ASSUME Base, [Next]_vars
  PROVE  /\ Base'
         /\ \/ UNCHANGED nodes
            \/ \E v \in Node : CarriedAt(v)
            \/ \E v \in Node : FindKey(v) \/ StorePrivateKey(v) \/ AssignIp(v)
            \/ \E v \in Node, t \in Addr : DeleteNode(v, t)
<1>1. CASE UNCHANGED vars
  <2>1. UNCHANGED <<nodes, pc, boot, call, streak, crashes, edits>>
    BY <1>1 DEF vars
  <2> QED
    BY <2>1 DEF Base, TypeOK, Starting, SentEmpty
<1>2. CASE Quiet
  <2> SUFFICES ASSUME NEW v \in Node,
                      \/ Start(v) \/ Startup(v) \/ Exchange(v)
                      \/ \E t \in Addr :
                            Gossip(v, t) \/ Check(v, t) \/ StaleCleanup(v, t)
               PROVE  /\ Base'
                      /\ \/ UNCHANGED nodes
                         \/ \E u \in Node : CarriedAt(u)
                         \/ FindKey(v) \/ StorePrivateKey(v) \/ AssignIp(v)
    BY <1>2 DEF Quiet
  <2>1. CASE Start(v) \/ Startup(v)
    BY <2>1, StartStep, BootStep, TunnelStep DEF Startup
  <2>2. CASE Exchange(v)
    BY <2>2, MergeStep, ReplyStep, LearnStep, EndedStep DEF Exchange
  <2>3. CASE \E t \in Addr : Gossip(v, t)
    BY <2>3, GossipStep
  <2>4. CASE \E t \in Addr : Check(v, t) \/ StaleCleanup(v, t)
    BY <2>4, WatchStep, MarksStep DEF Watch, CheckMarks, Health
  <2> QED
    BY <2>1, <2>2, <2>3, <2>4
<1>3. CASE Edit
  BY <1>3, EditStep, DeleteStep DEF Edit
<1>4. CASE Fault
  BY <1>4, EndedStep, DeathStep, WatchStep, MarksStep
     DEF Fault, Watch, CheckMarks, Health
<1> QED
  BY <1>1, <1>2, <1>3, <1>4 DEF Next

\* Every reachable state is well typed, whatever the nodes are interrupted in.
THEOREM ClusterTyping == Spec => []TypeOK
<1>1. Base /\ [Next]_vars => Base'
  BY StepBase
<1>2. Base => TypeOK
  BY DEF Base
<1> QED
  BY <1>1, <1>2, InitBase, PTL DEF Spec

THEOREM BaseAlways == Spec => []Base
<1>1. Base /\ [Next]_vars => Base'
  BY StepBase
<1> QED
  BY <1>1, InitBase, PTL DEF Spec

-----------------------------------------------------------------------------
(* Keys *)

\* A row that has a private key has the public key that belongs to it, and one
\* with a tunnel address has a private key.
Keyed(row) ==
    row # NoRow =>
        /\ row.priv # 0 => row.priv = row.pub
        /\ row.ip # 0 => row.priv # 0

KeyInv ==
    /\ \A v \in Node, t \in Addr : Keyed(nodes[v][t])
    /\ \A v \in Node : pc[v] = "priv" => nodes[v][v].pub # 0
    /\ \A v \in Node : pc[v] = "ip" => nodes[v][v].priv # 0

LEMMA PhaseKept ==
  ASSUME Base, [Next]_vars, NEW u \in Node, pc'[u] \in {"priv", "ip"},
         ~FindKey(u), ~StorePrivateKey(u)
  PROVE  pc[u] = pc'[u]
<1>1. pc \in [Node -> PC]
  BY DEF Base, TypeOK
<1>2. CASE UNCHANGED vars
  BY <1>2 DEF vars
<1>3. CASE Quiet
  <2>1. PICK v \in Node :
           \/ Start(v) \/ Startup(v) \/ Exchange(v)
           \/ \E t \in Addr : Gossip(v, t) \/ Check(v, t) \/ StaleCleanup(v, t)
    BY <1>3 DEF Quiet
  <2>2. CASE Start(v)
    BY <1>1, <2>2 DEF Start, Goto
  <2>3. CASE Startup(v)
    BY <1>1, <2>3 DEF Startup, BootCall, BootDone, FindKey, StorePrivateKey, AssignIp, Goto
  <2>4. CASE Exchange(v)
    BY <2>4 DEF Exchange, Merge, Reply, Learn, Refused
  <2>5. CASE \E t \in Addr : Gossip(v, t) \/ Check(v, t) \/ StaleCleanup(v, t)
    BY <2>5 DEF Gossip, Check, StaleCleanup
  <2> QED
    BY <2>1, <2>2, <2>3, <2>4, <2>5
<1>4. CASE Edit
  BY <1>4 DEF Edit, RegisterNode, UpdateNode, DeleteNode, Edits
<1>5. CASE Fault
  BY <1>1, <1>5 DEF Fault, Lost, InitFails, Crash, Goto, CheckFails, MarkOnlineFails
<1> QED
  BY <1>2, <1>3, <1>4, <1>5 DEF Next

\* The tunnel fields of a node's own row, step by step.
LEMMA FindKeyFields ==
  ASSUME Base, NEW v \in Node, FindKey(v)
  PROVE  /\ nodes'[v][v].priv = nodes[v][v].priv /\ nodes'[v][v].ip = nodes[v][v].ip
         /\ \/ /\ nodes[v][v].pub = 0 \/ nodes[v][v].priv = 0
               /\ nodes'[v][v].pub # 0 /\ pc'[v] = "priv"
            \/ /\ nodes[v][v].pub # 0 /\ nodes[v][v].priv # 0
               /\ nodes'[v][v].pub = nodes[v][v].pub /\ pc'[v] = "ip"
<1>1. nodes \in [Node -> Table] /\ pc \in [Node -> PC] /\ crashes \in Nat /\ v \in Addr
  BY TypeParts DEF Base, ProcessesTyped, Addr
<1>2. nodes[v][v] \in Row
  BY TunnelStep
<1>3. CASE nodes[v][v].pub = 0 \/ nodes[v][v].priv = 0
  <2> DEFINE row == [nodes[v][v] EXCEPT !.pub = crashes + 1]
  <2>1. nodes' = [nodes EXCEPT ![v][v] = row] /\ pc' = [pc EXCEPT ![v] = "priv"]
    BY <1>3 DEF FindKey, Goto
  <2>2. row.pub # 0 /\ row.priv = nodes[v][v].priv /\ row.ip = nodes[v][v].ip
    BY <1>1, <1>2 DEF Row
  <2> HIDE DEF row
  <2>3. nodes'[v][v] = row
    BY <1>1, <2>1 DEF Table
  <2> QED
    BY <1>1, <1>3, <2>1, <2>2, <2>3
<1>4. CASE ~(nodes[v][v].pub = 0 \/ nodes[v][v].priv = 0)
  BY <1>1, <1>4 DEF FindKey, Goto
<1> QED
  BY <1>3, <1>4

LEMMA StoreFields ==
  ASSUME Base, NEW v \in Node, StorePrivateKey(v)
  PROVE  /\ nodes'[v][v].pub = nodes[v][v].pub /\ nodes'[v][v].ip = nodes[v][v].ip
         /\ nodes'[v][v].priv = nodes[v][v].pub
         /\ pc[v] = "priv" /\ pc'[v] = "ip"
<1>1. nodes \in [Node -> Table] /\ pc \in [Node -> PC] /\ v \in Addr
  BY TypeParts DEF Base, ProcessesTyped, Addr
<1>2. nodes[v][v] \in Row
  BY TunnelStep
<1> DEFINE row == [nodes[v][v] EXCEPT !.priv = nodes[v][v].pub]
<1>3. nodes' = [nodes EXCEPT ![v][v] = row] /\ pc' = [pc EXCEPT ![v] = "ip"]
      /\ pc[v] = "priv"
  BY DEF StorePrivateKey, Goto
<1>4. /\ row.pub = nodes[v][v].pub /\ row.priv = nodes[v][v].pub
      /\ row.ip = nodes[v][v].ip
  BY <1>2 DEF Row
<1> HIDE DEF row
<1>5. nodes'[v][v] = row
  BY <1>1, <1>3 DEF Table
<1> QED
  BY <1>1, <1>3, <1>4, <1>5

LEMMA AssignFields ==
  ASSUME Base, NEW v \in Node, AssignIp(v)
  PROVE  /\ nodes'[v][v].pub = nodes[v][v].pub /\ nodes'[v][v].priv = nodes[v][v].priv
         /\ nodes'[v][v].ip = IF nodes[v][v].ip = 0 THEN FirstUnused(nodes[v])
                                                    ELSE nodes[v][v].ip
         /\ pc[v] = "ip" /\ pc'[v] = "serve"
<1>1. nodes \in [Node -> Table] /\ pc \in [Node -> PC] /\ v \in Addr
  BY TypeParts DEF Base, ProcessesTyped, Addr
<1>2. nodes[v][v] \in Row
  BY TunnelStep
<1> DEFINE ip == IF nodes[v][v].ip = 0 THEN FirstUnused(nodes[v]) ELSE nodes[v][v].ip
           row == [nodes[v][v] EXCEPT !.ip = ip]
<1>3. nodes' = [nodes EXCEPT ![v][v] = row] /\ pc' = [pc EXCEPT ![v] = "serve"]
      /\ pc[v] = "ip"
  BY DEF AssignIp, Goto
<1>4. row.pub = nodes[v][v].pub /\ row.priv = nodes[v][v].priv /\ row.ip = ip
  BY <1>2 DEF Row
<1> HIDE DEF row
<1>5. nodes'[v][v] = row
  BY <1>1, <1>3 DEF Table
<1> QED
  BY <1>1, <1>3, <1>4, <1>5

\* A row keeps its key wherever it is carried.
LEMMA CarriedKeyed ==
  ASSUME NEW v \in Node, CarriedAt(v), \A t \in Addr : Keyed(nodes[v][t]),
         NEW t \in Addr
  PROVE  Keyed(nodes'[v][t])
<1>1. CASE Place(nodes[v], nodes'[v])
  BY <1>1 DEF Place, SameRow, SameTunnel, Blank, Keyed
<1>2. CASE \E s, u \in Addr : MovedRow(nodes[v], nodes'[v], s, u)
  BY <1>2 DEF MovedRow, SameTunnel, Keyed
<1> QED
  BY <1>1, <1>2 DEF CarriedAt

\* Own rows stay put while their nodes look for a key.
LEMMA CarriedOwn ==
  ASSUME Base, NEW v \in Node, CarriedAt(v), NEW u \in Node,
         pc[u] \in {"priv", "ip"}
  PROVE  SameTunnel(nodes[u][u], nodes'[u][u])
<1>1. u \in Addr /\ nodes[u][u] # NoRow
  BY DEF Base, Starting, Addr
<1>2. CASE u # v
  BY <1>2 DEF CarriedAt, SameTunnel
<1>3. CASE u = v
  BY <1>1, <1>3 DEF CarriedAt, Place, SameRow
<1> QED
  BY <1>2, <1>3

LEMMA StepKey ==
  ASSUME Base, KeyInv, [Next]_vars
  PROVE  KeyInv'
<1>1. CASE UNCHANGED nodes /\ \A v \in Node : ~FindKey(v) /\ ~StorePrivateKey(v)
  BY <1>1, PhaseKept DEF KeyInv, Keyed
<1>2. CASE /\ \E v \in Node : CarriedAt(v)
           /\ \A v \in Node : ~FindKey(v) /\ ~StorePrivateKey(v)
  <2>1. PICK v \in Node : CarriedAt(v)
    BY <1>2
  <2>2. ASSUME NEW u \in Node, NEW t \in Addr
        PROVE  Keyed(nodes'[u][t])
    <3>1. CASE u # v
      BY <2>1, <3>1 DEF CarriedAt, KeyInv
    <3>2. CASE u = v
      BY <2>1, <3>2, CarriedKeyed DEF KeyInv
    <3> QED
      BY <3>1, <3>2
  <2>3. ASSUME NEW u \in Node, pc'[u] \in {"priv", "ip"}
        PROVE  pc[u] = pc'[u] /\ SameTunnel(nodes[u][u], nodes'[u][u])
    BY <1>2, <2>1, <2>3, PhaseKept, CarriedOwn
  <2> QED
    BY <2>2, <2>3 DEF KeyInv, Keyed, SameTunnel
<1>3. CASE \E v \in Node : FindKey(v) \/ StorePrivateKey(v) \/ AssignIp(v)
  <2>1. PICK v \in Node : FindKey(v) \/ StorePrivateKey(v) \/ AssignIp(v)
    BY <1>3
  <2>2. v \in Addr /\ nodes[v][v] \in Row /\ Keyed(nodes[v][v])
    BY <2>1, TunnelStep DEF KeyInv, Addr
  <2>3. /\ \A u \in Node : u # v => nodes'[u] = nodes[u] /\ pc'[u] = pc[u]
        /\ \A t \in Addr : t # v => nodes'[v][t] = nodes[v][t]
    BY <2>1, TunnelStep
  <2>4. /\ Keyed(nodes'[v][v])
        /\ pc'[v] = "priv" => nodes'[v][v].pub # 0
        /\ pc'[v] = "ip" => nodes'[v][v].priv # 0
    <3>1. CASE FindKey(v)
      BY <2>2, <3>1, FindKeyFields DEF Keyed
    <3>2. CASE StorePrivateKey(v)
      BY <2>2, <3>2, StoreFields DEF Keyed, KeyInv
    <3>3. CASE AssignIp(v)
      BY <2>2, <3>3, AssignFields DEF Keyed, KeyInv
    <3> QED
      BY <2>1, <3>1, <3>2, <3>3
  <2>5. ASSUME NEW u \in Node, NEW t \in Addr
        PROVE  Keyed(nodes'[u][t])
    BY <2>3, <2>4 DEF KeyInv
  <2>6. ASSUME NEW u \in Node
        PROVE  /\ pc'[u] = "priv" => nodes'[u][u].pub # 0
               /\ pc'[u] = "ip" => nodes'[u][u].priv # 0
    BY <2>3, <2>4 DEF KeyInv
  <2> QED
    BY <2>5, <2>6 DEF KeyInv, Keyed
<1>4. CASE \E v \in Node, t \in Addr : DeleteNode(v, t)
  <2>1. PICK v \in Node, t \in Addr : DeleteNode(v, t)
    BY <1>4
  <2>2. /\ \A u \in Node, s \in Addr : u # v \/ s # t => nodes'[u][s] = nodes[u][s]
        /\ nodes'[v][t] = NoRow /\ pc[v] = "serve" /\ UNCHANGED pc
    BY <2>1, DeleteStep DEF DeleteNode, Edits
  <2>3. ASSUME NEW u \in Node, NEW s \in Addr
        PROVE  Keyed(nodes'[u][s])
    BY <2>2 DEF KeyInv, Keyed
  <2>4. ASSUME NEW u \in Node, pc[u] # "serve"
        PROVE  nodes'[u][u] = nodes[u][u]
    BY <2>2, <2>4 DEF Addr
  <2> QED
    BY <2>2, <2>3, <2>4 DEF KeyInv, Keyed
<1> QED
  BY <1>1, <1>2, <1>3, <1>4, StepBase

LEMMA InitKey == Init => KeyInv
  BY DEF Init, KeyInv, Keyed

\* Wherever startups are interrupted, and wherever its row is moved to, a
\* tunnel address comes with a key pair whose halves belong together.
THEOREM TunnelKeysAreKept == Spec => []TunnelHasKey
<1>1. Base /\ KeyInv /\ [Next]_vars => KeyInv'
  BY StepKey
<1>2. KeyInv => TunnelHasKey
  BY DEF KeyInv, Keyed, TunnelHasKey, Tunnel
<1> QED
  BY <1>1, <1>2, BaseAlways, InitKey, PTL DEF Spec

-----------------------------------------------------------------------------
(* Tunnel addresses *)

\* The tunnel addresses of one table differ.
Differ(tbl) ==
    \A s, t \in Addr :
        tbl[s] # NoRow /\ tbl[t] # NoRow /\ tbl[s].ip = tbl[t].ip =>
            tbl[s].ip = 0 \/ s = t

LEMMA CarriedDiffer ==
  ASSUME NEW v \in Node, CarriedAt(v), Differ(nodes[v])
  PROVE  Differ(nodes'[v])
<1>1. CASE Place(nodes[v], nodes'[v])
  <2>1. ASSUME NEW t \in Addr, nodes'[v][t] # NoRow, nodes'[v][t].ip # 0
        PROVE  nodes[v][t] # NoRow /\ nodes[v][t].ip = nodes'[v][t].ip
    BY <1>1, <2>1 DEF Place, SameRow, SameTunnel, Blank
  <2> QED
    BY <2>1 DEF Differ
<1>2. CASE \E s, t \in Addr : MovedRow(nodes[v], nodes'[v], s, t)
  BY <1>2 DEF MovedRow, SameTunnel, Differ
<1> QED
  BY <1>1, <1>2 DEF CarriedAt

LEMMA AssignDiffer ==
  ASSUME Base, NEW v \in Node, AssignIp(v), Differ(nodes[v])
  PROVE  Differ(nodes'[v])
<1>1. /\ nodes[v][v] \in Row /\ v \in Addr /\ nodes'[v][v] # NoRow
      /\ \A t \in Addr : t # v => nodes'[v][t] = nodes[v][t]
  BY TunnelStep DEF Addr
<1>2. nodes'[v][v].ip = IF nodes[v][v].ip = 0 THEN FirstUnused(nodes[v])
                                              ELSE nodes[v][v].ip
  BY AssignFields
<1>3. CASE nodes[v][v].ip # 0
  BY <1>1, <1>2, <1>3 DEF Differ
<1>4. CASE nodes[v][v].ip = 0
  <2>1. FirstUnused(nodes[v]) = 0 \/ FirstUnused(nodes[v]) \notin UsedIps(nodes[v])
    BY DEF FirstUnused
  <2>2. \A t \in Addr : nodes[v][t] # NoRow => nodes[v][t].ip \in UsedIps(nodes[v])
    BY DEF UsedIps, Known
  <2> QED
    BY <1>1, <1>2, <1>4, <2>1, <2>2 DEF Differ
<1> QED
  BY <1>3, <1>4

LEMMA StepDiffer ==
  ASSUME Base, \A v \in Node : Differ(nodes[v]), [Next]_vars
  PROVE  \A v \in Node : Differ(nodes'[v])
<1>1. CASE UNCHANGED nodes
  BY <1>1
<1>2. CASE \E v \in Node : CarriedAt(v)
  BY <1>2, CarriedDiffer DEF CarriedAt
<1>3. CASE \E v \in Node : FindKey(v) \/ StorePrivateKey(v) \/ AssignIp(v)
  <2>1. PICK v \in Node : FindKey(v) \/ StorePrivateKey(v) \/ AssignIp(v)
    BY <1>3
  <2>2. /\ nodes[v][v] \in Row /\ v \in Addr
        /\ \A u \in Node : u # v => nodes'[u] = nodes[u]
        /\ \A t \in Addr : t # v => nodes'[v][t] = nodes[v][t]
    BY <2>1, TunnelStep DEF Addr
  <2>3. Differ(nodes'[v])
    <3>1. CASE AssignIp(v)
      BY <3>1, AssignDiffer
    <3>2. CASE FindKey(v) \/ StorePrivateKey(v)
      <4>1. nodes'[v][v].ip = nodes[v][v].ip
        BY <3>2, FindKeyFields, StoreFields
      <4> QED
        BY <2>2, <4>1 DEF Differ
    <3> QED
      BY <2>1, <3>1, <3>2
  <2> QED
    BY <2>2, <2>3
<1>4. CASE \E v \in Node, t \in Addr : DeleteNode(v, t)
  BY <1>4, DeleteStep DEF Differ
<1> QED
  BY <1>1, <1>2, <1>3, <1>4, StepBase

\* Whatever is deleted, moved and merged, no table has one tunnel address
\* twice.
THEOREM TunnelsAlwaysDiffer == Spec => []TunnelsDiffer
<1> DEFINE Inv == \A v \in Node : Differ(nodes[v])
<1>1. Init => Inv
  BY DEF Init, Differ
<1>2. Base /\ Inv /\ [Next]_vars => Inv'
  BY StepDiffer
<1>3. Inv => TunnelsDiffer
  BY DEF TunnelsDiffer, Differ, Known
<1> QED
  BY <1>1, <1>2, <1>3, BaseAlways, PTL DEF Spec

Stays(v, t) ==
    Tunnel(nodes[v][t]) =>
        \/ \E s \in Addr : /\ nodes'[v][s] # NoRow
                          /\ SameTunnel(nodes[v][t], nodes'[v][s])
        \/ DeleteNode(v, t)

LEMMA StepStays ==
  ASSUME Base, KeyInv, [Next]_vars, NEW v \in Node, NEW t \in Addr
  PROVE  Stays(v, t)
<1> SUFFICES ASSUME Tunnel(nodes[v][t])
             PROVE  \/ \E s \in Addr : /\ nodes'[v][s] # NoRow
                                      /\ SameTunnel(nodes[v][t], nodes'[v][s])
                    \/ DeleteNode(v, t)
  BY DEF Stays
<1>1. CASE nodes'[v][t] = nodes[v][t]
  BY <1>1 DEF Tunnel, SameTunnel
<1>2. CASE CarriedAt(v)
  <2>1. CASE Place(nodes[v], nodes'[v])
    BY <2>1 DEF Place, SameRow, Tunnel
  <2>2. CASE \E s, u \in Addr : MovedRow(nodes[v], nodes'[v], s, u)
    BY <2>2 DEF MovedRow, SameTunnel, Tunnel
  <2> QED
    BY <1>2, <2>1, <2>2 DEF CarriedAt
<1>3. CASE t = v /\ (FindKey(v) \/ StorePrivateKey(v) \/ AssignIp(v))
  <2>1. nodes'[v][v] # NoRow /\ Keyed(nodes[v][v]) /\ nodes[v][v].ip # 0
        /\ nodes[v][v] # NoRow
    BY <1>3, TunnelStep DEF KeyInv, Tunnel
  <2>2. CASE FindKey(v)
    BY <1>3, <2>1, <2>2, FindKeyFields DEF Keyed, SameTunnel, KeyInv
  <2>3. CASE StorePrivateKey(v)
    BY <1>3, <2>1, <2>3, StoreFields DEF Keyed, SameTunnel
  <2>4. CASE AssignIp(v)
    BY <1>3, <2>1, <2>4, AssignFields DEF SameTunnel
  <2> QED
    BY <1>3, <2>2, <2>3, <2>4
<1> QED
  BY <1>1, <1>2, <1>3, StepBase, TunnelStep, DeleteStep DEF CarriedAt

\* Only DeleteNode takes a tunnel out of a table.
THEOREM TunnelsAlwaysStay == Spec => TunnelsStay
<1>1. Base /\ KeyInv /\ [Next]_vars => KeyInv'
  BY StepKey
<1>2. Base /\ KeyInv /\ [Next]_vars =>
        [\A v \in Node, t \in Addr :
            Tunnel(nodes[v][t]) =>
               \/ \E s \in Addr : /\ nodes'[v][s] # NoRow
                                 /\ SameTunnel(nodes[v][t], nodes'[v][s])
               \/ DeleteNode(v, t)]_vars
  BY StepStays DEF Stays
<1> QED
  BY <1>1, <1>2, BaseAlways, InitKey, PTL DEF Spec, TunnelsStay

-----------------------------------------------------------------------------
(* Own rows *)

\* As long as nobody has edited a table, an address has its own name or the
\* one that is made up for it, everywhere.
HonestAt(name, t) == name \in {Own(t), Seed(t)}
Honest(tbl) == \A t \in Addr : tbl[t] # NoRow => HonestAt(tbl[t].name, t)
HonestList(list) == \A i \in list : HonestAt(i.name, i.addr)

OwnRow(v) == nodes[v][v] # NoRow /\ nodes[v][v].name = Own(v)

OwnInv ==
    edits = 0 =>
        \A v \in Node :
            /\ Honest(nodes[v])
            /\ HonestList(boot[v].list)
            /\ call[v] # NoCall => HonestList(call[v].list)
            /\ pc[v] # "down" => OwnRow(v)

LEMMA NamesDiffer ==
  /\ \A s, t : Own(s) = Own(t) => s = t
  /\ \A s, t : Seed(s) = Seed(t) => s = t
  /\ \A s, t : Own(s) # Seed(t)
  BY DEF Own, Seed

LEMMA HonestLists ==
  ASSUME NEW tbl \in Table, Honest(tbl)
  PROVE  HonestList(ListOf(tbl)) /\ HonestList(ReplyOf(tbl))
  BY DEF Honest, HonestList, ListOf, ReplyOf, Known

\* No row loses its name, and a row that is new has an honest one.
NamesKept(tbl, new) ==
    \A t \in Addr :
        IF tbl[t] = NoRow
        THEN new[t] = NoRow \/ HonestAt(new[t].name, t)
        ELSE new[t] # NoRow /\ new[t].name = tbl[t].name

LEMMA KeptHonest ==
  ASSUME NEW tbl, NEW new, Honest(tbl), NamesKept(tbl, new)
  PROVE  Honest(new)
  BY DEF Honest, NamesKept

\* Merging an honest entry into an honest table moves nothing.
LEMMA UpsertedHonest ==
  ASSUME NEW tbl \in Table, NEW i \in Info, Empty(i), Honest(tbl),
         HonestAt(i.name, i.addr)
  PROVE  NamesKept(tbl, Upserted(tbl, i))
<1>0. i.name \in Name /\ i.addr \in Addr
  BY DEF Info
<1>1. CASE Named(tbl, i.name) = {} /\ tbl[i.addr] # NoRow
  BY <1>1 DEF Upserted, NamesKept
<1>2. CASE Named(tbl, i.name) = {} /\ tbl[i.addr] = NoRow
  <2>1. NewRow(i.name) \in Row /\ NewRow(i.name).name = i.name
    BY <1>0, NewRowTyped
  <2>2. Upserted(tbl, i) = [tbl EXCEPT ![i.addr] = NewRow(i.name)]
    BY <1>2, <2>1, ToldNothing DEF Upserted
  <2> QED
    BY <1>0, <1>2, <2>1, <2>2 DEF NamesKept, Table
<1>3. CASE Named(tbl, i.name) # {}
  <2> DEFINE s == Holder(tbl, i.name)
  <2>1. s \in Addr /\ tbl[s] \in Row /\ tbl[s] # NoRow /\ tbl[s].name = i.name
    BY <1>0, <1>3, HolderNamed
  <2>2. Upserted(tbl, i) = Moved(tbl, s, i.addr, tbl[s])
    BY <1>3, <2>1, ToldNothing DEF Upserted, Holder
  <2> HIDE DEF s
  <2>3. HonestAt(i.name, s)
    BY <2>1 DEF Honest
  <2>4. s = i.addr
    BY <2>3, NamesDiffer DEF HonestAt
  <2>5. Moved(tbl, s, s, tbl[s]) = tbl
    BY <2>1 DEF Moved, Table
  <2> QED
    BY <2>2, <2>4, <2>5 DEF NamesKept
<1> QED
  BY <1>1, <1>2, <1>3

LEMMA StartOwn ==
  ASSUME Base, OwnInv, NEW v \in Node, Start(v)
  PROVE  OwnInv'
<1> DEFINE own == UpsertSelf(nodes[v], v)
           new == SeedPeers(own, Boot[v])
<1> SUFFICES ASSUME edits' = 0
             PROVE  \A u \in Node :
                      /\ Honest(nodes'[u])
                      /\ HonestList(boot'[u].list)
                      /\ call'[u] # NoCall => HonestList(call'[u].list)
                      /\ pc'[u] # "down" => OwnRow(u)'
  BY DEF OwnInv
<1>1. nodes \in [Node -> Table] /\ CallsTyped /\ ProcessesTyped /\ nodes[v] \in Table
      /\ v \in Addr
  BY TypeParts DEF Base, Addr
<1>2. /\ nodes' = [nodes EXCEPT ![v] = new]
      /\ boot' = [boot EXCEPT ![v] = [todo |-> Boot[v] \ {v}, list |-> ListOf(nodes'[v])]]
      /\ pc' = [pc EXCEPT ![v] = "boot"]
      /\ UNCHANGED <<call, streak, crashes, edits>>
  BY DEF Start, Goto
<1>3. /\ own \in Table /\ own[v] # NoRow /\ own[v].name = Own(v)
      /\ \A t \in Addr \ {v} : own[t] = nodes[v][t]
  BY <1>1, UpsertSelfStep
<1>4. /\ new \in Table
      /\ \A t \in Addr : \/ new[t] = own[t]
                         \/ own[t] = NoRow /\ new[t] = NewRow(Seed(t))
  BY <1>3, SeedStep
<1>5. \A t \in Addr : NewRow(Seed(t)).name = Seed(t)
  BY DEF NewRow
<1>6. Honest(nodes[v])
  BY <1>2 DEF OwnInv
<1> HIDE DEF new, own
<1>7. Honest(new)
  BY <1>1, <1>3, <1>4, <1>5, <1>6 DEF Honest, HonestAt
<1>8. new[v] # NoRow /\ new[v].name = Own(v)
  BY <1>1, <1>3, <1>4
<1>9. HonestList(ListOf(new))
  BY <1>4, <1>7, HonestLists
<1>10. \A u \in Node : nodes'[u] = IF u = v THEN new ELSE nodes[u]
  BY <1>1, <1>2
<1>11. \A u \in Node : boot'[u].list = IF u = v THEN ListOf(new) ELSE boot[u].list
  BY <1>1, <1>2, <1>10 DEF CallsTyped
<1>12. \A u \in Node : pc'[u] = IF u = v THEN "boot" ELSE pc[u]
  BY <1>1, <1>2 DEF ProcessesTyped
<1> QED
  BY <1>2, <1>7, <1>8, <1>9, <1>10, <1>11, <1>12 DEF OwnInv, OwnRow

\* Every other step that edits no table keeps the names.
NamesStep ==
    /\ \A v \in Node : NamesKept(nodes[v], nodes'[v])
    /\ \A v \in Node : pc'[v] # "down" => pc[v] # "down"
    /\ \A v \in Node :
         boot'[v].list \in {boot[v].list, {}}
    /\ \A v \in Node :
         \/ call'[v] = NoCall
         \/ call[v] # NoCall /\ call'[v].list \subseteq call[v].list
         \/ call'[v].list = boot[v].list
         \/ \E u \in Node : call'[v].list \in {ListOf(nodes[u]), ReplyOf(nodes[u])}

LEMMA NamesOwn ==
  ASSUME Base, OwnInv, NamesStep, UNCHANGED edits
  PROVE  OwnInv'
<1> SUFFICES ASSUME edits = 0, NEW v \in Node
             PROVE  /\ Honest(nodes'[v])
                    /\ HonestList(boot'[v].list)
                    /\ call'[v] # NoCall => HonestList(call'[v].list)
                    /\ pc'[v] # "down" => OwnRow(v)'
  BY DEF OwnInv
<1>1. nodes \in [Node -> Table]
  BY TypeParts DEF Base
<1>2. Honest(nodes'[v])
  BY KeptHonest DEF OwnInv, NamesStep
<1>3. HonestList(boot'[v].list)
  BY DEF OwnInv, NamesStep, HonestList
<1>4. call'[v] # NoCall => HonestList(call'[v].list)
  <2>1. \A u \in Node : HonestList(ListOf(nodes[u])) /\ HonestList(ReplyOf(nodes[u]))
    BY <1>1, HonestLists DEF OwnInv
  <2>2. HonestList(boot[v].list) /\ (call[v] # NoCall => HonestList(call[v].list))
    BY DEF OwnInv
  <2> QED
    BY <2>1, <2>2 DEF NamesStep, HonestList
<1>5. pc'[v] # "down" => OwnRow(v)'
  <2>1. pc'[v] # "down" => OwnRow(v)
    BY DEF OwnInv, NamesStep
  <2> QED
    BY <2>1 DEF NamesStep, NamesKept, OwnRow, Addr
<1> QED
  BY <1>2, <1>3, <1>4, <1>5

LEMMA NamesSame ==
  ASSUME NEW tbl
  PROVE  NamesKept(tbl, tbl)
  BY DEF NamesKept

LEMMA MergeNames ==
  ASSUME Base, OwnInv, edits = 0, NEW v \in Node, Merge(v)
  PROVE  NamesStep
<1>1. /\ call[v].phase \in {"sent", "merging"} /\ call[v].to \in Fronted
      /\ UNCHANGED <<pc, boot, streak, crashes, edits>>
  BY DEF Merge, Answers
<1>2. /\ call[v] # NoCall /\ call[v].list \in SUBSET Info /\ call[v].to \in Node
  BY <1>1, CallTyped, FrontAssumption DEF Base
<1>3. PICK i \in call[v].list :
        /\ nodes' = [nodes EXCEPT ![call[v].to] = Upserted(@, i)]
        /\ call' = [call EXCEPT ![v] = [to |-> call[v].to, phase |-> "merging",
                                        list |-> call[v].list \ {i}]]
  BY DEF Merge
<1> DEFINE t == call[v].to
<1>4. i \in Info /\ Empty(i) /\ HonestAt(i.name, i.addr)
  BY <1>1, <1>2, <1>3 DEF Base, SentEmpty, OwnInv, HonestList
<1>5. nodes \in [Node -> Table] /\ CallsTyped /\ nodes[t] \in Table /\ Honest(nodes[t])
  BY <1>2, TypeParts DEF Base, OwnInv
<1>6. NamesKept(nodes[t], Upserted(nodes[t], i))
  BY <1>4, <1>5, UpsertedHonest
<1>7. \A u \in Node : nodes'[u] = IF u = t THEN Upserted(nodes[t], i) ELSE nodes[u]
  BY <1>2, <1>3, <1>5
<1>8. \A u \in Node : IF u = v THEN call'[u].list = call[v].list \ {i}
                               ELSE call'[u] = call[u]
  BY <1>3, <1>5 DEF CallsTyped
<1>9. \A u \in Node : NamesKept(nodes[u], nodes'[u])
  BY <1>6, <1>7, NamesSame
<1>10. \A u \in Node : \/ call'[u] = NoCall
                       \/ call[u] # NoCall /\ call'[u].list \subseteq call[u].list
  BY <1>2, <1>8
<1> QED
  BY <1>1, <1>9, <1>10 DEF NamesStep

LEMMA LearnNames ==
  ASSUME Base, OwnInv, edits = 0, NEW v \in Node, Learn(v)
  PROVE  NamesStep
<1> DEFINE new == [t \in Addr |-> IF t = v THEN nodes[v][t]
                                  ELSE Learned(nodes[v], call[v].list, t)]
<1>1. /\ call[v].phase = "replied"
      /\ nodes' = [nodes EXCEPT ![v] = new]
      /\ call' = [call EXCEPT ![v] = NoCall]
      /\ UNCHANGED <<pc, boot, streak, crashes, edits>>
  BY DEF Learn
<1>2. call[v].list \in SUBSET Info /\ call[v] # NoCall
  BY <1>1, CallTyped DEF Base
<1>3. nodes \in [Node -> Table] /\ CallsTyped /\ nodes[v] \in Table
  BY TypeParts DEF Base
<1>4. \A t \in Addr : \/ new[t] = nodes[v][t]
                      \/ /\ nodes[v][t] = NoRow
                         /\ \E i \in call[v].list :
                               i.addr = t /\ new[t] = NewRow(i.name)
  BY <1>2, <1>3, LearnedStep
<1>5. \A i \in call[v].list : NewRow(i.name).name = i.name /\ HonestAt(i.name, i.addr)
  BY <1>2 DEF NewRow, OwnInv, HonestList
<1> HIDE DEF new
<1>6. NamesKept(nodes[v], new)
  BY <1>4, <1>5 DEF NamesKept
<1>7. \A u \in Node : nodes'[u] = IF u = v THEN new ELSE nodes[u]
  BY <1>1, <1>3
<1>8. \A u \in Node : NamesKept(nodes[u], nodes'[u])
  BY <1>6, <1>7, NamesSame
<1>9. \A u \in Node : \/ call'[u] = NoCall
                      \/ call[u] # NoCall /\ call'[u].list \subseteq call[u].list
                      \/ call'[u] = call[u]
  BY <1>1, <1>3 DEF CallsTyped
<1> QED
  BY <1>1, <1>8, <1>9 DEF NamesStep

LEMMA TunnelNames ==
  ASSUME Base, NEW v \in Node, FindKey(v) \/ StorePrivateKey(v) \/ AssignIp(v)
  PROVE  NamesStep
<1>1. /\ \A u \in Node : u # v => nodes'[u] = nodes[u] /\ pc'[u] = pc[u]
      /\ \A t \in Addr : t # v => nodes'[v][t] = nodes[v][t]
      /\ nodes[v][v] \in Row
      /\ nodes'[v][v] # NoRow /\ nodes'[v][v].name = nodes[v][v].name
  BY TunnelStep
<1>2. pc[v] # "down" /\ UNCHANGED <<boot, call>>
  BY DEF FindKey, StorePrivateKey, AssignIp
<1>3. NamesKept(nodes[v], nodes'[v])
  BY <1>1 DEF NamesKept
<1>4. \A u \in Node : NamesKept(nodes[u], nodes'[u])
  BY <1>1, <1>3, NamesSame
<1> QED
  BY <1>1, <1>2, <1>4 DEF NamesStep

LEMMA WatchNames ==
  ASSUME Base, NEW v \in Node, NEW t \in Addr, Watch(v, t)
  PROVE  NamesStep
<1>1. CheckMarks(v, t) /\ UNCHANGED <<pc, call, boot>>
  BY WatchStep
<1>2. \A u \in Node : NamesKept(nodes[u], nodes'[u])
  <2>1. CASE UNCHANGED nodes
    BY <2>1, NamesSame
  <2>2. CASE \E health \in {"offline", "online"} : Marks(v, t, health)
    <3>1. /\ \A u \in Node, s \in Addr : nodes[u][s] # NoRow =>
                nodes'[u][s] # NoRow /\ nodes'[u][s].name = nodes[u][s].name
          /\ \A u \in Node, s \in Addr : nodes[u][s] = NoRow => nodes'[u][s] = NoRow
      BY <1>1, <2>2, MarksStep DEF Health
    <3> QED
      BY <3>1 DEF NamesKept
  <2> QED
    BY <1>1, <2>1, <2>2 DEF CheckMarks
<1>3. \A u \in Node : \/ call'[u] = NoCall
                      \/ call[u] # NoCall /\ call'[u].list \subseteq call[u].list
  BY <1>1
<1> QED
  BY <1>1, <1>2, <1>3 DEF NamesStep

\* The steps that change calls and processes only.
LEMMA CallNames ==
  ASSUME Base, NEW v \in Node,
         \/ BootCall(v) \/ BootDone(v) \/ Reply(v) \/ Refused(v) \/ Lost(v)
         \/ InitFails(v) \/ Crash(v) \/ \E t \in Addr : Gossip(v, t)
  PROVE  NamesStep
<1>1. CallsTyped /\ ProcessesTyped /\ nodes \in [Node -> Table]
  BY TypeParts DEF Base
<1>2. UNCHANGED nodes
  BY DEF BootCall, BootDone, Reply, Refused, Lost, InitFails, Crash, Gossip
<1>3. \A u \in Node : NamesKept(nodes[u], nodes'[u])
  BY <1>2, NamesSame
<1>4. \A u \in Node : pc'[u] # "down" => pc[u] # "down"
  BY <1>1 DEF BootCall, BootDone, Reply, Refused, Lost, InitFails, Crash, Gossip, Goto,
              ProcessesTyped
<1>5. \A u \in Node : boot'[u].list \in {boot[u].list, {}}
  BY <1>1 DEF BootCall, BootDone, Reply, Refused, Lost, InitFails, Crash, Gossip, NoBoot,
              CallsTyped
<1>6. ASSUME NEW u \in Node
      PROVE  \/ call'[u] = NoCall
             \/ call[u] # NoCall /\ call'[u].list \subseteq call[u].list
             \/ call'[u].list = boot[u].list
             \/ \E w \in Node : call'[u].list \in {ListOf(nodes[w]), ReplyOf(nodes[w])}
  <2>1. CASE BootCall(v)
    BY <1>1, <2>1 DEF BootCall, CallsTyped
  <2>2. CASE Reply(v)
    <3>1. call[v].to \in Node
      BY <2>2, ReplyStep
    <3> QED
      BY <1>1, <2>2, <3>1 DEF Reply, CallsTyped
  <2>3. CASE \E t \in Addr : Gossip(v, t)
    BY <1>1, <2>3 DEF Gossip, CallsTyped
  <2>4. CASE BootDone(v) \/ Refused(v) \/ Lost(v) \/ InitFails(v) \/ Crash(v)
    BY <1>1, <2>4 DEF BootDone, Refused, Lost, InitFails, Crash, CallsTyped
  <2> QED
    BY <2>1, <2>2, <2>3, <2>4
<1> QED
  BY <1>3, <1>4, <1>5, <1>6 DEF NamesStep

LEMMA StepOwn ==
  ASSUME Base, OwnInv, [Next]_vars
  PROVE  OwnInv'
<1>1. CASE UNCHANGED vars
  <2>1. UNCHANGED <<nodes, pc, boot, call, edits>>
    BY <1>1 DEF vars
  <2> QED
    BY <2>1 DEF OwnInv, OwnRow
<1>2. CASE Edit
  <2>1. edits' # 0
    BY <1>2 DEF Edit, RegisterNode, UpdateNode, DeleteNode, Edits, Base, TypeOK
  <2> QED
    BY <2>1 DEF OwnInv
<1>3. CASE edits # 0 /\ ~Edit /\ Next
  <2>1. edits' = edits
    BY <1>3 DEF Next, Quiet, Fault, Start, Startup, BootCall, BootDone, FindKey,
                StorePrivateKey, AssignIp, Exchange, Merge, Reply, Learn, Refused,
                Gossip, Check, StaleCleanup, Lost, InitFails, Crash, CheckFails,
                MarkOnlineFails
  <2> QED
    BY <1>3, <2>1 DEF OwnInv
<1>4. CASE edits = 0 /\ Quiet
  <2> SUFFICES ASSUME NEW v \in Node,
                      \/ Start(v) \/ Startup(v) \/ Exchange(v)
                      \/ \E t \in Addr :
                            Gossip(v, t) \/ Check(v, t) \/ StaleCleanup(v, t)
               PROVE  OwnInv'
    BY <1>4 DEF Quiet
  <2>1. CASE Start(v)
    BY <2>1, StartOwn
  <2>2. CASE ~Start(v)
    <3>1. UNCHANGED edits
      BY <2>2 DEF Startup, BootCall, BootDone, FindKey, StorePrivateKey, AssignIp,
                  Exchange, Merge, Reply, Learn, Refused, Gossip, Check, StaleCleanup
    <3>2. NamesStep
      BY <1>4, <2>2, MergeNames, LearnNames, TunnelNames, WatchNames, CallNames
         DEF Startup, Exchange, Watch
    <3> QED
      BY <3>1, <3>2, NamesOwn
  <2> QED
    BY <2>1, <2>2
<1>5. CASE edits = 0 /\ Fault
  <2>1. UNCHANGED edits
    BY <1>5 DEF Fault, Lost, InitFails, Crash, CheckFails, MarkOnlineFails
  <2>2. NamesStep
    BY <1>5, WatchNames, CallNames DEF Fault, Watch
  <2> QED
    BY <2>1, <2>2, NamesOwn
<1> QED
  BY <1>1, <1>2, <1>3, <1>4, <1>5 DEF Next

\* As long as nobody edits a table: whatever made-up names are sent, a node
\* that is up has its own row, and its own row only, under its own name.
THEOREM OwnRowIsKept == Spec => []OwnRowIntact
<1>1. Init => OwnInv
  <2> SUFFICES ASSUME Init, NEW v \in Node
               PROVE  /\ Honest(nodes[v])
                      /\ HonestList(boot[v].list)
                      /\ call[v] = NoCall /\ pc[v] = "down"
    BY DEF OwnInv
  <2>1. \A t \in Addr : nodes[v][t] = NoRow
    BY DEF Init
  <2>2. boot[v].list = {}
    BY DEF Init, NoBoot
  <2> QED
    BY <2>1, <2>2 DEF Init, Honest, HonestList
<1>2. Base /\ OwnInv /\ [Next]_vars => OwnInv'
  BY StepOwn
<1>3. OwnInv => OwnRowIntact
  <2>1. ASSUME NEW v \in Node, Honest(nodes[v])
        PROVE  Named(nodes[v], Own(v)) \subseteq {v}
    BY <2>1, NamesDiffer DEF Named, Known, Honest, HonestAt
  <2> QED
    BY <2>1 DEF OwnInv, OwnRow, OwnRowIntact
<1> QED
  BY <1>1, <1>2, <1>3, BaseAlways, PTL DEF Spec

=============================================================================
