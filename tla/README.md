# peerman, specified

peerman manages the peerings of a DN42 router: it keeps peers and settings in a
SQLite database, turns them into WireGuard interfaces and a BIRD configuration,
and optionally joins several routers to a cluster that watches itself. This
directory holds TLA+ modules for the parts of it whose behaviour depends on
order, concurrency, failure or time, the TLC configurations that check them, and
TLAPS proofs. `PROJECT.json` maps every definition to the lines of the source it
models. Paths below are relative to the repository.

| Module | What it is |
|---|---|
| `Deployment` | abstract: what deploying a configuration promises |
| `ConfigApply` | from a database edit to WireGuard and BIRD: the handlers, the debounce task, `apply_wg_bird`, failures and restarts |
| `ApplyRecovery` | what `ConfigApply` achieves in the end, after whatever was lost |
| `ConfigApplyProofs` | TLAPS: typing, refinement of `Deployment`, no forgotten edit, a settled "synced" is never stale |
| `Cluster` | node tables, bootstrap, exchange of node lists, health checks, tunnel identity |
| `ClusterProofs` | TLAPS: own row, tunnel keys and addresses |
| `FlapDetector` | sliding-window detection of flapping prefixes |
| `FlapProofs` | TLAPS: one event per prefix, true alarms and all-clears |
| `PeerKeys` | the node's WireGuard key pair and the keys of its peers: load and save of the settings, peers edited here or pushed from elsewhere |
| `PeerKeysProofs` | TLAPS: one key pair, kept and shared |
| `BirdConf` | which BGP sessions bird.conf has for the peers, with which community tags, from rules and probe results |
| `BirdConfProofs` | TLAPS: sessions match peers |
| `BgpUpdate` | what an UPDATE message says and what the listener reads in it |
| `BgpListener` | BGP sessions, framing and the channel to the flap detector; uses `BgpUpdate` |
| `BgpProofs` | TLAPS: the parser reads what was written, the listener reports what was said |
| `Login` | login attempts with their limit, tokens and the secret that signs them |
| `LoginProofs` | TLAPS: guessing is slow, refusals are fair |
| `LookingGlass` | a browser's query from the HTTP front over the handler to BIRD's socket, here or at another node; uses `Login` |
| `GlassProofs` | TLAPS: `LookingGlass` implements `Login`; BIRD is guarded, answers are whole |
| `MCConfigApply`, `MCApplyRecovery`, `MCCluster`, `MCFlapDetector`, `MCPeerKeys`, `MCBirdConf`, `MCBgpListener`, `MCLookingGlass` | the instances TLC runs |

To repeat the checks: `tlc -workers 2 -config <run>.cfg MC<module>.tla` for the
runs, and `tlapm` with `ConfigApplyProofs.tla`, `ClusterProofs.tla`,
`FlapProofs.tla`, `PeerKeysProofs.tla`, `BirdConfProofs.tla`, `BgpProofs.tla`,
`LoginProofs.tla` and `GlassProofs.tla` for the proofs. Which module belongs to which run is in
`PROJECT.json`.

## 1. Inventory

| Component (source) | State | Operations | What is hard | What must hold |
|---|---|---|---|---|
| configuration apply (`grpc/peer_service.rs`, `tasks/apply.rs`, `services/bird.rs`, `services/wireguard.rs`, `app_state.rs`) | `config_dirty`, `APPLY_LOCK`, the apply status (five separate fields), files in `/etc/wireguard` and `/etc/bird`, kernel interfaces, the running BIRD | `apply_wg_bird`, debounce tick, `sync_cluster_bird` | snapshot read by two queries, flag consumed before the reads, early returns, commands that fail halfway, writers outside of the lock, memory lost by a restart while files stay | no edit forgotten; BIRD never goes back; a settled "synced" is the truth |
| peer editing (`grpc/peer_service.rs`, `models/peer.rs`) | `peers` table | create, update, delete, toggle, restart interface; writes proxied to another node | check-then-write, read-modify-write of `enabled`, clean-up outside of the lock | unique interface names; every edit reaches an apply |
| settings (`grpc/settings_service.rs`, `models/settings.rs`) | the settings row, the node key pair | load (generates keys), save + apply | concurrent read-modify-write, lazy key generation | no save lost, one key pair |
| management (`grpc/management_service.rs`) | – | `apply_config_now`, status | as above | as above |
| membership and health (`grpc/cluster_service.rs`, `tasks/cluster.rs`, `models/node.rs`, `main.rs`) | `nodes` table (unique name, unique address), `fail_streaks` in memory | startup, bootstrap, `ExchangeNodes`, health check, stale clean-up, register / update / delete node | partial knowledge, made-up and mistyped names, lost messages, database errors that are dropped, restarts | a node does not lose itself to made-up names; a dead node ends offline everywhere |
| tunnels (`cluster/tunnel.rs`) | key pair and tunnel address in the own row, `wg-cluster.conf`, bird.conf | `init_local_node`, rewriting after an exchange | identity written by three statements and carried along by moves and merges, addresses chosen locally | keys complete, keys and address stay together; no address twice |
| flap detector (`services/flap_detector.rs`, `models/flap_event.rs`) | trackers in memory, `flap_events` table | path received, tick (resolve, evict), restart | window edges, memory and table that go out of step, timer restarted by traffic | one event per prefix; no false alarm, no early all-clear; silence closes events |
| BGP listener (`services/bgp_listener.rs`) | position in the stream, parsed changes, keepalive interval; one bounded channel | handshake, framing, UPDATE parsing, sending | messages between updates, prefix and attribute lengths, a full channel, a speaker that hangs up | every announced change is reported, once and in order |
| peer push and pull (`grpc/cluster_service.rs`, `grpc/peer_service.rs`) | `peers` of other nodes | `push_peer`, proxied writes | time stamps compared as text, empty time stamps and ids, lost replies | pushes do not damage what this node wrote |
| community mapper, probes (`services/community_mapper.rs`, `services/probe.rs`, `models/community.rs`, `models/probe.rs`) | rules, probe results | save and delete rules, ping, tag sessions | listen address used where a node id is stored, failed queries that are dropped, rules that change without an apply | tags never change the sessions |
| login rate limiter (`http/rate_limit.rs`, `http/handlers.rs`) | attempts per address and window start | attempt, success, expiry, restart | window boundary, refused tries that count | guessing is slow, a refusal's promise is kept |
| authentication (`auth/`, `cluster/auth.rs`) | the signing secret; cookies in browsers | login, logout, check of a token | expiry with leeway, a secret made up at every start | nobody gets in on an old token |
| fan-out aggregator, cache (`cluster/aggregator.rs`, `cluster/cache.rs`) | cluster cache | never filled: its readers have no caller | – | not modelled; its RPC calls are in `Cluster` |
| configuration text, DN42 defaults (`services/bird.rs`, `services/wireguard.rs`, `services/dn42.rs`) | – | string building | two writers of bird.conf, three ways to speak BGP | the right sessions, whoever writes |
| validation (`services/validation.rs`, `input_sanitizer.rs`) | – | syntactic checks | – | only that a call may be refused |
| looking glass (`grpc/bird_service.rs`, `services/bird_socket.rs`, `bird_allowlist.rs`) | calls in flight, a connection to BIRD each | `execute_command` here or forwarded; the conversation line by line | BIRD or the other node going away at any line, calls abandoned, no timeout on reads | answers are whole, every query ends, only for who is logged in |
| retention (`tasks/retention.rs`) | – | deletes old rows | – | in `BirdConf`, for probe results |
| startup, shutdown (`main.rs`, `config.rs`, `db.rs`) | – | start, migrations | restarts | in `Cluster`, and as `Crash`/`Restart` in every module |
| HTTP front (`main.rs`, `grpc_web.rs`, `static_files.rs`) | – | which path leads where | services below `/api`, calls between nodes without it | in `LookingGlass` |
| web interface, installer | – | pages, shell | – | not modelled |

How they interact. gRPC handlers run concurrently on tokio and share one
`AppState`. A peer edit writes the `peers` table and sets `config_dirty`; the
debounce task swaps the flag every five seconds and calls `apply_wg_bird`; saving
settings and `apply_config_now` call it directly. `apply_wg_bird` serialises
itself with the static `APPLY_LOCK` and reports through the status fields that
the management service shows. In a cluster, the anti-entropy task and the
`exchange_nodes` handler change the `nodes` table and rewrite bird.conf through
`sync_cluster_bird`, without the lock. The BGP listener feeds the flap detector
over a channel; that one task owns the trackers and writes `flap_events`. Browsers
log in over HTTP and then call the services below `/api` with a cookie; nodes call
each other's services with the cluster key, at the root.

## 2. ConfigApply

**State.** `table` is the `peers` table (a row keeps its id, interface name,
`enabled` and a revision that changes with its content); `db` counts the
committed writes of peers and of settings, so that a *version* is a pair of
numbers. `dirty`, `lock`, `pending`, `lastErr`, `lastAt`, `managed` are
`config_dirty`, `APPLY_LOCK` and the status fields. `birdConf` and `bird` are the
versions of bird.conf and of the running BIRD; `confs`, `link` and `loaded` are the
WireGuard file, the network interface and what was loaded into it, per interface
name. `pc`, `loc` and `job` are the position and the locals of every handler and of
every apply in progress.

**Actions.** Each handler is cut exactly where it awaits, because another task may
run there. `CreateCall .. CreateInsert`, `UpdateCall .. UpdateWrite`, `ToggleCall`,
`DeleteFind .. DeleteRmConf` and `MarkDirty` are the edits; `SaveSettings` and
`ApplyNowCall` go on as an apply; `RestartDown/RestartUp` are `restart_interface`.
`DebounceTick, AcquireLock, ReadPeers, ReadSettings, WriteConf, CheckLink,
CreateLink, SyncLink, ApplyBird, StampSuccess, ReportSuccess, ReportFailure` are
`apply_wg_bird`, each with its early return (`Abort`). `RejectEdit, CleanupFails,
RestartUpFails, ReadOrWriteFails, CreateFails, SyncFails, BirdFails` are every
error path; `Crash` loses the memory and keeps database, files and kernel; `Cancel`
is a client that goes away, upon which the server drops the handler at its await;
`GossipSettings/Peers/Bird` is `sync_cluster_bird`.

*Abstraction.* The text of a configuration is replaced by the version of the rows
it was generated from: this is what tells a stale configuration from a current
one. The toggle does not change the WireGuard file of a peer, so it does not
change `rev`. Creation and renaming of a temporary file is one step, since nobody
reads the temporary file. The debounce task's five seconds are left out: it may
tick whenever the flag is set.

**Specifications.** `QuietSpec` (nothing fails), `Spec` (commands and database fail,
the process restarts), `CancelSpec` (calls are abandoned too), `ClusterSpec` (a node
of a cluster), and `FairSpec` with fairness. `ApplyRecovery` adds to `FairSpec` one history
variable, `clean`: no failure and no restart since an edit was last written or an
apply asked for (`RFairSpec`). A bound on it: `apply_config_now` is called only when a
failure or restart has left something undone, the flag is not set and nothing is in
flight (`Rescue`); elsewhere it would be one more apply next to the debounced one.

**Properties.**
- `NoLostUpdate`: when the status says synced and BIRD does not run the database's
  configuration, an edit is still *outstanding* (flag set, about to be set, or an
  apply waiting for the lock) or a failure is about to be reported. This is what
  the order *swap flag, lock, read, deploy, stamp, clear error* achieves, and what
  clearing the flag at the end would break.
- `MonotonicDeploy`: the applies implement `Deployment` (`written <- db`, `deployed
  <- bird`): BIRD may lag and skip, but never goes back and is never ahead of the
  database, although each snapshot is read by two queries.
- `BirdConfNotBehind`: bird.conf lies between the running configuration and the
  database, so a restart of BIRD is a deployment too.
- `WgHonest`, `ManagedHonest`: in a *settled* synced state every enabled peer's
  interface exists (it may be down) and holds what its file holds, the current
  configuration, and the status lists exactly these interfaces. Nobody restarts an
  interface in the run that checks this: a `restart_interface` that fails after
  `wg-quick down` leaves none, under a status that says synced, as nothing flags it.
  What holds with such restarts is proved, `WgIsCurrent` in section 11.
- `UniqueIface`: the check of `create_peer`/`update_peer` works for calls that come
  one after another, however many, failing and abandoned ones too. Two creations that
  overlap both pass it, and nothing here covers that (see the hazards).
- `StatusConverges` and `Recovers`: liveness, under the fairness of section 9. A failed
  apply is not retried and a restart forgets the flag, so without a further edit
  nothing need ever be deployed. `Recovers` says that the next edit or request is
  enough: if no failure follows it, BIRD ends up with the database's configuration,
  wherever the work before was cut off.

## 3. Cluster

**State.** `nodes[v][t]` is the row of address `t` in node `v`'s table: its name (the
configured name of some node, or the `node-<address>` made up for a bootstrap peer),
key pair, tunnel address (0 for the empty string) and health. A configured node stands
for its own listen address; `Elsewhere` are addresses at which none listens. The halves
of a key pair are numbered by the startup that produced them. `boot` is the list of
bootstrap peers still to call with the node list they are sent (built once); `call[v]`
is the one `ExchangeNodes` call a node may have in flight, with the entries still to be
merged or learned; `streak` is `fail_streaks`, which the code compares with 2 only.

**Actions.** `Start` (`upsert_self`, bootstrap peers inserted), `BootCall`,
`BootDone`, `FindKey`, `StorePrivateKey`, `AssignIp` are the startup in `main.rs`
and `init_local_node`; the server listens only after them. A row that has the node's
name at another address makes `upsert_self` fail, and the node does not start. `Gossip`
(anti-entropy), `Merge` (the callee, one entry per step: other calls get between, and
the caller may give up in the middle), `Reply`, `Learn` (the caller) and `Refused` are an
exchange. `Upserted` is `upsert_by_name` with both of the table's unique columns:
a row with the same name is moved to the address that was sent with it, a row that has
the address under another name makes the statement fail, an unknown one is inserted
*offline*. `Check` is one node of a health-check round, with `Healthy`/`Unhealthy`;
`StaleCleanup` is `mark_stale`, of one row, and how long ago it was seen is left open.
`RegisterNode, UpdateNode, DeleteNode` are operators: any row, the node's own too, any
address, and any name of the set `Typed`. `Lost, InitFails, CheckFails, MarkOnlineFails,
Crash` are what can fail. Left out: the tunnel's IPv6 address (chosen like the IPv4 one)
and the text of `wg-cluster.conf`.

*Calls between nodes.* The HTTP front serves gRPC below `/api` only, and the
aggregator calls the other node at its root (see `glass_remote`), so at this commit a
call between two nodes gets a page for an answer. `Fronted` is the set of nodes
with something in front of them that maps the root to `/api`; it is a parameter, the
theorems hold for each of its values, and a call to any other node is `Refused`. Checks of
such a node fail. `cluster_tunnels` has none, which is the program as it is.

**Properties.**
- `OwnRowIntact`: as long as no operator has edited a table anywhere, a node that is up
  has its own row under its own name, and no other row has that name, although
  others send rows for its address under made-up names. With an edit this is false, and
  the model shows it: a wrong pairing of name and address is carried on by exchanges
  and `upsert_by_name` moves the receiver's own row.
- `TunnelHasKey`: a row with a tunnel address has a complete key pair whose halves
  belong together, wherever a startup was interrupted and the row was moved to.
- `TunnelsDiffer`: no table has a tunnel address twice, also when a node whose row was
  moved away makes itself another.
- `TunnelsStay`: only `delete_node` takes a tunnel out of a table; merges, moves, renaming,
  restarts and failures keep its keys and address together in some row.
- `DeadNodeEndsOffline`: liveness; even when the database drops the health check's
  updates, nodes restart and rows are edited, a dead node ends offline, because the
  clean-up is a second way.
- `CollisionsEnd` (violated, section 10): in the end no two nodes have the same tunnel
  address. It is also because of this that BirdConf can leave the sessions between nodes
  out: a node never gets the address of another.

## 4. FlapDetector

Time stamps are ages counted up to the longest period, one unit being the check
interval. `tracker` holds the ages of the changes of a prefix, `active` the ages of
its open events, `timer` how long the loop has waited. `FirstSeen`, `SamePath`,
`NewPath` are a path taken from the channel (each restarts the wait), `Tick` is
`resolve_stale` and then `evict_trackers`, `ReportFails`, `TickFails` and `Restart` are
database errors and the loss of the trackers. `log`, `quiet` and `forgotten` are
history variables: they record what happened independently of the program's
trackers, and the properties compare the program with them. `Retain` is `Vec::retain`:
what has left a period is dropped and the order is kept, written as a recursive function
so that it can be reasoned about; `NilAssumption` sets the absent tracker apart from
every list of ages.

- `OneEventPerPrefix`: trackers are lost by restarts and evictions and events are
  not, yet no second event is opened.
- `NoFalseAlarm`: an event is opened only after `Threshold` changes within `Window`.
- `NoEarlyAllClear`: an event is closed only when the prefix was quiet for longer
  than `Resolve` (or a restart lost its last change).
- `QuietIsResolved`: when no path arrives any more, every event is closed, also
  those whose tracker is gone.
- `CalmIsResolved`: the traffic of other prefixes may go on. If it leaves the loop
  again and again the time for a check, the event of a prefix that does not change
  any more is closed. Without such gaps it may stay open for ever, since the
  30-second wait starts anew with every received path.

## 5. PeerKeys

`nodeKey` stands for both columns of the pair, which one statement writes;
`peers` keeps of a row its id, its private key and whether this node's own handlers
wrote it last; `loc` is the request of a handler and the node key it has loaded.
`Select` and `Store` are the SELECT and the UPDATE of `SettingsRepository::load`;
`SaveCall`, `Save` are the load, merge and save of `save_settings` (the form has no
field for the pair, so it is written back as it was loaded); `CreateCall ..
Insert`, `UpdateCall .. Write` with `Filled` are `create_peer` and `update_peer` as
far as keys go; `PushCall`, `PushFind`, `PushInsert` are a proxied write and
`push_peer`. A gateway sends an empty `updated_at`, hence `PushFind` never
overwrites. `Start` loads the settings before the server listens, in cluster mode
only. `GiveUp` is every refusal and abandoned call, `Crash` loses the handlers.

- `NodeKeyIsStable`: the pair is kept although every save writes it back from an
  older load and every load may make one up.
- `PeersShareTheNodeKey`: all keys the node gave away are the one it has, so that
  the public key it shows fits every peer.
- `LocalPeersHaveAKey`: peers pushed without a key do not overwrite local ones.

All three need cluster mode. With `ClusterMode = FALSE` TLC finds two first loads
that both make up a pair: nothing loads the row before the server listens.

## 6. BirdConf

`peers` keeps of a row what reaches bird.conf or the tags: whether it is enabled,
where it is hosted, whether it has a private key, and its mode (multiprotocol,
extended next hop, sessions wanted, addresses given). `filters`, `rules`, `probes` are
the setting `enable_community_filters`, the enabled rules and the latest probe result
from this node to each node; `conf` is the set of peers' sessions in the file.
`CreatePeer, PushPeer, UpdatePeer, TogglePeer, DeletePeer, SaveSettings, SaveRule,
DropRule, Probe, ExpireProbes` are the changes of the database, `ApplyBird` and
`SyncBird` the two writers. `ApplyBird` chooses the peers for which a query failed, as
`apply_wg_bird` then leaves out their tags. When a write happens, and what it races
with, is in `ConfigApply`; here a write is one step.

- `SessionsMatchPeers`: a file has sessions for exactly the enabled peers that have
  an address for a family they want or speak multiprotocol BGP, never two to one
  address, whichever writer wrote it and whatever tags it found.

No property is about the tags themselves. What the documents say of them is not what the
code does (section 10): the mapper finds no probe for a peer hosted elsewhere, since it is
given the listen address for a node id, takes a local peer for measured, and does not look at the
bandwidth a rule asks for; all three are in the model (`ByApply`, `Communities`, `Matches`).

Latencies and losses are small numbers; only their order matters to a rule.
Left out: the head of the file and the filters in it, the sessions between nodes,
limits and passive mode, and rows that failed validation.

## 7. BgpListener and BgpUpdate

`BgpUpdate` is a pure module on sequences of octets: `ParseUpdate`, `ParseNlri`,
`HashAttributes` are the functions of `bgp_listener.rs` with their cut-off rules;
`EncodeUpdate` and `Announced` are the reference, what a speaker writes to say that
routes were withdrawn and announced. `WellFormed` says which updates a speaker can write:
IPv4 prefixes whose unwritten octets are zero (`IPv4Prefix`), attributes whose value fits
the length field they use (`Attribute`), all in a message whose length fits two bytes.
Hashes are taken to be free of collisions, so a path is the bag of types and values of
the attributes (`PathOf`), as the code sorts them before it hashes.

`BgpListener` has one session per connection. `wire` is the TCP stream: a header per
message and a body if there is one (`read_exact` never sees half of one, it waits).
`SayOpen, SayUpdate, SayOther, Hangup` are the speaker; `Accept, ReadOpen,
ReadMessage, StreamEnds, Send` are `handle_session` between its awaits, `Receive` is
the loop of the detector. A message of unknown type is drained; a body that is left
in the stream would be taken for a header. `Parsed` is `ParseUpdate` of the encoded
update, tabulated for the updates that are sent; `SpeakerAssumption` is that these are
well-formed. `Queued` are the changes of a session in the channel.

- `ReportsWhatIsSaid`: what was taken, queued and parsed of a session is a prefix
  of what its speaker announced: same prefixes, same order, and the same path
  exactly when type and value of all attributes agree.
- `EverythingArrives` (liveness): all of it, even with the channel full and the
  speaker gone.
The interval between our keepalives is kept (`KeepaliveEvery`), with the hold time read two
octets into the body, one too early, across the AS number and the hold time. No property is
about it: whatever is read there gives at most 20 seconds, enough for hold times of 60
and more, and shorter ones are not honoured (see the hazards).

Left out: malformed messages and headers with a length below 19, IPv6 routes
(MP_REACH_NLRI is only hashed, never reported), write errors, shutdown, and the capabilities
of our own OPEN: it offers AddPath (`bgp_listener.rs:219`), and a speaker that agreed would put
a path identifier before each prefix, which the parser does not expect. Speakers
here do not agree.

## 8. Login and LookingGlass

**Login.** `attempts` is the map of `LOGIN_RATE_LIMITER`, `jar` the cookie each browser
keeps, `secret` the signing secret, numbered by the start that made it up. `Admit` and
`Refuse` are `LoginRateLimiter::check`, with the window of `Current` and `Counted`;
`WrongPassword` and `LogIn` are `handle_login` behind it, `LogOut` takes the cookie away
(the token itself stays good), `Valid` is `verify_token`, `Forget` a restart. `when`,
`opened`, `promised` and `entered` are history variables. Counts above the limit are
taken as alike; the monotonic clock of the limiter and the wall clock of the tokens
are one; passwords and signatures are right or wrong.

- `FewGuesses`: twice the limit of tries that get through take at least a window's time,
  from the first to the last. One fewer may come at once, which is what a fixed window
  allows: a first try, and around the edge the rest of its window and all of the next.
  A window that ends a moment early or one try more in it already breaks this.
- `PromiseKept`: "try again in ... seconds" is true: from then on the address gets a
  full quota before it is refused again, however impatient it was.

**LookingGlass** extends Login. A query is up to two calls, from the browser to this
node and from this node to another; `pc`, `call`, `conn`, `out`, `reply` are the position
and the locals of each. `Ask` and `Collect` are the browser; `ServeStatic` and `Mounted`
the front; `CheckAuth, Allowlist, Forward, TakeReply` are `execute_command`;
`Connect, ReadBanner, SayRestrict, Restricted, SayCommand, MoreText, EndOfText,
ErrorLine` are `BirdSocket`, one action per line read or written. `Greet, Oblige,
Respond` are BIRD, which is external. `HangUp, Fails, ForwardFails, Abandon, Restart`
are what can go wrong: BIRD goes away after any line (not within one, where the code
would take the piece for a line), the socket or the other node is
not there or too slow, the browser leaves, this node restarts. An answer is the
sequence of its lines; how lines are put together again is formatting. `TextAssumption`
keeps text apart from the other kinds of line, which BIRD tells apart by their codes.

- `BirdIsGuarded`: BIRD, here or elsewhere, is only spoken to, with an allowed command,
  for a browser that logged in since the secret was made up and not longer ago than a
  token lives, leeway included. It relates the socket, at the end of a query, to the
  login, whatever expired, logged out or restarted in between.
- `AnswersAreWhole`: an answer that is no error is all of what BIRD said to this
  command, or the beginning of it if BIRD hung up: the end of the answer to
  `restrict` is never taken for it, and an error never for text.
- `EveryQueryEnds`: liveness; every query is answered, with an error if need be.
- `RemoteQueryWorks` (violated, section 10): without any failure, a logged-in user's
  allowed query to another node reaches the BIRD of that node.

## 9. Runs

| Run | Specification and bounds | Shows |
|---|---|---|
| `apply_safety` | `RFairSpec`, two calls, one interface, two writes | `TypeOK`, `NoLostUpdate`, `WgHonest`, `ManagedHonest`, `StatusConverges`, `Recovers` with every failure and restart |
| `apply_deploy` | `CancelSpec`, one call of any kind, two interfaces, three writes | `UniqueIface`, `BirdConfNotBehind`, refinement of `Deployment` |
| `apply_orphan` | `QuietSpec`, one call | violated: `DeletedPeerLeavesNothing` |
| `apply_gossip` | `ClusterSpec`, one call | violated: `MonotonicDeploy` |
| `cluster` | `FairSpec`, two nodes of which one is reached by calls, one address where nobody listens, two addresses in the tunnel range, one crash or failed startup, one edit of any row | the six properties of section 3 |
| `cluster_tunnels` | `QuietFairSpec`, two nodes, no calls arrive | violated: `CollisionsEnd` |
| `flap` | two prefixes, window 2, threshold 3, resolve 3, ttl 4 intervals, three changes, one fault | the five properties of section 4 |
| `keys` | two calls, four keys, two peers, cluster mode | the three properties of section 5 |
| `bird` | two peers, two nodes, two links, two rules, five modes, four changes | `TypeOK`, `SessionsMatchPeers` |
| `bgp` | two sessions with three and two messages, five updates, a channel of two | `TypeOK` and the two properties of section 7 |
| `glass` | one browser, one query at a time, two nodes; limit 2, window 2, tokens of 1 with a leeway of 1, time up to 3, five tries, one restart; an output of two lines | the five properties of section 8 |
| `glass_remote` | `HealthySpec`, the same instance | violated: `RemoteQueryWorks` |

*Why the bounds are enough.* A race of ConfigApply is between the debounced apply and
one handler, or between two handlers: two calls next to the debounce task have
all of them, and with two writes a snapshot can be older, equal or mixed. Two
interfaces are needed for a rename and for an apply that fails at one of several.
There `apply_config_now` starts only when something is left to deploy and the debounce
task has nothing to do (`AskedInNeed` of MCConfigApply); an apply that is asked for next
to another one is in `apply_safety`, whose two calls race.
In Cluster every message has two ends, and what a third node adds is a row learned
from hearsay, as the address where nobody listens does. Calls arrive at one of the nodes, so
each of them is caller or callee, but not both; operators type the configured names, for
any row and address, which pairs a name with a wrong address, and one such edit is
enough for the exchanges to move the other node's own row, as the rows are merged in any order.
Edits of both tables, more faults, and calls in both directions are in the proofs.
The periods of FlapDetector keep the order of the real ones (60, 300 and 600
seconds against a check every 30), so that each boundary is met from both sides.
In BirdConf a wrong session needs a peer that was edited after it was created and
then a write: four changes reach it with both peers in the file; the links lie on
both sides of a rule's limits, so files with and without tags are written.
Of PeerKeys, two handlers and the startup can each have made up a key, and a fourth
is free. An update of the BGP run has up to three changes and the channel two places,
so a session waits in the middle of an update, also while the other one fills the
channel; the updates have prefixes of 0, 8, 14 and 32 bits, attributes in two
orders and with both forms of a length. In the `glass` run the time has two windows from
beginning to end, so that four tries, twice the limit and what `FewGuesses` speaks of, get
through in two windows and at both sides of the edge; a token expires within the
time there is, with the leeway on either side of the clock's end; and two queries
share nothing but the logins, so that one at a time shows what happens to a query.
The proofs of section 11 have no such bounds.

*Fairness.* `WF` of a handler's or task's next step: every await returns, since
SQLite, files and (as the code assumes) commands answer, and tokio schedules what
is ready. `SF` of `AcquireLock`: tokio's mutex hands the lock over in the order of
arrival, so nobody is overtaken for ever. `WF` of `DebounceTick`, `Check`,
`StaleCleanup`, `Tock`, `Tick`: intervals tick. `SF` of `Gossip` in `QuietFairSpec`: the
anti-entropy task picks a random online node every round, so a node that is online
again and again is picked again and again. `SF` of `Send`: senders that wait for
room in a tokio channel are served in order. `WF` of `BirdStep`: BIRD answers what it is
asked or closes its socket, on which `EveryQueryEnds` depends, since reads from it have
no timeout. No fairness for clients, browsers, operators, speakers, crashes or failures. `bgp`,
`apply_orphan`, `cluster` and `cluster_tunnels` do not check for deadlock: once every
session has ended, or every write, edit and restart has been spent, those instances
may stop.

## 10. What the code does otherwise than its documents say

Each has a run that ends in a counterexample and a quotation in `PROJECT.json`.
A deleted peer's interface comes back (`apply_orphan`); gossip undoes an apply
(`apply_gossip`); nodes that took the same tunnel address keep it (`cluster_tunnels`); the
looking glass of another node cannot be reached (`glass_remote`).

About tunnel addresses, `docs/superpowers/specs/2026-05-21-wg-bird-direct-management-design.md:49`
says that gossip includes them, and line 57 that a collision makes one of the nodes
re-assign. The code's requests leave the tunnel fields empty and its callers drop them from
the replies, a node that has an address keeps it unlooked at, and a new node's table has no
address but its own: all nodes take the first of the range. The iBGP full mesh of
`README.md:114` cannot come up between them. With a front that lets calls arrive
the run ends the same way.

Others were met and have no run, see the hazards: an apply that leaves through `?`
keeps `pending` set and records no error; a proxied update is always skipped while
the gateway reports success; two concurrent creations may share an interface name; a node enters a table offline and only turns
online after two failed checks, so that even where calls arrive nobody in a healthy cluster is
online (with `Fronted = Node` the model has it); an operator's wrong pairing of name and address
moves other nodes' own rows; an edit in the web interface
replaces a key that was supplied for the peer (`Filled` in PeerKeys shows it); tags
do not follow probe results and vanish at the next exchange, peers hosted elsewhere never get
one, and the bandwidth that a rule asks for, which `community_mapper.rs:11`, `README.md:20` and 155-158 and
`docs/superpowers/specs/2026-05-20-network-optimization-design.md:150-154` say is matched, is skipped
(`community_mapper.rs:54`); a speaker's hold time below 60 seconds is read wrong; with `roa_mode` "none"
bird.conf uses ROA tables that it does not declare; wg-cluster.conf loses its private
key at an exchange; a traceroute runs on the node that is asked, whatever node was
chosen.

## 11. Proofs

All theorems hold for any number of calls, interfaces, nodes, addresses, keys, prefixes,
sessions and queries, and for every value of the periods, limits and bounds. Every
invariant that a passing run checks and every action property is the statement of one of them, except
`WgHonest` and `UniqueIface`.

*ConfigApply* (assumptions: the named ones on constants). `Typing` is by induction
with `TypeInv = TypeOK /\ CarriesRow`: a handler past its check carries a row, without
which its write is not typed. `DeploymentIsMonotonic` and `BirdRestartIsSafe` hold for
`CancelSpec`, with abandoned calls and restarts. Their invariant is `OrderInv =
Exclusive /\ Ordered`: only the holder of the lock is between its reads and the
reload, and what it has read lies between bird.conf and the database; `Ordered`
alone is not inductive, since a second apply could then deploy an older snapshot.
Each step of `ConfigApply` maps to a step of `Deployment` or to a stutter. In
`NoEditIsForgotten` the invariant `Covered` says of every apply in progress that what
it has read is current or that something outstanding will repair it; the theorem
is about `Spec`, since an abandoned `save_settings` leaves an edit that nothing flags.

`ManagedIsHonest` and `WgAlwaysCurrent` are about the same specification. The second is about
`WgIsCurrent`: in a settled synced state the file of every enabled peer's interface is that of
the rows and settings of now, and so is what runs in the kernel, unless the interface is not
there. It is `WgHonest` without the claim that the interface exists, which is false of the
code: `restart_interface` may fail after `wg-quick down`, and nothing flags that. So it needs
no assumption on restarts, and says what a status card can be trusted for. Neither property can
be had from the settled states alone: the invariants `Listed` and `BroughtUp` say what an
apply has achieved at each step of its loop, which interfaces are right already and which
are still to do, and say it only while nothing is `Outstanding`, since otherwise a later
apply will do the work again. Two enabled peers may share an interface name for a
while, and then `BroughtUp` must not ask for the first one's interface while the second
one's file is written. Steps outside the applies either leave rows, files and
interfaces alone or leave something outstanding (`QuietOutside`).

*Cluster.* The base of all (`Base`) is typing with two facts about what is under way: between
`Start` and `AssignIp` the node's own row is there (`Starting`), as nobody calls or edits a node
that does not serve yet, and the lists in flight to a callee carry rows without tunnel
fields (`SentEmpty`), which is why a merge cannot overwrite them. `TunnelKeysAreKept` needs
`KeyInv`, which follows a startup through its three statements: between them the halves may
differ, but then there is no address yet. `TunnelsAlwaysStay` and `TunnelsAlwaysDiffer` rest
on one observation about each step: every row of the new table was carried over, perhaps
under another name and to another address, or is new and has no tunnel, and no row is
carried to two places; only `AssignIp` makes an address, and it takes one that no row has.
`OwnRowIsKept` is from `OwnInv`: while nobody has edited a table, the configured name of a node
stands beside its own address in every table, list and reply. All of them hold for every set
of nodes that calls reach, for any bootstrap lists and any number of edits and faults.

*FlapDetector.* One invariant, `FlapInv`, gives all four theorems: besides types
(`Shapes`), a tracker knows when its prefix changed last (`KnowsLast`), what it has within
the window is the end of what really happened (`KnowsLatest`), and a prefix has at most one
open event. The middle ones relate the program's list to the history, which are cut at
different times: the list when a path arrives or a tick evicts, the history with every
unit of time. That the orders do not matter is a fact about `Retain` (`OlderWithin`: dropping
what is old before or after ageing is the same), proved by induction on lists.
`AlarmsAreTrue` and `AllClearsAreTrue` are action properties, from what each step may
say (`HonestStep`). `OneEventEver` needs no identity of events: an event is only opened
for a prefix that has none in the table, in one step.

*PeerKeys.* `KeyTyping` in both modes; the other theorems under `ClusterMode`. `KeyInv`
says that nobody serves before the pair exists, that only the startup can be between
`Select` and `Store`, and that a handler past its load has exactly `nodeKey`; without
the last part a save could write an older pair back.

*BirdConf.* Only the two writers change `conf`, and both write `FullConfig` of some
assignment of tags (`WrittenBySomebody`). `SessionsAlwaysMatch` follows by cases on the
mode of a peer, for which it needs typing (`BirdTyping`).

*BgpUpdate and BgpListener.* `ParserReadsWhatIsSaid` is about the pure functions: of every
well-formed update, the parser reads from the bytes exactly the changes that it
announces, prefixes of any length, attributes in any order and with both forms of a
length. A parser is a reader of pieces (`Reads`: a position, what is read there, where
the next piece starts), and one lemma says that a reader that stops nowhere inside a
sequence of written pieces finds their items (`Finds`); what remains is one piece of each
kind and where pieces end in the flattened message. `ListenerTyping` and
`WhatIsSaidIsReported` come from `BgpInv`: `HeardSoFar` says that a stream is a sequence of
whole messages, and that what was taken, queued, parsed and is still to be read of a
session is together what its speaker announced. No step may leave half a message in the
stream, which is why bodies of unknown type must be drained. The first message is the
greeting (`Greets`). The theorems hold for every set of well-formed updates, any number of
sessions and any capacity of the channel; the only assumption about speakers is
`SpeakerAssumption`.

*Login and LookingGlass.* `LoginInv` relates the limiter's entry to the history: tries that got
through are counted in the window that they were let through in, at most the limit of them
per window, a window begins with its first such try, and windows do not overlap. From this
`GuessingIsSlow`: two quotas either lie in three windows, with a whole one in between, or
fill two of them, and then the first try began the one and the last one is in the next; and
`RefusalsAreFair`, since a refused try never moves the start of a window.
`GlassIsLogin` shows that every step of the looking glass is a step of `LoginSpec` or
leaves its variables alone, so that both theorems hold of it as well.
`BirdIsAlwaysGuarded` needs `GuardInv`: `JarInv` says of every cookie signed with the
present secret that its browser logged in when the token says, and `LegInv` takes
that along a query, from the cookie through `checked` to the connection; a
forwarded call never gets so far, which needs `Paired`, that a far call waits for its
own query's.
`AnswersAreAlwaysWhole` adds `WholeInv`, one conversation with BIRD at a time (`TalkInv`):
before the command is sent nothing of an answer to it can be on the wire, since the
welcome line and the answer to `restrict` were each waited for; from then on the text read
and the lines on the wire are, in order, what BIRD said (`Carries`), less what a hang-up
cut off, and only the last line of an answer ends one. A call that is forwarded has
no conversation of its own (`Silent`), and one that was dropped starts afresh. It needs
`GuardInv`, by which a far call never comes to talk.

*Only model-checked.* `WgHonest`, since it is false once interfaces are restarted (`WgAlwaysCurrent` is what
remains), and `UniqueIface`, since it is false once two editing calls overlap. Liveness (`Recovers`, `StatusConverges`, `DeadNodeEndsOffline`,
`QuietIsResolved`, `CalmIsResolved`, `EverythingArrives`, `EveryQueryEnds`), which is out of
the prover's reach, as it needs fairness and ENABLED.

*Induction over data.* The induction theorems of the library take a predicate as a
parameter, which the provers cannot instantiate. `NatSetInduction` and
`SeqSetInduction` take a set instead: a set that has 0, or the empty sequence, and with
each element the next, has them all. The first follows from the library's theorem that
every non-empty set of natural numbers has a least element, the second from the first. What `Retain`, `FlattenSeq` and the parser
compute for every input is proved with them.

## 12. Not modelled, and what comes next

Not modelled: what the inventory marks so. Text generation, syntactic validation,
cryptography, transport and pages have no state of their own and are tested well
by examples. The fan-out reads and the cluster cache have no caller at this commit.

Next, in this order:
1. *Extend.* The head of bird.conf with its ROA tables; the DN42 defaults (two peers of
   one node get the same listen port); wg-cluster.conf in `Cluster` (its key is lost after
   an exchange); a hang-up of BIRD within a line.
2. *Compose.* BgpListener with FlapDetector over the channel: what the detector knows
   of a prefix follows what was said of it. An abstract specification of a reporting
   channel (in order, nothing lost) for BgpListener to implement.
3. *Prove.* That the abstract channel of item 2 is implemented, from `HeardSoFar`; the
   facts of wg-cluster.conf once it is in `Cluster`.
