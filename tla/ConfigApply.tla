---------------------------- MODULE ConfigApply ----------------------------
(***************************************************************************)
(* How an edit of the database becomes WireGuard and BIRD configuration.   *)
(*                                                                         *)
(* gRPC handlers (Req) edit the peers and the settings.  A peer edit sets  *)
(* config_dirty; the debounce task swaps the flag every five seconds and   *)
(* calls apply_wg_bird; saving the settings and ApplyConfigNow call it at  *)
(* once.  apply_wg_bird runs under APPLY_LOCK: it reads the peers, then    *)
(* the settings, brings up one WireGuard interface per enabled peer, and   *)
(* then writes and reloads bird.conf.  In a cluster the gossip code also   *)
(* rewrites bird.conf, without the lock (Gossip).                          *)
(*                                                                         *)
(* Every handler is cut at its awaits.  The content of a configuration is  *)
(* abstracted to the version of the rows it was generated from.            *)
(***************************************************************************)
EXTENDS Naturals, FiniteSets

CONSTANTS
    Req,          \* slots for gRPC calls in flight
    Debounce,     \* the debounced apply task
    Gossip,       \* the cluster code that calls sync_cluster_bird
    NoProc,       \* nobody holds APPLY_LOCK
    Iface,        \* WireGuard interface names
    NoRow,        \* a handler that carries no peer
    NoConf,       \* no configuration file, or nothing loaded
    Ops,          \* the calls the clients of this instance make
    MaxWrites     \* bound: database writes in a behaviour

Proc == Req \cup {Debounce}
Version == [peers : Nat, settings : Nat]
Row == [id : Nat, iface : Iface, on : BOOLEAN, rev : Nat]
Conf == [id : Nat, rev : Nat, settings : Nat]
Job == [todo : SUBSET Row, cur : Row \cup {NoRow}, ver : Version]

AllOps == {"create", "update", "delete", "toggle", "settings", "apply_now",
           "restart"}

ASSUME ProcAssumption ==
    /\ Debounce \notin Req
    /\ Gossip \notin Proc
    /\ NoProc \notin Proc
ASSUME OpsAssumption == Ops \subseteq AllOps
ASSUME BoundAssumption == MaxWrites \in Nat
ASSUME NilAssumption == NoRow \notin Row /\ NoConf \notin Conf

VARIABLES
    table,      \* the peers table: a set of rows
    db,         \* how often peers and settings were written
    dirty,      \* config_dirty
    lock,       \* holder of APPLY_LOCK
    pending,    \* ApplyStatus.pending
    lastErr,    \* ApplyStatus.last_apply_error is Some
    lastAt,     \* ApplyStatus.last_apply_at is Some
    managed,    \* ApplyStatus.managed_interfaces
    birdConf,   \* version of /etc/bird/bird.conf
    bird,       \* version the BIRD daemon runs
    confs,      \* /etc/wireguard/<iface>.conf
    link,       \* the network interfaces
    loaded,     \* configuration loaded in the interface
    pc,         \* where each process is
    loc,        \* the peer a handler works on
    job         \* the locals of an apply

status == <<pending, lastErr, lastAt, managed>>
files == <<birdConf, confs>>
kernel == <<bird, link, loaded>>
vars == <<table, db, dirty, lock, status, files, kernel, pc, loc, job>>

Zero == [peers |-> 0, settings |-> 0]
NoJob == [todo |-> {}, cur |-> NoRow, ver |-> Zero]

\* Where a handler has not written yet, where it has and has not reported
\* it, and the steps of an apply, which run under the lock.
EditPC == {"c_check", "c_insert", "u_check", "u_find", "u_write", "d_find",
           "d_delete"}
OwesPC == {"d_down", "d_rmconf", "mark"}
HoldPC == {"read_peers", "read_settings", "wg", "wg_check", "wg_create",
           "wg_sync", "stamp", "clear_err", "set_err"}
PC == {"idle", "lock", "r_down", "r_up", "g_peers", "g_apply"}
          \cup EditPC \cup OwesPC \cup HoldPC

Init ==
    /\ table = {}
    /\ db = Zero
    /\ dirty = FALSE
    /\ lock = NoProc
    /\ pending = FALSE
    /\ lastErr = FALSE
    /\ lastAt = FALSE
    /\ managed = {}
    /\ birdConf = Zero
    /\ bird = Zero
    /\ confs = [i \in Iface |-> NoConf]
    /\ link = [i \in Iface |-> "absent"]
    /\ loaded = [i \in Iface |-> NoConf]
    /\ pc = [p \in Proc \cup {Gossip} |-> "idle"]
    /\ loc = [r \in Req |-> NoRow]
    /\ job = [p \in Proc \cup {Gossip} |-> NoJob]

Goto(p, label) == pc' = [pc EXCEPT ![p] = label]

\* p goes from one step of its handler to the next.
Step(p, from, to) == pc[p] = from /\ Goto(p, to)

\* A call arrives and is answered.
Accept(r, op, label, row) ==
    /\ op \in Ops
    /\ pc[r] = "idle"
    /\ Goto(r, label)
    /\ loc' = [loc EXCEPT ![r] = row]

Answer(r) ==
    /\ Goto(r, "idle")
    /\ loc' = [loc EXCEPT ![r] = NoRow]

\* Bound: no edit is accepted once MaxWrites are committed (those in flight
\* still commit theirs).
CanEdit == db.peers + db.settings < MaxWrites

PeerWrite == db' = [db EXCEPT !.peers = @ + 1]

\* Mutant: an empty interface name is not replaced by a default.
RequestedUnnamed(id, i) == [id |-> id, iface |-> NoConf, on |-> TRUE, rev |-> 0]

\* The row a request describes: no id yet, and always enabled.
Requested(id, i) == [id |-> id, iface |-> i, on |-> TRUE, rev |-> 0]

\* The configuration generated from a row.
ConfOf(row, s) == [id |-> row.id, rev |-> row.rev, settings |-> s]

OthersUse(row) == \E q \in table : q.id # row.id /\ q.iface = row.iface

-----------------------------------------------------------------------------
(* Editing peers and settings *)

CreateCall(r) ==
    /\ CanEdit
    /\ \E i \in Iface : Accept(r, "create", "c_check", Requested(0, i))
    /\ UNCHANGED <<table, db, dirty, lock, status, files, kernel, job>>

CreateCheck(r) ==
    /\ pc[r] = "c_check"
    /\ IF OthersUse(loc[r]) THEN Answer(r)
                            ELSE Goto(r, "c_insert") /\ UNCHANGED loc
    /\ UNCHANGED <<table, db, dirty, lock, status, files, kernel, job>>

\* create_full: a fresh id (the write's own number), enabled.
CreateInsert(r) ==
    /\ Step(r, "c_insert", "mark")
    /\ PeerWrite
    /\ table' = table \cup
         {[loc[r] EXCEPT !.id = db'.peers, !.rev = db'.peers]}
    /\ UNCHANGED <<dirty, lock, status, files, kernel, loc, job>>

UpdateCall(r) ==
    /\ CanEdit
    /\ \E row \in table, i \in Iface :
         Accept(r, "update", "u_check", Requested(row.id, i))
    /\ UNCHANGED <<table, db, dirty, lock, status, files, kernel, job>>

\* Mutant: update_peer does not check the interface name.
UpdateUnchecked(r) ==
    /\ Step(r, "u_check", "u_find")
    /\ UNCHANGED <<table, db, dirty, lock, status, files, kernel, loc, job>>

UpdateCheck(r) ==
    /\ pc[r] = "u_check"
    /\ IF OthersUse(loc[r]) THEN Answer(r)
                            ELSE Goto(r, "u_find") /\ UNCHANGED loc
    /\ UNCHANGED <<table, db, dirty, lock, status, files, kernel, job>>

\* find_by_id, then apply_proto: "enabled" keeps the value read here.
UpdateFind(r) ==
    /\ pc[r] = "u_find"
    /\ \/ /\ \A row \in table : row.id # loc[r].id
          /\ Answer(r)
       \/ /\ \E row \in table :
               /\ row.id = loc[r].id
               /\ loc' = [loc EXCEPT ![r].on = row.on]
          /\ Goto(r, "u_write")
    /\ UNCHANGED <<table, db, dirty, lock, status, files, kernel, job>>

\* UPDATE ... WHERE id = ?: every column, "enabled" included, or no row.
UpdateWrite(r) ==
    /\ pc[r] = "u_write"
    /\ \/ /\ \A row \in table : row.id # loc[r].id
          /\ Answer(r)
          /\ UNCHANGED <<table, db>>
       \/ /\ \E row \in table :
               /\ row.id = loc[r].id
               /\ PeerWrite
               /\ table' = (table \ {row}) \cup
                    {[loc[r] EXCEPT !.rev = db'.peers]}
          /\ Goto(r, "mark")
          /\ UNCHANGED loc
    /\ UNCHANGED <<dirty, lock, status, files, kernel, job>>

ToggleCall(r) ==
    /\ CanEdit
    /\ \E row \in table :
         /\ Accept(r, "toggle", "mark", row)
         /\ PeerWrite
         /\ table' = (table \ {row}) \cup {[row EXCEPT !.on = ~@]}
    /\ UNCHANGED <<dirty, lock, status, files, kernel, job>>

\* delete_peer reads the row first, to know which interface to clean up.
DeleteFind(r) ==
    /\ CanEdit
    /\ \E row \in table : Accept(r, "delete", "d_delete", row)
    /\ UNCHANGED <<table, db, dirty, lock, status, files, kernel, job>>

DeleteRow(r) ==
    /\ pc[r] = "d_delete"
    /\ \/ /\ \A row \in table : row.id # loc[r].id
          /\ Answer(r)
          /\ UNCHANGED <<table, db>>
       \/ /\ \E row \in table :
               /\ row.id = loc[r].id
               /\ PeerWrite
               /\ table' = table \ {row}
          /\ Goto(r, "d_down")
          /\ UNCHANGED loc
    /\ UNCHANGED <<dirty, lock, status, files, kernel, job>>

\* wg-quick down reads the conf file, and does nothing without one.
TakeDown(i) ==
    IF confs[i] # NoConf
    THEN /\ link' = [link EXCEPT ![i] = "absent"]
         /\ loaded' = [loaded EXCEPT ![i] = NoConf]
    ELSE UNCHANGED <<link, loaded>>

\* remove_wg_interface: take the interface down, then remove its file.
DeleteDown(r) ==
    /\ Step(r, "d_down", "d_rmconf")
    /\ TakeDown(loc[r].iface)
    /\ UNCHANGED <<table, db, dirty, lock, status, files, bird, loc, job>>

DeleteRmConf(r) ==
    /\ Step(r, "d_rmconf", "mark")
    /\ confs' = [confs EXCEPT ![loc[r].iface] = NoConf]
    /\ UNCHANGED <<table, db, dirty, lock, status, birdConf, kernel, loc, job>>

\* config_dirty.store(true), the last thing every peer edit does.
MarkDirty(r) ==
    /\ pc[r] = "mark"
    /\ dirty' = TRUE
    /\ Answer(r)
    /\ UNCHANGED <<table, db, lock, status, files, kernel, job>>

\* save_settings: the row is written and an apply follows at once.
SaveSettings(r) ==
    /\ CanEdit
    /\ Accept(r, "settings", "lock", NoRow)
    /\ db' = [db EXCEPT !.settings = @ + 1]
    /\ UNCHANGED <<table, dirty, lock, status, files, kernel, job>>

ApplyNowCall(r) ==
    /\ Accept(r, "apply_now", "lock", NoRow)
    /\ UNCHANGED <<table, db, dirty, lock, status, files, kernel, job>>

\* restart_interface: wg-quick down, then wg-quick up, outside the lock.
RestartCall(r) ==
    /\ \E i \in Iface : Accept(r, "restart", "r_down", Requested(0, i))
    /\ UNCHANGED <<table, db, dirty, lock, status, files, kernel, job>>

RestartDown(r) ==
    /\ Step(r, "r_down", "r_up")
    /\ TakeDown(loc[r].iface)
    /\ UNCHANGED <<table, db, dirty, lock, status, files, bird, loc, job>>

\* wg-quick up fails when the file is missing or the interface exists.
RestartUp(r) ==
    /\ pc[r] = "r_up"
    /\ LET i == loc[r].iface IN
         IF confs[i] # NoConf /\ link[i] = "absent"
         THEN /\ link' = [link EXCEPT ![i] = "up"]
              /\ loaded' = [loaded EXCEPT ![i] = confs[i]]
         ELSE UNCHANGED <<link, loaded>>
    /\ Answer(r)
    /\ UNCHANGED <<table, db, dirty, lock, status, files, bird, job>>

EditStep(r) ==
    \/ CreateCheck(r) \/ CreateInsert(r)
    \/ UpdateCheck(r) \/ UpdateFind(r) \/ UpdateWrite(r)
    \/ DeleteRow(r) \/ DeleteDown(r) \/ DeleteRmConf(r)
    \/ MarkDirty(r)
    \/ RestartDown(r) \/ RestartUp(r)

Call(r) ==
    \/ CreateCall(r) \/ UpdateCall(r) \/ DeleteFind(r) \/ ToggleCall(r)
    \/ SaveSettings(r) \/ ApplyNowCall(r) \/ RestartCall(r)

-----------------------------------------------------------------------------
(* apply_wg_bird *)

\* The debounce task: config_dirty.swap(false), then apply.
DebounceTick ==
    /\ dirty
    /\ Step(Debounce, "idle", "lock")
    /\ dirty' = FALSE
    /\ UNCHANGED <<table, db, lock, status, files, kernel, loc, job>>

\* Mutant: apply_wg_bird does not wait for APPLY_LOCK.
AcquireUnlocked(p) ==
    /\ Step(p, "lock", "read_peers")
    /\ lock' = p
    /\ pending' = TRUE
    /\ UNCHANGED <<table, db, dirty, lastErr, lastAt, managed, files, kernel,
                   loc, job>>

AcquireLock(p) ==
    /\ Step(p, "lock", "read_peers")
    /\ lock = NoProc
    /\ lock' = p
    /\ pending' = TRUE
    /\ UNCHANGED <<table, db, dirty, lastErr, lastAt, managed, files, kernel,
                   loc, job>>

ReadPeers(p) ==
    /\ Step(p, "read_peers", "read_settings")
    /\ job' = [job EXCEPT ![p] =
         [todo |-> {row \in table : row.on}, cur |-> NoRow,
          ver |-> [peers |-> db.peers, settings |-> 0]]]
    /\ UNCHANGED <<table, db, dirty, lock, status, files, kernel, loc>>

IfacesOf(rows) == {row.iface : row \in rows}

\* Mutant: the managed interfaces are taken from all peers.
ReadSettingsUnfiltered(p) ==
    /\ Step(p, "read_settings", "wg")
    /\ job' = [job EXCEPT ![p].ver.settings = db.settings]
    /\ managed' = IfacesOf(table)
    /\ UNCHANGED <<table, db, dirty, lock, pending, lastErr, lastAt, files,
                   kernel, loc>>

ReadSettings(p) ==
    /\ Step(p, "read_settings", "wg")
    /\ job' = [job EXCEPT ![p].ver.settings = db.settings]
    /\ managed' = IfacesOf(job[p].todo)
    /\ UNCHANGED <<table, db, dirty, lock, pending, lastErr, lastAt, files,
                   kernel, loc>>

\* Write to a temporary file and rename it over <iface>.conf.
WriteConf(p) ==
    /\ Step(p, "wg", "wg_check")
    /\ \E row \in job[p].todo :
         /\ confs' = [confs EXCEPT ![row.iface] =
                        ConfOf(row, job[p].ver.settings)]
         /\ job' = [job EXCEPT ![p].cur = row, ![p].todo = @ \ {row}]
    /\ UNCHANGED <<table, db, dirty, lock, status, birdConf, kernel, loc>>

\* The apply returns an error before BIRD is reached: "pending" stays set.
Abort(p) ==
    /\ Goto(p, "idle")
    /\ lock' = NoProc
    /\ job' = [job EXCEPT ![p] = NoJob]
    /\ UNCHANGED <<table, db, dirty, status, files, bird, loc>>

CheckLink(p) ==
    /\ pc[p] = "wg_check"
    /\ Goto(p, IF link[job[p].cur.iface] = "absent" THEN "wg_create"
                                                    ELSE "wg_sync")
    /\ UNCHANGED <<table, db, dirty, lock, status, files, kernel, loc, job>>

\* create_wg_interface: ip link add fails when the interface exists, and
\* wg setconf when the file is gone, which leaves the new interface down.
CreateLink(p) ==
    /\ pc[p] = "wg_create"
    /\ LET i == job[p].cur.iface IN
         \/ /\ link[i] = "absent" /\ confs[i] # NoConf
            /\ link' = [link EXCEPT ![i] = "up"]
            /\ loaded' = [loaded EXCEPT ![i] = confs[i]]
            /\ Goto(p, "wg")
            /\ UNCHANGED <<table, db, dirty, lock, status, files, bird, loc,
                           job>>
         \/ /\ link[i] = "absent" /\ confs[i] = NoConf
            /\ link' = [link EXCEPT ![i] = "down"]
            /\ UNCHANGED loaded
            /\ Abort(p)
         \/ /\ link[i] # "absent"
            /\ UNCHANGED <<link, loaded>>
            /\ Abort(p)

\* apply_syncconf needs both the interface and the file.
SyncLink(p) ==
    /\ pc[p] = "wg_sync"
    /\ UNCHANGED link
    /\ LET i == job[p].cur.iface IN
         \/ /\ link[i] # "absent" /\ confs[i] # NoConf
            /\ loaded' = [loaded EXCEPT ![i] = confs[i]]
            /\ Goto(p, "wg")
            /\ UNCHANGED <<table, db, dirty, lock, status, files, bird, loc,
                           job>>
         \/ /\ link[i] = "absent" \/ confs[i] = NoConf
            /\ UNCHANGED loaded
            /\ Abort(p)

\* Every interface is done: bird.conf is written and reloaded.
ApplyBird(p) ==
    /\ Step(p, "wg", "stamp")
    /\ job[p].todo = {}
    /\ birdConf' = job[p].ver
    /\ bird' = job[p].ver
    /\ pending' = FALSE
    /\ job' = [job EXCEPT ![p] = NoJob]
    /\ UNCHANGED <<table, db, dirty, lock, lastErr, lastAt, managed, confs,
                   link, loaded, loc>>

StampSuccess(p) ==
    /\ Step(p, "stamp", "clear_err")
    /\ lastAt' = TRUE
    /\ UNCHANGED <<table, db, dirty, lock, pending, lastErr, managed, files,
                   kernel, loc, job>>

\* The error slot is the last thing written; the guard is dropped after it.
Report(p, from, err) ==
    /\ Step(p, from, "idle")
    /\ lastErr' = err
    /\ lock' = NoProc
    /\ UNCHANGED <<table, db, dirty, pending, lastAt, managed, files, kernel,
                   loc, job>>

\* Mutant: the flag is cleared when the apply succeeds, as in "applies the
\* configurations and clears the flag".
ReportAndClearDirty(p) ==
    /\ Step(p, "clear_err", "idle")
    /\ lastErr' = FALSE
    /\ lock' = NoProc
    /\ dirty' = FALSE
    /\ UNCHANGED <<table, db, pending, lastAt, managed, files, kernel, loc,
                   job>>

\* Mutant: the error of birdc configure is not kept.
ReportSilently(p) == Report(p, "set_err", FALSE)

ReportSuccess(p) == Report(p, "clear_err", FALSE)
ReportFailure(p) == Report(p, "set_err", TRUE)

ApplyStep(p) ==
    \/ AcquireLock(p)
    \/ ReadPeers(p) \/ ReadSettings(p)
    \/ WriteConf(p) \/ CheckLink(p) \/ CreateLink(p) \/ SyncLink(p)
    \/ ApplyBird(p)
    \/ StampSuccess(p) \/ ReportSuccess(p) \/ ReportFailure(p)

-----------------------------------------------------------------------------
(* What can fail *)

\* A handler gives up before its write: validation, a constraint or the
\* database refuses it.
RejectEdit(r) ==
    /\ pc[r] \in EditPC
    /\ Answer(r)
    /\ UNCHANGED <<table, db, dirty, lock, status, files, kernel, job>>

\* The clean-up of delete_peer fails; the error is only logged.
CleanupFails(r) ==
    /\ \/ Step(r, "d_down", "d_rmconf")
       \/ Step(r, "d_rmconf", "mark")
    /\ UNCHANGED <<table, db, dirty, lock, status, files, kernel, loc, job>>

RestartUpFails(r) ==
    /\ pc[r] = "r_up"
    /\ Answer(r)
    /\ UNCHANGED <<table, db, dirty, lock, status, files, kernel, job>>

\* A read of the database or a write of a conf file fails.
ReadOrWriteFails(p) ==
    /\ pc[p] \in {"read_peers", "read_settings", "wg"}
    /\ pc[p] = "wg" => job[p].todo # {}
    /\ Abort(p)
    /\ UNCHANGED <<link, loaded>>

\* Mutant: a failed create_wg_interface is only logged.
CreateFailureIgnored(p) ==
    /\ Step(p, "wg_create", "wg")
    /\ UNCHANGED <<table, db, dirty, lock, status, files, kernel, loc, job>>

\* One of the three commands of create_wg_interface fails.
CreateFails(p) ==
    /\ pc[p] = "wg_create"
    /\ LET i == job[p].cur.iface IN
         \/ UNCHANGED <<link, loaded>>
         \/ /\ link[i] = "absent"
            /\ link' = [link EXCEPT ![i] = "down"]
            /\ loaded' \in {loaded, [loaded EXCEPT ![i] = confs[i]]}
    /\ Abort(p)

SyncFails(p) ==
    /\ pc[p] = "wg_sync"
    /\ Abort(p)
    /\ UNCHANGED <<link, loaded>>

\* Writing bird.conf fails, or birdc configure does after it was written.
BirdFails(p) ==
    /\ Step(p, "wg", "set_err")
    /\ job[p].todo = {}
    /\ birdConf' \in {birdConf, job[p].ver}
    /\ pending' = FALSE
    /\ job' = [job EXCEPT ![p] = NoJob]
    /\ UNCHANGED <<table, db, dirty, lock, lastErr, lastAt, managed, confs,
                   kernel, loc>>

EditFault(r) == RejectEdit(r) \/ CleanupFails(r) \/ RestartUpFails(r)
ApplyFault(p) ==
    ReadOrWriteFails(p) \/ CreateFails(p) \/ SyncFails(p) \/ BirdFails(p)

\* Mutant: the time of the last apply survives a restart.
CrashKeepsStamp ==
    /\ dirty' = FALSE
    /\ lock' = NoProc
    /\ pending' = FALSE
    /\ lastErr' = FALSE
    /\ pc' = [p \in Proc \cup {Gossip} |-> "idle"]
    /\ loc' = [r \in Req |-> NoRow]
    /\ job' = [p \in Proc \cup {Gossip} |-> NoJob]
    /\ UNCHANGED <<table, db, lastAt, managed, files, kernel>>

\* The process dies and is started again: the database, the files and the
\* kernel survive it, and nothing is applied at startup.
Crash ==
    /\ dirty' = FALSE
    /\ lock' = NoProc
    /\ pending' = FALSE
    /\ lastErr' = FALSE
    /\ lastAt' = FALSE
    /\ managed' = {}
    /\ pc' = [p \in Proc \cup {Gossip} |-> "idle"]
    /\ loc' = [r \in Req |-> NoRow]
    /\ job' = [p \in Proc \cup {Gossip} |-> NoJob]
    /\ UNCHANGED <<table, db, files, kernel>>

\* The client goes away and the server drops the handler at an await; a
\* guard it holds is released.
Cancel(r) ==
    /\ pc[r] # "idle"
    /\ Answer(r)
    /\ lock' = IF lock = r THEN NoProc ELSE lock
    /\ job' = [job EXCEPT ![r] = NoJob]
    /\ UNCHANGED <<table, db, dirty, status, files, kernel>>

-----------------------------------------------------------------------------
(* Cluster mode: the anti-entropy task and exchange_nodes load the settings *)
(* and call sync_cluster_bird, which takes no lock and reports no status.   *)

GossipSettings ==
    /\ Step(Gossip, "idle", "g_peers")
    /\ job' = [job EXCEPT ![Gossip].ver.settings = db.settings]
    /\ UNCHANGED <<table, db, dirty, lock, status, files, kernel, loc>>

GossipPeers ==
    /\ Step(Gossip, "g_peers", "g_apply")
    /\ job' = [job EXCEPT ![Gossip].ver.peers = db.peers]
    /\ UNCHANGED <<table, db, dirty, lock, status, files, kernel, loc>>

GossipBird ==
    /\ Step(Gossip, "g_apply", "idle")
    /\ birdConf' = job[Gossip].ver
    /\ bird' = job[Gossip].ver
    /\ job' = [job EXCEPT ![Gossip] = NoJob]
    /\ UNCHANGED <<table, db, dirty, lock, status, confs, link, loaded, loc>>

-----------------------------------------------------------------------------
(* Specifications *)

\* No failures, one node.
Quiet ==
    \/ \E r \in Req : Call(r) \/ EditStep(r)
    \/ DebounceTick
    \/ \E p \in Proc : ApplyStep(p)

\* Commands and the database may fail, and the process may restart.
Faulty ==
    \/ Quiet
    \/ \E r \in Req : EditFault(r)
    \/ \E p \in Proc : ApplyFault(p)
    \/ Crash

QuietSpec == Init /\ [][Quiet]_vars
Spec == Init /\ [][Faulty]_vars

\* Calls may also be abandoned by their client.
Abandoning == Faulty \/ \E r \in Req : Cancel(r)
CancelSpec == Init /\ [][Abandoning]_vars

\* A node of a cluster, without failures.
ClusterSpec ==
    Init /\ [][Quiet \/ GossipSettings \/ GossipPeers \/ GossipBird]_vars

\* Every await returns, the debounce timer keeps ticking, and the tokio
\* mutex serves its waiters in order (hence SF).  Calls need not arrive.
Scheduling ==
    /\ WF_vars(DebounceTick)
    /\ \A p \in Proc : SF_vars(AcquireLock(p))

\* Every handler and every apply takes its next step, or fails to.
Progress ==
    /\ Scheduling
    /\ \A r \in Req : WF_vars(EditStep(r) \/ EditFault(r))
    /\ \A p \in Proc : WF_vars(ApplyStep(p) \/ ApplyFault(p))

FairSpec == Spec /\ Progress

-----------------------------------------------------------------------------
(* Properties *)

TypeOK ==
    /\ table \subseteq Row
    /\ db \in Version
    /\ dirty \in BOOLEAN
    /\ lock \in Proc \cup {NoProc}
    /\ pending \in BOOLEAN /\ lastErr \in BOOLEAN /\ lastAt \in BOOLEAN
    /\ managed \subseteq Iface
    /\ birdConf \in Version
    /\ bird \in Version
    /\ confs \in [Iface -> Conf \cup {NoConf}]
    /\ link \in [Iface -> {"absent", "down", "up"}]
    /\ loaded \in [Iface -> Conf \cup {NoConf}]
    /\ pc \in [Proc \cup {Gossip} -> PC]
    /\ loc \in [Req -> Row \cup {NoRow}]
    /\ job \in [Proc \cup {Gossip} -> Job]

\* The status card shows "synced", with the time of an apply.
Synced == ~pending /\ ~lastErr /\ lastAt

Deployed == bird = db

\* An edit whose apply is still to come: flagged, about to be flagged, or
\* on its way to the lock.
Outstanding ==
    \/ dirty
    \/ \E r \in Req : pc[r] \in OwesPC
    \/ \E p \in Proc : pc[p] = "lock"

Failing == \E p \in Proc : pc[p] = "set_err"

\* No edit is forgotten: when the status says "synced" and BIRD does not run
\* the database's configuration, an apply that starts later is certain, or
\* the apply that just failed is about to say so.
NoLostUpdate == Synced => Deployed \/ Outstanding \/ Failing

\* Nothing is going on that touches interfaces or status.
Settled ==
    /\ Synced
    /\ ~Outstanding
    /\ lock = NoProc
    /\ \A r \in Req : pc[r] # "r_up"

Enabled == {row \in table : row.on}

\* When the status says "synced" and nothing is going on, the interface of
\* every enabled peer exists and holds the current configuration of an
\* enabled peer with that interface name, and so does its file.
WgHonest ==
    Settled =>
        \A row \in Enabled :
            LET i == row.iface IN
            /\ link[i] # "absent"
            /\ loaded[i] = confs[i]
            /\ \E q \in Enabled :
                 q.iface = i /\ confs[i] = ConfOf(q, db.settings)

\* ... and the status lists exactly the interfaces of the enabled peers.
ManagedHonest == Settled => managed = IfacesOf(Enabled)

\* No two peers share an interface name, the check of create_peer and
\* update_peer.
UniqueIface ==
    \A row, q \in table : row.iface = q.iface => row.id = q.id

\* Deploying the BIRD configuration is monotonic, see Deployment.
Deploy == INSTANCE Deployment WITH written <- db, deployed <- bird
MonotonicDeploy == Deploy!Spec

\* The file is never older than what BIRD runs, nor ahead of the database:
\* a restart of BIRD, which loads the file, is a deployment too.
BirdConfNotBehind == Deploy!AtMost(bird, birdConf) /\ Deploy!AtMost(birdConf, db)

\* Even with failures and restarts, the status does not stay "synced" on a
\* configuration BIRD does not run.
StatusConverges == <>[](Synced => Deployed)

-----------------------------------------------------------------------------
(* What the documents say and the code does not do *)

\* "After deleting the peer from DB, call remove_wg_interface to clean up
\* the WG interface and conf file": a settled system keeps no file of a
\* deleted peer.
DeletedPeerLeavesNothing ==
    Settled =>
        \A i \in Iface : confs[i] # NoConf =>
            \E row \in table : row.id = confs[i].id

=============================================================================
