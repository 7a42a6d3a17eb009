------------------------- MODULE ConfigApplyProofs -------------------------
(***************************************************************************)
(* Proofs about ConfigApply for every number of calls, interfaces and      *)
(* writes.  The steps that may happen are split into four groups: a call   *)
(* arrives, an edit goes on, an apply goes on, something fails.            *)
(***************************************************************************)
EXTENDS ConfigApply, TLAPS

USE ProcAssumption

-----------------------------------------------------------------------------
(* Type correctness *)

\* TypeOK is inductive once the handlers and the applies are known to carry a
\* row wherever they use one.
CarriesRow ==
    /\ \A r \in Req : pc[r] \in EditPC \cup OwesPC \cup {"r_down", "r_up"}
                        => loc[r] \in Row
    /\ \A p \in Proc : pc[p] \in {"wg_check", "wg_create", "wg_sync"}
                        => job[p].cur \in Row

TypeInv == TypeOK /\ CarriesRow

\* The initial state is type correct.
LEMMA InitTyped == Init => TypeInv
<1> SUFFICES ASSUME Init PROVE TypeInv
  OBVIOUS
<1>1. Zero \in Version /\ NoJob \in Job
  BY DEF Zero, NoJob, Version, Job
<1>2. TypeOK
  BY <1>1 DEF Init, TypeOK, PC
<1>3. CarriesRow
  BY DEF Init, CarriesRow, EditPC, OwesPC, Proc
<1> QED
  BY <1>2, <1>3 DEF TypeInv

\* A call that arrives keeps the types.
LEMMA CallTyped ==
  ASSUME TypeInv, NEW r \in Req, Call(r)
  PROVE  TypeInv'
<1> USE DEF TypeInv, TypeOK, CarriesRow, Accept, Goto, Proc, PC, EditPC, OwesPC,
            HoldPC, status, files, kernel
<1>1. CASE CreateCall(r)
  BY <1>1 DEF CreateCall, Requested, Row
<1>2. CASE UpdateCall(r)
  BY <1>2 DEF UpdateCall, Requested, Row
<1>3. CASE DeleteFind(r)
  BY <1>3 DEF DeleteFind
<1>4. CASE ToggleCall(r)
  <2>1. PICK row \in table :
           /\ Accept(r, "toggle", "mark", row)
           /\ PeerWrite
           /\ table' = (table \ {row}) \cup {[row EXCEPT !.on = ~@]}
    BY <1>4 DEF ToggleCall
  <2>2. row \in Row /\ [row EXCEPT !.on = ~@] \in Row
    <3>1. row \in Row /\ row.on \in BOOLEAN
      BY DEF Row
    <3>2. (~row.on) \in BOOLEAN
      BY <3>1, Zenon
    <3> QED
      BY <3>1, <3>2 DEF Row
  <2>3. table' \subseteq Row /\ db' \in Version
    BY <2>1, <2>2 DEF PeerWrite, Version
  <2> QED
    BY <1>4, <2>1, <2>2, <2>3 DEF ToggleCall
<1>5. CASE SaveSettings(r)
  BY <1>5 DEF SaveSettings, Version
<1>6. CASE ApplyNowCall(r)
  BY <1>6 DEF ApplyNowCall
<1>7. CASE RestartCall(r)
  BY <1>7 DEF RestartCall, Requested, Row
<1> QED
  BY <1>1, <1>2, <1>3, <1>4, <1>5, <1>6, <1>7 DEF Call

\* An edit that goes on keeps the types.
LEMMA EditTyped ==
  ASSUME TypeInv, NEW r \in Req, EditStep(r)
  PROVE  TypeInv'
<1> USE DEF TypeInv, TypeOK, CarriesRow, Step, Answer, Goto, Proc, PC, EditPC,
            OwesPC, HoldPC, status, files, kernel
<1>1. CASE CreateCheck(r)
  BY <1>1 DEF CreateCheck
<1>2. CASE CreateInsert(r)
  <2>1. loc[r] \in Row
    BY <1>2 DEF CreateInsert
  <2>2. db' \in Version
    BY <1>2 DEF CreateInsert, PeerWrite, Version
  <2>3. [loc[r] EXCEPT !.id = db'.peers, !.rev = db'.peers] \in Row
    BY <2>1, <2>2 DEF Row, Version
  <2>4. table' \subseteq Row
    BY <1>2, <2>3 DEF CreateInsert
  <2> QED
    BY <1>2, <2>1, <2>2, <2>4 DEF CreateInsert
<1>3. CASE UpdateCheck(r)
  BY <1>3 DEF UpdateCheck
<1>4. CASE UpdateFind(r)
  BY <1>4 DEF UpdateFind, Row
<1>5. CASE UpdateWrite(r)
  BY <1>5 DEF UpdateWrite, PeerWrite, Row, Version
<1>6. CASE DeleteRow(r)
  BY <1>6 DEF DeleteRow, PeerWrite, Version
<1>7. CASE DeleteDown(r)
  BY <1>7 DEF DeleteDown, TakeDown, Row
<1>8. CASE DeleteRmConf(r)
  BY <1>8 DEF DeleteRmConf, Row
<1>9. CASE MarkDirty(r)
  BY <1>9 DEF MarkDirty
<1>10. CASE RestartDown(r)
  BY <1>10 DEF RestartDown, TakeDown, Row
<1>11. CASE RestartUp(r)
  BY <1>11 DEF RestartUp, Row
<1> QED
  BY <1>1, <1>2, <1>3, <1>4, <1>5, <1>6, <1>7, <1>8, <1>9, <1>10, <1>11
     DEF EditStep

\* A step of an apply keeps the types.
LEMMA ApplyTyped ==
  ASSUME TypeInv, NEW p \in Proc, ApplyStep(p)
  PROVE  TypeInv'
<1> USE DEF TypeInv, TypeOK, CarriesRow, Step, Goto, Proc, PC, EditPC, OwesPC,
            HoldPC, status, files, kernel
<1>j. NoJob \in Job
  BY DEF NoJob, Zero, Job, Version
<1>1. CASE AcquireLock(p)
  BY <1>1 DEF AcquireLock
<1>2. CASE ReadPeers(p)
  <2>1. [todo |-> {row \in table : row.on}, cur |-> NoRow,
         ver |-> [peers |-> db.peers, settings |-> 0]] \in Job
    BY DEF Job, Version
  <2> QED
    BY <1>2, <2>1 DEF ReadPeers
<1>3. CASE ReadSettings(p)
  <2>1. [job[p] EXCEPT !.ver.settings = db.settings] \in Job
    <3>1. job[p] \in Job /\ db.settings \in Nat
      BY DEF Version
    <3> HIDE DEF TypeInv, TypeOK, CarriesRow
    <3> QED
      BY <3>1 DEF Job, Version
  <2>2. job' \in [Proc \cup {Gossip} -> Job]
    BY <1>3, <2>1 DEF ReadSettings
  <2>3. IfacesOf(job[p].todo) \subseteq Iface
    BY DEF IfacesOf, Job, Row
  <2> QED
    BY <1>3, <2>2, <2>3 DEF ReadSettings
<1>4. CASE WriteConf(p)
  <2>1. PICK row \in job[p].todo :
           /\ confs' = [confs EXCEPT ![row.iface] =
                          ConfOf(row, job[p].ver.settings)]
           /\ job' = [job EXCEPT ![p].cur = row, ![p].todo = @ \ {row}]
    BY <1>4 DEF WriteConf
  <2>2. row \in Row /\ ConfOf(row, job[p].ver.settings) \in Conf
    BY DEF ConfOf, Conf, Job, Row, Version
  <2>3. [job[p] EXCEPT !.cur = row, !.todo = @ \ {row}] \in Job
    <3>1. job[p] \in Job
      OBVIOUS
    <3>2. job[p].todo \ {row} \in SUBSET Row
      BY <3>1 DEF Job
    <3> HIDE DEF TypeInv, TypeOK, CarriesRow
    <3> QED
      BY <2>2, <3>1, <3>2 DEF Job
  <2>4. job' \in [Proc \cup {Gossip} -> Job] /\ job'[p].cur = row
    BY <2>1, <2>3 DEF Job
  <2>5. \A q \in Proc : q # p => job'[q] = job[q]
    BY <2>1
  <2>6. confs' \in [Iface -> Conf \cup {NoConf}]
    BY <2>1, <2>2 DEF Row
  <2> QED
    BY <1>4, <2>2, <2>4, <2>5, <2>6 DEF WriteConf
<1>5. CASE CheckLink(p)
  BY <1>5 DEF CheckLink
<1>6. CASE CreateLink(p)
  BY <1>6, <1>j DEF CreateLink, Abort, Row
<1>7. CASE SyncLink(p)
  BY <1>7, <1>j DEF SyncLink, Abort, Row
<1>8. CASE ApplyBird(p)
  BY <1>8, <1>j DEF ApplyBird, Job
<1>9. CASE StampSuccess(p)
  BY <1>9 DEF StampSuccess
<1>10. CASE ReportSuccess(p)
  BY <1>10 DEF ReportSuccess, Report
<1>11. CASE ReportFailure(p)
  BY <1>11 DEF ReportFailure, Report
<1> QED
  BY <1>1, <1>2, <1>3, <1>4, <1>5, <1>6, <1>7, <1>8, <1>9, <1>10, <1>11 DEF ApplyStep

\* A failure, a restart or an abandoned call keeps the types.
LEMMA FaultTyped ==
  ASSUME TypeInv,
         \/ \E r \in Req : EditFault(r) \/ Cancel(r)
         \/ \E p \in Proc : ApplyFault(p)
         \/ Crash
         \/ DebounceTick
  PROVE  TypeInv'
<1> USE DEF TypeInv, TypeOK, CarriesRow, Step, Answer, Goto, Proc, PC, EditPC,
            OwesPC, HoldPC, status, files, kernel
<1>j. NoJob \in Job
  BY DEF NoJob, Zero, Job, Version
<1>1. CASE \E r \in Req : RejectEdit(r) \/ RestartUpFails(r)
  BY <1>1 DEF RejectEdit, RestartUpFails
<1>2. CASE \E r \in Req : CleanupFails(r)
  BY <1>2 DEF CleanupFails
<1>3. CASE \E r \in Req : Cancel(r)
  BY <1>3, <1>j DEF Cancel
<1>4. CASE \E p \in Proc : ReadOrWriteFails(p) \/ SyncFails(p)
  BY <1>4, <1>j DEF ReadOrWriteFails, SyncFails, Abort
<1>5. CASE \E p \in Proc : CreateFails(p)
  BY <1>5, <1>j DEF CreateFails, Abort, Row
<1>6. CASE \E p \in Proc : BirdFails(p)
  <2>1. PICK p \in Proc : BirdFails(p)
    BY <1>6
  <2>2. job[p].ver \in Version
    BY DEF Job
  <2>3. birdConf' \in Version /\ job' \in [Proc \cup {Gossip} -> Job]
    BY <2>1, <2>2, <1>j DEF BirdFails
  <2> QED
    BY <2>1, <2>3 DEF BirdFails
<1>7. CASE Crash
  BY <1>7, <1>j DEF Crash
<1>8. CASE DebounceTick
  BY <1>8 DEF DebounceTick
<1> QED
  BY <1>1, <1>2, <1>3, <1>4, <1>5, <1>6, <1>7, <1>8 DEF EditFault, ApplyFault

LEMMA StepTyped == TypeInv /\ [Abandoning]_vars => TypeInv'
<1> SUFFICES ASSUME TypeInv, [Abandoning]_vars PROVE TypeInv'
  OBVIOUS
<1>1. CASE UNCHANGED vars
  BY <1>1 DEF TypeInv, TypeOK, CarriesRow, vars, status, files, kernel
<1>2. CASE Abandoning
  BY <1>2, CallTyped, EditTyped, ApplyTyped, FaultTyped
     DEF Abandoning, Faulty, Quiet
<1> QED
  BY <1>1, <1>2

\* The state keeps its types, and no handler or apply reaches a step that
\* needs a peer without one: whatever fails, restarts or is abandoned.
THEOREM Typing == CancelSpec => []TypeOK
<1>1. CancelSpec => []TypeInv
  BY InitTyped, StepTyped, PTL DEF CancelSpec
<1>2. TypeInv => TypeOK
  BY DEF TypeInv
<1> QED
  BY <1>1, <1>2, PTL

-----------------------------------------------------------------------------
(* What a step outside the apply can do to an apply in progress *)

\* The versions only grow, and a step that is not of an apply touches neither
\* the lock, the status, BIRD nor the locals of an apply; if it writes the
\* database, or if an apply was outstanding before it, one is after it.
Beside ==
    /\ UNCHANGED <<lock, pending, lastErr, lastAt, birdConf, bird, job>>
    /\ \A p \in Proc : pc[p] \in HoldPC \/ pc'[p] \in HoldPC
                        => pc'[p] = pc[p]
    /\ db' \in Version /\ Deploy!AtMost(db, db')
    /\ Outstanding => Outstanding'
    /\ db' = db \/ Outstanding'

LEMMA AtMostReflexive == \A v \in Version : Deploy!AtMost(v, v)
  BY DEF Version, Deploy!AtMost

LEMMA CallBeside ==
  ASSUME TypeInv, NEW r \in Req, Call(r)
  PROVE  Beside
<1> USE DEF TypeInv, TypeOK, Accept, Goto, Proc, OwesPC, HoldPC, status, files,
            kernel, Beside, Outstanding
<1>1. db \in Version /\ Deploy!AtMost(db, db)
  BY AtMostReflexive
<1>2. CASE CreateCall(r) \/ UpdateCall(r) \/ DeleteFind(r) \/ RestartCall(r)
  BY <1>1, <1>2 DEF CreateCall, UpdateCall, DeleteFind, RestartCall
<1>3. CASE ToggleCall(r)
  <2>1. db' \in Version /\ Deploy!AtMost(db, db')
    BY <1>3 DEF ToggleCall, PeerWrite, Version, Deploy!AtMost
  <2>2. pc' = [pc EXCEPT ![r] = "mark"] /\ pc[r] = "idle"
    BY <1>3 DEF ToggleCall
  <2>3. Outstanding'
    BY <2>2
  <2> QED
    BY <1>3, <2>1, <2>2, <2>3 DEF ToggleCall
<1>4. CASE SaveSettings(r)
  <2>1. db' \in Version /\ Deploy!AtMost(db, db')
    BY <1>4 DEF SaveSettings, Version, Deploy!AtMost
  <2>2. pc' = [pc EXCEPT ![r] = "lock"] /\ pc[r] = "idle"
    BY <1>4 DEF SaveSettings
  <2>3. Outstanding'
    BY <2>2
  <2> QED
    BY <1>4, <2>1, <2>2, <2>3 DEF SaveSettings
<1>5. CASE ApplyNowCall(r)
  BY <1>1, <1>5 DEF ApplyNowCall
<1> QED
  BY <1>2, <1>3, <1>4, <1>5 DEF Call

LEMMA EditBeside ==
  ASSUME TypeInv, NEW r \in Req, EditStep(r) \/ EditFault(r)
  PROVE  Beside
<1> USE DEF TypeInv, TypeOK, Step, Answer, Goto, Proc, EditPC, OwesPC, HoldPC,
            status, files, kernel, Beside, Outstanding
<1>1. db \in Version /\ Deploy!AtMost(db, db)
  BY AtMostReflexive
<1>2. ASSUME PeerWrite PROVE db' \in Version /\ Deploy!AtMost(db, db')
  BY <1>2 DEF PeerWrite, Version, Deploy!AtMost
<1>3. CASE CreateCheck(r) \/ UpdateCheck(r) \/ UpdateFind(r)
  BY <1>1, <1>3 DEF CreateCheck, UpdateCheck, UpdateFind
<1>4. CASE CreateInsert(r)
  <2>1. pc' = [pc EXCEPT ![r] = "mark"] /\ pc[r] = "c_insert" /\ Outstanding'
    BY <1>4 DEF CreateInsert
  <2> QED
    BY <1>2, <1>4, <2>1 DEF CreateInsert
<1>5. CASE UpdateWrite(r)
  <2>1. CASE Answer(r) /\ UNCHANGED <<table, db>>
    BY <1>1, <1>5, <2>1 DEF UpdateWrite
  <2>2. CASE PeerWrite /\ Goto(r, "mark")
    <3>1. pc' = [pc EXCEPT ![r] = "mark"] /\ pc[r] = "u_write" /\ Outstanding'
      BY <1>5, <2>2 DEF UpdateWrite
    <3> QED
      BY <1>2, <1>5, <2>2, <3>1 DEF UpdateWrite
  <2> QED
    BY <1>5, <2>1, <2>2 DEF UpdateWrite
<1>6. CASE DeleteRow(r)
  <2>1. CASE Answer(r) /\ UNCHANGED <<table, db>>
    BY <1>1, <1>6, <2>1 DEF DeleteRow
  <2>2. CASE PeerWrite /\ Goto(r, "d_down")
    <3>1. pc' = [pc EXCEPT ![r] = "d_down"] /\ pc[r] = "d_delete" /\ Outstanding'
      BY <1>6, <2>2 DEF DeleteRow
    <3> QED
      BY <1>2, <1>6, <2>2, <3>1 DEF DeleteRow
  <2> QED
    BY <1>6, <2>1, <2>2 DEF DeleteRow
<1>7. CASE DeleteDown(r) \/ DeleteRmConf(r) \/ CleanupFails(r)
  BY <1>1, <1>7 DEF DeleteDown, DeleteRmConf, CleanupFails
<1>8. CASE MarkDirty(r)
  BY <1>1, <1>8 DEF MarkDirty
<1>9. CASE RestartDown(r) \/ RestartUp(r) \/ RestartUpFails(r) \/ RejectEdit(r)
  BY <1>1, <1>9 DEF RestartDown, RestartUp, RestartUpFails, RejectEdit
<1> QED
  BY <1>3, <1>4, <1>5, <1>6, <1>7, <1>8, <1>9 DEF EditStep, EditFault

LEMMA TickBeside ==
  ASSUME TypeInv, DebounceTick
  PROVE  Beside
<1> USE DEF TypeInv, TypeOK, DebounceTick, Step, Goto, Proc, HoldPC, status,
            files, kernel
<1>1. db \in Version /\ Deploy!AtMost(db, db)
  BY AtMostReflexive
<1>2. pc'[Debounce] = "lock"
  OBVIOUS
<1> QED
  BY <1>1, <1>2 DEF Beside, Outstanding

-----------------------------------------------------------------------------
(* Deployment is monotonic *)

\* The steps of an apply at which it has read the peers, and the settings.
PeersReadPC == {"read_settings", "wg", "wg_check", "wg_create", "wg_sync"}
SettingsReadPC == {"wg", "wg_check", "wg_create", "wg_sync"}

\* Only the holder of APPLY_LOCK is inside an apply; what it has read is
\* between what is deployed and what is in the database.
Exclusive == \A p \in Proc : pc[p] \in HoldPC => lock = p

Ordered ==
    /\ BirdConfNotBehind
    /\ \A p \in Proc :
        /\ pc[p] \in PeersReadPC =>
              /\ birdConf.peers <= job[p].ver.peers
              /\ job[p].ver.peers <= db.peers
        /\ pc[p] \in SettingsReadPC =>
              /\ birdConf.settings <= job[p].ver.settings
              /\ job[p].ver.settings <= db.settings

OrderInv == Exclusive /\ Ordered

LEMMA InitOrdered == Init => OrderInv
  BY DEF Init, OrderInv, Exclusive, Ordered, BirdConfNotBehind, Zero,
         Deploy!AtMost, Proc, HoldPC, PeersReadPC, SettingsReadPC

LEMMA BesideOrdered ==
  ASSUME TypeInv, OrderInv, Beside
  PROVE  OrderInv'
<1> USE DEF Beside, OrderInv, PeersReadPC, SettingsReadPC, HoldPC
<1>1. Exclusive'
  BY DEF Exclusive
<1>2. BirdConfNotBehind'
  BY DEF TypeInv, TypeOK, Ordered, BirdConfNotBehind, Version, Deploy!AtMost
<1>3. ASSUME NEW p \in Proc, pc'[p] \in PeersReadPC
      PROVE  /\ birdConf'.peers <= job'[p].ver.peers
             /\ job'[p].ver.peers <= db'.peers
             /\ pc'[p] \in SettingsReadPC =>
                  /\ birdConf'.settings <= job'[p].ver.settings
                  /\ job'[p].ver.settings <= db'.settings
  <2>1. pc[p] = pc'[p] /\ job'[p] = job[p] /\ birdConf' = birdConf
    BY <1>3
  <2>2. /\ db.peers <= db'.peers /\ db.settings <= db'.settings
        /\ db \in Version /\ db' \in Version /\ job[p].ver \in Version
        /\ birdConf \in Version
    BY DEF Deploy!AtMost, TypeInv, TypeOK, Job
  <2> QED
    BY <1>3, <2>1, <2>2 DEF Ordered, Version
<1> QED
  BY <1>1, <1>2, <1>3 DEF Ordered

\* Giving up an apply drops what it has read.
LEMMA AbortOrdered ==
  ASSUME TypeInv, OrderInv, NEW p \in Proc, pc[p] \in HoldPC, Abort(p)
  PROVE  OrderInv'
<1>1. /\ pc' = [pc EXCEPT ![p] = "idle"]
      /\ job' = [job EXCEPT ![p] = NoJob]
      /\ UNCHANGED <<db, birdConf, bird>>
  BY DEF Abort, Goto, files
<1>2. pc'[p] = "idle" /\ \A q \in Proc : q # p => pc'[q] = pc[q]
  BY <1>1 DEF TypeInv, TypeOK, Proc
<1>4. \A q \in Proc : q # p /\ pc[q] \in HoldPC => pc[p] \notin HoldPC
  BY DEF OrderInv, Exclusive
<1>5. pc[p] \in HoldPC => \A q \in Proc : pc'[q] \notin HoldPC
  BY <1>2, <1>4 DEF HoldPC
<1>6. \A q \in Proc : pc'[q] \notin PeersReadPC /\ pc'[q] \notin SettingsReadPC
  BY <1>5 DEF HoldPC, PeersReadPC, SettingsReadPC
<1>7. BirdConfNotBehind'
  BY <1>1 DEF OrderInv, Ordered, BirdConfNotBehind
<1> QED
  BY <1>5, <1>6, <1>7 DEF OrderInv, Exclusive, Ordered

LEMMA ApplyOrdered ==
  ASSUME TypeInv, OrderInv, NEW p \in Proc, ApplyStep(p) \/ ApplyFault(p)
  PROVE  OrderInv' /\ (UNCHANGED bird \/ Deploy!Deploy)
<1> USE DEF TypeInv, TypeOK, OrderInv, Step, Goto, HoldPC, PeersReadPC,
            SettingsReadPC, status, files, kernel, Proc
<1>1. CASE AcquireLock(p)
  BY <1>1 DEF AcquireLock, Exclusive, Ordered, BirdConfNotBehind
<1>2. CASE ReadPeers(p)
  BY <1>2 DEF ReadPeers, Exclusive, Ordered, BirdConfNotBehind, Version,
              Deploy!AtMost
<1>3. CASE ReadSettings(p)
  <2>1. job'[p].ver.peers = job[p].ver.peers /\ job'[p].ver.settings = db.settings
    BY <1>3 DEF ReadSettings, Job, Version
  <2>2. \A q \in Proc : q # p => job'[q] = job[q]
    BY <1>3 DEF ReadSettings
  <2> QED
    BY <1>3, <2>1, <2>2 DEF ReadSettings, Exclusive, Ordered, BirdConfNotBehind,
                            Version, Deploy!AtMost
<1>4. CASE WriteConf(p)
  <2>1. \A q \in Proc : job'[q].ver = job[q].ver
    BY <1>4 DEF WriteConf, Job
  <2> QED
    BY <1>4, <2>1 DEF WriteConf, Exclusive, Ordered, BirdConfNotBehind
<1>5. CASE CheckLink(p)
  BY <1>5 DEF CheckLink, Exclusive, Ordered, BirdConfNotBehind
<1>6. CASE \/ CreateLink(p) /\ Goto(p, "wg")
           \/ SyncLink(p) /\ Goto(p, "wg")
  <2>1. CASE CreateLink(p) /\ Goto(p, "wg")
    BY <2>1 DEF CreateLink, Abort, Exclusive, Ordered, BirdConfNotBehind
  <2>2. CASE SyncLink(p) /\ Goto(p, "wg")
    BY <2>2 DEF SyncLink, Abort, Exclusive, Ordered, BirdConfNotBehind
  <2> QED
    BY <1>6, <2>1, <2>2
<1>7. CASE pc[p] \in HoldPC /\ Abort(p)
  <2>1. OrderInv'
    BY <1>7, AbortOrdered
  <2> QED
    BY <1>7, <2>1 DEF Abort
<1>8. CASE ApplyBird(p) \/ BirdFails(p)
  <2>1. pc[p] = "wg" /\ pc'[p] \in {"stamp", "set_err"} /\ lock = p
    BY <1>8 DEF ApplyBird, BirdFails, Exclusive
  <2>2. job[p].ver \in Version /\ db \in Version /\ birdConf \in Version
    BY DEF Job
  <2>3. Deploy!AtMost(birdConf, job[p].ver) /\ Deploy!AtMost(job[p].ver, db)
    BY <2>1, <2>2 DEF Ordered, Version, Deploy!AtMost
  <2>4. \A q \in Proc : q # p => pc'[q] \notin HoldPC
    BY <1>8, <2>1 DEF ApplyBird, BirdFails, Exclusive
  <2>5. \A q \in Proc : pc'[q] \notin PeersReadPC
    BY <2>1, <2>4
  <2>6. Exclusive'
    BY <1>8, <2>1, <2>4 DEF ApplyBird, BirdFails, Exclusive
  <2>7. /\ db' = db
        /\ \/ birdConf' = birdConf /\ bird' = bird
           \/ birdConf' = job[p].ver /\ bird' \in {bird, job[p].ver}
    BY <1>8 DEF ApplyBird, BirdFails
  <2>8. BirdConfNotBehind' /\ (UNCHANGED bird \/ Deploy!Deploy)
    BY <2>2, <2>3, <2>7 DEF Ordered, BirdConfNotBehind, Deploy!AtMost,
                            Deploy!Deploy, Version, Deploy!Version
  <2> QED
    BY <2>5, <2>6, <2>8 DEF Ordered
<1>9. CASE StampSuccess(p) \/ ReportSuccess(p) \/ ReportFailure(p)
  BY <1>9 DEF StampSuccess, ReportSuccess, ReportFailure, Report, Exclusive,
              Ordered, BirdConfNotBehind
<1> QED
  BY <1>1, <1>2, <1>3, <1>4, <1>5, <1>6, <1>7, <1>8, <1>9
     DEF ApplyStep, ApplyFault, CreateLink, SyncLink, ReadOrWriteFails,
         CreateFails, SyncFails

LEMMA CrashOrdered ==
  ASSUME TypeInv, OrderInv, Crash \/ \E r \in Req : Cancel(r)
  PROVE  OrderInv' /\ UNCHANGED bird
<1> USE DEF TypeInv, TypeOK, OrderInv, HoldPC, PeersReadPC, SettingsReadPC,
            files, kernel, Proc
<1>1. CASE Crash
  BY <1>1 DEF Crash, Exclusive, Ordered, BirdConfNotBehind
<1>2. CASE \E r \in Req : Cancel(r)
  <2>1. PICK r \in Req : Cancel(r)
    BY <1>2
  <2>2. /\ pc' = [pc EXCEPT ![r] = "idle"]
        /\ job' = [job EXCEPT ![r] = NoJob]
        /\ lock' = IF lock = r THEN NoProc ELSE lock
        /\ UNCHANGED <<db, birdConf, bird>>
    BY <2>1 DEF Cancel, Answer, Goto
  <2>3. \A q \in Proc : pc'[q] \in HoldPC =>
          q # r /\ pc'[q] = pc[q] /\ job'[q] = job[q]
    BY <2>2
  <2>4. Exclusive'
    BY <2>2, <2>3 DEF Exclusive
  <2>5. BirdConfNotBehind'
    BY <2>2 DEF Ordered, BirdConfNotBehind
  <2>6. Ordered'
    BY <2>2, <2>3, <2>5 DEF Ordered
  <2> QED
    BY <2>2, <2>4, <2>6
<1> QED
  BY <1>1, <1>2

LEMMA StepOrdered ==
  ASSUME TypeInv, OrderInv, [Abandoning]_vars
  PROVE  OrderInv' /\ [Deploy!Next]_<<db, bird>>
<1>1. CASE UNCHANGED vars
  BY <1>1 DEF OrderInv, Exclusive, Ordered, BirdConfNotBehind, vars, files, kernel
<1>2. CASE \E r \in Req : Call(r) \/ EditStep(r) \/ EditFault(r)
  <2>1. PICK r \in Req : Call(r) \/ EditStep(r) \/ EditFault(r)
    BY <1>2
  <2>2. Beside
    BY <2>1, CallBeside, EditBeside
  <2>3. UNCHANGED db \/ Deploy!Write
    <3> USE DEF Deploy!Write, status, files, kernel
    <3>1. CASE Call(r)
      BY <3>1, <2>2 DEF Beside, Call, CreateCall, UpdateCall, DeleteFind, ToggleCall,
         SaveSettings, ApplyNowCall, RestartCall, PeerWrite
    <3>2. CASE EditStep(r)
      BY <3>2, <2>2 DEF Beside, EditStep, CreateCheck, CreateInsert, UpdateCheck,
         UpdateFind, UpdateWrite, DeleteRow, DeleteDown, DeleteRmConf, MarkDirty,
         RestartDown, RestartUp, PeerWrite
    <3>3. CASE EditFault(r)
      BY <3>3 DEF EditFault, RejectEdit, CleanupFails, RestartUpFails
    <3> QED
      BY <2>1, <3>1, <3>2, <3>3
  <2> QED
    BY <2>2, <2>3, BesideOrdered DEF Beside, Deploy!Next
<1>3. CASE DebounceTick
  BY <1>3, TickBeside, BesideOrdered DEF DebounceTick, kernel
<1>4. CASE \E p \in Proc : ApplyStep(p) \/ ApplyFault(p)
  <2>1. PICK p \in Proc : ApplyStep(p) \/ ApplyFault(p)
    BY <1>4
  <2>2. OrderInv' /\ (UNCHANGED bird \/ Deploy!Deploy)
    BY <2>1, ApplyOrdered
  <2>3. UNCHANGED db
    BY <2>1 DEF ApplyStep, ApplyFault, AcquireLock, ReadPeers, ReadSettings,
       WriteConf, CheckLink, CreateLink, SyncLink, ApplyBird, StampSuccess,
       ReportSuccess, ReportFailure, Report, ReadOrWriteFails, CreateFails,
       SyncFails, BirdFails, Abort
  <2> QED
    BY <2>2, <2>3 DEF Deploy!Next
<1>5. CASE Crash \/ \E r \in Req : Cancel(r)
  BY <1>5, CrashOrdered DEF Crash, Cancel
<1> QED
  BY <1>1, <1>2, <1>3, <1>4, <1>5 DEF Abandoning, Faulty, Quiet

LEMMA OrderAlways == CancelSpec => [](TypeInv /\ OrderInv)
<1>1. TypeInv /\ OrderInv /\ [Abandoning]_vars => (TypeInv /\ OrderInv)'
  BY StepTyped, StepOrdered
<1> QED
  BY <1>1, InitTyped, InitOrdered, PTL DEF CancelSpec

\* Whatever fails, restarts or is abandoned, ConfigApply implements Deployment:
\* BIRD never goes back to an older configuration.
THEOREM DeploymentIsMonotonic == CancelSpec => MonotonicDeploy
<1>1. Init => Deploy!Init
  BY DEF Init, Deploy!Init, Zero
<1>2. TypeInv /\ OrderInv /\ [Abandoning]_vars => [Deploy!Next]_<<db, bird>>
  BY StepOrdered
<1> QED
  BY <1>1, <1>2, OrderAlways, PTL DEF CancelSpec, MonotonicDeploy, Deploy!Spec

\* ... and bird.conf, which a restart of BIRD would load, is never older than
\* what BIRD runs, nor newer than the database.
THEOREM BirdRestartIsSafe == CancelSpec => []BirdConfNotBehind
<1>1. OrderInv => BirdConfNotBehind
  BY DEF OrderInv, Ordered
<1> QED
  BY <1>1, OrderAlways, PTL

-----------------------------------------------------------------------------
(* No edit is forgotten *)

\* "pending" covers an apply until BIRD is done.  What an apply has read, and
\* then what it has deployed, is what the database holds unless a later apply
\* is certain: this is what makes the status it leaves behind honest.
Covered ==
    /\ \A p \in Proc :
        /\ pc[p] \in PeersReadPC \cup {"read_peers"} => pending
        /\ pc[p] \in PeersReadPC =>
              job[p].ver.peers = db.peers \/ Outstanding
        /\ pc[p] \in SettingsReadPC =>
              job[p].ver.settings = db.settings \/ Outstanding
        /\ pc[p] \in {"stamp", "clear_err"} => Deployed \/ Outstanding
    /\ NoLostUpdate

LEMMA InitCovered == Init => Covered
  BY DEF Init, Covered, NoLostUpdate, Synced, Proc, PeersReadPC, SettingsReadPC

LEMMA BesideCovered ==
  ASSUME TypeInv, Covered, Beside
  PROVE  Covered'
<1> USE DEF Beside, HoldPC, PeersReadPC, SettingsReadPC
<1>1. Outstanding' \/ (db' = db /\ (Outstanding => Outstanding'))
  OBVIOUS
<1>2. Failing => Failing'
  BY DEF Failing
<1>3. NoLostUpdate'
  BY <1>1, <1>2 DEF Covered, NoLostUpdate, Synced, Deployed
<1>4. ASSUME NEW p \in Proc
      PROVE  /\ pc'[p] \in PeersReadPC \cup {"read_peers"} => pending'
             /\ pc'[p] \in PeersReadPC =>
                  job'[p].ver.peers = db'.peers \/ Outstanding'
             /\ pc'[p] \in SettingsReadPC =>
                  job'[p].ver.settings = db'.settings \/ Outstanding'
             /\ pc'[p] \in {"stamp", "clear_err"} =>
                  Deployed' \/ Outstanding'
  BY <1>1, <1>4 DEF Covered, Deployed
<1> QED
  BY <1>3, <1>4 DEF Covered

\* A step of the lock holder leaves the outstanding applies outstanding, and
\* nobody else is inside an apply.
LEMMA HolderAlone ==
  ASSUME TypeInv, OrderInv, NEW p \in Proc, pc[p] \in HoldPC,
         NEW label \in HoldPC \cup {"idle"}, Goto(p, label), UNCHANGED dirty
  PROVE  /\ Outstanding' <=> Outstanding
         /\ pc'[p] = label
         /\ \A q \in Proc : q # p => pc'[q] \notin HoldPC /\ pc[q] \notin HoldPC
<1>1. pc'[p] = label /\ \A q \in Proc : q # p => pc'[q] = pc[q]
  BY DEF TypeInv, TypeOK, Goto, Proc
<1>2. \A q \in Proc : q # p => pc[q] \notin HoldPC
  BY DEF OrderInv, Exclusive
<1>3. \A q \in Req : pc'[q] \in OwesPC <=> pc[q] \in OwesPC
  BY <1>1 DEF HoldPC, OwesPC, Proc
<1>4. \A q \in Proc : pc'[q] = "lock" <=> pc[q] = "lock"
  BY <1>1 DEF HoldPC
<1> QED
  BY <1>1, <1>2, <1>3, <1>4 DEF Outstanding

LEMMA ApplyCovered ==
  ASSUME TypeInv, OrderInv, Covered,
         NEW p \in Proc, ApplyStep(p) \/ ApplyFault(p)
  PROVE  Covered'
<1> USE DEF Step, status, files, kernel, HoldPC, PeersReadPC, SettingsReadPC
<1>1. CASE AcquireLock(p)
  <2>1. \A q \in Proc : q # p => pc'[q] \notin HoldPC
    BY <1>1 DEF AcquireLock, Goto, OrderInv, Exclusive, TypeInv, TypeOK, Proc
  <2>2. pc'[p] = "read_peers" /\ pending'
    BY <1>1 DEF AcquireLock, Goto, TypeInv, TypeOK, Proc
  <2> QED
    BY <2>1, <2>2 DEF Covered, NoLostUpdate, Synced
<1>2. CASE ReadPeers(p)
  <2>1. pc[p] \in HoldPC /\ Goto(p, "read_settings") /\ UNCHANGED dirty
    BY <1>2 DEF ReadPeers
  <2>2. job'[p].ver.peers = db'.peers /\ pending /\ pending'
    BY <1>2 DEF ReadPeers, Covered, TypeInv, TypeOK, Proc
  <2> QED
    BY <2>1, <2>2, HolderAlone DEF Covered, NoLostUpdate, Synced
<1>3. CASE ReadSettings(p)
  <2>1. pc[p] \in HoldPC /\ Goto(p, "wg") /\ UNCHANGED <<dirty, db, pending>>
    BY <1>3 DEF ReadSettings
  <2>2. /\ job'[p].ver.peers = job[p].ver.peers
        /\ job'[p].ver.settings = db'.settings
    BY <1>3 DEF ReadSettings, TypeInv, TypeOK, Proc, Job, Version
  <2>3. pending /\ (job[p].ver.peers = db.peers \/ Outstanding)
    BY <1>3 DEF ReadSettings, Covered
  <2> QED
    BY <2>1, <2>2, <2>3, HolderAlone DEF Covered, NoLostUpdate, Synced
<1>4. CASE \/ WriteConf(p) \/ CheckLink(p)
           \/ CreateLink(p) /\ Goto(p, "wg")
           \/ SyncLink(p) /\ Goto(p, "wg")
  <2>1. PICK label \in SettingsReadPC : Goto(p, label)
    BY <1>4 DEF WriteConf, CheckLink
  <2>2. /\ pc[p] \in SettingsReadPC
        /\ UNCHANGED <<dirty, db, pending>>
        /\ job'[p].ver = job[p].ver
    <3>1. CASE WriteConf(p)
      BY <3>1 DEF WriteConf, TypeInv, TypeOK, Proc, Job
    <3>2. CASE CheckLink(p)
      BY <3>2 DEF CheckLink
    <3>3. CASE CreateLink(p) /\ Goto(p, "wg")
      BY <3>3 DEF CreateLink, Abort, Goto, TypeInv, TypeOK, Proc
    <3>4. CASE SyncLink(p) /\ Goto(p, "wg")
      BY <3>4 DEF SyncLink, Abort, Goto, TypeInv, TypeOK, Proc
    <3> QED
      BY <1>4, <3>1, <3>2, <3>3, <3>4
  <2>3. /\ pending
        /\ job[p].ver.peers = db.peers \/ Outstanding
        /\ job[p].ver.settings = db.settings \/ Outstanding
    BY <2>2 DEF Covered
  <2> QED
    BY <2>1, <2>2, <2>3, HolderAlone DEF Covered, NoLostUpdate, Synced
<1>5. CASE pc[p] \in PeersReadPC \cup {"read_peers"} /\ Abort(p)
  <2>1. Goto(p, "idle") /\ UNCHANGED <<dirty, pending>> /\ pending
    BY <1>5 DEF Abort, Covered
  <2> QED
    BY <1>5, <2>1, HolderAlone DEF Covered, NoLostUpdate, Synced
<1>6. CASE ApplyBird(p)
  <2>1. /\ pc[p] = "wg" /\ Goto(p, "stamp")
        /\ UNCHANGED <<dirty, db>> /\ bird' = job[p].ver
    BY <1>6 DEF ApplyBird
  <2>2. job[p].ver \in Version /\ db \in Version
    BY DEF TypeInv, TypeOK, Job, Proc
  <2>3. job[p].ver = db \/ Outstanding
    BY <2>1, <2>2 DEF Covered, Version
  <2>4. (Outstanding' <=> Outstanding) /\ (Deployed' \/ Outstanding')
    BY <2>1, <2>3, HolderAlone DEF Deployed
  <2> QED
    BY <2>1, <2>4, HolderAlone DEF Covered, NoLostUpdate
<1>7. CASE BirdFails(p)
  <2>1. pc[p] = "wg" /\ Goto(p, "set_err") /\ UNCHANGED dirty
    BY <1>7 DEF BirdFails
  <2>2. pc'[p] = "set_err" /\ Failing'
    BY <2>1, HolderAlone DEF Failing
  <2> QED
    BY <2>1, <2>2, HolderAlone DEF Covered, NoLostUpdate
<1>8. CASE StampSuccess(p) \/ ReportSuccess(p)
  <2>1. PICK label \in {"clear_err", "idle"} : Goto(p, label)
    BY <1>8 DEF StampSuccess, ReportSuccess, Report
  <2>2. pc[p] \in {"stamp", "clear_err"} /\ UNCHANGED <<dirty, db, bird>>
    BY <1>8 DEF StampSuccess, ReportSuccess, Report
  <2>3. Deployed' \/ Outstanding'
    BY <2>1, <2>2, HolderAlone DEF Covered, Deployed
  <2> QED
    BY <2>1, <2>2, <2>3, HolderAlone DEF Covered, NoLostUpdate
<1>9. CASE ReportFailure(p)
  <2>1. pc[p] = "set_err" /\ Goto(p, "idle") /\ UNCHANGED dirty /\ lastErr'
    BY <1>9 DEF ReportFailure, Report
  <2> QED
    BY <2>1, HolderAlone DEF Covered, NoLostUpdate, Synced
<1> QED
  BY <1>1, <1>2, <1>3, <1>4, <1>5, <1>6, <1>7, <1>8, <1>9
     DEF ApplyStep, ApplyFault, CreateLink, SyncLink, ReadOrWriteFails,
         CreateFails, SyncFails

LEMMA CrashCovered == Crash => Covered'
  BY DEF Crash, Covered, NoLostUpdate, Synced, Proc, PeersReadPC, SettingsReadPC

LEMMA StepCovered ==
  ASSUME TypeInv, OrderInv, Covered, [Faulty]_vars
  PROVE  Covered'
<1>1. CASE UNCHANGED vars
  BY <1>1 DEF Covered, NoLostUpdate, Synced, Deployed, Outstanding, Failing,
              vars, status, files, kernel
<1>2. CASE Faulty
  BY <1>2, CallBeside, EditBeside, TickBeside, BesideCovered, ApplyCovered,
     CrashCovered DEF Faulty, Quiet
<1> QED
  BY <1>1, <1>2

LEMMA SpecInvariants == Spec => [](TypeInv /\ OrderInv /\ Covered)
<1>1. Spec => CancelSpec
  <2>1. [Faulty]_vars => [Abandoning]_vars
    BY DEF Abandoning
  <2> QED
    BY <2>1, PTL DEF Spec, CancelSpec
<1>2. TypeInv /\ OrderInv /\ Covered /\ [Faulty]_vars => Covered'
  BY StepCovered
<1> QED
  BY <1>1, <1>2, OrderAlways, InitCovered, PTL DEF Spec

\* With failing commands, a failing database and restarts, a "synced" status
\* never hides an edit that nothing is going to apply.
THEOREM NoEditIsForgotten == Spec => []NoLostUpdate
<1>1. Covered => NoLostUpdate
  BY DEF Covered
<1> QED
  BY <1>1, SpecInvariants, PTL

-----------------------------------------------------------------------------
(* "Synced" tells the truth about files and interfaces *)

\* Interface i has the current configuration of an enabled peer in its file,
\* and in the kernel too if it is there: restart_interface takes it away, and
\* may fail to bring it back.
Holds(i) ==
    /\ \E q \in Enabled : q.iface = i /\ confs[i] = ConfOf(q, db.settings)
    /\ link[i] # "absent" => loaded[i] = confs[i]

\* Which rows an apply works on, and what the status lists for them.  It need
\* only be right when no later apply is certain.
Listed ==
    ~Outstanding =>
        /\ \A p \in Proc :
             /\ pc[p] = "read_settings" => job[p].todo = Enabled
             /\ pc[p] \in SettingsReadPC \cup {"stamp", "clear_err"} =>
                  managed = IfacesOf(Enabled)
        /\ lock = NoProc /\ Synced => managed = IfacesOf(Enabled)

AllHold == \A row \in Enabled : Holds(row.iface)

\* What an apply has brought about so far.  Of two enabled peers with one
\* interface name, the first one's interface is not right while the second
\* one's file is new.
AppliedSoFar(p) ==
    /\ pc[p] \in SettingsReadPC => job[p].todo \subseteq Enabled
    /\ pc[p] = "wg" =>
         \A row \in Enabled : row \in job[p].todo \/ Holds(row.iface)
    /\ pc[p] \in {"wg_check", "wg_create", "wg_sync"} =>
         LET cur == job[p].cur IN
         /\ cur \in Enabled /\ confs[cur.iface] = ConfOf(cur, db.settings)
         /\ \A row \in Enabled :
              row \in job[p].todo \/ row.iface = cur.iface \/ Holds(row.iface)
    /\ pc[p] \in {"stamp", "clear_err"} => AllHold

BroughtUp ==
    ~Outstanding =>
        /\ \A p \in Proc : AppliedSoFar(p)
        /\ lock = NoProc /\ Synced => AllHold

OutsideStep ==
    \/ \E r \in Req : Call(r) \/ EditStep(r) \/ EditFault(r)
    \/ DebounceTick

LEMMA OutsideBeside ==
  ASSUME TypeInv, OutsideStep
  PROVE  Beside
  BY CallBeside, EditBeside, TickBeside DEF OutsideStep

\* A step outside the applies after which no apply is certain has not changed
\* a row, a file or the list of interfaces.
LEMMA QuietOutside ==
  ASSUME TypeInv, OutsideStep, ~Outstanding'
  PROVE  UNCHANGED <<table, db, managed, confs>>
<1> USE DEF TypeInv, TypeOK, Step, Accept, Answer, Goto, Proc, OwesPC, status,
            files, kernel
<1>1. /\ ~dirty' /\ \A r \in Req : pc'[r] \notin OwesPC
      /\ \A p \in Proc : pc'[p] # "lock"
  BY DEF Outstanding
<1>2. CASE DebounceTick
  BY <1>1, <1>2 DEF DebounceTick
<1>3. ASSUME NEW r \in Req, Call(r)
      PROVE  UNCHANGED <<table, db, managed, confs>>
  <2>1. CASE CreateCall(r) \/ UpdateCall(r) \/ DeleteFind(r) \/ RestartCall(r)
    BY <2>1 DEF CreateCall, UpdateCall, DeleteFind, RestartCall
  <2>2. CASE ToggleCall(r)
    BY <1>1, <2>2 DEF ToggleCall
  <2>3. CASE SaveSettings(r) \/ ApplyNowCall(r)
    BY <1>1, <2>3 DEF SaveSettings, ApplyNowCall
  <2> QED
    BY <1>3, <2>1, <2>2, <2>3 DEF Call
<1>4. ASSUME NEW r \in Req, EditStep(r) \/ EditFault(r)
      PROVE  UNCHANGED <<table, db, managed, confs>>
  <2>1. CASE \/ CreateCheck(r) \/ UpdateCheck(r) \/ UpdateFind(r)
             \/ RestartDown(r) \/ RestartUp(r) \/ RejectEdit(r)
             \/ CleanupFails(r) \/ RestartUpFails(r)
    BY <2>1 DEF CreateCheck, UpdateCheck, UpdateFind, RestartDown, RestartUp,
                RejectEdit, CleanupFails, RestartUpFails
  <2>2. CASE CreateInsert(r) \/ DeleteDown(r) \/ DeleteRmConf(r) \/ MarkDirty(r)
    BY <1>1, <2>2 DEF CreateInsert, DeleteDown, DeleteRmConf, MarkDirty
  <2>3. CASE UpdateWrite(r)
    BY <1>1, <2>3 DEF UpdateWrite
  <2>4. CASE DeleteRow(r)
    BY <1>1, <2>4 DEF DeleteRow
  <2> QED
    BY <1>4, <2>1, <2>2, <2>3, <2>4 DEF EditStep, EditFault
<1> QED
  BY <1>2, <1>3, <1>4 DEF OutsideStep

\* Nor does it load anything into an interface but what is in its file.
LEMMA HoldsOutside ==
  ASSUME TypeInv, OutsideStep, ~Outstanding', NEW i \in Iface, Holds(i)
  PROVE  Holds(i)'
<1> USE DEF TypeInv, TypeOK, CarriesRow, Proc, files, kernel
<1>1. UNCHANGED <<table, db, managed, confs>> /\ (Enabled' = Enabled)
  BY QuietOutside DEF Enabled
<1> DEFINE Current == link'[i] # "absent" => loaded'[i] = confs[i]
<1>2. SUFFICES Current
  BY <1>1 DEF Holds
<1>3. ASSUME NEW r \in Req, RestartDown(r) PROVE Current
  <2>1. loc[r] \in Row /\ loc[r].iface \in Iface
    BY <1>3 DEF RestartDown, Step, EditPC, OwesPC, Row
  <2>2. CASE loc[r].iface = i
    BY <1>1, <1>3, <2>2 DEF RestartDown, TakeDown, Holds
  <2>3. CASE loc[r].iface # i
    BY <1>3, <2>1, <2>3 DEF RestartDown, TakeDown, Holds
  <2> QED
    BY <2>2, <2>3
<1>4. ASSUME NEW r \in Req, RestartUp(r) PROVE Current
  <2>1. loc[r] \in Row /\ loc[r].iface \in Iface
    BY <1>4 DEF RestartUp, EditPC, OwesPC, Row
  <2>2. CASE loc[r].iface = i
    BY <1>4, <2>2 DEF RestartUp, Holds
  <2>3. CASE loc[r].iface # i
    BY <1>4, <2>1, <2>3 DEF RestartUp, Holds
  <2> QED
    BY <2>2, <2>3
<1>5. ASSUME UNCHANGED <<link, loaded>>
      PROVE  Current
  BY <1>5 DEF Holds
<1>6. CASE DebounceTick
  BY <1>5, <1>6 DEF DebounceTick
<1>7. ASSUME NEW r \in Req, Call(r) PROVE Current
  <2>1. CASE CreateCall(r) \/ UpdateCall(r) \/ DeleteFind(r) \/ RestartCall(r)
    BY <1>5, <2>1 DEF CreateCall, UpdateCall, DeleteFind, RestartCall
  <2>2. CASE ToggleCall(r) \/ SaveSettings(r) \/ ApplyNowCall(r)
    BY <1>5, <2>2 DEF ToggleCall, SaveSettings, ApplyNowCall
  <2> QED
    BY <1>7, <2>1, <2>2 DEF Call
<1>8. ASSUME NEW r \in Req, EditStep(r) \/ EditFault(r) PROVE Current
  <2>1. CASE \/ CreateCheck(r) \/ CreateInsert(r) \/ UpdateCheck(r)
             \/ UpdateFind(r) \/ UpdateWrite(r) \/ DeleteRow(r)
    BY <1>5, <2>1 DEF CreateCheck, CreateInsert, UpdateCheck, UpdateFind,
                      UpdateWrite, DeleteRow
  <2>2. CASE \/ DeleteRmConf(r) \/ MarkDirty(r) \/ RejectEdit(r)
             \/ CleanupFails(r) \/ RestartUpFails(r)
    BY <1>5, <2>2 DEF DeleteRmConf, MarkDirty, RejectEdit, CleanupFails,
                      RestartUpFails
  <2>3. CASE DeleteDown(r)
    <3>1. pc'[r] = "d_rmconf"
      BY <2>3 DEF DeleteDown, Step, Goto
    <3> QED
      BY <3>1 DEF Outstanding, OwesPC
  <2>4. CASE RestartDown(r) \/ RestartUp(r)
    BY <1>3, <1>4, <2>4
  <2> QED
    BY <1>8, <2>1, <2>2, <2>3, <2>4 DEF EditStep, EditFault
<1> QED
  BY <1>6, <1>7, <1>8 DEF OutsideStep

\* An apply that takes the lock has nothing to answer for yet.
LEMMA AcquireAlone ==
  ASSUME TypeInv, OrderInv, NEW p \in Proc, AcquireLock(p)
  PROVE  /\ \A q \in Proc : pc'[q] \in HoldPC => pc'[q] = "read_peers"
         /\ ~Synced'
<1>1. \A q \in Proc : pc[q] \notin HoldPC
  BY DEF AcquireLock, OrderInv, Exclusive
<1>2. pc' = [pc EXCEPT ![p] = "read_peers"] /\ pending'
  BY DEF AcquireLock, Step, Goto
<1> QED
  BY <1>1, <1>2 DEF TypeInv, TypeOK, Proc, Synced

\* An apply that stops half-way leaves a status that is not "synced".
LEMMA AbortUnsynced ==
  ASSUME TypeInv, OrderInv, Covered, NEW p \in Proc,
         pc[p] \in PeersReadPC \cup {"read_peers"}, Abort(p)
  PROVE  ~Synced' /\ \A q \in Proc : pc'[q] \notin HoldPC
<1>1. pc[p] \in HoldPC /\ Goto(p, "idle") /\ UNCHANGED <<dirty, pending>>
  BY DEF Abort, status, HoldPC, PeersReadPC
<1>2. pending
  BY DEF Covered
<1> QED
  BY <1>1, <1>2, HolderAlone DEF Synced, HoldPC

LEMMA ApplyListed ==
  ASSUME TypeInv, OrderInv, Covered, Listed,
         NEW p \in Proc, ApplyStep(p) \/ ApplyFault(p)
  PROVE  Listed'
<1> USE DEF Step, status, files, kernel, HoldPC, PeersReadPC, SettingsReadPC
<1>1. CASE AcquireLock(p)
  BY <1>1, AcquireAlone DEF Listed
<1>2. CASE pc[p] \in PeersReadPC \cup {"read_peers"} /\ Abort(p)
  BY <1>2, AbortUnsynced DEF Listed
<1>3. CASE ReadPeers(p)
  <2>1. /\ pc[p] \in HoldPC /\ Goto(p, "read_settings")
        /\ UNCHANGED <<dirty, table, lock, pending>>
    BY <1>3 DEF ReadPeers
  <2>2. job'[p].todo = Enabled'
    BY <1>3 DEF ReadPeers, TypeInv, TypeOK, Proc, Enabled
  <2>3. pending
    BY <1>3 DEF ReadPeers, Covered
  <2> QED
    BY <2>1, <2>2, <2>3, HolderAlone DEF Listed, Synced
<1>4. CASE ReadSettings(p)
  <2>1. /\ pc[p] = "read_settings" /\ Goto(p, "wg")
        /\ managed' = IfacesOf(job[p].todo)
        /\ UNCHANGED <<dirty, table, pending>>
    BY <1>4 DEF ReadSettings
  <2>2. (Outstanding' <=> Outstanding) /\ (Enabled' = Enabled)
    BY <2>1, HolderAlone DEF Enabled
  <2>3. ~Outstanding => managed' = IfacesOf(Enabled)'
    BY <2>1, <2>2 DEF Listed, IfacesOf
  <2> QED
    BY <2>1, <2>2, <2>3, HolderAlone DEF Listed
<1>5. CASE /\ pc[p] \in SettingsReadPC \cup {"stamp", "clear_err"}
           /\ \E label \in SettingsReadPC \cup {"stamp", "clear_err", "idle", "set_err"} :
                Goto(p, label)
           /\ UNCHANGED <<dirty, table, managed>>
  <2>1. PICK label \in SettingsReadPC \cup {"stamp", "clear_err", "idle", "set_err"} :
               Goto(p, label)
    BY <1>5
  <2>2. (Outstanding' <=> Outstanding) /\ pc'[p] = label
    BY <1>5, <2>1, HolderAlone
  <2>3. ~Outstanding => managed' = IfacesOf(Enabled)'
    BY <1>5 DEF Listed, IfacesOf, Enabled
  <2> QED
    BY <1>5, <2>1, <2>2, <2>3, HolderAlone DEF Listed
<1>6. CASE ReportFailure(p)
  <2>1. pc[p] = "set_err" /\ Goto(p, "idle") /\ UNCHANGED dirty /\ lastErr'
    BY <1>6 DEF ReportFailure, Report
  <2> QED
    BY <2>1, HolderAlone DEF Listed, Synced
<1>7. CASE WriteConf(p) \/ CheckLink(p) \/ ApplyBird(p) \/ BirdFails(p)
  BY <1>5, <1>7 DEF WriteConf, CheckLink, ApplyBird, BirdFails
<1>8. CASE (CreateLink(p) \/ SyncLink(p)) /\ Goto(p, "wg")
  <2>1. UNCHANGED <<dirty, table, managed>>
    BY <1>8 DEF CreateLink, SyncLink, Abort
  <2> QED
    BY <1>5, <1>8, <2>1 DEF CreateLink, SyncLink
<1>9. CASE StampSuccess(p) \/ ReportSuccess(p)
  BY <1>5, <1>9 DEF StampSuccess, ReportSuccess, Report
<1> QED
  BY <1>1, <1>2, <1>3, <1>4, <1>6, <1>7, <1>8, <1>9
     DEF ApplyStep, ApplyFault, CreateLink, SyncLink, ReadOrWriteFails,
         CreateFails, SyncFails

\* Interface i holds after a step of an apply that leaves it alone.
LEMMA HoldsInside ==
  ASSUME TypeInv, NEW p \in Proc, pc[p] \in HoldPC, NEW label \in HoldPC \cup {"idle"},
         Goto(p, label), UNCHANGED <<table, db, loc>>, NEW i \in Iface,
         confs'[i] = confs[i], link'[i] = link[i], loaded'[i] = loaded[i],
         Holds(i)
  PROVE  Holds(i)'
<1>1. \A r \in Req : pc'[r] = "r_up" <=> pc[r] = "r_up"
  BY DEF TypeInv, TypeOK, Goto, HoldPC, Proc
<1> QED
  BY <1>1 DEF Holds, Enabled

\* The step that brings an interface up, from its file.
LEMMA BringsUp ==
  ASSUME TypeInv, OrderInv, Covered, BroughtUp, NEW p \in Proc, Goto(p, "wg"),
         CreateLink(p) \/ SyncLink(p)
  PROVE  BroughtUp'
<1> DEFINE cur == job[p].cur
<1>1. /\ pc[p] \in {"wg_check", "wg_create", "wg_sync"}
      /\ pc' = [pc EXCEPT ![p] = "wg"]
  BY DEF CreateLink, SyncLink, Goto
<1>2. /\ UNCHANGED <<table, db, dirty, loc, job, confs>>
      /\ link'[cur.iface] # "absent"
      /\ loaded'[cur.iface] = confs[cur.iface]
      /\ \A i \in Iface : i # cur.iface =>
           link'[i] = link[i] /\ loaded'[i] = loaded[i]
  <2>1. cur \in Row /\ cur.iface \in Iface
    BY <1>1 DEF TypeInv, CarriesRow, Row
  <2>2. CASE CreateLink(p)
    <3>1. /\ UNCHANGED <<table, db, dirty, loc, job, confs>>
          /\ link' = [link EXCEPT ![cur.iface] = "up"]
          /\ loaded' = [loaded EXCEPT ![cur.iface] = confs[cur.iface]]
      BY <1>1, <2>2 DEF CreateLink, Abort, files, Goto, TypeInv, TypeOK, Proc
    <3> QED
      BY <2>1, <3>1 DEF TypeInv, TypeOK
  <2>3. CASE SyncLink(p)
    BY <2>1, <2>3, <1>1 DEF SyncLink, Abort, files, Goto, TypeInv, TypeOK, Proc
  <2> QED
    BY <2>2, <2>3
<1>3. /\ Outstanding' <=> Outstanding
      /\ pc'[p] = "wg"
      /\ \A q \in Proc : q # p => pc'[q] \notin HoldPC
      /\ lock' # NoProc
  <2>1. lock = p /\ lock' = lock
    <3>1. pc[p] \in HoldPC
      BY <1>1 DEF HoldPC
    <3> QED
      BY <3>1, <1>1, <1>2 DEF OrderInv, Exclusive, CreateLink, SyncLink, Abort, Goto,
                         TypeInv, TypeOK, Proc
  <2> QED
    BY <1>1, <1>2, <2>1, HolderAlone DEF HoldPC, Proc
<1>4. ASSUME ~Outstanding, NEW row \in Enabled, row \notin job[p].todo
      PROVE  Holds(row.iface)'
  <2>1. /\ cur \in Enabled /\ confs[cur.iface] = ConfOf(cur, db.settings)
        /\ row.iface = cur.iface \/ Holds(row.iface)
    BY <1>1, <1>4 DEF BroughtUp, AppliedSoFar
  <2>2. row.iface \in Iface
    BY DEF Enabled, TypeInv, TypeOK, Row
  <2>3. CASE row.iface = cur.iface
    BY <1>2, <2>1, <2>3 DEF Holds, Enabled
  <2>4. CASE row.iface # cur.iface
    BY <1>1, <1>2, <2>1, <2>2, <2>4, HoldsInside DEF HoldPC
  <2> QED
    BY <2>3, <2>4
<1>5. ~Outstanding => job[p].todo \subseteq Enabled
  BY <1>1 DEF BroughtUp, AppliedSoFar, SettingsReadPC
<1> QED
  BY <1>2, <1>3, <1>4, <1>5
     DEF BroughtUp, AppliedSoFar, Enabled, HoldPC, SettingsReadPC

LEMMA ApplyBroughtUp ==
  ASSUME TypeInv, OrderInv, Covered, Listed, BroughtUp,
         NEW p \in Proc, ApplyStep(p) \/ ApplyFault(p)
  PROVE  BroughtUp'
<1> USE DEF Step, status, files, kernel, HoldPC, PeersReadPC, SettingsReadPC
<1>1. CASE AcquireLock(p)
  BY <1>1, AcquireAlone DEF BroughtUp, AppliedSoFar
<1>2. CASE pc[p] \in PeersReadPC \cup {"read_peers"} /\ Abort(p)
  BY <1>2, AbortUnsynced DEF BroughtUp, AppliedSoFar
<1>3. CASE ReadPeers(p)
  <2>1. pc[p] \in HoldPC /\ Goto(p, "read_settings") /\ UNCHANGED <<dirty, pending>>
    BY <1>3 DEF ReadPeers
  <2>2. pending
    BY <1>3 DEF ReadPeers, Covered
  <2> QED
    BY <2>1, <2>2, HolderAlone DEF BroughtUp, AppliedSoFar, Synced
<1>4. CASE ReadSettings(p)
  <2>1. /\ pc[p] = "read_settings" /\ Goto(p, "wg")
        /\ UNCHANGED <<dirty, table, pending>>
        /\ job'[p].todo = job[p].todo
    BY <1>4 DEF ReadSettings, TypeInv, TypeOK, Proc, Job
  <2>2. /\ Outstanding' <=> Outstanding
        /\ pc'[p] = "wg"
        /\ \A q \in Proc : q # p => pc'[q] \notin HoldPC
        /\ ~Synced'
    BY <2>1, HolderAlone DEF Covered, Synced
  <2>3. ~Outstanding => job'[p].todo = Enabled'
    BY <2>1 DEF Listed, Enabled
  <2> QED
    BY <2>2, <2>3 DEF BroughtUp, AppliedSoFar
<1>5. CASE (CreateLink(p) \/ SyncLink(p)) /\ Goto(p, "wg")
  BY <1>5, BringsUp
<1>6. CASE WriteConf(p)
  <2>1. PICK row \in job[p].todo :
          /\ confs' = [confs EXCEPT ![row.iface] = ConfOf(row, job[p].ver.settings)]
          /\ job' = [job EXCEPT ![p].cur = row, ![p].todo = @ \ {row}]
    BY <1>6 DEF WriteConf
  <2>2. /\ pc[p] = "wg" /\ Goto(p, "wg_check")
        /\ UNCHANGED <<table, db, dirty, loc, link, loaded, pending>>
    BY <1>6 DEF WriteConf
  <2>3. /\ Outstanding' <=> Outstanding
        /\ pc'[p] = "wg_check"
        /\ \A q \in Proc : q # p => pc'[q] \notin HoldPC
        /\ ~Synced'
    BY <2>2, HolderAlone DEF Covered, Synced
  <2>4. job'[p].cur = row /\ job'[p].todo = job[p].todo \ {row}
    BY <2>1 DEF TypeInv, TypeOK, Proc, Job
  <2>5. row \in Row /\ row.iface \in Iface
    BY DEF TypeInv, TypeOK, Proc, Job, Row
  <2>6. ASSUME ~Outstanding
        PROVE  /\ row \in Enabled' /\ job'[p].todo \subseteq Enabled'
               /\ confs'[row.iface] = ConfOf(row, db'.settings)
    <3>1. job[p].todo \subseteq Enabled /\ job[p].ver.settings = db.settings
      BY <2>2, <2>6 DEF BroughtUp, AppliedSoFar, Covered
    <3> QED
      BY <2>1, <2>2, <2>4, <2>5, <3>1 DEF Enabled, TypeInv, TypeOK
  <2>7. ASSUME ~Outstanding, NEW other \in Enabled, other \notin job'[p].todo,
               other.iface # row.iface
        PROVE  Holds(other.iface)'
    <3>1. Holds(other.iface)
      BY <2>2, <2>4, <2>7 DEF BroughtUp, AppliedSoFar
    <3>2. other.iface \in Iface
      BY DEF Enabled, TypeInv, TypeOK, Row
    <3>3. confs'[other.iface] = confs[other.iface]
      BY <2>1, <2>5, <2>7, <3>2 DEF TypeInv, TypeOK
    <3> QED
      BY <2>2, <3>1, <3>2, <3>3, HoldsInside
  <2>8. Enabled' = Enabled
    BY <2>2 DEF Enabled
  <2> QED
    BY <2>3, <2>4, <2>6, <2>7, <2>8 DEF BroughtUp, AppliedSoFar
<1>7. CASE CheckLink(p)
  <2>1. /\ pc[p] = "wg_check" /\ UNCHANGED <<table, db, dirty, loc, files, kernel, job, pending>>
        /\ \E label \in {"wg_create", "wg_sync"} : Goto(p, label)
    BY <1>7 DEF CheckLink
  <2>2. PICK label \in {"wg_create", "wg_sync"} : Goto(p, label)
    BY <2>1
  <2>3. /\ Outstanding' <=> Outstanding
        /\ pc'[p] = label
        /\ \A q \in Proc : q # p => pc'[q] \notin HoldPC
        /\ ~Synced'
    BY <2>1, <2>2, HolderAlone DEF Covered, Synced
  <2>4. Enabled' = Enabled /\ \A row \in Enabled : row.iface \in Iface
    BY <2>1 DEF Enabled, TypeInv, TypeOK, Row
  <2>5. \A row \in Enabled : Holds(row.iface) => Holds(row.iface)'
    BY <2>1, <2>2, <2>4, HoldsInside
  <2>6. ~Outstanding => AppliedSoFar(p)
    BY DEF BroughtUp
  <2> QED
    BY <2>1, <2>3, <2>4, <2>5, <2>6 DEF BroughtUp, AppliedSoFar
<1>8. CASE ApplyBird(p)
  <2>1. /\ pc[p] = "wg" /\ Goto(p, "stamp") /\ job[p].todo = {}
        /\ UNCHANGED <<table, db, dirty, lock, loc, confs, link, loaded>>
    BY <1>8 DEF ApplyBird
  <2>2. \A row \in Enabled : row.iface \in Iface
    BY DEF Enabled, TypeInv, TypeOK, Row
  <2>3. ~Outstanding => AllHold'
    <3>1. ~Outstanding => \A row \in Enabled : Holds(row.iface)
      BY <2>1 DEF BroughtUp, AppliedSoFar
    <3>2. \A row \in Enabled : Holds(row.iface) => Holds(row.iface)'
      BY <2>1, <2>2, HoldsInside
    <3> QED
      BY <2>1, <3>1, <3>2 DEF AllHold, Enabled
  <2> QED
    BY <2>1, <2>3, HolderAlone DEF BroughtUp, AppliedSoFar
<1>9. CASE StampSuccess(p) \/ ReportSuccess(p)
  <2>1. PICK label \in {"clear_err", "idle"} : Goto(p, label)
    BY <1>9 DEF StampSuccess, ReportSuccess, Report
  <2>2. pc[p] \in {"stamp", "clear_err"}
        /\ UNCHANGED <<table, db, dirty, loc, files, kernel>>
    BY <1>9 DEF StampSuccess, ReportSuccess, Report
  <2>3. \A row \in Enabled : row.iface \in Iface
    BY DEF Enabled, TypeInv, TypeOK, Row
  <2>4. ~Outstanding => AllHold'
    <3>1. ~Outstanding => \A row \in Enabled : Holds(row.iface)
      BY <2>2 DEF BroughtUp, AppliedSoFar, AllHold
    <3>2. \A row \in Enabled : Holds(row.iface) => Holds(row.iface)'
      BY <2>1, <2>2, <2>3, HoldsInside
    <3> QED
      BY <2>2, <3>1, <3>2 DEF AllHold, Enabled
  <2> QED
    BY <2>1, <2>2, <2>4, HolderAlone DEF BroughtUp, AppliedSoFar
<1>10. CASE BirdFails(p) \/ ReportFailure(p)
  <2>1. PICK label \in {"set_err", "idle"} :
          /\ pc[p] \in {"wg", "set_err"} /\ Goto(p, label) /\ UNCHANGED dirty
          /\ label = "idle" => lastErr'
          /\ label = "set_err" => UNCHANGED lock /\ pc[p] = "wg"
    BY <1>10 DEF BirdFails, ReportFailure, Report
  <2>2. label = "set_err" => lock' # NoProc
    BY <2>1 DEF OrderInv, Exclusive, Proc
  <2> QED
    BY <2>1, <2>2, HolderAlone DEF BroughtUp, AppliedSoFar, Synced
<1> QED
  BY <1>1, <1>2, <1>3, <1>4, <1>5, <1>6, <1>7, <1>8, <1>9, <1>10
     DEF ApplyStep, ApplyFault, CreateLink, SyncLink, ReadOrWriteFails,
         CreateFails, SyncFails

LEMMA FaultyCases ==
  ASSUME Faulty
  PROVE  \/ OutsideStep
         \/ \E p \in Proc : ApplyStep(p) \/ ApplyFault(p)
         \/ Crash
  BY DEF Faulty, Quiet, OutsideStep

\* With failing commands, a failing database and restarts: when the status
\* says "synced" and nothing is going on, it lists exactly the interfaces of
\* the enabled peers.
THEOREM ManagedIsHonest == Spec => []ManagedHonest
<1>1. Init => Listed
  BY DEF Init, Listed, Synced, Proc, SettingsReadPC
<1>2. ASSUME TypeInv, OrderInv, Covered, Listed, [Faulty]_vars
      PROVE  Listed'
  <2>1. CASE UNCHANGED vars
    BY <1>2, <2>1 DEF Listed, Synced, Outstanding, Enabled, vars, status, files, kernel
  <2>2. CASE OutsideStep
    BY <1>2, <2>2, OutsideBeside, QuietOutside
       DEF Listed, Beside, Synced, Enabled, HoldPC, SettingsReadPC
  <2>3. CASE Crash
    BY <2>3 DEF Crash, Listed, Synced, Proc, SettingsReadPC
  <2> QED
    BY <1>2, <2>1, <2>2, <2>3, ApplyListed, FaultyCases
<1>3. TypeInv /\ OrderInv /\ Covered /\ Listed /\ [Faulty]_vars => Listed'
  BY <1>2
<1>4. Listed => ManagedHonest
  BY DEF Listed, ManagedHonest, Settled
<1> QED
  BY <1>1, <1>3, <1>4, SpecInvariants, PTL DEF Spec

\* "Synced" is never stale: in a settled synced state the file of every enabled
\* peer's interface is written from the table and the settings of now, and so
\* is what runs in the kernel, unless the interface is not there.
WgIsCurrent ==
    Settled =>
        \A row \in Enabled :
            LET i == row.iface IN
            /\ \E q \in Enabled :
                 q.iface = i /\ confs[i] = ConfOf(q, db.settings)
            /\ link[i] # "absent" => loaded[i] = confs[i]

\* ... whatever fails, also a restart_interface that takes an interface down
\* and does not bring it up again (which nothing records).
THEOREM WgAlwaysCurrent == Spec => []WgIsCurrent
<1>1. Init => Listed /\ BroughtUp
  BY DEF Init, Listed, BroughtUp, AppliedSoFar, Synced, Proc, SettingsReadPC
<1>2. ASSUME TypeInv, OrderInv, Covered, Listed, BroughtUp, [Faulty]_vars
      PROVE  Listed' /\ BroughtUp'
  <2>1. CASE UNCHANGED vars
    BY <1>2, <2>1
       DEF Listed, BroughtUp, AppliedSoFar, AllHold, Holds, Synced,
           Outstanding, Enabled, vars, status, files, kernel
  <2>2. CASE OutsideStep
    <3>1. Beside
      BY <1>2, <2>2, OutsideBeside
    <3>2. CASE ~Outstanding'
      <4>1. UNCHANGED <<table, db, managed, confs, lock, pending, lastErr, lastAt, job>>
            /\ ~Outstanding
        BY <1>2, <2>2, <3>1, <3>2, QuietOutside DEF Beside
      <4>2. Enabled' = Enabled /\ \A row \in Enabled : row.iface \in Iface
        BY <1>2, <4>1 DEF Enabled, TypeInv, TypeOK, Row
      <4>3. \A row \in Enabled : Holds(row.iface) => Holds(row.iface)'
        BY <1>2, <2>2, <3>2, <4>2, HoldsOutside
      <4>4. ASSUME NEW p \in Proc, pc'[p] \in HoldPC
            PROVE  AppliedSoFar(p) /\ pc'[p] = pc[p]
        BY <1>2, <3>1, <4>1, <4>4 DEF Beside, BroughtUp
      <4>5. BroughtUp'
        BY <1>2, <4>1, <4>2, <4>3, <4>4
           DEF BroughtUp, AppliedSoFar, AllHold, Synced, HoldPC, SettingsReadPC
      <4> QED
        BY <1>2, <3>1, <4>1, <4>2, <4>5
           DEF Listed, Beside, Synced, HoldPC, SettingsReadPC
    <3>3. CASE Outstanding'
      BY <3>3 DEF Listed, BroughtUp
    <3> QED
      BY <3>2, <3>3
  <2>3. CASE Crash
    BY <2>3 DEF Crash, Listed, BroughtUp, AppliedSoFar, Synced, Proc, SettingsReadPC
  <2> QED
    BY <1>2, <2>1, <2>2, <2>3, ApplyListed, ApplyBroughtUp, FaultyCases
<1>3. TypeInv /\ OrderInv /\ Covered /\ Listed /\ BroughtUp /\ [Faulty]_vars
        => Listed' /\ BroughtUp'
  BY <1>2
<1>4. BroughtUp => WgIsCurrent
  BY DEF BroughtUp, AllHold, Holds, Settled, WgIsCurrent
<1> QED
  BY <1>1, <1>3, <1>4, SpecInvariants, PTL DEF Spec

=============================================================================
