--------------------------- MODULE PeerKeysProofs ---------------------------
(***************************************************************************)
(* What holds of PeerKeys for every number of calls, keys and peers:       *)
(* typing, and in cluster mode that the node keeps its key pair and that   *)
(* every peer the node gave a key has that one.  Then the load of the      *)
(* startup is the only one that finds no key, and whatever a handler       *)
(* carries to its write is the key of the row (KeyInv).                    *)
(***************************************************************************)
EXTENDS PeerKeys, TLAPS

-----------------------------------------------------------------------------
(* Typing *)

LEMMA ContinueTyping == \A op : Continue(op) \in PC
BY DEF Continue, PC

LEMMA NoCallTyping == NoCall \in Request
BY DEF NoCall, Request, Op, NodeKey

LEMMA TypeInit == Init => TypeOK
BY NoCallTyping DEF Init, TypeOK, NodeKey, PC

LEMMA AcceptTyping ==
    ASSUME TypeOK, NEW c \in Call, NEW label \in PC, NEW request \in Request,
           Accept(c, label, request)
    PROVE  pc' \in [Proc -> PC] /\ loc' \in [Proc -> Request]
BY DEF TypeOK, Accept, Goto, Proc

LEMMA AnswerTyping ==
    ASSUME TypeOK, NEW c \in Call, Answer(c)
    PROVE  pc' \in [Proc -> PC] /\ loc' \in [Proc -> Request]
BY NoCallTyping DEF TypeOK, Answer, Goto, Proc, PC

LEMMA LoadedTyping ==
    ASSUME TypeOK, NEW p \in Proc, NEW k \in NodeKey, Loaded(p, k)
    PROVE  pc' \in [Proc -> PC] /\ loc' \in [Proc -> Request]
<1>1. [loc[p] EXCEPT !.node = k] \in Request
  BY DEF TypeOK, Request
<1>. QED
  BY <1>1, ContinueTyping, NoCallTyping DEF TypeOK, Loaded, Goto

LEMMA RequestTyping ==
    ASSUME NEW op \in Op, NEW id \in Nat, NEW k \in {NoKey, Own}
    PROVE  /\ [NoCall EXCEPT !.op = op] \in Request
           /\ [NoCall EXCEPT !.op = op, !.key = k] \in Request
           /\ [NoCall EXCEPT !.op = op, !.id = id, !.key = k] \in Request
BY DEF NoCall, Request, NodeKey

LEMMA TypeNext == TypeOK /\ [Next]_vars => TypeOK'
<1>. SUFFICES ASSUME TypeOK, [Next]_vars PROVE TypeOK'
  OBVIOUS
<1>0. /\ {"load", "save", "create", "update", "push"} \subseteq Op
      /\ {"select", "store", "p_find", "p_insert"} \subseteq PC
  BY DEF Op, PC
<1>. USE DEF TypeOK
<1>1. ASSUME Start PROVE TypeOK'
  <2>1. [loc[Main] EXCEPT !.op = "start"] \in Request
    BY DEF Request, Op, Proc
  <2>. QED
    BY <1>1, <2>1 DEF Start, Goto, PC, Proc
<1>2. ASSUME Crash PROVE TypeOK'
  BY <1>2, NoCallTyping DEF Crash, PC
<1>3. ASSUME NEW p \in Proc, Select(p) PROVE TypeOK'
  <2>1. CASE Loaded(p, nodeKey)
    BY <1>3, <2>1, LoadedTyping DEF Select
  <2>2. ASSUME NEW k \in Key, loc' = [loc EXCEPT ![p].node = k],
               Goto(p, "store")
        PROVE  TypeOK'
    <3>1. [loc[p] EXCEPT !.node = k] \in Request
      BY DEF Request, NodeKey
    <3>. QED
      BY <1>3, <2>2, <3>1, <1>0 DEF Select, Goto
  <2>. QED
    BY <1>3, <2>1, <2>2 DEF Select
<1>4. ASSUME NEW p \in Proc, Store(p) PROVE TypeOK'
  <2>1. loc[p].node \in NodeKey
    BY DEF Request
  <2>. QED
    BY <1>4, <2>1, LoadedTyping DEF Store
<1>5. ASSUME NEW c \in Call, GiveUp(c) PROVE TypeOK'
  BY <1>5, AnswerTyping DEF GiveUp
<1>6. ASSUME NEW c \in Call, LoadCall(c) \/ SaveCall(c) PROVE TypeOK'
  <2>1. /\ [NoCall EXCEPT !.op = "load"] \in Request
        /\ [NoCall EXCEPT !.op = "save"] \in Request
    BY <1>0, RequestTyping
  <2>. QED
    BY <1>0, <1>6, <2>1, AcceptTyping DEF LoadCall, SaveCall
<1>7. ASSUME NEW c \in Call, Save(c) PROVE TypeOK'
  <2>1. [loc[c] EXCEPT !.op = "saved"] \in Request /\ loc[c].node \in NodeKey
    BY DEF Request, Op, Proc
  <2>. QED
    BY <1>7, <2>1, <1>0 DEF Save, Goto, Proc
<1>8. ASSUME NEW c \in Call, CreateCall(c) PROVE TypeOK'
  <2>. PICK k \in {NoKey, Own} :
         Accept(c, "select", [NoCall EXCEPT !.op = "create", !.key = k])
    BY <1>8 DEF CreateCall
  <2>1. [NoCall EXCEPT !.op = "create", !.key = k] \in Request
    BY <1>0, RequestTyping
  <2>. QED
    BY <1>0, <1>8, <2>1, AcceptTyping DEF CreateCall
<1>9. ASSUME NEW c \in Call, UpdateCall(c) PROVE TypeOK'
  <2>. PICK row \in peers, k \in {NoKey, Own} :
         Accept(c, "select",
                [NoCall EXCEPT !.op = "update", !.id = row.id, !.key = k])
    BY <1>9 DEF UpdateCall
  <2>1. row.id \in Nat
    BY DEF Row
  <2>2. [NoCall EXCEPT !.op = "update", !.id = row.id, !.key = k] \in Request
    BY <1>0, <2>1, RequestTyping
  <2>. QED
    BY <1>0, <1>9, <2>2, AcceptTyping DEF UpdateCall
<1>10. ASSUME NEW c \in Call, Insert(c) \/ PushInsert(c) PROVE TypeOK'
  <2>1. Filled(loc[c]) \in PeerKey /\ loc[c].key \in PeerKey
    BY DEF Filled, PeerKey, NodeKey, Proc, Request
  <2>2. lastId' \in Nat \ {0}
    BY <1>10 DEF Insert, PushInsert
  <2>3. \A k \in PeerKey, b \in BOOLEAN :
          [id |-> lastId', key |-> k, local |-> b] \in Row
    BY <2>2 DEF Row
  <2>4. peers' \subseteq Row
    <3>1. CASE Insert(c)
      <4>1. peers' = peers \cup
              {[id |-> lastId', key |-> Filled(loc[c]), local |-> TRUE]}
        BY <3>1 DEF Insert
      <4>. QED
        BY <4>1, <2>1, <2>3
    <3>2. CASE PushInsert(c)
      <4>1. peers' = peers \cup
              {[id |-> lastId', key |-> loc[c].key, local |-> FALSE]}
        BY <3>2 DEF PushInsert
      <4>. QED
        BY <4>1, <2>1, <2>3
    <3>. QED
      BY <1>10, <3>1, <3>2
  <2>. QED
    BY <1>10, <2>2, <2>4, AnswerTyping DEF Insert, PushInsert
<1>11. ASSUME NEW c \in Call, Write(c) PROVE TypeOK'
  <2>1. Filled(loc[c]) \in PeerKey
    BY DEF Filled, PeerKey, NodeKey, Proc, Request
  <2>2. peers' \subseteq Row
    BY <1>11, <2>1 DEF Write, Row
  <2>. QED
    BY <1>11, <2>2, AnswerTyping DEF Write
<1>12. ASSUME NEW c \in Call, Delete(c) PROVE TypeOK'
  BY <1>12 DEF Delete
<1>13. ASSUME NEW c \in Call, PushCall(c) PROVE TypeOK'
  <2>. PICK id \in 0 .. lastId, k \in {NoKey, Own} :
         Accept(c, "p_find",
                [NoCall EXCEPT !.op = "push", !.id = id, !.key = k])
    BY <1>13 DEF PushCall
  <2>0. id \in Nat
    OBVIOUS
  <2>1. [NoCall EXCEPT !.op = "push", !.id = id, !.key = k] \in Request
    BY <1>0, <2>0, RequestTyping
  <2>. QED
    BY <1>0, <1>13, <2>1, AcceptTyping DEF PushCall
<1>14. ASSUME NEW c \in Call, PushFind(c) PROVE TypeOK'
  BY <1>0, <1>14, AnswerTyping DEF PushFind, Goto, Proc
<1>15. CASE UNCHANGED vars
  BY <1>15 DEF vars
<1>. QED
  BY <1>1, <1>2, <1>3, <1>4, <1>5, <1>6, <1>7, <1>8, <1>9, <1>10, <1>11,
     <1>12, <1>13, <1>14, <1>15 DEF Next

\* Every reachable state is well typed, in either mode.
THEOREM KeyTyping == Spec => []TypeOK
BY TypeInit, TypeNext, PTL DEF Spec

-----------------------------------------------------------------------------
(* The key pair in cluster mode *)

\* Only the startup loads a row without a key; a handler that is past its
\* load carries the key of the row.
KeyInv ==
    /\ TypeOK
    /\ pc[Main] \in {"idle", "select", "store", "serve"}
    /\ pc[Main] # "idle" => loc[Main].op = "start"
    /\ pc[Main] = "store" => nodeKey = NoKey /\ loc[Main].node \in Key
    /\ Serving => nodeKey # NoKey
    /\ \A c \in Call :
         /\ pc[c] # "idle" => Serving
         /\ pc[c] \notin {"store", "serve"}
         /\ pc[c] = "select" => loc[c].op # "start"
         /\ pc[c] \in {"save", "insert", "write"} => loc[c].node = nodeKey
    /\ PeersShareTheNodeKey

LEMMA KeyInit == Init => KeyInv
<1>. SUFFICES ASSUME Init PROVE KeyInv
  OBVIOUS
<1>1. Main \in Proc /\ Call \subseteq Proc
  BY DEF Proc
<1>. QED
  BY <1>1, TypeInit DEF Init, KeyInv, Serving, PeersShareTheNodeKey

\* The part of the invariant about one call, and how a step of the call p
\* keeps it for all others.
CallInv(c) ==
    /\ pc[c] # "idle" => Serving
    /\ pc[c] \notin {"store", "serve"}
    /\ pc[c] = "select" => loc[c].op # "start"
    /\ pc[c] \in {"save", "insert", "write"} => loc[c].node = nodeKey

LEMMA StepOfCall ==
    ASSUME KeyInv, TypeOK', NEW c \in Call, nodeKey' = nodeKey,
           PeersShareTheNodeKey',
           \A p \in Proc \ {c} : pc'[p] = pc[p] /\ loc'[p] = loc[p],
           pc'[c] # "idle" => Serving,
           pc'[c] \notin {"store", "serve"},
           pc'[c] = "select" => loc'[c].op # "start",
           pc'[c] \in {"save", "insert", "write"} => loc'[c].node = nodeKey
    PROVE  KeyInv'
<1>1. Main \in Proc \ {c} /\ Call \subseteq Proc
  BY MainAssumption DEF Proc
<1>2. pc'[Main] = pc[Main] /\ loc'[Main] = loc[Main] /\ Serving' = Serving
  BY <1>1 DEF Serving
<1>3. ASSUME NEW d \in Call PROVE CallInv(d)'
  <2>1. CASE d = c
    BY <2>1, <1>2 DEF CallInv
  <2>2. CASE d # c
    BY <2>2, <1>1, <1>2 DEF CallInv, KeyInv
  <2>. QED
    BY <2>1, <2>2
<1>. QED
  BY <1>2, <1>3 DEF KeyInv, CallInv

LEMMA OthersStay ==
    ASSUME TypeOK, NEW c \in Call, NEW label, NEW request,
           pc' = [pc EXCEPT ![c] = label], loc' = [loc EXCEPT ![c] = request]
    PROVE  /\ pc'[c] = label /\ loc'[c] = request
           /\ \A p \in Proc \ {c} : pc'[p] = pc[p] /\ loc'[p] = loc[p]
BY DEF TypeOK, Proc

LEMMA KeyNext ==
    ASSUME ClusterMode, KeyInv, [Next]_vars
    PROVE  KeyInv' /\ (nodeKey # NoKey => nodeKey' = nodeKey)
<1>. DEFINE Good == KeyInv' /\ (nodeKey # NoKey => nodeKey' = nodeKey)
<1>0. TypeOK /\ TypeOK' /\ Main \in Proc /\ Call \subseteq Proc /\ Main \notin Call
  BY TypeNext, MainAssumption DEF KeyInv, Proc
<1>1. ASSUME Start PROVE Good
  BY <1>0, <1>1 DEF Start, Goto, KeyInv, Serving, TypeOK, PeersShareTheNodeKey
<1>2. ASSUME Crash PROVE Good
  BY <1>0, <1>2 DEF Crash, KeyInv, Serving, PeersShareTheNodeKey
<1>3. ASSUME Select(Main) PROVE Good
  <2>1. loc[Main].op = "start"
    BY <1>3 DEF Select, KeyInv
  <2>2. CASE nodeKey # NoKey /\ Loaded(Main, nodeKey)
    BY <1>0, <1>3, <2>1, <2>2 DEF Select, Loaded, Continue, Goto, KeyInv, Serving,
         TypeOK, Request, PeersShareTheNodeKey
  <2>3. ASSUME nodeKey = NoKey, NEW k \in Key,
               loc' = [loc EXCEPT ![Main].node = k], Goto(Main, "store")
        PROVE  Good
    BY <1>0, <1>3, <2>1, <2>3 DEF Select, Goto, KeyInv, Serving, TypeOK, Request,
         PeersShareTheNodeKey
  <2>. QED
    BY <1>3, <2>2, <2>3 DEF Select
<1>4. ASSUME Store(Main) PROVE Good
  <2>1. /\ loc[Main].op = "start" /\ nodeKey = NoKey
        /\ nodeKey' \in Key /\ nodeKey' # NoKey
    BY <1>4, KeyAssumption DEF Store, KeyInv
  <2>2. PeersShareTheNodeKey'
    BY <1>4, <2>1, KeyAssumption DEF Store, KeyInv, PeersShareTheNodeKey
  <2>. QED
    BY <1>0, <1>4, <2>1, <2>2 DEF Store, Loaded, Continue, Goto, KeyInv, Serving,
         TypeOK, Request
<1>5. ASSUME NEW c \in Call, Select(c) PROVE Good
  <2>1. nodeKey # NoKey /\ Loaded(c, nodeKey) /\ loc[c].op # "start"
    BY <1>5 DEF Select, KeyInv
  <2>. DEFINE label == Continue(loc[c].op)
              request == IF label = "idle" THEN NoCall
                                           ELSE [loc[c] EXCEPT !.node = nodeKey]
  <2>2. pc' = [pc EXCEPT ![c] = label] /\ loc' = [loc EXCEPT ![c] = request]
    BY <2>1, <1>0 DEF Loaded, Goto, TypeOK
  <2>6. label # "idle" => request.node = nodeKey
    BY <1>0 DEF TypeOK, Request
  <2>3. Continue(loc[c].op) \in {"save", "insert", "write", "idle"}
    BY <2>1 DEF Continue
  <2>4. nodeKey' = nodeKey /\ PeersShareTheNodeKey'
    BY <1>5 DEF Select, KeyInv, PeersShareTheNodeKey
  <2>5. Serving
    BY <1>5 DEF Select, KeyInv
  <2>7. /\ pc'[c] = label /\ loc'[c] = request
        /\ \A p \in Proc \ {c} : pc'[p] = pc[p] /\ loc'[p] = loc[p]
    <3>. HIDE DEF label, request
    <3>. QED
      BY <1>0, <2>2, OthersStay
  <2>8. KeyInv'
    BY <1>0, <2>3, <2>4, <2>5, <2>6, <2>7, StepOfCall
  <2>. QED
    BY <2>4, <2>8
<1>6. ASSUME NEW c \in Call, Store(c) PROVE Good
  BY <1>6 DEF Store, KeyInv
<1>7. ASSUME NEW c \in Call, NEW label \in {"select", "p_find"},
             NEW request \in Request, request.op # "start",
             Accept(c, label, request), UNCHANGED <<nodeKey, peers, lastId>>
      PROVE  Good
  <2>1. PeersShareTheNodeKey'
    BY <1>7 DEF KeyInv, PeersShareTheNodeKey
  <2>2. /\ pc'[c] = label /\ loc'[c] = request
        /\ \A p \in Proc \ {c} : pc'[p] = pc[p] /\ loc'[p] = loc[p]
    BY <1>0, <1>7, OthersStay DEF Accept, Goto
  <2>3. Serving /\ nodeKey' = nodeKey
    BY <1>7 DEF Accept
  <2>4. KeyInv'
    BY <1>0, <1>7, <2>1, <2>2, <2>3, StepOfCall
  <2>. QED
    BY <2>3, <2>4
<1>8. ASSUME NEW c \in Call, Answer(c), nodeKey' = nodeKey, PeersShareTheNodeKey'
      PROVE  Good
  BY <1>0, <1>8, OthersStay, StepOfCall DEF Answer, Goto
<1>9. ASSUME NEW c \in Call, GiveUp(c) PROVE Good
  BY <1>8, <1>9 DEF GiveUp, KeyInv, PeersShareTheNodeKey
<1>10. ASSUME NEW c \in Call, Save(c) PROVE Good
  <2>1. nodeKey' = nodeKey /\ PeersShareTheNodeKey' /\ Serving
    BY <1>10 DEF Save, KeyInv, PeersShareTheNodeKey
  <2>. DEFINE request == [loc[c] EXCEPT !.op = "saved"]
  <2>2. loc' = [loc EXCEPT ![c] = request]
    BY <1>0, <1>10 DEF Save, TypeOK
  <2>3. request.op = "saved"
    BY <1>0 DEF TypeOK, Request
  <2>4. /\ pc'[c] = "select" /\ loc'[c] = request
        /\ \A p \in Proc \ {c} : pc'[p] = pc[p] /\ loc'[p] = loc[p]
    BY <1>0, <1>10, <2>2, OthersStay DEF Save, Goto
  <2>5. KeyInv'
    BY <1>0, <2>1, <2>3, <2>4, StepOfCall
  <2>. QED
    BY <2>1, <2>5
<1>11. ASSUME NEW c \in Call, Insert(c) \/ Write(c) PROVE Good
  <2>1. pc[c] \in {"insert", "write"} /\ Answer(c) /\ nodeKey' = nodeKey
    BY <1>11 DEF Insert, Write
  <2>2. Filled(loc[c]) \in Key => Filled(loc[c]) = nodeKey
    BY <1>0, <2>1, KeyAssumption DEF Filled, KeyInv, TypeOK, Request, NodeKey
  <2>3. PeersShareTheNodeKey'
    <3>1. CASE Insert(c)
      BY <3>1, <2>1, <2>2 DEF Insert, KeyInv, PeersShareTheNodeKey
    <3>2. CASE Write(c)
      <4>1. \A new \in peers' : \E row \in peers :
              new.key = row.key \/ new.key = Filled(loc[c])
        BY <1>0, <3>2 DEF Write, TypeOK, Row
      <4>. QED
        BY <4>1, <2>1, <2>2 DEF KeyInv, PeersShareTheNodeKey
    <3>. QED
      BY <1>11, <3>1, <3>2
  <2>. QED
    BY <1>8, <2>1, <2>3
<1>12. ASSUME NEW c \in Call, Delete(c) PROVE Good
  BY <1>0, <1>12 DEF Delete, KeyInv, Serving, PeersShareTheNodeKey
<1>13. ASSUME NEW c \in Call, PushFind(c) PROVE Good
  <2>1. nodeKey' = nodeKey /\ PeersShareTheNodeKey'
    BY <1>13 DEF PushFind, KeyInv, PeersShareTheNodeKey
  <2>2. CASE Answer(c)
    BY <1>8, <2>1, <2>2
  <2>3. CASE Goto(c, "p_insert") /\ UNCHANGED loc
    <3>2. Serving
      BY <1>13 DEF PushFind, KeyInv
    <3>3. /\ pc'[c] = "p_insert"
          /\ \A p \in Proc \ {c} : pc'[p] = pc[p] /\ loc'[p] = loc[p]
      BY <1>0, <2>3 DEF Goto, TypeOK
    <3>4. KeyInv'
      BY <1>0, <2>1, <3>2, <3>3, StepOfCall
    <3>. QED
      BY <2>1, <3>4
  <2>. QED
    BY <1>13, <2>2, <2>3 DEF PushFind
<1>14. ASSUME NEW c \in Call, PushInsert(c) PROVE Good
  <2>1. loc[c].key \notin Key
    BY <1>0, KeyAssumption DEF TypeOK, Request, NodeKey
  <2>2. PeersShareTheNodeKey'
    BY <1>14, <2>1 DEF PushInsert, KeyInv, PeersShareTheNodeKey
  <2>. QED
    BY <1>8, <1>14, <2>2 DEF PushInsert
<1>15. CASE UNCHANGED vars
  BY <1>15 DEF vars, KeyInv, TypeOK, Serving, PeersShareTheNodeKey
<1>16. {"load", "save", "create", "update", "push"} \subseteq Op \ {"start"}
  BY DEF Op
<1>17. ASSUME NEW op \in Op \ {"start"}, NEW id \in Nat, NEW k \in {NoKey, Own}
       PROVE  /\ [NoCall EXCEPT !.op = op].op # "start"
              /\ [NoCall EXCEPT !.op = op, !.key = k].op # "start"
              /\ [NoCall EXCEPT !.op = op, !.id = id, !.key = k].op # "start"
  BY DEF NoCall
<1>18. ASSUME NEW c \in Call, LoadCall(c) \/ SaveCall(c) PROVE Good
  <2>1. CASE LoadCall(c)
    BY <2>1, <1>7, <1>16, <1>17, RequestTyping DEF LoadCall
  <2>2. CASE SaveCall(c)
    BY <2>2, <1>7, <1>16, <1>17, RequestTyping DEF SaveCall
  <2>. QED
    BY <1>18, <2>1, <2>2
<1>19. ASSUME NEW c \in Call, CreateCall(c) PROVE Good
  BY <1>19, <1>7, <1>16, <1>17, RequestTyping DEF CreateCall
<1>20. ASSUME NEW c \in Call, UpdateCall(c) PROVE Good
  <2>1. \A row \in peers : row.id \in Nat
    BY <1>0 DEF TypeOK, Row
  <2>. QED
    BY <1>20, <2>1, <1>7, <1>16, <1>17, RequestTyping DEF UpdateCall
<1>21. ASSUME NEW c \in Call, PushCall(c) PROVE Good
  <2>1. \A id \in 0 .. lastId : id \in Nat
    BY <1>0 DEF TypeOK
  <2>. QED
    BY <1>21, <2>1, <1>7, <1>16, <1>17, RequestTyping DEF PushCall
<1>. QED
  BY <1>1, <1>2, <1>3, <1>4, <1>5, <1>6, <1>9, <1>10, <1>11, <1>12, <1>13,
     <1>14, <1>15, <1>18, <1>19, <1>20, <1>21 DEF Next, Proc

\* In cluster mode every peer that was given a key by its node has the key
\* of the node, however saves, creations and pushes interleave.
THEOREM NodeKeyIsShared ==
    ASSUME ClusterMode
    PROVE  Spec => []PeersShareTheNodeKey
<1>1. KeyInv => PeersShareTheNodeKey
  BY DEF KeyInv
<1>2. KeyInv /\ [Next]_vars => KeyInv'
  BY KeyNext
<1>. QED
  BY KeyInit, <1>1, <1>2, PTL DEF Spec

\* In cluster mode the key pair of a node never changes.
THEOREM NodeKeyIsKept ==
    ASSUME ClusterMode
    PROVE  Spec => NodeKeyIsStable
<1>1. KeyInv /\ [Next]_vars => KeyInv'
  BY KeyNext
<1>2. KeyInv /\ [Next]_vars => [nodeKey # NoKey => nodeKey' = nodeKey]_vars
  BY KeyNext
<1>. QED
  BY KeyInit, <1>1, <1>2, PTL DEF Spec, NodeKeyIsStable

LEMMA LocalNext ==
    ASSUME KeyInv, LocalPeersHaveAKey, [Next]_vars
    PROVE  LocalPeersHaveAKey'
<1>0. TypeOK /\ Call \subseteq Proc
  BY DEF KeyInv, Proc
<1>1. ASSUME NEW c \in Call, pc[c] \in {"insert", "write"}
      PROVE  Filled(loc[c]) # NoKey
  BY <1>0, <1>1, KeyAssumption DEF KeyInv, Filled, TypeOK, Request
<1>2. ASSUME NEW c \in Call, Insert(c) PROVE LocalPeersHaveAKey'
  BY <1>1, <1>2 DEF Insert, LocalPeersHaveAKey
<1>3. ASSUME NEW c \in Call, Write(c) PROVE LocalPeersHaveAKey'
  <2>1. Filled(loc[c]) # NoKey
    BY <1>1, <1>3 DEF Write
  <2>2. \A new \in peers' : new \in peers \/ new.key = Filled(loc[c])
    BY <1>0, <1>3 DEF Write, TypeOK, Row
  <2>. QED
    BY <2>1, <2>2 DEF LocalPeersHaveAKey
<1>4. ASSUME NEW c \in Call, PushInsert(c) PROVE LocalPeersHaveAKey'
  BY <1>4 DEF PushInsert, LocalPeersHaveAKey
<1>5. ASSUME peers' \subseteq peers PROVE LocalPeersHaveAKey'
  BY <1>5 DEF LocalPeersHaveAKey
<1>6. CASE UNCHANGED vars
  BY <1>5, <1>6 DEF vars
<1>. QED
  BY <1>2, <1>3, <1>4, <1>5, <1>6 DEF Next, Start, Crash, Select, Store, GiveUp,
     LoadCall, SaveCall, Save, CreateCall, UpdateCall, Delete, PushCall, PushFind

\* In cluster mode a peer written by its own node always has a private key,
\* whatever other nodes push.
THEOREM LocalPeersKeepAKey ==
    ASSUME ClusterMode
    PROVE  Spec => []LocalPeersHaveAKey
<1>1. Init => LocalPeersHaveAKey
  BY DEF Init, LocalPeersHaveAKey
<1>2. KeyInv /\ LocalPeersHaveAKey /\ [Next]_vars
        => (KeyInv /\ LocalPeersHaveAKey)'
  BY KeyNext, LocalNext
<1>. QED
  BY KeyInit, <1>1, <1>2, PTL DEF Spec
=============================================================================
