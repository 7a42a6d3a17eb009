--------------------------- MODULE BirdConfProofs ---------------------------
(***************************************************************************)
(* What holds of BirdConf for every set of peers, nodes, rules and probe   *)
(* results: typing, and that the sessions of the file match the peers.     *)
(*                                                                         *)
(* Only two actions write the file, and both write FullConfig of some      *)
(* assignment of tags: the lemmas say what holds of that, the theorems     *)
(* follow for the assignments of the two writers.                          *)
(***************************************************************************)
EXTENDS BirdConf, TLAPS

\* The tags that apply_wg_bird hands to generate_full_config.
TagsOf(failed) ==
    IF filters
    THEN [p \in Peer |-> IF p \notin Enabled \/ p \in failed
                         THEN {} ELSE Communities(peers[p], ListenAddr)]
    ELSE NoTags

LEMMA ByApplyIsFullConfig == \A failed : ByApply(failed) = FullConfig(TagsOf(failed))
BY DEF ByApply, TagsOf

\* A step that changes the file writes the sessions of some assignment of tags
\* that is one of apply_wg_bird.
LEMMA WrittenBySomebody ==
    ASSUME [Next]_vars, conf' # conf
    PROVE  \/ \E failed \in SUBSET Peer : conf' = FullConfig(TagsOf(failed))
           \/ conf' = FullConfig(NoTags)
<1>1. ASSUME Change PROVE conf' = conf
  BY <1>1 DEF Change, CreatePeer, PushPeer, UpdatePeer, TogglePeer, DeletePeer,
              SaveSettings, SaveRule, DropRule, Probe, ExpireProbes
<1>2. UNCHANGED vars => conf' = conf
  BY DEF vars
<1>. QED
  BY <1>1, <1>2, ByApplyIsFullConfig DEF Next, ApplyBird, SyncBird, BySync

\* A session of a peer.
SessionOf(p, name, to, tags) ==
    [peer |-> p, name |-> name, to |-> to, tags |-> tags]

LEMMA SessionFields ==
    ASSUME NEW p, NEW name, NEW to, NEW tags
    PROVE  /\ SessionOf(p, name, to, tags).peer = p
           /\ SessionOf(p, name, to, tags).name = name
           /\ SessionOf(p, name, to, tags).to = to
           /\ SessionOf(p, name, to, tags).tags = tags
BY DEF SessionOf

\* Which sessions generate_peer_block_with_communities writes, one by one.
LEMMA PeerSessionsCases ==
    ASSUME NEW p, NEW tags, NEW s
    PROVE  LET mode == peers[p].mode IN
           s \in PeerSessions(p, tags) <=>
             \/ mode.multiprotocol /\ s = SessionOf(p, "", Neighbor(mode), tags)
             \/ /\ ~mode.multiprotocol
                /\ \/ /\ s = SessionOf(p, "_v4", "v4", tags)
                      /\ "v4" \in mode.has /\ mode.sessions \in {0, 2}
                   \/ /\ s = SessionOf(p, "_v6", "v6", tags)
                      /\ "v6" \in mode.has /\ mode.sessions \in {1, 2}
<1>. DEFINE mode == peers[p].mode
            v4 == SessionOf(p, "_v4", "v4", tags)
            v6 == SessionOf(p, "_v6", "v6", tags)
<1>1. CASE mode.multiprotocol
  BY <1>1 DEF PeerSessions, SessionOf
<1>2. CASE ~mode.multiprotocol
  <2>1. PeerSessions(p, tags) =
          {t \in {v4, v6} :
             /\ t.to \in mode.has
             /\ mode.sessions = 2
                  \/ mode.sessions = (IF t.to = "v4" THEN 0 ELSE 1)}
    BY <1>2 DEF PeerSessions, SessionOf
  <2>2. v4.to = "v4" /\ v6.to = "v6"
    BY SessionFields
  <2>3. v4 \in PeerSessions(p, tags) <=> "v4" \in mode.has /\ mode.sessions \in {0, 2}
    BY <2>1, <2>2
  <2>4. v6 \in PeerSessions(p, tags) <=> "v6" \in mode.has /\ mode.sessions \in {1, 2}
    BY <2>1, <2>2
  <2>5. s \in PeerSessions(p, tags) => s = v4 \/ s = v6
    BY <2>1
  <2>. HIDE DEF v4, v6
  <2>6. s \in PeerSessions(p, tags) <=>
          \/ s = v4 /\ "v4" \in mode.has /\ mode.sessions \in {0, 2}
          \/ s = v6 /\ "v6" \in mode.has /\ mode.sessions \in {1, 2}
    BY <2>3, <2>4, <2>5
  <2>. QED
    BY <1>2, <2>6 DEF v4, v6
<1>. QED
  BY <1>1, <1>2

\* Every session of a peer names the peer and carries the tags given.
LEMMA PeerSessionsFields ==
    ASSUME NEW p, NEW tags, NEW s \in PeerSessions(p, tags)
    PROVE  s.peer = p /\ s.tags = tags
<1>1. PICK name, to : s = SessionOf(p, name, to, tags)
  BY PeerSessionsCases
<1>. QED
  BY <1>1, SessionFields

-----------------------------------------------------------------------------
(* Typing *)

\* Every assignment of tags hands out sets of enabled rules.
LEMMA TagsTyping ==
    ASSUME rules \subseteq Rule, NEW failed
    PROVE  TagsOf(failed) \in [Peer -> SUBSET Rule]
<1>1. \A row, local : Communities(row, local) \in SUBSET Rule
  BY DEF Communities
<1>2. NoTags \in [Peer -> SUBSET Rule]
  BY DEF NoTags
<1>. QED
  BY <1>1, <1>2 DEF TagsOf

LEMMA PeerSessionsTyping ==
    ASSUME NEW p \in Peer, NEW tags \in SUBSET Rule
    PROVE  PeerSessions(p, tags) \subseteq Session
<1>1. Neighbor(peers[p].mode) \in {"", "v4", "v6"}
  BY DEF Neighbor
<1>2. \A name \in {"", "_v4", "_v6"}, to \in {"", "v4", "v6"} :
        [peer |-> p, name |-> name, to |-> to, tags |-> tags] \in Session
  BY DEF Session
<1>. QED
  BY <1>1, <1>2 DEF PeerSessions

LEMMA FullConfigTyping ==
    ASSUME NEW tagsOf \in [Peer -> SUBSET Rule]
    PROVE  FullConfig(tagsOf) \in SUBSET Session
<1>1. \A p \in Enabled : p \in Peer /\ tagsOf[p] \in SUBSET Rule
  BY DEF Enabled
<1>2. \A p \in Enabled : PeerSessions(p, tagsOf[p]) \subseteq Session
  BY <1>1, PeerSessionsTyping
<1>. QED
  BY <1>2 DEF FullConfig

LEMMA TypeInit == Init => TypeOK
<1>. SUFFICES ASSUME Init PROVE TypeOK
  OBVIOUS
<1>1. peers \in [Peer -> Row \cup {NoRow}]
  BY DEF Init
<1>2. probes \in [Node -> Link \cup {NoLink}]
  BY DEF Init
<1>3. conf \in {NoConf} \cup SUBSET Session
  BY DEF Init
<1>. QED
  BY <1>1, <1>2, <1>3 DEF Init, TypeOK

LEMMA TypeNext == TypeOK /\ [Next]_vars => TypeOK'
<1>. SUFFICES ASSUME TypeOK, [Next]_vars PROVE TypeOK'
  OBVIOUS
<1>. USE DEF TypeOK, Edit
<1>1. ASSUME NEW p \in Peer, CreatePeer(p) PROVE TypeOK'
  BY <1>1 DEF CreatePeer, Row
<1>2. ASSUME NEW p \in Peer, PushPeer(p) PROVE TypeOK'
  BY <1>2 DEF PushPeer, Row
<1>3. ASSUME NEW p \in Peer, UpdatePeer(p) PROVE TypeOK'
  <2>1. \A o \in {NoOrigin, ListenAddr}, m \in Mode :
          [peers[p] EXCEPT !.origin = o, !.key = TRUE, !.mode = m] \in Row
    BY <1>3 DEF UpdatePeer, Row
  <2>. QED
    <3>1. PICK o \in {NoOrigin, ListenAddr}, m \in Mode :
            peers' = [peers EXCEPT ![p] =
                        [peers[p] EXCEPT !.origin = o, !.key = TRUE, !.mode = m]]
      BY <1>3 DEF UpdatePeer
    <3>2. peers' \in [Peer -> Row \cup {NoRow}]
      BY <2>1, <3>1
    <3>. QED
      BY <1>3, <3>2 DEF UpdatePeer
<1>4. ASSUME NEW p \in Peer, TogglePeer(p) PROVE TypeOK'
  <2>1. peers[p] \in Row
    BY <1>4 DEF TogglePeer
  <2>2. [peers[p] EXCEPT !.enabled = ~@] \in Row
    BY <2>1 DEF Row
  <2>. QED
    BY <1>4, <2>2 DEF TogglePeer
<1>5. ASSUME NEW p \in Peer, DeletePeer(p) PROVE TypeOK'
  BY <1>5 DEF DeletePeer
<1>6. ASSUME SaveSettings PROVE TypeOK'
  BY <1>6 DEF SaveSettings
<1>7. ASSUME NEW r \in Rule, SaveRule(r) \/ DropRule(r) PROVE TypeOK'
  BY <1>7 DEF SaveRule, DropRule
<1>8. ASSUME NEW t \in Node, Probe(t) \/ ExpireProbes(t) PROVE TypeOK'
  BY <1>8 DEF Probe, ExpireProbes
<1>9. ASSUME ApplyBird PROVE TypeOK'
  <2>1. conf' \in SUBSET Session
    BY <1>9, ByApplyIsFullConfig, TagsTyping, FullConfigTyping DEF ApplyBird
  <2>. QED
    BY <1>9, <2>1 DEF ApplyBird, db
<1>10. ASSUME SyncBird PROVE TypeOK'
  <2>1. conf' \in SUBSET Session
    BY <1>10, FullConfigTyping DEF SyncBird, BySync, NoTags
  <2>. QED
    BY <1>10, <2>1 DEF SyncBird, db
<1>11. ASSUME UNCHANGED vars PROVE TypeOK'
  BY <1>11 DEF vars, db
<1>. QED
  BY <1>1, <1>2, <1>3, <1>4, <1>5, <1>6, <1>7, <1>8, <1>9, <1>10, <1>11
  DEF Next, Change

\* Every reachable state of BirdConf is well typed.
THEOREM BirdTyping == Spec => []TypeOK
BY TypeInit, TypeNext, PTL DEF Spec

-----------------------------------------------------------------------------
(* Sessions and peers *)

\* Every session of a file is one of an enabled peer.
LEMMA SessionsCarryTags ==
    ASSUME NEW tagsOf, NEW s \in FullConfig(tagsOf)
    PROVE  s.peer \in Enabled /\ s \in PeerSessions(s.peer, tagsOf[s.peer])
                              /\ s.tags = tagsOf[s.peer]
<1>1. PICK p \in Enabled : s \in PeerSessions(p, tagsOf[p])
  BY DEF FullConfig
<1>2. s.peer = p /\ s.tags = tagsOf[p]
  BY <1>1, PeerSessionsFields
<1>. QED
  BY <1>1, <1>2

\* The sessions of one peer: some exactly if it speaks, no two of them to one
\* address, none for a family without an address.
LEMMA SessionsOfPeer ==
    ASSUME TypeOK, NEW p \in Enabled, NEW tags
    PROVE  /\ PeerSessions(p, tags) # {} <=> Speaks(peers[p])
           /\ \A s \in PeerSessions(p, tags) :
                /\ s.peer = p
                /\ s.name # "" => s.to \in peers[p].mode.has
           /\ \A s, t \in PeerSessions(p, tags) : s # t => s.to # t.to
<1>. DEFINE mode == peers[p].mode
<1>1. peers[p] \in Row /\ peers[p].enabled
  BY DEF TypeOK, Enabled
<1>2. mode \in ModeType
  BY <1>1, ModeAssumption DEF Row
<1>3. CASE mode.multiprotocol
  <2>1. \A s : s \in PeerSessions(p, tags) <=> s = SessionOf(p, "", Neighbor(mode), tags)
    BY <1>3, PeerSessionsCases
  <2>2. Speaks(peers[p])
    BY <1>1, <1>3 DEF Speaks
  <2>3. SessionOf(p, "", Neighbor(mode), tags).peer = p
        /\ SessionOf(p, "", Neighbor(mode), tags).name = ""
    BY DEF SessionOf
  <2>. DEFINE only == SessionOf(p, "", Neighbor(mode), tags)
  <2>. HIDE DEF only
  <2>4. PeerSessions(p, tags) = {only}
    BY <2>1 DEF only
  <2>5. only.peer = p /\ only.name = ""
    BY <2>3 DEF only
  <2>. QED
    BY <2>2, <2>4, <2>5
<1>4. CASE ~mode.multiprotocol
  <2>1. \A s : s \in PeerSessions(p, tags) <=>
           \/ /\ s = SessionOf(p, "_v4", "v4", tags)
              /\ "v4" \in mode.has /\ mode.sessions \in {0, 2}
           \/ /\ s = SessionOf(p, "_v6", "v6", tags)
              /\ "v6" \in mode.has /\ mode.sessions \in {1, 2}
    BY <1>4, PeerSessionsCases
  <2>2. /\ "v4" \in Wanted(mode) <=> mode.sessions \in {0, 2}
        /\ "v6" \in Wanted(mode) <=> mode.sessions \in {1, 2}
        /\ Wanted(mode) \subseteq {"v4", "v6"}
    BY <1>2 DEF ModeType, Wanted
  <2>3. Speaks(peers[p]) <=> \/ "v4" \in mode.has /\ mode.sessions \in {0, 2}
                             \/ "v6" \in mode.has /\ mode.sessions \in {1, 2}
    BY <1>1, <1>4, <2>2 DEF Speaks
  <2>4. PeerSessions(p, tags) # {} <=> Speaks(peers[p])
    BY <2>1, <2>3
  <2>8. /\ SessionOf(p, "_v4", "v4", tags).to = "v4"
        /\ SessionOf(p, "_v6", "v6", tags).to = "v6"
    BY SessionFields
  <2>5. \A s \in PeerSessions(p, tags) : s.to \in mode.has
    BY <2>1, <2>8
  <2>6. \A s \in PeerSessions(p, tags) : s.peer = p
    BY PeerSessionsFields
  <2>7. \A s, t \in PeerSessions(p, tags) : s # t => s.to # t.to
    BY <2>1, <2>8
  <2>. QED
    BY <2>4, <2>5, <2>6, <2>7
<1>. QED
  BY <1>3, <1>4

LEMMA FullConfigMatches ==
    ASSUME TypeOK, NEW tagsOf
    PROVE  /\ {s.peer : s \in FullConfig(tagsOf)} =
                {p \in Peer : peers[p] # NoRow /\ Speaks(peers[p])}
           /\ \A s \in FullConfig(tagsOf) :
                /\ s.name # "" => s.to \in peers[s.peer].mode.has
                /\ \A t \in FullConfig(tagsOf) :
                     s.peer = t.peer /\ s # t => s.to # t.to
<1>1. \A p : p \in Enabled /\ Speaks(peers[p]) <=>
               p \in Peer /\ peers[p] # NoRow /\ Speaks(peers[p])
  BY DEF Enabled, Speaks
<1>2. \A p : p \in {s.peer : s \in FullConfig(tagsOf)} <=>
               p \in Enabled /\ PeerSessions(p, tagsOf[p]) # {}
  <2>. TAKE p
  <2>1. ASSUME p \in Enabled, NEW s \in PeerSessions(p, tagsOf[p])
        PROVE  s \in FullConfig(tagsOf) /\ s.peer = p
    BY <2>1, SessionsOfPeer DEF FullConfig
  <2>. QED
    BY <2>1, SessionsCarryTags
<1>3. {s.peer : s \in FullConfig(tagsOf)} =
        {p \in Peer : peers[p] # NoRow /\ Speaks(peers[p])}
  <2>1. \A p \in Enabled : PeerSessions(p, tagsOf[p]) # {} <=> Speaks(peers[p])
    BY SessionsOfPeer
  <2>2. \A p : p \in {s.peer : s \in FullConfig(tagsOf)} <=>
                 p \in {q \in Peer : peers[q] # NoRow /\ Speaks(peers[q])}
    BY <1>1, <1>2, <2>1
  <2>. QED
    BY <2>2
<1>4. ASSUME NEW s \in FullConfig(tagsOf)
      PROVE  /\ s.name # "" => s.to \in peers[s.peer].mode.has
             /\ \A t \in FullConfig(tagsOf) :
                  s.peer = t.peer /\ s # t => s.to # t.to
  <2>1. s.peer \in Enabled /\ s \in PeerSessions(s.peer, tagsOf[s.peer])
    BY SessionsCarryTags
  <2>2. \A t \in FullConfig(tagsOf) :
          s.peer = t.peer => t \in PeerSessions(s.peer, tagsOf[s.peer])
    BY SessionsCarryTags
  <2>3. s.name # "" => s.to \in peers[s.peer].mode.has
    BY <2>1, SessionsOfPeer
  <2>4. ASSUME NEW t \in FullConfig(tagsOf), s.peer = t.peer, s # t PROVE s.to # t.to
    <3>1. t \in PeerSessions(s.peer, tagsOf[s.peer])
      BY <2>2, <2>4
    <3>2. \A u, v \in PeerSessions(s.peer, tagsOf[s.peer]) : u # v => u.to # v.to
      BY <2>1, SessionsOfPeer
    <3>. QED
      BY <2>1, <2>4, <3>1, <3>2
  <2>. QED
    BY <2>3, <2>4
<1>. QED
  BY <1>3, <1>4

LEMMA SessionsMatchStep ==
    ASSUME TypeOK, [Next]_vars, conf' # conf
    PROVE  /\ {s.peer : s \in conf'} =
                {p \in Peer : peers[p] # NoRow /\ Speaks(peers[p])}
           /\ \A s \in conf' :
                /\ s.name # "" => s.to \in peers[s.peer].mode.has
                /\ \A t \in conf' : s.peer = t.peer /\ s # t => s.to # t.to
<1>1. PICK tagsOf : conf' = FullConfig(tagsOf)
  BY WrittenBySomebody
<1>. QED
  BY <1>1, FullConfigMatches

\* Whoever writes bird.conf, it has sessions for exactly the peers that should
\* have them, never two to one address.
THEOREM SessionsAlwaysMatch == Spec => SessionsMatchPeers
<1>1. TypeOK /\ [Next]_vars =>
        [conf' # conf =>
          /\ {s.peer : s \in conf'} =
                {p \in Peer : peers[p] # NoRow /\ Speaks(peers[p])}
          /\ \A s \in conf' :
                /\ s.name # "" => s.to \in peers[s.peer].mode.has
                /\ \A t \in conf' :
                     s.peer = t.peer /\ s # t => s.to # t.to]_vars
  BY SessionsMatchStep
<1>. QED
  BY <1>1, BirdTyping, PTL DEF Spec, SessionsMatchPeers

=============================================================================
