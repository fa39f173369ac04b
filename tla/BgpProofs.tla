------------------------------- MODULE BgpProofs -------------------------------
(***************************************************************************)
(* Proofs about the BGP speakers.  The GoBGP server of a node at rest runs *)
(* the last BgpConf with all its peers, for every set of nodes and peers   *)
(* and every number of changes, restarts and failures.  A call for an      *)
(* address leaves the wanted routes and never breaks before it makes, for  *)
(* every set of addresses, nodes, next hops and callers.                   *)
(***************************************************************************)
EXTENDS BgpPeers, TLAPS

\* The routes of the server of one node, by themselves.
CONSTANTS Addrs, Callers, Rack, Racks, HopOf, PathId, Nil, MaxSets, MaxStarts, MaxErrors

VARIABLES as, rack, paths, op, sets, starts, errors

R == INSTANCE BgpRoutes

------------------------------------------------------------------------------
(* The configuration of the servers (BgpPeers).                            *)

ConfObj == [ver: Nat, deleting: BOOLEAN, fin: BOOLEAN, stamp: Nat, stat: [Nodes -> Nat]]
PeerObj == [ver: Nat, deleting: BOOLEAN, fin: BOOLEAN, stat: SUBSET Nodes]
Server == [ver: Nat, peers: SUBSET Peers]
ConfWork == [at: {"idle", "start", "write", "peers"}, obj: ConfObj, peers: SUBSET Peers]

Shapes ==
    /\ conf \in ConfObj /\ peer \in [Peers -> PeerObj]
    /\ seen \in [Nodes -> [conf: ConfObj, peer: [Peers -> PeerObj]]]
    /\ queue \in [Nodes -> SUBSET (Peers \cup {"conf"})]
    /\ work \in [Nodes -> ConfWork] /\ bgp \in [Nodes -> Server]
    /\ listed \in [Nodes -> [on: BOOLEAN, peers: SUBSET Peers]] /\ ops \in Nat

\* No object, and no copy of one, is newer than the last change.
NotNewer ==
    /\ conf.ver <= ops + 1 /\ \A p \in Peers : peer[p].ver <= ops + 1
    /\ \A n \in Nodes : seen[n].conf.ver <= ops + 1 /\ \A p \in Peers : seen[n].peer[p].ver <= ops + 1

\* A list is at work only where the loop runs.
PeersTyped == Shapes /\ NotNewer /\ \A n \in Nodes : listed[n].on => n \in PeerTicks

\* When the cache of n shows the BgpConf there is, the server runs that version, or will: the
\* key is in the queue, or a reconcile is about to start the server with it.
ConfDue(n) ==
    (conf.ver # 0 /\ seen[n].conf.ver = conf.ver) =>
      \/ "conf" \in queue[n]
      \/ IF work[n].at = "start" THEN work[n].obj.ver = conf.ver ELSE bgp[n].ver = conf.ver

\* When the cache of n shows a BgpPeer that selects n, the server has the peer, or will: its key
\* is in the queue, or the BgpConf is to be reconciled, or that reconcile is not yet through
\* with the peers; or the server does not run.
PeerDue(n, p) ==
    (n \notin PeerTicks /\ n \in Match[p] /\ seen[n].conf.ver # 0 /\ peer[p].ver # 0 /\ seen[n].peer[p].ver = peer[p].ver) =>
      \/ p \in queue[n] \/ "conf" \in queue[n] \/ p \in bgp[n].peers \/ bgp[n].ver = 0
      \/ work[n].at \in {"start", "write"} \/ (work[n].at = "peers" /\ p \in work[n].peers)

PeersInv == PeersTyped /\ \A n \in Nodes : ConfDue(n) /\ \A p \in Peers : PeerDue(n, p)

\* What a node writes into objects, its queue, its work and its server.
Written ==
    /\ conf' \in ConfObj /\ peer' \in [Peers -> PeerObj]
    /\ queue' \in [Nodes -> SUBSET (Peers \cup {"conf"})]
    /\ work' \in [Nodes -> ConfWork] /\ bgp' \in [Nodes -> Server]

\* A step that makes no version newer keeps all of them old enough.
LEMMA StillTyped ==
  ASSUME PeersTyped, Written, UNCHANGED <<seen, listed, ops>>,
         conf'.ver \in {0, conf.ver}, \A p \in Peers : peer'[p].ver \in {0, peer[p].ver}
  PROVE  PeersTyped'
<1>1. NotNewer'
  <2>1. ops \in Nat /\ NotNewer
    BY Zenon DEF PeersTyped, Shapes
  <2>. QED
    BY <2>1 DEF NotNewer
<1>2. Shapes'
  BY Zenon DEF PeersTyped, Shapes, Written
<1>. QED
  BY <1>1, <1>2, Zenon DEF PeersTyped

\* What matters of the objects to the nodes that did not act.
LEMMA OthersDue ==
  ASSUME PeersInv, NEW n \in Nodes, conf'.ver \in {0, conf.ver}, \A p \in Peers : peer'[p].ver \in {0, peer[p].ver},
         seen'[n] = seen[n], queue[n] \subseteq queue'[n], work'[n] = work[n], bgp'[n] = bgp[n]
  PROVE  ConfDue(n)' /\ \A p \in Peers : PeerDue(n, p)'
<1>1. ConfDue(n)'
  BY Zenon DEF PeersInv, ConfDue
<1>2. ASSUME NEW p \in Peers PROVE PeerDue(n, p)'
  BY Zenon DEF PeersInv, PeerDue
<1>. QED
  BY <1>1, <1>2, Zenon

\* The parts of the state that belong to node n, or to all.
Local(n) ==
    /\ \A m \in Nodes \ {n} : seen'[m] = seen[m] /\ queue'[m] = queue[m] /\ work'[m] = work[m] /\ bgp'[m] = bgp[m]
    /\ conf'.ver \in {0, conf.ver} /\ \A p \in Peers : peer'[p].ver \in {0, peer[p].ver}

\* A step of node n need only be looked at there.
LEMMA LocalDue ==
  ASSUME PeersInv, PeersTyped', NEW n \in Nodes, Local(n), ConfDue(n)', \A p \in Peers : PeerDue(n, p)'
  PROVE  PeersInv'
<1>1. ASSUME NEW m \in Nodes \ {n} PROVE ConfDue(m)' /\ \A p \in Peers : PeerDue(m, p)'
  BY OthersDue, Zenon DEF Local
<1>. QED
  BY <1>1, Zenon DEF PeersInv

\* A step of node n that leaves its cache and the lists alone.
LEMMA WrittenDue ==
  ASSUME PeersInv, Written, UNCHANGED <<seen, listed, ops>>, NEW n \in Nodes, Local(n), ConfDue(n)',
         \A p \in Peers : PeerDue(n, p)'
  PROVE  PeersInv'
<1>1. PeersTyped'
  BY StillTyped, Zenon DEF Local, PeersInv
<1>. QED
  BY <1>1, LocalDue, Zenon

\* The objects that writes leave behind, and what a node works with.
LEMMA PeersObjects ==
  ASSUME ConstantsOK
  PROVE  /\ NoConf \in ConfObj /\ NoPeer \in PeerObj /\ Idle \in ConfWork /\ Stopped \in Server
         /\ NoConf.ver = 0 /\ NoPeer.ver = 0 /\ Stopped.ver = 0 /\ Idle.at = "idle"
  BY Zenon DEF NoConf, NoPeer, Idle, Stopped, ConfObj, PeerObj, ConfWork, Server

\* The predicates: an object that is new to the cache comes into the queue, and so does a changed one.
LEMMA SyncDue == ASSUME ConstantsOK, PeersInv, NEW n \in Nodes, Sync(n) PROVE PeersInv'
<1>. USE DEF PeersInv
<1>1. /\ seen'[n] = [conf |-> conf, peer |-> peer]
      /\ queue'[n] = queue[n] \cup {p \in Peers : Changed(seen[n].peer[p], peer[p])} \cup
                      (IF Changed(seen[n].conf, conf) THEN {"conf"} ELSE {})
      /\ UNCHANGED <<conf, peer, work, listed, bgp, ops, faults>>
  BY Zenon DEF Sync, store, PeersTyped, Shapes
<1>2. PeersTyped'
  <2>1. /\ seen' \in [Nodes -> [conf: ConfObj, peer: [Peers -> PeerObj]]]
        /\ queue' \in [Nodes -> SUBSET (Peers \cup {"conf"})]
    BY Zenon DEF Sync, PeersTyped, Shapes
  <2>2. \A m \in Nodes : seen'[m] \in {seen[m], [conf |-> conf, peer |-> peer]}
    BY Zenon DEF Sync, PeersTyped, Shapes
  <2>3. Shapes'
    BY <1>1, <2>1, Zenon DEF PeersTyped, Shapes
  <2>4. NotNewer'
    BY <1>1, <2>2 DEF PeersTyped, NotNewer
  <2>. QED
    BY <1>1, <2>3, <2>4, Zenon DEF PeersTyped
<1>3. Local(n)
  BY <1>1, Zenon DEF Sync, Local, PeersTyped, Shapes
<1>4. ConfDue(n)'
  BY <1>1, Zenon DEF ConfDue, Changed
<1>5. ASSUME NEW p \in Peers PROVE PeerDue(n, p)'
  BY <1>1 DEF PeerDue, Changed
<1>. QED
  BY <1>2, <1>3, <1>4, <1>5, LocalDue, Zenon

\* Reconcile of the BgpConf up to its first write: it gives up, stops the server, or goes on to start it.
LEMMA ConfBeginDue == ASSUME ConstantsOK, PeersInv, NEW n \in Nodes, ConfBegin(n) PROVE PeersInv'
<1>. USE DEF PeersInv
<1>. DEFINE o == seen[n].conf
<1>1. /\ UNCHANGED <<peer, seen, listed, ops, faults>> /\ work[n].at = "idle" /\ o \in ConfObj
  BY Zenon DEF ConfBegin, PeersTyped, Shapes
<1>2. CASE o.ver = 0 /\ Dequeue(n, "conf") /\ UNCHANGED <<conf, work, bgp>>
  <2>1. Written
    BY <1>1, <1>2, Zenon DEF PeersTyped, Shapes, Dequeue, Written
  <2>2. Local(n)
    BY <1>1, <1>2, Zenon DEF Local, PeersTyped, Shapes, Dequeue
  <2>3. ConfDue(n)' /\ \A p \in Peers : PeerDue(n, p)'
    BY <1>1, <1>2, Zenon DEF ConfDue, PeerDue
  <2>. QED
    BY <1>1, <2>1, <2>2, <2>3, WrittenDue, Zenon
<1>3. CASE /\ bgp' = [bgp EXCEPT ![n] = Stopped] /\ UNCHANGED work
           /\ IF o = conf THEN conf' = NoConf /\ Dequeue(n, "conf") ELSE UNCHANGED <<conf, queue>>
  <2>1. Written
    BY <1>1, <1>3, PeersObjects DEF PeersTyped, Shapes, Dequeue, Written
  <2>2. Local(n)
    BY <1>1, <1>3, PeersObjects, Zenon DEF Local, PeersTyped, Shapes, Dequeue
  <2>3. bgp'[n].ver = 0
    BY <1>3, PeersObjects, Zenon DEF PeersTyped, Shapes
  <2>4. conf'.ver = 0 \/ "conf" \in queue'[n]
    BY <1>3, PeersObjects, Zenon DEF ConfBegin
  <2>5. ConfDue(n)' /\ \A p \in Peers : PeerDue(n, p)'
    BY <2>3, <2>4, Zenon DEF ConfDue, PeerDue
  <2>. QED
    BY <1>1, <2>1, <2>2, <2>5, WrittenDue, Zenon
<1>4. ASSUME NEW c \in ConfObj, c.ver = o.ver, work' = [work EXCEPT ![n] = [at |-> "start", obj |-> c, peers |-> {}]],
             conf' \in ConfObj, conf'.ver = conf.ver, Dequeue(n, "conf"), UNCHANGED bgp
      PROVE  PeersInv'
  <2>1. [at |-> "start", obj |-> c, peers |-> {}] \in ConfWork
    BY Zenon DEF ConfWork
  <2>2. Written
    BY <1>1, <1>4, <2>1, Zenon DEF PeersTyped, Shapes, Dequeue, Written
  <2>3. Local(n)
    BY <1>1, <1>4, Zenon DEF Local, PeersTyped, Shapes, Dequeue
  <2>4. work'[n].at = "start" /\ work'[n].obj.ver = o.ver
    BY <1>4, Zenon DEF PeersTyped, Shapes
  <2>5. ConfDue(n)' /\ \A p \in Peers : PeerDue(n, p)'
    BY <1>1, <1>4, <2>4, Zenon DEF ConfDue, PeerDue
  <2>. QED
    BY <1>1, <2>2, <2>3, <2>5, WrittenDue, Zenon
<1>5. CASE /\ o = conf /\ conf' = [conf EXCEPT !.fin = TRUE]
           /\ work' = [work EXCEPT ![n] = [at |-> "start", obj |-> conf', peers |-> {}]]
           /\ Dequeue(n, "conf") /\ UNCHANGED bgp
  <2>1. conf' \in ConfObj /\ conf'.ver = conf.ver
    BY <1>5, Zenon DEF PeersTyped, Shapes, ConfObj
  <2>. QED
    BY <1>4, <1>5, <2>1, Zenon
<1>6. CASE /\ work' = [work EXCEPT ![n] = [at |-> "start", obj |-> o, peers |-> {}]]
           /\ Dequeue(n, "conf") /\ UNCHANGED <<conf, bgp>>
  BY <1>1, <1>4, <1>6, Zenon DEF PeersTyped, Shapes
<1>. QED
  BY <1>2, <1>3, <1>5, <1>6, Zenon DEF ConfBegin

\* A reconcile that fails leaves its key in the queue.
LEMMA FailDue ==
  ASSUME ConstantsOK, PeersInv, NEW n \in Nodes, Fail(n), bgp' \in [Nodes -> Server],
         \A m \in Nodes : m # n => bgp'[m] = bgp[m], UNCHANGED <<conf, peer, seen, listed, ops>>
  PROVE  PeersInv'
<1>. USE DEF PeersInv
<1>1. "conf" \in queue'[n]
  BY Zenon DEF Fail, Requeue, PeersTyped, Shapes
<1>2. Written
  BY PeersObjects, Zenon DEF Fail, Requeue, PeersTyped, Shapes, Written
<1>3. Local(n)
  BY Zenon DEF Local, Fail, Requeue, PeersTyped, Shapes
<1>4. ConfDue(n)' /\ \A p \in Peers : PeerDue(n, p)'
  BY <1>1, Zenon DEF ConfDue, PeerDue
<1>. QED
  BY <1>2, <1>3, <1>4, WrittenDue, Zenon

\* The rest of Reconcile: the server runs what the cache showed, or the key is in the queue again.
LEMMA ConfWorkDue ==
  ASSUME ConstantsOK, PeersInv, NEW n \in Nodes, HandleBgpGlobalConfig(n) \/ ConfWrite(n) \/ reconfigPeers(n)
  PROVE  PeersInv'
<1>. USE DEF PeersInv
<1>1. work[n] \in ConfWork /\ bgp[n] \in Server
  BY Zenon DEF PeersTyped, Shapes
<1>2. CASE HandleBgpGlobalConfig(n)
  <2>1. \A v \in {0, work[n].obj.ver} : [ver |-> v, peers |-> {}] \in Server
    BY <1>1 DEF Server, ConfWork, ConfObj
  <2>2. CASE /\ bgp' = [bgp EXCEPT ![n] = [ver |-> work[n].obj.ver, peers |-> {}]]
             /\ work' = [work EXCEPT ![n].at = "write"] /\ UNCHANGED <<queue, faults>>
    <3>1. work[n].at = "start" /\ UNCHANGED <<conf, peer, seen, listed, ops>>
      BY <1>2, Zenon DEF HandleBgpGlobalConfig, store
    <3>2. [work[n] EXCEPT !.at = "write"] \in ConfWork /\ [work[n] EXCEPT !.at = "write"].at = "write"
      BY <1>1, Zenon DEF ConfWork
    <3>3. Written
      BY <2>1, <2>2, <3>1, <3>2, Zenon DEF PeersTyped, Shapes, Written
    <3>4. Local(n)
      BY <2>2, <3>1, Zenon DEF Local, PeersTyped, Shapes
    <3>5. work'[n].at = "write" /\ bgp'[n].ver = work[n].obj.ver
      BY <2>2, <3>2, Zenon DEF PeersTyped, Shapes
    <3>6. ConfDue(n)' /\ \A p \in Peers : PeerDue(n, p)'
      BY <2>2, <3>1, <3>5, Zenon DEF ConfDue, PeerDue
    <3>. QED
      BY <3>1, <3>3, <3>4, <3>6, WrittenDue, Zenon
  <2>3. CASE /\ Fail(n)
             /\ \/ \E v \in {0, work[n].obj.ver} : bgp' = [bgp EXCEPT ![n] = [ver |-> v, peers |-> {}]]
                \/ UNCHANGED bgp
    <3>1. bgp' \in [Nodes -> Server] /\ \A m \in Nodes : m # n => bgp'[m] = bgp[m]
      <4>1. bgp \in [Nodes -> Server]
        BY Zenon DEF PeersTyped, Shapes
      <4>2. CASE UNCHANGED bgp
        BY <4>1, <4>2, Zenon
      <4>3. CASE \E v \in {0, work[n].obj.ver} : bgp' = [bgp EXCEPT ![n] = [ver |-> v, peers |-> {}]]
        <5>1. PICK new \in Server : bgp' = [bgp EXCEPT ![n] = new]
          BY <2>1, <4>3, Zenon
        <5>. QED
          BY <4>1, <5>1, Zenon
      <4>. QED
        BY <2>3, <4>2, <4>3, Zenon
    <3>. QED
      BY <1>2, <2>3, <3>1, FailDue, Zenon DEF HandleBgpGlobalConfig, store
  <2>. QED
    BY <1>2, <2>2, <2>3, Zenon DEF HandleBgpGlobalConfig
<1>3. CASE ConfWrite(n)
  <2>. DEFINE ps == {p \in Peers : seen[n].peer[p].ver # 0 /\ n \in Match[p]}
              w == [work[n] EXCEPT !.at = "peers", !.peers = ps]
  <2>1. work[n].at = "write" /\ UNCHANGED <<peer, seen, listed, bgp, ops, faults>>
    BY <1>3, Zenon DEF ConfWrite
  <2>2. CASE conf' = [conf EXCEPT !.stamp = (@ + 1) % Stamps] /\ work' = [work EXCEPT ![n] = w] /\ UNCHANGED queue
    <3>1. w \in ConfWork /\ w.at = "peers" /\ w.peers = ps
      BY <1>1, Zenon DEF ConfWork
    <3>2. conf' \in ConfObj /\ conf'.ver = conf.ver
      <4>1. conf.stamp \in Nat /\ (conf.stamp + 1) % Stamps \in Nat
        BY DEF PeersTyped, Shapes, ConfObj, ConstantsOK
      <4>. QED
        BY <2>2, <4>1, Zenon DEF PeersTyped, Shapes, ConfObj
    <3>. HIDE DEF w, ps
    <3>3. Written
      BY <2>1, <2>2, <3>1, <3>2, Zenon DEF PeersTyped, Shapes, Written
    <3>4. Local(n)
      BY <2>1, <2>2, <3>2, Zenon DEF Local, PeersTyped, Shapes
    <3>5. work'[n] = w
      BY <2>2, Zenon DEF PeersTyped, Shapes
    <3>6. ConfDue(n)'
      BY <2>1, <2>2, <3>1, <3>2, <3>5, Zenon DEF ConfDue
    <3>7. \A p \in Peers : PeerDue(n, p)'
      BY <2>1, <3>1, <3>5, Zenon DEF PeerDue, ps
    <3>. QED
      BY <2>1, <3>3, <3>4, <3>6, <3>7, WrittenDue, Zenon
  <2>3. CASE Fail(n) /\ UNCHANGED conf
    BY <2>1, <2>3, FailDue, Zenon DEF PeersTyped, Shapes
  <2>. QED
    BY <1>3, <2>2, <2>3, Zenon DEF ConfWrite
<1>4. CASE reconfigPeers(n)
  <2>1. work[n].at = "peers" /\ UNCHANGED <<conf, peer, seen, listed, ops>>
    BY <1>4, Zenon DEF reconfigPeers, store
  <2>2. ASSUME NEW p \in work[n].peers, bgp' = [bgp EXCEPT ![n].peers = @ \cup {p}],
               work' = [work EXCEPT ![n].peers = @ \ {p}], UNCHANGED queue
        PROVE  PeersInv'
    <3>. DEFINE w == [work[n] EXCEPT !.peers = @ \ {p}]
                b == [bgp[n] EXCEPT !.peers = @ \cup {p}]
    <3>1. w \in ConfWork /\ w.at = "peers" /\ w.obj = work[n].obj /\ w.peers = work[n].peers \ {p}
      BY <1>1, <2>1, Zenon DEF ConfWork
    <3>2. b \in Server /\ b.ver = bgp[n].ver /\ b.peers = bgp[n].peers \cup {p}
      BY <1>1, Zenon DEF Server, ConfWork
    <3>3. work' = [work EXCEPT ![n] = w] /\ bgp' = [bgp EXCEPT ![n] = b] /\ UNCHANGED queue
      BY <2>2, Zenon
    <3>. HIDE DEF w, b
    <3>4. Written
      BY <2>1, <3>1, <3>2, <3>3, Zenon DEF PeersTyped, Shapes, Written
    <3>5. Local(n)
      BY <2>1, <3>3, Zenon DEF Local, PeersTyped, Shapes
    <3>6. work'[n] = w /\ bgp'[n] = b
      BY <3>3, Zenon DEF PeersTyped, Shapes
    <3>7. ConfDue(n)' /\ \A q \in Peers : PeerDue(n, q)'
      BY <2>1, <2>2, <3>1, <3>2, <3>6, Zenon DEF ConfDue, PeerDue
    <3>. QED
      BY <2>1, <3>4, <3>5, <3>7, WrittenDue, Zenon
  <2>3. CASE Fail(n) /\ UNCHANGED bgp
    BY <2>1, <2>3, FailDue, Zenon DEF PeersTyped, Shapes
  <2>4. CASE work[n].peers = {} /\ work' = [work EXCEPT ![n] = Idle] /\ UNCHANGED <<queue, bgp>>
    <3>1. Written
      BY <2>1, <2>4, PeersObjects, Zenon DEF PeersTyped, Shapes, Written
    <3>2. Local(n)
      BY <2>1, <2>4, Zenon DEF Local, PeersTyped, Shapes
    <3>3. work'[n].at = "idle"
      BY <2>4, PeersObjects, Zenon DEF PeersTyped, Shapes
    <3>4. ConfDue(n)' /\ \A q \in Peers : PeerDue(n, q)'
      BY <2>1, <2>4, <3>3, Zenon DEF ConfDue, PeerDue
    <3>. QED
      BY <2>1, <3>1, <3>2, <3>4, WrittenDue, Zenon
  <2>. QED
    BY <1>4, <2>2, <2>3, <2>4, Zenon DEF reconfigPeers
<1>. QED
  BY <1>2, <1>3, <1>4, Zenon

\* Reconcile of a BgpPeer: a key leaves the queue only when the server has the peer, or is to lose it.
LEMMA PeerReconcileDue ==
  ASSUME ConstantsOK, PeersInv, NEW n \in Nodes, NEW p \in Peers, PeerReconcile(n, p)
  PROVE  PeersInv'
<1>. USE DEF PeersInv
<1>. DEFINE o == seen[n].peer[p]
            ps(delete) == IF delete THEN bgp[n].peers \ {p} ELSE bgp[n].peers \cup {p}
<1>1. p \in queue[n] /\ p # "conf" /\ UNCHANGED <<conf, seen, work, listed, ops, faults>>
  BY Zenon DEF PeerReconcile, ConstantsOK
<1>2. bgp[n] \in Server /\ peer[p] \in PeerObj
  BY Zenon DEF PeersTyped, Shapes
<1>3. ASSUME NEW delete \in BOOLEAN, HandleBgpPeer(n, p, delete)
      PROVE  /\ bgp' \in [Nodes -> Server] /\ \A m \in Nodes : m # n => bgp'[m] = bgp[m]
             /\ bgp'[n].ver = bgp[n].ver /\ bgp'[n].peers = ps(delete)
  <2>. DEFINE b == [bgp[n] EXCEPT !.peers = ps(delete)]
  <2>1. b \in Server /\ b.ver = bgp[n].ver /\ b.peers = ps(delete)
    BY <1>2, Zenon DEF Server
  <2>2. bgp' = [bgp EXCEPT ![n] = b]
    BY <1>3, Zenon DEF HandleBgpPeer
  <2>. HIDE DEF b, ps
  <2>. QED
    BY <2>1, <2>2, Zenon DEF PeersTyped, Shapes
<1>4. CASE o.ver = 0 /\ Dequeue(n, p) /\ UNCHANGED <<peer, bgp>>
  <2>1. Written
    BY <1>1, <1>4, Zenon DEF PeersTyped, Shapes, Dequeue, Written
  <2>2. Local(n)
    BY <1>1, <1>4, Zenon DEF PeersTyped, Shapes, Dequeue, Local
  <2>3. queue'[n] = queue[n] \ {p}
    BY <1>4, Zenon DEF PeersTyped, Shapes, Dequeue
  <2>4. ConfDue(n)' /\ \A q \in Peers : PeerDue(n, q)'
    BY <1>1, <1>4, <2>3, Zenon DEF ConfDue, PeerDue
  <2>. QED
    BY <1>1, <2>1, <2>2, <2>4, WrittenDue, Zenon
<1>5. CASE /\ HandleBgpPeer(n, p, TRUE)
           /\ IF o = peer[p] THEN peer' = [peer EXCEPT ![p] = NoPeer] /\ Dequeue(n, p) ELSE UNCHANGED <<peer, queue>>
  <2>1. /\ peer' \in [Peers -> PeerObj] /\ queue' \in [Nodes -> SUBSET (Peers \cup {"conf"})]
        /\ \A q \in Peers : q # p => peer'[q] = peer[q]
        /\ \A m \in Nodes : m # n => queue'[m] = queue[m]
        /\ peer'[p].ver = 0 \/ (peer'[p] = peer[p] /\ p \in queue'[n])
        /\ queue[n] \ {p} \subseteq queue'[n]
    <3>1. CASE peer' = [peer EXCEPT ![p] = NoPeer] /\ Dequeue(n, p)
      BY <1>1, <3>1, PeersObjects, Zenon DEF PeersTyped, Shapes, Dequeue
    <3>2. CASE UNCHANGED <<peer, queue>>
      BY <1>1, <3>2, Zenon DEF PeersTyped, Shapes
    <3>. QED
      BY <1>5, <3>1, <3>2, Zenon
  <2>2. Written
    BY <1>1, <1>3, <1>5, <2>1, Zenon DEF PeersTyped, Shapes, Written
  <2>3. Local(n)
    BY <1>1, <1>3, <1>5, <2>1, Zenon DEF Local
  <2>4. ConfDue(n)' /\ \A q \in Peers : PeerDue(n, q)'
    <3>1. ConfDue(n)'
      BY <1>1, <1>3, <1>5, <2>1, Zenon DEF ConfDue
    <3>2. ASSUME NEW q \in Peers PROVE PeerDue(n, q)'
      <4>1. CASE q = p
        BY <1>1, <1>3, <1>5, <2>1, <4>1, Zenon DEF PeerDue
      <4>2. CASE q # p
        BY <1>1, <1>3, <1>5, <2>1, <4>2, Zenon DEF PeerDue
      <4>. QED
        BY <4>1, <4>2, Zenon
    <3>. QED
      BY <3>1, <3>2, Zenon
  <2>. QED
    BY <1>1, <2>2, <2>3, <2>4, WrittenDue, Zenon
<1>6. CASE /\ peer' = IF NeedToAddFinalizer(o) THEN [peer EXCEPT ![p].fin = TRUE] ELSE peer
           /\ IF n \in Match[p] /\ bgp[n].ver = 0 THEN UNCHANGED <<bgp, queue>>
              ELSE HandleBgpPeer(n, p, n \notin Match[p]) /\ Dequeue(n, p)
  <2>1. peer' \in [Peers -> PeerObj] /\ \A q \in Peers : peer'[q].ver = peer[q].ver
    <3>1. [peer[p] EXCEPT !.fin = TRUE] \in PeerObj /\ [peer[p] EXCEPT !.fin = TRUE].ver = peer[p].ver
      BY <1>2, Zenon DEF PeerObj
    <3>. QED
      BY <1>6, <3>1, Zenon DEF PeersTyped, Shapes
  <2>2. CASE UNCHANGED <<bgp, queue>>
    <3>1. Written
      BY <1>1, <2>1, <2>2, Zenon DEF PeersTyped, Shapes, Written
    <3>2. Local(n)
      BY <1>1, <2>1, <2>2, Zenon DEF Local
    <3>3. ConfDue(n)' /\ \A q \in Peers : PeerDue(n, q)'
      BY <1>1, <2>1, <2>2, Zenon DEF ConfDue, PeerDue
    <3>. QED
      BY <1>1, <3>1, <3>2, <3>3, WrittenDue, Zenon
  <2>3. CASE HandleBgpPeer(n, p, n \notin Match[p]) /\ Dequeue(n, p)
    <3>1. /\ queue' \in [Nodes -> SUBSET (Peers \cup {"conf"})] /\ queue'[n] = queue[n] \ {p}
          /\ \A m \in Nodes : m # n => queue'[m] = queue[m]
      BY <2>3, Zenon DEF PeersTyped, Shapes, Dequeue
    <3>2. /\ bgp' \in [Nodes -> Server] /\ \A m \in Nodes : m # n => bgp'[m] = bgp[m]
          /\ bgp'[n].ver = bgp[n].ver /\ bgp'[n].peers = ps(n \notin Match[p])
      BY <1>3, <2>3, Zenon
    <3>3. Written
      BY <1>1, <2>1, <3>1, <3>2, Zenon DEF PeersTyped, Shapes, Written
    <3>4. Local(n)
      BY <1>1, <2>1, <3>1, <3>2, Zenon DEF Local
    <3>5. ConfDue(n)'
      BY <1>1, <2>1, <3>1, <3>2, Zenon DEF ConfDue
    <3>6. ASSUME NEW q \in Peers PROVE PeerDue(n, q)'
      BY <1>1, <2>1, <3>1, <3>2, ZenonT(30) DEF PeerDue
    <3>. QED
      BY <1>1, <3>3, <3>4, <3>5, <3>6, WrittenDue, Zenon
  <2>. QED
    BY <1>6, <2>2, <2>3, Zenon
<1>. QED
  BY <1>4, <1>5, <1>6, Zenon DEF PeerReconcile

\* The loops that write the status, and the changes of objects by users.
LEMMA LoopDue ==
  ASSUME ConstantsOK, PeersInv, NEW n \in Nodes, updateConfStatus(n) \/ ListPeers(n) \/ HandleBgpPeerStatus(n)
  PROVE  PeersInv'
<1>. USE DEF PeersInv
<1>1. CASE updateConfStatus(n)
  <2>1. UNCHANGED <<peer, seen, queue, work, listed, bgp, ops, faults>>
    BY <1>1, Zenon DEF updateConfStatus
  <2>2. conf' \in ConfObj /\ conf'.ver = conf.ver
    BY <1>1, Zenon DEF updateConfStatus, PeersTyped, Shapes, ConfObj, Server
  <2>3. Written
    BY <2>1, <2>2, Zenon DEF PeersTyped, Shapes, Written
  <2>4. Local(n)
    BY <2>1, <2>2, Zenon DEF Local
  <2>5. ConfDue(n)' /\ \A q \in Peers : PeerDue(n, q)'
    BY <2>1, <2>2, Zenon DEF ConfDue, PeerDue
  <2>. QED
    BY <2>1, <2>3, <2>4, <2>5, WrittenDue, Zenon
<1>2. CASE ListPeers(n)
  <2>1. n \in PeerTicks /\ UNCHANGED <<conf, peer, seen, queue, work, bgp, ops, faults>>
    BY <1>2, Zenon DEF ListPeers, store
  <2>2. /\ listed' \in [Nodes -> [on: BOOLEAN, peers: SUBSET Peers]]
        /\ \A m \in Nodes : m # n => listed'[m] = listed[m]
    BY <1>2, Zenon DEF ListPeers, PeersTyped, Shapes
  <2>3. PeersTyped'
    <3>1. Shapes'
      BY <2>1, <2>2, Zenon DEF PeersTyped, Shapes
    <3>2. NotNewer'
      BY <2>1, Zenon DEF PeersTyped, NotNewer
    <3>. QED
      BY <2>1, <2>2, <3>1, <3>2, Zenon DEF PeersTyped
  <2>4. Local(n)
    BY <2>1, Zenon DEF Local
  <2>5. ConfDue(n)' /\ \A q \in Peers : PeerDue(n, q)'
    BY <2>1, Zenon DEF ConfDue, PeerDue
  <2>. QED
    BY <2>3, <2>4, <2>5, LocalDue, Zenon
<1>3. CASE HandleBgpPeerStatus(n)
  <2>1. n \in PeerTicks /\ UNCHANGED <<conf, seen, queue, work, ops, faults>>
    BY <1>3, Zenon DEF HandleBgpPeerStatus, PeersTyped
  <2>2. peer' \in [Peers -> PeerObj] /\ \A p \in Peers : peer'[p].ver = peer[p].ver
    <3>1. ASSUME NEW p \in Peers, NEW st \in SUBSET Nodes
          PROVE  [peer[p] EXCEPT !.stat = st] \in PeerObj /\ [peer[p] EXCEPT !.stat = st].ver = peer[p].ver
      <4>1. peer[p] \in PeerObj
        BY Zenon DEF PeersTyped, Shapes
      <4>. QED
        BY <4>1, Zenon DEF PeerObj
    <3>2. ASSUME NEW p \in Peers
          PROVE  peer[p] \in PeerObj /\ (IF p \in bgp[n].peers THEN peer[p].stat \cup {n} ELSE peer[p].stat \ {n}) \in SUBSET Nodes
      BY Zenon DEF PeersTyped, Shapes, PeerObj
    <3>3. ASSUME NEW p \in Peers PROVE peer'[p] \in PeerObj /\ peer'[p].ver = peer[p].ver
      BY <1>3, <3>1, <3>2, ZenonT(30) DEF HandleBgpPeerStatus
    <3>4. peer' = [p \in Peers |-> peer'[p]]
      BY <1>3, Zenon DEF HandleBgpPeerStatus
    <3>. QED
      BY <3>3, <3>4, Zenon
  <2>3. /\ bgp' \in [Nodes -> Server] /\ bgp'[n].ver = bgp[n].ver
        /\ \A m \in Nodes : m # n => bgp'[m] = bgp[m]
    <3>. DEFINE b == [bgp[n] EXCEPT !.peers = @ \cap listed[n].peers]
    <3>1. b \in Server /\ b.ver = bgp[n].ver
      <4>1. bgp[n] \in Server
        BY Zenon DEF PeersTyped, Shapes
      <4>. QED
        BY <4>1, Zenon DEF Server
    <3>2. bgp' = [bgp EXCEPT ![n] = b]
      BY <1>3, Zenon DEF HandleBgpPeerStatus
    <3>. HIDE DEF b
    <3>. QED
      BY <3>1, <3>2, Zenon DEF PeersTyped, Shapes
  <2>4. /\ listed' \in [Nodes -> [on: BOOLEAN, peers: SUBSET Peers]]
        /\ \A m \in Nodes : m # n => listed'[m] = listed[m]
    BY <1>3, Zenon DEF HandleBgpPeerStatus, NoList, PeersTyped, Shapes
  <2>5. PeersTyped'
    <3>1. Shapes'
      BY <2>1, <2>2, <2>3, <2>4, Zenon DEF PeersTyped, Shapes
    <3>2. NotNewer'
      BY <2>1, <2>2, Zenon DEF PeersTyped, NotNewer
    <3>. QED
      BY <2>1, <2>4, <3>1, <3>2, Zenon DEF PeersTyped
  <2>6. Local(n)
    BY <2>1, <2>2, <2>3, Zenon DEF Local
  <2>7. ConfDue(n)' /\ \A q \in Peers : PeerDue(n, q)'
    BY <2>1, <2>2, <2>3, Zenon DEF ConfDue, PeerDue
  <2>. QED
    BY <2>5, <2>6, <2>7, LocalDue, Zenon
<1>. QED
  BY <1>1, <1>2, <1>3, Zenon

\* A user's change makes a version that no cache shows, or none.
LEMMA EditDue ==
  ASSUME ConstantsOK, PeersInv, EditConf \/ DeleteConf \/ \E p \in Peers : CreatePeer(p) \/ DeletePeer(p)
  PROVE  PeersInv'
<1>. USE DEF PeersInv
<1>1. /\ UNCHANGED <<seen, queue, work, listed, bgp, faults>> /\ ops' = ops + 1 /\ ops \in Nat
      /\ conf \in ConfObj /\ \A p \in Peers : peer[p] \in PeerObj
  BY Zenon DEF EditConf, DeleteConf, CreatePeer, DeletePeer, Op, PeersTyped, Shapes
<1>2. conf' \in ConfObj /\ conf'.ver \in {0, conf.ver, ops + 2}
  <2>1. CASE EditConf
    BY <1>1, <2>1 DEF EditConf, ConfObj
  <2>2. CASE DeleteConf
    <3>1. [conf EXCEPT !.deleting = TRUE] \in ConfObj /\ [conf EXCEPT !.deleting = TRUE].ver = conf.ver
      BY <1>1, Zenon DEF ConfObj
    <3>. QED
      BY <2>2, <3>1, PeersObjects, Zenon DEF DeleteConf
  <2>3. CASE UNCHANGED conf
    BY <1>1, <2>3, Zenon
  <2>. QED
    BY <2>1, <2>2, <2>3, Zenon DEF CreatePeer, DeletePeer
<1>3. peer' \in [Peers -> PeerObj] /\ \A p \in Peers : peer'[p].ver \in {0, peer[p].ver, ops + 2}
  <2>1. ASSUME NEW p \in Peers, CreatePeer(p) \/ DeletePeer(p)
        PROVE  peer' \in [Peers -> PeerObj] /\ \A q \in Peers : peer'[q].ver \in {0, peer[q].ver, ops + 2}
    <3>1. PICK o \in PeerObj : peer' = [peer EXCEPT ![p] = o] /\ o.ver \in {0, peer[p].ver, ops + 2}
      <4>1. /\ [peer[p] EXCEPT !.ver = ops + 2] \in PeerObj /\ [peer[p] EXCEPT !.ver = ops + 2].ver = ops + 2
            /\ [peer[p] EXCEPT !.deleting = TRUE] \in PeerObj /\ [peer[p] EXCEPT !.deleting = TRUE].ver = peer[p].ver
        <5>1. peer[p] \in PeerObj /\ ops + 2 \in Nat
          BY <1>1
        <5>. HIDE <1>1
        <5>2. ASSUME NEW o \in PeerObj, NEW k \in Nat
              PROVE  /\ [o EXCEPT !.ver = k] \in PeerObj /\ [o EXCEPT !.ver = k].ver = k
                     /\ [o EXCEPT !.deleting = TRUE] \in PeerObj /\ [o EXCEPT !.deleting = TRUE].ver = o.ver
          BY Zenon DEF PeerObj
        <5>. QED
          BY <5>1, <5>2, Zenon
      <4>2. \/ peer' = [peer EXCEPT ![p] = [peer[p] EXCEPT !.ver = ops + 2]]
            \/ peer' = [peer EXCEPT ![p] = [peer[p] EXCEPT !.deleting = TRUE]]
            \/ peer' = [peer EXCEPT ![p] = NoPeer]
        BY <2>1, Zenon DEF CreatePeer, DeletePeer
      <4>. QED
        BY <4>1, <4>2, PeersObjects, Zenon
    <3>. QED
      BY <3>1, Zenon DEF PeersTyped, Shapes
  <2>2. CASE UNCHANGED peer
    BY <2>2, Zenon DEF PeersTyped, Shapes
  <2>. QED
    BY <2>1, <2>2, Zenon DEF EditConf, DeleteConf
<1>4. PeersTyped'
  <2>1. Shapes'
    BY <1>1, <1>2, <1>3, SMTT(30) DEF PeersTyped, Shapes
  <2>2. NotNewer'
    <3>1. /\ conf.ver \in Nat /\ \A p \in Peers : peer[p].ver \in Nat
          /\ \A n \in Nodes : seen[n].conf.ver \in Nat /\ \A p \in Peers : seen[n].peer[p].ver \in Nat
      <4>1. ASSUME NEW n \in Nodes PROVE seen[n].conf \in ConfObj /\ \A p \in Peers : seen[n].peer[p] \in PeerObj
        <5>1. seen[n] \in [conf: ConfObj, peer: [Peers -> PeerObj]]
          BY Zenon DEF PeersTyped, Shapes
        <5>. QED
          BY <5>1, Zenon
      <4>. QED
        BY <1>1, <4>1, Zenon DEF ConfObj, PeerObj
    <3>2. NotNewer
      BY Zenon DEF PeersTyped
    <3>. QED
      BY <1>1, <1>2, <1>3, <3>1, <3>2 DEF NotNewer
  <2>. QED
    BY <1>1, <2>1, <2>2, Zenon DEF PeersTyped
<1>5. ASSUME NEW n \in Nodes PROVE ConfDue(n)' /\ \A p \in Peers : PeerDue(n, p)'
  <2>1. seen[n].conf.ver <= ops + 1 /\ \A p \in Peers : seen[n].peer[p].ver <= ops + 1
    BY Zenon DEF PeersTyped, NotNewer
  <2>2. seen[n].conf.ver # ops + 2 /\ \A p \in Peers : seen[n].peer[p].ver # ops + 2
    <3>1. seen[n].conf \in ConfObj /\ \A p \in Peers : seen[n].peer[p] \in PeerObj
      BY DEF PeersTyped, Shapes
    <3>2. seen[n].conf.ver \in Nat /\ \A p \in Peers : seen[n].peer[p].ver \in Nat
      BY <3>1, Zenon DEF ConfObj, PeerObj
    <3>. QED
      BY <1>1, <2>1, <3>2
  <2>3. ConfDue(n)'
    BY <1>1, <1>2, <2>2, Zenon DEF ConfDue
  <2>4. ASSUME NEW p \in Peers PROVE PeerDue(n, p)'
    BY <1>1, <1>3, <2>2, Zenon DEF PeerDue
  <2>. QED
    BY <2>3, <2>4, Zenon
<1>. QED
  BY <1>4, <1>5, Zenon

\* A speaker that starts anew finds all objects in its queue.
LEMMA RestartDue == ASSUME ConstantsOK, PeersInv, NEW n \in Nodes, Restart(n) PROVE PeersInv'
<1>. USE DEF PeersInv
<1>1. conf' \in ConfObj /\ conf'.ver = conf.ver
  <2>1. conf \in ConfObj /\ NoConf.stat \in [Nodes -> Nat]
    BY Zenon DEF PeersTyped, Shapes, NoConf
  <2>2. conf' = [conf EXCEPT !.stat = NoConf.stat]
    BY Zenon DEF Restart
  <2>. QED
    BY <2>1, <2>2, Zenon DEF ConfObj
<1>2. /\ ops' = ops + 1 /\ ops \in Nat /\ UNCHANGED <<peer, faults>>
      /\ queue'[n] = {p \in Peers : peer[p].ver # 0} \cup (IF conf.ver # 0 THEN {"conf"} ELSE {})
      /\ seen'[n] = [conf |-> conf', peer |-> peer]
  BY Zenon DEF Restart, Op, PeersTyped, Shapes
<1>3. /\ queue' \in [Nodes -> SUBSET (Peers \cup {"conf"})] /\ work' \in [Nodes -> ConfWork] /\ bgp' \in [Nodes -> Server]
      /\ listed' \in [Nodes -> [on: BOOLEAN, peers: SUBSET Peers]] /\ ~listed'[n].on
  BY PeersObjects, Zenon DEF Restart, NoList, PeersTyped, Shapes
<1>4. seen' \in [Nodes -> [conf: ConfObj, peer: [Peers -> PeerObj]]]
  BY <1>1, Zenon DEF Restart, PeersTyped, Shapes
<1>5. \A m \in Nodes \ {n} : /\ seen'[m] = seen[m] /\ queue'[m] = queue[m] /\ work'[m] = work[m]
                             /\ bgp'[m] = bgp[m] /\ listed'[m] = listed[m]
  BY Zenon DEF Restart, PeersTyped, Shapes
<1>6. PeersTyped'
  <2>1. Shapes'
    BY <1>1, <1>2, <1>3, <1>4 DEF PeersTyped, Shapes
  <2>2. NotNewer'
    <3>1. /\ conf.ver \in Nat /\ \A p \in Peers : peer[p].ver \in Nat
          /\ \A m \in Nodes : seen[m].conf.ver \in Nat /\ \A p \in Peers : seen[m].peer[p].ver \in Nat
      <4>1. /\ conf \in ConfObj /\ \A p \in Peers : peer[p] \in PeerObj
            /\ \A m \in Nodes : seen[m].conf \in ConfObj /\ \A p \in Peers : seen[m].peer[p] \in PeerObj
        BY DEF PeersTyped, Shapes
      <4>. QED
        BY <4>1, Zenon DEF ConfObj, PeerObj
    <3>2. NotNewer
      BY Zenon DEF PeersTyped
    <3>3. conf'.ver <= ops' + 1 /\ \A p \in Peers : peer'[p].ver <= ops' + 1
      BY <1>1, <1>2, <3>1, <3>2 DEF NotNewer
    <3>4. ASSUME NEW m \in Nodes PROVE seen'[m].conf.ver <= ops' + 1 /\ \A p \in Peers : seen'[m].peer[p].ver <= ops' + 1
      <4>1. CASE m = n
        BY <1>1, <1>2, <3>3, <4>1, SMTT(30)
      <4>2. CASE m # n
        BY <1>2, <1>5, <3>1, <3>2, <4>2 DEF NotNewer
      <4>. QED
        BY <4>1, <4>2, Zenon
    <3>. QED
      BY <3>3, <3>4, Zenon DEF NotNewer
  <2>. QED
    BY <1>3, <1>5, <2>1, <2>2, Zenon DEF PeersTyped
<1>7. Local(n)
  BY <1>1, <1>2, <1>5, Zenon DEF Local
<1>8. ConfDue(n)' /\ \A p \in Peers : PeerDue(n, p)'
  BY <1>1, <1>2, Zenon DEF ConfDue, PeerDue
<1>. QED
  BY <1>6, <1>7, <1>8, LocalDue, Zenon

\* In every state of the nodes what is not configured is still due.
LEMMA AlwaysDue == ASSUME ConstantsOK PROVE Spec => []PeersInv
<1>1. Init => PeersInv
  <2>. SUFFICES ASSUME Init PROVE PeersInv
    OBVIOUS
  <2>1. /\ conf \in ConfObj /\ \A p \in Peers : peer[p] \in PeerObj
        /\ conf.ver = (IF Running THEN 1 ELSE 0) /\ \A p \in Peers : peer[p].ver = (IF Running THEN 1 ELSE 0)
    <3>1. [NoConf EXCEPT !.ver = 1, !.fin = TRUE] \in ConfObj /\ [NoConf EXCEPT !.ver = 1, !.fin = TRUE].ver = 1
      BY Zenon DEF NoConf, ConfObj
    <3>2. [NoPeer EXCEPT !.ver = 1, !.fin = TRUE] \in PeerObj /\ [NoPeer EXCEPT !.ver = 1, !.fin = TRUE].ver = 1
      BY Zenon DEF NoPeer, PeerObj
    <3>. QED
      BY <3>1, <3>2, PeersObjects, Zenon DEF Init
  <2>2. ASSUME NEW n \in Nodes
        PROVE  /\ seen[n] = [conf |-> conf, peer |-> peer] /\ bgp[n] \in Server
               /\ bgp[n].ver = conf.ver /\ (Running => bgp[n].peers = {p \in Peers : n \in Match[p]})
               /\ work[n].at = "idle" /\ ~listed[n].on
    <3>1. [ver |-> 1, peers |-> {p \in Peers : n \in Match[p]}] \in Server
      BY Zenon DEF Server
    <3>. QED
      BY <2>1, <3>1, PeersObjects, Zenon DEF Init, NoList
  <2>3. Shapes
    BY <2>1, <2>2, PeersObjects, Zenon DEF Init, Shapes, NoList
  <2>4. NotNewer
    <3>1. ops = 0 /\ conf.ver <= 1 /\ \A p \in Peers : peer[p].ver <= 1
      BY <2>1 DEF Init
    <3>2. ASSUME NEW n \in Nodes PROVE seen[n].conf = conf /\ seen[n].peer = peer
      <4>1. seen[n] = [conf |-> conf, peer |-> peer]
        BY <2>2, Zenon
      <4>. QED
        BY <4>1
    <3>. QED
      BY <3>1, <3>2 DEF NotNewer
  <2>5. ASSUME NEW n \in Nodes PROVE ConfDue(n) /\ \A p \in Peers : PeerDue(n, p)
    BY <2>1, <2>2, Zenon DEF ConfDue, PeerDue
  <2>. QED
    BY <2>2, <2>3, <2>4, <2>5, Zenon DEF PeersInv, PeersTyped
<1>2. ASSUME PeersInv, [Next]_vars PROVE PeersInv'
  <2>1. CASE UNCHANGED vars
    <3>1. PeersTyped'
      BY <1>2, <2>1, Zenon DEF vars, PeersInv, PeersTyped, Shapes, NotNewer
    <3>2. ASSUME NEW n \in Nodes PROVE ConfDue(n)' /\ \A p \in Peers : PeerDue(n, p)'
      BY <1>2, <2>1, OthersDue, Zenon DEF vars
    <3>. QED
      BY <3>1, <3>2, Zenon DEF PeersInv
  <2>. QED
    BY <1>2, <2>1, SyncDue, ConfBeginDue, ConfWorkDue, PeerReconcileDue, LoopDue, EditDue, RestartDue, Zenon
       DEF Next, User, Node, Conf
<1>. QED
  BY <1>1, <1>2, PTL DEF Spec

\* Reconcile of the BgpConf: with nothing left to do on a node its server runs the last version,
\* for every number of nodes that write the object, changes, restarts and failing calls.
THEOREM PeersServerCurrent == ASSUME ConstantsOK PROVE Spec => []ServerCurrent
<1>1. PeersInv => ServerCurrent
  BY PeersObjects DEF PeersInv, ConfDue, ServerCurrent, Quiet
<1>. QED
  BY <1>1, AlwaysDue, PTL

\* reconfigPeers, Reconcile of a BgpPeer: with nothing left to do a server that runs has every
\* BgpPeer whose selector selects its node, however often it was restarted, and whatever failed.
THEOREM PeersStayConfigured == ASSUME ConstantsOK PROVE Spec => []PeersConfigured
<1>1. PeersInv => PeersConfigured
  <2>1. ASSUME PeersInv, conf.ver # 0, NEW n \in Nodes \ PeerTicks, Quiet(n), bgp[n].ver # 0,
               NEW p \in Peers, peer[p].ver # 0, n \in Match[p]
        PROVE  p \in bgp[n].peers
    BY <2>1, PeersObjects DEF PeersInv, PeerDue, Quiet
  <2>. QED
    BY <2>1, Zenon DEF PeersConfigured
<1>. QED
  BY <1>1, AlwaysDue, PTL

------------------------------------------------------------------------------
(* The routes (BgpRoutes).                                                 *)

HopSet == {HopOf[n] : n \in Nodes}

RouteOp == [kind: {"idle", "set", "del"}, ip: Addrs \cup {Nil},
       want: SUBSET HopSet, add: SUBSET HopSet, del: SUBSET HopSet, alone: BOOLEAN]

RoutesTyped ==
    /\ paths \in [Addrs -> SUBSET HopSet]
    /\ op \in [Callers -> RouteOp]
    /\ \A c \in Callers : R!Working(c) => op[c].ip \in Addrs

\* What a call that is alone has still to do is the whole difference.
Exact(c) ==
    /\ op[c].add \subseteq op[c].want /\ op[c].del \cap op[c].want = {}
    /\ paths[op[c].ip] = (op[c].want \ op[c].add) \cup op[c].del
    /\ \A d \in Callers : R!Working(d) /\ d # c => op[d].ip # op[c].ip

RoutesInv == RoutesTyped /\ (R!NoCollision => \A c \in Callers : R!Working(c) /\ op[c].alone => Exact(c))

------------------------------------------------------------------------------
(* GoBGP's table.                                                          *)

\* Without a collision of identifiers one path is added, or deleted, and no other.
LEMMA OnePath ==
  ASSUME RoutesTyped, R!NoCollision, NEW a \in Addrs, NEW h \in HopSet
  PROVE  /\ R!AddPath(a, h) => paths' = [paths EXCEPT ![a] = @ \cup {h}]
         /\ R!DeletePath(a, h) => paths' = [paths EXCEPT ![a] = @ \ {h}]
<1>1. paths[a] \subseteq HopSet
  BY Zenon DEF RoutesTyped
<1>2. ASSUME NEW g \in paths[a] PROVE R!SamePath(g, h) <=> g = h
  <2>1. PICK m \in Nodes : g = HopOf[m]
    BY <1>1, <1>2, Zenon DEF HopSet
  <2>2. PICK n \in Nodes : h = HopOf[n]
    BY Zenon DEF HopSet
  <2>. QED
    BY <2>1, <2>2, Zenon DEF R!SamePath, R!NoCollision
<1>3. {g \in paths[a] : ~R!SamePath(g, h)} = paths[a] \ {h}
  BY <1>2, Zenon
<1>4. (paths[a] \ {h}) \cup {h} = paths[a] \cup {h}
  OBVIOUS
<1>. QED
  BY <1>3, <1>4, Zenon DEF R!AddPath, R!DeletePath, RoutesTyped

\* Whatever the identifiers are, the paths are next hops of nodes.
LEMMA PathsTyped ==
  ASSUME RoutesTyped, NEW a \in Addrs, NEW h \in HopSet, R!AddPath(a, h) \/ R!DeletePath(a, h)
  PROVE  paths' \in [Addrs -> SUBSET HopSet] /\ \A b \in Addrs : b # a => paths'[b] = paths[b]
BY Zenon DEF RoutesTyped, R!AddPath, R!DeletePath

------------------------------------------------------------------------------
(* The steps.                                                              *)

\* A call begins with the difference between the paths and the next hops.
LEMMA BeginKeeps ==
  ASSUME RoutesInv, NEW c \in Callers, NEW a \in Addrs, NEW kind \in {"set", "del"}, NEW w \in SUBSET HopSet,
         R!Begin(c, a, kind, w, w \ paths[a], paths[a] \ w), paths' = paths
  PROVE  RoutesInv'
<1>. DEFINE others == {d \in Callers \ {c} : op[d].ip = a}
            none == others = {}
            new == [kind |-> kind, ip |-> a, want |-> w, add |-> w \ paths[a], del |-> paths[a] \ w,
                    alone |-> none]
<1>1. RoutesTyped
  BY Zenon DEF RoutesInv
<1>2. op' = [d \in Callers |-> IF d = c THEN new ELSE [op[d] EXCEPT !.alone = @ /\ d \notin others]]
  BY Zenon DEF R!Begin
<1>3. new \in RouteOp
  BY <1>1, Zenon DEF RouteOp, RoutesTyped
<1>4. op'[c] = new
  BY <1>2, Zenon
<1>5. ASSUME NEW d \in Callers, d # c
      PROVE  /\ op'[d].kind = op[d].kind /\ op'[d].ip = op[d].ip /\ op'[d].want = op[d].want
             /\ op'[d].add = op[d].add /\ op'[d].del = op[d].del
             /\ op'[d].alone = (op[d].alone /\ op[d].ip # a)
             /\ op'[d] \in RouteOp
  <2>1. op'[d] = [op[d] EXCEPT !.alone = @ /\ d \notin others] /\ op[d] \in RouteOp
    BY <1>1, <1>2, <1>5, Zenon DEF RoutesTyped
  <2>2. d \notin others <=> op[d].ip # a
    BY <1>5, Zenon
  <2>. HIDE DEF others
  <2>3. (op[d].alone /\ d \notin others) = (op[d].alone /\ op[d].ip # a)
    BY <2>2, Zenon
  <2>. QED
    BY <2>1, <2>3, Zenon DEF RouteOp
<1>6. RoutesTyped'
  <2>1. op' \in [Callers -> RouteOp]
    BY <1>2, <1>3, <1>4, <1>5, Zenon
  <2>2. \A d \in Callers : R!Working(d)' => op'[d].ip \in Addrs
    BY <1>1, <1>4, <1>5 DEF RoutesTyped, R!Working
  <2>. QED
    BY <1>1, <2>1, <2>2, Zenon DEF RoutesTyped
<1>7. ASSUME R!NoCollision, NEW d \in Callers, R!Working(d)', op'[d].alone PROVE Exact(d)'
  <2>1. CASE d = c
    <3>. HIDE DEF none
    <3>1. none
      BY <1>4, <1>7, <2>1
    <3>2. \A e \in Callers : e # c => op[e].ip # a
      BY <3>1, Zenon DEF none
    <3>3. paths[a] = (w \ (w \ paths[a])) \cup (paths[a] \ w)
      OBVIOUS
    <3>. QED
      BY <1>4, <1>5, <2>1, <3>2, <3>3, SMTT(30) DEF Exact
  <2>2. CASE d # c
    <3>1. R!Working(d) /\ op[d].alone /\ op[d].ip # a
      BY <1>5, <1>7, <2>2, Zenon DEF R!Working
    <3>2. Exact(d)
      BY <1>7, <3>1, Zenon DEF RoutesInv
    <3>3. \A e \in Callers : R!Working(e)' /\ e # d => op'[e].ip # op'[d].ip
      BY <1>4, <1>5, <2>2, <3>1, <3>2 DEF Exact, R!Working
    <3>. QED
      BY <1>5, <2>2, <3>2, <3>3, Zenon DEF Exact
  <2>. QED
    BY <2>1, <2>2, Zenon
<1>. QED
  BY <1>6, <1>7, Zenon DEF RoutesInv, R!NoCollision

\* A call that returns disturbs nobody.
LEMMA ReturnKeeps ==
  ASSUME RoutesInv, NEW c \in Callers, R!Return(c), paths' = paths
  PROVE  RoutesInv'
<1>1. RoutesTyped
  BY Zenon DEF RoutesInv
<1>2. \A d \in Callers : op'[d] = IF d = c THEN R!Idle ELSE op[d]
  BY <1>1, Zenon DEF R!Return, RoutesTyped
<1>3. R!Idle \in RouteOp /\ R!Idle.kind = "idle"
  BY Zenon DEF R!Idle, RouteOp
<1>4. RoutesTyped'
  <2>1. op' \in [Callers -> RouteOp]
    BY <1>1, <1>3, Zenon DEF R!Return, RoutesTyped
  <2>2. \A d \in Callers : R!Working(d)' => op'[d].ip \in Addrs
    BY <1>1, <1>2, <1>3, Zenon DEF RoutesTyped, R!Working
  <2>. QED
    BY <1>1, <2>1, <2>2, Zenon DEF RoutesTyped
<1>5. ASSUME NEW d \in Callers, R!Working(d)' PROVE d # c /\ op'[d] = op[d] /\ R!Working(d)
  BY <1>2, <1>3, <1>5, Zenon DEF R!Working
<1>6. ASSUME R!NoCollision, NEW d \in Callers, R!Working(d)', op'[d].alone PROVE Exact(d)'
  <2>1. Exact(d) /\ op'[d] = op[d]
    BY <1>5, <1>6, Zenon DEF RoutesInv
  <2>2. \A e \in Callers : R!Working(e)' /\ e # d => op'[e].ip # op'[d].ip
    BY <1>5, <2>1, Zenon DEF Exact
  <2>. QED
    BY <2>1, <2>2, Zenon DEF Exact
<1>. QED
  BY <1>4, <1>6, Zenon DEF RoutesInv, R!NoCollision

\* A call that adds or deletes one path has one less to do, and disturbs no call that is alone.
LEMMA WorkKeeps ==
  ASSUME RoutesInv, NEW c \in Callers, R!Working(c), NEW h \in HopSet,
         \/ /\ h \in op[c].add /\ R!AddPath(op[c].ip, h) /\ op' = [op EXCEPT ![c].add = @ \ {h}]
         \/ /\ op[c].add = {} /\ h \in op[c].del
            /\ R!DeletePath(op[c].ip, h) /\ op' = [op EXCEPT ![c].del = @ \ {h}]
  PROVE  RoutesInv'
<1>. DEFINE a == op[c].ip
<1>1. RoutesTyped /\ a \in Addrs /\ op[c] \in RouteOp
  BY Zenon DEF RoutesInv, RoutesTyped
<1>2. /\ \A d \in Callers : d # c => op'[d] = op[d]
      /\ op'[c].kind = op[c].kind /\ op'[c].ip = a /\ op'[c].want = op[c].want /\ op'[c].alone = op[c].alone
      /\ \/ op'[c].add = op[c].add \ {h} /\ op'[c].del = op[c].del
         \/ op'[c].add = op[c].add /\ op'[c].del = op[c].del \ {h}
  BY <1>1 DEF RoutesTyped, RouteOp
<1>3. RoutesTyped'
  <2>1. op' \in [Callers -> RouteOp]
    BY <1>1, SMTT(30) DEF RoutesTyped, RouteOp
  <2>2. paths' \in [Addrs -> SUBSET HopSet]
    BY <1>1, PathsTyped, Zenon
  <2>3. \A d \in Callers : R!Working(d)' => op'[d].ip \in Addrs
    BY <1>1, <1>2, Zenon DEF RoutesTyped, R!Working
  <2>. QED
    BY <2>1, <2>2, <2>3, Zenon DEF RoutesTyped
<1>4. \A d \in Callers : (R!Working(d)' <=> R!Working(d)) /\ op'[d].ip = op[d].ip /\ op'[d].alone = op[d].alone
  BY <1>2, Zenon DEF R!Working
<1>5. ASSUME R!NoCollision, NEW d \in Callers, R!Working(d)', op'[d].alone PROVE Exact(d)'
  <2>1. Exact(d) /\ op[d].ip \in Addrs /\ R!Working(d)
    BY <1>4, <1>5, Zenon DEF RoutesInv, RoutesTyped
  <2>2. \A e \in Callers : R!Working(e)' /\ e # d => op'[e].ip # op'[d].ip
    BY <1>4, <2>1, Zenon DEF Exact
  <2>3. CASE d # c
    <3>1. op[d].ip # a
      BY <2>1, <2>3, Zenon DEF Exact
    <3>2. paths'[op[d].ip] = paths[op[d].ip]
      BY <1>1, <2>1, <3>1, PathsTyped, ZenonT(30)
    <3>. QED
      BY <1>2, <2>1, <2>2, <2>3, <3>2, Zenon DEF Exact
  <2>4. CASE d = c
    <3>1. CASE h \in op[c].add /\ R!AddPath(a, h) /\ op' = [op EXCEPT ![c].add = @ \ {h}]
      <4>1. paths'[a] = paths[a] \cup {h}
        BY <1>1, <1>5, <3>1, OnePath DEF RoutesTyped
      <4>2. op'[c].add = op[c].add \ {h} /\ op'[c].del = op[c].del
        BY <1>1, <3>1, Zenon DEF RoutesTyped, RouteOp
      <4>3. op[c].add \subseteq op[c].want
        BY <2>1, <2>4, Zenon DEF Exact
      <4>. QED
        BY <1>2, <2>1, <2>2, <2>4, <3>1, <4>1, <4>2, <4>3, SMTT(30) DEF Exact
    <3>2. CASE /\ op[c].add = {} /\ h \in op[c].del
               /\ R!DeletePath(a, h) /\ op' = [op EXCEPT ![c].del = @ \ {h}]
      <4>1. paths'[a] = paths[a] \ {h}
        BY <1>1, <1>5, <3>2, OnePath DEF RoutesTyped
      <4>2. op'[c].add = op[c].add /\ op'[c].del = op[c].del \ {h}
        BY <1>1, <3>2, Zenon DEF RoutesTyped, RouteOp
      <4>. QED
        BY <1>2, <2>1, <2>2, <2>4, <3>2, <4>1, <4>2, SMTT(30) DEF Exact
    <3>. QED
      BY <3>1, <3>2, Zenon
  <2>. QED
    BY <2>3, <2>4, Zenon
<1>. QED
  BY <1>3, <1>5, Zenon DEF RoutesInv, R!NoCollision

\* A restart takes the routes from all calls, none of which is alone any more.
LEMMA StopKeeps ==
  ASSUME RoutesInv, NEW on, NEW r, R!StopBgp(on, r)
  PROVE  RoutesInv'
<1>1. RoutesTyped
  BY Zenon DEF RoutesInv
<1>2. ASSUME NEW c \in Callers
      PROVE  op'[c] \in RouteOp /\ op'[c].ip = op[c].ip /\ op'[c].kind = op[c].kind
             /\ (R!Working(c) => op'[c].alone = FALSE)
  <2>1. op'[c] = IF R!Working(c) THEN [op[c] EXCEPT !.alone = FALSE] ELSE op[c]
    BY Zenon DEF R!StopBgp
  <2>. QED
    BY <1>1, <2>1, ZenonT(30) DEF RoutesTyped, RouteOp
<1>3. RoutesTyped'
  <2>1. op' \in [Callers -> RouteOp]
    BY <1>2, Zenon DEF R!StopBgp
  <2>2. paths' \in [Addrs -> SUBSET HopSet]
    BY Zenon DEF R!StopBgp
  <2>. QED
    BY <1>1, <1>2, <2>1, <2>2, Zenon DEF RoutesTyped, R!Working
<1>4. \A c \in Callers : R!Working(c)' => op'[c].alone = FALSE
  BY <1>2, Zenon DEF R!Working
<1>. QED
  BY <1>3, <1>4, Zenon DEF RoutesInv

\* What a route step of c does, taken apart.
LEMMA RouteStep ==
  ASSUME RoutesInv, NEW c \in Callers, NEW h \in HopSet, R!AddRoute(c, h) \/ R!DeleteRoute(c, h)
  PROVE  /\ R!Working(c) /\ op[c].ip \in Addrs
         /\ \/ R!Return(c) /\ paths' = paths
            \/ /\ h \in op[c].add /\ R!AddPath(op[c].ip, h) /\ op' = [op EXCEPT ![c].add = @ \ {h}]
            \/ /\ op[c].add = {} /\ h \in op[c].del
               /\ R!DeletePath(op[c].ip, h) /\ op' = [op EXCEPT ![c].del = @ \ {h}]
<1>1. R!Working(c)
  BY Zenon DEF R!AddRoute, R!DeleteRoute, R!Working
<1>2. op[c].ip \in Addrs
  BY <1>1, Zenon DEF RoutesInv, RoutesTyped
<1>. QED
  BY <1>1, <1>2, Zenon DEF R!AddRoute, R!DeleteRoute, R!Fail

\* Every step keeps the invariant.
LEMMA InvStep == ASSUME RoutesInv, [R!Next]_R!vars PROVE RoutesInv'
<1>1. CASE UNCHANGED R!vars
  BY <1>1, Zenon DEF R!vars, RoutesInv, RoutesTyped, Exact, R!Working, R!NoCollision
<1>2. ASSUME NEW c \in Callers, NEW a \in Addrs, NEW ns \in SUBSET Nodes, R!SetBalancer(c, a, ns) PROVE RoutesInv'
  <2>1. R!Hops(ns) \in SUBSET HopSet
    BY Zenon DEF R!Hops, HopSet
  <2>2. R!Begin(c, a, "set", R!Hops(ns), R!Hops(ns) \ paths[a], paths[a] \ R!Hops(ns)) /\ paths' = paths
    BY <1>2, Zenon DEF R!SetBalancer
  <2>. HIDE DEF R!Hops
  <2>. QED
    BY <2>1, <2>2, BeginKeeps, Zenon
<1>3. ASSUME NEW c \in Callers, NEW a \in Addrs, R!DelBalancer(c, a) PROVE RoutesInv'
  <2>1. {} \ paths[a] = {} /\ paths[a] \ {} = paths[a]
    OBVIOUS
  <2>2. R!Begin(c, a, "del", {}, {} \ paths[a], paths[a] \ {}) /\ paths' = paths
    BY <1>3, <2>1, Zenon DEF R!DelBalancer
  <2>. QED
    BY <2>2, BeginKeeps
<1>4. ASSUME NEW c \in Callers, NEW h \in HopSet, R!AddRoute(c, h) \/ R!DeleteRoute(c, h) PROVE RoutesInv'
  BY <1>4, RouteStep, WorkKeeps, ReturnKeeps, Zenon
<1>5. ASSUME NEW c \in Callers, R!Done(c) PROVE RoutesInv'
  BY <1>5, ReturnKeeps, Zenon DEF R!Done
<1>6. ASSUME NEW delete \in BOOLEAN, NEW r \in Racks, R!HandleBgpGlobalConfig(delete, r) PROVE RoutesInv'
  <2>1. CASE R!Rejected(r)
    BY <2>1, Zenon DEF R!Rejected, RoutesInv, RoutesTyped, Exact, R!Working, R!NoCollision
  <2>2. CASE \E on \in BOOLEAN : \E q : R!StopBgp(on, q)
    BY <2>2, StopKeeps, Zenon
  <2>. QED
    BY <1>6, <2>1, <2>2, Zenon DEF R!HandleBgpGlobalConfig
<1>7. \A n \in Nodes : HopOf[n] \in HopSet
  BY Zenon DEF HopSet
<1>. QED
  BY <1>1, <1>2, <1>3, <1>4, <1>5, <1>6, <1>7, Zenon DEF R!Next

\* The invariant holds in every state.
LEMMA Invariant == R!Spec => []RoutesInv
<1>1. R!Init => RoutesInv
  BY DEF R!Init, RoutesInv, RoutesTyped, R!Working, R!Idle, RouteOp
<1>2. RoutesInv /\ [R!Next]_R!vars => RoutesInv'
  BY InvStep, Zenon
<1>. QED
  BY <1>1, <1>2, PTL DEF R!Spec

\* setBalancer: a call that nobody disturbs leaves exactly the wanted paths.
THEOREM RoutesEndAsWanted == R!Spec => []R!RoutesAsWanted
<1>1. ASSUME RoutesInv, R!NoCollision, NEW c \in Callers, R!Working(c), op[c].add = {}, op[c].del = {}, op[c].alone
      PROVE  paths[op[c].ip] = op[c].want
  <2>1. Exact(c)
    BY <1>1, Zenon DEF RoutesInv
  <2>. QED
    BY <1>1, <2>1, Zenon DEF Exact
<1>2. RoutesInv => R!RoutesAsWanted
  BY <1>1, Zenon DEF R!RoutesAsWanted
<1>. QED
  BY <1>2, Invariant, PTL

\* One step of the calls does not take the last path of an address from a call that is alone.
LEMMA NeverBroken ==
  ASSUME RoutesInv, [R!Next]_R!vars, R!NoCollision, starts \in Nat, starts' = starts,
         NEW c \in Callers, op[c].kind = "set", op[c].alone, op[c].want # {}, paths[op[c].ip] # {}
  PROVE  paths'[op[c].ip] # {}
<1>1. Exact(c) /\ R!Working(c) /\ op[c].ip \in Addrs /\ RoutesTyped
  BY Zenon DEF RoutesInv, RoutesTyped, R!Working
<1>2. CASE paths' = paths
  BY <1>2, Zenon
<1>3. ASSUME NEW d \in Callers, NEW h \in HopSet, R!AddRoute(d, h) \/ R!DeleteRoute(d, h)
      PROVE  paths'[op[c].ip] # {}
  <2>1. R!Working(d) /\ op[d].ip \in Addrs
    BY <1>3, RouteStep, Zenon
  <2>2. CASE d # c
    <3>1. op[d].ip # op[c].ip
      BY <1>1, <2>1, <2>2, Zenon DEF Exact
    <3>2. R!AddPath(op[d].ip, h) \/ R!DeletePath(op[d].ip, h) => paths'[op[c].ip] = paths[op[c].ip]
      BY <1>1, <2>1, <3>1, PathsTyped, Zenon
    <3>. QED
      BY <1>2, <1>3, <3>2, RouteStep, Zenon
  <2>3. CASE R!AddPath(op[c].ip, h)
    BY <1>1, <2>3, OnePath DEF RoutesTyped
  <2>4. CASE op[c].add = {} /\ h \in op[c].del /\ R!DeletePath(op[c].ip, h)
    <3>1. paths'[op[c].ip] = paths[op[c].ip] \ {h}
      BY <1>1, <2>4, OnePath DEF RoutesTyped
    <3>2. op[c].want \subseteq paths'[op[c].ip]
      BY <1>1, <2>4, <3>1, Zenon DEF Exact
    <3>. QED
      BY <3>2, Zenon
  <2>. QED
    BY <1>2, <1>3, <2>2, <2>3, <2>4, RouteStep, Zenon
<1>4. ~ \E delete \in BOOLEAN, r \in Racks : R!HandleBgpGlobalConfig(delete, r)
  <2>1. \A delete \in BOOLEAN, r \in Racks : R!HandleBgpGlobalConfig(delete, r) => starts' = starts + 1
    BY Zenon DEF R!HandleBgpGlobalConfig, R!StopBgp, R!Rejected
  <2>. QED
    BY <2>1
<1>5. \A n \in Nodes : HopOf[n] \in HopSet
  BY Zenon DEF HopSet
<1>. QED
  BY <1>2, <1>3, <1>4, <1>5, Zenon DEF R!Next, R!vars, R!SetBalancer, R!DelBalancer, R!Done

Counted == starts \in Nat

\* The restarts are counted.
LEMMA StartsCounted == R!Spec => []Counted
<1>1. R!Init => Counted
  BY DEF R!Init, Counted
<1>2. ASSUME Counted, [R!Next]_R!vars PROVE Counted'
  <2>1. \A c \in Callers, a \in Addrs : R!DelBalancer(c, a) => starts' = starts
    BY Zenon DEF R!DelBalancer
  <2>2. \A c \in Callers, a \in Addrs, ns \in SUBSET Nodes : R!SetBalancer(c, a, ns) => starts' = starts
    BY Zenon DEF R!SetBalancer
  <2>3. \A c \in Callers, n \in Nodes : R!AddRoute(c, HopOf[n]) \/ R!DeleteRoute(c, HopOf[n]) => starts' = starts
    BY Zenon DEF R!AddRoute, R!DeleteRoute
  <2>4. \A c \in Callers : R!Done(c) => starts' = starts
    BY Zenon DEF R!Done
  <2>5. \A delete \in BOOLEAN, r \in Racks : R!HandleBgpGlobalConfig(delete, r) => starts' = starts + 1
    BY Zenon DEF R!HandleBgpGlobalConfig, R!StopBgp, R!Rejected
  <2>6. starts' = starts \/ starts' = starts + 1
    BY <1>2, <2>1, <2>2, <2>3, <2>4, <2>5, Zenon DEF R!Next, R!vars
  <2>. QED
    BY <1>2, <2>6 DEF Counted
<1>. QED
  BY <1>1, <1>2, PTL DEF R!Spec

\* setBalancer: an address that has a route keeps one while its routes are changed.
THEOREM RoutesMakeBeforeBreak == R!Spec => R!MakeBeforeBreak
<1>1. RoutesInv /\ Counted /\ [R!Next]_R!vars
        => [\A c \in Callers :
              (op[c].kind = "set" /\ op[c].alone /\ op[c].want # {} /\ starts' = starts /\ R!NoCollision)
                => (paths[op[c].ip] # {} => paths'[op[c].ip] # {})]_R!vars
  BY NeverBroken, Zenon DEF Counted
<1>. QED
  BY <1>1, Invariant, StartsCounted, PTL DEF R!Spec, R!MakeBeforeBreak
===============================================================================
