------------------------------- MODULE BgpPeers -------------------------------
(***************************************************************************)
(* The configuration of the BGP speakers: on every node one reconciler for *)
(* the BgpConf "default" (bgpconf_controller.go), one for the BgpPeers     *)
(* (bgppeer_controller.go), and for each a loop that writes the status     *)
(* every 30 seconds, all working on the node's GoBGP server.  The nodes    *)
(* meet in the API server: they share the finalizer of each object, and    *)
(* their writes conflict.                                                  *)
(*                                                                         *)
(* An object is a record that says when it was created or last changed by  *)
(* its user (ver, 0 if it is not there); a write of a copy that is not the *)
(* stored one fails.  What is configured is a version of the BgpConf; the  *)
(* spec of a BgpPeer does not change.                                      *)
(***************************************************************************)
EXTENDS Naturals

CONSTANTS Nodes, Peers,
          Match,       \* Match[p]: the nodes that the selector of p selects
          ConfTicks, PeerTicks,  \* the nodes where updateConfStatus, updatePeerStatus run
          Running,     \* at first all objects exist and are configured everywhere
          Ops,         \* the kinds of changes: edit, delete, create, drop, restart
          MaxOps,      \* bound: number of changes by users, and restarts
          MaxFaults,   \* bound: number of calls into GoBGP that fail
          Stamps       \* the times annotations tell apart: 0 .. Stamps - 1

\* The queues tell the BgpConf from every BgpPeer.
ConstantsOK == "conf" \notin Peers /\ Stamps \in Nat \ {0}

VARIABLES conf,     \* the BgpConf: [ver, deleting, fin, stamp, stat]
          peer,     \* the BgpPeers: peer[p] = [ver, deleting, fin, stat]
          seen,     \* seen[n]: the cache of n, [conf, peer]
          queue,    \* queue[n]: names of objects to reconcile
          work,     \* work[n]: where the BgpConf reconciler of n is
          listed,   \* listed[n]: [on, peers], the list updatePeerStatus works with
          bgp,      \* bgp[n]: [ver, peers], the GoBGP server (ver 0: stopped)
          ops, faults

vars == <<conf, peer, seen, queue, work, listed, bgp, ops, faults>>
store == <<conf, peer>>

NoConf == [ver |-> 0, deleting |-> FALSE, fin |-> FALSE, stamp |-> 0, stat |-> [n \in Nodes |-> 0]]
NoPeer == [ver |-> 0, deleting |-> FALSE, fin |-> FALSE, stat |-> {}]
Idle == [at |-> "idle", obj |-> NoConf, peers |-> {}]
NoList == [on |-> FALSE, peers |-> {}]
Stopped == [ver |-> 0, peers |-> {}]

\* NeedToAddFinalizer, IsDeletionCandidate
NeedToAddFinalizer(o) == ~o.deleting /\ ~o.fin
IsDeletionCandidate(o) == o.deleting /\ o.fin

Requeue(n, x) == queue' = [queue EXCEPT ![n] = @ \cup {x}]
Dequeue(n, x) == queue' = [queue EXCEPT ![n] = @ \ {x}]

------------------------------------------------------------------------------
(* The cache, and the predicates of SetupWithManager.                      *)

\* Mutant of Changed: every update of the object counts.
Changed_Any(old, new) == new.ver # 0 /\ new # old

\* Mutant of Changed: a new spec does not count.
Changed_NoSpec(old, new) == new.ver # 0 /\ (old.ver = 0 \/ new.deleting # old.deleting)

Changed(old, new) == new.ver # 0 /\ (new.ver # old.ver \/ new.deleting # old.deleting)

Sync(n) ==
    /\ seen[n] # [conf |-> conf, peer |-> peer]
    /\ seen' = [seen EXCEPT ![n] = [conf |-> conf, peer |-> peer]]
    /\ queue' = [queue EXCEPT ![n] = @ \cup
                   {p \in Peers : Changed(seen[n].peer[p], peer[p])} \cup
                   (IF Changed(seen[n].conf, conf) THEN {"conf"} ELSE {})]
    /\ UNCHANGED <<store, work, listed, bgp, ops, faults>>

------------------------------------------------------------------------------
(* BgpConfReconciler.Reconcile on node n, from write to write.             *)

ConfBegin(n) ==
    /\ work[n].at = "idle" /\ "conf" \in queue[n]
    /\ LET o == seen[n].conf IN
       \/ o.ver = 0 /\ Dequeue(n, "conf") /\ UNCHANGED <<conf, work, bgp>>
       \/ /\ o.ver # 0 /\ IsDeletionCandidate(o)
          /\ bgp' = [bgp EXCEPT ![n] = Stopped]
          /\ IF o = conf THEN conf' = NoConf /\ Dequeue(n, "conf")
                         ELSE UNCHANGED <<conf, queue>>
          /\ UNCHANGED work
       \/ /\ o.ver # 0 /\ NeedToAddFinalizer(o) /\ o = conf
          /\ conf' = [conf EXCEPT !.fin = TRUE]
          /\ work' = [work EXCEPT ![n] = [at |-> "start", obj |-> conf', peers |-> {}]]
          /\ Dequeue(n, "conf") /\ UNCHANGED bgp
       \/ /\ o.ver # 0 /\ ~IsDeletionCandidate(o) /\ ~NeedToAddFinalizer(o)
          /\ work' = [work EXCEPT ![n] = [at |-> "start", obj |-> o, peers |-> {}]]
          /\ Dequeue(n, "conf") /\ UNCHANGED <<conf, bgp>>
    /\ UNCHANGED <<peer, seen, listed, ops, faults>>

Fail(n) ==
    /\ work' = [work EXCEPT ![n] = Idle]
    /\ Requeue(n, "conf")

\* HandleBgpGlobalConfig: the server is stopped, which drops its peers, and started;
\* starting it, or its policy, may fail, and so may the conversion before all that.
HandleBgpGlobalConfig(n) ==
    /\ work[n].at = "start"
    /\ \/ /\ bgp' = [bgp EXCEPT ![n] = [ver |-> work[n].obj.ver, peers |-> {}]]
          /\ work' = [work EXCEPT ![n].at = "write"]
          /\ UNCHANGED <<queue, faults>>
       \/ /\ faults < MaxFaults /\ faults' = faults + 1
          /\ \/ \E v \in {0, work[n].obj.ver} : bgp' = [bgp EXCEPT ![n] = [ver |-> v, peers |-> {}]]
             \/ UNCHANGED bgp
          /\ Fail(n)
    /\ UNCHANGED <<store, seen, listed, ops>>

\* The annotation is written; then reconfigPeers lists the peers.
ConfWrite(n) ==
    /\ work[n].at = "write"
    /\ IF work[n].obj = conf
       THEN /\ conf' = [conf EXCEPT !.stamp = (@ + 1) % Stamps]
            /\ work' = [work EXCEPT ![n] = [@ EXCEPT !.at = "peers",
                          !.peers = {p \in Peers : seen[n].peer[p].ver # 0 /\ n \in Match[p]}]]
            /\ UNCHANGED queue
       ELSE Fail(n) /\ UNCHANGED conf
    /\ UNCHANGED <<peer, seen, listed, bgp, ops, faults>>

\* Mutant of reconfigPeers: it adds none.
reconfigPeers_None(n) ==
    /\ work[n].at = "peers" /\ work' = [work EXCEPT ![n] = Idle]
    /\ UNCHANGED <<store, seen, queue, listed, bgp, ops, faults>>

\* reconfigPeers gives the server one of the listed peers, or is done with them.
reconfigPeers(n) ==
    /\ work[n].at = "peers"
    /\ \/ \E p \in work[n].peers :
            \/ /\ bgp' = [bgp EXCEPT ![n].peers = @ \cup {p}]
               /\ work' = [work EXCEPT ![n].peers = @ \ {p}]
               /\ UNCHANGED <<queue, faults>>
            \/ /\ faults < MaxFaults /\ faults' = faults + 1
               /\ Fail(n) /\ UNCHANGED bgp
       \/ work[n].peers = {} /\ work' = [work EXCEPT ![n] = Idle] /\ UNCHANGED <<queue, bgp, faults>>
    /\ UNCHANGED <<store, seen, listed, ops>>

------------------------------------------------------------------------------
(* BgpPeerReconciler.Reconcile on node n for p.                            *)

\* HandleBgpPeer: a server that does not run takes no peer.
HandleBgpPeer(n, p, delete) ==
    bgp' = [bgp EXCEPT ![n].peers = IF delete THEN @ \ {p} ELSE @ \cup {p}]

PeerReconcile(n, p) ==
    /\ p \in queue[n]
    /\ LET o == seen[n].peer[p]
           current == o = peer[p]
           refused == n \in Match[p] /\ bgp[n].ver = 0
       IN \/ o.ver = 0 /\ Dequeue(n, p) /\ UNCHANGED <<peer, bgp>>
          \/ /\ o.ver # 0 /\ IsDeletionCandidate(o) /\ HandleBgpPeer(n, p, TRUE)
             /\ IF current THEN peer' = [peer EXCEPT ![p] = NoPeer] /\ Dequeue(n, p)
                           ELSE UNCHANGED <<peer, queue>>
          \/ /\ o.ver # 0 /\ ~IsDeletionCandidate(o) /\ (NeedToAddFinalizer(o) => current)
             /\ peer' = IF NeedToAddFinalizer(o) THEN [peer EXCEPT ![p].fin = TRUE] ELSE peer
             /\ IF refused THEN UNCHANGED <<bgp, queue>>
                ELSE HandleBgpPeer(n, p, n \notin Match[p]) /\ Dequeue(n, p)
    /\ UNCHANGED <<conf, seen, work, listed, ops, faults>>

------------------------------------------------------------------------------
(* The loops of the two reconcilers.                                       *)

\* updateConfStatus; an error is ignored.
updateConfStatus(n) ==
    /\ n \in ConfTicks /\ seen[n].conf = conf /\ conf.ver # 0
    /\ conf' = [conf EXCEPT !.stat[n] = bgp[n].ver]
    /\ UNCHANGED <<peer, seen, queue, work, listed, bgp, ops, faults>>

\* updatePeerStatus lists the BgpPeers ...
ListPeers(n) ==
    /\ n \in PeerTicks /\ ~listed[n].on
    /\ listed' = [listed EXCEPT ![n] = [on |-> TRUE, peers |-> {p \in Peers : seen[n].peer[p].ver # 0}]]
    /\ UNCHANGED <<store, seen, queue, work, bgp, ops, faults>>

\* Mutant of HandleBgpPeerStatus: no peer is deleted.
HandleBgpPeerStatus_Keeps(n) ==
    /\ listed[n].on /\ listed' = [listed EXCEPT ![n] = NoList]
    /\ UNCHANGED <<store, seen, queue, work, bgp, ops, faults>>

\* ... deletes the other peers from the server, and writes the status of those that
\* it can write.
HandleBgpPeerStatus(n) ==
    /\ listed[n].on
    /\ listed' = [listed EXCEPT ![n] = NoList]
    /\ bgp' = [bgp EXCEPT ![n].peers = @ \cap listed[n].peers]
    /\ peer' = [p \in Peers |->
                  IF p \in listed[n].peers /\ seen[n].peer[p] = peer[p] /\ peer[p].ver # 0
                  THEN [peer[p] EXCEPT !.stat = IF p \in bgp[n].peers THEN @ \cup {n} ELSE @ \ {n}]
                  ELSE peer[p]]
    /\ UNCHANGED <<conf, seen, queue, work, ops, faults>>

------------------------------------------------------------------------------
(* Users and restarts.                                                     *)

Op(kind) == kind \in Ops /\ ops < MaxOps /\ ops' = ops + 1

\* A BgpConf is created, or its spec is changed.
EditConf ==
    /\ Op("edit") /\ ~conf.deleting /\ conf' = [conf EXCEPT !.ver = ops + 2]
    /\ UNCHANGED <<peer, seen, queue, work, listed, bgp, faults>>

DeleteConf ==
    /\ Op("delete") /\ conf.ver # 0 /\ ~conf.deleting
    /\ conf' = IF conf.fin THEN [conf EXCEPT !.deleting = TRUE] ELSE NoConf
    /\ UNCHANGED <<peer, seen, queue, work, listed, bgp, faults>>

CreatePeer(p) ==
    /\ Op("create") /\ peer[p].ver = 0 /\ peer' = [peer EXCEPT ![p].ver = ops + 2]
    /\ UNCHANGED <<conf, seen, queue, work, listed, bgp, faults>>

DeletePeer(p) ==
    /\ Op("drop") /\ peer[p].ver # 0 /\ ~peer[p].deleting
    /\ peer' = [peer EXCEPT ![p] = IF @.fin THEN [@ EXCEPT !.deleting = TRUE] ELSE NoPeer]
    /\ UNCHANGED <<conf, seen, queue, work, listed, bgp, faults>>

\* The speaker of n starts anew, with CleanBgpConfStatus (CleanBgpPeerStatus writes
\* the copies back unchanged).
Restart(n) ==
    /\ Op("restart")
    /\ bgp' = [bgp EXCEPT ![n] = Stopped]
    /\ work' = [work EXCEPT ![n] = Idle] /\ listed' = [listed EXCEPT ![n] = NoList]
    /\ conf' = [conf EXCEPT !.stat = NoConf.stat]
    /\ seen' = [seen EXCEPT ![n] = [conf |-> conf', peer |-> peer]]
    /\ queue' = [queue EXCEPT ![n] = {p \in Peers : peer[p].ver # 0} \cup
                                     (IF conf.ver # 0 THEN {"conf"} ELSE {})]
    /\ UNCHANGED <<peer, faults>>

------------------------------------------------------------------------------
\* Either nothing is there yet, or everything has been configured.
Init ==
    /\ conf = IF Running THEN [NoConf EXCEPT !.ver = 1, !.fin = TRUE] ELSE NoConf
    /\ peer = [p \in Peers |-> IF Running THEN [NoPeer EXCEPT !.ver = 1, !.fin = TRUE] ELSE NoPeer]
    /\ bgp = [n \in Nodes |-> IF Running THEN [ver |-> 1, peers |-> {p \in Peers : n \in Match[p]}] ELSE Stopped]
    /\ seen = [n \in Nodes |-> [conf |-> conf, peer |-> peer]]
    /\ queue = [n \in Nodes |-> {}] /\ work = [n \in Nodes |-> Idle]
    /\ listed = [n \in Nodes |-> NoList] /\ ops = 0 /\ faults = 0

Conf(n) == ConfBegin(n) \/ HandleBgpGlobalConfig(n) \/ ConfWrite(n) \/ reconfigPeers(n)

Node(n) ==
    \/ Sync(n) \/ Conf(n) \/ updateConfStatus(n) \/ ListPeers(n) \/ HandleBgpPeerStatus(n)
    \/ \E p \in Peers : PeerReconcile(n, p)

User == EditConf \/ DeleteConf \/ (\E p \in Peers : CreatePeer(p) \/ DeletePeer(p)) \/ \E n \in Nodes : Restart(n)

Next == User \/ \E n \in Nodes : Node(n)

Spec == Init /\ [][Next]_vars

\* Caches catch up, workers and loops run on: none of them waits for a user.
Fairness ==
    \A n \in Nodes :
      /\ WF_vars(Sync(n)) /\ WF_vars(Conf(n))
      /\ WF_vars(updateConfStatus(n)) /\ WF_vars(ListPeers(n)) /\ WF_vars(HandleBgpPeerStatus(n))
      /\ \A p \in Peers : WF_vars(PeerReconcile(n, p))

FairSpec == Spec /\ Fairness

------------------------------------------------------------------------------
(* Properties.                                                             *)

Quiet(n) == seen[n] = [conf |-> conf, peer |-> peer] /\ queue[n] = {} /\ work[n] = Idle

\* Reconcile of the BgpConf: with nothing left to do, a node's server runs the last
\* version of the BgpConf, though the nodes' writes of the object fail in each other's way.
ServerCurrent == \A n \in Nodes : (Quiet(n) /\ conf.ver # 0) => bgp[n].ver = conf.ver

\* reconfigPeers, Reconcile of a BgpPeer: a restart of the server loses no peer: with
\* nothing left to do it has every BgpPeer whose selector selects the node.
PeersConfigured ==
    conf.ver # 0 => \A n \in Nodes \ PeerTicks :
      (Quiet(n) /\ bgp[n].ver # 0) => {p \in Peers : peer[p].ver # 0 /\ n \in Match[p]} \subseteq bgp[n].peers

\* HandleBgpPeerStatus: a peer whose BgpPeer is gone does not stay with any server, not
\* even on a node whose reconciler never saw it being deleted.
StrayPeersGo ==
    \A n \in PeerTicks, p \in Peers : []<>(peer[p].ver # 0 \/ p \notin bgp[n].peers)

\* Reconcile of the BgpConf, UpdateFunc: the nodes' own writes do not keep the others
\* restarting their servers: when the users are done, so are the reconcilers.
Settles == <>[](\A n \in Nodes : "conf" \notin queue[n] /\ work[n] = Idle)
===============================================================================
