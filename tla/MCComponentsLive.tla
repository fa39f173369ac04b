--------------------------- MODULE MCComponentsLive ----------------------------
(***************************************************************************)
(* NodeProxy, the id allocator, and the liveness of the components, for    *)
(* TLC.  In a behaviour only the component that part names moves; the      *)
(* variables of the others keep their initial values.  NodeProxy is        *)
(* extended and has its constants from the configuration, the others are   *)
(* instances.                                                              *)
(***************************************************************************)
EXTENDS NodeProxy, TLC

CONSTANT Nil

VARIABLES part,
          bits, id, alloc,
          k, asked, call, cfg, proc, pidfile, hup, loaded, calls, crashes,
          used, released, up, members, eventCh, reload, known, resync, ip2mac, l2Ops,
          registered, ipranges, answered, groups, conn, loop, target, stopping, callsLeft, faultsLeft,
          start, result, ctx, ictx, cancelled, mgr, sp, causes,
          conf, peer, seen, queue, confWork, listed, bgp, edits, refusals

idVars == <<bits, id, alloc>>
vipVars == <<k, asked, call, cfg, proc, pidfile, hup, loaded, calls, crashes>>
l2Vars == <<used, released, up, members, eventCh, reload, known, resync, ip2mac, l2Ops>>
annVars == <<registered, ipranges, answered, groups, conn, loop, target, stopping, callsLeft, faultsLeft>>
lifeVars == <<start, result, ctx, ictx, cancelled, mgr, sp, causes>>
peerVars == <<conf, peer, seen, queue, confWork, listed, bgp, edits, refusals>>

allVars == <<part, vars, idVars, vipVars, l2Vars, annVars, lifeVars, peerVars>>

\* A step A of the component that part p is about.
Np(p, A) == part = p /\ A /\ UNCHANGED <<part, idVars, vipVars, l2Vars, annVars, lifeVars, peerVars>>
Ids(p, A) == part = p /\ A /\ UNCHANGED <<part, vars, vipVars, l2Vars, annVars, lifeVars, peerVars>>
Vip(p, A) == part = p /\ A /\ UNCHANGED <<part, vars, idVars, l2Vars, annVars, lifeVars, peerVars>>
L2(p, A) == part = p /\ A /\ UNCHANGED <<part, vars, idVars, vipVars, annVars, lifeVars, peerVars>>
Ann(p, A) == part = p /\ A /\ UNCHANGED <<part, vars, idVars, vipVars, l2Vars, lifeVars, peerVars>>
Life(p, A) == part = p /\ A /\ UNCHANGED <<part, vars, idVars, vipVars, l2Vars, annVars, peerVars>>
Peer(p, A) == part = p /\ A /\ UNCHANGED <<part, vars, idVars, vipVars, l2Vars, annVars, lifeVars>>

------------------------------------------------------------------------------
(* The instances.                                                          *)

\* NodeProxy: nothing fails, and nobody else touches the workload.
Undisturbed == INSTANCE NodeProxy WITH Nodes <- {"n1"}, Ext <- {"n1"}, Int <- {"n1"},
    Ops <- {"create", "delete", "pods"}, MaxOps <- 4, MaxFaults <- 0

\* IdAlloc: three blocks of two bits, so that growing is cut off at the last one.
Bitmap == INSTANCE IdAlloc WITH BlockBits <- 2, MaxBlocks <- 3, Hashes <- {0, 3, 5, 8},
    call <- alloc

\* Keepalived: two addresses of one pool, and one caller.
HashBySize == [ns \in SUBSET {"n1", "n2"} |-> IF ns = {"n1", "n2"} THEN 1 ELSE 2]
Keep == INSTANCE Keepalived WITH Nodes <- {"n1", "n2"}, Me <- "n1", Eips <- {"e"}, Addrs <- {"x", "y"},
    PoolOf <- [a \in {"x", "y"} |-> "e"], Ifaces <- {"eth0"}, Callers <- {"eip"}, NumIDs <- 2,
    Hash <- HashBySize, MaxCalls <- 3, MaxFaults <- 1, faults <- crashes

\* Layer2: an address, and three nodes that only end.
Ordered == "x" :> ("n1" :> 0 @@ "n2" :> 1 @@ "n3" :> 2)
Ending == INSTANCE Layer2 WITH Nodes <- {"n1", "n2", "n3"}, Candidates <- {"n1", "n2", "n3"},
    Addrs <- {"x"}, Rank <- Ordered, Ops <- {"use", "release", "crash"}, MaxOps <- 4,
    work <- resync, ops <- l2Ops

\* Announcer: two Eips on an interface, one of them with two addresses.
EipOfAddr == [a \in {"x", "y", "z"} |-> IF a = "z" THEN "f" ELSE "e"]
GroupOfAddr == [a \in {"x", "y", "z"} |-> a]
Arp == INSTANCE Announcer WITH Eips <- {"e", "f"}, Addrs <- {"x", "y", "z"}, EipOf <- EipOfAddr,
    Ndp <- FALSE, Group <- GroupOfAddr, ClosedIsEOF <- FALSE, MaxCalls <- 7, MaxFaults <- 2, ip2mac <- answered

\* Lifecycle: the three speakers of the repository; the BGP server returns no error.
Process == INSTANCE Lifecycle WITH Speakers <- {"bgp", "layer2", "vip"}, Layer2 <- "layer2",
    Fails <- {"layer2", "vip", "mgr"}

\* BgpPeers: the loop for the status of the peers on n2, that for the BgpConf on n2.
Stray == INSTANCE BgpPeers WITH Nodes <- {"n1", "n2"}, Peers <- {"p"}, Match <- [p \in {"p"} |-> {"n2"}],
    ConfTicks <- {}, PeerTicks <- {"n2"}, Running <- TRUE, Ops <- {"drop", "restart"},
    MaxOps <- 2, MaxFaults <- 0, Stamps <- 2, work <- confWork, ops <- edits, faults <- refusals
Quarrel == INSTANCE BgpPeers WITH Nodes <- {"n1", "n2"}, Peers <- {"p"}, Match <- [p \in {"p"} |-> {}],
    ConfTicks <- {"n2"}, PeerTicks <- {}, Running <- TRUE, Ops <- {"edit", "restart"},
    MaxOps <- 1, MaxFaults <- 0, Stamps <- 2, work <- confWork, ops <- edits, faults <- refusals

ASSUME Bitmap!ConstantsOK /\ Ending!ConstantsOK /\ Stray!ConstantsOK /\ Quarrel!ConstantsOK

------------------------------------------------------------------------------
LiveInit ==
    /\ part \in {"proxy", "undisturbed", "ids", "keepalived", "ending", "arp", "process", "stray", "quarrel"}
    /\ Init /\ Bitmap!Init /\ Keep!Init /\ Ending!Init /\ Arp!Init /\ Process!Init
    /\ IF part = "stray" THEN Stray!Init ELSE Quarrel!Init

LiveNext ==
    \/ Np("proxy", Next) \/ Np("undisturbed", Undisturbed!Next)
    \/ Ids("ids", Bitmap!Next) \/ Vip("keepalived", Keep!Next) \/ L2("ending", Ending!Next)
    \/ Ann("arp", Arp!Next) \/ Life("process", Process!Next)
    \/ Peer("stray", Stray!Next) \/ Peer("quarrel", Quarrel!Next)

\* As much of the fairness of each component as its property needs.  As part never changes,
\* the actions of different components can share a conjunct: fairness to their disjunction
\* is fairness to each.
LiveFairness ==
    /\ WF_allVars(\/ Vip("keepalived", Keep!System) \/ L2("ending", Ending!System)
                  \/ Ann("arp", Arp!Goroutine) \/ Life("process", Process!Steps)
                  \/ Peer("stray", Stray!Sync("n2"))
                  \/ Peer("quarrel", Quarrel!Sync("n1")) \/ Np("undisturbed", Undisturbed!Worker))
    /\ WF_allVars(\/ Life("process", Process!MgrStops)
                  \/ Peer("stray", Stray!ListPeers("n2"))
                  \/ Peer("quarrel", Quarrel!Sync("n2")) \/ Np("undisturbed", Undisturbed!SyncSvc))
    /\ WF_allVars(\/ Life("process", Process!joinMembers)
                  \/ Peer("stray", Stray!HandleBgpPeerStatus("n2"))
                  \/ Peer("quarrel", Quarrel!Conf("n1")) \/ Np("undisturbed", Undisturbed!SyncWl))
    /\ WF_allVars(Life("process", Process!Reloaded) \/ Peer("quarrel", Quarrel!Conf("n2")))
    /\ \A s \in {"bgp", "layer2", "vip"} : WF_allVars(Life("process", Process!SpeakerStops(s)))

LiveSpec == LiveInit /\ [][LiveNext]_allVars /\ LiveFairness

------------------------------------------------------------------------------
(* The properties, under the names they have in the components; the        *)
(* invariants of NodeProxy are there already.                              *)

\* idalloc: the bitmap hands out and takes back ids as a set of ids would.
IsIdPool == Bitmap!IsIdPool

\* Reload: a call returns, although the process dies, unless the speaker is stopped.
CallsReturn == Keep!CallsReturn

\* layer2Speaker.Start, Manager.ResyncEIPSpeaker: another node takes over.
TakenOver == Ending!TakenOver

\* arpAnnouncer.Stop, ndpAnnouncer.Stop: Stop returns.
StopReturns == Arp!StopReturns

\* Manager.Start, RegisterSpeaker: one cause to end ends the process.
EndsForOneCause == Process!EndsForOneCause

\* HandleBgpPeerStatus: peers whose BgpPeer is gone are removed from the server.
StrayPeersGo == part = "stray" => Stray!StrayPeersGo

\* BgpConfReconciler: the nodes do not keep each other restarting their servers.
Settles == part = "quarrel" => Quarrel!Settles

\* reconcileNPDelete: a deleted Service with its workload goes away.
DeletionEnds == part = "undisturbed" => Undisturbed!DeletionFinishes
===============================================================================
