----------------------------- MODULE MCComponents ------------------------------
(***************************************************************************)
(* Safety of components around Ipam and SpeakerManager, for TLC, each by   *)
(* itself.  In a behaviour only the component that part names moves, so    *)
(* that the state spaces add up and do not multiply; the variables of the  *)
(* others keep their initial values.  Keepalived is extended and has its   *)
(* constants from the configuration, the others are instances.             *)
(***************************************************************************)
EXTENDS Keepalived, TLC

VARIABLES part,
          used, released, up, members, eventCh, reload, known, work, ip2mac, ops,
          registered, ipranges, answered, groups, conn, loop, target, stopping, callsLeft, faultsLeft,
          as, rack, paths, op, sets, starts, errors,
          conf, peer, seen, queue, confWork, listed, bgp, edits, refusals,
          svc, wl, pods, labelled, cSvc, cWl, cPods, news, queued, npWork, changes, failures

l2Vars == <<used, released, up, members, eventCh, reload, known, work, ip2mac, ops>>
annVars == <<registered, ipranges, answered, groups, conn, loop, target, stopping, callsLeft, faultsLeft>>
routeVars == <<as, rack, paths, op, sets, starts, errors>>
peerVars == <<conf, peer, seen, queue, confWork, listed, bgp, edits, refusals>>
npVars == <<svc, wl, pods, labelled, cSvc, cWl, cPods, news, queued, npWork, changes, failures>>

allVars == <<part, vars, l2Vars, annVars, routeVars, peerVars, npVars>>

\* A step A of the component that part p is about.
Vip(p, A) == part = p /\ A /\ UNCHANGED <<part, l2Vars, annVars, routeVars, peerVars, npVars>>
L2(p, A) == part = p /\ A /\ UNCHANGED <<part, vars, annVars, routeVars, peerVars, npVars>>
Ann(p, A) == part = p /\ A /\ UNCHANGED <<part, vars, l2Vars, routeVars, peerVars, npVars>>
Route(p, A) == part = p /\ A /\ UNCHANGED <<part, vars, l2Vars, annVars, peerVars, npVars>>
Peer(p, A) == part = p /\ A /\ UNCHANGED <<part, vars, l2Vars, annVars, routeVars, npVars>>
Np(p, A) == part = p /\ A /\ UNCHANGED <<part, vars, l2Vars, annVars, routeVars, peerVars>>

------------------------------------------------------------------------------
(* The instances.                                                          *)

\* Keepalived: one pool; the sets of nodes hash to two ids.
OnePool == [a \in Addrs |-> "e"]
HashBySize == [ns \in SUBSET Nodes |-> IF ns = Nodes THEN 1 ELSE 2]

\* Layer2: an address, and three nodes that only end, or two nodes that also come back.
Ordered == "x" :> ("n1" :> 0 @@ "n2" :> 1 @@ "n3" :> 2)
Ending == INSTANCE Layer2 WITH Nodes <- {"n1", "n2", "n3"}, Candidates <- {"n1", "n2", "n3"},
    Addrs <- {"x"}, Rank <- Ordered, Ops <- {"use", "release", "crash"}, MaxOps <- 4
Wavering == INSTANCE Layer2 WITH Nodes <- {"n1", "n2"}, Candidates <- {"n1", "n2"},
    Addrs <- {"x"}, Rank <- Ordered, Ops <- {"use", "release", "crash", "start", "suspect"}, MaxOps <- 4

\* Announcer: two Eips on an interface, one of them with two addresses.
EipOfAddr == [a \in {"x", "y", "z"} |-> IF a = "z" THEN "f" ELSE "e"]
GroupOfAddr == [a \in {"x", "y", "z"} |-> a]
Arp == INSTANCE Announcer WITH Eips <- {"e", "f"}, Addrs <- {"x", "y", "z"}, EipOf <- EipOfAddr,
    Ndp <- FALSE, Group <- GroupOfAddr, ClosedIsEOF <- FALSE, MaxCalls <- 7, MaxFaults <- 2, ip2mac <- answered
Ndp == INSTANCE Announcer WITH Eips <- {"e", "f"}, Addrs <- {"x", "y", "z"}, EipOf <- EipOfAddr,
    Ndp <- TRUE, Group <- GroupOfAddr, ClosedIsEOF <- FALSE, MaxCalls <- 7, MaxFaults <- 2, ip2mac <- answered

\* BgpRoutes: two callers on an address, three nodes in two racks.
RackOfNode == [n \in {"n1", "n2", "n3"} |-> IF n = "n3" THEN "r2" ELSE "r1"]
HopOfNode == "n1" :> 1 @@ "n2" :> 2 @@ "n3" :> 3
Routes == INSTANCE BgpRoutes WITH Addrs <- {"x"}, Nodes <- {"n1", "n2", "n3"}, Callers <- {"eip", "svc"},
    Rack <- RackOfNode, Racks <- {Nil, "r1"}, HopOf <- HopOfNode, PathId <- [h \in 1 .. 3 |-> h],
    MaxSets <- 2, MaxStarts <- 2, MaxErrors <- 1

\* BgpPeers: two nodes that both are to have the one peer; every change may happen.
Bgp == INSTANCE BgpPeers WITH Nodes <- {"n1", "n2"}, Peers <- {"p"}, Match <- [p \in {"p"} |-> {"n1", "n2"}],
    ConfTicks <- {}, PeerTicks <- {}, Running <- TRUE, Ops <- {"edit", "delete", "create", "drop", "restart"},
    MaxOps <- 2, MaxFaults <- 1, Stamps <- 2, work <- confWork, ops <- edits, faults <- refusals

\* NodeProxy: one node has an external address; users change the type.
Proxy == INSTANCE NodeProxy WITH Nodes <- {"n1", "n2"}, Ext <- {"n1"}, Int <- {"n1", "n2"},
    Ops <- {"create", "delete", "retype", "remove", "pods"}, MaxOps <- 3, MaxFaults <- 1,
    work <- npWork, ops <- changes, faults <- failures

ASSUME ConstantsOK /\ Ending!ConstantsOK /\ Ending!NoCollision /\ Wavering!ConstantsOK /\ Bgp!ConstantsOK

------------------------------------------------------------------------------
MCInit ==
    /\ part \in {"keepalived", "ending", "wavering", "arp", "ndp", "routes", "peers", "proxy"}
    /\ Init /\ Arp!Init /\ Routes!Init /\ Bgp!Init /\ Proxy!Init
    /\ IF part = "wavering" THEN Wavering!Init ELSE Ending!Init

MCNext ==
    \/ Vip("keepalived", Next)
    \/ L2("ending", Ending!Next) \/ L2("wavering", Wavering!Next)
    \/ Ann("arp", Arp!Next) \/ Ann("ndp", Ndp!Next)
    \/ Route("routes", Routes!Next) \/ Peer("peers", Bgp!Next)
    \/ Np("proxy", Proxy!Next)

MCSpec == MCInit /\ [][MCNext]_allVars

------------------------------------------------------------------------------
(* The properties, under the names they have in the components; those of   *)
(* Keepalived are there already.                                           *)

\* layer2Speaker.SetBalancer: at rest the elected node answers, and while speakers only
\* end no other node does.
ElectedAnswers ==
    /\ part = "ending" => Ending!ElectedAnswers /\ Ending!OneAnswers
    /\ part = "wavering" => Wavering!ElectedAnswers

\* UnregisterIPRange, AddAnnouncedIP: only addresses of registered Eips are answered.
AnswersOwnRanges == part \in {"arp", "ndp"} => Arp!AnswersOwnRanges

\* ndpAnnouncer.AddAnnouncedIP, DelAnnouncedIP: the groups of answered addresses are joined.
GroupsJoined == part = "ndp" => Ndp!GroupsJoined

\* setBalancer (path.go): a call that nothing interferes with leaves the wanted paths.
RoutesAsWanted == part = "routes" => Routes!RoutesAsWanted

\* setBalancer (path.go): new paths come before old ones go.
MakeBeforeBreak == Routes!MakeBeforeBreak

\* BgpConfReconciler.Reconcile: at rest a server runs the last version of the BgpConf.
ServerCurrent == part = "peers" => Bgp!ServerCurrent

\* reconfigPeers, BgpPeerReconciler.Reconcile: at rest a server has all its peers.
PeersConfigured == part = "peers" => Bgp!PeersConfigured

\* reconcileNPNormal: at rest a Service has the workload it asks for now, and no other.
RetypedOneKind == part = "proxy" => Proxy!OneKind
===============================================================================
