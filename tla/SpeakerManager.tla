---------------------------- MODULE SpeakerManager ----------------------------
(***************************************************************************)
(* The speaker manager of one node (pkg/speaker/manager.go): it keeps, for *)
(* every Eip it has handled, a copy in pools, and tells the speaker of the *)
(* Eip's protocol which addresses to announce through which nodes.  Two    *)
(* controllers of the process call it, each with one worker: the one for   *)
(* Eips (HandleEIP, ResyncEIPSpeaker) and the one for Services             *)
(* (HandleService).                                                        *)
(*                                                                         *)
(* The manager only reads the cluster.  eips, svcs and nodes are what the  *)
(* informer caches of the process show; each of them moves on by itself,   *)
(* so that the Eips may be ahead of the Services or behind.                *)
(***************************************************************************)
EXTENDS Integers, FiniteSets, Functions

CONSTANTS Eips, Svcs, Nodes, Nil,
          Size,          \* number of addresses of every pool
          Registered,    \* the protocols whose speakers are enabled
          Ops,           \* the kinds of changes in this instance
          MaxOps,        \* bound: number of changes in the cluster and restarts
          MaxFaults,     \* bound: number of failed speaker calls
          Prompt         \* what this node is in time for: to handle an Eip before it is
                         \* deleted ("known"), its deletion before it is gone ("handled"),
                         \* with no release or restart in between ("last")

Protocols == {"bgp", "layer2", "vip"}
Reload == "layer2-reload"       \* the key that stands for ResyncEIPSpeaker

Offsets == 0 .. Size - 1

Addrs == Eips \X Offsets

EipObj == [exists: BOOLEAN, deleting: BOOLEAN, protocol: Protocols, used: [Offsets -> SUBSET Svcs]]

\* eps is Nil when there is no Endpoints object.
SvcObj == [phase: {"live", "deleting", "gone"}, local: BOOLEAN, eps: (SUBSET Nodes) \cup {Nil}, ingress: Addrs \cup {Nil}]

ASSUME ConstantsAssumption ==
    /\ Size \in Nat \ {0} /\ MaxOps \in Nat /\ MaxFaults \in Nat /\ Prompt \subseteq {"known", "handled", "last"}
    /\ Registered \subseteq Protocols /\ Reload \notin Eips /\ Nil \notin Eips /\ Nil # Reload
    /\ \A obj \in EipObj : Nil # obj
    /\ \A ns \in SUBSET Nodes : Nil # ns /\ \A a \in Addrs : Nil # [addr |-> a, nodes |-> ns]
    /\ IsFiniteSet(Eips) /\ IsFiniteSet(Svcs) /\ IsFiniteSet(Nodes)

VARIABLES eips,        \* cached Eips
          svcs,        \* cached Services, each with its Endpoints
          nodes,       \* cached Nodes
          pools,       \* Manager.pools
          configured,  \* configured[p]: the Eips speaker p has been configured with
          announced,   \* announced[p][a]: the nodes speaker p announces a through
          eipq, svcq,  \* workqueues
          ew, lw,      \* the worker of each controller
          ops, faults

cluster == <<eips, svcs, nodes>>
speakers == <<configured, announced>>
vars == <<cluster, pools, speakers, eipq, svcq, ew, lw, ops, faults>>

GoneEip == [exists |-> FALSE, deleting |-> FALSE, protocol |-> "bgp", used |-> [i \in Offsets |-> {}]]

EwIdle == [key |-> Nil, obj |-> Nil, from |-> "bgp", to |-> "bgp", del |-> {}, drop |-> FALSE,
           conf |-> FALSE, set |-> <<>>, call |-> Nil]

LwIdle == [svc |-> Nil, addr |-> Nil, to |-> "bgp", call |-> Nil]

\* The map Status.Used: the addresses in use, each with its Services.
Used(e, obj) ==
    [a \in {b \in Addrs : b[1] = e /\ obj.used[b[2]] # {}} |-> obj.used[a[2]]]

------------------------------------------------------------------------------
(* The speakers, as the manager sees them: announced holds what it last    *)
(* told them.  Layer 2 ignores an address it has no configuration for, VIP *)
(* returns an error, BGP needs none.                                       *)

Knows(p, a) == p = "bgp" \/ a[1] \in configured[p]

\* A call that fails may have had its effect: VIP changes its records before
\* it writes the file and signals keepalived.  That VIP runs out of router ids and
\* loses the address (Keepalived) is left out.
Call(ok, effect) ==
    /\ ok \/ faults < MaxFaults
    /\ faults' = IF ok THEN faults ELSE faults + 1
    /\ \/ announced' = effect
       \/ ~ok /\ UNCHANGED announced

SetBalancer(p, a, ns, ok) ==
    IF p = "vip" /\ ~Knows(p, a) THEN ~ok /\ UNCHANGED <<announced, faults>>
    ELSE Call(ok, IF Knows(p, a) THEN [announced EXCEPT ![p][a] = ns] ELSE announced)

DelBalancer(p, a, ok) ==
    Call(ok, IF Knows(p, a) \/ p = "vip" THEN [announced EXCEPT ![p][a] = {}] ELSE announced)

\* ConfigureWithEIP.  A failure changes nothing; without its range a layer 2
\* announcer forgets the addresses in it.
ConfigureWithEIP(p, e, deleted, ok) ==
    IF ok
    THEN /\ configured' = [configured EXCEPT ![p] = IF deleted THEN @ \ {e} ELSE @ \cup {e}]
         /\ announced' = IF deleted /\ p = "layer2"
                         THEN [announced EXCEPT ![p] = [a \in Addrs |-> IF a[1] = e THEN {} ELSE @[a]]]
                         ELSE announced
         /\ UNCHANGED faults
    ELSE faults < MaxFaults /\ faults' = faults + 1 /\ UNCHANGED speakers

------------------------------------------------------------------------------
(* getServiceNodes, for an address with the given Services.                *)

Found(holders) == \A s \in holders : svcs[s].phase # "gone" /\ svcs[s].eps # Nil

getServiceNodes(holders) ==
    UNION {IF svcs[s].local THEN svcs[s].eps \cap nodes ELSE nodes : s \in holders}

------------------------------------------------------------------------------
(* The Eip controller.  What a reconcile still has to do is in ew: first   *)
(* withdraw the addresses in del, then take the configuration back and     *)
(* forget the pool (drop), then configure (conf), then announce the map    *)
(* set, and at last remember obj.                                          *)

\* Mutant of EwDone: an error is dropped.
EwDone_NoRequeue(failed) == ew' = EwIdle /\ UNCHANGED eipq

EwDone(failed) ==
    /\ ew' = EwIdle
    /\ eipq' = IF failed THEN eipq \cup {ew.key} ELSE eipq

\* isSpeakerConfigUpdate; the interface of an Eip is not modelled.
isSpeakerConfigUpdate(obj, old) == obj.protocol # old.protocol

\* Mutants of DiffMaps: only new addresses count, only old ones.
DiffMaps_AddOnly(old, new) == [add |-> Restrict(new, DOMAIN new \ DOMAIN old), del |-> {}]

DiffMaps_DelOnly(old, new) == [add |-> <<>>, del |-> DOMAIN old \ DOMAIN new]

\* Mutant of DiffMaps: it compares the values too.
DiffMaps_Values(old, new) ==
    [add |-> Restrict(new, DOMAIN new \ DOMAIN old),
     del |-> {a \in DOMAIN old : a \in DOMAIN new => old[a] # new[a]}]

\* DiffMaps looks at the keys only.
DiffMaps(old, new) == [add |-> Restrict(new, DOMAIN new \ DOMAIN old),
                       del |-> DOMAIN old \ DOMAIN new]

Plan(e, obj, from, del, drop, conf, set, keep) ==
    [key |-> e, obj |-> IF keep THEN obj ELSE Nil, from |-> from, to |-> obj.protocol,
     del |-> del, drop |-> drop, conf |-> conf, set |-> set, call |-> Nil]

\* Mutant of HandleEIP: after a change of the protocol nothing is taken back from the old speaker.
HandleEIP_NewOnly(e, obj) ==
    LET old == pools[e]
        used == Used(e, obj)
        diff == DiffMaps(Used(e, old), used)
    IN IF old = Nil THEN Plan(e, obj, obj.protocol, {}, FALSE, TRUE, used, TRUE)
       ELSE IF obj.deleting
       THEN Plan(e, obj, old.protocol, DOMAIN Used(e, old), TRUE, FALSE, <<>>, FALSE)
       ELSE IF isSpeakerConfigUpdate(obj, old)
       THEN Plan(e, obj, obj.protocol, {}, FALSE, FALSE, used, TRUE)
       ELSE IF used = Used(e, old) THEN EwIdle
       ELSE Plan(e, obj, obj.protocol, diff.del, FALSE, FALSE, diff.add, TRUE)

HandleEIP(e, obj) ==
    LET old == pools[e]
        used == Used(e, obj)
    IN IF old = Nil THEN Plan(e, obj, obj.protocol, {}, FALSE, TRUE, used, TRUE)
       ELSE IF obj.deleting
       THEN Plan(e, obj, old.protocol, DOMAIN Used(e, old), TRUE, FALSE, <<>>, FALSE)
       ELSE IF isSpeakerConfigUpdate(obj, old)
       THEN Plan(e, obj, old.protocol, DOMAIN Used(e, old), TRUE, TRUE, used, TRUE)
       ELSE LET diff == DiffMaps(Used(e, old), used)
            IN IF used = Used(e, old) THEN EwIdle
               ELSE Plan(e, obj, obj.protocol, diff.del, FALSE, FALSE, diff.add, TRUE)

\* A protocol without speaker is an error; an Eip that is gone is nothing to do.
ReconcileEip(e) ==
    /\ ew = EwIdle /\ e \in eipq
    /\ IF eips[e].exists /\ eips[e].protocol \notin Registered
       THEN UNCHANGED <<eipq, ew>>
       ELSE /\ eipq' = eipq \ {e}
            /\ ew' = IF eips[e].exists THEN HandleEIP(e, eips[e]) ELSE EwIdle
    /\ UNCHANGED <<cluster, pools, speakers, svcq, lw, ops, faults>>

\* ResyncEIPSpeaker: announce what the cached layer 2 Eips use.
ResyncEIPSpeaker ==
    /\ ew = EwIdle /\ Reload \in eipq
    /\ eipq' = eipq \ {Reload}
    /\ LET as == {a \in Addrs : eips[a[1]].exists /\ eips[a[1]].protocol = "layer2"
                                /\ eips[a[1]].used[a[2]] # {}}
       IN ew' = [EwIdle EXCEPT !.key = Reload, !.to = "layer2",
                               !.set = [a \in as |-> eips[a[1]].used[a[2]]]]
    /\ UNCHANGED <<cluster, pools, speakers, svcq, lw, ops, faults>>

\* delBalancer, one address.
EwDelBalancer(a) ==
    /\ a \in ew.del
    /\ \E ok \in BOOLEAN :
         /\ DelBalancer(ew.from, a, ok)
         /\ IF ok THEN ew' = [ew EXCEPT !.del = @ \ {a}] /\ UNCHANGED eipq ELSE EwDone(TRUE)
    /\ UNCHANGED <<cluster, pools, configured, svcq, lw, ops>>

\* The rest of delBalancerWithEIP, and delete(m.pools, ...).
EwUnconfigure ==
    /\ ew.del = {} /\ ew.drop
    /\ \E ok \in BOOLEAN :
         /\ ConfigureWithEIP(ew.from, ew.key, TRUE, ok)
         /\ pools' = IF ok THEN [pools EXCEPT ![ew.key] = Nil] ELSE pools
         /\ IF ok THEN ew' = [ew EXCEPT !.drop = FALSE] /\ UNCHANGED eipq ELSE EwDone(TRUE)
    /\ UNCHANGED <<cluster, svcq, lw, ops>>

\* The first part of setBalancerWithEIP.
EwConfigure ==
    /\ ew.del = {} /\ ~ew.drop /\ ew.conf
    /\ \E ok \in BOOLEAN :
         /\ ConfigureWithEIP(ew.to, ew.key, FALSE, ok)
         /\ IF ok THEN ew' = [ew EXCEPT !.conf = FALSE] /\ UNCHANGED eipq ELSE EwDone(TRUE)
    /\ UNCHANGED <<cluster, pools, svcq, lw, ops>>

Announcing == ew.key # Nil /\ ew.del = {} /\ ~ew.drop /\ ~ew.conf

\* An error for one address ends setBalancer; ResyncEIPSpeaker goes on with
\* the next Eip, HandleEIP returns it.
EwSetFailed(a) ==
    IF ew.key = Reload
    THEN /\ ew' = [ew EXCEPT !.set = Restrict(@, {b \in DOMAIN @ : b[1] # a[1]}), !.call = Nil]
         /\ UNCHANGED eipq
    ELSE EwDone(TRUE)

\* setBalancer, one address: find the nodes; without any, go on with the next.
EwGetNodes(a) ==
    /\ Announcing /\ ew.call = Nil /\ a \in DOMAIN ew.set
    /\ LET holders == ew.set[a]
           ns == getServiceNodes(holders)
       IN IF ~Found(holders) THEN EwSetFailed(a)
          ELSE /\ ew' = [ew EXCEPT !.call = IF ns = {} THEN Nil ELSE [addr |-> a, nodes |-> ns],
                                   !.set = Restrict(@, DOMAIN @ \ {a})]
               /\ UNCHANGED eipq
    /\ UNCHANGED <<cluster, pools, speakers, svcq, lw, ops, faults>>

\* setBalancer, one address: tell the speaker.
EwSetBalancer ==
    /\ Announcing /\ ew.call # Nil
    /\ \E ok \in BOOLEAN :
         /\ SetBalancer(ew.to, ew.call.addr, ew.call.nodes, ok)
         /\ IF ok THEN ew' = [ew EXCEPT !.call = Nil] /\ UNCHANGED eipq
            ELSE EwSetFailed(ew.call.addr)
    /\ UNCHANGED <<cluster, pools, configured, svcq, lw, ops>>

EwFinish ==
    /\ Announcing /\ ew.call = Nil /\ DOMAIN ew.set = {}
    /\ pools' = IF ew.obj = Nil THEN pools ELSE [pools EXCEPT ![ew.key] = ew.obj]
    /\ EwDone(FALSE)
    /\ UNCHANGED <<cluster, speakers, svcq, lw, ops, faults>>

------------------------------------------------------------------------------
(* The Service controller.  The label of a Service, which names its pool,  *)
(* is the pool of the address it shows.                                    *)

LwDone(failed) ==
    /\ lw' = LwIdle
    /\ svcq' = IF failed THEN svcq \cup {lw.svc} ELSE svcq

HandleService(s) ==
    /\ lw = LwIdle /\ s \in svcq
    /\ LET a == svcs[s].ingress
           skip == \/ svcs[s].phase # "live" \/ a = Nil
                   \/ pools[a[1]] = Nil \/ pools[a[1]].used[a[2]] = {s}
           holders == pools[a[1]].used[a[2]] \cup {s}
           ns == getServiceNodes(holders)
       IN IF skip THEN svcq' = svcq \ {s} /\ UNCHANGED lw
          ELSE IF ~Found(holders) THEN UNCHANGED <<svcq, lw>>
          ELSE /\ svcq' = svcq \ {s}
               /\ lw' = IF ns = {} THEN LwIdle
                        ELSE [svc |-> s, addr |-> a, to |-> pools[a[1]].protocol, call |-> ns]
    /\ UNCHANGED <<cluster, pools, speakers, eipq, ew, ops, faults>>

LwSetBalancer ==
    /\ lw # LwIdle
    /\ \E ok \in BOOLEAN : SetBalancer(lw.to, lw.addr, lw.call, ok) /\ LwDone(~ok)
    /\ UNCHANGED <<cluster, pools, configured, eipq, ew, ops>>

------------------------------------------------------------------------------
(* The cluster, as the caches show it.  Every change of an Eip is an event *)
(* of the Eip controller.  The Service controller only sees a change of    *)
(* the traffic policy, and the Endpoints of a Service whose policy is      *)
(* Local; it does not see that an address was assigned, or a Node.         *)

Op(kind) == kind \in Ops /\ ops < MaxOps /\ ops' = ops + 1

ProcessUnchanged == UNCHANGED <<pools, speakers, ew, lw, faults>>

EipEvent(e, obj) ==
    /\ eips' = [eips EXCEPT ![e] = obj]
    /\ eipq' = eipq \cup {e}
    /\ UNCHANGED <<svcs, nodes, svcq>> /\ ProcessUnchanged

\* The allocator records Services under addresses; a Service has one at most.
Record(e, i, s) ==
    /\ Op("record")
    /\ eips[e].exists /\ ~eips[e].deleting /\ svcs[s].phase = "live"
    /\ \A a \in Addrs : s \notin eips[a[1]].used[a[2]]
    /\ EipEvent(e, [eips[e] EXCEPT !.used[i] = @ \cup {s}])

Release(e, i, s) ==
    /\ Op("release")
    /\ s \in eips[e].used[i] /\ ("last" \in Prompt => ~eips[e].deleting)
    /\ EipEvent(e, [eips[e] EXCEPT !.used[i] = @ \ {s}])

CreateEip(e, p) ==
    /\ Op("create") /\ ~eips[e].exists
    /\ EipEvent(e, [GoneEip EXCEPT !.exists = TRUE, !.protocol = p])

SetProtocol(e, p) ==
    /\ Op("protocol") /\ eips[e].exists /\ ~eips[e].deleting /\ eips[e].protocol # p
    /\ EipEvent(e, [eips[e] EXCEPT !.protocol = p])

DeleteEip(e) ==
    /\ Op("delete") /\ eips[e].exists /\ ~eips[e].deleting
    /\ "known" \in Prompt => pools[e] # Nil /\ ew.key # e
    /\ EipEvent(e, [eips[e] EXCEPT !.deleting = TRUE])

\* The allocator takes its finalizer off; the speakers have none.
EipGone(e) ==
    /\ eips[e].exists /\ eips[e].deleting
    /\ "handled" \in Prompt => e \notin eipq /\ ew.key # e
    /\ EipEvent(e, GoneEip) /\ UNCHANGED ops

\* A Service shows an address, or none.
ShowIngress(s, a) ==
    /\ Op("ingress") /\ svcs[s].phase # "gone" /\ svcs[s].ingress # a
    /\ svcs' = [svcs EXCEPT ![s].ingress = a]
    /\ UNCHANGED <<eips, nodes, eipq, svcq>> /\ ProcessUnchanged

SetEndpoints(s, ns) ==
    /\ Op("endpoints") /\ svcs[s].eps # ns
    /\ svcs' = [svcs EXCEPT ![s].eps = ns]
    /\ svcq' = IF svcs[s].phase # "gone" /\ svcs[s].local THEN svcq \cup {s} ELSE svcq
    /\ UNCHANGED <<eips, nodes, eipq>> /\ ProcessUnchanged

SetPolicy(s) ==
    /\ Op("policy") /\ svcs[s].phase # "gone"
    /\ svcs' = [svcs EXCEPT ![s].local = ~@]
    /\ svcq' = svcq \cup {s}
    /\ UNCHANGED <<eips, nodes, eipq>> /\ ProcessUnchanged

\* A Service with a finalizer goes in two steps.
RemoveService(s) ==
    /\ Op("remove") /\ svcs[s].phase # "gone"
    /\ svcs' = [svcs EXCEPT ![s].phase = IF @ = "live" THEN "deleting" ELSE "gone"]
    /\ UNCHANGED <<eips, nodes, eipq, svcq>> /\ ProcessUnchanged

ChangeNode(n) ==
    /\ Op("node")
    /\ nodes' = IF n \in nodes THEN nodes \ {n} ELSE nodes \cup {n}
    /\ UNCHANGED <<eips, svcs, eipq, svcq>> /\ ProcessUnchanged

\* The layer 2 speaker saw a member come or go.
MemberEvent ==
    /\ Op("member") /\ "layer2" \in Registered
    /\ eipq' = eipq \cup {Reload}
    /\ UNCHANGED <<cluster, svcq>> /\ ProcessUnchanged

\* The process starts again: the first list of each cache is an event for
\* every Eip and, as shouldReconcileEP asks, for the Endpoints of Local Services.
Restart ==
    /\ Op("restart") /\ ("last" \in Prompt => \A e \in Eips : ~eips[e].deleting)
    /\ pools' = [e \in Eips |-> Nil]
    /\ configured' = [p \in Protocols |-> {}]
    /\ announced' = [p \in Protocols |-> [a \in Addrs |-> {}]]
    /\ eipq' = {e \in Eips : eips[e].exists}
    /\ svcq' = {s \in Svcs : svcs[s].phase # "gone" /\ svcs[s].local /\ svcs[s].eps # Nil}
    /\ ew' = EwIdle /\ lw' = LwIdle
    /\ UNCHANGED <<cluster, faults>>

------------------------------------------------------------------------------
FirstEips == {[GoneEip EXCEPT !.exists = TRUE, !.protocol = p] : p \in Registered}

FirstSvcs ==
    {svc \in SvcObj :
       /\ svc.phase = "live" /\ svc.ingress = Nil
       /\ svc.local => Ops \cap {"policy", "endpoints"} # {}
       /\ svc.eps = Nodes \/ (svc.eps = {} /\ "endpoints" \in Ops)}

Init ==
    /\ eips \in [Eips -> FirstEips] /\ svcs \in [Svcs -> FirstSvcs]
    /\ nodes = Nodes
    /\ pools = [e \in Eips |-> Nil]
    /\ configured = [p \in Protocols |-> {}]
    /\ announced = [p \in Protocols |-> [a \in Addrs |-> {}]]
    /\ eipq = Eips /\ svcq = {}
    /\ ew = EwIdle /\ lw = LwIdle
    /\ ops = 0 /\ faults = 0

EipWorker ==
    \/ \E e \in Eips : ReconcileEip(e)
    \/ ResyncEIPSpeaker
    \/ \E a \in Addrs : (EwDelBalancer(a) \/ EwGetNodes(a))
    \/ EwUnconfigure \/ EwConfigure \/ EwSetBalancer \/ EwFinish

SvcWorker == (\E s \in Svcs : HandleService(s)) \/ LwSetBalancer

Environment ==
    \/ \E e \in Eips, i \in Offsets, s \in Svcs : Record(e, i, s) \/ Release(e, i, s)
    \/ \E e \in Eips, p \in Protocols : CreateEip(e, p) \/ SetProtocol(e, p)
    \/ \E e \in Eips : DeleteEip(e) \/ EipGone(e)
    \/ \E s \in Svcs, a \in Addrs \cup {Nil} : ShowIngress(s, a)
    \/ \E s \in Svcs, ns \in (SUBSET Nodes) \cup {Nil} : SetEndpoints(s, ns)
    \/ \E s \in Svcs : SetPolicy(s) \/ RemoveService(s)
    \/ \E n \in Nodes : ChangeNode(n)
    \/ MemberEvent \/ Restart

Next == EipWorker \/ SvcWorker \/ Environment

Spec == Init /\ [][Next]_vars

\* Both workers keep running; what happens in the cluster is up to it.
FairSpec == Spec /\ WF_vars(EipWorker) /\ WF_vars(SvcWorker)

------------------------------------------------------------------------------
(* Properties.                                                             *)

TypeOK ==
    /\ eips \in [Eips -> EipObj] /\ svcs \in [Svcs -> SvcObj] /\ nodes \subseteq Nodes
    /\ pools \in [Eips -> EipObj \cup {Nil}]
    /\ configured \in [Protocols -> SUBSET Eips]
    /\ announced \in [Protocols -> [Addrs -> SUBSET Nodes]]
    /\ eipq \subseteq Eips \cup {Reload} /\ svcq \subseteq Svcs
    /\ ops \in 0 .. MaxOps /\ faults \in 0 .. MaxFaults

Quiet == eipq = {} /\ svcq = {} /\ ew = EwIdle /\ lw = LwIdle

Holders(a) == eips[a[1]].used[a[2]]

\* The caches of the Services and of the Eips agree.
ShownRecorded == \A s \in Svcs : svcs[s].ingress # Nil => s \in Holders(svcs[s].ingress)

Live(e) == eips[e].exists /\ ~eips[e].deleting

\* HandleEIP: when both workers are at rest, every address a live Eip has in
\* use, and for which there are nodes, has been given to the speaker of the
\* Eip's protocol, whatever the order of changes, reloads and restarts.
UsedAnnounced ==
    Quiet => \A a \in Addrs :
      (Live(a[1]) /\ Holders(a) # {} /\ Found(Holders(a)) /\ getServiceNodes(Holders(a)) # {})
        => announced[eips[a[1]].protocol][a] # {}

\* HandleEIP, delBalancer: at rest, what a speaker announces is an address in
\* use of a live Eip with that protocol; released addresses, deleted Eips and
\* left protocols are withdrawn.
AnnouncedUsed ==
    Quiet /\ ShownRecorded => \A p \in Protocols, a \in Addrs :
      announced[p][a] # {} => Live(a[1]) /\ eips[a[1]].protocol = p /\ Holders(a) # {}

\* HandleEIP withdraws from the old speaker before it turns to the new one:
\* at no time do two speakers of the node announce the same address.
OneSpeaker ==
    \A a \in Addrs : \A p, q \in {r \in Protocols : announced[r][a] # {}} : p = q

\* A speaker stops announcing an address in this step only because the address was
\* released, its Eip deleted or moved to another protocol, or because another
\* reconcile is due that sees the address in use.
Withdrawal ==
    \A p \in Protocols, a \in Addrs :
      (announced[p][a] # {} /\ announced'[p][a] = {})
        => \/ ~Live(a[1]) \/ eips[a[1]].protocol # p \/ Holders(a) = {}
           \/ a[1] \in eipq'

\* delBalancer: announcements end for these causes alone; the events of nodes, endpoints,
\* members and of the other Services of a shared address never end one.
WithdrawnForCause == [][Withdrawal]_vars

\* getServiceNodes: at rest an address in use is announced through exactly
\* the nodes its Services are reached by.
NextHopsCurrent ==
    Quiet => \A a \in Addrs :
      (Live(a[1]) /\ Holders(a) # {} /\ Found(Holders(a)))
        => announced[eips[a[1]].protocol][a] = getServiceNodes(Holders(a))

\* HandleEIP with the retries of the workqueue: an address that stays in use
\* is announced at last, although speaker calls fail and the process restarts.
EventuallyAnnounced ==
    \A a \in Addrs :
      []<>(\/ Holders(a) = {} \/ ~Live(a[1])
           \/ announced[eips[a[1]].protocol][a] # {})
===============================================================================
