------------------------- MODULE SpeakerManagerProofs --------------------------
(***************************************************************************)
(* The speaker manager keeps its types, and stops announcing an address    *)
(* only for a cause, whatever call fails.  While no call fails it has no   *)
(* address announced by two speakers, and at rest it has announced what is *)
(* used and nothing else.  All of it for every number of Eips, addresses,  *)
(* Services, nodes and changes.                                            *)
(***************************************************************************)
EXTENDS SpeakerManager, TLAPS

Maps == UNION {[D -> SUBSET Svcs] : D \in SUBSET Addrs}

EwRecord == [key: Eips \cup {Nil, Reload}, obj: EipObj \cup {Nil}, from: Protocols, to: Protocols,
             del: SUBSET Addrs, drop: BOOLEAN, conf: BOOLEAN, set: Maps,
             call: [addr: Addrs, nodes: SUBSET Nodes] \cup {Nil}]

\* The worker of the Eip controller; only with an Eip has it to withdraw or to configure.
EwTyped(w) ==
    /\ w \in EwRecord
    /\ w.drop \/ w.conf \/ w.obj # Nil \/ w.del # {} => w.key \in Eips

LwTyped(w) == w = LwIdle \/ (w.svc \in Svcs /\ w.addr \in Addrs /\ w.to \in Protocols /\ w.call \subseteq Nodes)

Typed == TypeOK /\ EwTyped(ew) /\ LwTyped(lw)

------------------------------------------------------------------------------
(* Operators.                                                              *)

\* What a map is.
LEMMA MapFacts ==
  /\ \A f \in Maps : DOMAIN f \subseteq Addrs /\ \A a \in DOMAIN f : f[a] \subseteq Svcs
  /\ \A D \in SUBSET Addrs : \A f \in [D -> SUBSET Svcs] : f \in Maps
  /\ <<>> \in Maps
<1>1. <<>> \in [{} -> SUBSET Svcs]
  OBVIOUS
<1>2. \A f \in Maps : \E D \in SUBSET Addrs : f \in [D -> SUBSET Svcs]
  BY Zenon DEF Maps
<1>3. \A D \in SUBSET Addrs : \A f \in [D -> SUBSET Svcs] : f \in Maps
  BY Zenon DEF Maps
<1>4. ASSUME NEW f \in Maps PROVE DOMAIN f \subseteq Addrs /\ \A a \in DOMAIN f : f[a] \subseteq Svcs
  <2>1. PICK D \in SUBSET Addrs : f \in [D -> SUBSET Svcs]
    BY <1>2, Zenon
  <2>. QED
    BY <2>1, Zenon
<1>5. <<>> \in Maps
  BY <1>1, <1>3, Zenon
<1>. QED
  BY <1>3, <1>4, <1>5, Zenon

\* Used is a map of addresses of the Eip to Services.
LEMMA UsedMap ==
  ASSUME NEW e \in Eips, NEW obj \in EipObj
  PROVE  /\ Used(e, obj) \in Maps
         /\ \A a \in DOMAIN Used(e, obj) : a \in Addrs /\ a[1] = e
<1>. DEFINE D == {b \in Addrs : b[1] = e /\ obj.used[b[2]] # {}}
<1>1. obj.used \in [Offsets -> SUBSET Svcs]
  BY Zenon DEF EipObj
<1>2. \A a \in Addrs : a[2] \in Offsets
  BY Zenon DEF Addrs
<1>3. Used(e, obj) \in [D -> SUBSET Svcs] /\ DOMAIN Used(e, obj) = D
  BY <1>1, <1>2, Zenon DEF Used
<1>. QED
  BY <1>3, MapFacts, Zenon

\* A part of a map is a map.
LEMMA RestrictMap ==
  ASSUME NEW f \in Maps, NEW S \in SUBSET DOMAIN f
  PROVE  Restrict(f, S) \in Maps /\ DOMAIN Restrict(f, S) = S
<1>1. S \in SUBSET Addrs /\ \A a \in S : f[a] \subseteq Svcs
  BY MapFacts, Zenon
<1>2. Restrict(f, S) \in [S -> SUBSET Svcs] /\ DOMAIN Restrict(f, S) = S
  BY <1>1, Zenon DEF Restrict
<1>. QED
  BY <1>1, <1>2, MapFacts, Zenon

\* The idle worker is typed.
LEMMA IdleTyped == EwTyped(EwIdle)
  BY MapFacts, Zenon DEF EwTyped, EwRecord, EwIdle, Protocols

\* getServiceNodes gives nodes.
LEMMA NodesTyped ==
  ASSUME TypeOK, NEW holders \in SUBSET Svcs
  PROVE  getServiceNodes(holders) \subseteq Nodes
BY Zenon DEF TypeOK, getServiceNodes

\* What HandleEIP plans is typed.
LEMMA PlanTyped ==
  ASSUME TypeOK, NEW e \in Eips, NEW obj \in EipObj
  PROVE  EwTyped(HandleEIP(e, obj))
<1>. DEFINE old == pools[e]
            used == Used(e, obj)
            diff == DiffMaps(Used(e, old), used)
<1>1. ASSUME NEW from \in Protocols, NEW del \in SUBSET Addrs, NEW drop \in BOOLEAN, NEW conf \in BOOLEAN,
             NEW set \in Maps, NEW keep \in BOOLEAN
      PROVE  EwTyped(Plan(e, obj, from, del, drop, conf, set, keep))
  <2>1. obj.protocol \in Protocols
    BY Zenon DEF EipObj
  <2>. QED
    BY <1>1, <2>1, Zenon DEF EwTyped, EwRecord, Plan
<1>2. obj.protocol \in Protocols /\ used \in Maps
  BY UsedMap, Zenon DEF EipObj
<1>3. <<>> \in Maps
  BY MapFacts, Zenon
<1>4. CASE old = Nil
  BY <1>1, <1>2, <1>4, Zenon DEF HandleEIP
<1>5. CASE old # Nil
  <2>1. old \in EipObj /\ old.protocol \in Protocols
    BY <1>5, Zenon DEF TypeOK, EipObj
  <2>2. Used(e, old) \in Maps /\ DOMAIN Used(e, old) \in SUBSET Addrs
    BY <2>1, UsedMap, MapFacts, Zenon
  <2>3. diff.del \in SUBSET Addrs
    BY <2>2, Zenon DEF DiffMaps
  <2>4. diff.add \in Maps
    BY <1>2, RestrictMap, Zenon DEF DiffMaps
  <2>. HIDE DEF used, diff
  <2>5. HandleEIP(e, obj) \in
          {Plan(e, obj, old.protocol, DOMAIN Used(e, old), TRUE, FALSE, <<>>, FALSE),
           Plan(e, obj, old.protocol, DOMAIN Used(e, old), TRUE, TRUE, used, TRUE),
           EwIdle, Plan(e, obj, obj.protocol, diff.del, FALSE, FALSE, diff.add, TRUE)}
    BY <1>5, Zenon DEF HandleEIP, used, diff
  <2>. QED
    BY <1>1, <1>2, <1>3, <2>1, <2>2, <2>3, <2>4, <2>5, IdleTyped, ZenonT(30)
<1>. QED
  BY <1>4, <1>5, Zenon

------------------------------------------------------------------------------
(* Types.                                                                  *)

Announcements == [Protocols -> [Addrs -> SUBSET Nodes]]

SpeakersTyped ==
    configured \in [Protocols -> SUBSET Eips] /\ announced \in Announcements /\ faults \in 0 .. MaxFaults

\* A call changes the announcements of one speaker, and counts as a fault when it fails.
LEMMA CallTyped ==
  ASSUME SpeakersTyped, NEW ok \in BOOLEAN, NEW effect \in Announcements, Call(ok, effect)
  PROVE  announced' \in Announcements /\ faults' \in 0 .. MaxFaults
<1>1. MaxFaults \in Nat /\ faults \in 0 .. MaxFaults
  BY ConstantsAssumption, Zenon DEF SpeakersTyped
<1>2. announced' \in Announcements
  BY Zenon DEF Call, SpeakersTyped
<1>3. CASE ok
  BY <1>1, <1>2, <1>3, Zenon DEF Call
<1>4. CASE ~ok
  <2>1. faults < MaxFaults /\ faults' = faults + 1
    BY <1>4, Zenon DEF Call
  <2>. QED
    BY <1>1, <1>2, <2>1
<1>. QED
  BY <1>3, <1>4, Zenon

\* SetBalancer and DelBalancer keep the types of the speakers.
LEMMA BalancerTyped ==
  ASSUME SpeakersTyped, NEW p \in Protocols, NEW a \in Addrs, NEW ns \in SUBSET Nodes, NEW ok \in BOOLEAN,
         SetBalancer(p, a, ns, ok) \/ DelBalancer(p, a, ok)
  PROVE  announced' \in Announcements /\ faults' \in 0 .. MaxFaults
<1>. DEFINE set == [announced EXCEPT ![p][a] = ns]
            del == [announced EXCEPT ![p][a] = {}]
<1>1. set \in Announcements /\ del \in Announcements /\ announced \in Announcements
  BY Zenon DEF SpeakersTyped, Announcements
<1>. HIDE DEF set, del
<1>2. \/ announced' = announced /\ faults' = faults
      \/ Call(ok, set) \/ Call(ok, del) \/ Call(ok, announced)
  BY Zenon DEF SetBalancer, DelBalancer, set, del
<1>. QED
  BY <1>1, <1>2, CallTyped, Zenon DEF SpeakersTyped

\* ConfigureWithEIP keeps the types of the speakers.
LEMMA ConfigureTyped ==
  ASSUME SpeakersTyped, NEW p \in Protocols, NEW e \in Eips, NEW deleted \in BOOLEAN, NEW ok \in BOOLEAN,
         ConfigureWithEIP(p, e, deleted, ok)
  PROVE  SpeakersTyped'
<1>1. CASE ok
  <2>1. configured' \in [Protocols -> SUBSET Eips] /\ faults' = faults
    BY <1>1, ZenonT(30) DEF ConfigureWithEIP, SpeakersTyped
  <2>. DEFINE forget == [announced EXCEPT ![p] = [a \in Addrs |-> IF a[1] = e THEN {} ELSE @[a]]]
  <2>2. forget \in Announcements
    BY Zenon DEF SpeakersTyped, Announcements
  <2>. HIDE DEF forget
  <2>3. announced' \in {announced, forget}
    BY <1>1, Zenon DEF ConfigureWithEIP, forget
  <2>. QED
    BY <2>1, <2>2, <2>3, Zenon DEF SpeakersTyped
<1>2. CASE ~ok
  <2>1. faults < MaxFaults /\ faults' = faults + 1 /\ configured' = configured /\ announced' = announced
    BY <1>2, Zenon DEF ConfigureWithEIP, speakers
  <2>2. MaxFaults \in Nat /\ faults \in 0 .. MaxFaults
    BY ConstantsAssumption, Zenon DEF SpeakersTyped
  <2>3. faults' \in 0 .. MaxFaults
    BY <2>1, <2>2, SMTT(30)
  <2>. QED
    BY <2>1, <2>3, Zenon DEF SpeakersTyped
<1>. QED
  BY <1>1, <1>2, Zenon

\* What the worker of the Eip controller may become.
LEMMA EwSteps ==
  ASSUME EwTyped(ew)
  PROVE  /\ \A a \in Addrs : EwTyped([ew EXCEPT !.del = @ \ {a}])
         /\ EwTyped([ew EXCEPT !.drop = FALSE]) /\ EwTyped([ew EXCEPT !.conf = FALSE])
         /\ EwTyped([ew EXCEPT !.call = Nil])
         /\ \A S \in SUBSET DOMAIN ew.set :
              /\ EwTyped([ew EXCEPT !.set = Restrict(@, S), !.call = Nil])
              /\ EwTyped([ew EXCEPT !.call = Nil, !.set = Restrict(@, S)])
              /\ \A a \in Addrs, ns \in SUBSET Nodes :
                   EwTyped([ew EXCEPT !.call = [addr |-> a, nodes |-> ns], !.set = Restrict(@, S)])
<1>1. /\ \A a \in Addrs : EwTyped([ew EXCEPT !.del = @ \ {a}])
      /\ EwTyped([ew EXCEPT !.drop = FALSE]) /\ EwTyped([ew EXCEPT !.conf = FALSE])
      /\ EwTyped([ew EXCEPT !.call = Nil])
  BY Zenon DEF EwTyped, EwRecord
<1>2. ASSUME NEW S \in SUBSET DOMAIN ew.set
      PROVE  /\ EwTyped([ew EXCEPT !.set = Restrict(@, S), !.call = Nil])
             /\ EwTyped([ew EXCEPT !.call = Nil, !.set = Restrict(@, S)])
             /\ \A a \in Addrs, ns \in SUBSET Nodes :
                  EwTyped([ew EXCEPT !.call = [addr |-> a, nodes |-> ns], !.set = Restrict(@, S)])
  <2>. DEFINE r == Restrict(ew.set, S)
  <2>1. r \in Maps
    BY RestrictMap, Zenon DEF EwTyped, EwRecord
  <2>. HIDE DEF r
  <2>2. EwTyped([ew EXCEPT !.set = r, !.call = Nil]) /\ EwTyped([ew EXCEPT !.call = Nil, !.set = r])
    BY <2>1, Zenon DEF EwTyped, EwRecord
  <2>3. ASSUME NEW a \in Addrs, NEW ns \in SUBSET Nodes
        PROVE  EwTyped([ew EXCEPT !.call = [addr |-> a, nodes |-> ns], !.set = r])
    BY <2>1, Zenon DEF EwTyped, EwRecord
  <2>. QED
    BY <2>2, <2>3, Zenon DEF r
<1>. QED
  BY <1>1, <1>2, Zenon

\* What a step of either worker leaves alone.
ClusterKept == eips' = eips /\ svcs' = svcs /\ nodes' = nodes /\ ops' = ops

\* Steps of the worker of the Eip controller keep the types.
LEMMA EipWorkerTyped == ASSUME Typed, EipWorker PROVE Typed'
<1>. USE DEF Typed
<1>1. /\ SpeakersTyped /\ ClusterKept /\ svcq' = svcq /\ lw' = lw
      /\ eipq \subseteq Eips \cup {Reload} /\ pools \in [Eips -> EipObj \cup {Nil}] /\ EwTyped(EwIdle)
  BY IdleTyped, Zenon DEF EipWorker, ReconcileEip, ResyncEIPSpeaker, EwDelBalancer, EwGetNodes, EwUnconfigure,
       EwConfigure, EwSetBalancer, EwFinish, ClusterKept, cluster, TypeOK, SpeakersTyped, Announcements
<1>2. ASSUME SpeakersTyped', EwTyped(ew'), pools' \in [Eips -> EipObj \cup {Nil}],
             eipq' \subseteq Eips \cup {Reload}
      PROVE  Typed'
  BY <1>1, <1>2, Zenon DEF TypeOK, ClusterKept, SpeakersTyped, Announcements
<1>3. ASSUME UNCHANGED <<speakers, faults>> PROVE SpeakersTyped'
  BY <1>1, <1>3, Zenon DEF SpeakersTyped, speakers
<1>4. ASSUME NEW failed \in BOOLEAN, EwDone(failed), failed => ew.key \in Eips \cup {Reload}
      PROVE  EwTyped(ew') /\ eipq' \subseteq Eips \cup {Reload}
  BY <1>1, <1>4, Zenon DEF EwDone
<1>5. ASSUME NEW e \in Eips, ReconcileEip(e) PROVE Typed'
  <2>1. eips[e] \in EipObj
    BY Zenon DEF TypeOK
  <2>2. EwTyped(HandleEIP(e, eips[e]))
    BY <2>1, PlanTyped, Zenon
  <2>3. EwTyped(ew') /\ eipq' \subseteq Eips \cup {Reload} /\ pools' = pools /\ UNCHANGED <<speakers, faults>>
    BY <1>1, <1>5, <2>2, Zenon DEF ReconcileEip
  <2>. QED
    BY <1>1, <1>2, <1>3, <2>3, Zenon
<1>6. CASE ResyncEIPSpeaker
  <2>. DEFINE as == {a \in Addrs : eips[a[1]].exists /\ eips[a[1]].protocol = "layer2"
                                  /\ eips[a[1]].used[a[2]] # {}}
              m == [a \in as |-> eips[a[1]].used[a[2]]]
  <2>1. m \in Maps
    <3>1. \A a \in Addrs : a[1] \in Eips /\ a[2] \in Offsets
      BY Zenon DEF Addrs
    <3>2. \A a \in Addrs : eips[a[1]].used[a[2]] \subseteq Svcs
      BY <3>1 DEF TypeOK, EipObj
    <3>3. m \in [as -> SUBSET Svcs]
      BY <3>2, Zenon
    <3>. QED
      BY <3>3, MapFacts, Zenon
  <2>. HIDE DEF m
  <2>2. EwTyped([EwIdle EXCEPT !.key = Reload, !.to = "layer2", !.set = m])
    BY <1>1, <2>1, ZenonT(30) DEF EwTyped, EwRecord, EwIdle, Protocols
  <2>3. ew' = [EwIdle EXCEPT !.key = Reload, !.to = "layer2", !.set = m] /\ eipq' = eipq \ {Reload}
        /\ pools' = pools /\ UNCHANGED <<speakers, faults>>
    BY <1>6, Zenon DEF ResyncEIPSpeaker, m
  <2>. QED
    BY <1>1, <1>2, <1>3, <2>2, <2>3, Zenon
<1>7. ASSUME NEW a \in Addrs, EwDelBalancer(a) PROVE Typed'
  <2>1. PICK ok \in BOOLEAN : /\ DelBalancer(ew.from, a, ok)
                              /\ IF ok THEN ew' = [ew EXCEPT !.del = @ \ {a}] /\ UNCHANGED eipq ELSE EwDone(TRUE)
    BY <1>7, Zenon DEF EwDelBalancer
  <2>2. ew.key \in Eips /\ ew.from \in Protocols /\ configured' = configured /\ pools' = pools
    BY <1>7, Zenon DEF EwDelBalancer, EwTyped, EwRecord
  <2>3. SpeakersTyped'
    BY <1>1, <2>1, <2>2, BalancerTyped, Zenon DEF SpeakersTyped
  <2>. QED
    BY <1>1, <1>2, <1>4, <2>1, <2>2, <2>3, EwSteps, Zenon
<1>8. CASE EwUnconfigure
  <2>1. PICK ok \in BOOLEAN :
          /\ ConfigureWithEIP(ew.from, ew.key, TRUE, ok)
          /\ pools' = IF ok THEN [pools EXCEPT ![ew.key] = Nil] ELSE pools
          /\ IF ok THEN ew' = [ew EXCEPT !.drop = FALSE] /\ UNCHANGED eipq ELSE EwDone(TRUE)
    BY <1>8, Zenon DEF EwUnconfigure
  <2>2. ew.key \in Eips /\ ew.from \in Protocols
    BY <1>8, Zenon DEF EwUnconfigure, EwTyped, EwRecord
  <2>3. SpeakersTyped'
    BY <1>1, <2>1, <2>2, ConfigureTyped, Zenon
  <2>4. pools' \in [Eips -> EipObj \cup {Nil}]
    BY <1>1, <2>1, <2>2, Zenon
  <2>. QED
    BY <1>1, <1>2, <1>4, <2>1, <2>2, <2>3, <2>4, EwSteps, Zenon
<1>9. CASE EwConfigure
  <2>1. PICK ok \in BOOLEAN :
          /\ ConfigureWithEIP(ew.to, ew.key, FALSE, ok)
          /\ IF ok THEN ew' = [ew EXCEPT !.conf = FALSE] /\ UNCHANGED eipq ELSE EwDone(TRUE)
    BY <1>9, Zenon DEF EwConfigure
  <2>2. ew.key \in Eips /\ ew.to \in Protocols /\ pools' = pools
    BY <1>9, Zenon DEF EwConfigure, EwTyped, EwRecord
  <2>3. SpeakersTyped'
    BY <1>1, <2>1, <2>2, ConfigureTyped, Zenon
  <2>. QED
    BY <1>1, <1>2, <1>4, <2>1, <2>2, <2>3, EwSteps, Zenon
<1>10. ASSUME NEW a \in Addrs, Announcing, EwSetFailed(a) PROVE EwTyped(ew') /\ eipq' \subseteq Eips \cup {Reload}
  <2>1. ew.key \in Eips \cup {Reload}
    BY <1>10, SMTT(30) DEF Announcing, EwTyped, EwRecord
  <2>2. CASE ew.key = Reload
    <3>1. {b \in DOMAIN ew.set : b[1] # a[1]} \in SUBSET DOMAIN ew.set
      OBVIOUS
    <3>. QED
      BY <1>1, <1>10, <2>2, <3>1, EwSteps, Zenon DEF EwSetFailed
  <2>3. CASE ew.key # Reload
    BY <1>4, <1>10, <2>1, <2>3, Zenon DEF EwSetFailed
  <2>. QED
    BY <2>2, <2>3, Zenon
<1>11. ASSUME NEW a \in Addrs, EwGetNodes(a) PROVE Typed'
  <2>. DEFINE holders == ew.set[a]
              ns == getServiceNodes(holders)
  <2>1. a \in DOMAIN ew.set /\ Announcing /\ pools' = pools /\ UNCHANGED <<speakers, faults>>
    BY <1>11, Zenon DEF EwGetNodes
  <2>2. holders \in SUBSET Svcs
    BY <2>1, MapFacts, Zenon DEF EwTyped, EwRecord
  <2>3. ns \in SUBSET Nodes
    BY <2>2, NodesTyped, Zenon
  <2>4. DOMAIN ew.set \ {a} \in SUBSET DOMAIN ew.set
    OBVIOUS
  <2>. HIDE DEF ns, holders
  <2>5. \/ EwSetFailed(a)
        \/ /\ \/ ew' = [ew EXCEPT !.call = Nil, !.set = Restrict(@, DOMAIN ew.set \ {a})]
              \/ ew' = [ew EXCEPT !.call = [addr |-> a, nodes |-> ns], !.set = Restrict(@, DOMAIN ew.set \ {a})]
           /\ eipq' = eipq
    BY <1>11, Zenon DEF EwGetNodes, ns, holders
  <2>6. /\ EwTyped([ew EXCEPT !.call = Nil, !.set = Restrict(@, DOMAIN ew.set \ {a})])
        /\ EwTyped([ew EXCEPT !.call = [addr |-> a, nodes |-> ns], !.set = Restrict(@, DOMAIN ew.set \ {a})])
    BY <2>3, <2>4, EwSteps, Zenon
  <2>7. EwTyped(ew') /\ eipq' \subseteq Eips \cup {Reload}
    BY <1>1, <1>10, <2>1, <2>5, <2>6, SMTT(30)
  <2>. QED
    BY <1>1, <1>2, <1>3, <2>1, <2>7, Zenon
<1>12. CASE EwSetBalancer
  <2>1. PICK ok \in BOOLEAN :
          /\ SetBalancer(ew.to, ew.call.addr, ew.call.nodes, ok)
          /\ IF ok THEN ew' = [ew EXCEPT !.call = Nil] /\ UNCHANGED eipq ELSE EwSetFailed(ew.call.addr)
    BY <1>12, Zenon DEF EwSetBalancer
  <2>2. /\ ew.call.addr \in Addrs /\ ew.call.nodes \in SUBSET Nodes /\ ew.to \in Protocols
        /\ Announcing /\ configured' = configured /\ pools' = pools
    BY <1>12, Zenon DEF EwSetBalancer, EwTyped, EwRecord
  <2>3. SpeakersTyped'
    BY <1>1, <2>1, <2>2, BalancerTyped, Zenon DEF SpeakersTyped
  <2>. QED
    BY <1>1, <1>2, <1>10, <2>1, <2>2, <2>3, EwSteps, Zenon
<1>13. CASE EwFinish
  <2>1. ew.obj # Nil => ew.obj \in EipObj /\ ew.key \in Eips
    BY Zenon DEF EwTyped, EwRecord
  <2>2. pools' \in [Eips -> EipObj \cup {Nil}] /\ UNCHANGED <<speakers, faults>> /\ EwDone(FALSE)
    BY <1>1, <1>13, <2>1, Zenon DEF EwFinish
  <2>. QED
    BY <1>1, <1>2, <1>3, <1>4, <2>2, Zenon
<1>. QED
  BY <1>5, <1>6, <1>7, <1>8, <1>9, <1>11, <1>12, <1>13, SMTT(30) DEF EipWorker

\* Steps of the worker of the Service controller keep the types.
LEMMA SvcWorkerTyped == ASSUME Typed, SvcWorker PROVE Typed'
<1>. USE DEF Typed
<1>1. /\ SpeakersTyped /\ ClusterKept /\ eipq' = eipq /\ ew' = ew /\ pools' = pools /\ svcq \subseteq Svcs
  BY Zenon DEF SvcWorker, HandleService, LwSetBalancer, ClusterKept, cluster, TypeOK, SpeakersTyped, Announcements
<1>2. ASSUME SpeakersTyped', LwTyped(lw'), svcq' \subseteq Svcs PROVE Typed'
  BY <1>1, <1>2, SMTT(30) DEF TypeOK, ClusterKept, SpeakersTyped, Announcements
<1>3. ASSUME NEW s \in Svcs, HandleService(s) PROVE Typed'
  <2>. DEFINE a == svcs[s].ingress
              holders == pools[a[1]].used[a[2]] \cup {s}
              ns == getServiceNodes(holders)
              call == [svc |-> s, addr |-> a, to |-> pools[a[1]].protocol, call |-> ns]
  <2>1. SpeakersTyped'
    BY <1>1, <1>3, Zenon DEF HandleService, SpeakersTyped, speakers
  <2>2. /\ svcq' \subseteq Svcs
        /\ lw' \in {lw, LwIdle} \/ (lw' = call /\ a # Nil /\ pools[a[1]] # Nil)
    BY <1>1, <1>3, Zenon DEF HandleService
  <2>3. ASSUME a # Nil, pools[a[1]] # Nil PROVE LwTyped(call)
    <3>1. a \in Addrs /\ a[1] \in Eips /\ a[2] \in Offsets
      BY <2>3, Zenon DEF TypeOK, SvcObj, Addrs
    <3>2. pools[a[1]] \in EipObj
      BY <2>3, <3>1, ZenonT(30) DEF TypeOK
    <3>3. holders \in SUBSET Svcs /\ pools[a[1]].protocol \in Protocols
      BY <3>1, <3>2, SMTT(30) DEF EipObj
    <3>4. ns \subseteq Nodes
      BY <3>3, NodesTyped, Zenon
    <3>. QED
      BY <3>1, <3>3, <3>4, Zenon DEF LwTyped
  <2>. QED
    BY <1>2, <2>1, <2>2, <2>3, ZenonT(40) DEF LwTyped
<1>4. CASE LwSetBalancer
  <2>1. PICK ok \in BOOLEAN : SetBalancer(lw.to, lw.addr, lw.call, ok) /\ LwDone(~ok)
    BY <1>4, Zenon DEF LwSetBalancer
  <2>2. lw.svc \in Svcs /\ lw.addr \in Addrs /\ lw.to \in Protocols /\ lw.call \in SUBSET Nodes /\ configured' = configured
    BY <1>4, Zenon DEF LwSetBalancer, LwTyped
  <2>3. SpeakersTyped'
    BY <1>1, <2>1, <2>2, BalancerTyped, Zenon DEF SpeakersTyped
  <2>4. LwTyped(lw') /\ svcq' \subseteq Svcs
    BY <1>1, <2>1, <2>2, Zenon DEF LwDone, LwTyped
  <2>. QED
    BY <1>2, <2>3, <2>4, Zenon
<1>. QED
  BY <1>3, <1>4, Zenon DEF SvcWorker

\* What the cluster does keeps the types.
LEMMA EnvironmentTyped == ASSUME Typed, Environment PROVE Typed'
<1>. USE DEF Typed
<1>1. \A kind : Op(kind) => ops' \in 0 .. MaxOps
  BY ConstantsAssumption DEF Op, TypeOK
<1>2. ASSUME ProcessUnchanged, ops' \in 0 .. MaxOps, eips' \in [Eips -> EipObj], svcs' \in [Svcs -> SvcObj],
             nodes' \subseteq Nodes, eipq' \subseteq Eips \cup {Reload}, svcq' \subseteq Svcs
      PROVE  Typed'
  BY <1>2, Zenon DEF TypeOK, ProcessUnchanged, speakers
<1>3. ASSUME NEW e \in Eips, NEW obj \in EipObj, EipEvent(e, obj), ops' \in 0 .. MaxOps
      PROVE  Typed'
  <2>1. eips' \in [Eips -> EipObj] /\ eipq' \subseteq Eips \cup {Reload}
    BY <1>3, Zenon DEF EipEvent, TypeOK
  <2>2. svcs' \in [Svcs -> SvcObj] /\ nodes' \subseteq Nodes /\ svcq' \subseteq Svcs
    BY <1>3, Zenon DEF EipEvent, TypeOK
  <2>. QED
    BY <1>2, <1>3, <2>1, <2>2, Zenon DEF EipEvent
<1>4. GoneEip \in EipObj /\ \A p \in Protocols : [GoneEip EXCEPT !.exists = TRUE, !.protocol = p] \in EipObj
  BY Zenon DEF GoneEip, EipObj, Protocols
<1>5. ASSUME NEW e \in Eips
      PROVE  /\ \A i \in Offsets, s \in Svcs : /\ [eips[e] EXCEPT !.used[i] = @ \cup {s}] \in EipObj
                                               /\ [eips[e] EXCEPT !.used[i] = @ \ {s}] \in EipObj
             /\ \A p \in Protocols : [eips[e] EXCEPT !.protocol = p] \in EipObj
             /\ [eips[e] EXCEPT !.deleting = TRUE] \in EipObj
  <2>1. eips[e] \in EipObj
    BY Zenon DEF TypeOK
  <2>. QED
    BY <2>1, Zenon DEF EipObj
<1>6. ASSUME NEW e \in Eips, NEW i \in Offsets, NEW s \in Svcs, Record(e, i, s) \/ Release(e, i, s) PROVE Typed'
  BY <1>1, <1>3, <1>5, <1>6, ZenonT(40) DEF Record, Release
<1>7. ASSUME NEW e \in Eips, NEW p \in Protocols, CreateEip(e, p) \/ SetProtocol(e, p) PROVE Typed'
  BY <1>1, <1>3, <1>4, <1>5, <1>7, Zenon DEF CreateEip, SetProtocol
<1>8. ASSUME NEW e \in Eips, DeleteEip(e) \/ EipGone(e) PROVE Typed'
  BY <1>1, <1>3, <1>4, <1>5, <1>8, Zenon DEF DeleteEip, EipGone, TypeOK
<1>9. ASSUME NEW s \in Svcs
      PROVE  /\ \A a \in Addrs \cup {Nil} : [svcs EXCEPT ![s].ingress = a] \in [Svcs -> SvcObj]
             /\ \A ns \in (SUBSET Nodes) \cup {Nil} : [svcs EXCEPT ![s].eps = ns] \in [Svcs -> SvcObj]
             /\ [svcs EXCEPT ![s].local = ~@] \in [Svcs -> SvcObj]
             /\ [svcs EXCEPT ![s].phase = IF @ = "live" THEN "deleting" ELSE "gone"] \in [Svcs -> SvcObj]
  <2>1. svcs \in [Svcs -> SvcObj] /\ svcs[s] \in SvcObj
    BY Zenon DEF TypeOK
  <2>2. /\ \A a \in Addrs \cup {Nil} : [svcs[s] EXCEPT !.ingress = a] \in SvcObj
        /\ \A ns \in (SUBSET Nodes) \cup {Nil} : [svcs[s] EXCEPT !.eps = ns] \in SvcObj
        /\ [svcs[s] EXCEPT !.local = ~@] \in SvcObj
        /\ [svcs[s] EXCEPT !.phase = IF @ = "live" THEN "deleting" ELSE "gone"] \in SvcObj
    BY <2>1, Zenon DEF SvcObj
  <2>. QED
    BY <2>1, <2>2, Zenon
<1>10. ASSUME NEW s \in Svcs, NEW a \in Addrs \cup {Nil}, ShowIngress(s, a) PROVE Typed'
  BY <1>1, <1>2, <1>9, <1>10, Zenon DEF ShowIngress, TypeOK
<1>11. ASSUME NEW s \in Svcs, NEW ns \in (SUBSET Nodes) \cup {Nil}, SetEndpoints(s, ns) PROVE Typed'
  BY <1>1, <1>2, <1>9, <1>11, Zenon DEF SetEndpoints, TypeOK
<1>12. ASSUME NEW s \in Svcs, SetPolicy(s) \/ RemoveService(s) PROVE Typed'
  BY <1>1, <1>2, <1>9, <1>12, ZenonT(40) DEF SetPolicy, RemoveService, TypeOK
<1>13. ASSUME NEW n \in Nodes, ChangeNode(n) PROVE Typed'
  BY <1>1, <1>2, <1>13, Zenon DEF ChangeNode, TypeOK
<1>14. CASE MemberEvent
  BY <1>1, <1>2, <1>14, Zenon DEF MemberEvent, TypeOK, cluster
<1>15. CASE Restart
  <2>1. /\ pools' \in [Eips -> EipObj \cup {Nil}] /\ configured' \in [Protocols -> SUBSET Eips]
        /\ announced' \in [Protocols -> [Addrs -> SUBSET Nodes]]
    BY <1>15, Zenon DEF Restart
  <2>2. eipq' \subseteq Eips \cup {Reload} /\ svcq' \subseteq Svcs /\ ops' \in 0 .. MaxOps
    BY <1>1, <1>15, Zenon DEF Restart
  <2>3. EwTyped(ew') /\ LwTyped(lw') /\ UNCHANGED <<eips, svcs, nodes, faults>>
    BY <1>15, IdleTyped, Zenon DEF Restart, LwTyped, cluster
  <2>. QED
    BY <2>1, <2>2, <2>3, Zenon DEF TypeOK
<1>. QED
  BY <1>6, <1>7, <1>8, <1>10, <1>11, <1>12, <1>13, <1>14, <1>15, Zenon DEF Environment

\* The first states are typed.
LEMMA InitTyped == ASSUME Init PROVE Typed
<1>1. eips \in [Eips -> EipObj]
  <2>1. FirstEips \subseteq EipObj
    BY ConstantsAssumption, ZenonT(30) DEF FirstEips, GoneEip, EipObj
  <2>. QED
    BY <2>1, Zenon DEF Init
<1>2. svcs \in [Svcs -> SvcObj]
  <2>1. FirstSvcs \subseteq SvcObj
    BY Zenon DEF FirstSvcs
  <2>. QED
    BY <2>1, Zenon DEF Init
<1>3. pools \in [Eips -> EipObj \cup {Nil}] /\ announced \in [Protocols -> [Addrs -> SUBSET Nodes]]
      /\ configured \in [Protocols -> SUBSET Eips]
  BY Zenon DEF Init
<1>4. nodes \subseteq Nodes /\ eipq \subseteq Eips \cup {Reload} /\ svcq \subseteq Svcs
      /\ ops = 0 /\ faults = 0 /\ lw = LwIdle /\ ew = EwIdle
  BY Zenon DEF Init
<1>5. 0 \in 0 .. MaxOps /\ 0 \in 0 .. MaxFaults
  BY ConstantsAssumption
<1>6. LwTyped(lw) /\ EwTyped(ew)
  BY <1>4, IdleTyped, Zenon DEF LwTyped
<1>. QED
  BY <1>1, <1>2, <1>3, <1>4, <1>5, <1>6, Zenon DEF Typed, TypeOK

\* Nothing changes the types.
LEMMA NextTyped == Typed /\ [Next]_vars => Typed'
<1>1. ASSUME Typed, UNCHANGED vars PROVE Typed'
  BY <1>1, Zenon DEF vars, cluster, speakers, Typed, TypeOK
<1>. QED
  BY <1>1, EipWorkerTyped, SvcWorkerTyped, EnvironmentTyped, Zenon DEF Next

\* The manager keeps its types: its workers only ever hold Eips, addresses, Services and
\* nodes of the cluster, through failing calls, restarts and every change of the cluster.
THEOREM ManagerTyped == Spec => []TypeOK
<1>1. Spec => []Typed
  BY InitTyped, NextTyped, PTL DEF Spec
<1>2. Typed => TypeOK
  BY Zenon DEF Typed
<1>. QED
  BY <1>1, <1>2, PTL

------------------------------------------------------------------------------
(* Causes.  Every change of an Eip puts it in the queue: what pools holds  *)
(* of an Eip that is not in the queue, or what the worker is about to make *)
(* of it, is what the cache shows.  No assumption about failures, reloads  *)
(* or the order of changes is needed for that.                             *)

\* obj has the protocol and the addresses in use of Eip e in the cache.
Same(e, obj) == obj # Nil /\ obj.protocol = eips[e].protocol /\ Used(e, obj) = Used(e, eips[e])

\* The worker is at e for what the cache shows, and withdraws from another speaker or what is
\* not in use; or pools has what the cache shows.
Current(e) ==
    IF ew.key = e
    THEN /\ Same(e, ew.obj)
         /\ ew.drop => ew.from # ew.obj.protocol
         /\ \A a \in ew.del : ew.from # ew.obj.protocol \/ a \notin DOMAIN Used(e, ew.obj)
    ELSE Same(e, pools[e])

\* What a worker is about to tell a speaker names nodes.
Telling ==
    /\ ew.call # Nil => ew.call.nodes # {}
    /\ lw # LwIdle => lw.call # {}

Fresh ==
    /\ \A e \in Eips : Live(e) /\ e \notin eipq => Current(e)
    /\ \A a \in ew.del : a[1] = ew.key

\* The worker goes on with its Eip; pools changes for that Eip at most.
LEMMA GoesOn ==
  ASSUME Fresh, eips' = eips, eipq \subseteq eipq', ew'.key = ew.key, ew'.obj = ew.obj, ew'.from = ew.from,
         ew'.del \subseteq ew.del, ew'.drop => ew.drop, \A e \in Eips : e # ew.key => pools'[e] = pools[e]
  PROVE  Fresh'
BY DEF Fresh, Live, Current, Same

\* The worker is done with its Eip, of which pools has what it was at, or it puts it back.
LEMMA IsDone ==
  ASSUME Typed, Fresh, eips' = eips, eipq \subseteq eipq', ew' = EwIdle,
         \A e \in Eips : e # ew.key => pools'[e] = pools[e],
         ew.key \in Eips => ew.key \in eipq' \/ ew.obj = Nil \/ pools'[ew.key] = ew.obj
  PROVE  Fresh'
<1>1. ew'.key = Nil /\ ew'.del = {} /\ Nil \notin Eips
  BY ConstantsAssumption, Zenon DEF EwIdle
<1>2. ASSUME NEW e \in Eips, Live(e), e \notin eipq' PROVE Current(e)'
  <2>1. Current(e) /\ e # Nil
    BY <1>1, <1>2, Zenon DEF Fresh
  <2>2. CASE ew.key = e
    BY <1>1, <1>2, <2>1, <2>2, Zenon DEF Current, Same
  <2>3. CASE ew.key # e
    BY <1>1, <2>1, <2>3, Zenon DEF Current, Same
  <2>. QED
    BY <2>2, <2>3, Zenon
<1>. QED
  BY <1>1, <1>2, Zenon DEF Fresh, Live

\* HandleEIP starts from what the cache shows.
LEMMA ReconcileFresh ==
  ASSUME Typed, Fresh, NEW e \in Eips, ReconcileEip(e)
  PROVE  Fresh'
<1>1. eips' = eips /\ pools' = pools /\ ew.key = Nil /\ eips[e] \in EipObj /\ e # Nil /\ Nil \notin Eips
  BY ConstantsAssumption, Zenon DEF ReconcileEip, cluster, EwIdle, Typed, TypeOK
<1>2. CASE eipq' = eipq /\ ew' = ew
  BY <1>1, <1>2, Zenon DEF Fresh, Live, Current, Same
<1>3. CASE eipq' = eipq \ {e} /\ ~eips[e].exists /\ ew' = EwIdle
  BY <1>1, <1>3, Zenon DEF Fresh, Live, Current, Same, EwIdle
<1>4. CASE eipq' = eipq \ {e} /\ ew' = HandleEIP(e, eips[e])
  <2>. DEFINE obj == eips[e]
              old == pools[e]
              used == Used(e, obj)
              diff == DiffMaps(Used(e, old), used)
  <2>1. obj # Nil /\ \A a \in DOMAIN used : a[1] = e
    BY <1>1, UsedMap, ConstantsAssumption, Zenon
  <2>2. old # Nil => \A a \in DOMAIN Used(e, old) : a[1] = e
    BY UsedMap, ZenonT(30) DEF Typed, TypeOK
  <2>3. diff.del = DOMAIN Used(e, old) \ DOMAIN used
    BY Zenon DEF DiffMaps
  <2>. HIDE DEF obj, old, used, diff
  <2>4. \/ ew' = Plan(e, obj, obj.protocol, {}, FALSE, TRUE, used, TRUE)
        \/ obj.deleting /\ old # Nil /\ ew' = Plan(e, obj, old.protocol, DOMAIN Used(e, old), TRUE, FALSE, <<>>, FALSE)
        \/ /\ old # Nil /\ obj.protocol # old.protocol
           /\ ew' = Plan(e, obj, old.protocol, DOMAIN Used(e, old), TRUE, TRUE, used, TRUE)
        \/ old # Nil /\ obj.protocol = old.protocol /\ used = Used(e, old) /\ ew' = EwIdle
        \/ old # Nil /\ ew' = Plan(e, obj, obj.protocol, diff.del, FALSE, FALSE, diff.add, TRUE)
    BY <1>4, Zenon DEF HandleEIP, isSpeakerConfigUpdate, obj, old, used, diff
  <2>5. Live(e)' => Current(e)'
    BY <1>1, <2>1, <2>3, <2>4, SMTT(30) DEF Live, Current, Same, Plan, EwIdle, obj, old, used
  <2>6. ew'.key \in {e, Nil} /\ \A a \in ew'.del : a[1] = ew'.key
    BY <2>2, <2>3, <2>4, SMTT(30) DEF Plan, EwIdle
  <2>7. ASSUME NEW f \in Eips, f # e, Live(f)', f \notin eipq' PROVE Current(f)'
    <3>1. Current(f) /\ f # ew.key
      BY <1>1, <1>4, <2>7, Zenon DEF Fresh, Live
    <3>. QED
      BY <1>1, <2>6, <2>7, <3>1, Zenon DEF Current, Same
  <2>. QED
    BY <2>5, <2>6, <2>7, Zenon DEF Fresh
<1>. QED
  BY <1>2, <1>3, <1>4, Zenon DEF ReconcileEip

\* The worker only has to withdraw, configure or announce for an Eip, or for a reload.
LEMMA WorkerKey ==
  ASSUME Typed
  PROVE  /\ ew.drop \/ ew.conf \/ ew.del # {} => ew.key \in Eips
         /\ Announcing => ew.key \in Eips \cup {Reload}
BY Zenon DEF Typed, EwTyped, EwRecord, Announcing

\* Steps of the worker of the Eip controller keep Fresh.
LEMMA WorkerFresh == ASSUME Typed, Fresh, EipWorker PROVE Fresh'
<1>1. ew \in EwRecord /\ eips' = eips /\ Reload \notin Eips /\ Nil \notin Eips
  <2>1. eips' = eips
    BY Zenon DEF EipWorker, ReconcileEip, ResyncEIPSpeaker, EwDelBalancer, EwGetNodes, EwUnconfigure,
         EwConfigure, EwSetBalancer, EwFinish, cluster
  <2>. QED
    BY <2>1, ConstantsAssumption, Zenon DEF Typed, EwTyped
<1>2. ASSUME EwDone(TRUE), pools' = pools PROVE Fresh'
  BY <1>1, <1>2, IsDone, Zenon DEF EwDone
<1>3. ASSUME NEW a, EwSetFailed(a), pools' = pools PROVE Fresh'
  <2>1. CASE ew.key = Reload
    <3>. DEFINE S == {b \in DOMAIN ew.set : b[1] # a[1]}
    <3>1. ew' = [ew EXCEPT !.set = Restrict(@, S), !.call = Nil] /\ eipq' = eipq
      BY <1>3, <2>1, Zenon DEF EwSetFailed
    <3>. HIDE DEF S
    <3>2. /\ ew'.key = ew.key /\ ew'.obj = ew.obj /\ ew'.from = ew.from /\ ew'.del = ew.del
          /\ ew'.drop = ew.drop
      BY <1>1, <3>1, Zenon DEF EwRecord
    <3>. QED
      BY <1>1, <1>3, <3>1, <3>2, GoesOn, Zenon
  <2>. QED
    BY <1>2, <1>3, <2>1, Zenon DEF EwSetFailed
<1>4. CASE ResyncEIPSpeaker
  <2>1. ew.key = Nil /\ ew'.key = Reload /\ ew'.del = {} /\ eipq' = eipq \ {Reload} /\ pools' = pools
    BY <1>4, Zenon DEF ResyncEIPSpeaker, EwIdle
  <2>. QED
    BY <1>1, <2>1, Zenon DEF Fresh, Live, Current, Same
<1>5. ASSUME NEW a \in Addrs, EwDelBalancer(a) PROVE Fresh'
  <2>1. (ew' = [ew EXCEPT !.del = @ \ {a}] /\ eipq' = eipq) \/ EwDone(TRUE)
    BY <1>5, Zenon DEF EwDelBalancer
  <2>2. pools' = pools
    BY <1>5, Zenon DEF EwDelBalancer
  <2>3. CASE ew' = [ew EXCEPT !.del = @ \ {a}] /\ eipq' = eipq
    <3>1. /\ ew'.key = ew.key /\ ew'.obj = ew.obj /\ ew'.from = ew.from /\ ew'.del \subseteq ew.del
          /\ ew'.drop = ew.drop
      BY <1>1, <2>3, Zenon DEF EwRecord
    <3>. QED
      BY <1>1, <2>2, <2>3, <3>1, GoesOn, Zenon
  <2>. QED
    BY <1>2, <2>1, <2>2, <2>3, Zenon
<1>6. CASE EwUnconfigure
  <2>1. \/ /\ ew' = [ew EXCEPT !.drop = FALSE] /\ eipq' = eipq
           /\ pools' = [pools EXCEPT ![ew.key] = Nil]
        \/ EwDone(TRUE) /\ pools' = pools
    BY <1>6, Zenon DEF EwUnconfigure
  <2>2. CASE /\ ew' = [ew EXCEPT !.drop = FALSE] /\ eipq' = eipq
             /\ pools' = [pools EXCEPT ![ew.key] = Nil]
    <3>1. /\ ew'.key = ew.key /\ ew'.obj = ew.obj /\ ew'.from = ew.from /\ ew'.del = ew.del
          /\ ~ew'.drop
      BY <1>1, <2>2, Zenon DEF EwRecord
    <3>2. \A e \in Eips : e # ew.key => pools'[e] = pools[e]
      BY <2>2, Zenon DEF Typed, TypeOK
    <3>. QED
      BY <1>1, <2>2, <3>1, <3>2, GoesOn, Zenon
  <2>. QED
    BY <1>2, <2>1, <2>2, Zenon
<1>7. CASE EwConfigure
  <2>1. (ew' = [ew EXCEPT !.conf = FALSE] /\ eipq' = eipq) \/ EwDone(TRUE)
    BY <1>7, Zenon DEF EwConfigure
  <2>2. pools' = pools
    BY <1>7, Zenon DEF EwConfigure
  <2>3. CASE ew' = [ew EXCEPT !.conf = FALSE] /\ eipq' = eipq
    <3>1. /\ ew'.key = ew.key /\ ew'.obj = ew.obj /\ ew'.from = ew.from /\ ew'.del = ew.del
          /\ ew'.drop = ew.drop
      BY <1>1, <2>3, Zenon DEF EwRecord
    <3>. QED
      BY <1>1, <2>2, <2>3, <3>1, GoesOn, Zenon
  <2>. QED
    BY <1>2, <2>1, <2>2, <2>3, Zenon
<1>8. ASSUME NEW a \in Addrs, EwGetNodes(a) PROVE Fresh'
  <2>. DEFINE call == IF getServiceNodes(ew.set[a]) = {} THEN Nil
                      ELSE [addr |-> a, nodes |-> getServiceNodes(ew.set[a])]
              set == Restrict(ew.set, DOMAIN ew.set \ {a})
  <2>1. (ew' = [ew EXCEPT !.call = call, !.set = set] /\ eipq' = eipq) \/ EwSetFailed(a)
    BY <1>8, Zenon DEF EwGetNodes
  <2>2. pools' = pools
    BY <1>8, Zenon DEF EwGetNodes
  <2>. HIDE DEF call, set
  <2>3. CASE ew' = [ew EXCEPT !.call = call, !.set = set] /\ eipq' = eipq
    <3>1. /\ ew'.key = ew.key /\ ew'.obj = ew.obj /\ ew'.from = ew.from /\ ew'.del = ew.del
          /\ ew'.drop = ew.drop
      BY <1>1, <2>3, Zenon DEF EwRecord
    <3>. QED
      BY <1>1, <2>2, <2>3, <3>1, GoesOn, Zenon
  <2>. QED
    BY <1>3, <2>1, <2>2, <2>3, Zenon
<1>9. CASE EwSetBalancer
  <2>1. (ew' = [ew EXCEPT !.call = Nil] /\ eipq' = eipq) \/ EwSetFailed(ew.call.addr)
    BY <1>9, Zenon DEF EwSetBalancer
  <2>2. pools' = pools
    BY <1>9, Zenon DEF EwSetBalancer
  <2>3. CASE ew' = [ew EXCEPT !.call = Nil] /\ eipq' = eipq
    <3>1. /\ ew'.key = ew.key /\ ew'.obj = ew.obj /\ ew'.from = ew.from /\ ew'.del = ew.del
          /\ ew'.drop = ew.drop
      BY <1>1, <2>3, Zenon DEF EwRecord
    <3>. QED
      BY <1>1, <2>2, <2>3, <3>1, GoesOn, Zenon
  <2>. QED
    BY <1>3, <2>1, <2>2, <2>3, Zenon
<1>10. CASE EwFinish
  <2>1. pools' = (IF ew.obj = Nil THEN pools ELSE [pools EXCEPT ![ew.key] = ew.obj]) /\ ew' = EwIdle /\ eipq' = eipq
    BY <1>10, Zenon DEF EwFinish, EwDone
  <2>2. /\ \A e \in Eips : e # ew.key => pools'[e] = pools[e]
        /\ ew.key \in Eips => ew.obj = Nil \/ pools'[ew.key] = ew.obj
    BY <2>1, Zenon DEF Typed, TypeOK
  <2>. QED
    BY <1>1, <2>1, <2>2, IsDone, Zenon
<1>. QED
  BY <1>4, <1>5, <1>6, <1>7, <1>8, <1>9, <1>10, ReconcileFresh, Zenon DEF EipWorker

\* What the cluster does to an Eip puts it in the queue; a new process begins with all of them.
LEMMA EnvironmentFresh == ASSUME Typed, Fresh, Environment PROVE Fresh'
<1>1. ASSUME NEW e \in Eips, NEW obj, EipEvent(e, obj) PROVE Fresh'
  <2>1. /\ \A f \in Eips : f # e => eips'[f] = eips[f]
        /\ eipq' = eipq \cup {e} /\ pools' = pools /\ ew' = ew
    BY <1>1, Zenon DEF EipEvent, ProcessUnchanged, Typed, TypeOK
  <2>. QED
    BY <2>1 DEF Fresh, Live, Current, Same
<1>2. ASSUME eips' = eips, eipq \subseteq eipq', pools' = pools, ew' = ew PROVE Fresh'
  BY <1>2, Zenon DEF Fresh, Live, Current, Same
<1>3. CASE Restart
  BY <1>3, Zenon DEF Restart, cluster, Fresh, Live, EwIdle
<1>4. ASSUME NEW e \in Eips, NEW i \in Offsets, NEW s \in Svcs, Record(e, i, s) \/ Release(e, i, s) PROVE Fresh'
  BY <1>1, <1>4, Zenon DEF Record, Release
<1>5. ASSUME NEW e \in Eips, NEW p \in Protocols, CreateEip(e, p) \/ SetProtocol(e, p) PROVE Fresh'
  BY <1>1, <1>5, Zenon DEF CreateEip, SetProtocol
<1>6. ASSUME NEW e \in Eips, DeleteEip(e) \/ EipGone(e) PROVE Fresh'
  BY <1>1, <1>6, SMTT(30) DEF DeleteEip, EipGone
<1>7. ASSUME NEW s \in Svcs, SetPolicy(s) \/ RemoveService(s) PROVE Fresh'
  BY <1>2, <1>7, Zenon DEF SetPolicy, RemoveService, ProcessUnchanged
<1>8. ASSUME NEW s \in Svcs, NEW x, ShowIngress(s, x) \/ SetEndpoints(s, x) PROVE Fresh'
  BY <1>2, <1>8, Zenon DEF ShowIngress, SetEndpoints, ProcessUnchanged
<1>9. ASSUME NEW n \in Nodes, ChangeNode(n) PROVE Fresh'
  BY <1>2, <1>9, Zenon DEF ChangeNode, ProcessUnchanged
<1>10. CASE MemberEvent
  BY <1>2, <1>10, Zenon DEF MemberEvent, ProcessUnchanged, cluster
<1>. QED
  BY <1>3, <1>4, <1>5, <1>6, <1>7, <1>8, <1>9, <1>10, ZenonT(30) DEF Environment

\* SetBalancer and DelBalancer change what one speaker announces of one address.
LEMMA BalancerEffect ==
  ASSUME Typed, NEW p \in Protocols, NEW a \in Addrs, NEW ns, NEW ok \in BOOLEAN, NEW q \in Protocols, NEW b \in Addrs
  PROVE  /\ SetBalancer(p, a, ns, ok) => announced'[q][b] = announced[q][b] \/ announced'[q][b] = ns
         /\ DelBalancer(p, a, ok) => announced'[q][b] = announced[q][b] \/ (q = p /\ b = a)
<1>1. announced \in [Protocols -> [Addrs -> SUBSET Nodes]]
  BY Zenon DEF Typed, TypeOK
<1>2. /\ SetBalancer(p, a, ns, ok) => announced' \in {announced, [announced EXCEPT ![p][a] = ns]}
      /\ DelBalancer(p, a, ok) => announced' \in {announced, [announced EXCEPT ![p][a] = {}]}
  BY Zenon DEF SetBalancer, DelBalancer, Call
<1>. QED
  BY <1>1, <1>2

\* setBalancer leaves out an address without nodes, as the Service controller does.
LEMMA TellingKept == ASSUME Typed, Telling, Next PROVE Telling'
<1>1. ew \in EwRecord
  BY Zenon DEF Typed, EwTyped
<1>2. ASSUME ew'.call \in {ew.call, Nil}, lw' = lw \/ lw' = LwIdle PROVE Telling'
  BY <1>2, Zenon DEF Telling
<1>3. EwIdle.call = Nil /\ (EwDone(TRUE) \/ EwDone(FALSE) => ew'.call = Nil)
  BY DEF EwIdle, EwDone
<1>4. ASSUME NEW e \in Eips, ReconcileEip(e) PROVE Telling'
  <2>1. ew'.call = Nil \/ ew' = ew
    BY <1>3, <1>4 DEF ReconcileEip, HandleEIP, Plan
  <2>. QED
    BY <1>2, <1>4, <2>1, ZenonT(30) DEF ReconcileEip
<1>5. ASSUME NEW a, EwSetFailed(a) PROVE ew'.call = Nil
  BY <1>1, <1>3, <1>5, Zenon DEF EwSetFailed, EwRecord
<1>6. CASE EipWorker
  <2>1. lw' = lw
    BY <1>6, Zenon DEF EipWorker, ReconcileEip, ResyncEIPSpeaker, EwDelBalancer, EwGetNodes, EwUnconfigure,
         EwConfigure, EwSetBalancer, EwFinish
  <2>2. CASE ResyncEIPSpeaker
    BY <1>2, <2>1, <2>2, Zenon DEF ResyncEIPSpeaker, EwIdle
  <2>3. ASSUME NEW a \in Addrs, EwDelBalancer(a) PROVE Telling'
    BY <1>1, <1>2, <1>3, <2>1, <2>3, Zenon DEF EwDelBalancer, EwRecord
  <2>4. CASE EwUnconfigure \/ EwConfigure
    BY <1>1, <1>2, <1>3, <2>1, <2>4, Zenon DEF EwUnconfigure, EwConfigure, EwRecord
  <2>5. ASSUME NEW a \in Addrs, EwGetNodes(a) PROVE Telling'
    <3>. DEFINE ns == getServiceNodes(ew.set[a])
                set == Restrict(ew.set, DOMAIN ew.set \ {a})
    <3>1. \/ EwSetFailed(a)
          \/ ew' = [ew EXCEPT !.call = IF ns = {} THEN Nil ELSE [addr |-> a, nodes |-> ns], !.set = set]
      BY <2>5, Zenon DEF EwGetNodes
    <3>. HIDE DEF ns, set
    <3>2. ew'.call = Nil \/ (ns # {} /\ ew'.call = [addr |-> a, nodes |-> ns])
      BY <1>1, <1>5, <3>1, Zenon DEF EwRecord
    <3>. QED
      BY <2>1, <3>2 DEF Telling
  <2>6. CASE EwSetBalancer
    BY <1>1, <1>2, <1>5, <2>1, <2>6, Zenon DEF EwSetBalancer, EwRecord
  <2>7. CASE EwFinish
    BY <1>2, <1>3, <2>1, <2>7, Zenon DEF EwFinish
  <2>. QED
    BY <1>4, <1>6, <2>2, <2>3, <2>4, <2>5, <2>6, <2>7, Zenon DEF EipWorker
<1>7. CASE SvcWorker
  <2>1. ASSUME NEW s \in Svcs, HandleService(s) PROVE Telling'
    <3>. DEFINE a == svcs[s].ingress
                ns == getServiceNodes(pools[a[1]].used[a[2]] \cup {s})
    <3>1. lw' \in {lw, LwIdle} \/ (ns # {} /\ lw' = [svc |-> s, addr |-> a, to |-> pools[a[1]].protocol, call |-> ns])
      BY <2>1, Zenon DEF HandleService
    <3>2. ew' = ew
      BY <2>1, Zenon DEF HandleService
    <3>. HIDE DEF a, ns
    <3>. QED
      BY <3>1, <3>2 DEF Telling
  <2>. QED
    BY <1>2, <1>7, <2>1, Zenon DEF SvcWorker, LwSetBalancer, LwDone
<1>8. CASE Environment
  <2>1. CASE ProcessUnchanged
    BY <1>2, <2>1, Zenon DEF ProcessUnchanged
  <2>2. CASE Restart
    BY <1>2, <1>3, <2>2, Zenon DEF Restart
  <2>. QED
    BY <1>8, <2>1, <2>2, ZenonT(30) DEF Environment, Record, Release, CreateEip, SetProtocol, DeleteEip, EipGone, EipEvent,
         ShowIngress, SetEndpoints, SetPolicy, RemoveService, ChangeNode, MemberEvent
<1>. QED
  BY <1>6, <1>7, <1>8, Zenon DEF Next

\* What is in use of an Eip, and the Services its addresses are used by.
LEMMA UsedHolders ==
  ASSUME Typed, NEW a \in Addrs
  PROVE  a[1] \in Eips /\ (Holders(a) # {} => a \in DOMAIN Used(a[1], eips[a[1]]))
BY Zenon DEF Addrs, Used, Holders

\* A step withdraws an address for cause: delBalancer, whose reconcile goes by what the cache
\* shows unless another one is due, the loss of a layer 2 range, which comes with another
\* protocol or the end of the Eip, and the start of a new process.
LEMMA StepWithdraws == ASSUME Typed, Fresh, Telling, Next PROVE Withdrawal
<1>1. CASE announced' = announced
  BY <1>1, Zenon DEF Withdrawal
<1>2. ew \in EwRecord /\ announced \in [Protocols -> [Addrs -> SUBSET Nodes]]
  BY Zenon DEF Typed, EwTyped, TypeOK
<1>3. ASSUME NEW p \in Protocols, NEW a \in Addrs, NEW ns, ns # {}, NEW ok \in BOOLEAN, SetBalancer(p, a, ns, ok)
      PROVE  Withdrawal
  BY <1>3, BalancerEffect, SMTT(30) DEF Withdrawal
<1>4. ASSUME NEW a \in Addrs, EwDelBalancer(a) PROVE Withdrawal
  <2>1. ew.key \in Eips /\ a \in ew.del /\ a[1] = ew.key /\ ew.from \in Protocols
    BY <1>2, <1>4, WorkerKey, Zenon DEF EwDelBalancer, Fresh, EwRecord
  <2>2. eipq' = eipq \/ ew.key \in eipq'
    BY <1>4, Zenon DEF EwDelBalancer, EwDone
  <2>a. PICK ok \in BOOLEAN : DelBalancer(ew.from, a, ok)
    BY <1>4, Zenon DEF EwDelBalancer
  <2>3. \A q \in Protocols, b \in Addrs : announced'[q][b] = announced[q][b] \/ (q = ew.from /\ b = a)
    BY <2>1, <2>a, BalancerEffect, Zenon
  <2>4. Live(a[1]) /\ a[1] \notin eipq => eips[a[1]].protocol # ew.from \/ Holders(a) = {}
    BY <2>1, UsedHolders, Zenon DEF Fresh, Current, Same
  <2>. QED
    BY <2>1, <2>2, <2>3, <2>4, Zenon DEF Withdrawal
<1>5. CASE EwUnconfigure
  <2>1. ew.key \in Eips /\ ew.drop /\ ew.from \in Protocols
    BY <1>2, <1>5, WorkerKey, Zenon DEF EwUnconfigure, EwRecord
  <2>2. PICK ok \in BOOLEAN : ConfigureWithEIP(ew.from, ew.key, TRUE, ok)
    BY <1>5, Zenon DEF EwUnconfigure
  <2>3. \A q \in Protocols, b \in Addrs : announced'[q][b] = announced[q][b] \/ (q = ew.from /\ b[1] = ew.key)
    BY <1>2, <2>1, <2>2, SMTT(30) DEF ConfigureWithEIP, speakers
  <2>4. eipq' = eipq \/ ew.key \in eipq'
    BY <1>5, Zenon DEF EwUnconfigure, EwDone
  <2>5. Live(ew.key) /\ ew.key \notin eipq => eips[ew.key].protocol # ew.from
    BY <2>1, Zenon DEF Fresh, Current, Same
  <2>. QED
    BY <2>1, <2>3, <2>4, <2>5, Zenon DEF Withdrawal
<1>6. CASE EwConfigure
  BY <1>1, <1>6, Zenon DEF EwConfigure, ConfigureWithEIP, speakers
<1>7. CASE EwSetBalancer
  <2>1. ew.to \in Protocols /\ ew.call.addr \in Addrs /\ ew.call.nodes # {}
    BY <1>2, <1>7, SMTT(30) DEF EwSetBalancer, EwRecord, Telling
  <2>. QED
    BY <1>3, <1>7, <2>1, Zenon DEF EwSetBalancer
<1>8. CASE LwSetBalancer
  <2>1. lw.to \in Protocols /\ lw.addr \in Addrs /\ lw.call # {}
    BY <1>8, Zenon DEF LwSetBalancer, Typed, LwTyped, Telling
  <2>. QED
    BY <1>3, <1>8, <2>1, Zenon DEF LwSetBalancer
<1>9. CASE Restart
  BY <1>9, UsedHolders, Zenon DEF Restart, Withdrawal, Live
<1>10. ASSUME NEW e \in Eips, ReconcileEip(e) PROVE Withdrawal
  BY <1>1, <1>10, Zenon DEF ReconcileEip, speakers
<1>11. ASSUME NEW a \in Addrs, EwGetNodes(a) PROVE Withdrawal
  BY <1>1, <1>11, Zenon DEF EwGetNodes, speakers
<1>12. CASE ResyncEIPSpeaker \/ EwFinish \/ \E s \in Svcs : HandleService(s)
  BY <1>1, <1>12, Zenon DEF ResyncEIPSpeaker, EwFinish, HandleService, speakers
<1>13. CASE Environment /\ ~Restart
  <2>1. ProcessUnchanged
    BY <1>13, ZenonT(30) DEF Environment, Record, Release, CreateEip, SetProtocol, DeleteEip, EipGone, EipEvent,
         ShowIngress, SetEndpoints, SetPolicy, RemoveService, ChangeNode, MemberEvent
  <2>. QED
    BY <1>1, <2>1, Zenon DEF ProcessUnchanged, speakers
<1>. QED
  BY <1>4, <1>5, <1>6, <1>7, <1>8, <1>9, <1>10, <1>11, <1>12, <1>13, Zenon DEF Next, EipWorker, SvcWorker

\* Nothing is handled yet in the first states, and everything is in the queue.
LEMMA InitFresh == ASSUME Init PROVE Fresh /\ Telling
BY Zenon DEF Init, Fresh, Telling, EwIdle

\* Every step keeps Fresh and Telling.
LEMMA NextFresh == Typed /\ Fresh /\ Telling /\ [Next]_vars => Fresh' /\ Telling'
<1>1. ASSUME Fresh, Telling, UNCHANGED <<eips, eipq, pools, ew, lw>> PROVE Fresh' /\ Telling'
  BY <1>1, Zenon DEF Fresh, Telling, Live, Current, Same
<1>2. ASSUME Fresh, SvcWorker PROVE Fresh'
  <2>1. UNCHANGED <<eips, eipq, pools, ew>>
    BY <1>2, Zenon DEF SvcWorker, HandleService, LwSetBalancer, cluster
  <2>. QED
    BY <1>2, <2>1, Zenon DEF Fresh, Live, Current, Same
<1>. QED
  BY <1>1, <1>2, WorkerFresh, EnvironmentFresh, TellingKept, Zenon DEF Next, vars, cluster

\* delBalancer, ConfigureWithEIP: whatever fails, restarts and reloads, and in whatever order
\* the two controllers and the cluster take their steps, a speaker stops announcing an address
\* only when the address was released, its Eip goes or has another protocol, or a reconcile of
\* the Eip is due.
THEOREM WithdrawsForCause == Spec => WithdrawnForCause
<1>1. Spec => [](Typed /\ Fresh /\ Telling)
  BY InitTyped, NextTyped, InitFresh, NextFresh, PTL DEF Spec
<1>2. Typed /\ Fresh /\ Telling /\ [Next]_vars => [Withdrawal]_vars
  BY StepWithdraws, Zenon
<1>. QED
  BY <1>1, <1>2, PTL DEF Spec, WithdrawnForCause

------------------------------------------------------------------------------
(* One speaker.  No call fails, the Services keep their Endpoints and show *)
(* no address that the manager has not yet heard of through its Eip, and   *)
(* the layer 2 members stay: Eips, their protocols and addresses, nodes,   *)
(* traffic policies and the process come and go.                           *)

Undisturbed == MaxFaults = 0 /\ Ops \cap {"ingress", "endpoints", "remove", "member"} = {}

\* Nobody but the worker of the Eip controller has anything to tell a speaker.
Calm ==
    /\ lw = LwIdle /\ Reload \notin eipq /\ ew.key # Reload
    /\ \A s \in Svcs : svcs[s].phase = "live" /\ svcs[s].eps # Nil /\ svcs[s].ingress = Nil

\* Of the addresses of Eip e, the announcements ann hold at most those in S, by speaker p alone.
Only(ann, e, p, S) ==
    \A q \in Protocols, a \in Addrs : a[1] = e /\ ann[q][a] # {} => q = p /\ a \in S

Silent(ann, e) == \A q \in Protocols, a \in Addrs : a[1] = e => ann[q][a] = {}

\* pools tells what is announced of an Eip that nobody works on.
AtRest(e) ==
    IF pools[e] = Nil THEN Silent(announced, e)
    ELSE /\ e \in configured[pools[e].protocol]
         /\ Only(announced, e, pools[e].protocol, DOMAIN Used(e, pools[e]))

\* Of the Eip the worker is at, the old speaker announces what is still in del until the
\* configuration is dropped, then nobody anything until the new one is configured, which
\* then announces what obj uses.
Busy(e) ==
    /\ \A a \in ew.del : a[1] = e
    /\ ew.obj = Nil => DOMAIN ew.set = {} /\ ew.call = Nil
    /\ ew.obj # Nil => /\ ew.to = ew.obj.protocol
                       /\ DOMAIN ew.set \subseteq DOMAIN Used(e, ew.obj)
                       /\ ew.call # Nil => ew.call.addr \in DOMAIN Used(e, ew.obj)
    /\ IF ew.drop THEN e \in configured[ew.from] /\ Only(announced, e, ew.from, ew.del) /\ (ew.conf <=> ew.obj # Nil)
       ELSE IF ew.conf THEN ew.obj # Nil /\ ew.del = {} /\ Silent(announced, e)
       ELSE IF ew.obj = Nil THEN ew.del = {} /\ pools[e] = Nil /\ Silent(announced, e)
       ELSE /\ e \in configured[ew.to] /\ (ew.del # {} => ew.from = ew.to)
            /\ Only(announced, e, ew.to, DOMAIN Used(e, ew.obj) \cup ew.del)

Told == \A e \in Eips : IF ew.key = e THEN Busy(e) ELSE AtRest(e)

\* No call fails: DelBalancer withdraws the address, SetBalancer announces it.
LEMMA CallsWork ==
  ASSUME Typed, Undisturbed, NEW p \in Protocols, NEW a \in Addrs, a[1] \in configured[p], NEW ns, NEW ok \in BOOLEAN
  PROVE  /\ DelBalancer(p, a, ok) => ok /\ announced' = [announced EXCEPT ![p][a] = {}]
         /\ SetBalancer(p, a, ns, ok) => ok /\ announced' = [announced EXCEPT ![p][a] = ns]
<1>1. ~(faults < MaxFaults) /\ Knows(p, a)
  BY DEF Typed, TypeOK, Undisturbed, Knows
<1>2. \A effect : Call(ok, effect) => ok /\ announced' = effect
  BY <1>1, Zenon DEF Call
<1>. QED
  BY <1>1, <1>2, Zenon DEF DelBalancer, SetBalancer

\* Only Eip e is configured or not, and nothing new is announced.
OnlyTouched(e) ==
    /\ \A q \in Protocols, f \in Eips : f # e => (f \in configured'[q] <=> f \in configured[q])
    /\ \A q \in Protocols, a \in Addrs :
         announced'[q][a] = announced[q][a] \/ (a[1] = e /\ announced'[q][a] = {})

\* ConfigureWithEIP does not fail either.
LEMMA ConfigureWorks ==
  ASSUME Typed, Undisturbed, NEW p \in Protocols, NEW e \in Eips, NEW ok \in BOOLEAN
  PROVE  /\ ConfigureWithEIP(p, e, TRUE, ok) => ok /\ OnlyTouched(e)
         /\ ConfigureWithEIP(p, e, FALSE, ok) => ok /\ OnlyTouched(e) /\ e \in configured'[p]
<1>1. configured \in [Protocols -> SUBSET Eips] /\ announced \in [Protocols -> [Addrs -> SUBSET Nodes]]
  BY Zenon DEF Typed, TypeOK
<1>2. ~(faults < MaxFaults)
  BY DEF Typed, TypeOK, Undisturbed
<1>3. ASSUME ConfigureWithEIP(p, e, TRUE, ok) PROVE ok /\ OnlyTouched(e)
  <2>1. ok /\ configured' = [configured EXCEPT ![p] = @ \ {e}]
    BY <1>2, <1>3, Zenon DEF ConfigureWithEIP
  <2>2. \/ announced' = announced
        \/ announced' = [announced EXCEPT ![p] = [a \in Addrs |-> IF a[1] = e THEN {} ELSE @[a]]]
    BY <1>2, <1>3, Zenon DEF ConfigureWithEIP
  <2>. QED
    BY <1>1, <2>1, <2>2, SMTT(30) DEF OnlyTouched
<1>4. ASSUME ConfigureWithEIP(p, e, FALSE, ok) PROVE ok /\ OnlyTouched(e) /\ e \in configured'[p]
  <2>1. ok /\ configured' = [configured EXCEPT ![p] = @ \cup {e}] /\ announced' = announced
    BY <1>2, <1>4, Zenon DEF ConfigureWithEIP
  <2>. QED
    BY <1>1, <2>1, Zenon DEF OnlyTouched
<1>. QED
  BY <1>3, <1>4, Zenon

\* This step leaves alone what pools and the speakers hold of Eip e.
Kept(e) ==
    /\ pools'[e] = pools[e] /\ \A q \in Protocols : e \in configured[q] => e \in configured'[q]
    /\ \A q \in Protocols, a \in Addrs : a[1] = e => announced'[q][a] = announced[q][a]

\* An Eip at rest that is left alone is at rest.
LEMMA RestKept ==
  ASSUME Typed, NEW e \in Eips, AtRest(e), Kept(e)
  PROVE  AtRest(e)'
<1>1. CASE pools[e] = Nil
  BY <1>1 DEF AtRest, Silent, Kept
<1>2. CASE pools[e] # Nil
  <2>1. pools[e].protocol \in Protocols
    BY <1>2, Zenon DEF Typed, TypeOK, EipObj
  <2>2. e \in configured'[pools[e].protocol] /\ Only(announced', e, pools[e].protocol, DOMAIN Used(e, pools[e]))
    BY <1>2, <2>1 DEF AtRest, Kept, Only
  <2>. QED
    BY <1>2, <2>2, Zenon DEF AtRest, Kept
<1>. QED
  BY <1>1, <1>2, Zenon

\* When the worker is at e, every other Eip is at rest and, left alone, stays so.
LEMMA OthersKept ==
  ASSUME Typed, Told, NEW e \in Eips, ew.key = e, ew'.key \in {e, Nil},
         \A f \in Eips : f # e => Kept(f),
         IF ew'.key = e THEN Busy(e)' ELSE AtRest(e)'
  PROVE  Told'
<1>1. ASSUME NEW f \in Eips, f # e PROVE AtRest(f)' /\ ew'.key # f
  BY <1>1, RestKept, ConstantsAssumption, Zenon DEF Told
<1>. QED
  BY <1>1, ConstantsAssumption, Zenon DEF Told

\* HandleEIP plans from what pools tells, which is what is announced.
LEMMA PlanTold ==
  ASSUME Typed, NEW e \in Eips, NEW obj \in EipObj, AtRest(e), pools' = pools, speakers' = speakers,
         ew' = HandleEIP(e, obj)
  PROVE  IF ew'.key = e THEN Busy(e)' ELSE ew' = EwIdle /\ AtRest(e)'
<1>. DEFINE old == pools[e]
            U == DOMAIN Used(e, obj)
            O == DOMAIN Used(e, old)
            diff == DiffMaps(Used(e, old), Used(e, obj))
<1>1. Nil # obj /\ e # Nil
  BY ConstantsAssumption, Zenon
<1>2. AtRest(e)' /\ configured' = configured /\ announced' = announced
  BY ZenonT(30) DEF AtRest, Silent, Only, speakers
<1>3. CASE old = Nil
  <2>1. ew' = Plan(e, obj, obj.protocol, {}, FALSE, TRUE, Used(e, obj), TRUE)
    BY <1>3, SMTT(30) DEF HandleEIP
  <2>2. Silent(announced', e)
    BY <1>2, <1>3, Zenon DEF AtRest
  <2>. QED
    BY <1>1, <2>1, <2>2, SMTT(30) DEF Plan, Busy
<1>4. CASE old # Nil
  <2>1. e \in configured'[old.protocol] /\ Only(announced', e, old.protocol, O)
    BY <1>2, <1>4, Zenon DEF AtRest
  <2>2. \A a \in O : a[1] = e
    BY <1>4, UsedMap, Zenon DEF Typed, TypeOK
  <2>3. DOMAIN diff.add = U \ O /\ diff.del = O \ U
    BY SMTT(30) DEF DiffMaps, Restrict
  <2>. HIDE DEF O, U, diff
  <2>4. ASSUME ew' = Plan(e, obj, old.protocol, O, TRUE, FALSE, <<>>, FALSE) PROVE ew'.key = e /\ Busy(e)'
    BY <2>1, <2>2, <2>4, SMTT(30) DEF Plan, Busy
  <2>5. ASSUME ew' = Plan(e, obj, old.protocol, O, TRUE, TRUE, Used(e, obj), TRUE) PROVE ew'.key = e /\ Busy(e)'
    BY <1>1, <2>1, <2>2, <2>5, SMTT(30) DEF Plan, Busy, U
  <2>6. ASSUME ew' = Plan(e, obj, obj.protocol, diff.del, FALSE, FALSE, diff.add, TRUE),
               obj.protocol = old.protocol
        PROVE  ew'.key = e /\ Busy(e)'
    <3>1. Only(announced', e, old.protocol, U \cup diff.del)
      BY <2>1, <2>3, SMTT(30) DEF Only
    <3>. QED
      BY <1>1, <2>1, <2>2, <2>3, <2>6, <3>1, SMTT(30) DEF Plan, Busy, U
  <2>7. \/ ew' = Plan(e, obj, old.protocol, O, TRUE, FALSE, <<>>, FALSE)
        \/ ew' = Plan(e, obj, old.protocol, O, TRUE, TRUE, Used(e, obj), TRUE)
        \/ ew' = EwIdle
        \/ /\ ew' = Plan(e, obj, obj.protocol, diff.del, FALSE, FALSE, diff.add, TRUE)
           /\ obj.protocol = old.protocol
    BY <1>4, ZenonT(30) DEF HandleEIP, O, U, diff, isSpeakerConfigUpdate
  <2>8. CASE ew' = EwIdle
    BY <1>1, <1>2, <2>8, SMTT(30) DEF EwIdle
  <2>. QED
    BY <2>4, <2>5, <2>6, <2>7, <2>8, Zenon
<1>. QED
  BY <1>3, <1>4, Zenon

\* What a step of the worker does to Told, for a reconcile of Eip e that starts.
LEMMA ReconcileTold ==
  ASSUME Typed, Calm, Told, NEW e \in Eips, ReconcileEip(e)
  PROVE  Told' /\ ew'.key # Reload
<1>1. \A f \in Eips : ew.key # f /\ AtRest(f)
  BY ConstantsAssumption, Zenon DEF ReconcileEip, EwIdle, Told
<1>2. pools' = pools /\ speakers' = speakers /\ configured' = configured /\ announced' = announced
  BY Zenon DEF ReconcileEip, speakers
<1>3. \A f \in Eips : AtRest(f)'
  BY <1>1, <1>2, RestKept, ZenonT(30) DEF Kept
<1>4. CASE ew' = EwIdle
  BY <1>3, <1>4, ConstantsAssumption, SMTT(30) DEF EwIdle, Told
<1>5. CASE ew' = HandleEIP(e, eips[e])
  <2>1. eips[e] \in EipObj
    BY Zenon DEF Typed, TypeOK
  <2>2. IF ew'.key = e THEN Busy(e)' ELSE ew' = EwIdle /\ AtRest(e)'
    BY <1>1, <1>2, <1>5, <2>1, PlanTold, Zenon
  <2>. QED
    BY <1>3, <1>4, <2>2, ConstantsAssumption, Zenon DEF Told
<1>. QED
  BY <1>4, <1>5, Zenon DEF ReconcileEip

\* This step of the worker goes on with Eip e; it leaves the other Eips and the queue alone.
At(e) ==
    /\ ew'.key = e /\ ew'.obj = ew.obj /\ ew'.from = ew.from /\ ew'.to = ew.to
    /\ eipq' = eipq /\ \A f \in Eips : f # e => Kept(f)

\* delBalancer takes one address from the old speaker.
LEMMA DelDoes ==
  ASSUME Typed, Undisturbed, Told, NEW e \in Eips, ew.key = e, NEW a \in Addrs, EwDelBalancer(a)
  PROVE  /\ At(e) /\ a \in ew.del /\ pools' = pools /\ configured' = configured
         /\ ew'.drop = ew.drop /\ ew'.conf = ew.conf /\ ew'.set = ew.set /\ ew'.call = ew.call
         /\ ew'.del = ew.del \ {a}
         /\ \A q \in Protocols, b \in Addrs :
              announced'[q][b] = IF q = ew.from /\ b = a THEN {} ELSE announced[q][b]
<1>1. Busy(e) /\ a \in ew.del /\ pools' = pools /\ configured' = configured
  BY Zenon DEF EwDelBalancer, Typed, EwTyped, EwRecord, Told
<1>2. ew.from \in Protocols /\ ew \in EwRecord /\ announced \in [Protocols -> [Addrs -> SUBSET Nodes]]
  BY Zenon DEF Typed, TypeOK, EwTyped, EwRecord
<1>3. a[1] = e /\ e \in configured[ew.from]
  BY <1>1, Zenon DEF Busy
<1>4. announced' = [announced EXCEPT ![ew.from][a] = {}] /\ ew' = [ew EXCEPT !.del = @ \ {a}] /\ eipq' = eipq
  <2>1. PICK ok \in BOOLEAN : /\ DelBalancer(ew.from, a, ok)
                              /\ IF ok THEN ew' = [ew EXCEPT !.del = @ \ {a}] /\ UNCHANGED eipq ELSE EwDone(TRUE)
    BY Zenon DEF EwDelBalancer
  <2>2. DelBalancer(ew.from, a, ok) => ok /\ announced' = [announced EXCEPT ![ew.from][a] = {}]
    BY <1>2, <1>3, CallsWork, ZenonT(40)
  <2>. QED
    BY <2>1, <2>2, Zenon
<1>5. \A q \in Protocols, b \in Addrs :
        announced'[q][b] = IF q = ew.from /\ b = a THEN {} ELSE announced[q][b]
  BY <1>2, <1>4, Zenon
<1>6. \A f \in Eips : f # e => Kept(f)
  BY <1>1, <1>3, <1>5, Zenon DEF Kept
<1>7. /\ ew'.key = e /\ ew'.obj = ew.obj /\ ew'.from = ew.from /\ ew'.to = ew.to /\ ew'.drop = ew.drop
      /\ ew'.conf = ew.conf /\ ew'.set = ew.set /\ ew'.call = ew.call /\ ew'.del = ew.del \ {a}
  BY <1>2, <1>4, Zenon DEF EwRecord
<1>. QED
  BY <1>1, <1>4, <1>5, <1>6, <1>7, Zenon DEF At

\* What is left of the addresses to withdraw is all the old speaker announces.
LEMMA DelTold ==
  ASSUME Typed, Undisturbed, Told, NEW e \in Eips, ew.key = e, NEW a \in Addrs, EwDelBalancer(a)
  PROVE  Told' /\ ew'.key = e /\ eipq' = eipq
<1>1. Busy(e)
  BY Zenon DEF Told
<1>2. \A q \in Protocols, b \in Addrs :
        announced'[q][b] = IF q = ew.from /\ b = a THEN {} ELSE announced[q][b]
  BY DelDoes, ZenonT(30)
<1>3. Only(announced, e, ew.from, ew.del) => Only(announced', e, ew.from, ew.del \ {a})
  BY <1>2, SMTT(30) DEF Only
<1>4. ASSUME NEW S, ew.from = ew.to, Only(announced, e, ew.to, S \cup ew.del) PROVE Only(announced', e, ew.to, S \cup (ew.del \ {a}))
  BY <1>2, <1>4, SMTT(30) DEF Only
<1>5. Busy(e)'
  BY <1>1, <1>3, <1>4, DelDoes, ZenonT(30) DEF Busy, At
<1>. QED
  BY <1>5, DelDoes, OthersKept, Zenon DEF At

\* The old speaker loses the configuration, and pools the Eip.
LEMMA UnconfigureDoes ==
  ASSUME Typed, Undisturbed, Told, NEW e \in Eips, ew.key = e, EwUnconfigure
  PROVE  /\ At(e) /\ OnlyTouched(e) /\ pools'[e] = Nil /\ ew.drop /\ ew.del = {}
         /\ ~ew'.drop /\ ew'.conf = ew.conf /\ ew'.set = ew.set /\ ew'.call = ew.call /\ ew'.del = ew.del
<1>1. ew.drop /\ ew.del = {} /\ ew.from \in Protocols /\ ew \in EwRecord
  BY Zenon DEF EwUnconfigure, Typed, EwTyped, EwRecord
<1>2. PICK ok \in BOOLEAN :
        /\ ConfigureWithEIP(ew.from, e, TRUE, ok)
        /\ pools' = IF ok THEN [pools EXCEPT ![e] = Nil] ELSE pools
        /\ IF ok THEN ew' = [ew EXCEPT !.drop = FALSE] /\ UNCHANGED eipq ELSE EwDone(TRUE)
  BY Zenon DEF EwUnconfigure
<1>3. ok /\ OnlyTouched(e)
  BY <1>1, <1>2, ConfigureWorks, Zenon
<1>4. pools' = [pools EXCEPT ![e] = Nil] /\ ew' = [ew EXCEPT !.drop = FALSE] /\ eipq' = eipq
  BY <1>2, <1>3, Zenon
<1>5. pools'[e] = Nil /\ \A f \in Eips : f # e => pools'[f] = pools[f]
  BY <1>4, Zenon DEF Typed, TypeOK
<1>6. \A f \in Eips : f # e => Kept(f)
  BY <1>3, <1>5, Zenon DEF Kept, OnlyTouched
<1>7. /\ ew'.key = e /\ ew'.obj = ew.obj /\ ew'.from = ew.from /\ ew'.to = ew.to /\ ~ew'.drop
      /\ ew'.conf = ew.conf /\ ew'.set = ew.set /\ ew'.call = ew.call /\ ew'.del = ew.del
  BY <1>1, <1>4, Zenon DEF EwRecord
<1>. QED
  BY <1>1, <1>3, <1>4, <1>5, <1>6, <1>7, Zenon DEF At

\* By then the old speaker announces nothing of the Eip any more.
LEMMA UnconfigureTold ==
  ASSUME Typed, Undisturbed, Told, NEW e \in Eips, ew.key = e, EwUnconfigure
  PROVE  Told' /\ ew'.key = e /\ eipq' = eipq
<1>1. Busy(e)
  BY Zenon DEF Told
<1>2. Silent(announced', e)
  <2>1. Only(announced, e, ew.from, {})
    BY <1>1, UnconfigureDoes, SMTT(30) DEF Busy
  <2>2. OnlyTouched(e)
    BY UnconfigureDoes, Zenon
  <2>. QED
    BY <2>1, <2>2, SMTT(30) DEF Only, Silent, OnlyTouched
<1>3. Busy(e)'
  BY <1>1, <1>2, UnconfigureDoes, Zenon DEF Busy, At
<1>. QED
  BY <1>3, UnconfigureDoes, OthersKept, Zenon DEF At

\* The new speaker is configured.
LEMMA ConfigureDoes ==
  ASSUME Typed, Undisturbed, NEW e \in Eips, ew.key = e, EwConfigure
  PROVE  /\ At(e) /\ OnlyTouched(e) /\ pools' = pools /\ e \in configured'[ew.to]
         /\ ew.conf /\ ~ew.drop /\ ew.del = {}
         /\ ~ew'.conf /\ ~ew'.drop /\ ew'.set = ew.set /\ ew'.call = ew.call /\ ew'.del = {}
<1>1. ~ew.drop /\ ew.conf /\ ew.del = {} /\ ew.to \in Protocols /\ ew \in EwRecord /\ pools' = pools
  BY Zenon DEF EwConfigure, Typed, EwTyped, EwRecord
<1>2. PICK ok \in BOOLEAN :
        /\ ConfigureWithEIP(ew.to, e, FALSE, ok)
        /\ IF ok THEN ew' = [ew EXCEPT !.conf = FALSE] /\ UNCHANGED eipq ELSE EwDone(TRUE)
  BY Zenon DEF EwConfigure
<1>3. ok /\ OnlyTouched(e) /\ e \in configured'[ew.to]
  BY <1>1, <1>2, ConfigureWorks, Zenon
<1>4. ew' = [ew EXCEPT !.conf = FALSE] /\ eipq' = eipq
  BY <1>2, <1>3, Zenon
<1>5. \A f \in Eips : f # e => Kept(f)
  BY <1>1, <1>3, ZenonT(30) DEF Kept, OnlyTouched
<1>6. /\ ew'.key = e /\ ew'.obj = ew.obj /\ ew'.from = ew.from /\ ew'.to = ew.to /\ ~ew'.drop
      /\ ~ew'.conf /\ ew'.set = ew.set /\ ew'.call = ew.call /\ ew'.del = ew.del
  BY <1>1, <1>4, Zenon DEF EwRecord
<1>. QED
  BY <1>1, <1>3, <1>4, <1>5, <1>6, ZenonT(30) DEF At

\* The new speaker is configured before it announces anything.
LEMMA ConfigureTold ==
  ASSUME Typed, Undisturbed, Told, NEW e \in Eips, ew.key = e, EwConfigure
  PROVE  Told' /\ ew'.key = e /\ eipq' = eipq
<1>1. Busy(e)
  BY Zenon DEF Told
<1>2. Only(announced', e, ew.to, DOMAIN Used(e, ew.obj) \cup ew.del)
  <2>1. Silent(announced, e)
    BY <1>1, ConfigureDoes, SMTT(30) DEF Busy
  <2>2. OnlyTouched(e)
    BY ConfigureDoes, Zenon
  <2>. QED
    BY <2>1, <2>2, ZenonT(30) DEF Only, Silent, OnlyTouched
<1>3. Busy(e)'
  BY <1>1, <1>2, ConfigureDoes, ZenonT(30) DEF Busy, At
<1>. QED
  BY <1>3, ConfigureDoes, OthersKept, Zenon DEF At

\* Looking for the nodes of an address tells no speaker anything.
LEMMA GetNodesDoes ==
  ASSUME Typed, Calm, NEW e \in Eips, ew.key = e, NEW a \in Addrs, EwGetNodes(a)
  PROVE  /\ At(e) /\ pools' = pools /\ configured' = configured /\ announced' = announced
         /\ ~ew.drop /\ ~ew.conf /\ ew.del = {} /\ ew.call = Nil /\ a \in DOMAIN ew.set
         /\ ew'.drop = ew.drop /\ ew'.conf = ew.conf /\ ew'.del = ew.del
         /\ ew'.set = Restrict(ew.set, DOMAIN ew.set \ {a}) /\ DOMAIN ew'.set = DOMAIN ew.set \ {a}
         /\ \/ ew'.call = Nil /\ getServiceNodes(ew.set[a]) = {}
            \/ ew'.call # Nil /\ ew'.call.addr = a
<1>. DEFINE ns == getServiceNodes(ew.set[a])
<1>1. /\ ~ew.drop /\ ~ew.conf /\ ew.del = {} /\ ew \in EwRecord /\ a \in DOMAIN ew.set /\ ew.call = Nil
      /\ pools' = pools /\ configured' = configured /\ announced' = announced
  BY Zenon DEF EwGetNodes, Announcing, Typed, EwTyped, speakers
<1>2. Found(ew.set[a]) /\ ns \subseteq Nodes
  <2>1. ew.set[a] \subseteq Svcs
    BY <1>1, MapFacts, Zenon DEF EwRecord
  <2>. QED
    BY <2>1, NodesTyped, Zenon DEF Calm, Found, Typed
<1>3. /\ ew' = [ew EXCEPT !.call = IF ns = {} THEN Nil ELSE [addr |-> a, nodes |-> ns],
                          !.set = Restrict(@, DOMAIN @ \ {a})]
      /\ eipq' = eipq
  BY <1>2, Zenon DEF EwGetNodes
<1>. HIDE DEF ns
<1>4. /\ ew'.key = e /\ ew'.obj = ew.obj /\ ew'.from = ew.from /\ ew'.to = ew.to /\ ew'.drop = ew.drop
      /\ ew'.conf = ew.conf /\ ew'.del = ew.del /\ ew'.set = Restrict(ew.set, DOMAIN ew.set \ {a})
      /\ ew'.call = IF ns = {} THEN Nil ELSE [addr |-> a, nodes |-> ns]
  BY <1>1, <1>3, Zenon DEF EwRecord
<1>5. DOMAIN ew'.set = DOMAIN ew.set \ {a}
  BY <1>4, Zenon DEF Restrict
<1>6. \A f \in Eips : Kept(f)
  BY <1>1, Zenon DEF Kept
<1>7. [addr |-> a, nodes |-> ns] # Nil
  BY <1>2, ConstantsAssumption, Zenon
<1>. QED
  BY <1>1, <1>3, <1>4, <1>5, <1>6, <1>7, SMTT(30) DEF At, ns

\* The address looked up is one that obj uses.
LEMMA GetNodesTold ==
  ASSUME Typed, Calm, Told, NEW e \in Eips, ew.key = e, NEW a \in Addrs, EwGetNodes(a)
  PROVE  Told' /\ ew'.key = e /\ eipq' = eipq
<1>1. Busy(e)
  BY Zenon DEF Told
<1>2. /\ At(e) /\ pools' = pools /\ configured' = configured /\ announced' = announced
      /\ ~ew.drop /\ ~ew.conf /\ a \in DOMAIN ew.set /\ ~ew'.drop /\ ~ew'.conf /\ ew'.del = ew.del
      /\ DOMAIN ew'.set = DOMAIN ew.set \ {a} /\ (ew'.call # Nil => ew'.call.addr = a)
  BY GetNodesDoes, ZenonT(30)
<1>3. ew.obj # Nil
  BY <1>1, <1>2, SMTT(30) DEF Busy
<1>4. Busy(e)'
  BY <1>1, <1>2, <1>3, SMTT(30) DEF Busy, At
<1>. QED
  BY <1>2, <1>4, OthersKept, ZenonT(30) DEF At

\* The new speaker announces an address that obj uses.
LEMMA SetDoes ==
  ASSUME Typed, Undisturbed, Told, NEW e \in Eips, ew.key = e, EwSetBalancer
  PROVE  /\ At(e) /\ pools' = pools /\ configured' = configured
         /\ ~ew.drop /\ ~ew.conf /\ ew.del = {} /\ ew.call # Nil
         /\ ew'.drop = ew.drop /\ ew'.conf = ew.conf /\ ew'.set = ew.set /\ ew'.call = Nil /\ ew'.del = ew.del
         /\ \A q \in Protocols, b \in Addrs :
              announced'[q][b] = IF q = ew.to /\ b = ew.call.addr THEN ew.call.nodes ELSE announced[q][b]
         /\ ew.obj # Nil /\ ew.call.addr \in DOMAIN Used(e, ew.obj)
<1>. DEFINE a == ew.call.addr
            U == DOMAIN Used(e, ew.obj)
<1>1. /\ Busy(e) /\ ~ew.drop /\ ~ew.conf /\ ew.del = {} /\ ew \in EwRecord /\ ew.call # Nil
      /\ pools' = pools /\ configured' = configured
  BY Zenon DEF EwSetBalancer, Announcing, Typed, EwTyped, Told
<1>2. ew.to \in Protocols /\ a \in Addrs /\ announced \in [Protocols -> [Addrs -> SUBSET Nodes]]
  BY <1>1, SMTT(30) DEF EwRecord, Typed, TypeOK
<1>3. ew.obj # Nil /\ ew.obj \in EipObj /\ a \in U /\ e \in configured[ew.to]
  BY <1>1, Zenon DEF Busy, EwRecord
<1>4. a[1] = e
  BY <1>3, UsedMap, SMTT(30)
<1>. HIDE DEF U
<1>5. announced' = [announced EXCEPT ![ew.to][a] = ew.call.nodes] /\ ew' = [ew EXCEPT !.call = Nil] /\ eipq' = eipq
  <2>1. PICK ok \in BOOLEAN :
          /\ SetBalancer(ew.to, a, ew.call.nodes, ok)
          /\ IF ok THEN ew' = [ew EXCEPT !.call = Nil] /\ UNCHANGED eipq ELSE EwSetFailed(a)
    BY Zenon DEF EwSetBalancer
  <2>2. SetBalancer(ew.to, a, ew.call.nodes, ok) => ok /\ announced' = [announced EXCEPT ![ew.to][a] = ew.call.nodes]
    BY <1>2, <1>3, <1>4, CallsWork, SMTT(60)
  <2>. QED
    BY <2>1, <2>2, Zenon
<1>6. \A q \in Protocols, b \in Addrs :
        announced'[q][b] = IF q = ew.to /\ b = a THEN ew.call.nodes ELSE announced[q][b]
  BY <1>2, <1>5, Zenon
<1>7. \A f \in Eips : f # e => Kept(f)
  BY <1>1, <1>4, <1>6, ZenonT(30) DEF Kept
<1>8. /\ ew'.key = e /\ ew'.obj = ew.obj /\ ew'.from = ew.from /\ ew'.to = ew.to /\ ew'.drop = ew.drop
      /\ ew'.conf = ew.conf /\ ew'.set = ew.set /\ ew'.call = Nil /\ ew'.del = ew.del
  BY <1>1, <1>5, Zenon DEF EwRecord
<1>. QED
  BY <1>1, <1>3, <1>5, <1>6, <1>7, <1>8, ZenonT(30) DEF At, U

\* No other speaker announces it.
LEMMA SetTold ==
  ASSUME Typed, Undisturbed, Told, NEW e \in Eips, ew.key = e, EwSetBalancer
  PROVE  Told' /\ ew'.key = e /\ eipq' = eipq
<1>. DEFINE U == DOMAIN Used(e, ew.obj)
<1>1. Busy(e) /\ Only(announced, e, ew.to, U \cup ew.del)
  BY SetDoes, Zenon DEF Told, Busy
<1>2. Only(announced', e, ew.to, U \cup ew.del)
  BY <1>1, SetDoes DEF Only
<1>. HIDE DEF U
<1>3. Busy(e)'
  BY <1>1, <1>2, SetDoes, SMTT(30) DEF Busy, At, U
<1>. QED
  BY <1>3, SetDoes, OthersKept, Zenon DEF At

\* At the end pools has the Eip the worker was at, unless it goes.
LEMMA FinishDoes ==
  ASSUME Typed, Told, NEW e \in Eips, ew.key = e, EwFinish
  PROVE  /\ ~ew.drop /\ ~ew.conf /\ ew.del = {} /\ ew.call = Nil /\ DOMAIN ew.set = {}
         /\ configured' = configured /\ announced' = announced /\ ew' = EwIdle /\ ew'.key = Nil /\ eipq' = eipq
         /\ pools'[e] = IF ew.obj = Nil THEN pools[e] ELSE ew.obj
         /\ \A f \in Eips : f # e => Kept(f)
<1>1. /\ ~ew.drop /\ ~ew.conf /\ ew.del = {} /\ ew.call = Nil /\ DOMAIN ew.set = {}
      /\ pools' = IF ew.obj = Nil THEN pools ELSE [pools EXCEPT ![e] = ew.obj]
      /\ configured' = configured /\ announced' = announced /\ ew' = EwIdle /\ eipq' = eipq
  BY SMTT(30) DEF EwFinish, EwDone, Announcing, speakers
<1>2. /\ pools'[e] = IF ew.obj = Nil THEN pools[e] ELSE ew.obj
      /\ \A f \in Eips : f # e => pools'[f] = pools[f]
  BY <1>1, SMTT(30) DEF Typed, TypeOK
<1>3. \A f \in Eips : f # e => Kept(f)
  BY <1>1, <1>2, Zenon DEF Kept
<1>. QED
  BY <1>1, <1>2, <1>3, Zenon DEF EwIdle

\* At the end pools tells what is announced.
LEMMA FinishTold ==
  ASSUME Typed, Told, NEW e \in Eips, ew.key = e, EwFinish
  PROVE  Told' /\ ew'.key # Reload /\ eipq' = eipq
<1>1. Busy(e)
  BY Zenon DEF Told
<1>2. AtRest(e)'
  <2>1. CASE ew.obj = Nil
    BY <1>1, <2>1, FinishDoes, Zenon DEF Busy, AtRest
  <2>2. CASE ew.obj # Nil
    BY <1>1, <2>2, FinishDoes, SMTT(30) DEF Busy, AtRest, Only
  <2>. QED
    BY <2>1, <2>2, SMTT(30)
<1>3. ew'.key = Nil /\ Nil # e /\ Nil # Reload
  BY FinishDoes, ConstantsAssumption, Zenon
<1>. QED
  BY <1>2, <1>3, FinishDoes, OthersKept, Zenon

\* The worker of the Eip controller keeps what it was told about.
LEMMA WorkerTold ==
  ASSUME Typed, Undisturbed, Calm, Told, EipWorker
  PROVE  Calm' /\ Told'
<1>1. svcs' = svcs /\ lw' = lw
  BY Zenon DEF EipWorker, ReconcileEip, ResyncEIPSpeaker, EwDelBalancer, EwGetNodes, EwUnconfigure,
       EwConfigure, EwSetBalancer, EwFinish, cluster
<1>2. ASSUME Told', ew'.key # Reload, eipq' \subseteq eipq PROVE Calm' /\ Told'
  BY <1>1, <1>2, Zenon DEF Calm
<1>3. ASSUME NEW e \in Eips, ReconcileEip(e) PROVE Calm' /\ Told'
  <2>1. eipq' \subseteq eipq
    BY <1>3, Zenon DEF ReconcileEip
  <2>. QED
    BY <1>2, <1>3, <2>1, ReconcileTold, Zenon
<1>4. ASSUME ew.key \in Eips, ~\E e \in Eips : ReconcileEip(e) PROVE Calm' /\ Told'
  <2>. DEFINE e == ew.key
  <2>1. ~ResyncEIPSpeaker /\ e # Reload
    BY Zenon DEF ResyncEIPSpeaker, Calm
  <2>2. PICK k \in Eips : ew.key = k
    BY <1>4, Zenon
  <2>3. Told' /\ ew'.key # Reload /\ eipq' = eipq
    BY <1>4, <2>1, <2>2, DelTold, UnconfigureTold, ConfigureTold, GetNodesTold, SetTold, FinishTold, SMTT(30) DEF EipWorker
  <2>. QED
    BY <1>2, <2>3, Zenon
<1>5. (~\E e \in Eips : ReconcileEip(e)) => ew.key \in Eips
  <2>1. ew.key \in Eips \cup {Nil}
    BY Zenon DEF Typed, EwTyped, EwRecord, Calm
  <2>2. EwTyped(ew)
    BY Zenon DEF Typed
  <2>. QED
    BY <2>1, <2>2, Zenon DEF EipWorker, ResyncEIPSpeaker, EwDelBalancer, EwGetNodes, EwUnconfigure, EwConfigure,
         EwSetBalancer, EwFinish, Announcing, Calm, EwTyped
<1>. QED
  BY <1>3, <1>4, <1>5, SMTT(30)

\* The Service controller finds no Service that shows an address.
LEMMA ServiceTold ==
  ASSUME Calm, Told, SvcWorker
  PROVE  Calm' /\ Told'
<1>1. PICK s \in Svcs : HandleService(s)
  BY Zenon DEF SvcWorker, LwSetBalancer, Calm
<1>2. svcs[s].ingress = Nil
  BY SMTT(30) DEF Calm
<1>3. /\ lw' = lw /\ svcs' = svcs /\ eipq' = eipq /\ ew' = ew /\ pools' = pools
      /\ configured' = configured /\ announced' = announced
  BY <1>1, <1>2, Zenon DEF HandleService, cluster, speakers
<1>4. Calm'
  BY <1>3, SMTT(30) DEF Calm
<1>5. Told'
  BY <1>3, Zenon DEF Told, Busy, AtRest
<1>. QED
  BY <1>4, <1>5, Zenon

\* What the cluster does tells no speaker anything; a new process knows nothing.
LEMMA EnvironmentTold ==
  ASSUME Typed, Undisturbed, Calm, Told, Environment
  PROVE  Calm' /\ Told'
<1>1. ASSUME ProcessUnchanged PROVE Told' /\ ew' = ew /\ lw' = lw
  BY <1>1, Zenon DEF ProcessUnchanged, speakers, Told, Busy, AtRest
<1>2. ASSUME NEW e \in Eips, NEW obj, EipEvent(e, obj) PROVE Calm' /\ Told'
  <2>1. Reload \notin eipq' /\ svcs' = svcs
    BY <1>2, ConstantsAssumption, Zenon DEF EipEvent, Calm
  <2>. QED
    BY <1>1, <1>2, <2>1, Zenon DEF EipEvent, Calm
<1>3. ASSUME NEW s \in Svcs, SetPolicy(s) PROVE Calm' /\ Told'
  <2>1. svcs' = [svcs EXCEPT ![s].local = ~@] /\ eipq' = eipq /\ ProcessUnchanged
    BY <1>3, Zenon DEF SetPolicy
  <2>2. \A t \in Svcs : /\ svcs'[t].phase = svcs[t].phase /\ svcs'[t].eps = svcs[t].eps
                        /\ svcs'[t].ingress = svcs[t].ingress
    BY <2>1, ZenonT(30) DEF Typed, TypeOK, SvcObj
  <2>. QED
    BY <1>1, <2>1, <2>2, Zenon DEF Calm
<1>4. ASSUME NEW n \in Nodes, ChangeNode(n) PROVE Calm' /\ Told'
  BY <1>1, <1>4, Zenon DEF ChangeNode, Calm
<1>5. CASE Restart
  <2>1. ew' = EwIdle /\ lw' = LwIdle /\ svcs' = svcs /\ Reload \notin eipq'
    BY <1>5, ConstantsAssumption, SMTT(30) DEF Restart, cluster
  <2>2. Calm'
    BY <2>1, ConstantsAssumption, SMTT(30) DEF Calm, EwIdle
  <2>3. \A e \in Eips : AtRest(e)' /\ ew'.key # e
    BY <1>5, <2>1, ConstantsAssumption DEF Restart, AtRest, Silent, EwIdle
  <2>. QED
    BY <2>2, <2>3, Zenon DEF Told
<1>6. /\ \A s \in Svcs, a \in Addrs \cup {Nil} : ~ShowIngress(s, a)
      /\ \A s \in Svcs, ns \in (SUBSET Nodes) \cup {Nil} : ~SetEndpoints(s, ns)
      /\ \A s \in Svcs : ~RemoveService(s)
      /\ ~MemberEvent
  BY Zenon DEF Undisturbed, ShowIngress, SetEndpoints, RemoveService, MemberEvent, Op
<1>7. ASSUME NEW e \in Eips, NEW i \in Offsets, NEW s \in Svcs, Record(e, i, s) \/ Release(e, i, s)
      PROVE  Calm' /\ Told'
  BY <1>2, <1>7, Zenon DEF Record, Release
<1>8. ASSUME NEW e \in Eips, NEW p \in Protocols, CreateEip(e, p) \/ SetProtocol(e, p) PROVE Calm' /\ Told'
  BY <1>2, <1>8, Zenon DEF CreateEip, SetProtocol
<1>9. ASSUME NEW e \in Eips, DeleteEip(e) \/ EipGone(e) PROVE Calm' /\ Told'
  BY <1>2, <1>9, SMTT(30) DEF DeleteEip, EipGone
<1>. QED
  BY <1>3, <1>4, <1>5, <1>6, <1>7, <1>8, <1>9, SMTT(30) DEF Environment

\* In the first states nothing is announced.
LEMMA InitTold == ASSUME Init, Undisturbed PROVE Calm /\ Told
<1>1. ew = EwIdle /\ lw = LwIdle /\ eipq = Eips
  BY Zenon DEF Init
<1>2. \A s \in Svcs : svcs[s].phase = "live" /\ svcs[s].eps # Nil /\ svcs[s].ingress = Nil
  <2>1. \A svc \in FirstSvcs : svc.phase = "live" /\ svc.eps = Nodes /\ svc.ingress = Nil
    BY Zenon DEF FirstSvcs, Undisturbed
  <2>2. Nil # Nodes
    BY ConstantsAssumption, SMTT(30)
  <2>. QED
    BY <2>1, <2>2 DEF Init
<1>3. \A e \in Eips : AtRest(e) /\ ew.key # e
  BY <1>1, ConstantsAssumption, SMTT(60) DEF Init, AtRest, Silent, EwIdle
<1>. QED
  BY <1>1, <1>2, <1>3, ConstantsAssumption, Zenon DEF Calm, Told, EwIdle

\* What pools tells, or the worker plans, is with one speaker.
LEMMA ToldOne == ASSUME Typed, Told PROVE OneSpeaker
<1>1. SUFFICES ASSUME NEW a \in Addrs
               PROVE  \A p, q \in {r \in Protocols : announced[r][a] # {}} : p = q
  BY Zenon DEF OneSpeaker
<1>2. PICK e \in Eips : a[1] = e
  BY Zenon DEF Addrs
<1>3. \E p : \A q \in Protocols : announced[q][a] # {} => q = p
  <2>1. Silent(announced, e) \/ \E p, S : Only(announced, e, p, S)
    BY Zenon DEF Told, Busy, AtRest
  <2>2. CASE Silent(announced, e)
    BY <1>2, <2>2, SMTT(30) DEF Silent
  <2>3. ASSUME NEW p, NEW S, Only(announced, e, p, S) PROVE \A q \in Protocols : announced[q][a] # {} => q = p
    BY <1>2, <2>3, Zenon DEF Only
  <2>. QED
    BY <2>1, <2>2, <2>3, SMTT(30)
<1>. QED
  BY <1>3, Zenon

\* Every step keeps Calm and Told.
LEMMA NextTold == ASSUME Undisturbed PROVE Typed /\ Calm /\ Told /\ [Next]_vars => Calm' /\ Told'
<1>1. ASSUME Calm, Told, UNCHANGED vars PROVE Calm' /\ Told'
  BY <1>1, Zenon DEF vars, cluster, speakers, Calm, Told, Busy, AtRest
<1>. QED
  BY <1>1, WorkerTold, ServiceTold, EnvironmentTold, Zenon DEF Next

\* HandleEIP withdraws an address from the old speaker before it turns to the new one: while
\* no call fails, the Services keep their Endpoints and no member event or shown address
\* calls a speaker past HandleEIP, no two speakers of the node ever announce the same address.
THEOREM ManagerOneSpeaker == ASSUME Undisturbed PROVE Spec => []OneSpeaker
<1>1. Spec => [](Typed /\ Calm /\ Told)
  BY InitTyped, InitTold, NextTyped, NextTold, PTL DEF Spec
<1>. QED
  BY <1>1, ToldOne, PTL

------------------------------------------------------------------------------
(* At rest.  An Eip that goes is handled once, after it was handled before *)
(* and for the last time, and every address the manager remembers as used  *)
(* is announced.                                                           *)

\* pools has nothing of an Eip that is gone, and of one that is being deleted only until the
\* worker is through with it.
Gone(e) ==
    /\ ~eips[e].exists => pools[e] = Nil /\ ew.key # e
    /\ eips[e].exists /\ eips[e].deleting =>
         IF ew.key = e THEN ew.obj = Nil /\ e \notin eipq ELSE e \in eipq <=> pools[e] # Nil

\* Every Node is there, and behind every Service.
Reached == nodes = Nodes /\ Nodes # {} /\ \A s \in Svcs : svcs[s].eps = Nodes

\* What the manager remembers of e as used is announced; of the Eip the worker is at, all that
\* obj uses will be.
Heard(e) ==
    IF ew.key = e
    THEN ew.obj # Nil =>
           /\ \A a \in DOMAIN ew.set : ew.set[a] # {}
           /\ IF ew.drop \/ ew.conf THEN DOMAIN Used(e, ew.obj) \subseteq DOMAIN ew.set
              ELSE /\ ew.del \cap DOMAIN Used(e, ew.obj) = {}
                   /\ \A a \in DOMAIN Used(e, ew.obj) :
                        \/ announced[ew.to][a] # {} \/ a \in DOMAIN ew.set
                        \/ ew.call # Nil /\ ew.call.addr = a
    ELSE pools[e] # Nil => \A a \in DOMAIN Used(e, pools[e]) : announced[pools[e].protocol][a] # {}

\* The worker is at one Eip, or at none, when it takes a step that does not start a reconcile.
LEMMA WorkerSteps ==
  ASSUME Typed, Calm, EipWorker
  PROVE  \/ \E e \in Eips : ReconcileEip(e)
         \/ \E e \in Eips : /\ ew.key = e
                            /\ \/ \E a \in Addrs : EwDelBalancer(a) \/ EwGetNodes(a)
                               \/ EwUnconfigure \/ EwConfigure \/ EwSetBalancer \/ EwFinish
<1>1. ew.key \in Eips \cup {Nil} /\ ~ResyncEIPSpeaker /\ EwTyped(ew)
  BY Zenon DEF Typed, EwTyped, EwRecord, Calm, ResyncEIPSpeaker
<1>2. CASE ew.key = Nil
  BY <1>1, <1>2, ConstantsAssumption, Zenon DEF EipWorker, EwDelBalancer, EwGetNodes, EwUnconfigure, EwConfigure,
       EwSetBalancer, EwFinish, Announcing, EwTyped
<1>3. CASE ew.key \in Eips
  BY <1>1, <1>3, Zenon DEF EipWorker
<1>. QED
  BY <1>1, <1>2, <1>3, Zenon

\* The worker keeps Gone: it drops an Eip that goes, and only then is done with it.
LEMMA WorkerGone ==
  ASSUME Typed, Undisturbed, Calm, Told, \A e \in Eips : Gone(e), EipWorker
  PROVE  \A e \in Eips : Gone(e)'
<1>1. eips' = eips /\ Nil \notin Eips
  BY ConstantsAssumption, Zenon DEF EipWorker, ReconcileEip, ResyncEIPSpeaker, EwDelBalancer, EwGetNodes, EwUnconfigure,
       EwConfigure, EwSetBalancer, EwFinish, cluster
<1>2. ASSUME NEW e \in Eips, ew.key = e, At(e) PROVE \A f \in Eips : Gone(f)'
  BY <1>1, <1>2 DEF Gone, At, Kept
<1>3. ASSUME NEW e \in Eips, ReconcileEip(e) PROVE \A f \in Eips : Gone(f)'
  <2>1. ew.key = Nil /\ pools' = pools /\ eips[e] \in EipObj
    BY <1>3, Zenon DEF ReconcileEip, EwIdle, Typed, TypeOK
  <2>2. CASE ew' = ew /\ eipq' = eipq
    BY <1>1, <2>1, <2>2, Zenon DEF Gone
  <2>3. CASE ~eips[e].exists /\ ew' = EwIdle /\ eipq' = eipq \ {e}
    BY <1>1, <2>1, <2>3, Zenon DEF Gone, EwIdle
  <2>4. CASE eips[e].exists /\ ew' = HandleEIP(e, eips[e]) /\ eipq' = eipq \ {e}
    <3>1. ew'.key \in {e, Nil}
      BY <2>4, SMTT(30) DEF HandleEIP, Plan, EwIdle
    <3>2. eips[e].deleting => ew'.key = e /\ ew'.obj = Nil
      <4>1. eips[e].deleting => pools[e] # Nil
        BY <1>1, <1>3, <2>1, <2>4, Zenon DEF Gone, ReconcileEip
      <4>. QED
        BY <2>4, <4>1, SMTT(30) DEF HandleEIP, Plan
    <3>. QED
      BY <1>1, <2>1, <2>4, <3>1, <3>2, ZenonT(30) DEF Gone
  <2>. QED
    BY <1>3, <2>2, <2>3, <2>4, Zenon DEF ReconcileEip
<1>4. ASSUME NEW e \in Eips, ew.key = e, EwFinish PROVE \A f \in Eips : Gone(f)'
  <2>1. Busy(e)
    BY <1>4, Zenon DEF Told
  <2>2. /\ ~ew.drop /\ ~ew.conf /\ ew'.key = Nil /\ eipq' = eipq
        /\ pools'[e] = IF ew.obj = Nil THEN pools[e] ELSE ew.obj
        /\ \A f \in Eips : f # e => Kept(f)
    BY <1>4, FinishDoes, Zenon
  <2>3. ew.obj = Nil => pools'[e] = Nil
    BY <2>1, <2>2, SMTT(30) DEF Busy
  <2>. QED
    BY <1>1, <1>4, <2>2, <2>3, SMTT(30) DEF Gone, Kept
<1>5. ASSUME NEW e \in Eips, ew.key = e, NEW a \in Addrs, EwDelBalancer(a) \/ EwGetNodes(a) PROVE At(e)
  BY <1>5, DelDoes, GetNodesDoes, Zenon
<1>6. ASSUME NEW e \in Eips, ew.key = e, EwUnconfigure \/ EwConfigure \/ EwSetBalancer PROVE At(e)
  BY <1>6, UnconfigureDoes, ConfigureDoes, SetDoes, Zenon
<1>. QED
  BY <1>2, <1>3, <1>4, <1>5, <1>6, WorkerSteps, Zenon

\* This node is in time for the end of an Eip.
InTime == {"known", "handled", "last"} \subseteq Prompt

\* The cluster keeps Gone when this node is in time for the end of an Eip.
LEMMA EnvironmentGone ==
  ASSUME Typed, InTime, \A e \in Eips : Gone(e), Environment
  PROVE  \A e \in Eips : Gone(e)'
<1>1. ASSUME eips' = eips, eipq' \ {Reload} = eipq \ {Reload}, ProcessUnchanged PROVE \A e \in Eips : Gone(e)'
  BY <1>1, ConstantsAssumption, Zenon DEF ProcessUnchanged, Gone
<1>2. ASSUME NEW e \in Eips, NEW obj, EipEvent(e, obj),
             obj.exists /\ (eips[e].exists => ~eips[e].deleting) /\ (obj.deleting => pools[e] # Nil /\ ew.key # e)
      PROVE  \A f \in Eips : Gone(f)'
  <2>1. /\ eips'[e] = obj /\ \A f \in Eips : f # e => eips'[f] = eips[f]
        /\ eipq' = eipq \cup {e} /\ pools' = pools /\ ew' = ew
    BY <1>2, Zenon DEF EipEvent, ProcessUnchanged, Typed, TypeOK
  <2>. QED
    BY <1>2, <2>1, Zenon DEF Gone
<1>3. \A e \in Eips : eips[e] \in EipObj
  BY Zenon DEF Typed, TypeOK
<1>4. ASSUME NEW e \in Eips, NEW i \in Offsets, NEW s \in Svcs, Record(e, i, s) \/ Release(e, i, s)
      PROVE  \A f \in Eips : Gone(f)'
  <2>. DEFINE obj == [eips[e] EXCEPT !.used[i] = @ \cup {s}]
              less == [eips[e] EXCEPT !.used[i] = @ \ {s}]
  <2>1. /\ obj.exists = eips[e].exists /\ less.exists = eips[e].exists
        /\ obj.deleting = eips[e].deleting /\ less.deleting = eips[e].deleting
    BY <1>3, Zenon DEF EipObj
  <2>. HIDE DEF obj, less
  <2>2. CASE Record(e, i, s)
    <3>1. eips[e].exists /\ ~eips[e].deleting /\ EipEvent(e, obj)
      BY <2>2, Zenon DEF Record, obj
    <3>. QED
      BY <1>2, <2>1, <3>1, Zenon
  <2>3. CASE Release(e, i, s)
    <3>1. ~eips[e].deleting /\ EipEvent(e, less)
      BY <2>3, Zenon DEF Release, InTime, less
    <3>2. CASE eips[e].exists
      BY <1>2, <2>1, <3>1, <3>2, Zenon
    <3>3. CASE ~eips[e].exists
      <4>1. /\ eips'[e] = less /\ \A f \in Eips : f # e => eips'[f] = eips[f]
            /\ eipq' = eipq \cup {e} /\ pools' = pools /\ ew' = ew
        BY <3>1, Zenon DEF EipEvent, ProcessUnchanged, Typed, TypeOK
      <4>. QED
        BY <2>1, <3>3, <4>1, Zenon DEF Gone
    <3>. QED
      BY <3>2, <3>3, Zenon
  <2>. QED
    BY <1>4, <2>2, <2>3, Zenon
<1>5. ASSUME NEW e \in Eips, NEW p \in Protocols, CreateEip(e, p) PROVE \A f \in Eips : Gone(f)'
  <2>. DEFINE obj == [GoneEip EXCEPT !.exists = TRUE, !.protocol = p]
  <2>1. obj.exists /\ ~obj.deleting
    BY Zenon DEF GoneEip
  <2>. HIDE DEF obj
  <2>2. EipEvent(e, obj) /\ ~eips[e].exists
    BY <1>5, Zenon DEF CreateEip, obj
  <2>. QED
    BY <1>2, <2>1, <2>2, Zenon
<1>6. ASSUME NEW e \in Eips, NEW p \in Protocols, SetProtocol(e, p) PROVE \A f \in Eips : Gone(f)'
  <2>. DEFINE obj == [eips[e] EXCEPT !.protocol = p]
  <2>1. obj.exists = eips[e].exists /\ obj.deleting = eips[e].deleting
    BY <1>3, Zenon DEF EipObj
  <2>. HIDE DEF obj
  <2>2. EipEvent(e, obj) /\ eips[e].exists /\ ~eips[e].deleting
    BY <1>6, Zenon DEF SetProtocol, obj
  <2>. QED
    BY <1>2, <2>1, <2>2, Zenon
<1>7. ASSUME NEW e \in Eips, DeleteEip(e) PROVE \A f \in Eips : Gone(f)'
  <2>. DEFINE obj == [eips[e] EXCEPT !.deleting = TRUE]
  <2>1. obj.exists = eips[e].exists
    BY <1>3, Zenon DEF EipObj
  <2>. HIDE DEF obj
  <2>2. EipEvent(e, obj) /\ eips[e].exists /\ ~eips[e].deleting /\ pools[e] # Nil /\ ew.key # e
    BY <1>7, Zenon DEF DeleteEip, InTime, obj
  <2>. QED
    BY <1>2, <2>1, <2>2, Zenon
<1>8. ASSUME NEW e \in Eips, EipGone(e) PROVE \A f \in Eips : Gone(f)'
  <2>1. eips[e].exists /\ eips[e].deleting /\ e \notin eipq /\ ew.key # e /\ EipEvent(e, GoneEip)
    BY <1>8, Zenon DEF EipGone, InTime
  <2>2. /\ eips'[e] = GoneEip /\ \A f \in Eips : f # e => eips'[f] = eips[f]
        /\ eipq' = eipq \cup {e} /\ pools' = pools /\ ew' = ew /\ ~GoneEip.exists
    BY <2>1, ZenonT(30) DEF EipEvent, ProcessUnchanged, Typed, TypeOK, GoneEip
  <2>. QED
    BY <2>1, <2>2, Zenon DEF Gone
<1>9. CASE Restart
  BY <1>9, ConstantsAssumption, SMTT(30) DEF Restart, InTime, cluster, EwIdle, Gone
<1>10. ASSUME NEW s \in Svcs, SetPolicy(s) \/ RemoveService(s) PROVE \A f \in Eips : Gone(f)'
  BY <1>1, <1>10, Zenon DEF SetPolicy, RemoveService
<1>11. ASSUME NEW s \in Svcs, NEW x, ShowIngress(s, x) \/ SetEndpoints(s, x) PROVE \A f \in Eips : Gone(f)'
  BY <1>1, <1>11, Zenon DEF ShowIngress, SetEndpoints
<1>12. ASSUME NEW n \in Nodes, ChangeNode(n) PROVE \A f \in Eips : Gone(f)'
  BY <1>1, <1>12, Zenon DEF ChangeNode
<1>13. CASE MemberEvent
  BY <1>1, <1>13, SMTT(30) DEF MemberEvent, cluster
<1>. QED
  BY <1>4, <1>5, <1>6, <1>7, <1>8, <1>9, <1>10, <1>11, <1>12, <1>13, Zenon DEF Environment

\* At rest pools has the live Eips, as the cache shows them, and no others.
LEMMA RestUsed ==
  ASSUME Typed, Fresh, Told, \A e \in Eips : Gone(e)
  PROVE  AnnouncedUsed
<1>1. SUFFICES ASSUME Quiet, NEW p \in Protocols, NEW a \in Addrs, announced[p][a] # {}
               PROVE  Live(a[1]) /\ eips[a[1]].protocol = p /\ Holders(a) # {}
  BY Zenon DEF AnnouncedUsed
<1>2. PICK e \in Eips : a[1] = e
  BY Zenon DEF Addrs
<1>3. ew.key # e /\ e \notin eipq
  BY <1>1, ConstantsAssumption, Zenon DEF Quiet, EwIdle
<1>4. pools[e] # Nil /\ p = pools[e].protocol /\ a \in DOMAIN Used(e, pools[e])
  BY <1>1, <1>2, <1>3, Zenon DEF Told, AtRest, Silent, Only
<1>5. Live(e)
  BY <1>3, <1>4, Zenon DEF Gone, Live
<1>6. Same(e, pools[e])
  BY <1>3, <1>5, Zenon DEF Fresh, Current
<1>. QED
  BY <1>2, <1>4, <1>5, <1>6, Zenon DEF Same, Used, Holders

\* An Eip that the worker is not at, and that is left alone, stays heard.
LEMMA HeardKept ==
  ASSUME Typed, NEW e \in Eips, ew.key # e, ew'.key # e, Heard(e), Kept(e)
  PROVE  Heard(e)'
<1>1. CASE pools[e] = Nil
  BY <1>1, Zenon DEF Heard, Kept
<1>2. CASE pools[e] # Nil
  <2>1. pools[e] \in EipObj /\ pools[e].protocol \in Protocols
    BY <1>2, Zenon DEF Typed, TypeOK, EipObj
  <2>2. \A a \in DOMAIN Used(e, pools[e]) : a \in Addrs /\ a[1] = e
    BY <2>1, UsedMap, Zenon
  <2>. QED
    BY <1>2, <2>1, <2>2 DEF Heard, Kept
<1>. QED
  BY <1>1, <1>2, Zenon

\* HandleEIP plans to announce what it does not remember as used.
LEMMA PlanHeard ==
  ASSUME Typed, NEW e \in Eips, NEW obj \in EipObj, Heard(e), ew.key # e, pools' = pools, speakers' = speakers,
         ew' = HandleEIP(e, obj)
  PROVE  Heard(e)'
<1>. DEFINE old == pools[e]
            U == DOMAIN Used(e, obj)
            O == DOMAIN Used(e, old)
            diff == DiffMaps(Used(e, old), Used(e, obj))
<1>1. Nil # obj /\ e # Nil /\ announced' = announced
  BY ConstantsAssumption, Zenon DEF speakers
<1>2. \A a \in U : Used(e, obj)[a] # {}
  BY Zenon DEF Used
<1>3. DOMAIN diff.add = U \ O /\ diff.del = O \ U /\ \A a \in U \ O : diff.add[a] # {}
  BY <1>2, SMTT(30) DEF DiffMaps, Restrict
<1>4. old # Nil => \A a \in O : announced[old.protocol][a] # {}
  BY Zenon DEF Heard
<1>. HIDE DEF O, U, diff
<1>5. CASE ew' = Plan(e, obj, obj.protocol, {}, FALSE, TRUE, Used(e, obj), TRUE)
  <2>1. ew'.key = e /\ ew'.obj = obj /\ ew'.set = Used(e, obj) /\ ew'.conf = TRUE
    BY <1>5, SMTT(30) DEF Plan
  <2>. QED
    BY <1>1, <1>2, <2>1, ZenonT(30) DEF Heard, U
<1>6. CASE ew' = Plan(e, obj, old.protocol, O, TRUE, FALSE, <<>>, FALSE)
  BY <1>6, SMTT(30) DEF Plan, Heard
<1>7. CASE ew' = Plan(e, obj, old.protocol, O, TRUE, TRUE, Used(e, obj), TRUE)
  <2>1. ew'.key = e /\ ew'.obj = obj /\ ew'.set = Used(e, obj) /\ ew'.conf = TRUE
    BY <1>7, SMTT(30) DEF Plan
  <2>. QED
    BY <1>1, <1>2, <2>1, Zenon DEF Heard, U
<1>8. CASE ew' = EwIdle
  BY <1>1, <1>4, <1>8, SMTT(30) DEF Heard, EwIdle, O
<1>9. CASE /\ ew' = Plan(e, obj, obj.protocol, diff.del, FALSE, FALSE, diff.add, TRUE)
           /\ old # Nil /\ obj.protocol = old.protocol
  BY <1>1, <1>3, <1>4, <1>9, SMTT(30) DEF Plan, Heard, U
<1>10. \/ ew' = Plan(e, obj, obj.protocol, {}, FALSE, TRUE, Used(e, obj), TRUE)
       \/ ew' = Plan(e, obj, old.protocol, O, TRUE, FALSE, <<>>, FALSE)
       \/ ew' = Plan(e, obj, old.protocol, O, TRUE, TRUE, Used(e, obj), TRUE)
       \/ ew' = EwIdle
       \/ /\ ew' = Plan(e, obj, obj.protocol, diff.del, FALSE, FALSE, diff.add, TRUE)
          /\ old # Nil /\ obj.protocol = old.protocol
  BY Zenon DEF HandleEIP, O, U, diff, isSpeakerConfigUpdate
<1>. QED
  BY <1>5, <1>6, <1>7, <1>8, <1>9, <1>10, Zenon

\* An address in use has nodes when every Node is there.
LEMMA NodesFound ==
  ASSUME Reached, NEW holders \in SUBSET Svcs, holders # {}
  PROVE  getServiceNodes(holders) # {}
<1>1. PICK s \in holders : s \in Svcs
  OBVIOUS
<1>2. svcs[s].eps \cap nodes = Nodes
  BY <1>1, Zenon DEF Reached
<1>. QED
  BY <1>1, <1>2 DEF getServiceNodes, Reached

\* The worker tells the speaker every address of its Eip, and forgets none.
LEMMA WorkerHeard ==
  ASSUME Typed, Undisturbed, Calm, Told, Telling, Reached, \A e \in Eips : Heard(e), EipWorker
  PROVE  \A e \in Eips : Heard(e)'
<1>1. Nil \notin Eips /\ ew \in EwRecord
  BY ConstantsAssumption, Zenon DEF Typed, EwTyped
<1>2. ASSUME NEW e \in Eips, ew.key = e, ew'.key \in {e, Nil}, \A f \in Eips : f # e => Kept(f), Heard(e)'
      PROVE  \A f \in Eips : Heard(f)'
  BY <1>1, <1>2, HeardKept, Zenon
<1>3. ASSUME NEW e \in Eips, ReconcileEip(e) PROVE \A f \in Eips : Heard(f)'
  <2>1. /\ ew.key = Nil /\ pools' = pools /\ speakers' = speakers /\ eips[e] \in EipObj
        /\ \A f \in Eips : Kept(f)
    BY <1>3, Zenon DEF ReconcileEip, EwIdle, Typed, TypeOK, Kept, speakers
  <2>2. CASE ew' = ew \/ ew' = EwIdle
    BY <1>1, <2>1, <2>2, HeardKept, SMTT(30) DEF EwIdle
  <2>3. CASE ew' = HandleEIP(e, eips[e])
    <3>1. ew'.key \in {e, Nil}
      BY <2>3, SMTT(30) DEF HandleEIP, Plan, EwIdle
    <3>2. Heard(e)'
      BY <1>1, <2>1, <2>3, PlanHeard, Zenon
    <3>. QED
      BY <1>1, <2>1, <3>1, <3>2, HeardKept, ZenonT(30)
  <2>. QED
    BY <1>3, <2>2, <2>3, Zenon DEF ReconcileEip
<1>4. ASSUME NEW e \in Eips, ew.key = e
      PROVE  /\ Heard(e) /\ Busy(e) /\ ew.to \in Protocols
             /\ ew.obj # Nil => \A a \in DOMAIN Used(e, ew.obj) : a \in Addrs /\ a[1] = e
  BY <1>1, <1>4, UsedMap, Zenon DEF EwRecord, Told
<1>5. ASSUME NEW e \in Eips, ew.key = e, NEW a \in Addrs, EwDelBalancer(a) PROVE \A f \in Eips : Heard(f)'
  <2>1. /\ At(e) /\ a \in ew.del
        /\ ew'.drop = ew.drop /\ ew'.conf = ew.conf /\ ew'.set = ew.set /\ ew'.call = ew.call
        /\ ew'.del = ew.del \ {a}
        /\ \A q \in Protocols, b \in Addrs :
             announced'[q][b] = IF q = ew.from /\ b = a THEN {} ELSE announced[q][b]
    BY <1>5, DelDoes, ZenonT(30)
  <2>2. Heard(e)'
    BY <1>4, <1>5, <2>1, SMTT(30) DEF Heard, At
  <2>. QED
    BY <1>2, <1>5, <2>1, <2>2, Zenon DEF At
<1>6. ASSUME NEW e \in Eips, ew.key = e, EwUnconfigure PROVE \A f \in Eips : Heard(f)'
  <2>1. /\ At(e) /\ ew.drop /\ ew'.conf = ew.conf /\ ew'.set = ew.set
    BY <1>6, UnconfigureDoes, Zenon
  <2>2. ew.obj # Nil => ew.conf
    BY <1>4, <1>6, <2>1, ZenonT(30) DEF Busy
  <2>3. Heard(e)'
    BY <1>4, <1>6, <2>1, <2>2, SMTT(30) DEF Heard, At
  <2>. QED
    BY <1>2, <1>6, <2>1, <2>3, Zenon DEF At
<1>7. ASSUME NEW e \in Eips, ew.key = e, EwConfigure PROVE \A f \in Eips : Heard(f)'
  <2>1. At(e) /\ ew.conf /\ ~ew'.conf /\ ~ew'.drop /\ ew'.set = ew.set /\ ew'.del = {}
    BY <1>7, ConfigureDoes, ZenonT(30)
  <2>2. Heard(e)'
    BY <1>4, <1>7, <2>1, SMTT(30) DEF Heard, At
  <2>. QED
    BY <1>2, <1>7, <2>1, <2>2, Zenon DEF At
<1>8. ASSUME NEW e \in Eips, ew.key = e, NEW a \in Addrs, EwGetNodes(a) PROVE \A f \in Eips : Heard(f)'
  <2>1. /\ At(e) /\ announced' = announced /\ ~ew.drop /\ ~ew.conf /\ ew.call = Nil /\ a \in DOMAIN ew.set
        /\ ~ew'.drop /\ ~ew'.conf /\ ew'.del = ew.del
        /\ ew'.set = Restrict(ew.set, DOMAIN ew.set \ {a}) /\ DOMAIN ew'.set = DOMAIN ew.set \ {a}
        /\ \/ ew'.call = Nil /\ getServiceNodes(ew.set[a]) = {}
           \/ ew'.call # Nil /\ ew'.call.addr = a
    BY <1>8, GetNodesDoes, Zenon
  <2>2. \A b \in DOMAIN ew'.set : ew'.set[b] = ew.set[b]
    BY <2>1, Zenon DEF Restrict
  <2>3. ew.set[a] \in SUBSET Svcs
    BY <1>1, <2>1, MapFacts, Zenon DEF EwRecord
  <2>4. ew.obj # Nil => ew'.call # Nil /\ ew'.call.addr = a
    BY <1>4, <1>8, <2>1, <2>3, NodesFound, ZenonT(30) DEF Heard
  <2>5. Heard(e)'
    <3>1. /\ ew'.key = e /\ ew'.obj = ew.obj /\ ew'.to = ew.to /\ announced' = announced
          /\ ~ew'.drop /\ ~ew'.conf /\ ew'.del = ew.del /\ DOMAIN ew'.set = DOMAIN ew.set \ {a}
      BY <2>1, Zenon DEF At
    <3>2. ew.obj # Nil =>
            /\ \A b \in DOMAIN ew.set : ew.set[b] # {}
            /\ ew.del \cap DOMAIN Used(e, ew.obj) = {}
            /\ \A b \in DOMAIN Used(e, ew.obj) : announced[ew.to][b] # {} \/ b \in DOMAIN ew.set
      BY <1>4, <1>8, <2>1, Zenon DEF Heard
    <3>. QED
      BY <2>2, <2>4, <3>1, <3>2, SMTT(30) DEF Heard
  <2>. QED
    BY <1>2, <1>8, <2>1, <2>5, Zenon DEF At
<1>9. ASSUME NEW e \in Eips, ew.key = e, EwSetBalancer PROVE \A f \in Eips : Heard(f)'
  <2>1. /\ At(e) /\ ~ew.drop /\ ~ew.conf /\ ew.del = {} /\ ew.call # Nil
        /\ ~ew'.drop /\ ~ew'.conf /\ ew'.set = ew.set /\ ew'.call = Nil /\ ew'.del = ew.del
        /\ \A q \in Protocols, b \in Addrs :
             announced'[q][b] = IF q = ew.to /\ b = ew.call.addr THEN ew.call.nodes ELSE announced[q][b]
    BY <1>9, SetDoes, Zenon
  <2>2. ew.call.nodes # {}
    BY <2>1, ZenonT(30) DEF Telling
  <2>3. Heard(e)'
    BY <1>4, <1>9, <2>1, <2>2, SMTT(30) DEF Heard, At
  <2>. QED
    BY <1>2, <1>9, <2>1, <2>3, Zenon DEF At
<1>10. ASSUME NEW e \in Eips, ew.key = e, EwFinish PROVE \A f \in Eips : Heard(f)'
  <2>1. /\ ~ew.drop /\ ~ew.conf /\ ew.call = Nil /\ DOMAIN ew.set = {} /\ announced' = announced
        /\ ew'.key = Nil /\ pools'[e] = IF ew.obj = Nil THEN pools[e] ELSE ew.obj
        /\ \A f \in Eips : f # e => Kept(f)
    BY <1>10, FinishDoes, Zenon
  <2>2. /\ ew.obj = Nil => pools[e] = Nil
        /\ ew.obj # Nil => ew.to = ew.obj.protocol
    BY <1>4, <1>10, <2>1, ZenonT(30) DEF Busy
  <2>3. Heard(e)'
    BY <1>1, <1>4, <1>10, <2>1, <2>2, SMTT(30) DEF Heard
  <2>. QED
    BY <1>2, <1>10, <2>1, <2>3, Zenon
<1>. QED
  BY <1>3, <1>5, <1>6, <1>7, <1>8, <1>9, <1>10, WorkerSteps, Zenon

\* What the cluster does leaves what was heard alone, and the Nodes where they are.
LEMMA EnvironmentHeard ==
  ASSUME Typed, Undisturbed, "node" \notin Ops, Reached, \A e \in Eips : Heard(e), Environment
  PROVE  Reached' /\ \A e \in Eips : Heard(e)'
<1>1. ASSUME ProcessUnchanged PROVE \A e \in Eips : Heard(e)'
  BY <1>1, Zenon DEF ProcessUnchanged, speakers, Heard
<1>2. /\ \A s \in Svcs, a \in Addrs \cup {Nil} : ~ShowIngress(s, a)
      /\ \A s \in Svcs, ns \in (SUBSET Nodes) \cup {Nil} : ~SetEndpoints(s, ns)
      /\ \A s \in Svcs : ~RemoveService(s)
      /\ \A n \in Nodes : ~ChangeNode(n)
      /\ ~MemberEvent
  BY Zenon DEF Undisturbed, ShowIngress, SetEndpoints, RemoveService, ChangeNode, MemberEvent, Op
<1>3. ASSUME NEW e \in Eips, NEW obj, EipEvent(e, obj) PROVE Reached' /\ \A f \in Eips : Heard(f)'
  BY <1>1, <1>3, Zenon DEF EipEvent, Reached
<1>4. ASSUME NEW s \in Svcs, SetPolicy(s) PROVE Reached' /\ \A f \in Eips : Heard(f)'
  <2>1. svcs' = [svcs EXCEPT ![s].local = ~@] /\ nodes' = nodes /\ ProcessUnchanged
    BY <1>4, Zenon DEF SetPolicy
  <2>2. \A t \in Svcs : svcs'[t].eps = svcs[t].eps
    BY <2>1, Zenon DEF Typed, TypeOK, SvcObj
  <2>. QED
    BY <1>1, <2>1, <2>2, Zenon DEF Reached
<1>5. CASE Restart
  <2>1. ew'.key = Nil /\ nodes' = nodes /\ svcs' = svcs /\ \A e \in Eips : pools'[e] = Nil
    BY <1>5, Zenon DEF Restart, cluster, EwIdle
  <2>2. \A e \in Eips : e # Nil
    BY ConstantsAssumption, Zenon
  <2>. QED
    BY <2>1, <2>2, Zenon DEF Reached, Heard
<1>6. ASSUME NEW e \in Eips, NEW i \in Offsets, NEW s \in Svcs, Record(e, i, s) \/ Release(e, i, s)
      PROVE  Reached' /\ \A f \in Eips : Heard(f)'
  BY <1>3, <1>6, Zenon DEF Record, Release
<1>7. ASSUME NEW e \in Eips, NEW p \in Protocols, CreateEip(e, p) \/ SetProtocol(e, p)
      PROVE  Reached' /\ \A f \in Eips : Heard(f)'
  BY <1>3, <1>7, Zenon DEF CreateEip, SetProtocol
<1>8. ASSUME NEW e \in Eips, DeleteEip(e) \/ EipGone(e) PROVE Reached' /\ \A f \in Eips : Heard(f)'
  BY <1>3, <1>8, SMTT(30) DEF DeleteEip, EipGone
<1>. QED
  BY <1>2, <1>4, <1>5, <1>6, <1>7, <1>8, SMTT(30) DEF Environment

\* At rest every address a live Eip has in use is one that pools remembers.
LEMMA RestHeard ==
  ASSUME Typed, Fresh, \A e \in Eips : Heard(e)
  PROVE  UsedAnnounced
<1>1. SUFFICES ASSUME Quiet, NEW a \in Addrs, Live(a[1]), Holders(a) # {}
               PROVE  announced[eips[a[1]].protocol][a] # {}
  BY Zenon DEF UsedAnnounced
<1>2. PICK e \in Eips : a[1] = e
  BY Zenon DEF Addrs
<1>3. ew.key # e /\ e \notin eipq
  BY <1>1, ConstantsAssumption, Zenon DEF Quiet, EwIdle
<1>4. Same(e, pools[e])
  BY <1>1, <1>2, <1>3, Zenon DEF Fresh, Current
<1>5. a \in DOMAIN Used(e, eips[e])
  BY <1>1, <1>2, UsedHolders, Zenon
<1>. QED
  BY <1>2, <1>3, <1>4, <1>5, SMTT(30) DEF Heard, Same

\* delBalancer and the loss of the configuration: when both workers are at rest, what a
\* speaker announces is an address in use of a live Eip with the speaker's protocol; released
\* addresses, deleted Eips and left protocols are withdrawn.  Undisturbed as above, and this
\* node must be in time for the end of an Eip, which the manager cannot enforce.
THEOREM ManagerAnnouncedUsed == ASSUME Undisturbed, InTime PROVE Spec => []AnnouncedUsed
<1>. DEFINE Inv == Typed /\ Fresh /\ Telling /\ Calm /\ Told /\ \A e \in Eips : Gone(e)
<1>1. Init => Inv
  <2>1. ASSUME Init PROVE \A e \in Eips : Gone(e)
    <3>1. \A e \in Eips : eips[e].exists /\ ~eips[e].deleting
      <4>1. \A obj \in FirstEips : obj.exists /\ ~obj.deleting
        BY Zenon DEF FirstEips, GoneEip
      <4>. QED
        BY <2>1, <4>1, Zenon DEF Init
    <3>. QED
      BY <3>1, Zenon DEF Gone
  <2>. QED
    BY <2>1, InitTyped, InitFresh, InitTold, Zenon
<1>2. Inv /\ [Next]_vars => Inv'
  <2>1. ASSUME Inv, UNCHANGED <<eips, eipq, pools, ew>> PROVE \A e \in Eips : Gone(e)'
    BY <2>1, Zenon DEF Gone
  <2>2. SvcWorker => UNCHANGED <<eips, eipq, pools, ew>>
    BY Zenon DEF SvcWorker, HandleService, LwSetBalancer, cluster
  <2>3. Inv /\ [Next]_vars => \A e \in Eips : Gone(e)'
    BY <2>1, <2>2, WorkerGone, EnvironmentGone, Zenon DEF Next, vars, cluster
  <2>. QED
    BY <2>3, NextTyped, NextFresh, NextTold, Zenon
<1>3. Inv => AnnouncedUsed
  BY RestUsed, Zenon
<1>. QED
  BY <1>1, <1>2, <1>3, PTL DEF Spec

\* setBalancer: when both workers are at rest, every address a live Eip has in use and for
\* which there are nodes has been given to the speaker of the Eip's protocol, for every order
\* of records, releases, protocol changes, deletions and restarts.  Undisturbed as above, and
\* the Nodes stay: an address whose nodes come back later is not told to its speaker.
THEOREM ManagerUsedAnnounced == ASSUME Undisturbed, "node" \notin Ops PROVE Spec => []UsedAnnounced
<1>1. CASE Nodes = {}
  <2>1. Typed => UsedAnnounced
    <3>1. ASSUME Typed, NEW a \in Addrs PROVE getServiceNodes(Holders(a)) = {}
      <4>1. Holders(a) \in SUBSET Svcs
        BY <3>1 DEF Typed, TypeOK, EipObj, Addrs, Holders
      <4>. QED
        BY <1>1, <3>1, <4>1, NodesTyped, Zenon DEF Typed
    <3>. QED
      BY <3>1, Zenon DEF UsedAnnounced
  <2>. QED
    BY <2>1, InitTyped, NextTyped, PTL DEF Spec
<1>2. CASE Nodes # {}
  <2>. DEFINE Inv == Typed /\ Fresh /\ Telling /\ Calm /\ Told /\ Reached /\ \A e \in Eips : Heard(e)
  <2>1. Init => Inv
    <3>1. ASSUME Init PROVE Reached
      <4>1. \A svc \in FirstSvcs : svc.eps = Nodes
        BY Zenon DEF FirstSvcs, Undisturbed
      <4>. QED
        BY <1>2, <3>1, <4>1, Zenon DEF Init, Reached
    <3>2. ASSUME Init PROVE \A e \in Eips : Heard(e)
      BY <3>2, ConstantsAssumption, Zenon DEF Init, Heard, EwIdle
    <3>. QED
      BY <3>1, <3>2, InitTyped, InitFresh, InitTold, Zenon
  <2>2. Inv /\ [Next]_vars => Inv'
    <3>1. ASSUME Inv, UNCHANGED <<svcs, nodes, pools, announced, ew>> PROVE Reached' /\ \A e \in Eips : Heard(e)'
      BY <3>1, Zenon DEF Reached, Heard
    <3>2. ASSUME Inv, EipWorker PROVE Reached' /\ \A e \in Eips : Heard(e)'
      <4>1. svcs' = svcs /\ nodes' = nodes
        BY <3>2, Zenon DEF EipWorker, ReconcileEip, ResyncEIPSpeaker, EwDelBalancer, EwGetNodes, EwUnconfigure,
             EwConfigure, EwSetBalancer, EwFinish, cluster
      <4>. QED
        BY <3>2, <4>1, WorkerHeard, Zenon DEF Reached
    <3>3. ASSUME Inv, SvcWorker PROVE UNCHANGED <<svcs, nodes, pools, announced, ew>>
      BY <3>3, Zenon DEF SvcWorker, HandleService, LwSetBalancer, cluster, speakers, Calm
    <3>4. Inv /\ [Next]_vars => Reached' /\ \A e \in Eips : Heard(e)'
      BY <3>1, <3>2, <3>3, EnvironmentHeard, Zenon DEF Next, vars, cluster, speakers
    <3>. QED
      BY <3>4, NextTyped, NextFresh, NextTold, Zenon
  <2>3. Inv => UsedAnnounced
    BY RestHeard, Zenon
  <2>. QED
    BY <2>1, <2>2, <2>3, PTL DEF Spec
<1>. QED
  BY <1>1, <1>2, Zenon
===============================================================================
