--------------------------- MODULE MCReconcilersLive ---------------------------
(***************************************************************************)
(* Liveness of the allocator and of the speaker manager of a node, for     *)
(* TLC.  part says which of the two a behaviour is about; the other one    *)
(* stays in its initial state.                                             *)
(***************************************************************************)
EXTENDS Ipam

CONSTANTS e1, s1, s2, n1

VARIABLES part, eips2, svcs2, nodes, pools, configured, announced, eipq2, svcq, ew2, lw, ops2, faults2

vars2 == <<eips2, svcs2, nodes, pools, configured, announced, eipq2, svcq, ew2, lw, ops2, faults2>>
liveVars == <<part, vars, vars2>>

\* Ipam: two addresses, and Services that name their pool.
TwoEach == [e \in Eips |-> 2]
NamedPool == {[class |-> "lb", wantEip |-> e1, wantIP |-> Nil]}
AllCompatible == Svcs \X Eips
EqualPriority == [e \in Eips |-> 0]

\* SpeakerManager: one address that two Services share; two calls fail.
Manager == INSTANCE SpeakerManager WITH Eips <- {e1}, Svcs <- {s1, s2}, Nodes <- {n1}, Size <- 1,
    Registered <- {"bgp", "layer2", "vip"}, Ops <- {"record", "ingress", "policy", "member", "restart"},
    MaxOps <- 3, MaxFaults <- 2, Prompt <- {"known", "handled", "last"},
    eips <- eips2, svcs <- svcs2, eipq <- eipq2, ew <- ew2, ops <- ops2, faults <- faults2

\* Edits and faults together.
MaxDisturbances == 3

\* A step A of the allocator, of the manager.
Alloc(A) == part = "allocator" /\ A /\ ops' + faults' <= MaxDisturbances /\ UNCHANGED <<part, vars2>>
Mgr(A) == part = "manager" /\ A /\ ops2' + faults2' <= MaxDisturbances /\ UNCHANGED <<part, vars>>

\* The one that part is not about starts in one of its states, whichever.
LiveInit ==
    /\ Init /\ Manager!Init
    /\ \/ part = "allocator" /\ eips2[e1].protocol = "bgp" /\ \A s \in {s1, s2} : ~svcs2[s].local
       \/ part = "manager"

LiveNext == Alloc(Next) \/ Mgr(Manager!Next)

\* The fairness of Ipam and of SpeakerManager: as part never changes, fairness to a
\* disjunction is fairness to each.
LiveFairness ==
    /\ \A s \in Svcs : SF_liveVars(Alloc(Reconcile(s))) /\ WF_liveVars(Alloc(DeliverSvc(s)))
    /\ \A e \in Eips : SF_liveVars(Alloc(ReconcileEip(e))) /\ WF_liveVars(Alloc(DeliverEip(e)))
    /\ WF_liveVars(\/ Alloc(ReleaseIP \/ AssignIP \/ UpdateService \/ UpdateServiceStatus)
                   \/ Mgr(Manager!EipWorker))
    /\ WF_liveVars(\/ Alloc((\E s \in Svcs : RemoveLabel(s)) \/ RemoveFinalizer \/ AddFinalizer \/ SyncStatus)
                   \/ Mgr(Manager!SvcWorker))

LiveSpec == LiveInit /\ [][LiveNext]_liveVars /\ LiveFairness

\* HandleEIP with the retries of the workqueue: an address in use is announced at last.
EventuallyAnnounced == Manager!EventuallyAnnounced
===============================================================================
